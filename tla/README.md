# Verification of the nRF52840 OpenThread RCP updater

TLA+ models, TLC configurations and TLAPS proofs for the add-on in
`src/nrf52840_ot_rcp_updater/app`. The add-on flashes the firmware of a PCA10059
dongle (the radio co-processor, RCP) that another add-on, OpenThread Border
Router (OTBR), normally owns. What can go wrong is rarely in one function: it is
two owners of one radio, an outage nobody ends, a record that disagrees with the
dongle, a command nobody answers, a file left over. Around the transaction come the
entity in Home Assistant that asks for it, the channel over which firmware gets
there, and the serial line and the bus over which the dongle is reached. The models
are about these.

Source paths below are relative to `src/nrf52840_ot_rcp_updater/app`, or to `src`
when they begin with `tools/`, `.github/` or `README.md`.

## 1. The system

| Component | State it keeps | Operations | What makes it correct |
|---|---|---|---|
| Update transaction, `updater.py` | locals of `install_prepared` and `current_version` | validate, preflight of OTBR, read version, enter the bootloader, flash, verify, commit | only a version read from the running dongle is recorded; downgrades and recovery are authorised; it ends |
| OTBR ownership, `supervisor.py` | `was_running` | `temporarily_stop`, start, stop, wait, restore in three attempts | OTBR is stopped while the dongle is used, and gets it back |
| Quiet window, `preflight.py` | none | poll OTBR's actions and dataset | refuses while the network is being managed |
| State and lock, `state.py` | `state.json`, `update.lock` | load, save by rename, `flock` | one transaction at a time, also across runs of the add-on |
| DFU back end, `dfu.py` | none (the dongle's) | select, probe, transfer, reboot through `nrfdfu` | touches only the selected dongle |
| Spinel client, `spinel.py` | HDLC decoder | read the version, reset to bootloader | decodes what was encoded |
| Operation controller, `operation.py` | busy, active identifier, state, a queue with one place | submit, next, wake, start, complete, fail, cancel | one operation; each accepted one is executed and announced |
| Main loop, `main.py` | `running`, copy of the state, rescan deadline | operations, rescans, refresh, SIGTERM | serves the controller; marks firmware unknown after a failure |
| Ingress, `ingress.py` | registry of staged artifacts, handler threads, reaper | validate, flash, status, expire, close | each temporary file has one owner and goes |
| Manual artifacts, `manual_artifact.py` | temporary files | write an upload, download, check the ELF | a failed one leaves no file |
| MQTT entity, `mqtt_update.py` | connection; retained messages at the broker | start, greet, publish, receive the install command, stop | one execution per request of the user; nobody sees it available and deaf, or available when it is gone |
| Models, `models.py` | none | order of versions, DFU version, options | the two orders agree |
| Manifest, `manifest.py` | download cache | fetch, verify signatures, choose a release | hands over only what a signed manifest names |
| Release workflow, `.github/workflows/ncs-candidate.yml` with `tools/` | firmware branch, signing secret, public keys on main | discover, build, publish, reset; rotation of the key | every listed release can be installed; no rotation cuts off an add-on |
| License and provenance tools, web page, packaging, helper patches | | | not modelled, section 5 |

How they interact. MQTT callbacks and Ingress handlers run in threads of their
own and only call `OperationController.submit`. The main thread takes the command
from the queue and runs the whole transaction; between operations it rescans and
refreshes. The transaction holds `update.lock`, calls Supervisor over HTTP to stop
and start OTBR, opens the dongle through pyserial and runs `nrfdfu`. SIGTERM
interrupts the main thread anywhere. Supervisor, an administrator of Home Assistant
and the dongle itself act on their own.

The hard behaviours: every call to Supervisor may take effect and lose its answer;
the dongle may be re-enumerated, lost or left in its bootloader; the run may be
killed at any step and its successor may overlap it; the record is read in one
place and used in another; the signal handler shares a mutex with the thread it
interrupts; Ingress handlers are not stopped by anything that the main thread does.
The broker replays and redelivers, and remembers what a killed run said last. A
manifest, an image and their signatures are four requests answered from different
commits. A tty belongs to whichever dongle enumerated last.

## 2. The modules

| Module | Models | Uses |
|---|---|---|
| `OtbrAddon` | the OTBR add-on under Supervisor (external) | |
| `RcpDevice` | image, personality and transfers of the dongle (external) | |
| `FirmwareTransaction` | abstract: one transaction at a time, what the updater promises | |
| `RcpUpdater` | transaction, hand-over, lock, record, and the operations and rescans of the main loop | `OtbrAddon`, `RcpDevice`; implements `FirmwareTransaction` |
| `RcpUpdater_proofs` | theorems about it: types, the lock, the radio, the outage | |
| `RcpUpdater_record_proofs` | theorems about it: downgrades, the record, the refinement | |
| `OperationSlot` | abstract: one slot, what the controller promises | |
| `OperationController` | controller, queue with its mutex, main loop, SIGTERM | implements `OperationSlot` |
| `OperationController_proofs` | theorems about it | |
| `Ingress` | handlers, registry, reaper, main thread, end of a run | composed with `OperationSlot` |
| `Ingress_proofs` | theorems about it | |
| `MqttEntity` | client, network thread, main loop as it publishes, broker, across runs | composed with `OperationSlot` |
| `MqttEntity_proofs` | theorems about it | |
| `Versions` | tags, their order, their DFU version | |
| `FirmwareChannel` | workflow, firmware branch with its caches, key rotation, the add-on's downloads | `Versions` |
| `FirmwareChannel_proofs` | theorems about both | |
| `SpinelCodec` | HDLC framing, check sequence, packed integers, version request | |
| `SpinelCodec_proofs` | theorems about it: damage, frames, answers | |
| `RadioAccess` | one operation on a bus with several dongles: Spinel, selection, probe, transfer, deadlines | `SpinelCodec` |
| `RadioAccess_proofs` | theorems about it | `SpinelCodec_proofs` |
| `MC*` | constants of the runs | |

### RcpUpdater

A process is one run of the add-on; its `pc` names the place of its main thread in
`install_prepared`, `current_version`, `temporarily_stop` or the loop of `run`, and
`tx` holds the locals that outlive a step (`was`, `otbrWas`, `selected`, `recovery`,
`retry`, `attempts`, `result`, `err`). Each call to something outside is an action
with all its outcomes: done, refused, done with the answer lost. Python's exception
flow is in four operators: `Abort` (raised outside the `with` of
`temporarily_stop`), `Unwind` (raised inside: the restoration comes next), `Leave`
(the `with` ends, the error is raised again) and `Handler` (who catches it).

Two history variables carry what the code cannot know. `debt` says that the
updater stopped OTBR and why it might stay down: `owed` while a transaction will
restore it, `handshake` after an unconfirmed stop, `restore` after three failed
attempts, `crash`. `claim` says what the lock holder knows of the radio: `held`,
`transitional` (OTBR was starting or in error at the hand-over), `lost` (an
administrator started it meanwhile). Neither guards an action.

`FirmwareTransaction` is what all of it promises: one run at a time opens the
transaction, borrows the radio, writes, reads, gives back and records, in this order,
and may end at each stage. The image changes only while the radio is borrowed and not
after it was read; what gets into the record was read, and is written only after the
radio was given back (or, by a rescan, outside the transaction). `ImplementsTransaction`
maps the holder to `lock`, the stage to the place of the run that holds it (`Place`),
the image to `fw`, the record to `disk` and what a run has read to `result` in its `tx`.
A save can take effect and be reported as failed (the directory cannot be synced after
the rename, state.py:62, and main.py:362 takes the operation for failed): this is
`RecordInDoubt`, and the second outcome of `Commit`.

### OperationController

A method holds the controller's lock throughout and is one step. `Queue.get` is
three (`LockQueue`, `Wait`, `Take`), because a SIGTERM lands between them: `Signal`
suspends the main thread, and `Wake` is the handler's `put_nowait`, which needs the
mutex of the queue. Every exception that leaves the loop is an outcome of `Chores`
or `Break`. `OperationSlot` is the promise: a command enters an empty slot, only the
command in the slot is executed, none twice, and the slot is emptied by announcing
the outcome.

### Ingress

Each artifact has a handler that validates it (`Validate`, `Store`, `Probe`,
`Preflight`, `Stage`) and each flash request one that claims, submits and then
consumes or releases. Methods of the registry are one step each, with the sweep of
expired entries inside. The main thread is reduced to what touches files, the slot
and the bootloader's endpoint, which nrfdfu locks: the preflight of a validation holds
it while it probes, and so do the operation's own probe (`ProbeTarget`, repeated until
one is answered) and its transfer, which follows such a probe and has one attempt. The controller is the slot of `OperationSlot`: what
is checked here holds with the real controller because `OperationController`
implements that slot.

### MqttEntity

Three threads of control: the broker (`Deliver`, `Expire`, `Redeliver`), the client's
network thread (`Dial`, `Accept`, `Greet`, `Lose`, `Receive`) and the main thread of
the add-on (`Started` to `Join`). Broker and client library are external, reduced to
what `mqtt_update.py` relies on. `on_connect` is two steps, because the other threads
run between what it publishes first (`Greeting`: discovery, the removal of retired
helpers, the subscription) and availability (`Online`). A publication is refused
while there is no connection, and kept all the same, to be sent after the next
greeting: so `publish_state` raises, and its message still arrives, possibly long
after it was true. The broker publishes the will of a session that breaks, takes over
one when the client comes back, and drops one that says goodbye. `asked` and `origin`
are histories that tie a command to the request of a user behind it; `late` records
the one race the code leaves open (section 5).

### Versions and FirmwareChannel

`Versions` is two definitions of order over tags: `Before`, which compares
`version_key`, and `DfuVersion`, which the bootloader compares. `FirmwareChannel` has
the workflow on one side (`Discover`, `Build`, `Publish` one tag after the other,
`Reset`, and `Fail` anywhere), the add-on on the other (`FetchManifest`,
`CheckManifest`, `FetchImage`, `CheckImage`), and between them `served`, the commits
that a request may be answered from. Each of the add-on's four requests chooses one
of them anew. The rotation of the signing key is five steps of the maintainer, taken
from README.md:620-639 and external; what each changes (secret, keys on main,
branch) is code, and `UpdateAddon` is the user who installs what main has.

### SpinelCodec and RadioAccess

`SpinelCodec` works on bytes: `Frame` is what the dongle sends, `Feed` the decoder's
step, `VersionIn` the version that `get_ncp_version` finds in a stream. `IsVersion` is what it
refuses of a whole answer: a text that is not strict UTF-8, or has more than
`MaxTextChars` (512) characters (spinel.py:160, 199-203). A number is
the set of its one bits where the code works on bits, and what the code computes byte
by byte is a recursive function over the sequence. `RadioAccess` puts an operation
on a bus: dongles have a USB port, a personality, a tty and an image, and take any
free tty when they enumerate; a user moves them, an application restarts by itself
(`Restart`), and a bootloader may give up. `Answering` are the dongles behind
the configured tty; `Matching` is `_matching_dfu_targets`; `Endpoint` is whoever
nrfdfu really opens, given a serial number and a tty. Between `Enumerate` and
`Transfer` a dongle may have gone and another one taken its tty: `taken` records it,
and `steady` that the operation went through the application, and since it began nobody
touched a dongle and no bootloader gave up. nrfdfu is told to do something to a dongle
(`Touched`) by the transfer and by the last reboot of the verification, which is a probe
of its own (`ProbeReboot`) and then `RebootApplication` at the endpoint that it named. An
nrfdfu that is killed after 300 s may have written the image before. Which versions may be replaced, and OTBR, stay in `RcpUpdater`.

## 3. The runs

| Run | Instance | Checks | Shows |
|---|---|---|---|
| `one` | one run, versions 1 and 2, all four option sets | `TypeOK`, `RadioOwnership`, `NoForgottenOutage`, `RecordCurrent`, `RecordedIsVerified`, `NativeDowngradeNeedsRecord`, `ImplementsTransaction` | the transaction with every failure, crash and outside actor |
| `ends` | one run, one version, default options | `OperationsEnd` | every operation ends under the fairness of its own thread |
| `two` | two runs, one version, permissive options, constraint `TwoRuns` | `OneTransaction`, `RecordedIsVerified`, `ImplementsTransaction` | overlapping runs exclude each other |
| `queue` | three commands, one SIGTERM | `TypeOK`, `BusyIsServed`, `TakenIsAnnounced`, `AcceptedIsSettled`, `ImplementsSlot` | admission and execution stay in step |
| `files` | two uploads, two flash requests, one MQTT command, a registry of one | `TypeOK`, `PendingHasFile`, `OneFlashPerArtifact`, `FileIsOwned`, `FilesGo` | the life of temporary files |
| `mqtt` | one request, two runs of the add-on, two broken connections or kills | `TypeOK`, `RequestRunsOnce`, `AvailableIsHeard`, `EndsUnavailable`, `BecomesAvailable`, `StaleProgressEnds` | what Home Assistant is told, and which requests are executed |
| `channel` | a release candidate and its final tag, three channel policies, one key rotation | `TypeOK`, `BranchIsWhole`, `AddonIsServed`, `HandedIsNamed`, `UpdatesAreUpgrades`, `OffersTheNewest`, `InstallsTheNewest` | the way of an image from the workflow to the transaction |
| `radio` | two dongles with one serial number, two USB ports, two ttys, two moves, three version texts | `TypeOK`, `ReadIsTrue`, `WholeIsRead`, `OnlyTheSelected`, `NamedIsWritten`, `OperationEnds` | which dongle is read, written and rebooted, what is read of it, and that it ends |
| `restored` `stable` | one run of the add-on, default options, one version | one property each | disagreements, section 6 |
| `signal` | as `queue` | `SignalEndsRun` | disagreement, section 6 |
| `harmless` | as `files` | `PreflightIsHarmless` | disagreement, section 6 |

The bounds and why they are enough.

* Versions. The code compares a target with a record and with the dongle; two
  versions give below, equal and above. `Legacy`, `Unsupported` and `Broken` are the
  other images the code distinguishes. Where downgrades do not matter one is enough.
* Runs. Mutual exclusion is between pairs. `TwoRuns` leaves out, of the instance with
  two, what `one` explores alone (its comment lists it); with one version and legacy
  recovery enabled, the two kinds of install have the same steps.
* Option sets. `safe_update` and `allow_legacy_rcp` are the options that change
  control flow.
* Attempts. `attempts` counts the three of `_restore_addon`; the bound is the code's.
* Commands. One in the queue, one in hand, one refused: three are the smallest
  number where each place is taken. One SIGTERM: Supervisor sends one, and kills.
* Registry. `MaxStaged` is 1 instead of 3, so that two uploads reach the limit; the
  code compares a count and nothing else depends on it. `Natives` (artifacts without
  a file) is empty in the run, since their steps are those of an upload whose
  file is never written; an instance with one of them has 3.1 million states and
  satisfies the same safety properties.

* MQTT. One request can be retained, replayed, redelivered and delivered as new, in
  two runs: each way to execute it twice needs two of these deliveries. `MaxFaults`
  is 2, a second fault hitting what the first one left behind. `MaxQueued` bounds the
  states under way to the broker; the two last decide what is seen.
* Channel. Two tags of one patch release, one before the other, are the case the
  workflow treats specially. Two builds of a tag differ or do not. `MaxCommits` is 2:
  a request sees the branch before or after a change; `Publish` and `Reset` wait while
  both are served, since a cache forgets long before the next build is
  done. `UpdatesAreUpgrades` compares a tag that comes
out with all 99 that its patch release can have, so that preview 49, rc 1, rc 49 and the
final tag meet. `MaxDfuVersion` is 2147483647 because TLC's integers have 32 bits; the
  theorems hold for 4294967295.
* Radio. Two dongles are what can be confused; `Named` is one of them. `MaxFrameBytes`
  is 6 instead of 4096, so that noise overruns it, and `MaxTextChars` 1 instead of 512.
  Of the three texts one has two characters and is refused; the others are one character
  of two bytes, one bit apart, and the frame of one has a flag in its check sequence, which
  is escaped. Answers arrive whole behind one of four kinds of noise, or are damaged by one
  fault: a flipped bit, a lost byte, or a flag or escape put in. `MaxMoves` counts the moves
  of users and the restarts by themselves together: two are enough to free a tty and to give
  it to another dongle. Recovery is not configured, or by port and serial number; a port
  alone is what `Select` makes of the first.

No deadlock is looked for in the instances of the controller, of Ingress, of the MQTT entity and of the radio,
where a run ends for good or the user's moves are used up, nor in that of the channel,
which comes to rest when there is nothing to publish; in those of the updater nothing
ever stops.

Fairness. `RcpUpdater`: weak fairness of each process' own steps, and nothing of
Supervisor, OTBR or the dongle: every wait of the code polls against a deadline,
so it is a step that always can be taken. `OperationController`: weak fairness of
the main thread and of its signal handler; nobody has to submit or signal.
`Ingress`: weak fairness of each handler (30 s socket timeout, 60 s download
deadline, 10 s probe), of the main thread (`OperationsEnd` is the reason), of the
reaper, which wakes every 30 s, and of the passage of time. `MqttEntity`: weak fairness
of the network thread, of the broker and of the steps that end a run; strong fairness
of `Refresh` and `Finish`, which the main loop tries again and again but which a full
queue may hold up for a while; none of users, of new faults or of restarts.
`FirmwareChannel`: the workflow is scheduled every hour (`Discover`), and a build or
publication that is tried for ever succeeds at some time (strong fairness, since `Fail`
ends an attempt); caches expire; the add-on polls; a user installs an update of the
add-on some time, and a rotation that was begun gets as far as the new secret. Without
the last, nothing can be published between the bridge release and the new secret.
`RadioAccess`: the operation goes on or fails (every command has a time limit), and
the two waits look at their deadlines between any two probes, which is strong fairness
of `ExpireProbe` and of `EndVerification`. The latter is whatever happens at the deadline:
a reboot, if a bootloader is there and was not told before, or the end; so that a reboot
asked for again and again would show. Nothing of the dongles.

## 4. What is proved

For every set of runs, versions, option sets, commands, artifacts, requests, tags,
policies and dongles, and every limit, from the named assumptions on the constants
alone (model values are distinct, versions are numbers, options are records, limits
are positive, the tags have a DFU version, a version text is made of bytes without NUL and
fits into a frame; it need not be one that the code accepts).

* `TypeCorrect`, `MutualExclusion`, `RadioIsOwned`, `OutageIsAccountedFor`,
  `RecordIsVerified` (`RcpUpdater_proofs`).
* `DowngradesAreAuthorised`, `RecordFollowsDongle`, `TransactionIsImplemented`
  (`RcpUpdater_record_proofs`).
* `ControllerTyped`, `BusyAndQueueInSync`, `NoSilentStop`, `ControllerIsOneSlot`
  (`OperationController_proofs`).
* `IngressTyped`, `FlashedOnce`, `AcceptedHasItsFile`, `FilesAreOwned`
  (`Ingress_proofs`).
* `TypeCorrect`, `AtMostOnce`, `HeardWhenAvailable` (`MqttEntity_proofs`).
* `TypeCorrect`, `NeverCutOff`, `NothingHalfPublished`, `OnlyTheNamed`, `NewerIsHigher`
  (`FirmwareChannel_proofs`).
* `DamageIsSeen`, `FramesAreDecoded`, `AnswersAreRead` (`SpinelCodec_proofs`): for every
  payload and every stream of bytes, with no bound but the code's own.
* `TypeCorrect`, `SelectedIsWritten`, `OthersAreExcluded`, `WholeAnswersAreRead`
  (`RadioAccess_proofs`).

The argument for the transaction. None of the properties is inductive. The chain
is: types, with `PlanInv` for what the locals may be at each place; then `LockInv`,
that whoever is at a place inside the transaction holds the lock, from which mutual
exclusion follows; then what is only true because nobody else is inside. The
radio is owned because the claim is taken at the hand-over and other processes,
being outside, do not touch it. An OTBR with `debt = "owed"` has the lock holder at a
place that leads to the restoration, and `was` set, so that the restoration is
not skipped. The record is verified because at `commit` the result in `tx` is
what the dongle runs unless it was re-enumerated to the same image, which the
model of the dongle gives: its image changes only in a transfer. Each action is
one step of the proof, and `OthersKeep` disposes of the processes that do not move.

Downgrades (`AuthOK`). What authorises one is fixed at three places: the policy and the
record when the operation begins, the option when a bootloader is recovered, and the
version when the dongle is read. None of it is written by anybody else, and the
image stays what it was from the reading to the transfer, because the others are
outside. So the transfer needs no look at the record, and one that another run
writes meanwhile does no harm.

The record (`RecordOK`) is proved for runs that do not overlap. It relates five things:
a record that differs from the dongle must be in the main loop's copy (or the loop would
not erase it), a result in `tx` is what the dongle runs until the next transfer, an
operation that failed after one is on its way to `Failed`, and whatever is left has a
rescan due. With overlapping runs it is false (hazard main.py:139), so the
theorem assumes a single member of `Procs`, which may crash and start again at will.

The refinement. `SeenOK` says of each run at which places it holds a result, and that
before the reading it has none. `Effect` sums up a step of a run by what it
changes of the abstract state, in one of seven ways; `EffectStep` shows this
for every action, and `EffectImplements` that each of the seven is an abstract step or
a stutter. The restoration of OTBR, its failures and its retries, belong to the stage
in which the radio is borrowed.

The argument for the controller. `IInv` adds to `BusyIsServed` where the mutex is
held, what the main thread has in hands at each place, and that the token of `wake`
is in the queue only after a signal. The refinement maps `slot` to `active` and
`phase` to `state`; every step is a slot step or a stutter, `Reset` being the one
that `OperationSlot` calls `Forget`.

The argument for Ingress. A request is *live* from its claim until its command was
refused, and for good once the command is in the slot or was executed. `ClaimsOK`
says that two live requests never name one artifact and that what a live request
names is neither being validated nor claimable; `FlashedOnce` is a consequence. The
files need more, and only while the loop is served: `HandsOK` says when the main
thread's operation is the one in the slot, `FilesOK` that the file of an artifact
is there for its handler, for the registry until the entry is consumed, and that an
accepted request whose file exists is in the slot or in hands. `Discard` is the step
that needs them all: what it removes belongs to a command that was executed, and the
one in the slot was not. `LimitOK` is the registry's limit, from the theorems on
finite sets.

The argument for the MQTT entity has two invariants. `IInv` is about requests: one
that is fresh in the inbox is there once and was never accepted, and each command
has its own request in `origin`; replays and redeliveries are not fresh, and every
other delivery needs a user. `WInv` is about order on the wire: an `online` has the
greeting of its connection before it or delivered, a session that is closed has
`offline` as its last word unless a run came online late, and what is kept for the
next connection never contains a goodbye. That `RemoveFirst` keeps the order of the
rest is where the connection breaks and the wire is sent again.

The argument for the channel. The order of tags is arithmetic: patches lie 100
numbers apart and the three stages take disjoint parts of a hundred (`StageOrder`), so
comparing the packed number compares the five components from the left (`DfuOrder`).
The rotation is an invariant by its step: which keys main has (`SourceOK`), which the
installed add-on must have (`AddonOK`: both from the confirmed bridge on), which one
signs (`SecretOK`), and which keys are on the commits still served (`ServedOK`).
`AddonIsServed` is not inductive without all four.

The argument for the radio. No two dongles share a USB port or a tty (`BusOK`). The
tty of the target *leads* to the selected port or is in `taken`, and every enumeration
keeps that (`EnumerationKeeps`): a tty can only pass to another dongle when its owner
gives it up, which puts it in `taken`. In a steady operation the dongle that owns the
target's tty is in its bootloader and keeps that tty until nrfdfu does something to it
(`Kept`): others may restart, but a bootloader that gives up ends `steady`.

Its types (`TypeInv`) need one fact beside the ranges: a dongle whose image does not
start never shows its application, so what answers has a version.

The argument for the check sequence. `EightShifts` says what eight turns of the loop
make of a low byte; `TableIsLoop` shows that one lookup is what the loop of `_fcs` does
to a whole word, because a turn is linear (`ShiftOnceIsLinear`) and merely moves what is
above the low byte (`HighShifts`). A turn is also injective, since the bit it may add is
the highest; so a byte makes different words of different words (`AddByteIsInjective`),
and two bytes make different words of one unless they are the same two
(`TwoBytesAreInjective`). A frame and its damaged form therefore have the same check up
to the damage, and, both being whole, also behind it; two bytes lie between, so they are
the same (`DamageIsSeen`). That the sender's frame is whole is the residue: a word,
completed by its own complement, always ends in `GoodFcs` (`Residue`).

The argument for the decoder. `Feeds(d, s, e)` says that the stream `s` takes a decoder
from `d` to `e`. It composes (`FeedsBoth`), some `e` always exists (`FeedsSome`), and
`Decode` is what the last one has yielded (`DecodeIs`). A stuffed byte adds that byte
to the frame (`FeedsEncoded`), a flag ends it (`FlagEnds`), and nothing that was yielded
is lost (`FeedsKeeps`). So a frame is yielded in whatever state it finds the decoder, and
if nothing before it passes for an answer it is the first that does, and `TextOf` gives
its text back, or refuses it, by `IsVersion` alone (`TextIsRead`). `WholeAnswersAreRead` adds that the noise of the model is
such (`NoiseIsNoAnswer`), for every `MaxFrameBytes`: more bytes than a frame can hold
close the frame (`LongFrameIsDropped`). The induction over bytes is over the set of
positions at which a formula holds (`Induction`), since the library's induction theorems
take an operator.

Model-checked only: `ReadIsTrue`, that one fault on the line never makes another version.
What the theorems leave out of it is a byte that is lost, put in, or turned into a flag or
an escape, so that the frame changes its length or falls apart: that the rest passes no
check is true of the texts of the run and not of every text, the check sequence having
16 bits; and all liveness (`OperationsEnd`, `AcceptedIsSettled`,
`FilesGo`, `EndsUnavailable`, `BecomesAvailable`, `StaleProgressEnds`,
`OffersTheNewest`, `InstallsTheNewest`, `OperationEnds`), which the prover cannot state
under fairness.

## 5. What the models leave out

* Progress, logging, messages, telemetry contents: only whether a publication
  raises, and only where that changes control flow. `_report_progress` swallows every
  error, so an MQTT failure inside a transaction has no effect there.
* Reading sysfs, HTTP parsing, ELF checks: one step that succeeds or fails. A
  preflight of OTBR's REST API likewise. The fields of an option or a record are
  taken as valid.
* A wait is one step, condition seen or deadline passed; times are not modelled
  except the staging window of an artifact, which is over or not.
* A failing save in the main loop ends the run in the code; in `RcpUpdater` that is
  `Crash`, in the other two modules it has an action.
* Nobody but the updater reflashes the dongle. Somebody who does makes the record
  wrong in a way no code here could notice before the next rescan.
* A second SIGTERM during the handler of the first. Python would nest the handlers.
* The cap of eight handler threads: more threads interleave in more ways.
* The retirement of old keys in `_prepare_state`, beyond the load it begins with.
* MQTT. A publication that was delivered counts as acknowledged. Discovery and the
  clearing of the retired helpers are one message, state and attributes another. When
  `start` gives up (mqtt_update.py:118-120) or `stop` leaves (122-127) while the
  network thread is in `on_connect`, the entity is announced available by a client
  that then says goodbye, which suppresses its will: `online` stays retained until the
  next run. The properties except exactly this (`late`).
* Channel. Signatures and hashes are ideal. The content of an image is its tag and a
  number. How it is built, and the files in which keys are kept, are left out.
* Radio. A USB port holds one dongle, with one tty; hubs, several serial endpoints of
  one dongle and its aliases under `/dev/serial` are abstracted. Two cases are excepted by
  name, since nrfdfu is given a serial number and a tty and nothing else: a tty that changed
  hands after the probe (`OnlyTheSelected`), and a bootloader that gives up or is moved in
  the middle of the operation (`NamedIsWritten`). One fault in an answer:
  a check sequence of 16 bits does not promise more.

Not modelled, and why. `tools/create_sbom_license_cache.py`,
`tools/create_firmware_provenance.py`, `tools/validate_sbom.py` and the ELF checks of
`tools/build_rcp.py` transform files inside one job: no state, no order, no second
actor. `config.yaml`, `Dockerfile` and the AppArmor profile are declarations.
`web/app.js` displays and polls. The patches of nrfdfu are code of another project;
`RadioAccess` has their effect, that nrfdfu opens the given port and no other.

## 6. Disagreements between the code and its own text

Four are runs that find the counterexample (details in `PROJECT.json`).

* `restored`: stop and wait run before the `try` of `temporarily_stop`
  (supervisor.py:59-61), so an OTBR whose stop was not confirmed is never restored,
  against supervisor.py:55.
* `stable`: the hand-over takes a starting OTBR for a stopped one
  (supervisor.py:58), against updater.py:668.
* `signal`: the handler of SIGTERM can wait for a mutex its own thread holds
  (main.py:245), against main.py:243.
* `harmless`: a validation looks once at `busy` (ingress.py:332). An operation begins
  after that, and its probe of the bootloader is answered (dfu.py:224); before its transfer
  opens the same endpoint (dfu.py:236), the preflight does, and the one attempt fails,
  against updater.py:119.

Three more are visible in single branches and have no run of their own: the models
contain them, as steps.

* A policy downgrade authorises bootloader recovery (main.py:353), against
  updater.py:552.
* An unreadable state is not discarded (main.py:66) and fails the install that was
  already verified (updater.py:362). One that is not UTF-8 raises
  `UnicodeDecodeError` (state.py:42), which `_load_state` does not catch either.
* A command accepted while the main thread is on its way to the loop condition, before the
  first turn or during the chores of an idle one, and followed by a SIGTERM there, is not
  cancelled (main.py:294), against operation.py:185.

## 7. Plan

Done, in the order of importance: the transaction with its outside world; the
controller and the abstract slot; Ingress; the MQTT entity; the firmware channel with
the order of versions and the rotation of the key; the codec and the bus; the abstract
transaction, and the theorems about downgrades and the record; the theorems about the
codec.

Next, modules:

1. `MainLoop`: deadlines of the refresh and the rescan, retry intervals, the release
   list that handlers look up while it is replaced, the late save of a rescan
   (main.py:139) with two runs.
2. An abstract specification of the channel (an image is installable from its commit
   on) that `FirmwareChannel` implements.
3. `RadioAccess` as the radio of `RcpUpdater`, in place of `RcpDevice`.

Next, theorems: the abstract channel and its refinement once it exists; the theorem
about the record for overlapping runs, with what hazard main.py:139 costs made explicit.
