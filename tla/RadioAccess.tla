------------------------------ MODULE RadioAccess ------------------------------
(***************************************************************************)
(* How one operation reaches the dongle: through the configured tty while  *)
(* the RCP application runs, and through nrfdfu once the dongle shows its  *)
(* bootloader (app/dfu.py and app/spinel.py, in the order in which         *)
(* app/updater.py calls them).  Dongles sit on USB ports; each time one    *)
(* enumerates, Linux gives it a tty, which may be the one another dongle   *)
(* just gave up.  The user may move dongles at any time.                   *)
(*                                                                         *)
(* Which versions an operation may replace, and OTBR, are the business of  *)
(* RcpUpdater.  Here an operation may also end for any such reason.        *)
(***************************************************************************)
EXTENDS SpinelCodec, FiniteSets

CONSTANTS
  Dongles,    \* PCA10059 boards
  Paths,      \* physical USB ports
  Ports,      \* tty names
  DfuSerial,  \* the serial number that the bootloader of a dongle reports
  Named,      \* the dongles whose application has the configured by-id name
  Texts,      \* what dongles report as their version
  Broken,     \* an image that does not start
  Configs,    \* [path |-> dfu_usb_path, serial |-> dfu_serial_number], or None
  None,
  MaxMoves    \* bound: how often dongles are plugged in or out, or restart by themselves

ASSUME DonglesAssumption == Named \subseteq Dongles /\ Broken \notin Texts /\ Unread \notin Texts
ASSUME NoneAssumption == None \notin Paths \cup Ports \cup {DfuSerial[d] : d \in Dongles}
ASSUME ConfigsAssumption ==
  \A c \in Configs : c = [path |-> c.path, serial |-> c.serial] /\ c.path \in Paths \cup {None}
ASSUME MovesAssumption == MaxMoves \in Nat
\* A text fits into one frame with header, command, property and NUL.  It may be
\* one that get_ncp_version refuses.
ASSUME TextsAssumption == \A t \in Texts : t \in Seq(1..255) /\ Len(t) + 4 <= MaxFrameBytes

VARIABLES
  place,     \* the USB port of a dongle, or None
  mode,      \* what it shows there: "app", "dfu", or "gone"
  tty,       \* its serial endpoint
  image,     \* what is in its flash
  moves,     \* counts what disturbs the bus
  config,    \* options of the add-on
  pc,        \* what the operation does
  wanted,    \* the version it installs
  selector,  \* DfuSelector
  target,    \* DfuTarget
  read,      \* the version just read
  last,      \* the reboot retry is used up
  taken,     \* history: ttys that changed hands since the target was found
  steady     \* history: the operation went through the application; since it
             \* began, nobody has touched a dongle and no bootloader gave up

bus == <<place, mode, tty, image>>
op == <<pc, wanted, selector, target, read, last>>
vars == <<bus, moves, config, op, taken, steady>>

NoSelector == [path |-> None, serial |-> None]
NoTarget == [serial |-> None, port |-> None]

\* Which bytes may precede an answer: nothing, an unsolicited frame, a frame
\* cut off after an escape, or more than a frame can hold.
Noise ==
  {<<>>, Frame(<<128, 6, 0, 112>>), <<Flag, Header, Escape>>,
   <<Flag>> \o [i \in 1..(MaxFrameBytes + 3) |-> 85]}

Answers == [t \in Texts |-> {n \o Frame(<<Header, 6, 2>> \o t \o <<0>>) : n \in Noise}]

\* The reads of an answer that arrives whole, and of one that does not.
WholeReads == [t \in Texts |-> {VersionIn(s) : s \in Answers[t]}]
HarmedReads == [t \in Texts |-> {Unread} \cup {VersionIn(s) : s \in UNION {OneFault(a) : a \in Answers[t]}}]

ReadsOf(t) ==
  [text : WholeReads[t], whole : {TRUE}] \cup [text : HarmedReads[t], whole : {FALSE}]

NoRead == [text |-> Unread, whole |-> FALSE]

\* What get_ncp_version makes of the text that a dongle reports.
Reported(t) == IF IsVersion(t) THEN t ELSE Unread

-----------------------------------------------------------------------------
(***************************************************************************)
(* The bus.                                                                *)
(***************************************************************************)
Used == {tty[d] : d \in Dongles} \ {None}
FreePorts == Ports \ Used

\* The dongles that the configured tty path may lead to.
Answering == {d \in Named : mode[d] = "app"}

\* What an image can start as; the application may hang, or be long in coming.
Personalities(i) == IF i = Broken THEN {"dfu", "gone"} ELSE {"app", "dfu", "gone"}

\* Dongle d comes back as m, with whatever tty is free.
Enumerates(d, m) ==
  /\ mode' = [mode EXCEPT ![d] = m]
  /\ IF m = "gone"
     THEN tty' = [tty EXCEPT ![d] = None]
     ELSE \E p \in FreePorts \cup ({tty[d]} \ {None}) : tty' = [tty EXCEPT ![d] = p]
  /\ taken' = taken \cup {p \in Ports : \E e \in Dongles : tty[e] = p /\ tty'[e] # p}

Move ==
  /\ moves < MaxMoves /\ moves' = moves + 1
  /\ steady' = FALSE
  /\ UNCHANGED <<image, config, op>>

Unplug(d) ==
  /\ place[d] # None
  /\ place' = [place EXCEPT ![d] = None]
  /\ Enumerates(d, "gone")
  /\ Move

\* A reset button or a broken image brings up the bootloader at once.
Plug(d, path) ==
  /\ place[d] = None /\ \A e \in Dongles : place[e] # path
  /\ place' = [place EXCEPT ![d] = path]
  /\ \E m \in Personalities(image[d]) : Enumerates(d, m)
  /\ Move

\* A dongle that is between two personalities shows the next.
Settle(d) ==
  /\ place[d] # None /\ mode[d] = "gone"
  /\ \E m \in Personalities(image[d]) \ {"gone"} : Enumerates(d, m)
  /\ UNCHANGED <<place, image, moves, config, op, steady>>

\* An application restarts by itself, or a bootloader gives up.
Restart(d) ==
  /\ mode[d] # "gone"
  /\ \E m \in Personalities(image[d]) : Enumerates(d, m)
  /\ moves < MaxMoves /\ moves' = moves + 1
  /\ steady' = (steady /\ mode[d] # "dfu")
  /\ UNCHANGED <<place, image, config, op>>

-----------------------------------------------------------------------------
(***************************************************************************)
(* nrfdfu with the arguments that _target_arguments gives it.              *)
(***************************************************************************)
\* MUTANT of Endpoint: the patch that adds --port is missing.
EndpointBySerial(t) == {d \in Dongles : mode[d] = "dfu" /\ DfuSerial[d] = t.serial}

Endpoint(t) ==
  {d \in Dongles : mode[d] = "dfu" /\ DfuSerial[d] = t.serial /\ tty[d] = t.port}

\* MUTANT of Matching: any stock bootloader will do.
MatchingAnywhere(s) ==
  {d \in Dongles : mode[d] = "dfu" /\ (s.serial = None \/ s.serial = DfuSerial[d])}

\* _matching_dfu_targets: a bootloader on the port, and with the serial number
\* if one is configured.  A port holds one dongle.
Matching(s) ==
  {d \in Dongles : /\ mode[d] = "dfu" /\ place[d] = s.path
                   /\ s.serial = None \/ s.serial = DfuSerial[d]}

-----------------------------------------------------------------------------
(***************************************************************************)
(* The operation.                                                          *)
(***************************************************************************)
Goto(next) == pc' = next /\ UNCHANGED <<wanted, selector, target, last>>

Finish ==
  /\ pc' = "idle" /\ wanted' = Unread
  /\ selector' = NoSelector /\ target' = NoTarget
  /\ last' = FALSE

\* The path of the device exists, or recovery has to find the bootloader.  What
\* is to be installed reports a proper version.
Begin ==
  /\ pc = "idle"
  /\ wanted' \in {t \in Texts : IsVersion(t)}
  /\ steady' = (Answering # {})
  /\ pc' = IF Answering # {} THEN "ask" ELSE "recover"
  /\ UNCHANGED <<bus, moves, config, selector, target, read, last, taken>>

\* get_ncp_version: the tty may be gone by now, the dongle may say nothing.
GetVersion(asking, next) ==
  /\ pc = asking
  /\ \/ \E d \in Answering : read' \in ReadsOf(image[d])
     \/ read' = NoRead
  /\ Goto(next)
  /\ UNCHANGED <<bus, moves, config, taken, steady>>

\* The version decides: nothing to do, enter the bootloader, or recover.
Consider ==
  /\ pc = "consider" /\ read' = NoRead
  /\ \/ read.text = wanted /\ Finish
     \/ read.text \notin {wanted, Unread} /\ Goto("select")
     \/ read.text = Unread /\ Goto("recover")
  /\ steady' = (steady /\ read.text # Unread)
  /\ UNCHANGED <<bus, moves, config, taken>>

\* MUTANT of Select: the name of the tty instead of the USB port.
SelectTty ==
  /\ pc = "select" /\ pc' = "reset"
  /\ \E d \in Answering : selector' = [path |-> tty[d], serial |-> config.serial]
  /\ UNCHANGED <<bus, moves, config, wanted, target, read, last, taken, steady>>

\* selector_for_device: the port on which the configured tty is now.
Select ==
  /\ pc = "select" /\ pc' = "reset"
  /\ \E d \in Answering : selector' = [path |-> place[d], serial |-> config.serial]
  /\ UNCHANGED <<bus, moves, config, wanted, target, read, last, taken, steady>>

\* reset_bootloader is written without an answer; the RCP may ignore it.
ResetBootloader ==
  /\ pc = "reset" /\ Goto("enumerate")
  /\ \E d \in Answering :
       \/ \E m \in {"dfu", "gone"} : Enumerates(d, m)
       \/ UNCHANGED <<mode, tty, taken>>
  /\ UNCHANGED <<place, image, moves, config, read, steady>>

\* bootloader_selector: recovery needs a configured port.
Recover ==
  /\ pc = "recover" /\ config.path # None
  /\ selector' = config /\ pc' = "check"
  /\ UNCHANGED <<bus, moves, config, wanted, target, read, last, taken, steady>>

\* probe_dfu_target, first half: the topology names the endpoint.
Enumerate(at, next) ==
  /\ pc = at /\ pc' = next
  /\ \E d \in Matching(selector) :
       /\ tty[d] # None
       /\ target' = [serial |-> DfuSerial[d], port |-> tty[d]]
  /\ taken' = {}
  /\ UNCHANGED <<bus, moves, config, wanted, selector, read, last, steady>>

\* The second half: nrfdfu --get-images at that endpoint.
GetImages(at, next) ==
  /\ pc = at /\ Endpoint(target) # {}
  /\ Goto(next)
  /\ UNCHANGED <<bus, moves, config, read, taken, steady>>

\* It found nobody or got no answer; the next probe starts anew.
ProbeAgain ==
  /\ pc = "images" /\ Goto("enumerate")
  /\ UNCHANGED <<bus, moves, config, read, taken, steady>>

\* _wait_for_dfu_target looks at its deadline between two probes.
ExpireProbe ==
  /\ pc = "enumerate"
  /\ Finish
  /\ UNCHANGED <<bus, moves, config, read, taken, steady>>

\* flash: rejected, cut short or written.  An nrfdfu that fails, or that finds
\* nobody at the endpoint, is followed by the same verification; one that does
\* not start or is killed after 300 s ends the operation, whatever it has written.
Transfer ==
  /\ pc = "transfer" /\ (Goto("verify") \/ Finish)
  /\ IF Endpoint(target) = {}
     THEN UNCHANGED <<mode, tty, image, taken>>
     ELSE \E d \in Endpoint(target) :
            /\ \E i \in {image[d], Broken, wanted} : image' = [image EXCEPT ![d] = i]
            /\ \E m \in Personalities(image'[d]) : Enumerates(d, m)
  /\ UNCHANGED <<place, moves, config, read, steady>>

\* _wait_for_expected_release
Verify ==
  /\ pc = "judge" /\ read' = NoRead
  /\ IF read.text = wanted THEN Finish ELSE Goto("verify")
  /\ UNCHANGED <<bus, moves, config, taken, steady>>

\* MUTANT of ProbeReboot: the repeated wait asks for another reboot.
ProbeEveryReboot == Enumerate("verify", "reboot")

\* At the deadline a bootloader that is still there is probed, once more.
ProbeReboot == ~last /\ Enumerate("verify", "reboot")

\* Told to start its application, it may ignore it; then the verification is
\* repeated.  An nrfdfu that finds nobody, fails or hangs ends the operation.
RebootApplication ==
  /\ pc = "reboot"
  /\ \/ /\ Endpoint(target) # {}
        /\ pc' = "verify" /\ last' = TRUE /\ UNCHANGED <<wanted, selector, target>>
     \/ Finish
  /\ \/ \E d \in Endpoint(target) : \E m \in Personalities(image[d]) : Enumerates(d, m)
     \/ UNCHANGED <<mode, tty, taken>>
  /\ UNCHANGED <<place, image, moves, config, read, steady>>

\* No bootloader there, or it was told before.
ExpireVerification ==
  /\ pc = "verify" /\ (last \/ Matching(selector) = {})
  /\ Finish
  /\ UNCHANGED <<bus, moves, config, read, taken, steady>>

\* A refusal, a tty that cannot be opened, a command that takes too long.
Fail ==
  /\ pc \in {"select", "reset", "recover", "check", "confirm", "images", "verify"}
  /\ Finish
  /\ UNCHANGED <<bus, moves, config, read, taken, steady>>

-----------------------------------------------------------------------------
\* Every dongle that is plugged in runs its application.
Init ==
  /\ \E at \in [Dongles -> Paths \cup {None}] :
       /\ \A d, e \in Dongles : d # e /\ at[d] # None => at[d] # at[e]
       /\ \E d \in Named : at[d] # None
       /\ place = at
  /\ mode = [d \in Dongles |-> IF place[d] = None THEN "gone" ELSE "app"]
  /\ \E given \in [Dongles -> Ports \cup {None}] :
       /\ \A d \in Dongles : given[d] = None <=> place[d] = None
       /\ \A d, e \in Dongles : d # e /\ given[d] # None => given[d] # given[e]
       /\ tty = given
  /\ image \in [Dongles -> Texts] /\ moves = 0 /\ config \in Configs
  /\ pc = "idle" /\ wanted = Unread /\ selector = NoSelector /\ target = NoTarget
  /\ read = NoRead /\ last = FALSE /\ taken = {} /\ steady = FALSE

Bus ==
  \/ \E d \in Dongles : Unplug(d) \/ Settle(d) \/ Restart(d)
  \/ \E d \in Dongles, path \in Paths : Plug(d, path)

Spinel == GetVersion("ask", "consider") \/ GetVersion("verify", "judge")

Probe ==
  \/ Enumerate("check", "confirm") \/ GetImages("confirm", "enumerate")
  \/ Enumerate("enumerate", "images") \/ GetImages("images", "transfer") \/ ProbeAgain

Proceed ==
  \/ Spinel \/ Consider \/ Select \/ ResetBootloader \/ Recover \/ Probe
  \/ Transfer \/ Verify \/ RebootApplication

\* _wait_for_expected_release looks at its deadline between two readings.
EndVerification == ProbeReboot \/ ExpireVerification

Next == Bus \/ Begin \/ Proceed \/ ExpireProbe \/ EndVerification \/ Fail

\* An operation that was begun goes on; the loops look at their deadlines.
Fairness ==
  /\ WF_vars(Proceed \/ Fail)
  /\ SF_vars(ExpireProbe) /\ SF_vars(EndVerification)

Spec == Init /\ [][Next]_vars /\ Fairness

-----------------------------------------------------------------------------
(***************************************************************************)
(* Properties.                                                             *)
(***************************************************************************)
\* What may be read of a dongle: the decoder's outcome for an answer with one
\* of the versions, and no version that no dongle holds.
Readings == {NoRead} \cup UNION {ReadsOf(t) : t \in Texts}

\* Every variable stays in its range; in particular a dongle that answers
\* holds a version, and a selector names a USB port.
TypeOK ==
  /\ place \in [Dongles -> Paths \cup {None}]
  /\ mode \in [Dongles -> {"app", "dfu", "gone"}]
  /\ tty \in [Dongles -> Ports \cup {None}]
  /\ image \in [Dongles -> Texts \cup {Broken}]
  /\ moves \in 0..MaxMoves /\ config \in Configs
  /\ pc \in {"idle", "ask", "consider", "select", "reset", "recover", "check", "confirm",
            "enumerate", "images", "transfer", "verify", "judge", "reboot"}
  /\ wanted \in Texts \cup {Unread}
  /\ selector \in [path : Paths \cup {None}, serial : {c.serial : c \in Configs} \cup {None}]
  /\ target \in [serial : {DfuSerial[d] : d \in Dongles} \cup {None}, port : Ports \cup {None}]
  /\ read \in Readings
  /\ last \in BOOLEAN /\ taken \subseteq Ports /\ steady \in BOOLEAN

Reads == pc # pc' /\ pc' \in {"consider", "judge"} /\ read' # NoRead

\* spinel.py:184-203 and 225-238: an answer that arrives whole is read, with
\* frames of other transactions, broken ones and noise in front of it, and then
\* refused only for what the text itself is.
WholeIsRead ==
  [][Reads /\ read'.whole => \E d \in Answering : read'.text = Reported(image[d])]_vars

\* spinel.py:102-124: one fault on the line never turns the version of a dongle
\* into another one.
ReadIsTrue == [][Reads => \E d \in Answering : read'.text \in {Unread, image[d]}]_vars

\* nrfdfu writes dongle d or tells it to start.
Touched(d) == pc \in {"transfer", "reboot"} /\ pc' # pc /\ d \in Endpoint(target)

\* dfu.py:319 "the exact endpoint that passed the USB topology check": a dongle
\* is written or rebooted on the selected USB port, also when another one has the
\* same serial number; only a tty that changed hands in the meantime can mislead
\* nrfdfu, and then only to a bootloader with that serial number.
OnlyTheSelected ==
  [][\A d \in Dongles : Touched(d) =>
       /\ DfuSerial[d] = target.serial
       /\ target.port \notin taken => place[d] = selector.path]_vars

\* README.md:397-401: an operation that reset the RCP into its bootloader
\* "excludes other Nordic DFU dongles attached to different ports", as long as
\* nobody moves a dongle and no bootloader gives up meanwhile.
NamedIsWritten == [][\A d \in Dongles : Touched(d) /\ steady => d \in Named]_vars

\* dfu.py:259-285 and updater.py:581-614: every operation on the radio ends,
\* with dongles that do not come back, hang, or come back as something else.
OperationEnds == pc # "idle" ~> pc = "idle"

=============================================================================
