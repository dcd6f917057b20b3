------------------------------ MODULE RcpDevice ------------------------------
(***************************************************************************)
(* The PCA10059 dongle as the updater meets it: the USB personality it     *)
(* shows (the RCP application, Nordic Secure DFU, or nothing while it      *)
(* re-enumerates or is unplugged) and the image in its flash.  The dongle, *)
(* its bootloader and the nrfdfu executable are not part of this           *)
(* repository; the module allows every outcome the code handles.           *)
(*                                                                         *)
(* An image is named by the identity its SPINEL_PROP_NCP_VERSION reports:  *)
(* a number for a complete HW/NCS/ZEPHYR triple on supported hardware      *)
(* (version_key gives the order), Legacy when a tag is missing,            *)
(* Unsupported when the tags name other hardware or cannot be parsed, and  *)
(* Broken for an image that an interrupted transfer left unbootable.       *)
(***************************************************************************)
EXTENDS Naturals

CONSTANTS Versions, Legacy, Unsupported, Broken

ASSUME VersionsAssumption ==
  /\ Versions \subseteq Nat
  /\ Legacy \notin Versions
  /\ Unsupported \notin Versions
  /\ Broken \notin Versions
  /\ Legacy # Unsupported
  /\ Broken \notin {Legacy, Unsupported}

VARIABLES mode, fw

Identities == Versions \cup {Legacy, Unsupported}
Images == Identities \cup {Broken}
Modes == {"app", "dfu", "gone"}

RadioOK ==
  /\ mode \in Modes
  /\ fw \in Images
  /\ fw = Broken => mode # "app"

\* The configured serial path exists only while the application is up.
DevicePresent == mode = "app"

\* A Secure DFU target on the selected USB path.
DfuPresent == mode = "dfu"

\* Any personality the image in flash allows; a broken one cannot start.
Personality(image) == IF image = Broken THEN {"dfu", "gone"} ELSE Modes

Reenumerates == mode' \in Personality(fw) /\ UNCHANGED fw

\* A DFU transfer of image v: rejected, cut short or written, whatever the
\* exit status of nrfdfu says.
Transfer(v) ==
  /\ fw' \in {fw, Broken, v}
  /\ mode' \in Personality(fw')

=============================================================================
