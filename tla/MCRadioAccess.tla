----------------------------- MODULE MCRadioAccess -----------------------------
(* Finite instances of RadioAccess. *)
EXTENDS RadioAccess, TLC

CONSTANTS d1, d2, usbA, usbB

\* One character of two bytes, whose frame has a flag to be escaped in its check
\* sequence; another, one bit away; and two characters, which are too many.
ThreeTexts == {<<194, 174>>, <<194, 175>>, <<78, 51>>}

\* Bootloaders of one batch report the same serial number.
SameSerial == (d1 :> "E1") @@ (d2 :> "E1")

OneNamed == {d1}

\* Recovery not configured, or by port and serial number.
TwoConfigs == {[path |-> None, serial |-> None], [path |-> usbA, serial |-> "E1"]}

=============================================================================
