------------------------------- MODULE Versions -------------------------------
(***************************************************************************)
(* NCS version tags and their numbers: app/models.py, with the same two    *)
(* definitions in tools/publish_manifest.py (the order of the manifest)    *)
(* and tools/build_rcp.py (the number a build carries).                    *)
(*                                                                         *)
(* A tag is major.minor.patch with an optional -previewN or -rcN.  Two     *)
(* orders are laid over the tags: version_key, by which releases are       *)
(* chosen, and the application version of Secure DFU, by which the         *)
(* bootloader of the dongle tells an update from a downgrade.              *)
(***************************************************************************)
EXTENDS Integers, Sequences

CONSTANT MaxDfuVersion  \* 4294967295, the greatest number Secure DFU can carry

ASSUME DfuAssumption == MaxDfuVersion \in Nat

Kinds == {"preview", "rc", "final"}

\* validate_version: a pre-release has a sequence number from 1 up.
IsTag(v) ==
  /\ v \in [major : Nat, minor : Nat, patch : Nat, kind : Kinds, sequence : Nat]
  /\ v.sequence = 0 <=> v.kind = "final"

Stage(v) == CASE v.kind = "preview" -> 0 [] v.kind = "rc" -> 1 [] v.kind = "final" -> 2

VersionKey(v) == <<v.major, v.minor, v.patch, Stage(v), v.sequence>>

\* Tuples are compared from the left.
Before(u, v) ==
  \E i \in 1..5 :
    /\ VersionKey(u)[i] < VersionKey(v)[i]
    /\ \A j \in 1..(i - 1) : VersionKey(u)[j] = VersionKey(v)[j]

IsPrerelease(v) == v.kind # "final"

MinorLine(v) == <<v.major, v.minor>>

\* A stable tag, or one of the pre-releases that led to it.
FinalOf(v) == [v EXCEPT !.kind = "final", !.sequence = 0]

-----------------------------------------------------------------------------
\* MUTANT of DfuStage: the numbers of release candidates begin one too low.
DfuStageLow(v) ==
  CASE v.kind = "preview" -> v.sequence
    [] v.kind = "rc"      -> 48 + v.sequence
    [] v.kind = "final"   -> 99

\* Numbers 1 to 49 are for previews, 50 to 98 for release candidates.
DfuStage(v) ==
  CASE v.kind = "preview" -> v.sequence
    [] v.kind = "rc"      -> 49 + v.sequence
    [] v.kind = "final"   -> 99

DfuVersion(v) == (v.major * 1000000 + v.minor * 1000 + v.patch) * 100 + DfuStage(v)

\* ncs_dfu_application_version and build_rcp refuse every other tag.
HasDfuVersion(v) ==
  /\ v.major <= 999 /\ v.minor <= 999 /\ v.patch <= 999
  /\ v.sequence <= 49
  /\ DfuVersion(v) <= MaxDfuVersion

\* The newest of a set of tags.
Newest(S) == CHOOSE v \in S : \A u \in S : ~Before(v, u)

=============================================================================
