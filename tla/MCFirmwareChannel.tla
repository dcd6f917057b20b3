-------------------------- MODULE MCFirmwareChannel --------------------------
(* Finite instances of FirmwareChannel. *)
EXTENDS FirmwareChannel, TLC

Version(minor, patch, kind, sequence) ==
  [major |-> 3, minor |-> minor, patch |-> patch, kind |-> kind, sequence |-> sequence]

Candidate1 == Version(5, 0, "rc", 1)
Final == Version(5, 0, "final", 0)

CandidateAndFinal == {Candidate1, Final}

AnyPrerelease == [prereleases |-> TRUE, line |-> NoLine]
StableOnly == [prereleases |-> FALSE, line |-> NoLine]
OtherLine == [prereleases |-> TRUE, line |-> <<3, 4>>]

Channels == {AnyPrerelease, StableOnly, OtherLine}

=============================================================================
