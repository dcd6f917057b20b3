--------------------------- MODULE MCRcpUpdater ---------------------------
(* Finite instances of RcpUpdater. *)
EXTENDS RcpUpdater, TLC

TwoVersions == {1, 2}
OneVersion == {1}
AllConfigs == [safe_update : BOOLEAN, allow_legacy_rcp : BOOLEAN]
DefaultConfig == {[safe_update |-> TRUE, allow_legacy_rcp |-> FALSE]}
PermissiveConfig == {[safe_update |-> FALSE, allow_legacy_rcp |-> TRUE]}

RunsAreAlike == Permutations(Procs)

\* Two overlapping runs: a supported dongle, a readable record, an OTBR that
\* starts and stops at once and whose restoration fails at most once, and
\* installs of one kind only (with one version and legacy recovery enabled,
\* the other kind behaves alike).
\* RcpUpdater_one explores the rest with a single run.
TwoRuns ==
  /\ fw \notin {Legacy, Unsupported}
  /\ disk # Garbled
  /\ otbr \in {"stopped", "started"}
  /\ debt \in {"none", "owed", "crash"}
  /\ \A p \in Procs : tx[p].kind # "latest" /\ tx[p].attempts < 2

=============================================================================
