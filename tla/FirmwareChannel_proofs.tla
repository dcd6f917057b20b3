------------------------ MODULE FirmwareChannel_proofs ------------------------
(***************************************************************************)
(* Theorems about Versions and FirmwareChannel, for every set of tags and  *)
(* of policies and for any number of builds and commits: the two orders of *)
(* tags agree; an installed image is the one that a verified manifest      *)
(* named; and no step of a key rotation, in whatever order the workflow,   *)
(* the caches and the user act, cuts the add-on off from the manifest or   *)
(* leaves a release on the branch that it could not install.               *)
(***************************************************************************)
EXTENDS FirmwareChannel, WellFoundedInduction, TLAPS

-----------------------------------------------------------------------------
(***************************************************************************)
(* The order of tags.                                                      *)
(***************************************************************************)
\* Two stages of one patch release are ordered as their numbers: the ranges of
\* previews, candidates and the stable tag do not overlap.
LEMMA StageOrder ==
  ASSUME NEW u, NEW v, IsTag(u), IsTag(v), u.sequence <= 49, v.sequence <= 49
  PROVE  /\ DfuStage(u) \in 1..99 /\ DfuStage(v) \in 1..99
         /\ DfuStage(u) < DfuStage(v) <=>
              \/ Stage(u) < Stage(v)
              \/ Stage(u) = Stage(v) /\ u.sequence < v.sequence
  <1>1. /\ u.kind \in Kinds /\ v.kind \in Kinds /\ u.sequence \in Nat /\ v.sequence \in Nat
        /\ u.sequence = 0 <=> u.kind = "final"
        /\ v.sequence = 0 <=> v.kind = "final"
    BY DEF IsTag
  <1>2. ASSUME NEW w
        PROVE  /\ w.kind = "preview" => Stage(w) = 0 /\ DfuStage(w) = w.sequence
               /\ w.kind = "rc" => Stage(w) = 1 /\ DfuStage(w) = 49 + w.sequence
               /\ w.kind = "final" => Stage(w) = 2 /\ DfuStage(w) = 99
    BY Zenon DEF Stage, DfuStage
  <1> QED
    BY <1>1, <1>2 DEF Kinds

\* Tags are compared from the major number to the sequence number.
LEMMA BeforeUnrolled ==
  ASSUME NEW u, NEW v, IsTag(u), IsTag(v)
  PROVE  Before(u, v) <=>
           \/ u.major < v.major
           \/ u.major = v.major /\ u.minor < v.minor
           \/ u.major = v.major /\ u.minor = v.minor /\ u.patch < v.patch
           \/ /\ u.major = v.major /\ u.minor = v.minor /\ u.patch = v.patch
              /\ \/ Stage(u) < Stage(v)
                 \/ Stage(u) = Stage(v) /\ u.sequence < v.sequence
  <1> DEFINE k(w, i) == VersionKey(w)[i]
             At(i) == k(u, i) < k(v, i) /\ \A j \in 1..(i - 1) : k(u, j) = k(v, j)
  <1>1. \A w : /\ k(w, 1) = w.major /\ k(w, 2) = w.minor /\ k(w, 3) = w.patch
               /\ k(w, 4) = Stage(w) /\ k(w, 5) = w.sequence
    BY DEF VersionKey
  <1>2. Before(u, v) <=> At(1) \/ At(2) \/ At(3) \/ At(4) \/ At(5)
    <2>1. Before(u, v) <=> \E i \in 1..5 : At(i)
      BY DEF Before
    <2> HIDE DEF At
    <2> QED
      BY <2>1
  <1> HIDE DEF k
  <1>3. At(1) <=> k(u, 1) < k(v, 1)
    OBVIOUS
  <1>4. At(2) <=> k(u, 2) < k(v, 2) /\ k(u, 1) = k(v, 1)
    OBVIOUS
  <1>5. At(3) <=> k(u, 3) < k(v, 3) /\ k(u, 1) = k(v, 1) /\ k(u, 2) = k(v, 2)
    <2>1. 1..(3 - 1) = {1, 2}
      OBVIOUS
    <2> QED
      BY <2>1
  <1>6. At(4) <=> k(u, 4) < k(v, 4) /\ k(u, 1) = k(v, 1) /\ k(u, 2) = k(v, 2)
                  /\ k(u, 3) = k(v, 3)
    <2>1. 1..(4 - 1) = {1, 2, 3}
      OBVIOUS
    <2> QED
      BY <2>1
  <1>7. At(5) <=> k(u, 5) < k(v, 5) /\ k(u, 1) = k(v, 1) /\ k(u, 2) = k(v, 2)
                  /\ k(u, 3) = k(v, 3) /\ k(u, 4) = k(v, 4)
    <2>1. 1..(5 - 1) = {1, 2, 3, 4}
      OBVIOUS
    <2> QED
      BY <2>1
  <1> HIDE DEF At
  <1> QED
    BY <1>1, <1>2, <1>3, <1>4, <1>5, <1>6, <1>7

\* The components of a tag fit into the parts of the number that they have.
InRange(v) == v.major <= 999 /\ v.minor <= 999 /\ v.patch <= 999 /\ v.sequence <= 49

\* The packed number orders tags as version_key does.
LEMMA DfuOrder ==
  ASSUME NEW u, NEW v, IsTag(u), IsTag(v), InRange(u), InRange(v)
  PROVE  Before(u, v) <=> DfuVersion(u) < DfuVersion(v)
  <1>1. ASSUME NEW w, IsTag(w), InRange(w)
        PROVE  /\ w.major \in Nat /\ w.minor \in Nat /\ w.patch \in Nat
               /\ w.major <= 999 /\ w.minor <= 999 /\ w.patch <= 999 /\ w.sequence <= 49
    <2>1. w.major \in Nat /\ w.minor \in Nat /\ w.patch \in Nat
      BY <1>1 DEF IsTag
    <2>2. w.major <= 999 /\ w.minor <= 999 /\ w.patch <= 999 /\ w.sequence <= 49
      BY <1>1 DEF InRange
    <2> QED
      BY <2>1, <2>2
  <1> DEFINE StagedBefore == \/ Stage(u) < Stage(v)
                             \/ Stage(u) = Stage(v) /\ u.sequence < v.sequence
  <1>2. /\ DfuStage(u) \in 1..99 /\ DfuStage(v) \in 1..99
        /\ DfuStage(u) < DfuStage(v) <=> StagedBefore
    BY <1>1, StageOrder
  <1>3. Before(u, v) <=>
           \/ u.major < v.major
           \/ u.major = v.major /\ u.minor < v.minor
           \/ u.major = v.major /\ u.minor = v.minor /\ u.patch < v.patch
           \/ u.major = v.major /\ u.minor = v.minor /\ u.patch = v.patch /\ StagedBefore
    BY BeforeUnrolled
  <1> HIDE DEF StagedBefore
  <1> DEFINE a == u.major  b == u.minor  c == u.patch  d == DfuStage(u)
             e == v.major  f == v.minor  g == v.patch  h == DfuStage(v)
             Lower == \/ a < e
                      \/ a = e /\ b < f
                      \/ a = e /\ b = f /\ c < g
                      \/ a = e /\ b = f /\ c = g /\ d < h
  <1>4. /\ DfuVersion(u) = (a * 1000000 + b * 1000 + c) * 100 + d
        /\ DfuVersion(v) = (e * 1000000 + f * 1000 + g) * 100 + h
    BY SMT DEF DfuVersion
  <1>5. Before(u, v) <=> Lower
    BY <1>2, <1>3
  <1>6. /\ a \in Nat /\ b \in Nat /\ c \in Nat /\ d \in 1..99
        /\ e \in Nat /\ f \in Nat /\ g \in Nat /\ h \in 1..99
        /\ b <= 999 /\ c <= 999 /\ f <= 999 /\ g <= 999
    BY <1>1, <1>2
  <1> HIDE DEF a, b, c, d, e, f, g, h
  <1> QED
    BY <1>4, <1>5, <1>6, SMT DEF Lower

\* The releases are in range.
LEMMA ReleasesInRange == \A v \in Releases : IsTag(v) /\ InRange(v)
  BY ReleasesAssumption DEF HasDfuVersion, InRange

\* The releases have numbers.
LEMMA DfuVersionIsNat ==
  ASSUME NEW v \in Releases
  PROVE  DfuVersion(v) \in 0..MaxDfuVersion
  <1>1. IsTag(v) /\ HasDfuVersion(v)
    BY ReleasesAssumption
  <1>2. v.major \in Nat /\ v.minor \in Nat /\ v.patch \in Nat
    BY <1>1 DEF IsTag
  <1>3. DfuStage(v) \in 1..99
    <2>1. v.sequence <= 49
      BY <1>1 DEF HasDfuVersion
    <2> QED
      BY <1>1, <2>1, StageOrder
  <1>4. DfuVersion(v) <= MaxDfuVersion
    BY <1>1 DEF HasDfuVersion
  <1> DEFINE a == v.major  b == v.minor  c == v.patch  d == DfuStage(v)
  <1>5. DfuVersion(v) = (a * 1000000 + b * 1000 + c) * 100 + d
    BY SMT DEF DfuVersion
  <1>6. a \in Nat /\ b \in Nat /\ c \in Nat /\ d \in 1..99
    BY <1>2, <1>3
  <1> HIDE DEF a, b, c, d
  <1> QED
    BY <1>4, <1>5, <1>6, DfuAssumption, SMT

\* Among some releases there is an oldest and a newest one.
LEMMA Extremes ==
  ASSUME NEW S \in SUBSET Releases, S # {}
  PROVE  /\ \E v \in S : \A u \in S : ~Before(u, v)
         /\ \E v \in S : \A u \in S : ~Before(v, u)
  <1>1. \A u, v \in S : Before(u, v) <=> DfuVersion(u) < DfuVersion(v)
    BY DfuOrder, ReleasesInRange
  <1>2. \A v \in S : DfuVersion(v) \in 0..MaxDfuVersion
    BY DfuVersionIsNat
  <1>3. ASSUME NEW T \in SUBSET Nat, T # {}
        PROVE  \E x \in T : \A y \in T : ~(y < x)
    <2>1. PICK x \in T : \A y \in T : ~(<<y, x>> \in OpToRel(<, Nat))
      BY <1>3, WFMin, NatLessThanWellFounded, Zenon
    <2>2. \A y \in T : <<y, x>> \in OpToRel(<, Nat) <=> y < x
      BY Zenon DEF OpToRel
    <2> QED
      BY <2>1, <2>2
  <1>4. \E v \in S : \A u \in S : ~Before(u, v)
    <2> DEFINE T == {DfuVersion(v) : v \in S}
    <2>1. PICK x \in T : \A y \in T : ~(y < x)
      <3>1. T \in SUBSET Nat /\ T # {}
        BY <1>2, DfuAssumption
      <3> HIDE DEF T
      <3> QED
        BY <1>3, <3>1
    <2> QED
      BY <1>1, <2>1
  <1>5. \E v \in S : \A u \in S : ~Before(v, u)
    <2> DEFINE T == {MaxDfuVersion - DfuVersion(v) : v \in S}
    <2>1. PICK x \in T : \A y \in T : ~(y < x)
      <3>1. T \in SUBSET Nat /\ T # {}
        BY <1>2, DfuAssumption
      <3> HIDE DEF T
      <3> QED
        BY <1>3, <3>1
    <2>2. PICK v \in S : x = MaxDfuVersion - DfuVersion(v)
      BY <2>1
    <2>3. \A u \in S : ~(MaxDfuVersion - DfuVersion(u) < MaxDfuVersion - DfuVersion(v))
      BY <2>1, <2>2
    <2>4. \A u \in S : ~(DfuVersion(v) < DfuVersion(u))
      BY <1>2, <2>3, DfuAssumption
    <2> QED
      BY <1>1, <2>4
  <1> QED
    BY <1>4, <1>5

\* What a policy chooses is listed.
LEMMA ChoiceIsListed ==
  ASSUME NEW entries \in Listing
  PROVE  Choice(entries) \in {<<>>} \cup (Releases \X (1..MaxBuild))
  <1> DEFINE candidates == {v \in Listed(entries) : Allowed(v)}
  <1>1. CASE candidates = {}
    BY <1>1 DEF Choice
  <1>2. CASE candidates # {}
    <2>1. candidates \in SUBSET Releases
      BY DEF Listed
    <2> HIDE DEF candidates
    <2>2. Newest(candidates) \in candidates
      BY <1>2, <2>1, Extremes DEF Newest
    <2>3. Choice(entries) = <<Newest(candidates), entries[Newest(candidates)]>>
      BY <1>2 DEF Choice, candidates
    <2>4. \A v \in candidates : v \in Releases /\ entries[v] \in 1..MaxBuild
      BY BoundAssumption DEF candidates, Listed, Listing, Nothing
    <2> QED
      BY <2>2, <2>3, <2>4
  <1> QED
    BY <1>1, <1>2

-----------------------------------------------------------------------------
(***************************************************************************)
(* The inductive invariant: which keys the rotation has got to, on main,   *)
(* in the installed add-on, and on the branch.                             *)
(***************************************************************************)
TypesOK == TypeOK /\ served \in Seq(Commits)

ClientOK ==
  /\ pc \in {"image", "signature"} => target # <<>>
  /\ pc = "signature" => data = target[2]

SourceOK ==
  /\ rotation = 0 => source = [active |-> Old, legacy |-> Old]
  /\ rotation \in 1..4 => source = [active |-> New, legacy |-> Old]
  /\ rotation = 5 => source = [active |-> New, legacy |-> New]

AddonOK ==
  /\ rotation = 0 => New \notin addon
  /\ rotation <= 4 => Old \in addon
  /\ rotation >= 2 => New \in addon

SecretOK == secret = IF rotation <= 2 THEN Old ELSE New

\* The key of every commit that may still be served, and that of the last one.
ServedOK ==
  /\ rotation <= 2 => \A c \in Served : c.key = Old
  /\ rotation >= 4 => HeadCommit.key = New
  /\ rotation = 5 => \A c \in Served : c.key = New

\* The releases listed by the last commit are there, under the same key.
HeadOK ==
  \A v \in Listed(HeadCommit.entries) :
    /\ HeadCommit.images[v] = HeadCommit.entries[v]
    /\ rotation <= 2 => HeadCommit.signers[v] = Old
    /\ rotation >= 4 => HeadCommit.signers[v] = New

KeysOK == SourceOK /\ AddonOK /\ SecretOK

BranchOK == ServedOK /\ HeadOK

IInv == TypesOK /\ ClientOK /\ KeysOK /\ BranchOK

\* What main trusts follows the rotation.
LEMMA TrustedKeys ==
  ASSUME SourceOK
  PROVE  /\ rotation = 0 => Trusted = {Old}
         /\ rotation \in 1..4 => Trusted = {Old, New}
         /\ rotation = 5 => Trusted = {New}
  BY DEF SourceOK, Trusted

\* Without a step of the rotation, publication or expiry, the keys stay.
LEMMA BranchStays ==
  ASSUME UNCHANGED <<served, rotation>>, BranchOK
  PROVE  BranchOK'
  BY DEF BranchOK, ServedOK, HeadOK, Served, HeadCommit, Listed

\* An added commit is the last one, and the earlier ones stay.
LEMMA CommitAdds ==
  ASSUME TypesOK, NEW c \in Commits, Commit(c)
  PROVE  /\ served' \in Seq(Commits) /\ served' # <<>>
         /\ Served' = Served \cup {c}
         /\ HeadCommit' = c
  <1>1. /\ served' = Append(served, c) /\ served \in Seq(Commits)
    BY DEF TypesOK, Commit
  <1>2. /\ served' \in Seq(Commits) /\ served' # <<>> /\ Len(served') = Len(served) + 1
        /\ \A i \in 1..Len(served) : served'[i] = served[i]
        /\ served'[Len(served) + 1] = c
        /\ DOMAIN served = 1..Len(served) /\ DOMAIN served' = 1..(Len(served) + 1)
        /\ Len(served) \in Nat
    BY <1>1
  <1>3. HeadCommit' = c
    BY <1>2 DEF HeadCommit, Last
  <1>4. Served' = Served \cup {c}
    BY <1>2 DEF Served, Range
  <1> QED
    BY <1>2, <1>3, <1>4

\* The last commit is one of those that are served.
LEMMA HeadIsServed ==
  ASSUME TypesOK
  PROVE  HeadCommit \in Served /\ HeadCommit \in Commits
  <1>1. served \in Seq(Commits) /\ served # <<>>
    BY DEF TypesOK, TypeOK
  <1>2. Len(served) \in DOMAIN served /\ served[Len(served)] \in Commits
    BY <1>1
  <1> QED
    BY <1>2 DEF HeadCommit, Served, Last, Range

\* The invariant holds initially.
LEMMA IInvInit == Init => IInv
  <1> SUFFICES ASSUME Init PROVE IInv
    OBVIOUS
  <1>1. NoImages \in Listing /\ Listed(NoImages) = {}
    BY BoundAssumption DEF NoImages, Listing, Listed, Nothing
  <1>2. EmptyCommit \in Commits /\ EmptyCommit.key = Old /\ EmptyCommit.entries = NoImages
    BY <1>1 DEF Init, EmptyCommit, Commits, Keys
  <1>3. /\ served \in Seq(Commits) /\ served # <<>> /\ HeadCommit = EmptyCommit
        /\ Served = {EmptyCommit}
    <2>1. served = <<EmptyCommit>> /\ DOMAIN served = {1} /\ Len(served) = 1
      BY DEF Init
    <2> QED
      BY <1>2, <2>1 DEF HeadCommit, Served, Last, Range
  <1>4. TypesOK
    BY <1>1, <1>2, <1>3, BoundAssumption DEF Init, TypesOK, TypeOK, Keys, Nothing
  <1>5. ClientOK /\ KeysOK
    BY KeysAssumption DEF Init, ClientOK, KeysOK, SourceOK, AddonOK, SecretOK
  <1>6. BranchOK
    BY <1>1, <1>2, <1>3 DEF Init, BranchOK, ServedOK, HeadOK
  <1> QED
    BY <1>4, <1>5, <1>6 DEF IInv

\* The workflow up to its first commit, and a failure of it, touch no key.
LEMMA WorkflowKeeps ==
  ASSUME IInv, (\E v \in Releases : Tag(v)) \/ Discover \/ Build \/ Fail
  PROVE  IInv'
  <1> USE DEF IInv, publisherVars, keyVars, clientVars
  <1>1. UNCHANGED <<served, keyVars, addon, clientVars>>
    BY DEF Tag, Discover, Build, Fail, Finished
  <1>2. upstream' \subseteq Releases /\ job' \in [todo : SUBSET Releases, built : Listing]
    <2>1. CASE \E v \in Releases : Tag(v)
      BY <2>1 DEF Tag, TypesOK, TypeOK
    <2>2. CASE Discover
      <3>1. NoImages \in Listing
        BY BoundAssumption DEF NoImages, Listing, Nothing
      <3> QED
        BY <2>2, <3>1 DEF Discover, TypesOK, TypeOK
    <2>3. CASE Build
      <3>1. PICK built \in [job.todo -> 1..MaxBuild] :
              job' = [job EXCEPT !.built = [v \in Releases |->
                        IF v \in job.todo THEN built[v] ELSE Nothing]]
        BY <2>3 DEF Build
      <3> DEFINE images == [v \in Releases |-> IF v \in job.todo THEN built[v] ELSE Nothing]
      <3>2. images \in Listing
        BY BoundAssumption DEF Listing, Nothing
      <3>3. job' = [job EXCEPT !.built = images]
        BY <3>1
      <3> HIDE DEF images
      <3> QED
        BY <2>3, <3>2, <3>3 DEF Build, TypesOK, TypeOK
    <2>4. CASE Fail
      BY <2>4 DEF Fail, Finished, TypesOK, TypeOK
    <2> QED
      BY <2>1, <2>2, <2>3, <2>4
  <1>3. TypesOK'
    BY <1>1, <1>2 DEF TypesOK, TypeOK, Served
  <1>4. ClientOK' /\ KeysOK'
    BY <1>1 DEF ClientOK, KeysOK, SourceOK, AddonOK, SecretOK
  <1>5. BranchOK'
    BY <1>1, BranchStays
  <1> QED
    BY <1>3, <1>4, <1>5

\* A publication signs with the key that the rotation has got to.
LEMMA PublishKeeps ==
  ASSUME IInv, Publish
  PROVE  IInv'
  <1> USE DEF IInv
  <1> DEFINE v == CHOOSE u \in job.todo : \A w \in job.todo : ~Before(w, u)
             image == job.built[v]
             c == WithRelease(HeadCommit, v, image)
  <1>1. job.todo \in SUBSET Releases /\ job.todo # {} /\ job.built \in Listing
    BY DEF Publish, Idle, TypesOK, TypeOK
  <1>2. v \in Releases
    <2>1. v \in job.todo
      BY <1>1, Extremes
    <2> QED
      BY <1>1, <2>1
  <1>3. image \in 0..MaxBuild
    BY <1>1, <1>2 DEF Listing
  <1>4. Commit(c) /\ Finished(v) /\ MayPublish /\ UNCHANGED <<upstream, keyVars, addon, clientVars>>
    BY DEF Publish
  <1> HIDE DEF v, image
  <1>5. HeadCommit \in Commits
    BY HeadIsServed
  <1>6. /\ c = [entries |-> [HeadCommit.entries EXCEPT ![v] = image], key |-> secret,
                images |-> [HeadCommit.images EXCEPT ![v] = image],
                signers |-> [HeadCommit.signers EXCEPT ![v] = secret]]
    BY DEF WithRelease
  <1> HIDE DEF c
  <1>7. HeadCommit.entries \in Listing /\ HeadCommit.images \in Listing
        /\ HeadCommit.signers \in [Releases -> Keys]
    BY <1>5 DEF Commits
  <1>8. secret \in Keys
    BY DEF TypesOK, TypeOK
  <1>9. [HeadCommit.entries EXCEPT ![v] = image] \in Listing
        /\ [HeadCommit.images EXCEPT ![v] = image] \in Listing
        /\ [HeadCommit.signers EXCEPT ![v] = secret] \in [Releases -> Keys]
    BY <1>2, <1>3, <1>7, <1>8 DEF Listing
  <1>10. c \in Commits
    BY <1>6, <1>8, <1>9 DEF Commits
  <1>11. /\ served' \in Seq(Commits) /\ served' # <<>> /\ Served' = Served \cup {c}
         /\ HeadCommit' = c
    BY <1>4, <1>10, CommitAdds
  <1>12. TypesOK'
    BY <1>4, <1>10, <1>11 DEF TypesOK, TypeOK, Finished, keyVars, clientVars
  <1>13. ClientOK' /\ KeysOK'
    BY <1>4 DEF ClientOK, KeysOK, SourceOK, AddonOK, SecretOK, keyVars, clientVars
  <1>14. UNCHANGED rotation /\ rotation \in 0..5
    BY <1>4 DEF keyVars, TypesOK, TypeOK
  <1>15. /\ rotation <= 2 => secret = Old
         /\ rotation >= 4 => secret = New
    BY <1>14 DEF KeysOK, SecretOK
  <1>16. ServedOK'
    BY <1>6, <1>11, <1>14, <1>15 DEF BranchOK, ServedOK
  <1>17. HeadOK'
    <2> SUFFICES ASSUME NEW w \in Listed(c.entries)
                 PROVE  /\ c.images[w] = c.entries[w]
                        /\ rotation <= 2 => c.signers[w] = Old
                        /\ rotation >= 4 => c.signers[w] = New
      BY <1>11, <1>14 DEF HeadOK
    <2>1. w \in Releases /\ c.entries[w] # Nothing
      BY DEF Listed
    <2>2. CASE w = v
      BY <1>2, <1>6, <1>7, <1>15, <2>2 DEF Listing
    <2>3. CASE w # v
      <3>1. c.entries[w] = HeadCommit.entries[w] /\ c.images[w] = HeadCommit.images[w]
            /\ c.signers[w] = HeadCommit.signers[w]
        BY <1>6, <1>7, <2>1, <2>3 DEF Listing
      <3>2. w \in Listed(HeadCommit.entries)
        BY <2>1, <3>1 DEF Listed
      <3> QED
        BY <3>1, <3>2 DEF BranchOK, HeadOK
    <2> QED
      BY <2>2, <2>3
  <1> QED
    BY <1>12, <1>13, <1>16, <1>17 DEF BranchOK

\* Forgetting the earlier commits leaves the last one.
LEMMA SettleKeeps ==
  ASSUME IInv, Settle
  PROVE  IInv'
  <1> USE DEF IInv
  <1>1. HeadCommit \in Served /\ HeadCommit \in Commits
    BY HeadIsServed
  <1>2. /\ served' = <<HeadCommit>>
        /\ UNCHANGED <<upstream, job, keyVars, addon, clientVars>>
    BY DEF Settle
  <1>3. /\ served' \in Seq(Commits) /\ served' # <<>> /\ HeadCommit' = HeadCommit
        /\ Served' = {HeadCommit}
    <2>1. Len(served') = 1 /\ DOMAIN served' = {1} /\ served'[1] = HeadCommit
      BY <1>2
    <2> QED
      BY <1>1, <1>2, <2>1 DEF Served, HeadCommit, Last, Range
  <1>4. TypesOK'
    BY <1>1, <1>2, <1>3 DEF TypesOK, TypeOK, keyVars, clientVars
  <1>5. ClientOK' /\ KeysOK' /\ UNCHANGED rotation
    BY <1>2 DEF ClientOK, KeysOK, SourceOK, AddonOK, SecretOK, keyVars, clientVars
  <1>6. BranchOK'
    BY <1>1, <1>3, <1>5 DEF BranchOK, ServedOK, HeadOK
  <1> QED
    BY <1>4, <1>5, <1>6

\* A rotation goes on only from where its guard says, so that every key is
\* known to the add-on before it is used, and no longer used before it is
\* forgotten.
LEMMA RotationKeeps ==
  ASSUME IInv, Rotation
  PROVE  IInv'
  <1> USE DEF IInv
  <1> USE KeysAssumption
  <1>1. rotation \in 0..5 /\ secret \in Keys
    BY DEF TypesOK, TypeOK
  <1>2. CASE ReleaseBridge
    <2>1. /\ rotation = 0 /\ rotation' = 1 /\ source' = [active |-> New, legacy |-> Old]
          /\ UNCHANGED <<publisherVars, secret, addon, clientVars>>
      BY <1>2 DEF ReleaseBridge, Step
    <2>2. TypesOK' /\ ClientOK'
      BY <2>1 DEF TypesOK, TypeOK, ClientOK, publisherVars, clientVars, Served, Keys
    <2>3. KeysOK'
      BY <2>1 DEF KeysOK, SourceOK, AddonOK, SecretOK
    <2>4. BranchOK'
      BY <2>1 DEF BranchOK, ServedOK, HeadOK, Served, HeadCommit, Listed, publisherVars
    <2> QED
      BY <2>2, <2>3, <2>4
  <1>3. CASE ConfirmBridge
    <2>1. /\ rotation = 1 /\ rotation' = 2 /\ New \in addon
          /\ UNCHANGED <<publisherVars, secret, source, addon, clientVars>>
      BY <1>3 DEF ConfirmBridge, Step
    <2>2. TypesOK' /\ ClientOK'
      BY <2>1 DEF TypesOK, TypeOK, ClientOK, publisherVars, clientVars, Served
    <2>3. KeysOK'
      BY <2>1 DEF KeysOK, SourceOK, AddonOK, SecretOK
    <2>4. BranchOK'
      BY <2>1 DEF BranchOK, ServedOK, HeadOK, Served, HeadCommit, Listed, publisherVars
    <2> QED
      BY <2>2, <2>3, <2>4
  <1>4. CASE ReplaceSecret
    <2>1. /\ rotation = 2 /\ rotation' = 3 /\ secret' = New
          /\ UNCHANGED <<publisherVars, source, addon, clientVars>>
      BY <1>4 DEF ReplaceSecret, Step
    <2>2. TypesOK' /\ ClientOK'
      BY <2>1 DEF TypesOK, TypeOK, ClientOK, publisherVars, clientVars, Served, Keys
    <2>3. KeysOK'
      BY <2>1 DEF KeysOK, SourceOK, AddonOK, SecretOK
    <2>4. BranchOK'
      BY <2>1 DEF BranchOK, ServedOK, HeadOK, Served, HeadCommit, Listed, publisherVars
    <2> QED
      BY <2>2, <2>3, <2>4
  <1>5. CASE Reset
    <2>1. /\ rotation = 3 /\ rotation' = 4 /\ Commit(EmptyCommit)
          /\ UNCHANGED <<upstream, job, secret, source, addon, clientVars>>
      BY <1>5 DEF Reset, Step
    <2>2. NoImages \in Listing /\ Listed(NoImages) = {}
      BY BoundAssumption DEF NoImages, Listing, Listed, Nothing
    <2>3. secret = New
      BY <2>1 DEF KeysOK, SecretOK
    <2>4. /\ EmptyCommit \in Commits /\ EmptyCommit.key = New
          /\ EmptyCommit.entries = NoImages
      BY <2>2, <2>3 DEF EmptyCommit, Commits, Keys
    <2>5. /\ served' \in Seq(Commits) /\ served' # <<>> /\ HeadCommit' = EmptyCommit
          /\ Served' = Served \cup {EmptyCommit}
      BY <2>1, <2>4, CommitAdds
    <2>6. TypesOK' /\ ClientOK'
      BY <2>1, <2>4, <2>5 DEF TypesOK, TypeOK, ClientOK, clientVars
    <2>7. KeysOK'
      BY <2>1 DEF KeysOK, SourceOK, AddonOK, SecretOK
    <2>8. BranchOK'
      BY <2>1, <2>2, <2>4, <2>5 DEF BranchOK, ServedOK, HeadOK
    <2> QED
      BY <2>6, <2>7, <2>8
  <1>6. CASE RetireOld
    <2>1. /\ rotation = 4 /\ rotation' = 5 /\ served = <<HeadCommit>>
          /\ source' = [active |-> New, legacy |-> New]
          /\ UNCHANGED <<publisherVars, secret, addon, clientVars>>
      BY <1>6 DEF RetireOld, Step
    <2>2. TypesOK' /\ ClientOK'
      BY <2>1 DEF TypesOK, TypeOK, ClientOK, publisherVars, clientVars, Served, Keys
    <2>3. KeysOK'
      BY <2>1 DEF KeysOK, SourceOK, AddonOK, SecretOK
    <2>4. UNCHANGED <<Served, HeadCommit>>
      BY <2>1 DEF publisherVars, Served, HeadCommit
    <2>5. Served = {HeadCommit}
      BY <2>1 DEF Served, Range
    <2>6. BranchOK'
      BY <2>1, <2>4, <2>5 DEF BranchOK, ServedOK, HeadOK
    <2> QED
      BY <2>2, <2>3, <2>6
  <1> QED
    BY <1>2, <1>3, <1>4, <1>5, <1>6 DEF Rotation

\* An updated add-on knows what main trusts, which is enough at every step.
LEMMA UpdateAddonKeeps ==
  ASSUME IInv, UpdateAddon
  PROVE  IInv'
  <1> USE DEF IInv
  <1>1. /\ addon' = Trusted /\ addon # Trusted
        /\ pc' = "idle" /\ target' = <<>> /\ payload' = NoImages /\ data' = Nothing
        /\ UNCHANGED <<publisherVars, keyVars, policy, cache, handed>>
    BY DEF UpdateAddon
  <1>2. rotation \in 0..5 /\ source \in [active : Keys, legacy : Keys] /\ UNCHANGED rotation
    BY <1>1 DEF TypesOK, TypeOK, keyVars
  <1>3. Trusted \subseteq Keys
    BY <1>2 DEF Trusted
  <1>4. NoImages \in Listing
    BY BoundAssumption DEF NoImages, Listing, Nothing
  <1>5. TypesOK' /\ ClientOK'
    BY <1>1, <1>3, <1>4, BoundAssumption
       DEF TypesOK, TypeOK, ClientOK, publisherVars, keyVars, Served, Nothing
  <1>6. SourceOK /\ SecretOK
    BY DEF KeysOK
  <1>7. SourceOK' /\ SecretOK'
    BY <1>1, <1>6 DEF SourceOK, SecretOK, keyVars
  <1>8. AddonOK'
    BY <1>1, <1>2, <1>6, TrustedKeys, KeysAssumption DEF AddonOK
  <1>9. BranchOK'
    BY <1>1, <1>2, BranchStays DEF publisherVars
  <1> QED
    BY <1>5, <1>7, <1>8, <1>9 DEF KeysOK

\* The add-on chooses from a manifest, and keeps of an image what has the hash.
LEMMA ClientKeeps ==
  ASSUME IInv, Client
  PROVE  IInv'
  <1> USE DEF IInv
  <1>1. UNCHANGED <<publisherVars, keyVars, addon>>
    BY DEF Client, Refresh, Operate, FetchManifest, CheckManifest, FetchImage, CheckImage
  <1>2. KeysOK'
    BY <1>1 DEF KeysOK, SourceOK, AddonOK, SecretOK, keyVars
  <1>3. BranchOK'
    BY <1>1, BranchStays DEF publisherVars, keyVars
  <1>4. (TypeOK /\ ClientOK)'
    <2> SUFFICES /\ policy' \in Policies /\ payload' \in Listing /\ data' \in 0..MaxBuild
                 /\ cache' \in Listing
                 /\ target' \in {<<>>} \cup (Releases \X (1..MaxBuild))
                 /\ handed' \in {<<>>} \cup (Releases \X (1..MaxBuild))
                 /\ pc' \in {"idle", "refresh", "operation", "image", "signature"}
                 /\ ClientOK'
      BY <1>1 DEF TypesOK, TypeOK, publisherVars, keyVars, Served
    <2> USE DEF TypesOK, TypeOK
    <2>1. ASSUME NEW next \in {"refresh", "operation"}, FetchManifest(next)
          PROVE  /\ payload' \in Listing /\ pc' = next
                 /\ UNCHANGED <<policy, target, data, cache, handed>>
      BY <2>1 DEF FetchManifest, Commits
    <2>2. CASE Refresh \/ Operate
      BY <2>1, <2>2 DEF Refresh, Operate, ClientOK
    <2>3. CASE CheckManifest
      <3>1. NoImages \in Listing
        BY BoundAssumption DEF NoImages, Listing, Nothing
      <3>2. target' \in {<<>>} \cup (Releases \X (1..MaxBuild))
        BY <2>3, ChoiceIsListed DEF CheckManifest
      <3>3. /\ pc' = IF pc = "operation" /\ target' # <<>> THEN "image" ELSE "idle"
            /\ payload' = NoImages /\ UNCHANGED <<policy, data, cache, handed>>
        BY <2>3 DEF CheckManifest
      <3> QED
        BY <3>1, <3>2, <3>3 DEF ClientOK
    <2>4. CASE FetchImage
      <3>1. PICK image \in 0..MaxBuild :
              IF IsNamed(image) THEN pc' = "signature" /\ data' = image
                                ELSE pc' = "idle" /\ data' = Nothing
        BY <2>4 DEF FetchImage
      <3>2. pc = "image" /\ UNCHANGED <<policy, payload, target, cache, handed>>
        BY <2>4 DEF FetchImage
      <3> QED
        BY <3>1, <3>2, BoundAssumption DEF IsNamed, ClientOK, Nothing
    <2>5. CASE CheckImage
      <3>1. target \in Releases \X (1..MaxBuild) /\ data = target[2]
        BY <2>5 DEF CheckImage, ClientOK
      <3>2. target[1] \in Releases /\ data \in 1..MaxBuild
        BY <3>1
      <3>3. /\ \/ cache' = [cache EXCEPT ![target[1]] = data] /\ handed' = <<target[1], data>>
               \/ UNCHANGED <<cache, handed>>
            /\ pc' = "idle" /\ data' = Nothing /\ UNCHANGED <<policy, payload, target>>
        BY <2>5 DEF CheckImage
      <3>4. cache' \in Listing
        BY <3>2, <3>3 DEF Listing
      <3>5. handed' \in {<<>>} \cup (Releases \X (1..MaxBuild))
        BY <3>2, <3>3
      <3> QED
        BY <3>3, <3>4, <3>5, BoundAssumption DEF ClientOK, Nothing
    <2> QED
      BY <2>2, <2>3, <2>4, <2>5 DEF Client
  <1>5. TypesOK'
    BY <1>1, <1>4 DEF TypesOK, publisherVars
  <1> QED
    BY <1>2, <1>3, <1>4, <1>5

\* The invariant is inductive.
LEMMA IInvStep == IInv /\ [Next]_vars => IInv'
  <1> SUFFICES ASSUME IInv, [Next]_vars PROVE IInv'
    OBVIOUS
  <1>1. CASE UNCHANGED vars
    <2>1. TypesOK' /\ ClientOK' /\ KeysOK'
      BY <1>1 DEF IInv, TypesOK, TypeOK, ClientOK, KeysOK, SourceOK, AddonOK, SecretOK,
         vars, publisherVars, keyVars, clientVars, Served
    <2>2. BranchOK'
      BY <1>1, BranchStays DEF IInv, vars, publisherVars, keyVars
    <2> QED
      BY <2>1, <2>2 DEF IInv
  <1>2. CASE \E v \in Releases : Tag(v)
    BY <1>2, WorkflowKeeps
  <1>3. CASE Workflow
    BY <1>3, WorkflowKeeps, PublishKeeps DEF Workflow
  <1>4. CASE Settle
    BY <1>4, SettleKeeps
  <1>5. CASE Rotation
    BY <1>5, RotationKeeps
  <1>6. CASE UpdateAddon
    BY <1>6, UpdateAddonKeeps
  <1>7. CASE Client
    BY <1>7, ClientKeeps
  <1> QED
    BY <1>1, <1>2, <1>3, <1>4, <1>5, <1>6, <1>7 DEF Next

\* The invariant holds of every behaviour.
LEMMA IInvAlways == Spec => []IInv
  BY IInvInit, IInvStep, PTL DEF Spec

-----------------------------------------------------------------------------
(***************************************************************************)
(* The theorems.                                                           *)
(***************************************************************************)
\* Every variable stays in its range; a chosen release is one of the tags.
THEOREM TypeCorrect == Spec => []TypeOK
  <1>1. IInv => TypeOK
    BY DEF IInv, TypesOK
  <1> QED
    BY <1>1, IInvAlways, PTL

\* At every step of a rotation the add-on knows the key of each commit that a
\* request may be answered from.
THEOREM NeverCutOff == Spec => []AddonIsServed
  <1>1. IInv => AddonIsServed
    <2> SUFFICES ASSUME IInv, NEW c \in Served PROVE c.key \in addon
      BY DEF AddonIsServed
    <2>1. c.key \in {Old, New} /\ rotation \in 0..5
      BY DEF IInv, TypesOK, TypeOK, Commits, Keys
    <2> QED
      BY <2>1 DEF IInv, KeysOK, AddonOK, BranchOK, ServedOK
  <1> QED
    BY <1>1, IInvAlways, PTL

\* After every commit an add-on that is up to date can install what is listed.
THEOREM NothingHalfPublished == Spec => []BranchIsWhole
  <1>1. IInv => BranchIsWhole
    <2> SUFFICES ASSUME IInv PROVE BranchIsWhole
      OBVIOUS
    <2>1. rotation \in 0..5 /\ HeadCommit \in Served /\ HeadCommit \in Commits
      BY HeadIsServed DEF IInv, TypesOK, TypeOK
    <2>2. /\ rotation = 0 => Trusted = {Old}
          /\ rotation \in 1..4 => Trusted = {Old, New}
          /\ rotation = 5 => Trusted = {New}
      BY TrustedKeys DEF IInv, KeysOK
    <2>3. HeadCommit.key \in {Old, New} /\ HeadCommit.signers \in [Releases -> {Old, New}]
      BY <2>1 DEF Commits, Keys
    <2>4. HeadCommit.key \in Trusted
      BY <2>1, <2>2, <2>3 DEF IInv, BranchOK, ServedOK
    <2>5. ASSUME NEW v \in Listed(HeadCommit.entries)
          PROVE  /\ HeadCommit.images[v] = HeadCommit.entries[v]
                 /\ HeadCommit.signers[v] \in Trusted
      <3>1. v \in Releases
        BY DEF Listed
      <3>2. HeadCommit.signers[v] \in {Old, New}
        BY <2>3, <3>1
      <3> QED
        BY <2>1, <2>2, <3>2 DEF IInv, BranchOK, HeadOK
    <2> QED
      BY <2>4, <2>5 DEF BranchIsWhole
  <1> QED
    BY <1>1, IInvAlways, PTL

\* The updater only gets the very image that the verified manifest named.
THEOREM OnlyTheNamed == Spec => HandedIsNamed
  <1>1. IInv /\ [Next]_vars => (handed' # handed => handed' = target)
    <2> SUFFICES ASSUME IInv, Next, handed' # handed PROVE handed' = target
      BY DEF vars, clientVars
    <2>1. CheckImage
      BY DEF Next, Workflow, Rotation, Client, Tag, Discover, Build, Publish, Fail, Settle,
         ReleaseBridge, ConfirmBridge, ReplaceSecret, Reset, RetireOld, UpdateAddon,
         Refresh, Operate, FetchManifest, CheckManifest, FetchImage, clientVars
    <2>2. handed' = <<target[1], data>>
      BY <2>1 DEF CheckImage
    <2>3. target \in Releases \X (1..MaxBuild) /\ data = target[2]
      BY <2>1 DEF IInv, TypesOK, TypeOK, ClientOK, CheckImage
    <2> QED
      BY <2>2, <2>3
  <1>2. IInv /\ [Next]_vars => [handed' # handed => handed' = target]_vars
    BY <1>1
  <1> QED
    BY <1>2, IInvAlways, PTL DEF Spec, HandedIsNamed

\* Every other tag of the patch release of a tag in range is in range.
LEMMA SiblingsInRange ==
  ASSUME NEW v, InRange(v), NEW u \in Siblings(v)
  PROVE  IsTag(u) /\ InRange(u)
  <1>1. IsTag(u) /\ u.major = v.major /\ u.minor = v.minor /\ u.patch = v.patch /\ u.sequence \in 0..49
    BY DEF Siblings
  <1> QED
    BY <1>1 DEF InRange

\* models.py:128-157 with 57-75: for every set of tags with a DFU version that sdk-nrf
\* may publish, the number grows exactly as version_key does, when a tag comes out
\* and beside every other tag of its patch release.
THEOREM NewerIsHigher == Spec => UpdatesAreUpgrades
  <1>1. IInv /\ IInv' => [\A v \in upstream' \ upstream : \A u \in upstream \cup Siblings(v) :
          /\ Before(u, v) <=> DfuVersion(u) < DfuVersion(v)
          /\ Before(v, u) <=> DfuVersion(v) < DfuVersion(u)]_vars
    <2> SUFFICES ASSUME IInv, IInv', NEW v \in upstream' \ upstream,
                        NEW u \in upstream \cup Siblings(v)
                 PROVE  /\ Before(u, v) <=> DfuVersion(u) < DfuVersion(v)
                        /\ Before(v, u) <=> DfuVersion(v) < DfuVersion(u)
      OBVIOUS
    <2>1. v \in Releases /\ upstream \subseteq Releases
      BY DEF IInv, TypesOK, TypeOK
    <2>2. IsTag(v) /\ InRange(v)
      BY <2>1, ReleasesInRange
    <2>3. IsTag(u) /\ InRange(u)
      BY <2>1, <2>2, SiblingsInRange, ReleasesInRange
    <2> QED
      BY <2>2, <2>3, DfuOrder
  <1> QED
    BY <1>1, IInvAlways, PTL DEF UpdatesAreUpgrades

=============================================================================
