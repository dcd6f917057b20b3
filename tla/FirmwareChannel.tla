---------------------------- MODULE FirmwareChannel ----------------------------
(***************************************************************************)
(* How firmware reaches the add-on.  Once an hour a workflow builds the    *)
(* NCS tags that are not published yet, signs them and commits them one by *)
(* one to the firmware branch, with a signed manifest that names each      *)
(* image by its hash (tools/publish_manifest.py, tools/sign_firmware.py,   *)
(* .github/workflows/ncs-candidate.yml).  The add-on polls the manifest    *)
(* and, for an operation, downloads the image it names (app/manifest.py,   *)
(* with the callers in app/main.py and app/updater.py).  Manifest, image   *)
(* and their two signatures are four requests, each answered from one of   *)
(* the last commits.  Meanwhile the maintainer may replace the signing key *)
(* in the order README.md gives.                                           *)
(*                                                                         *)
(* The content of an image is its tag and a number: building a tag again   *)
(* may give the same bytes or others.  Signatures and hashes are ideal: a  *)
(* signature matches the bytes it was made for, and equal hashes mean      *)
(* equal bytes.                                                            *)
(***************************************************************************)
EXTENDS Versions, FiniteSets, SequencesExt

CONSTANTS
  Releases,   \* the tags sdk-nrf may publish
  Policies,   \* [prereleases |-> BOOLEAN, line |-> minor line or NoLine]
  NoLine,     \* pinned_ncs_minor is empty
  MaxBuild,   \* bound: different images of one tag
  MaxCommits, \* bound: commits that a cache may still answer with
  Old, New    \* the key that signs at first, and its replacement

ASSUME ReleasesAssumption ==
  /\ IsFiniteSet(Releases)
  /\ \A v \in Releases : IsTag(v) /\ HasDfuVersion(v)
ASSUME KeysAssumption == Old # New
ASSUME BoundAssumption == MaxBuild \in Nat \ {0} /\ MaxCommits \in Nat \ {0}

VARIABLES
  upstream,  \* tags of sdk-nrf
  job,       \* the workflow run: tags to publish and their images
  served,    \* commits of the firmware branch that a request may be answered from
  secret,    \* FIRMWARE_SIGNING_PRIVATE_KEY_B64
  source,    \* the two public keys on the main branch
  rotation,  \* steps of the key rotation that are done
  addon,     \* public keys in the installed add-on
  policy,    \* the user's channel settings
  payload,   \* manifest being verified
  target,    \* the release that the policy chose
  data,      \* image being verified
  cache,     \* images in the download directory
  pc,        \* what the add-on is doing
  handed     \* the image given to the updater

publisherVars == <<upstream, job, served>>
keyVars == <<secret, source, rotation>>
clientVars == <<policy, payload, target, data, cache, pc, handed>>
vars == <<publisherVars, keyVars, addon, clientVars>>

Nothing == 0

Listing == [Releases -> 0..MaxBuild]
NoImages == [v \in Releases |-> Nothing]
Keys == {Old, New}

\* The manifest, the key that signed it, and the images with their signers.
Commits == [entries : Listing, key : Keys, images : Listing, signers : [Releases -> Keys]]

Listed(entries) == {v \in Releases : entries[v] # Nothing}

HeadCommit == Last(served)
Served == Range(served)

Trusted == {source.active, source.legacy}

-----------------------------------------------------------------------------
(***************************************************************************)
(* The workflow.                                                           *)
(***************************************************************************)
Tag(v) ==
  /\ v \notin upstream
  /\ upstream' = upstream \cup {v}
  /\ UNCHANGED <<job, served, keyVars, addon, clientVars>>

\* MUTANT of Wanted: any tag of the patch release counts as published.
WantedOnce(v, done) == FinalOf(v) \notin {FinalOf(u) : u \in done}

\* Not published yet, and not a pre-release of a published stable tag.
Wanted(v, done) == v \notin done /\ ~(IsPrerelease(v) /\ FinalOf(v) \in done)

Idle == job.todo = {}

Discover ==
  /\ Idle
  /\ job' = [todo |-> {v \in upstream : Wanted(v, Listed(HeadCommit.entries))},
             built |-> NoImages]
  /\ job'.todo # {}
  /\ UNCHANGED <<upstream, served, keyVars, addon, clientVars>>

Unbuilt == job.built = NoImages

\* The build jobs run in parallel, and all have to succeed.
Build ==
  /\ ~Idle /\ Unbuilt
  /\ \E built \in [job.todo -> 1..MaxBuild] :
       job' = [job EXCEPT !.built = [v \in Releases |->
                 IF v \in job.todo THEN built[v] ELSE Nothing]]
  /\ UNCHANGED <<upstream, served, keyVars, addon, clientVars>>

\* update_manifest replaces the entry of a tag; the manifest is signed anew.
WithRelease(commit, v, image) ==
  [entries |-> [commit.entries EXCEPT ![v] = image], key |-> secret,
   images |-> [commit.images EXCEPT ![v] = image],
   signers |-> [commit.signers EXCEPT ![v] = secret]]

Commit(commit) ==
  /\ Len(served) < MaxCommits
  /\ served' = Append(served, commit)

\* What was signed verifies with the active public key, the manifest that is
\* replaced with either.
MayPublish == secret = source.active /\ HeadCommit.key \in Trusted

Finished(v) == job' = [job EXCEPT !.todo = @ \ {v}]

\* Jobs of the matrix run one after the other, in the order of the tags.
Publish ==
  /\ ~Idle /\ ~Unbuilt /\ MayPublish
  /\ LET v == CHOOSE u \in job.todo : \A w \in job.todo : ~Before(w, u)
     IN /\ Commit(WithRelease(HeadCommit, v, job.built[v]))
        /\ Finished(v)
  /\ UNCHANGED <<upstream, keyVars, addon, clientVars>>

\* A failed build ends the run; a failed publication only its own job.
Fail ==
  /\ ~Idle
  /\ IF Unbuilt THEN job' = [job EXCEPT !.todo = {}] ELSE \E v \in job.todo : Finished(v)
  /\ UNCHANGED <<upstream, served, keyVars, addon, clientVars>>

\* Caches in front of the branch forget the older commits.
Settle ==
  /\ Len(served) > 1
  /\ served' = <<HeadCommit>>
  /\ UNCHANGED <<upstream, job, keyVars, addon, clientVars>>

-----------------------------------------------------------------------------
(***************************************************************************)
(* The rotation of the signing key, one step after the other.              *)
(***************************************************************************)
Step(n) == rotation = n - 1 /\ rotation' = n

\* A bridge release trusts both keys and expects the new one to sign.
ReleaseBridge ==
  /\ Step(1)
  /\ source' = [active |-> New, legacy |-> Old]
  /\ UNCHANGED <<publisherVars, secret, addon, clientVars>>

\* MUTANT of ConfirmBridge: nobody looks at what Home Assistant runs.
AssumeBridge ==
  /\ Step(2)
  /\ UNCHANGED <<publisherVars, secret, source, addon, clientVars>>

ConfirmBridge ==
  /\ Step(2) /\ New \in addon
  /\ UNCHANGED <<publisherVars, secret, source, addon, clientVars>>

ReplaceSecret ==
  /\ Step(3)
  /\ secret' = New
  /\ UNCHANGED <<publisherVars, source, addon, clientVars>>

EmptyCommit ==
  [entries |-> NoImages, key |-> secret, images |-> NoImages,
   signers |-> [v \in Releases |-> secret]]

\* MUTANT of Reset: the manifest is signed anew with the old releases in it.
SignAgain ==
  /\ Step(4) /\ Idle /\ MayPublish
  /\ Commit([HeadCommit EXCEPT !.key = secret])
  /\ UNCHANGED <<upstream, job, secret, source, addon, clientVars>>

\* reset-firmware-branch, in the concurrency group of the publication.
Reset ==
  /\ Step(4) /\ Idle /\ MayPublish
  /\ Commit(EmptyCommit)
  /\ UNCHANGED <<upstream, job, secret, source, addon, clientVars>>

\* A later release no longer knows the old key; the caches have expired by then.
RetireOld ==
  /\ Step(5) /\ served = <<HeadCommit>>
  /\ source' = [active |-> New, legacy |-> New]
  /\ UNCHANGED <<publisherVars, secret, addon, clientVars>>

\* The user installs the current release of the add-on, which restarts it.
UpdateAddon ==
  /\ addon # Trusted
  /\ addon' = Trusted
  /\ pc' = "idle" /\ target' = <<>> /\ payload' = NoImages /\ data' = Nothing
  /\ UNCHANGED <<publisherVars, keyVars, policy, cache, handed>>

-----------------------------------------------------------------------------
(***************************************************************************)
(* The add-on.                                                             *)
(***************************************************************************)
Allowed(v) ==
  /\ policy.prereleases \/ ~IsPrerelease(v)
  /\ policy.line \in {NoLine, MinorLine(v)}

\* MUTANT of Choice: what a tag could be, whether the manifest has it or not.
ChoiceUnlisted(entries) ==
  LET v == Newest({u \in Releases : Allowed(u)}) IN <<v, entries[v]>>

\* newest_for
Choice(entries) ==
  LET candidates == {v \in Listed(entries) : Allowed(v)}
  IN IF candidates = {} THEN <<>>
     ELSE LET v == Newest(candidates) IN <<v, entries[v]>>

\* A refresh, or the first thing an operation does.
FetchManifest(next) ==
  /\ pc = "idle" /\ pc' = next
  /\ \E c \in Served : payload' = c.entries
  /\ UNCHANGED <<publisherVars, keyVars, addon, policy, target, data, cache, handed>>

\* The signature is another request.
Vouches(c) == c.entries = payload /\ c.key \in addon

CheckManifest ==
  /\ pc \in {"refresh", "operation"}
  /\ \E c \in Served : target' = IF Vouches(c) THEN Choice(payload) ELSE <<>>
  /\ pc' = IF pc = "operation" /\ target' # <<>> THEN "image" ELSE "idle"
  /\ payload' = NoImages
  /\ UNCHANGED <<publisherVars, keyVars, addon, policy, data, cache, handed>>

\* MUTANT of IsNamed: the file name is enough.
IsThere(image) == image # Nothing

\* The hash of the manifest.
IsNamed(image) == image = target[2]

\* MUTANT of Obtained: a file of that name is not downloaded again.
ObtainedOnce(image) ==
  IF cache[target[1]] # Nothing
  THEN image = cache[target[1]]
  ELSE image \in {c.images[target[1]] : c \in Served}

\* A file kept from an earlier download, or what the branch has.
Obtained(image) ==
  IF cache[target[1]] # Nothing /\ IsNamed(cache[target[1]])
  THEN image = cache[target[1]]
  ELSE image \in {c.images[target[1]] : c \in Served}

\* A missing file and one of another hash end the operation.
FetchImage ==
  /\ pc = "image"
  /\ \E image \in 0..MaxBuild :
       /\ Obtained(image)
       /\ IF IsNamed(image) THEN pc' = "signature" /\ data' = image
                            ELSE pc' = "idle" /\ data' = Nothing
  /\ UNCHANGED <<publisherVars, keyVars, addon, policy, payload, target, cache, handed>>

Signs(c) == c.images[target[1]] = data /\ c.signers[target[1]] \in addon

\* The signature of the image; the file is then kept and handed over.
CheckImage ==
  /\ pc = "signature"
  /\ \E c \in Served :
       IF Signs(c)
       THEN cache' = [cache EXCEPT ![target[1]] = data] /\ handed' = <<target[1], data>>
       ELSE UNCHANGED <<cache, handed>>
  /\ pc' = "idle" /\ data' = Nothing
  /\ UNCHANGED <<publisherVars, keyVars, addon, policy, payload, target>>

-----------------------------------------------------------------------------
\* The branch begins with an empty manifest.
Init ==
  /\ upstream = {} /\ job = [todo |-> {}, built |-> NoImages]
  /\ secret = Old /\ source = [active |-> Old, legacy |-> Old] /\ rotation = 0
  /\ served = <<EmptyCommit>>
  /\ addon = {Old} /\ policy \in Policies
  /\ payload = NoImages /\ target = <<>> /\ data = Nothing /\ cache = NoImages
  /\ pc = "idle" /\ handed = <<>>

Workflow == Discover \/ Build \/ Publish \/ Fail

Rotation == ReleaseBridge \/ ConfirmBridge \/ ReplaceSecret \/ Reset \/ RetireOld

Refresh == FetchManifest("refresh")
Operate == FetchManifest("operation")

Client == Refresh \/ Operate \/ CheckManifest \/ FetchImage \/ CheckImage

Next ==
  \/ (\E v \in Releases : Tag(v)) \/ Workflow \/ Settle
  \/ Rotation \/ UpdateAddon \/ Client

\* The workflow runs every hour and does not fail for ever; caches expire; the
\* add-on polls; a rotation that has begun gets as far as the new secret.
\* Nobody has to ask for an operation.
Fairness ==
  /\ WF_vars(Discover) /\ SF_vars(Build) /\ SF_vars(Publish) /\ WF_vars(Settle)
  /\ WF_vars(Refresh \/ Operate)
  /\ WF_vars(CheckManifest) /\ WF_vars(FetchImage) /\ WF_vars(CheckImage)
  /\ WF_vars(UpdateAddon) /\ WF_vars(ConfirmBridge) /\ WF_vars(ReplaceSecret)

Spec == Init /\ [][Next]_vars /\ Fairness

-----------------------------------------------------------------------------
(***************************************************************************)
(* Properties.                                                             *)
(***************************************************************************)
\* Every variable stays in its range.
TypeOK ==
  /\ upstream \subseteq Releases
  /\ job \in [todo : SUBSET Releases, built : Listing]
  /\ served # <<>> /\ Served \subseteq Commits
  /\ secret \in Keys /\ source \in [active : Keys, legacy : Keys] /\ rotation \in 0..5
  /\ addon \subseteq Keys /\ policy \in Policies
  /\ payload \in Listing /\ data \in 0..MaxBuild /\ cache \in Listing
  /\ target \in {<<>>} \cup (Releases \X (1..MaxBuild))
  /\ handed \in {<<>>} \cup (Releases \X (1..MaxBuild))
  /\ pc \in {"idle", "refresh", "operation", "image", "signature"}

\* manifest.py:226-266: the four requests of an operation may be answered from
\* different commits, and the file may be left from an earlier one; the updater
\* still only gets the very image that the verified manifest named.
HandedIsNamed == [][handed' # handed => handed' = target]_vars

\* ncs-candidate.yml, publish and reset: whatever fails between two commits, an
\* add-on that was updated to what main trusts can install every release that
\* the branch lists: the file is there, it is the one with the hash, and both
\* signatures verify.
BranchIsWhole ==
  /\ HeadCommit.key \in Trusted
  /\ \A v \in Listed(HeadCommit.entries) :
       /\ HeadCommit.images[v] = HeadCommit.entries[v]
       /\ HeadCommit.signers[v] \in Trusted

\* README.md:620-639: nowhere in the rotation of the key is the installed add-on
\* cut off from the manifest.
AddonIsServed == \A c \in Served : c.key \in addon

\* The tags that one patch release can have, as far as they have a DFU version.
Siblings(v) ==
  {u \in [major : {v.major}, minor : {v.minor}, patch : {v.patch},
           kind : Kinds, sequence : 0..49] : IsTag(u)}

\* models.py:128-157 with 57-75: the number of Secure DFU grows as the tags do, so
\* that an update of the policy is none that the bootloader refuses.  A tag that
\* comes out is told apart from every tag that was out before, and from every one
\* that its patch release can have: the dongle may run one that was dropped.
UpdatesAreUpgrades ==
  [][\A v \in upstream' \ upstream : \A u \in upstream \cup Siblings(v) :
       /\ Before(u, v) <=> DfuVersion(u) < DfuVersion(v)
       /\ Before(v, u) <=> DfuVersion(v) < DfuVersion(u)]_vars

Candidates == {v \in upstream : Allowed(v)}

\* The workflow, main.py:306-320 and manifest.py:177-194: when sdk-nrf publishes
\* nothing more, the add-on comes to offer the newest tag that the user's
\* channel allows, through failed runs, outdated answers and a rotation.
OffersTheNewest ==
  <>[](IF Candidates = {} THEN target = <<>>
       ELSE target # <<>> /\ target[1] = Newest(Candidates))

\* manifest.py:233-243: an add-on that is asked again and again comes to hand
\* over the image of the release it offers, even when the branch was built anew
\* under the same file names.
InstallsTheNewest ==
  []<><<Operate>>_vars => <>[](Candidates = {} \/ handed = target)

=============================================================================
