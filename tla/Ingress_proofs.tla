---------------------------- MODULE Ingress_proofs ----------------------------
(***************************************************************************)
(* Theorems about Ingress, for every set of artifacts, of requests and of  *)
(* MQTT commands, and every limit of the registry: the limit is kept, an   *)
(* artifact is flashed once, and a temporary file has an owner from its    *)
(* handler to the end of its command.                                      *)
(***************************************************************************)
EXTENDS Ingress, FiniteSetTheorems, TLAPS

-----------------------------------------------------------------------------
(***************************************************************************)
(* The inductive invariant.  A request is live from its claim until its    *)
(* command was flashed or refused, and an executed one stays live: only    *)
(* one live request may name an artifact, and none an artifact that can be *)
(* claimed.                                                                *)
(***************************************************************************)
Live(r) == request[r] \in {"claimed", "accepted", "refused"} \/ r \in executed \/ r = slot

ClaimsOK ==
  /\ \A a \in Artifacts : entry[a] # "absent" => validation[a] = "over"
  /\ \A r \in Requests : Live(r) =>
       /\ artifactOf[r] \in Artifacts
       /\ validation[artifactOf[r]] = "over"
       /\ entry[artifactOf[r]] # "staged"
  /\ \A r, s \in Requests : Live(r) /\ Live(s) /\ artifactOf[r] = artifactOf[s] => r = s
  /\ \A r \in Requests : r \in executed \/ r = slot => request[r] \in {"accepted", "over"}

\* What the main thread has in its hands.
HandsOK ==
  /\ worker = "loop" => hands = NoOp
  /\ worker \in {"run", "dfu", "probing", "probed", "transfer", "refused", "flashed"}
       => hands = slot
  /\ worker \in {"run", "dfu", "probing", "probed", "transfer", "refused", "flashed", "discard"}
       => hands \in executed
  /\ worker \in {"loop", "discard", "cancelled"} => slot \notin executed

Validated(a) == validation[a] \in {"stored", "probing", "ready"}

FilesOK ==
  /\ \A a \in Uploads : Validated(a) \/ entry[a] = "staged" => a \in files
  /\ \A r \in Requests : request[r] \in {"claimed", "refused"} =>
       /\ entry[artifactOf[r]] = "claimed"
       /\ artifactOf[r] \in Uploads => artifactOf[r] \in files
  /\ \A r \in Requests : request[r] = "accepted" /\ artifactOf[r] \in files => r \in {slot, hands}
  /\ \A r \in Requests : r = hands => request[r] \in {"accepted", "over"}

LoopOK == InLoop => HandsOK /\ FilesOK /\ PendingHasFile /\ FileIsOwned

LimitOK == IsFiniteSet(Registered(entry)) /\ Cardinality(Registered(entry)) <= MaxStaged

IInv == RangesOK /\ LimitOK /\ ClaimsOK /\ LoopOK

-----------------------------------------------------------------------------
(***************************************************************************)
(* Ranges.                                                                 *)
(***************************************************************************)
\* What the steps of the handlers leave in range.
LEMMA HandlersRange ==
  ASSUME RangesOK,
         \/ \E a \in Artifacts : Validate(a) \/ Validating(a) \/ Age(a)
         \/ \E r \in Requests : (\E a \in Artifacts : Claim(r, a)) \/ Answering(r)
         \/ \E i \in Installs : Install(i)
         \/ Expire
  PROVE RangesOK'
  <1> USE DEF RangesOK, slotVars, registryVars, requestVars, workerVars, radioVars
  <1>1. ASSUME NEW a \in Artifacts, Validate(a) \/ Age(a) PROVE RangesOK'
    BY <1>1 DEF Validate, Age, ValidationGoes
  <1>2. ASSUME NEW a \in Artifacts, Store(a) \/ Probe(a) PROVE RangesOK'
    BY <1>2 DEF Store, Probe, ValidationGoes
  <1>3. ASSUME NEW a \in Artifacts, Preflight(a) PROVE RangesOK'
    BY <1>3 DEF Preflight, ValidationGoes
  <1>4. Swept \in [Artifacts -> {"absent", "staged", "claimed"}]
    BY DEF Swept
  <1>5. ASSUME NEW a \in Artifacts, Stage(a) PROVE RangesOK'
    BY <1>4, <1>5 DEF Stage, ValidationGoes
  <1>6. ASSUME NEW r \in Requests, NEW a \in Artifacts, Claim(r, a) PROVE RangesOK'
    BY <1>4, <1>6 DEF Claim, RequestGoes
  <1>7. ASSUME NEW r \in Requests, SubmitClaimed(r) PROVE RangesOK'
    BY <1>7 DEF SubmitClaimed, RequestGoes, Slot!Accept, Slot!Forget, Ops
  <1>8. ASSUME NEW r \in Requests, ReleaseClaim(r) \/ Consume(r) PROVE RangesOK'
    BY <1>8 DEF ReleaseClaim, Consume, RequestGoes
  <1>9. ASSUME NEW i \in Installs, Install(i) PROVE RangesOK'
    BY <1>9 DEF Install, Slot!Accept, Ops
  <1>10. CASE Expire
    BY <1>4, <1>10 DEF Expire
  <1> QED
    BY <1>1, <1>2, <1>3, <1>5, <1>6, <1>7, <1>8, <1>9, <1>10 DEF Validating, Answering

\* What the steps of the main thread leave in range.
LEMMA WorkerRange ==
  ASSUME RangesOK, Working \/ Fail \/ Signal
  PROVE RangesOK'
  <1> USE DEF RangesOK, slotVars, registryVars, requestVars, workerVars, radioVars, WorkerGoes
  <1>1. CASE Begin \/ CancelQueued
    BY <1>1 DEF Begin, CancelQueued, Slot!Execute, Slot!Fail
  <1>2. CASE EnterDfu \/ ProbeTarget \/ ProbeEnds \/ Transfer \/ TransferEnds
    BY <1>2 DEF EnterDfu, ProbeTarget, ProbeEnds, Transfer, TransferEnds
  <1>3. CASE Settle
    BY <1>3 DEF Settle, Slot!Succeed, Slot!Fail
  <1>4. CASE Discard \/ LeaveCancelled \/ LeaveLoop \/ Fail
    BY <1>4 DEF Discard, LeaveCancelled, LeaveLoop, Fail
  <1>5. CASE Shutdown \/ Close \/ End \/ Signal
    BY <1>5 DEF Shutdown, Close, End, Signal
  <1> QED
    BY <1>1, <1>2, <1>3, <1>4, <1>5 DEF Working

-----------------------------------------------------------------------------
(***************************************************************************)
(* The limit of the registry.                                              *)
(***************************************************************************)
\* A registry that loses entries stays within its limit.
LEMMA SmallerKeepsLimit ==
  ASSUME LimitOK, Registered(entry)' \subseteq Registered(entry)
  PROVE LimitOK'
  <1>1. IsFiniteSet(Registered(entry)') /\ Cardinality(Registered(entry)') <= Cardinality(Registered(entry))
    BY FS_Subset DEF LimitOK
  <1>2. Cardinality(Registered(entry)') \in Nat /\ Cardinality(Registered(entry)) \in Nat
    BY <1>1, FS_CardinalityType DEF LimitOK
  <1> QED
    BY <1>1, <1>2, LimitAssumption DEF LimitOK

\* The sweep that every look begins with only removes entries.
LEMMA SweepRemoves == Registered(Swept) \subseteq Registered(entry)
  BY DEF Registered, Swept

\* A step of anybody keeps the registry within its limit.
LEMMA LimitStep ==
  ASSUME RangesOK, LimitOK, Next
  PROVE LimitOK'
  <1> USE DEF slotVars, registryVars, requestVars, workerVars, radioVars
  <1>1. CASE UNCHANGED entry
    BY <1>1, SmallerKeepsLimit DEF Registered
  <1>2. CASE Expire \/ Close
    BY <1>2, SweepRemoves, SmallerKeepsLimit DEF Expire, Close, Registered
  <1>3. ASSUME NEW r \in Requests, NEW a \in Artifacts, Claim(r, a) PROVE LimitOK'
    <2>1. entry' = Swept \/ (Swept[a] = "staged" /\ entry' = [Swept EXCEPT ![a] = "claimed"])
      BY <1>3 DEF Claim, Claimable
    <2>2. Registered(entry)' \subseteq Registered(Swept)
      BY <2>1 DEF Registered, Swept
    <2> QED
      BY <2>2, SweepRemoves, SmallerKeepsLimit
  <1>4. ASSUME NEW r \in Requests, ReleaseClaim(r) PROVE LimitOK'
    BY <1>4, SmallerKeepsLimit DEF ReleaseClaim, Registered
  <1>5. ASSUME NEW r \in Requests, Consume(r) PROVE LimitOK'
    BY <1>5, SmallerKeepsLimit DEF Consume, Registered, RangesOK
  <1>6. ASSUME NEW a \in Artifacts, Stage(a), ~Full(Swept) PROVE LimitOK'
    <2>1. IsFiniteSet(Registered(Swept))
      BY SweepRemoves, FS_Subset DEF LimitOK
    <2>2. Cardinality(Registered(Swept)) \in Nat /\ Cardinality(Registered(Swept)) < MaxStaged
      BY <1>6, <2>1, FS_CardinalityType, LimitAssumption DEF Full
    <2>3. IsFiniteSet(Registered(Swept) \cup {a})
          /\ Cardinality(Registered(Swept) \cup {a}) <= Cardinality(Registered(Swept)) + 1
      <3> DEFINE S == Registered(Swept)
      <3>1. IsFiniteSet(S \cup {a})
            /\ Cardinality(S \cup {a}) = IF a \in S THEN Cardinality(S) ELSE Cardinality(S) + 1
        BY <2>1, FS_AddElement
      <3> QED
        BY <2>2, <3>1
    <2>4. Registered(entry)' \subseteq Registered(Swept) \cup {a}
      BY <1>6 DEF Stage, Registered, Swept
    <2>5. IsFiniteSet(Registered(entry)')
          /\ Cardinality(Registered(entry)') <= Cardinality(Registered(Swept) \cup {a})
      BY <2>3, <2>4, FS_Subset
    <2>6. Cardinality(Registered(entry)') \in Nat /\ Cardinality(Registered(Swept) \cup {a}) \in Nat
      BY <2>3, <2>5, FS_CardinalityType
    <2> QED
      BY <2>2, <2>3, <2>5, <2>6, LimitAssumption DEF LimitOK
  <1>7. ASSUME NEW a \in Artifacts, Stage(a), Full(Swept) PROVE LimitOK'
    BY <1>7, SweepRemoves, SmallerKeepsLimit DEF Stage
  <1>8. ASSUME NEW a \in Artifacts, Validate(a) \/ Age(a) \/ Store(a) \/ Probe(a) \/ Preflight(a)
        PROVE UNCHANGED entry
    BY <1>8 DEF Validate, Age, Store, Probe, Preflight
  <1>9. ASSUME NEW r \in Requests, SubmitClaimed(r) PROVE UNCHANGED entry
    BY <1>9 DEF SubmitClaimed
  <1>10. ASSUME NEW i \in Installs, Install(i) PROVE UNCHANGED entry
    BY <1>10 DEF Install
  <1>11. CASE (Working /\ ~Close) \/ Fail \/ Signal
    BY <1>1, <1>11 DEF Working, Begin, EnterDfu, ProbeTarget, ProbeEnds, Transfer, TransferEnds, Settle, Discard,
       CancelQueued, LeaveCancelled, LeaveLoop, Shutdown, End, Fail, Signal
  <1> QED
    BY <1>1, <1>2, <1>3, <1>4, <1>5, <1>6, <1>7, <1>8, <1>9, <1>10, <1>11
       DEF Next, Validating, Answering, Working

-----------------------------------------------------------------------------
(***************************************************************************)
(* Claims.                                                                 *)
(***************************************************************************)
\* No command is live that was not before, when neither the requests nor the
\* registry move and the slot keeps its command or loses it.
LEMMA QuietKeepsClaims ==
  ASSUME RangesOK, ClaimsOK, UNCHANGED <<requestVars, validation>>,
         \A a \in Artifacts : entry'[a] # entry[a] => entry'[a] = "absent",
         executed' \cap Requests \subseteq executed \cup {slot},
         slot' \notin Requests \/ slot' = slot
  PROVE ClaimsOK'
  <1>1. \A r \in Requests : Live(r)' => Live(r)
    BY DEF Live, requestVars
  <1> QED
    BY <1>1 DEF ClaimsOK, requestVars, RangesOK

\* A step of a handler that validates an artifact keeps the claims.
LEMMA ValidationKeepsClaims ==
  ASSUME RangesOK, ClaimsOK, NEW a \in Artifacts, Validate(a) \/ Validating(a)
  PROVE ClaimsOK'
  <1> USE DEF slotVars, registryVars, requestVars, workerVars, radioVars, RangesOK
  <1>1. UNCHANGED <<slot, executed, request, artifactOf>>
    BY DEF Validate, Validating, Store, Probe, Preflight, Stage
  <1>2. \A r \in Requests : Live(r)' <=> Live(r)
    BY <1>1 DEF Live
  <1>3. validation[a] # "over" /\ \A b \in Artifacts : b # a => validation'[b] = validation[b]
    BY DEF Validate, Validating, Store, Probe, Preflight, Stage, ValidationGoes
  <1>4. \A b \in Artifacts :
          entry'[b] = entry[b] \/ entry'[b] = "absent" \/ (b = a /\ validation'[b] = "over")
    BY DEF Validate, Validating, Store, Probe, Preflight, Stage, ValidationGoes, Swept
  <1> QED
    BY <1>1, <1>2, <1>3, <1>4 DEF ClaimsOK

\* A step of a flash request or of MQTT keeps the claims.
LEMMA RequestKeepsClaims ==
  ASSUME RangesOK, ClaimsOK, NEW r \in Requests,
         (\E a \in Artifacts : Claim(r, a)) \/ Answering(r)
  PROVE ClaimsOK'
  <1> USE DEF slotVars, registryVars, requestVars, workerVars, radioVars, RangesOK, RequestGoes
  <1>1. ASSUME NEW a \in Artifacts, Claim(r, a), Claimable(a) PROVE ClaimsOK'
    <2>1. entry[a] = "staged" /\ request[r] = "new"
      BY <1>1 DEF Claim, Claimable, Swept
    <2>2. ~Live(r) /\ \A s \in Requests : Live(s) => artifactOf[s] # a
      BY <2>1 DEF ClaimsOK, Live
    <2>3. /\ artifactOf' = [artifactOf EXCEPT ![r] = a] /\ UNCHANGED <<slot, executed, validation>>
          /\ request' = [request EXCEPT ![r] = "claimed"]
      BY <1>1 DEF Claim
    <2>4. \A s \in Requests : Live(s)' <=> s = r \/ Live(s)
      BY <2>3 DEF Live
    <2>5. \A b \in Artifacts : entry'[b] = entry[b] \/ entry'[b] = "absent" \/ (b = a /\ entry'[b] = "claimed")
      BY <1>1 DEF Claim, Swept
    <2>6. entry'[a] = "claimed"
      BY <1>1 DEF Claim, Swept
    <2>7. \A s \in Requests : s \in executed \/ s = slot => request'[s] \in {"accepted", "over"}
      BY <2>1, <2>3 DEF ClaimsOK
    <2>8. \A b \in Artifacts : entry'[b] # "absent" => validation'[b] = "over"
      BY <2>1, <2>3, <2>5 DEF ClaimsOK
    <2>9. \A s \in Requests : Live(s)' =>
            /\ artifactOf'[s] \in Artifacts
            /\ validation'[artifactOf'[s]] = "over"
            /\ entry'[artifactOf'[s]] # "staged"
      BY <2>1, <2>2, <2>3, <2>4, <2>5, <2>6 DEF ClaimsOK
    <2>10. \A s, t \in Requests : Live(s)' /\ Live(t)' /\ artifactOf'[s] = artifactOf'[t] => s = t
      BY <2>2, <2>3, <2>4 DEF ClaimsOK
    <2> QED
      BY <2>3, <2>7, <2>8, <2>9, <2>10 DEF ClaimsOK
  <1>2. ASSUME NEW a \in Artifacts, Claim(r, a), ~Claimable(a) PROVE ClaimsOK'
    <2>1. /\ request' = [request EXCEPT ![r] = "over"] /\ request[r] = "new"
          /\ UNCHANGED <<slot, executed, artifactOf, validation>>
      BY <1>2 DEF Claim
    <2>2. \A s \in Requests : Live(s)' => Live(s)
      BY <2>1 DEF Live
    <2>3. \A b \in Artifacts : entry'[b] = entry[b] \/ entry'[b] = "absent"
      BY <1>2 DEF Claim, Swept
    <2> QED
      BY <2>1, <2>2, <2>3 DEF ClaimsOK
  <1>3. CASE SubmitClaimed(r)
    <2>1. /\ UNCHANGED <<artifactOf, entry, validation, executed>>
          /\ request[r] = "claimed"
          /\ \/ request' = [request EXCEPT ![r] = "accepted"] /\ slot' = r
             \/ request' = [request EXCEPT ![r] = "refused"] /\ slot' = slot
      BY <1>3 DEF SubmitClaimed, Slot!Accept, Slot!Forget
    <2>2. \A s \in Requests : Live(s)' => Live(s)
      BY <2>1 DEF Live
    <2> QED
      BY <2>1, <2>2 DEF ClaimsOK
  <1>4. CASE ReleaseClaim(r)
    <2>1. /\ UNCHANGED <<artifactOf, validation, executed, slot>>
          /\ request[r] = "refused" /\ request' = [request EXCEPT ![r] = "over"]
          /\ \A b \in Artifacts : entry'[b] = entry[b] \/ (b = artifactOf[r] /\ entry[b] = "claimed")
      BY <1>4 DEF ReleaseClaim
    <2>2. Live(r) /\ \A s \in Requests : Live(s)' => Live(s) /\ s # r
      BY <2>1 DEF ClaimsOK, Live
    <2>3. \A s \in Requests : Live(s)' => artifactOf[s] # artifactOf[r]
      BY <2>2 DEF ClaimsOK
    <2> QED
      BY <2>1, <2>2, <2>3 DEF ClaimsOK
  <1>5. CASE Consume(r)
    <2>1. /\ UNCHANGED <<artifactOf, validation, executed, slot>>
          /\ request[r] = "accepted" /\ request' = [request EXCEPT ![r] = "over"]
          /\ \A b \in Artifacts : entry'[b] = entry[b] \/ entry'[b] = "absent"
      BY <1>5 DEF Consume
    <2>2. \A s \in Requests : Live(s)' => Live(s)
      BY <2>1 DEF Live
    <2> QED
      BY <2>1, <2>2 DEF ClaimsOK
  <1> QED
    BY <1>1, <1>2, <1>3, <1>4, <1>5 DEF Answering

\* MQTT, the reaper, time and the main thread make no request live.
LEMMA OthersKeepClaims ==
  ASSUME RangesOK, ClaimsOK,
         \/ \E a \in Artifacts : Age(a)
         \/ \E i \in Installs : Install(i)
         \/ Expire \/ Working \/ Fail \/ Signal
  PROVE ClaimsOK'
  <1> USE ArtifactAssumption DEF slotVars, registryVars, requestVars, workerVars, radioVars, WorkerGoes
  <1>1. ASSUME NEW a \in Artifacts, Age(a) PROVE ClaimsOK'
    BY <1>1, QuietKeepsClaims DEF Age
  <1>2. ASSUME NEW i \in Installs, Install(i) PROVE ClaimsOK'
    BY <1>2, QuietKeepsClaims DEF Install, Slot!Accept
  <1>3. CASE Expire
    BY <1>3, QuietKeepsClaims DEF Expire, Swept
  <1>4. CASE Begin
    BY <1>4, QuietKeepsClaims DEF Begin, Slot!Execute
  <1>5. CASE Settle \/ CancelQueued
    BY <1>5, QuietKeepsClaims DEF Settle, CancelQueued, Slot!Succeed, Slot!Fail
  <1>6. CASE EnterDfu \/ ProbeTarget \/ ProbeEnds \/ Transfer \/ TransferEnds
          \/ Discard \/ LeaveCancelled \/ LeaveLoop
    BY <1>6, QuietKeepsClaims
       DEF EnterDfu, ProbeTarget, ProbeEnds, Transfer, TransferEnds, Discard, LeaveCancelled, LeaveLoop
  <1>7. CASE Shutdown \/ Close \/ End \/ Fail \/ Signal
    BY <1>7, QuietKeepsClaims DEF Shutdown, Close, End, Fail, Signal
  <1> QED
    BY <1>1, <1>2, <1>3, <1>4, <1>5, <1>6, <1>7 DEF Working

\* A step of anybody keeps the claims.
LEMMA ClaimsStep ==
  ASSUME RangesOK, ClaimsOK, Next
  PROVE ClaimsOK'
  BY ValidationKeepsClaims, RequestKeepsClaims, OthersKeepClaims DEF Next

-----------------------------------------------------------------------------
(***************************************************************************)
(* The main thread's hands.                                                *)
(***************************************************************************)
\* Before a command is accepted the main thread has none to execute.
LEMMA FreeSlotFreeWorker ==
  ASSUME RangesOK, HandsOK, slot = NoOp
  PROVE worker \in {"loop", "discard", "cancelled"}
  BY ArtifactAssumption DEF RangesOK, HandsOK, Ops

\* While the loop is served the hands agree with the slot.
LEMMA HandsStep ==
  ASSUME RangesOK, InLoop, HandsOK, Next, InLoop'
  PROVE HandsOK'
  <1> USE ArtifactAssumption
      DEF slotVars, registryVars, requestVars, workerVars, radioVars, WorkerGoes, HandsOK
  <1>1. CASE UNCHANGED <<slot, executed, worker, hands>>
    BY <1>1
  <1>2. ASSUME UNCHANGED <<worker, hands>>, NEW o \in Ops, Slot!Accept(o) PROVE HandsOK'
    <2>1. worker \in {"loop", "discard", "cancelled"}
      BY <1>2, FreeSlotFreeWorker DEF Slot!Accept
    <2> QED
      BY <1>2, <2>1 DEF Slot!Accept
  <1>3. ASSUME NEW a \in Artifacts, Validate(a) \/ Validating(a) \/ Age(a) PROVE HandsOK'
    BY <1>1, <1>3 DEF Validate, Validating, Age, Store, Probe, Preflight, Stage
  <1>4. ASSUME NEW r \in Requests, NEW a \in Artifacts, Claim(r, a) PROVE HandsOK'
    BY <1>1, <1>4 DEF Claim
  <1>5. ASSUME NEW r \in Requests, Answering(r) PROVE HandsOK'
    BY <1>1, <1>2, <1>5 DEF Answering, SubmitClaimed, ReleaseClaim, Consume, Slot!Forget, Ops
  <1>6. ASSUME NEW i \in Installs, Install(i) PROVE HandsOK'
    BY <1>2, <1>6 DEF Install, Ops
  <1>7. CASE Expire \/ Signal
    BY <1>1, <1>7 DEF Expire, Signal
  <1>8. CASE Begin
    BY <1>8 DEF Begin, Slot!Execute
  <1>9. CASE EnterDfu \/ ProbeTarget \/ ProbeEnds \/ Transfer \/ TransferEnds
    BY <1>9 DEF EnterDfu, ProbeTarget, ProbeEnds, Transfer, TransferEnds
  <1>10. CASE Settle \/ CancelQueued
    BY <1>10 DEF Settle, CancelQueued, Slot!Succeed, Slot!Fail, RangesOK, Ops
  <1>11. CASE Discard
    BY <1>11 DEF Discard
  <1>12. CASE LeaveCancelled \/ LeaveLoop \/ Shutdown \/ Close \/ End \/ Fail
    BY <1>12 DEF LeaveCancelled, LeaveLoop, Shutdown, Close, End, Fail, InLoop
  <1> QED
    BY <1>3, <1>4, <1>5, <1>6, <1>7, <1>8, <1>9, <1>10, <1>11, <1>12 DEF Next, Working

-----------------------------------------------------------------------------
(***************************************************************************)
(* Files.                                                                  *)
(***************************************************************************)
Owned(a) ==
  \/ Validated(a)
  \/ entry[a] # "absent"
  \/ \E r \in {slot, hands} \cap Requests : artifactOf[r] = a

\* What is said of files while the loop is served, in one formula.
FilesInv ==
  /\ FilesOK
  /\ slot \in Requests /\ artifactOf[slot] \in Uploads => artifactOf[slot] \in files
  /\ \A a \in files : Owned(a)

\* The formula is the conjunction of the invariant's parts.
LEMMA FilesInvMeans ==
  ASSUME InLoop
  PROVE FilesInv <=> FilesOK /\ PendingHasFile /\ FileIsOwned
  BY DEF FilesInv, PendingHasFile, FileIsOwned, Owned, Validated

\* A step of a handler that validates an artifact leaves alone the files and
\* the entries that live requests name, and keeps the files.
LEMMA ValidationKeepsFiles ==
  ASSUME RangesOK, ClaimsOK, FilesInv, NEW a \in Artifacts, Validate(a) \/ Validating(a)
  PROVE FilesInv'
  <1> USE ArtifactAssumption DEF slotVars, registryVars, requestVars, workerVars, radioVars, RangesOK,
          ValidationGoes, Artifacts
  <1>1. UNCHANGED <<slot, executed, hands, request, artifactOf>>
    BY DEF Validate, Validating, Store, Probe, Preflight, Stage
  <1>2. \A r \in Requests : Live(r) => artifactOf[r] # a
    BY DEF Validate, Validating, Store, Probe, Preflight, Stage, ClaimsOK
  <1>3. entry[a] = "absent"
    BY DEF Validate, Validating, Store, Probe, Preflight, Stage, ClaimsOK
  <1>4. \A b \in Artifacts : b # a => validation'[b] = validation[b]
    BY DEF Validate, Validating, Store, Probe, Preflight, Stage
  <1>5. \A b \in Artifacts : b # a =>
          /\ b \in files' => b \in files
          /\ b \in files /\ b \notin files' => entry[b] = "staged"
          /\ b \in files' => entry'[b] = entry[b]
          /\ entry[b] # "staged" => entry'[b] = entry[b]
          /\ entry'[b] = "staged" => entry[b] = "staged" /\ (b \in files => b \in files')
    BY DEF Validate, Validating, Store, Probe, Preflight, Stage, Swept, Expired
  <1>6. a \in Uploads /\ (Validated(a)' \/ entry'[a] = "staged") => a \in files'
    BY DEF Validate, Validating, Store, Probe, Preflight, Stage, Swept, Expired, FilesInv, FilesOK,
           Validated, ClaimsOK
  <1>7. a \in files' => Owned(a)'
    BY <1>1 DEF Validate, Validating, Store, Probe, Preflight, Stage, FilesInv, Owned, Validated, Swept, Expired
  <1>8. \A r \in Requests : Live(r) =>
          /\ artifactOf[r] \in files <=> artifactOf[r] \in files'
          /\ entry'[artifactOf[r]] = entry[artifactOf[r]]
    BY <1>2, <1>5 DEF ClaimsOK
  <1>9. ASSUME NEW b \in files', b # a PROVE Owned(b)'
    <2>1. b \in Artifacts /\ b \in files /\ entry'[b] = entry[b]
      BY <1>5, <1>9 DEF Validate, Validating, Store, Probe, Preflight, Stage
    <2>2. Owned(b) /\ validation'[b] = validation[b]
      BY <1>4, <1>9, <2>1 DEF FilesInv
    <2> QED
      BY <1>1, <2>1, <2>2 DEF Owned, Validated
  <1>10. \A b \in Uploads : b # a /\ (Validated(b)' \/ entry'[b] = "staged") => b \in files'
    BY <1>4, <1>5 DEF FilesInv, FilesOK, Validated, ClaimsOK
  <1>11. FilesOK'
    BY <1>1, <1>6, <1>8, <1>10 DEF FilesInv, FilesOK, Live
  <1> QED
    BY <1>1, <1>7, <1>8, <1>9, <1>11 DEF FilesInv, Live

\* A step of a flash request keeps the files.
LEMMA RequestKeepsFiles ==
  ASSUME RangesOK, ClaimsOK, FilesInv, NEW r \in Requests,
         (\E a \in Artifacts : Claim(r, a)) \/ Answering(r)
  PROVE FilesInv'
  <1> USE ArtifactAssumption DEF slotVars, registryVars, requestVars, workerVars, radioVars, RangesOK,
          RequestGoes, Artifacts, FilesInv
  <1>1. ASSUME NEW a \in Artifacts, Claim(r, a) PROVE FilesInv'
    <2>1. /\ UNCHANGED <<slot, hands, executed, validation>>
          /\ request[r] = "new" /\ ~Live(r)
      BY <1>1 DEF Claim, Live, ClaimsOK
    <2>2. /\ \A s \in Requests : s # r => request'[s] = request[s] /\ artifactOf'[s] = artifactOf[s]
          /\ \/ request'[r] = "over"
             \/ /\ request'[r] = "claimed" /\ artifactOf'[r] = a
                /\ entry[a] = "staged" /\ a \notin Expired(entry) /\ entry'[a] = "claimed"
      BY <1>1 DEF Claim, Claimable, Swept
    <2>3. \A b \in Artifacts :
            /\ b \in files' <=> b \in files /\ b \notin Expired(entry)
            /\ b \in Expired(entry) => entry[b] = "staged"
            /\ entry'[b] = "staged" => entry[b] = "staged" /\ b \notin Expired(entry)
            /\ entry[b] # "staged" => entry'[b] = entry[b]
            /\ entry'[b] = "absent" => entry[b] = "absent" \/ b \in Expired(entry)
      BY <1>1 DEF Claim, Claimable, Swept, Expired
    <2>4. \A s \in Requests : Live(s) =>
            /\ s # r /\ artifactOf'[s] = artifactOf[s]
            /\ artifactOf[s] \in Artifacts /\ entry[artifactOf[s]] # "staged"
      BY <2>1, <2>2 DEF ClaimsOK
    <2>5. \A b \in Uploads : Validated(b)' \/ entry'[b] = "staged" => b \in files'
      BY <2>1, <2>3 DEF FilesOK, Validated, ClaimsOK
    <2>6. \A s \in Requests : request'[s] \in {"claimed", "refused"} =>
            /\ entry'[artifactOf'[s]] = "claimed"
            /\ artifactOf'[s] \in Uploads => artifactOf'[s] \in files'
      BY <2>2, <2>3, <2>4 DEF FilesOK, Live
    <2>7. \A s \in Requests : request'[s] = "accepted" /\ artifactOf'[s] \in files' => s \in {slot', hands'}
      BY <2>1, <2>2, <2>3, <2>4 DEF FilesOK, Live
    <2>8. slot' \in Requests /\ artifactOf'[slot'] \in Uploads => artifactOf'[slot'] \in files'
      BY <2>1, <2>3, <2>4 DEF Live
    <2>9. ASSUME NEW b \in files' PROVE Owned(b)'
      <3>1. b \in Artifacts /\ Owned(b)
        BY <1>1, <2>3 DEF Claim
      <3>2. CASE Validated(b) \/ entry[b] # "absent"
        BY <2>1, <2>3, <3>1, <3>2 DEF Owned, Validated
      <3>3. ASSUME NEW s \in {slot, hands} \cap Requests, artifactOf[s] = b, entry[b] = "absent" PROVE Owned(b)'
        <4>1. s # r
          BY <2>1, <3>3 DEF Live, FilesOK
        <4> QED
          BY <2>1, <2>2, <3>3, <4>1 DEF Owned
      <3> QED
        BY <3>1, <3>2, <3>3 DEF Owned
    <2>10. \A s \in Requests : s = hands' => request'[s] \in {"accepted", "over"}
      BY <2>1, <2>2 DEF FilesOK
    <2> QED
      BY <2>5, <2>6, <2>7, <2>8, <2>9, <2>10 DEF FilesOK
  <1>2. CASE SubmitClaimed(r)
    <2>1. /\ UNCHANGED <<artifactOf, entry, files, validation, hands>>
          /\ request[r] = "claimed"
          /\ \/ request' = [request EXCEPT ![r] = "accepted"] /\ slot = NoOp /\ slot' = r
             \/ request' = [request EXCEPT ![r] = "refused"] /\ slot' = slot
      BY <1>2 DEF SubmitClaimed, Slot!Accept, Slot!Forget
    <2>2. \A s \in Requests : s \in {slot, hands} => s \in {slot', hands'}
      BY <2>1
    <2> QED
      BY <2>1, <2>2 DEF FilesOK, Owned, Validated
  <1>3. CASE ReleaseClaim(r)
    <2>1. /\ UNCHANGED <<artifactOf, files, validation, hands, slot>>
          /\ request[r] = "refused" /\ request' = [request EXCEPT ![r] = "over"]
          /\ \A b \in Artifacts : entry'[b] = IF b = artifactOf[r] /\ entry[b] = "claimed" THEN "staged" ELSE entry[b]
      BY <1>3 DEF ReleaseClaim
    <2>2. \A s \in Requests : s # r /\ Live(s) => artifactOf[s] # artifactOf[r]
      BY <2>1 DEF ClaimsOK, Live
    <2>3. \A b \in Artifacts : (entry'[b] = "absent" <=> entry[b] = "absent")
      BY <2>1
    <2>4. \A b \in files : Owned(b)'
      BY <2>1, <2>3 DEF Owned, Validated
    <2>5. FilesOK'
      BY <2>1, <2>2 DEF FilesOK, Live, ClaimsOK, Validated
    <2> QED
      BY <2>1, <2>4, <2>5
  <1>4. CASE Consume(r)
    <2>1. /\ UNCHANGED <<artifactOf, files, validation, hands, slot>>
          /\ request[r] = "accepted" /\ request' = [request EXCEPT ![r] = "over"]
          /\ entry' = [entry EXCEPT ![artifactOf[r]] = "absent"]
      BY <1>4 DEF Consume
    <2>2. \A s \in Requests : s # r /\ Live(s) => artifactOf[s] # artifactOf[r]
      BY <2>1 DEF ClaimsOK, Live
    <2>3. \A b \in files : Owned(b)'
      BY <2>1 DEF Owned, Validated, FilesOK
    <2>4. FilesOK'
      BY <2>1, <2>2 DEF FilesOK, Live, ClaimsOK, Validated
    <2> QED
      BY <2>1, <2>3, <2>4
  <1> QED
    BY <1>1, <1>2, <1>3, <1>4 DEF Answering

\* The command the main thread has done with is the only one to lose its file.
LEMMA DiscardKeepsFiles ==
  ASSUME RangesOK, ClaimsOK, HandsOK, FilesInv, Discard
  PROVE FilesInv'
  <1> USE ArtifactAssumption DEF slotVars, registryVars, requestVars, workerVars, radioVars,
          RangesOK, WorkerGoes, Artifacts
  <1>1. /\ UNCHANGED <<slot, executed, request, artifactOf, validation, entry>>
        /\ hands' = NoOp /\ files' = files \ Discarded
    BY DEF Discard
  <1>2. hands \in executed /\ slot \notin executed
    BY DEF Discard, HandsOK
  <1>3. ASSUME NEW r \in Requests, Live(r), r # hands PROVE artifactOf[r] \notin Discarded
    BY <1>2, <1>3 DEF Discarded, Live, ClaimsOK
  <1>4. hands \in Requests => Live(hands)
    BY <1>2 DEF Live
  <1>5. \A b \in Discarded : ~Validated(b) /\ entry[b] # "staged"
    BY <1>4 DEF Discarded, ClaimsOK, Validated
  <1>6. \A b \in Uploads : Validated(b)' \/ entry'[b] = "staged" => b \in files'
    BY <1>1, <1>5 DEF FilesInv, FilesOK, Validated
  <1>7. ASSUME NEW r \in Requests, request[r] \in {"claimed", "refused"}
        PROVE /\ entry[artifactOf[r]] = "claimed"
              /\ artifactOf[r] \in Uploads => artifactOf[r] \in files'
    <2>1. r # hands /\ Live(r)
      BY <1>7 DEF FilesInv, FilesOK, Live
    <2> QED
      BY <1>1, <1>3, <1>7, <2>1 DEF FilesInv, FilesOK
  <1>8. ASSUME NEW r \in Requests, request[r] = "accepted", artifactOf[r] \in files' PROVE r = slot
    BY <1>1, <1>8 DEF FilesInv, FilesOK, Discarded
  <1>9. \A r \in Requests : r # hands'
    BY <1>1
  <1>10. slot \in Requests /\ artifactOf[slot] \in Uploads => artifactOf[slot] \in files'
    BY <1>1, <1>2, <1>3 DEF FilesInv, Live
  <1>11. ASSUME NEW b \in files' PROVE Owned(b)'
    BY <1>1, <1>11 DEF FilesInv, Owned, Validated, Discarded
  <1>12. FilesOK'
    BY <1>1, <1>6, <1>7, <1>8, <1>9 DEF FilesOK
  <1> QED
    BY <1>1, <1>10, <1>11, <1>12 DEF FilesInv

\* What the reaper removes no live request names.
LEMMA ExpireKeepsFiles ==
  ASSUME RangesOK, ClaimsOK, FilesInv, Expire
  PROVE FilesInv'
  <1> USE ArtifactAssumption DEF slotVars, registryVars, requestVars, workerVars, radioVars,
          RangesOK, Artifacts
  <1>1. /\ UNCHANGED <<slot, hands, executed, request, artifactOf, validation>>
        /\ files' = files \ Expired(entry) /\ entry' = Swept
    BY DEF Expire
  <1>2. \A b \in Artifacts :
          /\ b \in Expired(entry) => entry[b] = "staged" /\ ~Validated(b)
          /\ b \in Expired(entry) => entry'[b] = "absent"
          /\ b \notin Expired(entry) => entry'[b] = entry[b]
    BY <1>1 DEF Expired, Swept, Validated, ClaimsOK
  <1>3. \A r \in Requests : Live(r) =>
          artifactOf[r] \in Artifacts /\ artifactOf[r] \notin Expired(entry)
    BY <1>2 DEF ClaimsOK
  <1>4. \A b \in Uploads : Validated(b)' \/ entry'[b] = "staged" => b \in files'
    BY <1>1, <1>2 DEF FilesInv, FilesOK, Validated
  <1>5. FilesOK'
    BY <1>1, <1>2, <1>3, <1>4 DEF FilesInv, FilesOK, Live
  <1>6. ASSUME NEW b \in files' PROVE Owned(b)'
    BY <1>1, <1>2, <1>6 DEF FilesInv, Owned, Validated
  <1>7. slot' \in Requests /\ artifactOf'[slot'] \in Uploads => artifactOf'[slot'] \in files'
    BY <1>1, <1>3 DEF FilesInv, Live
  <1> QED
    BY <1>5, <1>6, <1>7 DEF FilesInv

\* A step that moves no file, no entry and no handler keeps the files as long as
\* it loses no command: what was in the slot or in the hands, and was accepted,
\* stays in one of them.
LEMMA HandOverKeepsFiles ==
  ASSUME RangesOK, ClaimsOK, FilesInv,
         UNCHANGED <<entry, files, validation, request, artifactOf>>,
         slot' \in Requests => slot' = slot,
         hands' \in Requests => hands' \in {slot, hands},
         {slot, hands} \cap Requests \subseteq {slot', hands'}
  PROVE FilesInv'
  <1>1. FilesOK'
    BY DEF FilesInv, FilesOK, Validated, ClaimsOK
  <1>2. \A b \in files : Owned(b) => Owned(b)'
    BY DEF Owned, Validated
  <1> QED
    BY <1>1, <1>2 DEF FilesInv

\* While the loop is served the files agree with their owners.
LEMMA FilesStep ==
  ASSUME RangesOK, ClaimsOK, InLoop, HandsOK, FilesInv, Next, InLoop'
  PROVE FilesInv'
  <1> USE ArtifactAssumption DEF slotVars, registryVars, requestVars, workerVars, radioVars,
          WorkerGoes, RangesOK, Ops
  <1>1. ASSUME NEW a \in Artifacts, Validate(a) \/ Validating(a) PROVE FilesInv'
    BY <1>1, ValidationKeepsFiles
  <1>2. ASSUME NEW a \in Artifacts, Age(a) PROVE FilesInv'
    BY <1>2, HandOverKeepsFiles DEF Age
  <1>3. ASSUME NEW r \in Requests, (\E a \in Artifacts : Claim(r, a)) \/ Answering(r)
        PROVE FilesInv'
    BY <1>3, RequestKeepsFiles
  <1>4. ASSUME NEW i \in Installs, Install(i) PROVE FilesInv'
    BY <1>4, HandOverKeepsFiles DEF Install, Slot!Accept
  <1>5. CASE Expire
    BY <1>5, ExpireKeepsFiles
  <1>6. CASE Begin
    BY <1>6, HandOverKeepsFiles DEF Begin, Slot!Execute, HandsOK
  <1>7. CASE EnterDfu \/ ProbeTarget \/ ProbeEnds \/ Transfer \/ TransferEnds \/ Signal
    BY <1>7, HandOverKeepsFiles DEF EnterDfu, ProbeTarget, ProbeEnds, Transfer, TransferEnds, Signal
  <1>8. CASE Settle
    <2>1. hands = slot /\ hands' = hands /\ slot' = NoOp
      BY <1>8 DEF Settle, HandsOK, Slot!Succeed, Slot!Fail
    <2> QED
      BY <1>8, <2>1, HandOverKeepsFiles DEF Settle
  <1>9. CASE Discard
    BY <1>9, DiscardKeepsFiles
  <1>10. CASE CancelQueued
    BY <1>10, HandOverKeepsFiles DEF CancelQueued, HandsOK, Slot!Fail
  <1>11. CASE LeaveCancelled \/ LeaveLoop \/ Shutdown \/ Close \/ End \/ Fail
    BY <1>11 DEF LeaveCancelled, LeaveLoop, Shutdown, Close, End, Fail, InLoop
  <1> QED
    BY <1>1, <1>2, <1>3, <1>4, <1>5, <1>6, <1>7, <1>8, <1>9, <1>10, <1>11 DEF Next, Working

-----------------------------------------------------------------------------
(***************************************************************************)
(* The theorems.                                                           *)
(***************************************************************************)
\* The invariant holds in the beginning.
LEMMA IInvInit == Init => IInv
  <1> SUFFICES ASSUME Init PROVE IInv
    OBVIOUS
  <1> USE DEF Init, Slot!Init
  <1>1. RangesOK
    BY DEF RangesOK
  <1>2. Registered(entry) = {}
    BY DEF Registered
  <1>3. LimitOK
    BY <1>2, FS_EmptySet, LimitAssumption DEF LimitOK
  <1>4. ClaimsOK
    BY ArtifactAssumption DEF ClaimsOK, Live
  <1>5. FilesInv /\ HandsOK
    BY ArtifactAssumption DEF FilesInv, FilesOK, HandsOK, Validated, Artifacts
  <1> QED
    BY <1>1, <1>3, <1>4, <1>5, FilesInvMeans DEF IInv, LoopOK

\* Every step keeps the invariant; the loop, once left, is not served again.
LEMMA IInvNext == IInv /\ [Next]_vars => IInv'
  <1> SUFFICES ASSUME IInv, [Next]_vars PROVE IInv'
    OBVIOUS
  <1>1. CASE Next
    <2>1. RangesOK'
      BY <1>1, HandlersRange, WorkerRange DEF Next, IInv
    <2>2. LimitOK' /\ ClaimsOK'
      BY <1>1, LimitStep, ClaimsStep DEF IInv
    <2>3. InLoop' => InLoop
      BY <1>1 DEF Next, Working, Validating, Answering, InLoop, Validate, Store, Probe, Preflight, Stage,
         Age, Claim, SubmitClaimed, ReleaseClaim, Consume, Install, Expire, Begin, EnterDfu, ProbeTarget,
         ProbeEnds, Transfer, TransferEnds, Settle, Discard, CancelQueued, LeaveCancelled, LeaveLoop, Shutdown, Close, End,
         Fail, Signal
    <2>4. ASSUME InLoop' PROVE HandsOK' /\ FilesInv'
      <3>1. InLoop /\ HandsOK /\ FilesInv
        BY <2>3, <2>4, FilesInvMeans DEF IInv, LoopOK
      <3> QED
        BY <1>1, <2>4, <3>1, HandsStep, FilesStep DEF IInv
    <2>5. FilesInv' => FilesOK' /\ (slot' \in Requests /\ artifactOf'[slot'] \in Uploads => artifactOf'[slot'] \in files')
                       /\ \A a \in files' : Owned(a)'
      BY DEF FilesInv
    <2>6. LoopOK'
      BY <2>4, <2>5 DEF LoopOK, PendingHasFile, FileIsOwned, Owned, Validated
    <2> QED
      BY <2>1, <2>2, <2>6 DEF IInv
  <1>2. CASE UNCHANGED vars
    BY <1>2 DEF IInv, RangesOK, LimitOK, ClaimsOK, LoopOK, InLoop, HandsOK, FilesOK, PendingHasFile,
       FileIsOwned, Live, Validated, Registered, vars, slotVars, registryVars, requestVars, workerVars,
       radioVars
  <1> QED
    BY <1>1, <1>2

\* The invariant holds in every state of a run.
LEMMA IInvAlways == Spec => []IInv
  BY IInvInit, IInvNext, PTL DEF Spec

\* Every variable stays in its range, and the registry within its limit.
THEOREM IngressTyped == Spec => []TypeOK
  <1>1. IInv => TypeOK
    BY DEF IInv, LimitOK, TypeOK
  <1> QED
    BY <1>1, IInvAlways, PTL

\* ArtifactRegistry.claim is exclusive and consume is final: however handlers,
\* the reaper and the main thread interleave, no artifact reaches the hardware
\* twice.
THEOREM FlashedOnce == Spec => []OneFlashPerArtifact
  <1>1. IInv => OneFlashPerArtifact
    BY DEF IInv, ClaimsOK, Live, OneFlashPerArtifact
  <1> QED
    BY <1>1, IInvAlways, PTL

\* A command that waits or runs still has the file its request claimed.
THEOREM AcceptedHasItsFile == Spec => []PendingHasFile
  <1>1. IInv => PendingHasFile
    BY DEF IInv, LoopOK, PendingHasFile
  <1> QED
    BY <1>1, IInvAlways, PTL

\* While the loop is served no temporary file is without somebody to remove it.
THEOREM FilesAreOwned == Spec => []FileIsOwned
  <1>1. IInv => FileIsOwned
    BY DEF IInv, LoopOK, FileIsOwned
  <1> QED
    BY <1>1, IInvAlways, PTL

=============================================================================
