--------------------------- MODULE ReleaseDelivery ---------------------------
(***************************************************************************)
(* Automatic delivery of reviewed releases: one serialized mainline        *)
(* workflow run publishes a canonical archive, retains durable evidence,   *)
(* admits and performs one production upload and confirms it; a            *)
(* verification-only run finishes what an interrupted run left behind.     *)
(*                                                                         *)
(* A release version n is declared by the n-th reviewed merge to main, so  *)
(* versions are ordered like the commits that declare them.  A job is one  *)
(* producing workflow attempt of a version; it names the publication, the  *)
(* owned GitHub deployment and the upload made by that attempt.  An        *)
(* archive is named by the attempt whose build produced its bytes.         *)
(***************************************************************************)
EXTENDS Naturals

CONSTANTS Last,             \* number of release versions merged in a behavior
          MaxAttempts,      \* producing attempts per version (a bound)
          MaxDisturbances   \* failures, expiries and switch changes (a bound)

ASSUME DeliveryAssumption == /\ Last \in Nat \ {0}
                             /\ MaxAttempts \in Nat \ {0}
                             /\ MaxDisturbances \in Nat

VARIABLES
  selected,      \* version main's site manifest declares, 0 before the first
  conflict,      \* main redeclared that version with other content
  enabled,       \* CLOUDFLARE_PAGES_ENABLED
  attempts,      \* producing attempts started, per version
  release,       \* GitHub release of the version's tag
  asset,         \* archive attached to that release, 0 when absent
  interrupted,   \* versions whose asset upload never reached "uploaded"
  receipts,      \* sealed operation receipts on the owning issues
  deployments,   \* owned GitHub deployments, by producing job
  status,        \* latest status written on a job's deployment
  uploadedAt,    \* upload time recorded by the job's upload, 0 for none
  clock,         \* uploads timed so far
  retained,      \* upload report in the job's retained artifact
  live,          \* what the production host serves
  pc,            \* next step of the one run holding the mainline lock
  job,           \* the job that run works for
  archive,       \* the canonical archive its publication binds
  disk,          \* upload report on the runner's disk
  operation,     \* skipped or failed operation recorded on the runner's disk
  disturbances   \* disturbances so far

github == <<attempts, release, asset, interrupted, receipts, deployments, status>>
main == <<selected, conflict, enabled>>
runner == <<pc, job, archive, disk, operation>>
host == <<uploadedAt, clock, retained, live>>
vars == <<main, github, host, runner, disturbances>>

Versions == 1..Last
Attempts == 1..MaxAttempts
Job == [version : Versions, attempt : Attempts]
NoJob == [version |-> 0, attempt |-> 0]
NotLive == [version |-> 0, archive |-> 0]

DeliveryStates == {"published", "superseded", "deployment_paused", "failed", "verified"}
Receipt == [phase : {"publication", "deployment"}, state : DeliveryStates,
            job : Job, archive : Attempts, upload : BOOLEAN]

PublicationReceipt(j, b) ==
  [phase |-> "publication", state |-> "published", job |-> j, archive |-> b, upload |-> FALSE]
\* A delivery that ended without an upload, and what became of an upload.
OperationReceipt(state, j, b) ==
  [phase |-> "deployment", state |-> state, job |-> j, archive |-> b, upload |-> FALSE]
UploadReceipt(state, j, b) ==
  [phase |-> "deployment", state |-> state, job |-> j, archive |-> b, upload |-> TRUE]

PublishSteps == {"publish", "uploadAsset", "publishDraft", "retainPublication"}
DeploySteps == {"admit", "create", "upload", "inProgress"}
FinalSteps == {"preserve", "retainOperation", "retainUpload", "probe",
               "retainVerified", "retainFailed", "success"}
Steps == {"idle"} \cup PublishSteps \cup DeploySteps \cup FinalSteps

TypeOK ==
  /\ selected \in 0..Last
  /\ conflict \in BOOLEAN
  /\ enabled \in BOOLEAN
  /\ attempts \in [Versions -> 0..MaxAttempts]
  /\ release \in [Versions -> {"none", "draft", "published"}]
  /\ asset \in [Versions -> 0..MaxAttempts]
  /\ interrupted \subseteq Versions
  /\ receipts \subseteq Receipt
  /\ deployments \subseteq Job
  /\ status \in [Job -> {"none", "in_progress", "success"}]
  /\ uploadedAt \in [Job -> Nat]
  /\ clock \in Nat
  /\ retained \in [Job -> {"none", "ok", "uncertain"}]
  /\ live \in [version : 0..Last, archive : 0..MaxAttempts]
  /\ pc \in Steps
  /\ job \in Job \cup {NoJob}
  /\ archive \in 0..MaxAttempts
  /\ disk \in {"none", "ok", "uncertain"}
  /\ operation \in {"none", "superseded", "deployment_paused", "failed"}
  /\ disturbances \in 0..MaxDisturbances

Init ==
  /\ selected = 0 /\ conflict = FALSE /\ enabled = TRUE
  /\ attempts = [v \in Versions |-> 0]
  /\ release = [v \in Versions |-> "none"]
  /\ asset = [v \in Versions |-> 0]
  /\ interrupted = {} /\ receipts = {} /\ deployments = {}
  /\ status = [j \in Job |-> "none"]
  /\ uploadedAt = [j \in Job |-> 0]
  /\ clock = 0
  /\ retained = [j \in Job |-> "none"]
  /\ live = NotLive
  /\ pc = "idle" /\ job = NoJob /\ archive = 0
  /\ disk = "none" /\ operation = "none"
  /\ disturbances = 0

(***************************************************************************)
(* What the durable evidence establishes.                                  *)
(***************************************************************************)
\* No retained receipt of the version binds another canonical archive.
Canonical(v, b) == \A r \in receipts : r.job.version = v => r.archive = b

PublicationEvidence(j, b) == Canonical(j.version, b) /\ PublicationReceipt(j, b) \in receipts

Verified(j) == \E r \in receipts : r.state = "verified" /\ r.job = j /\ r.upload

UploadRetained(j) == \E r \in receipts : r.job = j /\ r.upload

\* Mutation of DeploymentRows: only this attempt's own deployment counts.
DeploymentRowsOfAttempt(v) == {d \in deployments : d.version = v /\ d = job}

DeploymentRows(v) == {d \in deployments : d.version = v}

\* A managed deployment must match a durable publication of its own attempt.
RowsMatch(v, b) == \A d \in DeploymentRows(v) : PublicationReceipt(d, b) \in receipts

Successful == {d \in deployments : status[d] = "success"}

LatestReadable == \A d \in Successful : Verified(d)

\* The production predecessor: the successful deployment uploaded last.
LatestProduction ==
  {d \in Successful : \A e \in Successful : uploadedAt[e] <= uploadedAt[d]}

\* Mutation of NoUnverifiedUploads: a deployment without a status is passed over.
NoUnverifiedUploadsWithStatus == \A d \in deployments : status[d] = "none" \/ Verified(d)

NoUnverifiedUploads == \A d \in deployments : Verified(d)

(***************************************************************************)
(* Ending a run, and what can go wrong in one.                             *)
(***************************************************************************)
EndRun == pc' = "idle" /\ job' = NoJob /\ archive' = 0 /\ disk' = "none" /\ operation' = "none"

Disturb == disturbances < MaxDisturbances /\ disturbances' = disturbances + 1

Goto(step) == pc' = step /\ UNCHANGED <<job, archive, disk, operation>>

\* An exception in the deploy job keeps a failed operation for the evidence job.
KeepFailure == pc' = "preserve" /\ operation' = "failed" /\ UNCHANGED <<job, archive>>

\* A run dies between any two steps; nothing on its disk survives.
Crash ==
  /\ pc # "idle"
  /\ Disturb
  /\ EndRun
  /\ UNCHANGED <<main, github, host>>

\* An API call of the deploy job fails without effect.
DeployStepFails ==
  /\ pc \in DeploySteps
  /\ Disturb
  /\ KeepFailure
  /\ UNCHANGED <<main, github, host, disk>>

\* Retained workflow artifacts expire after seven days.
Expire(j) ==
  /\ retained[j] # "none"
  /\ Disturb
  /\ retained' = [retained EXCEPT ![j] = "none"]
  /\ UNCHANGED <<main, github, uploadedAt, clock, live, runner>>

(***************************************************************************)
(* main and the operator.                                                  *)
(***************************************************************************)
\* The next reviewed release merges; versions only increase.
Merge ==
  /\ selected < Last
  /\ selected' = selected + 1
  /\ conflict' = FALSE
  /\ UNCHANGED <<enabled, github, host, runner, disturbances>>

\* A merge redeclares the selected version differently.  Its own run fails the check
\* of release requests, so it releases nothing.
MergeConflicting ==
  /\ selected > 0 /\ ~conflict
  /\ Disturb
  /\ conflict' = TRUE
  /\ UNCHANGED <<selected, enabled, github, host, runner>>

\* The operator turns CLOUDFLARE_PAGES_ENABLED.
SwitchUploads ==
  /\ Disturb
  /\ enabled' = ~enabled
  /\ UNCHANGED <<selected, conflict, github, host, runner>>

\* A queued push, rerun or dispatch for the captured source of v takes the lock.
StartDelivery(v) ==
  /\ pc = "idle"
  /\ v <= selected
  /\ attempts[v] < MaxAttempts
  /\ attempts' = [attempts EXCEPT ![v] = @ + 1]
  /\ pc' = "publish"
  /\ job' = [version |-> v, attempt |-> attempts[v] + 1]
  /\ UNCHANGED <<main, release, asset, interrupted, receipts, deployments, status,
                 host, archive, disk, operation, disturbances>>

(***************************************************************************)
(* publish_candidate: the published bytes, once any exist, stay canonical. *)
(***************************************************************************)
CreateDraft ==
  /\ pc = "publish"
  /\ release[job.version] = "none"
  /\ release' = [release EXCEPT ![job.version] = "draft"]
  /\ Goto("uploadAsset")
  /\ UNCHANGED <<main, attempts, asset, interrupted, receipts, deployments, status,
                 host, disturbances>>

\* A rerun finds its owned draft, complete, empty or with an unfinished asset.
ResumeDraft ==
  /\ pc = "publish"
  /\ release[job.version] = "draft"
  /\ IF job.version \in interrupted THEN EndRun
     ELSE Goto(IF asset[job.version] = 0 THEN "uploadAsset" ELSE "publishDraft")
  /\ UNCHANGED <<main, github, host, disturbances>>

\* Mutation of ReusePublished: the run carries on with its own build.
ReusePublishedFresh ==
  /\ pc = "publish"
  /\ release[job.version] = "published"
  /\ archive' = job.attempt
  /\ pc' = "retainPublication"
  /\ UNCHANGED <<main, github, host, job, disk, operation, disturbances>>

ReusePublished ==
  /\ pc = "publish"
  /\ release[job.version] = "published"
  /\ archive' = asset[job.version]
  /\ pc' = "retainPublication"
  /\ UNCHANGED <<main, github, host, job, disk, operation, disturbances>>

UploadAsset ==
  /\ pc = "uploadAsset"
  /\ asset' = [asset EXCEPT ![job.version] = job.attempt]
  /\ Goto("publishDraft")
  /\ UNCHANGED <<main, attempts, release, interrupted, receipts, deployments, status,
                 host, disturbances>>

\* The upload breaks off and GitHub keeps an asset that is not "uploaded".
UploadAssetInterrupted ==
  /\ pc = "uploadAsset"
  /\ Disturb
  /\ interrupted' = interrupted \cup {job.version}
  /\ EndRun
  /\ UNCHANGED <<main, attempts, release, asset, receipts, deployments, status, host>>

\* The downloaded archive verifies, and the draft is published with its tag.
PublishDraft ==
  /\ pc = "publishDraft"
  /\ release' = [release EXCEPT ![job.version] = "published"]
  /\ archive' = asset[job.version]
  /\ pc' = "retainPublication"
  /\ UNCHANGED <<main, attempts, asset, interrupted, receipts, deployments, status,
                 host, job, disk, operation, disturbances>>

\* The publication receipt is sealed on the owning issue before any deployment.
RetainPublication ==
  /\ pc = "retainPublication"
  /\ IF Canonical(job.version, archive)
     THEN receipts' = receipts \cup {PublicationReceipt(job, archive)} /\ Goto("admit")
     ELSE UNCHANGED receipts /\ EndRun
  /\ UNCHANGED <<main, attempts, release, asset, interrupted, deployments, status,
                 host, disturbances>>

(***************************************************************************)
(* The deploy job: one last admission, the owned deployment, the upload.   *)
(***************************************************************************)
AdmissionState ==
  IF selected # job.version THEN "superseded"
  ELSE IF enabled THEN "eligible" ELSE "deployment_paused"

\* promotion_allowed: main must declare exactly this release, and the last
\* verified production release must not be newer.
SelectionAgrees ==
  selected = job.version =>
    /\ ~conflict
    /\ \A d \in LatestProduction : d.version <= job.version

Admissible ==
  /\ PublicationEvidence(job, archive)
  /\ LatestReadable
  /\ SelectionAgrees
  /\ AdmissionState = "eligible" =>
       RowsMatch(job.version, archive) /\ DeploymentRows(job.version) = {}

\* admit_upload: eligible, skipped with a durable reason, or a kept failure.
Admit ==
  /\ pc = "admit"
  /\ IF ~Admissible THEN KeepFailure
     ELSE IF AdmissionState = "eligible" THEN Goto("create")
     ELSE pc' = "preserve" /\ operation' = AdmissionState /\ UNCHANGED <<job, archive>>
  /\ UNCHANGED <<main, github, host, disk, disturbances>>

\* Mutation of CreateAllowed: an earlier uncertain upload does not hold this one back.
CreateAllowedDespiteUncertain ==
  PublicationEvidence(job, archive) /\ DeploymentRows(job.version) = {}

CreateAllowed ==
  /\ PublicationEvidence(job, archive)
  /\ DeploymentRows(job.version) = {}
  /\ NoUnverifiedUploads

\* create_deployment; the response of a created deployment may still be lost.
CreateDeployment ==
  /\ pc = "create"
  /\ CreateAllowed
  /\ deployments' = deployments \cup {job}
  /\ \/ Goto("upload") /\ UNCHANGED disturbances
     \/ KeepFailure /\ Disturb /\ UNCHANGED disk
  /\ UNCHANGED <<main, attempts, release, asset, interrupted, receipts, status, host>>

CreateRefused ==
  /\ pc = "create"
  /\ ~CreateAllowed
  /\ KeepFailure
  /\ UNCHANGED <<main, github, host, disk, disturbances>>

\* Mutation of Serve: the run uploads the site it built, not the promotion site.
ServeFreshBuild == live' = [version |-> job.version, archive |-> job.attempt]

Serve == live' = [version |-> job.version, archive |-> archive]

\* Wrangler reports success and one unique URL; upload.json is on disk.
Upload ==
  /\ pc = "upload"
  /\ Serve
  /\ clock' = clock + 1
  /\ uploadedAt' = [uploadedAt EXCEPT ![job] = clock + 1]
  /\ disk' = "ok"
  /\ pc' = "inProgress"
  /\ UNCHANGED <<main, github, retained, job, archive, operation, disturbances>>

\* Wrangler fails or names no unique URL; the upload may have taken effect.
UploadUncertain ==
  /\ pc = "upload"
  /\ Disturb
  /\ Serve \/ UNCHANGED live
  /\ disk' = "uncertain"
  /\ KeepFailure
  /\ UNCHANGED <<main, github, uploadedAt, clock, retained>>

\* Mutation of RecordInProgress: the upload alone counts as success.
RecordUploadAsSuccess ==
  /\ pc = "inProgress"
  /\ status' = [status EXCEPT ![job] = "success"]
  /\ Goto("preserve")
  /\ UNCHANGED <<main, attempts, release, asset, interrupted, receipts, deployments,
                 host, disturbances>>

\* The unique URL is recorded, perhaps without the run learning of it.
RecordInProgress ==
  /\ pc = "inProgress"
  /\ status' = [status EXCEPT ![job] = "in_progress"]
  /\ \/ Goto("preserve") /\ UNCHANGED disturbances
     \/ KeepFailure /\ Disturb /\ UNCHANGED disk
  /\ UNCHANGED <<main, attempts, release, asset, interrupted, receipts, deployments, host>>

\* The upload directory is retained whatever happened; the evidence job follows.
Preserve ==
  /\ pc = "preserve"
  /\ retained' = [retained EXCEPT ![job] = disk]
  /\ Goto(IF operation = "none" THEN "retainUpload" ELSE "retainOperation")
  /\ UNCHANGED <<main, github, uploadedAt, clock, live, disturbances>>

(***************************************************************************)
(* The evidence job: retain a skip or failure, or finalize the upload.     *)
(***************************************************************************)
RetainOperation ==
  /\ pc = "retainOperation"
  /\ receipts' = IF Canonical(job.version, archive)
                 THEN receipts \cup {OperationReceipt(operation, job, archive)}
                 ELSE receipts
  /\ EndRun
  /\ UNCHANGED <<main, attempts, release, asset, interrupted, deployments, status,
                 host, disturbances>>

\* Mutation of StartVerification: a verified upload is taken to need nothing more.
StartVerificationUnverifiedOnly(j) ==
  /\ pc = "idle"
  /\ ~Verified(j)
  /\ UploadRetained(j) \/ (DeploymentRows(j.version) = {j} /\ retained[j] = "ok")
  /\ \E b \in Attempts : PublicationReceipt(j, b) \in receipts /\ archive' = b
  /\ job' = j
  /\ pc' = "retainUpload"
  /\ UNCHANGED <<main, github, host, disk, operation, disturbances>>

\* A verification-only dispatch names the producing job of an existing upload.
StartVerification(j) ==
  /\ pc = "idle"
  /\ \/ UploadRetained(j)
     \/ DeploymentRows(j.version) = {j} /\ retained[j] = "ok"
  /\ \E b \in Attempts :
       /\ PublicationReceipt(j, b) \in receipts
       /\ archive' = b
  /\ job' = j
  /\ pc' = "retainUpload"
  /\ UNCHANGED <<main, github, host, disk, operation, disturbances>>

\* finalize_deployment retains the upload first; earlier verification is reused.
RetainUpload ==
  /\ pc = "retainUpload"
  /\ IF PublicationEvidence(job, archive) /\ job \in deployments
     THEN /\ receipts' = receipts \cup {UploadReceipt("published", job, archive)}
          /\ Goto(IF Verified(job) THEN "success" ELSE "probe")
     ELSE UNCHANGED receipts /\ EndRun
  /\ UNCHANGED <<main, attempts, release, asset, interrupted, deployments, status,
                 host, disturbances>>

\* Two consecutive strict probes see this release's own bytes in production.
ProbePasses ==
  /\ pc = "probe"
  /\ live = [version |-> job.version, archive |-> archive]
  /\ Goto("retainVerified")
  /\ UNCHANGED <<main, github, host, disturbances>>

\* Retaining the admitted upload or its verdict raises, or the wait times out.
FinalizeFails ==
  /\ \/ pc = "retainUpload" /\ PublicationEvidence(job, archive) /\ job \in deployments
     \/ pc \in {"probe", "retainVerified"}
  /\ Disturb
  /\ Goto("retainFailed")
  /\ UNCHANGED <<main, github, host>>

RetainVerified ==
  /\ pc = "retainVerified"
  /\ receipts' = receipts \cup {UploadReceipt("verified", job, archive)}
  /\ Goto("success")
  /\ UNCHANGED <<main, attempts, release, asset, interrupted, deployments, status,
                 host, disturbances>>

RetainFailed ==
  /\ pc = "retainFailed"
  /\ receipts' = receipts \cup {UploadReceipt("failed", job, archive)}
  /\ EndRun
  /\ UNCHANGED <<main, attempts, release, asset, interrupted, deployments, status,
                 host, disturbances>>

\* Mutation of RecordSuccess: the success posted late counts as the upload time.
RecordSuccessRestamps ==
  /\ pc = "success"
  /\ status' = IF Verified(job) THEN [status EXCEPT ![job] = "success"] ELSE status
  /\ clock' = clock + 1
  /\ uploadedAt' = [uploadedAt EXCEPT ![job] = clock + 1]
  /\ EndRun
  /\ UNCHANGED <<main, attempts, release, asset, interrupted, receipts, deployments,
                 retained, live, disturbances>>

\* deployment-status: success needs the sealed verified receipt of this upload.
RecordSuccess ==
  /\ pc = "success"
  /\ status' = IF Verified(job) THEN [status EXCEPT ![job] = "success"] ELSE status
  /\ EndRun
  /\ UNCHANGED <<main, attempts, release, asset, interrupted, receipts, deployments,
                 host, disturbances>>

PublishStep == \/ CreateDraft \/ ResumeDraft \/ ReusePublished
               \/ UploadAsset \/ PublishDraft \/ RetainPublication
DeployStep == \/ Admit \/ CreateDeployment \/ CreateRefused
              \/ Upload \/ RecordInProgress \/ Preserve
FinalizeStep == \/ RetainOperation \/ RetainUpload \/ ProbePasses
                \/ RetainVerified \/ RetainFailed \/ RecordSuccess
RunStep == PublishStep \/ DeployStep \/ FinalizeStep

Fault == \/ Crash \/ DeployStepFails \/ UploadAssetInterrupted \/ UploadUncertain
         \/ FinalizeFails \/ \E j \in Job : Expire(j)

Environment == \/ Merge \/ MergeConflicting \/ SwitchUploads
               \/ \E v \in Versions : StartDelivery(v)
               \/ \E j \in Job : StartVerification(j)

Next == RunStep \/ Fault \/ Environment

Spec == Init /\ [][Next]_vars

(***************************************************************************)
(* Properties.                                                             *)
(***************************************************************************)
\* At most one deployment, hence one upload, is ever admitted for a release,
\* however often its run is repeated (admit_upload, create_deployment).
OneDeploymentPerRelease ==
  \A d, e \in deployments : d.version = e.version => d = e

\* Whatever was deployed was first published, and the deploying attempt sealed a
\* receipt naming the published archive (require_publication_evidence).
EvidencePrecedesDeployment ==
  \A d \in deployments :
    /\ release[d.version] = "published"
    /\ PublicationReceipt(d, asset[d.version]) \in receipts

\* Both: a release gets one deployment, and that one after the evidence of its own
\* attempt, whichever of its attempts crash, repeat or overtake each other.
DeployedOnceOnEvidence == OneDeploymentPerRelease /\ EvidencePrecedesDeployment

\* A newer release is deployed only after every older one was verified, so an
\* uncertain upload holds all later ones back (require_no_unverified_uploads).
OlderDeploymentsVerified ==
  \A d, e \in deployments : d.version < e.version => Verified(d)

\* Production serves the published archive of a deployed release, although a
\* rerun may have built other bytes (publish_candidate).
ProductionIsCanonical ==
  live # NotLive =>
    /\ \E d \in deployments : d.version = live.version
    /\ release[live.version] = "published"
    /\ live.archive = asset[live.version]

\* A deployment marked successful has sealed verified evidence
\* (deployment-status), and its release did reach production.
SuccessIsVerified ==
  \A d \in Job : status[d] = "success" =>
    Verified(d) /\ d \in deployments /\ d.version <= live.version

\* A release recorded as superseded or paused was not uploaded by that attempt.
SkippedWasNotDeployed ==
  \A r \in receipts : r.state \in {"superseded", "deployment_paused"} => r.job \notin deployments

\* Production never goes back to an older release (promotion_allowed).
ProductionNeverRegresses == [][live'.version >= live.version]_live

\* Published bytes stay as they are, whatever attempt runs next.
PublishedIsImmutable ==
  [][\A v \in Versions : release[v] = "published" =>
        release'[v] = "published" /\ asset'[v] = asset[v]]_vars

\* Evidence that arrives late never moves the production baseline back: a success
\* posted after a newer upload does not reorder them (latest_production_receipt).
BaselineNeverRegresses ==
  [][\A d \in LatestProduction : \A e \in LatestProduction' : d.version <= e.version]_vars

\* Neither what is served nor what the evidence calls served ever goes back,
\* whatever is repeated, queued or posted late (promotion_allowed,
\* latest_production_receipt).
NothingRegresses == ProductionNeverRegresses /\ BaselineNeverRegresses

(***************************************************************************)
(* The contract this delivery implements.                                  *)
(***************************************************************************)
StageOf(v) ==
  IF \E j \in deployments : j.version = v /\ Verified(j) THEN "verified"
  ELSE IF live.version = v THEN "live"
  ELSE IF release[v] = "published" THEN "published" ELSE "unpublished"

Contract == INSTANCE ReleaseContract
              WITH stage <- [v \in Versions |-> StageOf(v)], production <- live.version

\* Every delivery behavior is one the contract allows.
ImplementsContract == Contract!ContractSpec

(***************************************************************************)
(* Fairness: a run keeps stepping; a queued dispatch gets the lock (the    *)
(* mainline queue is first in, first out).  Dispatching verification again *)
(* after a failure is the operator's documented part.                      *)
(***************************************************************************)
FairSpec == Spec /\ WF_vars(RunStep) /\ \A j \in Job : SF_vars(StartVerification(j))

\* Verification-only recovery finishes every upload whose report was retained,
\* however the run that made it ended, unless the report expires first.
RetainedUploadIsFinalized ==
  \A j \in Job :
    retained[j] = "ok" ~> (status[j] = "success" \/ retained[j] = "none")

\* A sealed upload receipt is enough to finish, also when artifacts have expired and
\* when an earlier run verified but could not post the success.
SealedUploadIsFinalized == \A j \in Job : UploadRetained(j) ~> status[j] = "success"

\* No upload stays unfinished while its report or its sealed receipt is there
\* (recover_upload, finalize_deployment).
UploadsAreFinalized == RetainedUploadIsFinalized /\ SealedUploadIsFinalized

(***************************************************************************)
(* Two statements of the repository's documents that the code refutes.     *)
(***************************************************************************)
\* An earlier attempt put release v into production and verified it there.
KnownGood(v) == \E j \in Job : j.version = v /\ j.attempt < job.attempt /\ Verified(j)

\* docs/runbooks/production-rollback.md, path B: after a newer release went live,
\* rerunning CI on a known-good one uploads it again, as long as the switch is on.
RerunUploadsWhenEnabled ==
  enabled /\ pc = "preserve" /\ KnownGood(job.version) /\ live.version > job.version
    => operation = "none"

\* docs/HOSTING.md, "Which one to use": verification-only recovery comes after any
\* upload, one with an uncertain outcome included.
UncertainUploadIsFinalized ==
  \A j \in Job :
    retained[j] = "uncertain" ~> (status[j] = "success" \/ retained[j] = "none")
=============================================================================
