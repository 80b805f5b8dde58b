------------------------ MODULE ReleaseDeliveryProofs ------------------------
(***************************************************************************)
(* Proofs about ReleaseDelivery for every number of versions, attempts and *)
(* disturbances.  The properties are not inductive: they hold because of   *)
(* what the run holding the lock has established at each of its steps.     *)
(* IInv states that, step by step.                                         *)
(***************************************************************************)
EXTENDS ReleaseDelivery, TLAPS

\* Steps at which the run's publication exists, is sealed, owns the upload.
PublishedSteps == {"retainPublication"} \cup DeploySteps \cup FinalSteps
SealedSteps == DeploySteps \cup FinalSteps
BeforeDeployment == PublishSteps \cup {"admit", "create"}
UploadedSteps == {"inProgress", "retainUpload", "probe", "retainVerified", "retainFailed",
                  "success"}

\* The run works for a started attempt of a merged version; it retains an operation
\* only when one was recorded.
RunInv ==
  /\ pc = "idle" <=> job = NoJob
  /\ pc # "idle" => job.version <= selected /\ job.attempt <= attempts[job.version]
  /\ pc = "retainOperation" => operation # "none"

\* Receipts and deployments belong to started attempts, and a version is deployed
\* only after main selected it.
StartedInv ==
  /\ \A r \in receipts : r.job.attempt <= attempts[r.job.version] /\ r.job.version <= selected
  /\ \A d \in deployments : d.attempt <= attempts[d.version] /\ d.version <= selected

\* A published release has its archive, and the run knows that archive.
ArchiveInv ==
  /\ \A v \in Versions : release[v] = "published" => asset[v] # 0
  /\ pc \in {"uploadAsset", "publishDraft"} => release[job.version] = "draft"
  /\ pc = "publishDraft" => asset[job.version] # 0
  /\ pc \in PublishedSteps => release[job.version] = "published" /\ archive = asset[job.version]

\* Receipts bind the published archive; evidence comes before deployment.
EvidenceInv ==
  /\ \A r \in receipts : release[r.job.version] = "published" /\ r.archive = asset[r.job.version]
  /\ pc \in SealedSteps => PublicationReceipt(job, archive) \in receipts
  /\ \A d \in deployments : PublicationReceipt(d, asset[d.version]) \in receipts

\* One deployment per release, in version order, each verified before the next.
OrderInv ==
  /\ OneDeploymentPerRelease
  /\ OlderDeploymentsVerified
  /\ pc = "create" => \A d \in deployments : d.version <= job.version
  /\ pc = "upload" => /\ job \in deployments
                      /\ live.version < job.version
                      /\ \A d \in deployments : d.version <= job.version
                      /\ \A d \in deployments : d = job \/ Verified(d)

\* A skipped or not yet deploying attempt has no deployment.
SkipInv ==
  /\ pc \in {"idle", "upload"} \cup BeforeDeployment => operation = "none"
  /\ pc \in BeforeDeployment => job \notin deployments
  /\ pc \in BeforeDeployment =>
       \A r \in receipts : r.job = job => r.state \notin {"superseded", "deployment_paused"}
  /\ operation \in {"superseded", "deployment_paused"} => job \notin deployments
  /\ SkippedWasNotDeployed

\* Whoever is known to have uploaded owns a deployment that reached production.
Uploaded(j) == \/ UploadRetained(j)
               \/ retained[j] = "ok"
               \/ job = j /\ (disk = "ok" \/ pc \in UploadedSteps)

UploadInv ==
  /\ \A j \in Job : Uploaded(j) => j \in deployments /\ j.version <= live.version
  /\ disk # "none" => pc \in {"inProgress", "preserve", "retainOperation"} \cup UploadedSteps
  /\ pc = "preserve" /\ operation = "none" => disk = "ok"
  /\ pc = "inProgress" => operation = "none" /\ disk = "ok"
  /\ ProductionIsCanonical

\* Success rests on sealed verification, which nobody has while the upload runs.
StatusInv ==
  /\ \A d \in Job : status[d] = "success" => Verified(d)
  /\ pc = "inProgress" => ~Verified(job)

\* Upload times follow versions, and every upload known of has a time.
ClockInv ==
  /\ \A j \in Job : /\ uploadedAt[j] <= clock
                    /\ uploadedAt[j] # 0 => j.version <= live.version
                    /\ Uploaded(j) => uploadedAt[j] # 0
  /\ \A j, k \in Job : uploadedAt[j] # 0 /\ uploadedAt[k] # 0 /\ j.version < k.version
                        => uploadedAt[j] < uploadedAt[k]

IInv == /\ TypeOK /\ RunInv /\ StartedInv /\ ArchiveInv /\ EvidenceInv
        /\ OrderInv /\ SkipInv /\ UploadInv /\ StatusInv /\ ClockInv

-----------------------------------------------------------------------------
(***************************************************************************)
(* Types.                                                                  *)
(***************************************************************************)
\* The run holding the lock works for a job of the model.
LEMMA RunningJob ==
  ASSUME TypeOK, RunInv, pc # "idle"
  PROVE  /\ job \in Job /\ job # NoJob
         /\ job.version \in Versions /\ job.attempt \in Attempts
         /\ job.version \in 0..Last /\ job.attempt \in 0..MaxAttempts
         /\ job.attempt # 0
BY DeliveryAssumption DEF TypeOK, RunInv, Job, Versions, Attempts

\* The archive of a published release was produced by an attempt.
LEMMA PublishedArchive ==
  ASSUME TypeOK, RunInv, ArchiveInv, pc \in PublishedSteps
  PROVE  archive \in Attempts
<1>1. pc # "idle"
  BY DEF PublishedSteps, DeploySteps, FinalSteps
<1>2. job.version \in Versions
  BY <1>1, RunningJob
<1>3. archive = asset[job.version] /\ archive # 0
  BY <1>2 DEF ArchiveInv
<1> QED
  BY <1>2, <1>3, DeliveryAssumption DEF TypeOK, Attempts

\* The receipts a run retains are receipts.
LEMMA ReceiptTypes ==
  ASSUME NEW j \in Job, NEW b \in Attempts
  PROVE  /\ PublicationReceipt(j, b) \in Receipt
         /\ \A s \in DeliveryStates : /\ OperationReceipt(s, j, b) \in Receipt
                                      /\ UploadReceipt(s, j, b) \in Receipt
BY DEF Receipt, PublicationReceipt, OperationReceipt, UploadReceipt, DeliveryStates

\* Every step keeps the types.
LEMMA TypeStep ==
  ASSUME TypeOK, RunInv, ArchiveInv, [Next]_vars
  PROVE  TypeOK'
<1> USE DeliveryAssumption DEF TypeOK, Steps, PublishSteps, DeploySteps, FinalSteps
<1>1. CASE UNCHANGED vars
  BY <1>1 DEF vars, main, github, runner, host
<1>2. CASE MergeConflicting \/ SwitchUploads
  <2>1. conflict' \in BOOLEAN /\ enabled' \in BOOLEAN
    BY <1>2, Zenon DEF MergeConflicting, SwitchUploads
  <2> QED
    BY <1>2, <2>1 DEF MergeConflicting, SwitchUploads, Disturb, github, host, runner
<1>3. CASE Merge
  <2>1. conflict' \in BOOLEAN
    BY <1>3, Zenon DEF Merge
  <2> QED
    BY <1>3, <2>1 DEF Merge, github, host, runner
<1>4. CASE Crash \/ DeployStepFails \/ FinalizeFails
  BY <1>4 DEF Crash, DeployStepFails, FinalizeFails, Disturb, EndRun, KeepFailure, Goto,
              main, github, host
<1>5. CASE UploadAssetInterrupted
  BY <1>5, RunningJob DEF UploadAssetInterrupted, Disturb, EndRun, main, host
<1>6. CASE \E j \in Job : Expire(j)
  BY <1>6 DEF Expire, Disturb, main, github, runner
<1>7. CASE CreateDraft
  BY <1>7, RunningJob DEF CreateDraft, Goto, main, host
<1>8. CASE ResumeDraft \/ ProbePasses \/ CreateRefused \/ Admit
  BY <1>8 DEF ResumeDraft, ProbePasses, CreateRefused, Admit, AdmissionState,
              Goto, EndRun, KeepFailure, main, github, host
<1>9. CASE ReusePublished
  BY <1>9, RunningJob DEF ReusePublished, main, github, host
<1>10. CASE UploadAsset
  BY <1>10, RunningJob DEF UploadAsset, Goto, main, host
<1>11. CASE PublishDraft
  BY <1>11, RunningJob DEF PublishDraft, main, host
<1>12. CASE RetainPublication
  <2>1. job \in Job /\ archive \in Attempts
    BY <1>12, RunningJob, PublishedArchive DEF RetainPublication, PublishedSteps
  <2>2. receipts' \subseteq Receipt
    BY <1>12, <2>1, ReceiptTypes DEF RetainPublication, DeliveryStates
  <2> QED
    BY <1>12, <2>2 DEF RetainPublication, Goto, EndRun, main, host
<1>13. CASE CreateDeployment
  BY <1>13, RunningJob DEF CreateDeployment, Goto, KeepFailure, Disturb, main, host
<1>14. CASE Upload
  BY <1>14, RunningJob DEF Upload, Serve, main, github
<1>15. CASE UploadUncertain
  BY <1>15, RunningJob DEF UploadUncertain, Serve, Disturb, KeepFailure, main, github
<1>16. CASE RecordInProgress
  BY <1>16, RunningJob DEF RecordInProgress, Goto, KeepFailure, Disturb, main, host
<1>17. CASE Preserve
  BY <1>17, RunningJob DEF Preserve, Goto, main, github
<1>18. CASE RetainOperation
  <2>1. job \in Job /\ archive \in Attempts
    BY <1>18, RunningJob, PublishedArchive DEF RetainOperation, PublishedSteps
  <2>2. operation \in DeliveryStates
    BY <1>18 DEF RetainOperation, RunInv, DeliveryStates
  <2>3. receipts' \subseteq Receipt
    BY <1>18, <2>1, <2>2, ReceiptTypes DEF RetainOperation
  <2> QED
    BY <1>18, <2>3 DEF RetainOperation, EndRun, main, host
<1>22. CASE RetainUpload \/ RetainVerified \/ RetainFailed
  <2>1. job \in Job /\ archive \in Attempts
    BY <1>22, RunningJob, PublishedArchive
       DEF RetainUpload, RetainVerified, RetainFailed, PublishedSteps
  <2>2. receipts' \subseteq Receipt
    BY <1>22, <2>1, ReceiptTypes DEF RetainUpload, RetainVerified, RetainFailed, DeliveryStates
  <2> QED
    BY <1>22, <2>2 DEF RetainUpload, RetainVerified, RetainFailed, Goto, EndRun, main, host
<1>19. CASE RecordSuccess
  BY <1>19, RunningJob DEF RecordSuccess, EndRun, main, host
<1>20. CASE \E v \in Versions : StartDelivery(v)
  <2>1. PICK v \in Versions : StartDelivery(v)
    BY <1>20
  <2>2. attempts[v] + 1 \in 1..MaxAttempts /\ attempts[v] + 1 \in 0..MaxAttempts
    BY <2>1 DEF StartDelivery
  <2>3. job' \in Job
    BY <2>1, <2>2 DEF StartDelivery, Attempts, Job
  <2> QED
    BY <2>1, <2>2, <2>3 DEF StartDelivery, main, host
<1>21. CASE \E j \in Job : StartVerification(j)
  BY <1>21 DEF StartVerification, main, github, host, Attempts
<1> QED
  BY <1>1, <1>2, <1>3, <1>4, <1>5, <1>6, <1>7, <1>8, <1>9, <1>10, <1>11, <1>12, <1>13,
     <1>14, <1>15, <1>16, <1>17, <1>18, <1>19, <1>20, <1>21, <1>22
     DEF Next, RunStep, PublishStep, DeployStep, FinalizeStep, Fault, Environment

-----------------------------------------------------------------------------
(***************************************************************************)
(* The run, and what was started.                                          *)
(***************************************************************************)
\* A run is always one of a started attempt.
LEMMA RunInvStep ==
  ASSUME TypeOK, RunInv, StartedInv, [Next]_vars
  PROVE  RunInv'
<1> USE DEF RunInv
<1>1. CASE UNCHANGED vars \/ MergeConflicting \/ SwitchUploads \/ \E j \in Job : Expire(j)
  BY <1>1 DEF MergeConflicting, SwitchUploads, Expire, vars, main, github, runner
<1>2. CASE \/ Crash \/ UploadAssetInterrupted \/ RetainOperation \/ RetainFailed
           \/ RecordSuccess
  BY <1>2 DEF Crash, UploadAssetInterrupted, RetainOperation, RetainFailed, RecordSuccess,
              EndRun
<1>3. CASE \/ DeployStepFails \/ FinalizeFails \/ Admit \/ CreateDeployment \/ CreateRefused
           \/ Upload \/ UploadUncertain \/ RecordInProgress \/ Preserve
  BY <1>3 DEF DeployStepFails, FinalizeFails, Admit, CreateDeployment, CreateRefused, Upload,
              UploadUncertain, RecordInProgress, Preserve, KeepFailure, Goto, DeploySteps,
              main, github
<1>4. CASE \/ CreateDraft \/ ResumeDraft \/ ReusePublished \/ UploadAsset \/ PublishDraft
           \/ RetainPublication
  BY <1>4 DEF CreateDraft, ResumeDraft, ReusePublished, UploadAsset, PublishDraft,
              RetainPublication, EndRun, Goto, main, github
<1>5. CASE RetainUpload \/ ProbePasses \/ RetainVerified
  BY <1>5 DEF RetainUpload, ProbePasses, RetainVerified, EndRun, Goto, main, github
<1>6. CASE Merge
  BY <1>6, RunningJob DEF Merge, github, runner, TypeOK
<1>7. CASE \E v \in Versions : StartDelivery(v)
  <2>1. PICK v \in Versions : StartDelivery(v)
    BY <1>7
  <2>2. job'.version = v /\ job'.attempt = attempts[v] + 1 /\ job' # NoJob
    BY <2>1, DeliveryAssumption DEF StartDelivery, NoJob, Versions
  <2>3. attempts'[v] = attempts[v] + 1
    BY <2>1 DEF StartDelivery, TypeOK
  <2> QED
    BY <2>1, <2>2, <2>3 DEF StartDelivery, main, TypeOK
<1>8. CASE \E j \in Job : StartVerification(j)
  <2>1. PICK j \in Job : StartVerification(j)
    BY <1>8
  <2>2. PICK b \in Attempts : PublicationReceipt(j, b) \in receipts
    BY <2>1 DEF StartVerification
  <2>3. j.attempt <= attempts[j.version] /\ j.version <= selected
    BY <2>2 DEF StartedInv, PublicationReceipt
  <2>4. j # NoJob
    BY <2>1, DeliveryAssumption DEF Job, NoJob, Versions
  <2> QED
    BY <2>1, <2>3, <2>4 DEF StartVerification, main, github
<1> QED
  BY <1>1, <1>2, <1>3, <1>4, <1>5, <1>6, <1>7, <1>8
     DEF Next, RunStep, PublishStep, DeployStep, FinalizeStep, Fault, Environment

\* Receipts are never removed, and one that a step adds is about the job of the run;
\* it names a skip that the run recorded, or an upload only once there was one.
LEMMA NewReceipts ==
  ASSUME TypeOK, [Next]_vars
  PROVE  /\ receipts \subseteq receipts'
         /\ \A r \in receipts' \ receipts :
              /\ pc \in PublishedSteps /\ r.job = job /\ r.archive = archive
              /\ r.state \in {"superseded", "deployment_paused"} => r.state = operation
              /\ r.upload => pc \in UploadedSteps
<1> USE DEF PublicationReceipt, OperationReceipt, UploadReceipt, PublishedSteps, FinalSteps,
            UploadedSteps
<1>1. CASE receipts' = receipts
  BY <1>1
<1>2. CASE RetainPublication
  BY <1>2 DEF RetainPublication
<1>3. CASE RetainOperation
  BY <1>3 DEF RetainOperation
<1>4. CASE RetainUpload \/ RetainVerified \/ RetainFailed
  BY <1>4 DEF RetainUpload, RetainVerified, RetainFailed
<1>5. CASE ~(RetainPublication \/ RetainOperation \/ RetainUpload \/ RetainVerified \/ RetainFailed)
  <2>1. UNCHANGED github => receipts' = receipts
    BY DEF github
  <2> QED
    BY <1>5, <1>1, <2>1
       DEF Next, RunStep, PublishStep, DeployStep, FinalizeStep, Fault, Environment, vars,
           CreateDraft, ResumeDraft, ReusePublished, UploadAsset, PublishDraft, Admit,
           CreateDeployment, CreateRefused, Upload, RecordInProgress, Preserve, ProbePasses,
           RecordSuccess, Crash, DeployStepFails, UploadAssetInterrupted, UploadUncertain,
           FinalizeFails, Expire, Merge, MergeConflicting, SwitchUploads, StartDelivery,
           StartVerification
<1> QED
  BY <1>2, <1>3, <1>4, <1>5

\* Only create_deployment adds a deployment.
LEMMA NewDeployments ==
  ASSUME TypeOK, [Next]_vars
  PROVE  deployments' = deployments \/ CreateDeployment
<1>1. UNCHANGED github => deployments' = deployments
  BY DEF github
<1> QED
  BY <1>1 DEF Next, RunStep, PublishStep, DeployStep, FinalizeStep, Fault, Environment, vars,
     CreateDraft, ResumeDraft, ReusePublished, UploadAsset, PublishDraft, RetainPublication,
     Admit, CreateRefused, Upload, RecordInProgress, Preserve, RetainOperation, RetainUpload,
     ProbePasses, RetainVerified, RetainFailed, RecordSuccess, Crash, DeployStepFails,
     UploadAssetInterrupted, UploadUncertain, FinalizeFails, Expire, Merge, MergeConflicting,
     SwitchUploads, StartDelivery, StartVerification

\* Merged versions and started attempts only grow.
LEMMA StartedGrows ==
  ASSUME TypeOK, [Next]_vars
  PROVE  selected' >= selected /\ \A v \in Versions : attempts'[v] >= attempts[v]
<1> USE DeliveryAssumption DEF TypeOK
<1>1. UNCHANGED github => attempts' = attempts
  BY DEF github
<1>2. UNCHANGED main => selected' = selected
  BY DEF main
<1>3. CASE Merge
  <2>1. attempts' = attempts /\ selected' = selected + 1
    BY <1>1, <1>3 DEF Merge
  <2> QED
    BY <2>1
<1>4. CASE \E v \in Versions : StartDelivery(v)
  <2>1. PICK v \in Versions : StartDelivery(v)
    BY <1>4
  <2>2. selected' = selected /\ attempts' = [attempts EXCEPT ![v] = @ + 1]
    BY <1>2, <2>1 DEF StartDelivery
  <2> QED
    BY <2>2
<1>5. CASE attempts' = attempts /\ selected' = selected
  BY <1>5
<1>6. CASE ~(Merge \/ \E v \in Versions : StartDelivery(v))
  <2>1. attempts' = attempts /\ selected' = selected
    BY <1>1, <1>2, <1>6
       DEF Next, RunStep, PublishStep, DeployStep, FinalizeStep, Fault, Environment, vars,
       CreateDraft, ResumeDraft, ReusePublished, UploadAsset, PublishDraft, RetainPublication,
       Admit, CreateDeployment, CreateRefused, Upload, RecordInProgress, Preserve,
       RetainOperation, RetainUpload, ProbePasses, RetainVerified, RetainFailed, RecordSuccess,
       Crash, DeployStepFails, UploadAssetInterrupted, UploadUncertain, FinalizeFails, Expire,
       MergeConflicting, SwitchUploads, StartVerification
  <2> QED
    BY <2>1, <1>5
<1> QED
  BY <1>3, <1>4, <1>6

\* Receipts and deployments stay with the attempts that were started.
LEMMA StartedInvStep ==
  ASSUME TypeOK, TypeOK', RunInv, StartedInv, [Next]_vars
  PROVE  StartedInv'
<1>0. \A j \in Job : j.version \in Versions /\ j.version \in Nat /\ j.attempt \in Nat
  BY DeliveryAssumption DEF Job, Versions, Attempts
<1>1. \A j \in Job : j.version <= selected => j.version <= selected'
  <2>1. selected \in Nat /\ selected' \in Nat
    BY DeliveryAssumption DEF TypeOK
  <2> QED
    BY <1>0, <2>1, StartedGrows
<1>2. \A j \in Job : j.attempt <= attempts[j.version] => j.attempt <= attempts'[j.version]
  <2>1. \A v \in Versions : attempts[v] \in Nat /\ attempts'[v] \in Nat
    BY DeliveryAssumption DEF TypeOK
  <2> QED
    BY <1>0, <2>1, StartedGrows
<1>3. pc # "idle" => /\ job \in Job
                    /\ job.attempt <= attempts[job.version] /\ job.version <= selected
  BY RunningJob DEF RunInv
<1>4. ASSUME NEW r \in receipts'
      PROVE  r.job.attempt <= attempts'[r.job.version] /\ r.job.version <= selected'
  <2>1. r.job \in Job
    BY <1>4 DEF TypeOK, Receipt
  <2>2. CASE r \in receipts
    BY <1>1, <1>2, <2>1, <2>2 DEF StartedInv
  <2>3. CASE r \notin receipts
    <3>1. r.job = job /\ pc # "idle"
      BY <1>4, <2>3, NewReceipts DEF PublishedSteps, DeploySteps, FinalSteps
    <3> QED
      BY <1>1, <1>2, <1>3, <3>1
  <2> QED
    BY <2>2, <2>3
<1>5. ASSUME NEW d \in deployments'
      PROVE  d.attempt <= attempts'[d.version] /\ d.version <= selected'
  <2>1. d \in Job
    BY <1>5 DEF TypeOK
  <2>2. CASE d \in deployments
    BY <1>1, <1>2, <2>1, <2>2 DEF StartedInv
  <2>3. CASE d \notin deployments
    <3>1. d = job /\ pc # "idle"
      BY <1>5, <2>3, NewDeployments DEF CreateDeployment
    <3> QED
      BY <1>1, <1>2, <1>3, <3>1
  <2> QED
    BY <2>2, <2>3
<1> QED
  BY <1>4, <1>5 DEF StartedInv

-----------------------------------------------------------------------------
(***************************************************************************)
(* Published archives.                                                     *)
(***************************************************************************)
\* Steps other than those of publish_candidate leave releases and archives alone.
LEMMA ReleasesUnchanged ==
  ASSUME [Next]_vars, ~CreateDraft, ~UploadAsset, ~PublishDraft
  PROVE  UNCHANGED <<release, asset>>
<1>1. UNCHANGED github => UNCHANGED <<release, asset>>
  BY DEF github
<1> QED
  BY <1>1 DEF Next, RunStep, PublishStep, DeployStep, FinalizeStep, Fault, Environment, vars,
     ResumeDraft, ReusePublished, RetainPublication, Admit, CreateDeployment, CreateRefused,
     Upload, RecordInProgress, Preserve, RetainOperation, RetainUpload, ProbePasses,
     RetainVerified, RetainFailed, RecordSuccess, Crash, DeployStepFails,
     UploadAssetInterrupted, UploadUncertain, FinalizeFails, Expire, Merge, MergeConflicting,
     SwitchUploads, StartDelivery, StartVerification

\* A published release stays published with the same archive: an asset is only
\* uploaded to a draft.
LEMMA PublishedStays ==
  ASSUME TypeOK, RunInv, ArchiveInv, [Next]_vars,
         NEW v \in Versions, release[v] = "published"
  PROVE  release'[v] = "published" /\ asset'[v] = asset[v]
<1>1. CASE CreateDraft
  BY <1>1 DEF CreateDraft, TypeOK
<1>2. CASE UploadAsset
  BY <1>2 DEF UploadAsset, TypeOK, ArchiveInv
<1>3. CASE PublishDraft
  BY <1>3 DEF PublishDraft, TypeOK
<1> QED
  BY <1>1, <1>2, <1>3, ReleasesUnchanged

\* A run past publication works with the archive of a published release.
LEMMA ArchiveInvStep ==
  ASSUME TypeOK, RunInv, ArchiveInv, EvidenceInv, [Next]_vars
  PROVE  ArchiveInv'
<1> USE DEF ArchiveInv, PublishedSteps, DeploySteps, FinalSteps
<1>1. CASE UNCHANGED vars \/ MergeConflicting \/ SwitchUploads \/ Merge \/ \E j \in Job : Expire(j)
  BY <1>1 DEF MergeConflicting, SwitchUploads, Merge, Expire, vars, github, runner
<1>2. CASE \/ Crash \/ UploadAssetInterrupted \/ RetainOperation \/ RetainFailed
           \/ RecordSuccess \/ ResumeDraft
  BY <1>2 DEF Crash, UploadAssetInterrupted, RetainOperation, RetainFailed, RecordSuccess,
              ResumeDraft, EndRun, Goto, github
<1>3. CASE \/ DeployStepFails \/ FinalizeFails \/ Admit \/ CreateDeployment \/ CreateRefused
           \/ Upload \/ UploadUncertain \/ RecordInProgress \/ Preserve
  BY <1>3 DEF DeployStepFails, FinalizeFails, Admit, CreateDeployment, CreateRefused, Upload,
              UploadUncertain, RecordInProgress, Preserve, KeepFailure, Goto, github
<1>4. CASE RetainPublication \/ RetainUpload \/ ProbePasses \/ RetainVerified
  BY <1>4 DEF RetainPublication, RetainUpload, ProbePasses, RetainVerified, EndRun, Goto, github
<1>5. CASE CreateDraft
  BY <1>5, RunningJob DEF CreateDraft, Goto, TypeOK
<1>6. CASE UploadAsset
  BY <1>6, RunningJob DEF UploadAsset, Goto, TypeOK
<1>7. CASE PublishDraft
  BY <1>7, RunningJob DEF PublishDraft, TypeOK
<1>8. CASE ReusePublished
  BY <1>8 DEF ReusePublished, github
<1>9. CASE \E v \in Versions : StartDelivery(v)
  BY <1>9 DEF StartDelivery, PublishSteps
<1>10. CASE \E j \in Job : StartVerification(j)
  <2>1. PICK j \in Job, b \in Attempts :
          StartVerification(j) /\ PublicationReceipt(j, b) \in receipts /\ archive' = b
    BY <1>10 DEF StartVerification
  <2>2. release[j.version] = "published" /\ b = asset[j.version]
    BY <2>1 DEF EvidenceInv, PublicationReceipt
  <2> QED
    BY <2>1, <2>2 DEF StartVerification, github
<1> QED
  BY <1>1, <1>2, <1>3, <1>4, <1>5, <1>6, <1>7, <1>8, <1>9, <1>10
     DEF Next, RunStep, PublishStep, DeployStep, FinalizeStep, Fault, Environment

\* Receipts bind the published archive, and deployments follow their evidence.
LEMMA EvidenceInvStep ==
  ASSUME TypeOK, RunInv, ArchiveInv, EvidenceInv, [Next]_vars
  PROVE  EvidenceInv'
<1>1. ASSUME NEW r \in receipts'
      PROVE  release'[r.job.version] = "published" /\ r.archive = asset'[r.job.version]
  <2>1. CASE r \in receipts
    <3>1. r.job.version \in Versions
      BY <2>1 DEF TypeOK, Receipt, Job
    <3> QED
      BY <2>1, <3>1, PublishedStays DEF EvidenceInv
  <2>2. CASE r \notin receipts
    <3>1. r.job = job /\ r.archive = archive /\ pc \in PublishedSteps
      BY <1>1, <2>2, NewReceipts
    <3>2. job.version \in Versions
      BY <3>1, RunningJob DEF PublishedSteps, DeploySteps, FinalSteps
    <3> QED
      BY <3>1, <3>2, PublishedStays DEF ArchiveInv
  <2> QED
    BY <2>1, <2>2
<1>2. pc' \in SealedSteps => PublicationReceipt(job', archive') \in receipts'
  <2> USE DEF EvidenceInv, SealedSteps, DeploySteps, FinalSteps
  <2>1. CASE pc \in SealedSteps /\ UNCHANGED <<job, archive>>
    BY <2>1, NewReceipts
  <2>2. CASE RetainPublication
    BY <2>2 DEF RetainPublication, Goto, EndRun
  <2>3. CASE \E j \in Job : StartVerification(j)
    BY <2>3 DEF StartVerification, github
  <2>4. CASE pc' \notin SealedSteps
    BY <2>4
  <2>5. CASE \/ CreateDraft \/ ResumeDraft \/ ReusePublished \/ UploadAsset \/ PublishDraft
             \/ Crash \/ UploadAssetInterrupted \/ RetainOperation \/ RetainFailed
             \/ RecordSuccess \/ \E v \in Versions : StartDelivery(v)
    BY <2>5, <2>4 DEF CreateDraft, ResumeDraft, ReusePublished, UploadAsset, PublishDraft, Crash,
       UploadAssetInterrupted, RetainOperation, RetainFailed, RecordSuccess, StartDelivery,
       Goto, EndRun
  <2>6. CASE \/ DeployStepFails \/ FinalizeFails \/ Admit \/ CreateDeployment \/ CreateRefused
             \/ Upload \/ UploadUncertain \/ RecordInProgress \/ Preserve \/ RetainUpload
             \/ ProbePasses \/ RetainVerified
    BY <2>6, <2>1, <2>4 DEF DeployStepFails, FinalizeFails, Admit, CreateDeployment,
       CreateRefused, Upload, UploadUncertain, RecordInProgress, Preserve, RetainUpload,
       ProbePasses, RetainVerified, KeepFailure, Goto, EndRun
  <2>7. CASE \/ UNCHANGED vars \/ MergeConflicting \/ SwitchUploads \/ Merge
             \/ \E j \in Job : Expire(j)
    BY <2>7, <2>1, <2>4 DEF MergeConflicting, SwitchUploads, Merge, Expire, vars, runner
  <2> QED
    BY <2>2, <2>3, <2>5, <2>6, <2>7
       DEF Next, RunStep, PublishStep, DeployStep, FinalizeStep, Fault, Environment
<1>3. ASSUME NEW d \in deployments'
      PROVE  PublicationReceipt(d, asset'[d.version]) \in receipts'
  <2>1. CASE d \in deployments
    <3>1. PublicationReceipt(d, asset[d.version]) \in receipts
      BY <2>1 DEF EvidenceInv
    <3>2. d.version \in Versions /\ release[d.version] = "published"
      BY <2>1, <3>1 DEF EvidenceInv, PublicationReceipt, TypeOK, Job
    <3> QED
      BY <3>1, <3>2, PublishedStays, NewReceipts
  <2>2. CASE d \notin deployments
    <3>1. CreateDeployment /\ d = job
      BY <1>3, <2>2, NewDeployments DEF CreateDeployment
    <3>2. PublicationReceipt(job, archive) \in receipts /\ archive = asset[job.version]
      BY <3>1 DEF CreateDeployment, ArchiveInv, EvidenceInv, PublishedSteps, SealedSteps,
                  DeploySteps, FinalSteps
    <3> QED
      BY <3>1, <3>2 DEF CreateDeployment
  <2> QED
    BY <2>1, <2>2
<1> QED
  BY <1>1, <1>2, <1>3 DEF EvidenceInv

-----------------------------------------------------------------------------
(***************************************************************************)
(* The order of deployments.                                               *)
(***************************************************************************)
\* Sealed verification is never withdrawn.
LEMMA VerifiedStays ==
  ASSUME TypeOK, [Next]_vars, NEW j, Verified(j)
  PROVE  Verified(j)'
BY NewReceipts DEF Verified

\* Only an admission leads to the deployment, only the deployment to the upload, and
\* meanwhile neither the deployments nor production change.
LEMMA WayToUpload ==
  ASSUME [Next]_vars
  PROVE  /\ pc' = "create" => Admit \/ (pc = "create" /\ UNCHANGED <<job, deployments>>)
         /\ pc' = "upload" =>
              CreateDeployment \/ (pc = "upload" /\ UNCHANGED <<job, deployments, live>>)
<1> USE DEF Goto, EndRun, KeepFailure, DeploySteps
<1>1. CASE RunStep
  BY <1>1 DEF RunStep, PublishStep, DeployStep, FinalizeStep, CreateDraft, ResumeDraft,
     ReusePublished, UploadAsset, PublishDraft, RetainPublication, CreateDeployment,
     CreateRefused, Upload, RecordInProgress, Preserve, RetainOperation, RetainUpload,
     ProbePasses, RetainVerified, RetainFailed, RecordSuccess, Admit, AdmissionState
<1>2. CASE Fault
  BY <1>2 DEF Fault, Crash, DeployStepFails, UploadAssetInterrupted, UploadUncertain,
     FinalizeFails, Expire, runner, github
<1>3. CASE Environment
  BY <1>3 DEF Environment, Merge, MergeConflicting, SwitchUploads, StartDelivery,
     StartVerification, runner, github, host
<1>4. CASE UNCHANGED vars
  BY <1>4 DEF vars, runner, github, host
<1> QED
  BY <1>1, <1>2, <1>3, <1>4 DEF Next

\* A release admitted for deployment is the newest ever deployed, and production is
\* older when its upload starts.
LEMMA AdmittedIsNewest ==
  ASSUME TypeOK, StartedInv, OrderInv, Admit, pc' = "create", NEW d \in deployments
  PROVE  d.version <= job.version
<1>1. selected = job.version
  BY DEF Admit, AdmissionState, KeepFailure
<1> QED
  BY <1>1 DEF StartedInv

\* A deployment is created only over verified older ones, so versions go live in order.
LEMMA OrderInvStep ==
  ASSUME TypeOK, TypeOK', RunInv, StartedInv, OrderInv, UploadInv, [Next]_vars
  PROVE  OrderInv'
<1>1. OneDeploymentPerRelease'
  BY NewDeployments
     DEF OrderInv, OneDeploymentPerRelease, CreateDeployment, CreateAllowed, DeploymentRows
<1>2. OlderDeploymentsVerified'
  <2>1. CASE deployments' = deployments
    BY <2>1, VerifiedStays DEF OrderInv, OlderDeploymentsVerified
  <2>2. CASE CreateDeployment
    <3>1. \A d \in deployments : d.version <= job.version
      BY <2>2 DEF CreateDeployment, OrderInv
    <3>2. job.version \in Nat
      BY <2>2, RunningJob DEF CreateDeployment, Versions
    <3>3. \A d \in deployments : d.version \in Nat
      BY DEF TypeOK, Job, Versions
    <3>4. \A d \in deployments : Verified(d)'
      BY <2>2, VerifiedStays DEF CreateDeployment, CreateAllowed, NoUnverifiedUploads
    <3> QED
      BY <2>2, <3>1, <3>2, <3>3, <3>4 DEF CreateDeployment, OlderDeploymentsVerified
  <2> QED
    BY <2>1, <2>2, NewDeployments
<1>3. ASSUME pc' = "create", NEW d \in deployments' PROVE d.version <= job'.version
  <2>1. CASE Admit
    BY <1>3, <2>1, AdmittedIsNewest DEF Admit, Goto, KeepFailure, github
  <2> QED
    BY <1>3, <2>1, WayToUpload DEF OrderInv
<1>4. ASSUME pc' = "upload"
      PROVE  /\ job' \in deployments'
             /\ live'.version < job'.version
             /\ \A d \in deployments' : d.version <= job'.version
             /\ \A d \in deployments' : d = job' \/ Verified(d)'
  <2>1. CASE CreateDeployment
    <3>1. /\ deployments' = deployments \cup {job}
          /\ job' = job /\ live' = live
      BY <1>4, <2>1 DEF CreateDeployment, Goto, KeepFailure, host
    <3>2. job \in Job /\ job.version \in Nat \ {0}
      BY <2>1, RunningJob DEF CreateDeployment, Versions
    <3>3. \A d \in deployments : /\ d.version <= job.version /\ d.version # job.version
                                /\ Verified(d)'
      BY <2>1, VerifiedStays
         DEF CreateDeployment, CreateAllowed, DeploymentRows, NoUnverifiedUploads, OrderInv
    <3>4. \A d \in deployments : d.version \in Nat
      BY DEF TypeOK, Job, Versions
    <3>5. live.version < job.version
      <4>1. CASE live = NotLive
        BY <3>2, <4>1 DEF NotLive
      <4>2. CASE live # NotLive
        BY <3>2, <3>3, <3>4, <4>2 DEF UploadInv, ProductionIsCanonical
      <4> QED
        BY <4>1, <4>2
    <3> QED
      BY <3>1, <3>2, <3>3, <3>5
  <2>2. CASE pc = "upload" /\ UNCHANGED <<job, deployments, live>>
    BY <2>2, VerifiedStays DEF OrderInv
  <2> QED
    BY <1>4, <2>1, <2>2, WayToUpload
<1> QED
  BY <1>1, <1>2, <1>3, <1>4 DEF OrderInv

-----------------------------------------------------------------------------
(***************************************************************************)
(* Skipped attempts, and what is known to have been uploaded.              *)
(***************************************************************************)
\* Every run arrives at its deployment through the steps before it.
LEMMA WayToDeployment ==
  ASSUME [Next]_vars, pc' \in BeforeDeployment
  PROVE  \/ \E v \in Versions : StartDelivery(v)
         \/ pc \in BeforeDeployment /\ UNCHANGED <<job, operation>>
<1> USE DEF Goto, EndRun, KeepFailure, BeforeDeployment, PublishSteps
<1>1. CASE RunStep
  BY <1>1 DEF RunStep, PublishStep, DeployStep, FinalizeStep, CreateDraft, ResumeDraft,
     ReusePublished, UploadAsset, PublishDraft, RetainPublication, CreateDeployment,
     CreateRefused, Upload, RecordInProgress, Preserve, RetainOperation, RetainUpload,
     ProbePasses, RetainVerified, RetainFailed, RecordSuccess, Admit
<1>2. CASE Fault
  BY <1>2 DEF Fault, Crash, DeployStepFails, UploadAssetInterrupted, UploadUncertain,
     FinalizeFails, Expire, runner
<1>3. CASE Environment
  BY <1>3 DEF Environment, Merge, MergeConflicting, SwitchUploads, StartVerification, runner
<1>4. CASE UNCHANGED vars
  BY <1>4 DEF vars, runner
<1> QED
  BY <1>1, <1>2, <1>3, <1>4 DEF Next

\* A new attempt starts with no deployment and no receipt of its own.
LEMMA FreshAttempt ==
  ASSUME TypeOK, StartedInv, NEW v \in Versions, StartDelivery(v)
  PROVE  job' \notin deployments /\ \A r \in receipts : r.job # job'
<1>1. job'.version = v /\ job'.attempt = attempts[v] + 1
  BY DEF StartDelivery
<1>2. attempts[v] \in Nat
  BY DeliveryAssumption DEF TypeOK
<1>3. job'.attempt > attempts[job'.version]
  BY <1>1, <1>2
<1>4. ASSUME NEW j \in Job, j = job' PROVE ~(j.attempt <= attempts[j.version])
  BY <1>1, <1>2, <1>4
<1> QED
  BY <1>4 DEF StartedInv, TypeOK, Receipt

\* What a run records as skipped or failed changes only where the run decides it.
LEMMA OperationChanges ==
  ASSUME [Next]_vars
  PROVE  \/ operation' = "none"
         \/ operation' = "failed"
         \/ Admit
         \/ CreateDeployment
         \/ UNCHANGED <<job, operation, deployments>>
         \/ pc = "idle" /\ UNCHANGED operation
<1> USE DEF Goto, EndRun, KeepFailure
<1>1. CASE RunStep
  BY <1>1 DEF RunStep, PublishStep, DeployStep, FinalizeStep, CreateDraft, ResumeDraft,
     ReusePublished, UploadAsset, PublishDraft, RetainPublication,
     CreateRefused, Upload, RecordInProgress, Preserve, RetainOperation, RetainUpload,
     ProbePasses, RetainVerified, RetainFailed, RecordSuccess, github
<1>2. CASE Fault
  BY <1>2 DEF Fault, Crash, DeployStepFails, UploadAssetInterrupted, UploadUncertain,
     FinalizeFails, Expire, runner, github
<1>3. CASE Environment
  BY <1>3 DEF Environment, Merge, MergeConflicting, SwitchUploads, StartDelivery,
     StartVerification, runner, github
<1>4. CASE UNCHANGED vars
  BY <1>4 DEF vars, runner, github
<1> QED
  BY <1>1, <1>2, <1>3, <1>4 DEF Next

\* Until the upload a run has recorded no operation.
LEMMA OperationClear ==
  ASSUME [Next]_vars, pc' \in {"idle", "upload"}
  PROVE  \/ operation' = "none"
         \/ pc = "create" /\ operation' = operation
         \/ pc \in {"idle", "upload"} /\ operation' = operation
<1> USE DEF Goto, EndRun, KeepFailure
<1>1. CASE RunStep
  BY <1>1 DEF RunStep, PublishStep, DeployStep, FinalizeStep, CreateDraft, ResumeDraft,
     ReusePublished, UploadAsset, PublishDraft, RetainPublication, Admit, AdmissionState,
     CreateDeployment, CreateRefused, Upload, RecordInProgress, Preserve, RetainOperation,
     RetainUpload, ProbePasses, RetainVerified, RetainFailed, RecordSuccess
<1>2. CASE Fault
  BY <1>2 DEF Fault, Crash, DeployStepFails, UploadAssetInterrupted, UploadUncertain,
     FinalizeFails, Expire, runner
<1>3. CASE Environment
  BY <1>3 DEF Environment, Merge, MergeConflicting, SwitchUploads, StartDelivery,
     StartVerification, runner
<1>4. CASE UNCHANGED vars
  BY <1>4 DEF vars, runner
<1> QED
  BY <1>1, <1>2, <1>3, <1>4 DEF Next

\* An attempt that recorded a skip has no deployment and never gets one.
LEMMA SkipInvStep ==
  ASSUME TypeOK, TypeOK', RunInv, StartedInv, SkipInv, [Next]_vars
  PROVE  SkipInv'
<1> USE DEF SkipInv
<1>1. pc' \in {"idle", "upload"} \cup BeforeDeployment => operation' = "none"
  <2>1. CASE pc' \in {"idle", "upload"}
    BY <2>1, OperationClear DEF BeforeDeployment
  <2>2. CASE pc' \in BeforeDeployment
    BY <2>2, WayToDeployment DEF StartDelivery
  <2> QED
    BY <2>1, <2>2
<1>2. ASSUME pc' \in BeforeDeployment
      PROVE  /\ job' \notin deployments'
             /\ \A r \in receipts' :
                  r.job = job' => r.state \notin {"superseded", "deployment_paused"}
  <2>1. CASE \E v \in Versions : StartDelivery(v)
    <3>1. UNCHANGED <<deployments, receipts>>
      BY <2>1 DEF StartDelivery
    <3> QED
      BY <2>1, <3>1, FreshAttempt
  <2>2. CASE pc \in BeforeDeployment /\ UNCHANGED <<job, operation>>
    <3>1. deployments' = deployments
      BY <1>2, <2>2, NewDeployments
         DEF CreateDeployment, Goto, KeepFailure, BeforeDeployment, PublishSteps
    <3>2. \A r \in receipts' \ receipts : r.state \notin {"superseded", "deployment_paused"}
      BY <2>2, NewReceipts
    <3> QED
      BY <2>2, <3>1, <3>2
  <2> QED
    BY <1>2, <2>1, <2>2, WayToDeployment
<1>3. operation' \in {"superseded", "deployment_paused"} => job' \notin deployments'
  <2>1. CASE Admit
    BY <2>1 DEF Admit, Goto, KeepFailure, BeforeDeployment, github
  <2>2. CASE CreateDeployment
    BY <2>2 DEF CreateDeployment, Goto, KeepFailure, BeforeDeployment
  <2>3. CASE pc = "idle" /\ UNCHANGED operation
    BY <2>3
  <2> QED
    BY <2>1, <2>2, <2>3, OperationChanges
<1>4. SkippedWasNotDeployed'
  <2> SUFFICES ASSUME NEW r \in receipts', r.state \in {"superseded", "deployment_paused"}
               PROVE  r.job \notin deployments'
    BY DEF SkippedWasNotDeployed
  <2>1. CASE r \in receipts
    <3>1. r.job \notin deployments
      BY <2>1 DEF SkippedWasNotDeployed
    <3>2. CASE CreateDeployment
      BY <2>1, <3>1, <3>2 DEF CreateDeployment, BeforeDeployment
    <3> QED
      BY <3>1, <3>2, NewDeployments
  <2>2. CASE r \notin receipts
    <3>1. r.job = job /\ r.state = operation
      BY <2>2, NewReceipts
    <3>2. ~CreateDeployment
      BY <3>1 DEF CreateDeployment, BeforeDeployment
    <3> QED
      BY <3>1, <3>2, NewDeployments
  <2> QED
    BY <2>1, <2>2
<1> QED
  BY <1>1, <1>2, <1>3, <1>4

\* Only an upload changes what production serves.
LEMMA LiveChanges ==
  ASSUME [Next]_vars
  PROVE  live' = live \/ (pc = "upload" /\ live' = [version |-> job.version, archive |-> archive])
<1>1. UNCHANGED host => live' = live
  BY DEF host
<1> QED
  BY <1>1 DEF Next, RunStep, PublishStep, DeployStep, FinalizeStep, Fault, Environment, vars,
     CreateDraft, ResumeDraft, ReusePublished, UploadAsset, PublishDraft, RetainPublication,
     Admit, CreateDeployment, CreateRefused, Upload, Serve, RecordInProgress, Preserve,
     RetainOperation, RetainUpload, ProbePasses, RetainVerified, RetainFailed, RecordSuccess,
     Crash, DeployStepFails, UploadAssetInterrupted, UploadUncertain, FinalizeFails, Expire,
     Merge, MergeConflicting, SwitchUploads, StartDelivery, StartVerification

\* A retained report comes from the disk of the run that preserves it.
LEMMA RetainedChanges ==
  ASSUME TypeOK, [Next]_vars, NEW j \in Job, retained'[j] = "ok"
  PROVE  retained[j] = "ok" \/ (j = job /\ disk = "ok")
<1>1. UNCHANGED host => retained' = retained
  BY DEF host
<1>2. CASE Preserve
  BY <1>2 DEF Preserve, TypeOK
<1>3. CASE \E k \in Job : Expire(k)
  BY <1>3 DEF Expire, TypeOK
<1>4. CASE ~(Preserve \/ \E k \in Job : Expire(k))
  BY <1>1, <1>4 DEF Next, RunStep, PublishStep, DeployStep, FinalizeStep, Fault, Environment,
     vars, CreateDraft, ResumeDraft, ReusePublished, UploadAsset, PublishDraft,
     RetainPublication, Admit, CreateDeployment, CreateRefused, Upload, RecordInProgress,
     RetainOperation, RetainUpload, ProbePasses, RetainVerified, RetainFailed, RecordSuccess,
     Crash, DeployStepFails, UploadAssetInterrupted, UploadUncertain, FinalizeFails, Merge,
     MergeConflicting, SwitchUploads, StartDelivery, StartVerification
<1> QED
  BY <1>2, <1>3, <1>4

\* The disk holds a report only after an upload, until the run ends.
LEMMA DiskInvStep ==
  ASSUME SkipInv, UploadInv, [Next]_vars
  PROVE  /\ disk' # "none" => pc' \in {"inProgress", "preserve", "retainOperation"} \cup UploadedSteps
         /\ pc' = "preserve" /\ operation' = "none" => disk' = "ok"
         /\ pc' = "inProgress" => operation' = "none" /\ disk' = "ok"
<1> USE DEF UploadInv, SkipInv, UploadedSteps, Goto, EndRun, KeepFailure, DeploySteps
<1>1. CASE PublishStep
  BY <1>1 DEF PublishStep, CreateDraft, ResumeDraft, ReusePublished, UploadAsset, PublishDraft,
     RetainPublication
<1>2. CASE DeployStep
  BY <1>2 DEF DeployStep, Admit, AdmissionState, CreateDeployment, CreateRefused, Upload,
     RecordInProgress, Preserve
<1>3. CASE FinalizeStep
  BY <1>3 DEF FinalizeStep, RetainOperation, RetainUpload, ProbePasses, RetainVerified,
     RetainFailed, RecordSuccess
<1>4. CASE Fault
  BY <1>4 DEF Fault, Crash, DeployStepFails, UploadAssetInterrupted, UploadUncertain,
     FinalizeFails, Expire, runner
<1>5. CASE Environment
  BY <1>5 DEF Environment, Merge, MergeConflicting, SwitchUploads, StartDelivery,
     StartVerification, runner
<1>6. CASE UNCHANGED vars
  BY <1>6 DEF vars, runner
<1> QED
  BY <1>1, <1>2, <1>3, <1>4, <1>5, <1>6 DEF Next, RunStep

\* The run's own knowledge of its upload comes from the upload itself or from what
\* an earlier run retained of it.
LEMMA RunKnowsUpload ==
  ASSUME UploadInv, SkipInv, RunInv, [Next]_vars,
         NEW j \in Job, job' = j, disk' = "ok" \/ pc' \in UploadedSteps
  PROVE  Uploaded(j) \/ (Upload /\ j = job)
<1> USE DEF UploadInv, SkipInv, UploadedSteps, Uploaded, Goto, EndRun, KeepFailure, DeploySteps
<1>0. j # NoJob
  BY DeliveryAssumption DEF Job, NoJob, Versions
<1>1. CASE PublishStep
  BY <1>0, <1>1 DEF PublishStep, CreateDraft, ResumeDraft, ReusePublished, UploadAsset,
     PublishDraft, RetainPublication
<1>2. CASE DeployStep
  BY <1>2 DEF DeployStep, Admit, CreateDeployment, CreateRefused, Upload, RecordInProgress,
     Preserve
<1>3. CASE FinalizeStep
  BY <1>0, <1>3 DEF FinalizeStep, RetainOperation, RetainUpload, ProbePasses, RetainVerified,
     RetainFailed, RecordSuccess
<1>4. CASE Fault
  BY <1>0, <1>4 DEF Fault, Crash, DeployStepFails, UploadAssetInterrupted, UploadUncertain,
     FinalizeFails, Expire, runner
<1>5. CASE \E k \in Job : StartVerification(k)
  BY <1>5 DEF StartVerification
<1>6. CASE \/ UNCHANGED vars \/ Merge \/ MergeConflicting \/ SwitchUploads
           \/ \E v \in Versions : StartDelivery(v)
  BY <1>6 DEF Merge, MergeConflicting, SwitchUploads, StartDelivery, vars, runner
<1> QED
  BY <1>1, <1>2, <1>3, <1>4, <1>5, <1>6 DEF Next, RunStep, Environment

\* What is known to be uploaded was known before, or is uploaded now.
LEMMA UploadedChanges ==
  ASSUME TypeOK, RunInv, SkipInv, UploadInv, [Next]_vars, NEW j \in Job, Uploaded(j)'
  PROVE  Uploaded(j) \/ (Upload /\ j = job)
<1>1. CASE UploadRetained(j)'
  BY <1>1, NewReceipts DEF UploadRetained, Uploaded
<1>2. CASE retained'[j] = "ok"
  BY <1>2, RetainedChanges DEF Uploaded
<1>3. CASE job' = j /\ (disk' = "ok" \/ pc' \in UploadedSteps)
  BY <1>3, RunKnowsUpload
<1> QED
  BY <1>1, <1>2, <1>3 DEF Uploaded

\* Whoever is known to have uploaded owns a deployment that reached production, and
\* production serves a published archive.
LEMMA UploadInvStep ==
  ASSUME TypeOK, TypeOK', RunInv, ArchiveInv, EvidenceInv, OrderInv, SkipInv, UploadInv,
         [Next]_vars
  PROVE  UploadInv'
<1>1. deployments \subseteq deployments'
  BY NewDeployments DEF CreateDeployment
<1>2. live.version \in Nat /\ live'.version \in Nat /\ live.version <= live'.version
  <2>1. live.version \in Nat /\ live'.version \in Nat
    BY DeliveryAssumption DEF TypeOK
  <2> QED
    BY <2>1, LiveChanges DEF OrderInv
<1>3. ASSUME NEW j \in Job, Uploaded(j)'
      PROVE  j \in deployments' /\ j.version <= live'.version
  <2>1. Uploaded(j) \/ (Upload /\ j = job)
    BY <1>3, UploadedChanges
  <2>2. j.version \in Nat
    BY DeliveryAssumption DEF Job, Versions
  <2>3. CASE Uploaded(j)
    BY <1>1, <1>2, <2>2, <2>3 DEF UploadInv
  <2>4. CASE Upload /\ j = job
    BY <1>1, <2>2, <2>4 DEF Upload, Serve, OrderInv
  <2> QED
    BY <2>1, <2>3, <2>4
<1>4. ProductionIsCanonical'
  <2>1. CASE live' = live
    <3> SUFFICES ASSUME live # NotLive
                 PROVE  /\ \E d \in deployments' : d.version = live.version
                        /\ release'[live.version] = "published"
                        /\ live.archive = asset'[live.version]
      BY <2>1 DEF ProductionIsCanonical, NotLive
    <3>1. PICK d \in deployments : d.version = live.version
      BY DEF UploadInv, ProductionIsCanonical
    <3>2. live.version \in Versions
      BY <3>1 DEF TypeOK, Job
    <3> QED
      BY <1>1, <3>1, <3>2, PublishedStays DEF UploadInv, ProductionIsCanonical
  <2>2. CASE pc = "upload" /\ live' = [version |-> job.version, archive |-> archive]
    <3>1. job \in deployments' /\ job.version \in Versions
      BY <1>1, <2>2, RunningJob DEF OrderInv
    <3>2. release[job.version] = "published" /\ archive = asset[job.version]
      BY <2>2 DEF ArchiveInv, PublishedSteps, DeploySteps
    <3>3. release'[job.version] = "published" /\ archive = asset'[job.version]
      BY <3>1, <3>2, PublishedStays
    <3> QED
      BY <2>2, <3>1, <3>3 DEF ProductionIsCanonical
  <2> QED
    BY <2>1, <2>2, LiveChanges
<1> QED
  BY <1>3, <1>4, DiskInvStep DEF UploadInv

\* While the upload is being recorded, no receipt is added.
LEMMA InProgressKeepsReceipts ==
  ASSUME [Next]_vars, pc' = "inProgress"
  PROVE  Upload \/ (pc = "inProgress" /\ UNCHANGED <<job, receipts>>)
<1> USE DEF Goto, EndRun, KeepFailure
<1>1. CASE RunStep
  BY <1>1 DEF RunStep, PublishStep, DeployStep, FinalizeStep, CreateDraft, ResumeDraft,
     ReusePublished, UploadAsset, PublishDraft, RetainPublication, CreateDeployment,
     CreateRefused, Admit, AdmissionState, RecordInProgress, Preserve, RetainOperation,
     RetainUpload, ProbePasses, RetainVerified, RetainFailed, RecordSuccess
<1>2. CASE Fault
  BY <1>2 DEF Fault, Crash, DeployStepFails, UploadAssetInterrupted, UploadUncertain,
     FinalizeFails, Expire, runner, github
<1>3. CASE Environment
  BY <1>3 DEF Environment, Merge, MergeConflicting, SwitchUploads, StartDelivery,
     StartVerification, runner, github
<1>4. CASE UNCHANGED vars
  BY <1>4 DEF vars, runner, github
<1> QED
  BY <1>1, <1>2, <1>3, <1>4 DEF Next

\* Success is only recorded over a sealed verification.
LEMMA StatusInvStep ==
  ASSUME TypeOK, RunInv, OrderInv, UploadInv, StatusInv, [Next]_vars
  PROVE  StatusInv'
<1>0. ASSUME pc' = "inProgress" PROVE ~Verified(job)'
  <2>1. CASE Upload
    <3>0. job \in Job
      BY <2>1, RunningJob DEF Upload
    <3>4. live.version \in Nat
      BY DeliveryAssumption DEF TypeOK
    <3>5. job.version \in Nat
      BY <2>1, RunningJob, DeliveryAssumption DEF Upload
    <3>1. job.version \in Nat /\ live.version \in Nat /\ job \in Job
      BY <3>0, <3>4, <3>5
    <3>2. ~Verified(job)
      BY <2>1, <3>1 DEF Upload, OrderInv, UploadInv, Uploaded, UploadRetained, Verified
    <3>3. job' = job /\ receipts' = receipts
      BY <2>1 DEF Upload, github
    <3> QED
      BY <3>2, <3>3 DEF Verified
  <2>2. CASE pc = "inProgress" /\ UNCHANGED <<job, receipts>>
    BY <2>2 DEF StatusInv, Verified
  <2> QED
    BY <1>0, <2>1, <2>2, InProgressKeepsReceipts
<1> SUFFICES ASSUME NEW d \in Job, status'[d] = "success"
             PROVE  Verified(d)'
  BY <1>0 DEF StatusInv
<1>1. UNCHANGED github => status' = status
  BY DEF github
<1>2. CASE status[d] = "success"
  BY <1>2, VerifiedStays DEF StatusInv
<1>3. CASE status[d] # "success"
  <2>1. CASE RecordInProgress
    BY <1>3, <2>1 DEF RecordInProgress, TypeOK
  <2>2. CASE RecordSuccess
    BY <1>3, <2>2, VerifiedStays DEF RecordSuccess, TypeOK
  <2> QED
    BY <1>1, <1>3, <2>1, <2>2 DEF Next, RunStep, PublishStep, DeployStep, FinalizeStep, Fault,
     Environment, vars, CreateDraft, ResumeDraft, ReusePublished, UploadAsset, PublishDraft,
     RetainPublication, Admit, CreateDeployment, CreateRefused, Upload, Preserve,
     RetainOperation, RetainUpload, ProbePasses, RetainVerified, RetainFailed, Crash,
     DeployStepFails, UploadAssetInterrupted, UploadUncertain, FinalizeFails, Expire, Merge,
     MergeConflicting, SwitchUploads, StartDelivery, StartVerification
<1> QED
  BY <1>2, <1>3

\* A recorded success is not taken back: an upload that ran again would do so, but
\* a verified release is not uploaded again.
LEMMA SuccessStays ==
  ASSUME IInv, [Next]_vars, NEW d \in Job, status[d] = "success"
  PROVE  status'[d] = "success"
<1>1. UNCHANGED github => status' = status
  BY DEF github
<1>2. CASE RecordInProgress
  <2>1. d # job
    BY <1>2 DEF RecordInProgress, IInv, StatusInv
  <2> QED
    BY <1>2, <2>1 DEF RecordInProgress, IInv, TypeOK
<1>3. CASE RecordSuccess
  BY <1>3 DEF RecordSuccess, IInv, TypeOK
<1> QED
  BY <1>1, <1>2, <1>3 DEF Next, RunStep, PublishStep, DeployStep, FinalizeStep, Fault,
   Environment, vars, CreateDraft, ResumeDraft, ReusePublished, UploadAsset, PublishDraft,
   RetainPublication, Admit, CreateDeployment, CreateRefused, Upload, Preserve,
   RetainOperation, RetainUpload, ProbePasses, RetainVerified, RetainFailed, Crash,
   DeployStepFails, UploadAssetInterrupted, UploadUncertain, FinalizeFails, Expire, Merge,
   MergeConflicting, SwitchUploads, StartDelivery, StartVerification

\* Only a successful upload is timed.
LEMMA TimesChange ==
  ASSUME [Next]_vars
  PROVE  Upload \/ UNCHANGED <<uploadedAt, clock>>
<1>1. UNCHANGED host => UNCHANGED <<uploadedAt, clock>>
  BY DEF host
<1> QED
  BY <1>1 DEF Next, RunStep, PublishStep, DeployStep, FinalizeStep, Fault, Environment, vars,
     CreateDraft, ResumeDraft, ReusePublished, UploadAsset, PublishDraft, RetainPublication,
     Admit, CreateDeployment, CreateRefused, RecordInProgress, Preserve, RetainOperation,
     RetainUpload, ProbePasses, RetainVerified, RetainFailed, RecordSuccess, Crash,
     DeployStepFails, UploadAssetInterrupted, UploadUncertain, FinalizeFails, Expire, Merge,
     MergeConflicting, SwitchUploads, StartDelivery, StartVerification

\* Uploads are timed in the order of their versions.
LEMMA ClockInvStep ==
  ASSUME TypeOK, TypeOK', RunInv, OrderInv, SkipInv, UploadInv, ClockInv, [Next]_vars
  PROVE  ClockInv'
<1>1. live.version \in Nat /\ live'.version \in Nat /\ live.version <= live'.version
  <2>1. live.version \in Nat /\ live'.version \in Nat
    BY DeliveryAssumption DEF TypeOK
  <2> QED
    BY <2>1, LiveChanges DEF OrderInv
<1>2. clock \in Nat /\ \A j \in Job : uploadedAt[j] \in Nat /\ j.version \in Nat
  <2>1. \A j \in Job : j.version \in Nat
    BY DeliveryAssumption DEF Job, Versions
  <2> QED
    BY <2>1 DEF TypeOK
<1>3. CASE UNCHANGED <<uploadedAt, clock>>
  <2>1. ASSUME NEW j \in Job, Uploaded(j)' PROVE uploadedAt[j] # 0
    <3>1. CASE Upload
      BY <1>2, <1>3, <3>1 DEF Upload
    <3> QED
      BY <2>1, <3>1, UploadedChanges DEF ClockInv
  <2>2. ASSUME NEW j \in Job, uploadedAt[j] # 0 PROVE j.version <= live'.version
    <3>1. j.version <= live.version
      BY <2>2 DEF ClockInv
    <3> QED
      BY <1>1, <1>2, <3>1
  <2> QED
    BY <1>3, <2>1, <2>2 DEF ClockInv
<1>4. CASE Upload
  <2>1. job \in Job /\ live.version < job.version
    BY <1>4, RunningJob DEF Upload, OrderInv
  <2>2. /\ uploadedAt'[job] = clock + 1 /\ clock' = clock + 1
        /\ \A j \in Job : j # job => uploadedAt'[j] = uploadedAt[j]
        /\ live'.version = job.version
    BY <1>4, <2>1 DEF Upload, Serve, TypeOK
  <2>3. \A j \in Job : uploadedAt[j] # 0 => j # job /\ j.version < job.version
    BY <1>1, <1>2, <2>1 DEF ClockInv
  <2>4. \A j \in Job : Uploaded(j)' => uploadedAt'[j] # 0
    BY <1>2, <2>1, <2>2, UploadedChanges DEF ClockInv
  <2>5. \A j \in Job : uploadedAt[j] <= clock
    BY DEF ClockInv
  <2>6. ASSUME NEW j \in Job
        PROVE  uploadedAt'[j] <= clock' /\ (uploadedAt'[j] # 0 => j.version <= live'.version)
    BY <1>2, <2>1, <2>2, <2>3, <2>5
  <2>7. ASSUME NEW j \in Job, NEW k \in Job, uploadedAt'[j] # 0, uploadedAt'[k] # 0,
               j.version < k.version
        PROVE  uploadedAt'[j] < uploadedAt'[k]
    <3>1. CASE j = job
      BY <1>2, <2>1, <2>2, <2>3, <2>7, <3>1
    <3>2. CASE j # job /\ k = job
      BY <1>2, <2>1, <2>2, <2>5, <3>2
    <3>3. CASE j # job /\ k # job
      BY <2>2, <2>7, <3>3 DEF ClockInv
    <3> QED
      BY <3>1, <3>2, <3>3
  <2> QED
    BY <2>4, <2>6, <2>7 DEF ClockInv
<1> QED
  BY <1>3, <1>4, TimesChange

-----------------------------------------------------------------------------
(***************************************************************************)
(* The invariant and what follows from it.                                 *)
(***************************************************************************)
\* Nothing has been merged, published or uploaded when a behavior starts.
LEMMA InitIInv == Init => IInv
<1> SUFFICES ASSUME Init PROVE IInv
  OBVIOUS
<1> USE DeliveryAssumption DEF Init
<1>1. TypeOK
  <2>1. conflict \in BOOLEAN /\ enabled \in BOOLEAN
    BY Zenon
  <2>2. live \in [version : 0..Last, archive : 0..MaxAttempts]
    BY DEF NotLive
  <2>3. /\ attempts \in [Versions -> 0..MaxAttempts] /\ asset \in [Versions -> 0..MaxAttempts]
        /\ release \in [Versions -> {"none", "draft", "published"}]
        /\ selected \in 0..Last /\ archive \in 0..MaxAttempts
        /\ disturbances \in 0..MaxDisturbances
    OBVIOUS
  <2> QED
    BY <2>1, <2>2, <2>3 DEF TypeOK, Steps
<1>2. RunInv /\ StartedInv
  BY DEF RunInv, StartedInv
<1>3. ArchiveInv /\ EvidenceInv
  BY DEF ArchiveInv, EvidenceInv, PublishedSteps, SealedSteps, DeploySteps, FinalSteps
<1>4. OrderInv /\ SkipInv
  BY DEF OrderInv, SkipInv, OneDeploymentPerRelease, OlderDeploymentsVerified,
         SkippedWasNotDeployed, BeforeDeployment, PublishSteps
<1>5. \A j \in Job : ~Uploaded(j)
  BY DEF Uploaded, UploadRetained, UploadedSteps
<1>6. UploadInv /\ StatusInv
  BY <1>5 DEF UploadInv, StatusInv, ProductionIsCanonical
<1>7. ClockInv
  BY <1>5 DEF ClockInv
<1> QED
  BY <1>1, <1>2, <1>3, <1>4, <1>6, <1>7 DEF IInv

\* Every step preserves the inductive invariant.
LEMMA IInvStep == IInv /\ [Next]_vars => IInv'
<1> SUFFICES ASSUME IInv, [Next]_vars PROVE IInv'
  OBVIOUS
<1> USE DEF IInv
<1>1. TypeOK'
  BY TypeStep
<1>2. RunInv' /\ StartedInv'
  BY <1>1, RunInvStep, StartedInvStep
<1>3. ArchiveInv' /\ EvidenceInv'
  BY ArchiveInvStep, EvidenceInvStep
<1>4. OrderInv' /\ SkipInv'
  BY <1>1, OrderInvStep, SkipInvStep
<1>5. UploadInv' /\ StatusInv' /\ ClockInv'
  BY <1>1, UploadInvStep, StatusInvStep, ClockInvStep
<1> QED
  BY <1>1, <1>2, <1>3, <1>4, <1>5

\* The inductive invariant holds in every state of every behavior: what the run
\* holding the lock has established at each of its steps stays true.
THEOREM InductiveInvariant == Spec => []IInv
<1> QED
  BY InitIInv, IInvStep, PTL DEF Spec

\* No step of the delivery leaves the state space the model describes.
THEOREM TypeCorrect == Spec => []TypeOK
<1>1. IInv => TypeOK
  BY DEF IInv
<1> QED
  BY <1>1, InductiveInvariant, PTL

\* However often a run is repeated, a release is deployed at most once
\* (admit_upload and create_deployment).
THEOREM DeployedOnce == Spec => []OneDeploymentPerRelease
<1>1. IInv => OneDeploymentPerRelease
  BY DEF IInv, OrderInv
<1> QED
  BY <1>1, InductiveInvariant, PTL

\* Every deployment follows publication and the sealed receipt of its own attempt
\* (require_publication_evidence).
THEOREM EvidenceFirst == Spec => []EvidencePrecedesDeployment
<1>1. IInv => EvidencePrecedesDeployment
  BY DEF IInv, EvidenceInv, EvidencePrecedesDeployment, PublicationReceipt
<1> QED
  BY <1>1, InductiveInvariant, PTL

\* A release is deployed at most once, and only on the evidence of the deploying attempt
\* (admit_upload, require_publication_evidence).
THEOREM DeployedOnceAndFirst == Spec => []DeployedOnceOnEvidence
<1>1. OneDeploymentPerRelease /\ EvidencePrecedesDeployment => DeployedOnceOnEvidence
  BY DEF DeployedOnceOnEvidence
<1> QED
  BY <1>1, DeployedOnce, EvidenceFirst, PTL

\* An unverified deployment holds back every newer release
\* (require_no_unverified_uploads).
THEOREM UnverifiedHoldsBack == Spec => []OlderDeploymentsVerified
<1>1. IInv => OlderDeploymentsVerified
  BY DEF IInv, OrderInv
<1> QED
  BY <1>1, InductiveInvariant, PTL

\* Production serves the one published archive of a deployed release, never another
\* build of it (publish_candidate).
THEOREM CanonicalProduction == Spec => []ProductionIsCanonical
<1>1. IInv => ProductionIsCanonical
  BY DEF IInv, UploadInv
<1> QED
  BY <1>1, InductiveInvariant, PTL

\* A successful deployment was verified and did reach production (deployment-status).
THEOREM SuccessImpliesVerified == Spec => []SuccessIsVerified
<1>1. IInv => SuccessIsVerified
  BY DEF IInv, StatusInv, UploadInv, Uploaded, UploadRetained, Verified, SuccessIsVerified
<1> QED
  BY <1>1, InductiveInvariant, PTL

\* An attempt recorded as skipped never deploys (admit_upload).
THEOREM SkippedNeverDeploys == Spec => []SkippedWasNotDeployed
<1>1. IInv => SkippedWasNotDeployed
  BY DEF IInv, SkipInv
<1> QED
  BY <1>1, InductiveInvariant, PTL

\* No interleaving of runs, reruns and recoveries replaces production with an older
\* release (promotion_allowed).
THEOREM NeverRegresses == Spec => ProductionNeverRegresses
<1>1. IInv /\ [Next]_vars => [live'.version >= live.version]_live
  <2> SUFFICES ASSUME IInv, [Next]_vars, live' # live
               PROVE  live'.version >= live.version
    BY Zenon
  <2>1. pc = "upload" /\ live' = [version |-> job.version, archive |-> archive]
    BY LiveChanges
  <2>2. job.version \in Nat /\ live.version \in Nat
    BY <2>1, RunningJob, DeliveryAssumption DEF IInv, TypeOK, Versions
  <2> QED
    BY <2>1, <2>2 DEF IInv, OrderInv
<1> QED
  BY <1>1, InductiveInvariant, PTL DEF Spec, ProductionNeverRegresses

\* No attempt changes the bytes of a published release (publish_candidate).
THEOREM PublishedImmutable == Spec => PublishedIsImmutable
<1>1. IInv /\ [Next]_vars =>
        [\A v \in Versions : release[v] = "published" =>
            release'[v] = "published" /\ asset'[v] = asset[v]]_vars
  BY PublishedStays DEF IInv
<1> QED
  BY <1>1, InductiveInvariant, PTL DEF Spec, PublishedIsImmutable

\* A success that is posted late never makes an older release the newest verified
\* one (latest_production_receipt).
THEOREM BaselineAdvances == Spec => BaselineNeverRegresses
<1>1. IInv /\ [Next]_vars =>
        [\A d \in LatestProduction : \A e \in LatestProduction' : d.version <= e.version]_vars
  <2> SUFFICES ASSUME IInv, IInv', [Next]_vars,
                      NEW d \in LatestProduction, NEW e \in LatestProduction'
               PROVE  d.version <= e.version
    BY IInvStep, Zenon
  <2>1. d \in Successful'
    <3>1. d \in deployments' /\ d \in Job
      BY NewDeployments DEF IInv, TypeOK, LatestProduction, Successful, CreateDeployment
    <3>2. status'[d] = "success"
      BY <3>1, SuccessStays DEF IInv, LatestProduction, Successful
    <3> QED
      BY <3>1, <3>2 DEF Successful
  <2>2. uploadedAt'[d] <= uploadedAt'[e] /\ e \in Successful'
    BY <2>1 DEF LatestProduction
  <2>3. d \in Job /\ e \in Job
    BY <2>1, <2>2 DEF Successful, IInv, TypeOK
  <2>4. uploadedAt'[d] # 0 /\ uploadedAt'[e] # 0
    BY <2>1, <2>2, <2>3 DEF Successful, IInv, StatusInv, ClockInv, Uploaded, UploadRetained,
                            Verified
  <2>5. d.version \in Nat /\ e.version \in Nat
    BY <2>3, DeliveryAssumption DEF Job, Versions
  <2>6. uploadedAt'[d] \in Nat /\ uploadedAt'[e] \in Nat
    BY <2>3 DEF IInv, TypeOK
  <2>7. ~(e.version < d.version)
    BY <2>2, <2>3, <2>4, <2>6 DEF IInv, ClockInv
  <2> QED
    BY <2>5, <2>7
<1> QED
  BY <1>1, InductiveInvariant, PTL DEF Spec, BaselineNeverRegresses

\* Production and its baseline only move to newer releases, for any number of
\* releases, attempts and disturbances.
THEOREM NothingEverRegresses == Spec => NothingRegresses
BY NeverRegresses, BaselineAdvances DEF NothingRegresses

-----------------------------------------------------------------------------
(***************************************************************************)
(* The delivery implements its contract.                                   *)
(***************************************************************************)
VerifiedVersion(v) == \E j \in deployments : j.version = v /\ Verified(j)

\* Verification is always that of a deployment.
LEMMA VerifiedIsDeployed ==
  ASSUME IInv, NEW j, Verified(j)
  PROVE  j \in Job /\ j \in deployments /\ j.version <= live.version
<1>1. j \in Job
  BY DEF IInv, TypeOK, Verified, Receipt
<1>2. Uploaded(j)
  BY <1>1 DEF Verified, Uploaded, UploadRetained
<1> QED
  BY <1>1, <1>2 DEF IInv, UploadInv

\* Only RetainVerified verifies a version.
LEMMA VerifiedVersionUnchanged ==
  ASSUME IInv, [Next]_vars, ~RetainVerified, NEW v
  PROVE  VerifiedVersion(v)' <=> VerifiedVersion(v)
<1>1. \A r \in receipts' \ receipts : r.state # "verified"
  <2>1. UNCHANGED github => receipts' = receipts
    BY DEF github
  <2>2. CASE RetainPublication
    BY <2>2 DEF RetainPublication, PublicationReceipt
  <2>3. CASE RetainOperation
    BY <2>3 DEF RetainOperation, OperationReceipt, IInv, TypeOK
  <2>4. CASE RetainUpload \/ RetainFailed
    BY <2>4 DEF RetainUpload, RetainFailed, UploadReceipt
  <2> QED
    BY <2>1, <2>2, <2>3, <2>4
       DEF Next, RunStep, PublishStep, DeployStep, FinalizeStep, Fault, Environment, vars,
           CreateDraft, ResumeDraft, ReusePublished, UploadAsset, PublishDraft, Admit,
           CreateDeployment, CreateRefused, Upload, RecordInProgress, Preserve, ProbePasses,
           RecordSuccess, Crash, DeployStepFails, UploadAssetInterrupted, UploadUncertain,
           FinalizeFails, Expire, Merge, MergeConflicting, SwitchUploads, StartDelivery,
           StartVerification
<1>2. \A j : Verified(j)' <=> Verified(j)
  BY <1>1, NewReceipts DEF IInv, Verified
<1>3. \A j : Verified(j) => j \in deployments
  BY VerifiedIsDeployed
<1>4. deployments \subseteq deployments'
  BY NewDeployments DEF IInv, CreateDeployment
<1> QED
  BY <1>2, <1>3, <1>4 DEF VerifiedVersion

\* What decides the stage of a version.
LEMMA StageCases ==
  ASSUME NEW v
  PROVE  /\ VerifiedVersion(v) => StageOf(v) = "verified"
         /\ ~VerifiedVersion(v) /\ live.version = v => StageOf(v) = "live"
         /\ ~VerifiedVersion(v) /\ live.version # v /\ release[v] = "published"
              => StageOf(v) = "published"
         /\ ~VerifiedVersion(v) /\ live.version # v /\ release[v] # "published"
              => StageOf(v) = "unpublished"
BY DEF StageOf, VerifiedVersion

\* The same of the next state.
LEMMA NextStageCases ==
  ASSUME NEW v
  PROVE  /\ VerifiedVersion(v)' => StageOf(v)' = "verified"
         /\ ~VerifiedVersion(v)' /\ live'.version = v => StageOf(v)' = "live"
         /\ ~VerifiedVersion(v)' /\ live'.version # v /\ release'[v] = "published"
              => StageOf(v)' = "published"
         /\ ~VerifiedVersion(v)' /\ live'.version # v /\ release'[v] # "published"
              => StageOf(v)' = "unpublished"
BY DEF StageOf, VerifiedVersion

\* A version whose deciding facts do not change keeps its stage.
LEMMA SameStage ==
  ASSUME NEW v, VerifiedVersion(v)' <=> VerifiedVersion(v),
         live'.version = v <=> live.version = v,
         release'[v] = "published" <=> release[v] = "published"
  PROVE  StageOf(v)' = StageOf(v)
BY StageCases, NextStageCases

\* Publishing a draft is the contract's Publish.
LEMMA PublishDraftImplements ==
  ASSUME IInv, PublishDraft, [Next]_vars, NEW v \in Versions, v = job.version
  PROVE  Contract!Publish(v)
<1>1. /\ release[v] = "draft" /\ release'[v] = "published"
      /\ live' = live
      /\ \A w \in Versions : w # v => release'[w] = release[w]
  BY DEF PublishDraft, IInv, ArchiveInv, TypeOK, host
<1>2. ~VerifiedVersion(v)
  BY <1>1 DEF VerifiedVersion, IInv, EvidenceInv, PublicationReceipt
<1>3. live.version # v
  BY <1>1 DEF IInv, UploadInv, ProductionIsCanonical, NotLive, Versions
<1>4. \A w \in Versions : VerifiedVersion(w)' <=> VerifiedVersion(w)
  BY VerifiedVersionUnchanged DEF PublishDraft, RetainVerified
<1>5. StageOf(v) = "unpublished" /\ StageOf(v)' = "published"
  BY <1>1, <1>2, <1>3, <1>4, StageCases, NextStageCases
<1>6. \A w \in Versions : w # v => StageOf(w)' = StageOf(w)
  BY <1>1, <1>4, SameStage
<1> QED
  BY <1>1, <1>5, <1>6 DEF Contract!Publish

\* An upload that takes effect is the contract's GoLive.
LEMMA UploadImplements ==
  ASSUME IInv, [Next]_vars, pc = "upload", ~RetainVerified, UNCHANGED release,
         live' = [version |-> job.version, archive |-> archive],
         NEW v \in Versions, v = job.version
  PROVE  Contract!GoLive(v)
<1>1. job \in Job /\ v \in Nat /\ v # 0 /\ live.version \in Nat
  <2>1. v \in Nat /\ v # 0 /\ live.version \in Nat
    BY DeliveryAssumption DEF IInv, TypeOK, Versions
  <2> QED
    BY <2>1, RunningJob DEF IInv
<1>2. live.version < v /\ \A d \in deployments : d = job \/ Verified(d)
  BY DEF IInv, OrderInv
<1>3. release[v] = "published" /\ live'.version = v
  BY DEF IInv, ArchiveInv, PublishedSteps, DeploySteps
<1>4. ~VerifiedVersion(v)
  BY <1>1, <1>2, VerifiedIsDeployed DEF VerifiedVersion
<1>5. \A w \in Versions : VerifiedVersion(w)' <=> VerifiedVersion(w)
  BY VerifiedVersionUnchanged
<1>6. \A w \in Versions : live.version = w => VerifiedVersion(w)
  <2> SUFFICES ASSUME live.version \in Versions PROVE VerifiedVersion(live.version)
    OBVIOUS
  <2>1. live # NotLive
    BY DEF NotLive, Versions
  <2>2. PICK d \in deployments : d.version = live.version
    BY <2>1 DEF IInv, UploadInv, ProductionIsCanonical
  <2> QED
    BY <1>1, <1>2, <2>2 DEF VerifiedVersion
<1>7. StageOf(v) = "published" /\ StageOf(v)' = "live"
  BY <1>1, <1>2, <1>3, <1>4, <1>5, StageCases, NextStageCases
<1>8. \A w \in Versions : w # v => StageOf(w)' = StageOf(w)
  BY <1>3, <1>5, <1>6, StageCases, NextStageCases
<1>9. \A w \in Versions : StageOf(w) # "live"
  BY <1>6, StageCases
<1> QED
  BY <1>2, <1>3, <1>7, <1>8, <1>9 DEF Contract!GoLive, Contract!Releases, Versions

\* Retaining the first verification of a release is the contract's Confirm; every
\* newer deployment waited for it, so production still serves that release.
LEMMA RetainVerifiedImplements ==
  ASSUME IInv, [Next]_vars, RetainVerified,
         NEW v \in Versions, NEW j \in Job, j = job, v = j.version, ~VerifiedVersion(v)
  PROVE  Contract!Confirm(v)
<1>1. v \in Nat /\ v # 0 /\ live.version \in Nat
  BY DeliveryAssumption DEF IInv, TypeOK, Versions
<1>2. Uploaded(j)
  BY DEF Uploaded, UploadedSteps, RetainVerified
<1>3. j \in deployments /\ v <= live.version
  BY <1>2 DEF IInv, UploadInv
<1>4. live.version = v
  <2>1. live # NotLive
    BY <1>1, <1>3 DEF NotLive
  <2>2. PICK d \in deployments : d.version = live.version
    BY <2>1 DEF IInv, UploadInv, ProductionIsCanonical
  <2>3. ~Verified(j)
    BY <1>3 DEF VerifiedVersion
  <2>4. ~(v < d.version)
    BY <1>3, <2>2, <2>3 DEF IInv, OrderInv, OlderDeploymentsVerified
  <2> QED
    BY <1>1, <1>3, <2>2, <2>4
<1>5. /\ UNCHANGED <<live, release, deployments>>
      /\ receipts' = receipts \cup {UploadReceipt("verified", j, archive)}
  BY DEF RetainVerified, host
<1>6. Verified(j)' /\ \A k \in Job : k # j => (Verified(k)' <=> Verified(k))
  <2> DEFINE sealed == UploadReceipt("verified", j, archive)
  <2>1. sealed.state = "verified" /\ sealed.job = j /\ sealed.upload
    BY DEF UploadReceipt
  <2> HIDE DEF sealed
  <2>2. receipts' = receipts \cup {sealed}
    BY <1>5 DEF sealed
  <2> QED
    BY <2>1, <2>2, Zenon DEF Verified
<1>7. VerifiedVersion(v)'
  BY <1>3, <1>5, <1>6 DEF VerifiedVersion
<1>8. \A w \in Versions : w # v => (VerifiedVersion(w)' <=> VerifiedVersion(w))
  BY <1>5, <1>6 DEF VerifiedVersion, IInv, TypeOK
<1>9. StageOf(v) = "live" /\ StageOf(v)' = "verified"
  BY <1>4, <1>7, StageCases, NextStageCases
<1>10. \A w \in Versions : w # v => StageOf(w)' = StageOf(w)
  BY <1>5, <1>8, SameStage
<1> QED
  BY <1>4, <1>5, <1>9, <1>10 DEF Contract!Confirm

\* Initial states are initial states of the contract.
LEMMA InitImplements == Init => Contract!ContractInit
<1> SUFFICES ASSUME Init PROVE Contract!ContractInit
  OBVIOUS
<1>1. \A v \in Versions : ~VerifiedVersion(v)
  BY DEF Init, VerifiedVersion
<1>2. live.version = 0 /\ \A v \in Versions : live.version # v /\ release[v] # "published"
  BY DEF Init, NotLive, Versions
<1>3. \A v \in Versions : StageOf(v) = "unpublished"
  BY <1>1, <1>2, StageCases
<1> QED
  BY <1>2, <1>3 DEF Contract!ContractInit, Contract!Releases, Versions

\* Every step is a step of the contract or leaves its state alone.
LEMMA StepImplements ==
  ASSUME IInv, IInv', [Next]_vars
  PROVE  [Contract!ContractNext]_<<[v \in Versions |-> StageOf(v)], live.version>>
<1>1. ASSUME live' = live, \A v \in Versions : StageOf(v)' = StageOf(v)
      PROVE  UNCHANGED <<[v \in Versions |-> StageOf(v)], live.version>>
  BY <1>1
<1>2. CASE live' # live
  <2>1. pc = "upload" /\ live' = [version |-> job.version, archive |-> archive]
    BY <1>2, LiveChanges
  <2>2. UNCHANGED release /\ ~RetainVerified
    BY <2>1, ReleasesUnchanged DEF CreateDraft, UploadAsset, PublishDraft, RetainVerified
  <2>3. job.version \in Versions
    BY <2>1, RunningJob DEF IInv
  <2>4. \E v \in Versions : Contract!GoLive(v)
    BY <2>1, <2>2, <2>3, UploadImplements
  <2> QED
    BY <2>4 DEF Contract!ContractNext, Contract!Releases, Versions
<1>3. CASE live' = live /\ PublishDraft
  <2>1. job.version \in Versions
    BY <1>3, RunningJob DEF IInv, PublishDraft
  <2>2. \E v \in Versions : Contract!Publish(v)
    BY <1>3, <2>1, PublishDraftImplements
  <2> QED
    BY <2>2 DEF Contract!ContractNext, Contract!Releases, Versions
<1>4. CASE live' = live /\ RetainVerified /\ ~VerifiedVersion(job.version)
  <2>1. job \in Job /\ job.version \in Versions
    BY <1>4, RunningJob DEF IInv, RetainVerified
  <2>2. \E v \in Versions : Contract!Confirm(v)
    BY <1>4, <2>1, RetainVerifiedImplements
  <2> QED
    BY <2>2 DEF Contract!ContractNext, Contract!Releases, Versions
<1>5. CASE live' = live /\ RetainVerified /\ VerifiedVersion(job.version)
  <2>1. UNCHANGED <<release, deployments>>
    BY <1>5 DEF RetainVerified
  <2>2. \A r \in receipts' \ receipts : r.job = job
    BY NewReceipts DEF IInv
  <2>3. \A v \in Versions : VerifiedVersion(v)' <=> VerifiedVersion(v)
    <3>1. \A j : Verified(j) => Verified(j)'
      BY VerifiedStays DEF IInv
    <3>2. \A j : Verified(j)' => Verified(j) \/ j = job
      BY <2>2 DEF Verified
    <3> QED
      BY <1>5, <2>1, <3>1, <3>2 DEF VerifiedVersion
  <2> QED
    BY <1>1, <1>5, <2>1, <2>3, SameStage
<1>6. CASE live' = live /\ ~PublishDraft /\ ~RetainVerified
  <2>1. \A v \in Versions : VerifiedVersion(v)' <=> VerifiedVersion(v)
    BY <1>6, VerifiedVersionUnchanged
  <2>2. ASSUME NEW v \in Versions
        PROVE  release'[v] = "published" <=> release[v] = "published"
    <3>1. CASE CreateDraft
      BY <3>1 DEF CreateDraft, IInv, TypeOK
    <3>2. CASE UploadAsset
      BY <3>2 DEF UploadAsset
    <3> QED
      BY <1>6, <3>1, <3>2, ReleasesUnchanged
  <2> QED
    BY <1>1, <1>6, <2>1, <2>2, SameStage
<1> QED
  BY <1>2, <1>3, <1>4, <1>5, <1>6

\* Whatever crashes, retries and late recoveries interleave, the delivery publishes,
\* deploys and confirms releases as the contract allows.
THEOREM DeliveryImplementsContract == Spec => ImplementsContract
<1>1. IInv /\ IInv' /\ [Next]_vars =>
        [Contract!ContractNext]_<<[v \in Versions |-> StageOf(v)], live.version>>
  BY StepImplements
<1> QED
  BY <1>1, InitImplements, InductiveInvariant, PTL
     DEF Spec, ImplementsContract, Contract!ContractSpec
=============================================================================
