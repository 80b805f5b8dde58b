------------------------------- MODULE UpdatesGate -------------------------------
(***************************************************************************)
(* The gate before an upload: what production serves is read and matched    *)
(* with the last verified upload, and a site that changes what it tells of  *)
(* an election needs a new entry in that election's updates                 *)
(* (hosting/updates_baseline.py, updates.py; the deploy lane of ci.yml).    *)
(*                                                                          *)
(* The gate reads over the network, one resource after the other, while an  *)
(* operator may put an earlier deployment back by hand.  A site is [commit, *)
(* policy, snapshot]; its manifest is known by the digest of it all.  Sites *)
(* of the policy "none" carry no snapshot, sites of "old" one that cannot   *)
(* be compared any more; for both the retained artifact has to be read.     *)
(***************************************************************************)
EXTENDS HostedSite

CONSTANTS
    DeployedSites,   \* sites that were built
    Begun,           \* the site that production serves first
    MaxUploads,      \* bound: lanes begun
    MaxByHand        \* bound: times a deployment is put back by hand

ASSUME GateAssumption == MaxUploads \in Nat /\ MaxByHand \in Nat

VARIABLES
    served,       \* the site that production serves
    reached,      \* the sites that ever were uploaded
    verified,     \* the site of the latest verified receipt, None before the first
    expired,      \* the sites whose artifact is gone
    lane,         \* the deploy lane, [step, candidate, first, second, baseline], under the lock
    moved,        \* production was put back since the gate last read it
    count         \* [lanes, byHand]
gateVars == <<served, reached, verified, expired, lane, moved, count>>

NoLane == [step |-> "none", candidate |-> None, first |-> None, second |-> None, baseline |-> None]
GateInit ==
    /\ served = Begun /\ reached = {Begun} /\ verified = None /\ expired = {}
    /\ lane = NoLane /\ moved = FALSE /\ count = [lanes |-> 0, byHand |-> 0]

Lane(step) == lane.step = step
ToStep(step) == lane' = [lane EXCEPT !.step = step]
Refuse == lane' = NoLane
Elsewhere == UNCHANGED <<served, reached, verified, expired, count>>
Quiet == Elsewhere /\ UNCHANGED moved

StartLane(candidate) ==
    /\ Lane("none") /\ count.lanes < MaxUploads
    /\ lane' = [NoLane EXCEPT !.step = "manifest", !.candidate = candidate]
    /\ count' = [count EXCEPT !.lanes = @ + 1]
    /\ UNCHANGED <<served, reached, verified, expired, moved>>

\* _served_manifest, the first time
ReadManifest ==
    /\ Lane("manifest") /\ Quiet
    /\ lane' = [lane EXCEPT !.first = served,
                            !.step = IF served.policy = "none" THEN "again" ELSE "deployment"]
\* _successful_deployment: the last verified upload, or before receipts any that succeeded
Deploys(site) == IF verified # None THEN verified = site ELSE site \in reached
MatchDeployment ==
    /\ Lane("deployment") /\ Quiet
    /\ IF Deploys(lane.first) THEN ToStep("snapshot") ELSE Refuse
\* the snapshot is whatever production serves by now
FetchSnapshot ==
    /\ Lane("snapshot") /\ Quiet
    /\ IF served.policy # "none" /\ served.snapshot = lane.first.snapshot
       THEN lane' = [lane EXCEPT !.step = "reread", !.baseline = served.snapshot]
       ELSE Refuse

\* *mutation*: the manifest is not read again
TakenAsServed(site) == TRUE

StillServed(site) == served = site
Reread ==
    /\ Lane("reread") /\ Elsewhere
    /\ IF ~StillServed(lane.first) THEN Refuse /\ UNCHANGED moved
       ELSE moved' = FALSE /\ ToStep(IF lane.first.policy = "new" THEN "compare" ELSE "again")

\* resolve_production_baseline
ReadAgain ==
    /\ Lane("again") /\ Quiet
    /\ lane' = [lane EXCEPT !.second = served, !.step = "artifact"]
DownloadArtifact ==
    /\ Lane("artifact") /\ Quiet
    /\ IF Deploys(lane.second) /\ lane.second \notin expired
       THEN lane' = [lane EXCEPT !.step = "reread artifact", !.baseline = lane.second.snapshot]
       ELSE Refuse
RereadArtifact ==
    /\ Lane("reread artifact") /\ Elsewhere
    /\ IF ~StillServed(lane.second) \/ (lane.first.policy = "old" /\ lane.second # lane.first)
       THEN Refuse /\ UNCHANGED moved
       ELSE moved' = FALSE /\ ToStep("compare")

CompareUpdates ==
    /\ Lane("compare") /\ Quiet
    /\ IF UpdatesPass(lane.baseline, lane.candidate.snapshot) THEN ToStep("upload") ELSE Refuse
\* The upload may break off, before or after it took effect, and is then not verified.
UploadSite ==
    /\ Lane("upload")
    /\ served' = lane.candidate /\ reached' = reached \cup {lane.candidate}
    /\ (ToStep("verify") \/ Refuse)
    /\ UNCHANGED <<verified, expired, moved, count>>
UploadFails == Lane("upload") /\ Refuse /\ Quiet
VerifyUpload ==
    /\ Lane("verify") /\ Refuse
    /\ verified' = IF served = lane.candidate THEN served ELSE verified
    /\ UNCHANGED <<served, reached, expired, moved, count>>

PutBack(site) ==
    /\ count.byHand < MaxByHand /\ site # served
    /\ served' = site /\ moved' = TRUE
    /\ count' = [count EXCEPT !.byHand = @ + 1]
    /\ UNCHANGED <<reached, verified, expired, lane>>
ArtifactExpires(site) ==
    /\ site \notin expired /\ expired' = expired \cup {site}
    /\ UNCHANGED <<served, reached, verified, lane, moved, count>>

GateNext ==
    \/ \E site \in {s \in DeployedSites : s.policy = "new"} : StartLane(site)
    \/ ReadManifest \/ MatchDeployment \/ FetchSnapshot \/ Reread
    \/ ReadAgain \/ DownloadArtifact \/ RereadArtifact
    \/ CompareUpdates \/ UploadSite \/ UploadFails \/ VerifyUpload
    \/ \E site \in reached : PutBack(site) \/ ArtifactExpires(site)
GateSpec == GateInit /\ [][GateNext]_gateVars

Sites == DeployedSites \cup {Begun}
LaneSteps == {"none", "manifest", "deployment", "snapshot", "reread", "again", "artifact",
              "reread artifact", "compare", "upload", "verify"}
Lanes == [step : LaneSteps, candidate : DeployedSites \cup {None}, first : Sites \cup {None},
          second : Sites \cup {None}, baseline : {s.snapshot : s \in Sites} \cup {None}]
GateTypeOK ==
    /\ served \in Sites /\ reached \subseteq Sites /\ expired \subseteq Sites
    /\ verified \in Sites \cup {None}
    /\ lane \in Lanes
    /\ moved \in BOOLEAN
    /\ count \in [lanes : 0..MaxUploads, byHand : 0..MaxByHand]

(***************************************************************************)
(* No upload changes what production tells of an election without an entry  *)
(* readers have not had and with all those they had, however the site of    *)
(* before was read: from its snapshot, from an artifact because its policy  *)
(* is an old one, while an upload that broke off is live or an earlier      *)
(* deployment is put back.  Only what is put back after the last read       *)
(* escapes.  (check-updates in the deploy lane)                             *)
(***************************************************************************)
NoSilentChange ==
    [][(lane.step = "upload" /\ served' # served /\ ~moved') =>
            UpdatesPass(served.snapshot, served'.snapshot)]_gateVars
================================================================================
