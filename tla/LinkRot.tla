------------------------------- MODULE LinkRot -------------------------------
(***************************************************************************)
(* The daily check of the cited source links and its single alert issue     *)
(* (check-links.yml, cli.py, sources/link_check.py, link_check_state.py,    *)
(* link_rot_alert.py and single_issue_alert.py).                            *)
(*                                                                          *)
(* The only state carried from one check to the next is a cached file.  Any *)
(* step may fail, before or after its effect, and what is in the file is    *)
(* then still saved; when the runner dies nothing is.  The cache may be      *)
(* evicted; publications come and go; people close and reopen alerts.       *)
(***************************************************************************)
EXTENDS Naturals

CONSTANTS
    Links,         \* the cited URLs
    MaxAlerts,     \* bound: alert issues
    MaxTrouble,    \* bound: failed steps, dead runners and evictions
    MaxChanges,    \* bound: publications that change
    MaxTouches,    \* bound: alerts closed or reopened by people
    NoCheck, NoAlert

ASSUME LinksAssumption ==
    MaxAlerts \in Nat /\ MaxTouches \in Nat /\ NoAlert \notin 1..MaxAlerts

VARIABLES
    page,       \* per link: reachable, gone, or guarded against the request
    cache,      \* the links the last saved state calls rotting
    alerts,     \* per alert issue: whether it is open; 0 for none yet
    raised,     \* the links the last raised alert named
    streak,     \* per link: the checks in a row that found it gone, up to two
    check,      \* the check in progress
    reopened,   \* the alerts people reopened since a check last looked for an open one
    trouble, changes, touches

linkVars == <<page, cache, alerts, raised, streak, check, reopened, trouble, changes, touches>>

Alerts == 1..MaxAlerts
LinksInit ==
    /\ page = [u \in Links |-> "reachable"]
    /\ cache = {}
    /\ alerts = [a \in Alerts |-> "none"]
    /\ raised = {}
    /\ streak = [u \in Links |-> 0]
    /\ check = NoCheck
    /\ reopened = {}
    /\ trouble = 0 /\ changes = 0 /\ touches = 0

\* The file is seeded empty; the cached one is restored over it.
StartCheck ==
    /\ check = NoCheck
    /\ check' = [step |-> "restore", file |-> {}, found |-> {}, confirmed |-> {},
                 wrote |-> FALSE, alert |-> NoAlert]
    /\ UNCHANGED <<page, cache, alerts, raised, streak, reopened, trouble, changes, touches>>
RestoreState ==
    /\ check # NoCheck /\ check.step = "restore"
    /\ check' = [check EXCEPT !.step = "probe", !.file = cache]
    /\ UNCHANGED <<page, cache, alerts, raised, streak, reopened, trouble, changes, touches>>

\* *mutation*: how the site answered is not asked
AnyFailure(u) == page[u] # "reachable"

\* A guarded page is a failure that says nothing of the page.
CauseConfirmsRot(u) == page[u] = "gone"

ConfirmedFailures(found, previous) == found \cap previous

\* run_link_check, then the state: read, compared and rewritten.
RunLinkCheck ==
    /\ check # NoCheck /\ check.step = "probe"
    /\ LET found == {u \in Links : CauseConfirmsRot(u)}
       IN  check' = [check EXCEPT !.step = "find", !.found = found, !.wrote = TRUE,
                                  !.confirmed = ConfirmedFailures(found, check.file),
                                  !.file = found]
    /\ streak' = [u \in Links |-> IF page[u] = "gone" /\ streak[u] < 2
                               THEN streak[u] + 1 ELSE streak[u]]
    /\ UNCHANGED <<page, cache, alerts, raised, reopened, trouble, changes, touches>>

OpenAlerts == {a \in Alerts : alerts[a] = "open"}

\* find_open_alert: some open issue that ends with the marker.
FindOpenAlert ==
    /\ check # NoCheck /\ check.step = "find"
    /\ \E alert \in IF OpenAlerts = {} THEN {NoAlert} ELSE OpenAlerts :
          check' = [check EXCEPT !.step = "act", !.alert = alert]
    /\ reopened' = {}
    /\ UNCHANGED <<page, cache, alerts, raised, streak, trouble, changes, touches>>

\* plan_alert_action and reconcile.
Acted(alerts2, raised2) ==
    /\ alerts' = alerts2
    /\ raised' = raised2
    /\ check' = [check EXCEPT !.step = "save"]
    /\ UNCHANGED <<page, cache, streak, reopened, trouble, changes, touches>>
AtAct(confirmed, existing) ==
    /\ check # NoCheck /\ check.step = "act"
    /\ (check.confirmed # {}) = confirmed
    /\ (check.alert # NoAlert) = existing
QuietAlert == AtAct(FALSE, FALSE) /\ Acted(alerts, raised)

Closed(a) == [alerts EXCEPT ![a] = "closed"]
CloseAlert == AtAct(FALSE, TRUE) /\ Acted(Closed(check.alert), raised)
NewAlert == CHOOSE a \in Alerts : alerts[a] = "none" /\ \A b \in Alerts : alerts[b] = "none" => a <= b
CreateAlert ==
    /\ AtAct(TRUE, FALSE)
    /\ \E a \in Alerts : alerts[a] = "none"
    /\ Acted([alerts EXCEPT ![NewAlert] = "open"], check.confirmed)
UpdateAlert == AtAct(TRUE, TRUE) /\ Acted(alerts, check.confirmed)

\* What the file says, a failed check's too.
SaveState ==
    /\ check # NoCheck /\ check.step = "save"
    /\ cache' = check.file
    /\ check' = NoCheck
    /\ streak' = IF check.wrote
                 THEN [u \in Links |-> IF u \in check.found THEN streak[u] ELSE 0] ELSE streak
    /\ UNCHANGED <<page, alerts, raised, reopened, trouble, changes, touches>>

Trouble == trouble < MaxTrouble /\ trouble' = trouble + 1
CheckFails ==
    /\ check # NoCheck /\ check.step # "save" /\ Trouble
    /\ check' = [check EXCEPT !.step = "save"]
    /\ UNCHANGED <<page, cache, alerts, raised, streak, reopened, changes, touches>>
RunnerDies ==
    /\ check # NoCheck /\ Trouble
    /\ check' = NoCheck
    /\ UNCHANGED <<page, cache, alerts, raised, streak, reopened, changes, touches>>
EvictCache ==
    /\ cache # {} /\ Trouble
    /\ cache' = {}
    /\ UNCHANGED <<page, alerts, raised, streak, check, reopened, changes, touches>>

PageChanges ==
    /\ changes < MaxChanges
    /\ \E u \in Links, state \in {"reachable", "gone", "guarded"} :
          page[u] # state /\ page' = [page EXCEPT ![u] = state]
    /\ changes' = changes + 1
    /\ UNCHANGED <<cache, alerts, raised, streak, check, reopened, trouble, touches>>

\* People close an alert or reopen one.
TouchAlert ==
    /\ touches < MaxTouches
    /\ \E a \in Alerts :
          \/ /\ alerts[a] = "open" /\ alerts' = [alerts EXCEPT ![a] = "closed"]
             /\ UNCHANGED reopened
          \/ /\ alerts[a] = "closed" /\ alerts' = [alerts EXCEPT ![a] = "open"]
             /\ reopened' = reopened \cup {a}
    /\ touches' = touches + 1
    /\ UNCHANGED <<page, cache, raised, streak, check, trouble, changes>>

CheckStep ==
    \/ StartCheck \/ RestoreState \/ RunLinkCheck \/ FindOpenAlert \/ QuietAlert
    \/ CloseAlert \/ CreateAlert \/ UpdateAlert \/ SaveState
LinksNext ==
    \/ CheckStep \/ CheckFails \/ RunnerDies \/ EvictCache \/ PageChanges \/ TouchAlert
LinksSpec == LinksInit /\ [][LinksNext]_linkVars

(***************************************************************************)
(* Properties.                                                              *)
(***************************************************************************)

(***************************************************************************)
(* No alert on one bad day: what an alert names was gone in two checks with *)
(* no recorded check in between that did not find it so.  And a check never *)
(* opens an alert beside an open one, unless people reopened that one since *)
(* the check looked.  (confirmed_failures, next_state, plan_alert_action.)  *)
(***************************************************************************)
AlertsAreConfirmed ==
    [][ /\ (alerts' # alerts \/ raised' # raised) /\ touches' = touches =>
              \A u \in raised' : raised' = check.confirmed => streak[u] >= 2
        /\ (\E a \in Alerts : alerts[a] = "none" /\ alerts'[a] = "open") =>
              OpenAlerts \subseteq reopened ]_linkVars

(***************************************************************************)
(* sources/link_rot_alert.py, "full recovery closes it" and "Recovered: the *)
(* scheduled check found every cited URL reachable": a check closes the     *)
(* alert only if it found no link gone.  The code refutes it: it asks only  *)
(* whether a link is confirmed.                                             *)
(***************************************************************************)
ClosesOnRecovery ==
    [][ (\E a \in Alerts : alerts[a] = "open" /\ alerts'[a] = "closed") /\ touches' = touches
          => check.found = {} ]_linkVars

(***************************************************************************)
(* The alert follows the links: again and again an alert is open when a     *)
(* link is gone and none is open when no link is, as long as checks keep    *)
(* being started and the pages rest.  (reconcile_alert.)                    *)
(***************************************************************************)
AlertFollowsRot ==
    []<>(OpenAlerts # {} <=> \E u \in Links : page[u] = "gone")

(***************************************************************************)
(* The alert is neither hasty nor late.                                     *)
(***************************************************************************)
AlertIsHonest == AlertsAreConfirmed /\ AlertFollowsRot
=============================================================================
