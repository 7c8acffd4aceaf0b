------------------------------ MODULE AutoDeploy ------------------------------
(****************************************************************************)
(* Services that deploy themselves when their branch moves                   *)
(* (internal/server/autodeploy.go), with the settings they are asked for by   *)
(* (internal/autodeploy, its sqlite repository) and the part of the job       *)
(* runner they depend on: which jobs the journal still calls running.         *)
(*                                                                          *)
(* The maps busy, again and last are keyed by container/service and every     *)
(* read and write here is for one key, so the module is about one service.    *)
(* A commit is its position on the branch, 0 is "no commit recorded". A       *)
(* check is one call of checkBranch, on its own goroutine or the watcher's:   *)
(*   idle      no such goroutine                                             *)
(*   asked     called, has not taken busy yet                                *)
(*   settings .. plan   about to do that step, busy is its                    *)
(* A job is one entry of the runner for this service:                         *)
(*   none      no such job                                                   *)
(*   queued    in the runner, waiting for the container or preparing          *)
(*   fetched   has the turn on the container and the commit it will deploy    *)
(*   find, save, note   what an auto-deploy does once Redeploy returned       *)
(*   ending    the work is over, the journal has not been told                *)
(****************************************************************************)
EXTENDS Naturals, FiniteSets

CONSTANTS
  Checks,      \* goroutines that can be inside checkBranch at once
  JobSlots,    \* jobs of this service that can be under way at once
  MaxCommits,  \* bound: length of the branch
  MaxSecrets,  \* bound: times it is turned on
  MaxHooks,    \* bound: calls of the webhook
  MaxManual,   \* bound: deployments a person starts
  MaxFaults,   \* bound: reads and writes that fail
  MaxCrashes   \* bound: restarts of the daemon

ASSUME AutoDeployAssumption ==
  /\ MaxCommits \in Nat \ {0} /\ MaxSecrets \in Nat /\ MaxHooks \in Nat
  /\ MaxManual \in Nat /\ MaxFaults \in Nat /\ MaxCrashes \in Nat

VARIABLES
  branch,    \* the commit the branch ends at
  deployed,  \* Service.Commit, as the container records it
  present,   \* the service is deployed on the container
  setting,   \* the row of the autodeploy table
  busy, again,
  last,      \* the Result of the last check, as the panel shows it
  checks, jobs,
  stale,     \* a row of the journal says running for a job that is over
  secrets, hooks, manual, faults, crashes

bounds == <<secrets, hooks, manual, faults, crashes>>
vars == <<branch, deployed, present, setting, busy, again, last, checks, jobs, stale,
          bounds>>

----------------------------------------------------------------------------
Off == [secret |-> 0, failed |-> 0]
On == setting.secret # 0

NoCheck == [pc |-> "idle", by |-> "check", failed |-> 0, deployed |-> 0, tip |-> 0,
            after |-> FALSE]
NoDeploy == [pc |-> "none", kind |-> "auto", tip |-> 0, commit |-> 0, ok |-> FALSE,
             found |-> Off]

Looking == {c \in Checks : checks[c].pc \notin {"idle", "asked"}}
Deploying == {j \in JobSlots : jobs[j].kind = "auto" /\ jobs[j].pc \notin {"none", "ending"}}
IdleChecks == {c \in Checks : checks[c].pc = "idle"}

\* What running(k) finds: a row of the journal that says so. A job is there
\* from the first Record in Start to the last one, after the work is over.
UnderWay == {j \in JobSlots : jobs[j].pc # "none"}
Running == stale \/ UnderWay # {}

Init ==
  /\ branch = 1
  /\ deployed \in {0, 1}
  /\ present = TRUE
  /\ setting = Off
  /\ busy = FALSE /\ again = FALSE
  /\ last = "none"
  /\ checks = [c \in Checks |-> NoCheck]
  /\ jobs = [j \in JobSlots |-> NoDeploy]
  /\ stale = FALSE
  /\ secrets = 0 /\ hooks = 0 /\ manual = 0 /\ faults = 0 /\ crashes = 0

Fault == faults < MaxFaults /\ faults' = faults + 1

----------------------------------------------------------------------------
(* The world, and the requests of a person.                                  *)

Push ==
  /\ branch < MaxCommits
  /\ branch' = branch + 1
  /\ UNCHANGED <<deployed, present, setting, busy, again, last, checks, jobs, stale, bounds>>

\* changeAutoDeploy with enabled: a setting that is there is kept.
TurnOn ==
  /\ present /\ ~On
  /\ secrets < MaxSecrets
  /\ secrets' = secrets + 1
  /\ setting' = [secret |-> secrets + 1, failed |-> 0]
  /\ UNCHANGED <<branch, deployed, present, busy, again, last, checks, jobs, stale,
                 hooks, manual, faults, crashes>>

TurnOff ==
  /\ On
  /\ setting' = Off
  /\ UNCHANGED <<branch, deployed, present, busy, again, last, checks, jobs, stale, bounds>>

\* The service is destroyed; its setting stays behind.
RemoveService ==
  /\ present
  /\ present' = FALSE
  /\ deployed' = 0
  /\ UNCHANGED <<branch, setting, busy, again, last, checks, jobs, stale, bounds>>

\* The hook, once the setting was found and the signature accepted: go
\* checkBranch(..., "webhook"). A goroutine slot stays free for the check that
\* again asks for.
Webhook(c) ==
  /\ On
  /\ hooks < MaxHooks
  /\ c \in IdleChecks
  /\ again => Cardinality(IdleChecks) > 1
  /\ hooks' = hooks + 1
  /\ checks' = [checks EXCEPT ![c] = [NoCheck EXCEPT !.pc = "asked", !.by = "webhook"]]
  /\ UNCHANGED <<branch, deployed, present, setting, busy, again, last, jobs, stale,
                 secrets, manual, faults, crashes>>

\* WatchBranches: one call at a time, for a setting FindAll returned.
WatchTick(c) ==
  /\ On
  /\ c \in IdleChecks
  /\ again => Cardinality(IdleChecks) > 1
  /\ \A d \in Checks : checks[d].pc # "idle" => checks[d].by = "webhook"
  /\ checks' = [checks EXCEPT ![c] = [NoCheck EXCEPT !.pc = "asked", !.by = "check"]]
  /\ UNCHANGED <<branch, deployed, present, setting, busy, again, last, jobs, stale, bounds>>

----------------------------------------------------------------------------
(* checkBranch.                                                              *)

\* done, run by the check c itself: busy is given back, and a check that was
\* asked for meanwhile starts - here in the goroutine slot that becomes free.
Done(c) ==
  /\ busy' = FALSE
  /\ again' = FALSE
  /\ checks' = [checks EXCEPT ![c] =
       IF again THEN [NoCheck EXCEPT !.pc = "asked", !.by = "webhook"] ELSE NoCheck]

\* Mutant: busy is not looked at.
EnterAnyway(c) ==
  /\ checks[c].pc = "asked"
  /\ busy' = TRUE
  /\ checks' = [checks EXCEPT ![c].pc = "settings"]
  /\ UNCHANGED <<branch, deployed, present, setting, again, last, jobs, stale, bounds>>

Enter(c) ==
  /\ checks[c].pc = "asked"
  /\ IF busy
     THEN /\ again' = TRUE
          /\ checks' = [checks EXCEPT ![c] = NoCheck]
          /\ UNCHANGED busy
     ELSE /\ busy' = TRUE
          /\ checks' = [checks EXCEPT ![c].pc = "settings"]
          /\ UNCHANGED again
  /\ UNCHANGED <<branch, deployed, present, setting, last, jobs, stale, bounds>>

\* Repo.Find: nothing to do when it is off, or cannot be read.
FindSetting(c) ==
  /\ checks[c].pc = "settings"
  /\ \/ /\ On
        /\ checks' = [checks EXCEPT ![c].pc = "running", ![c].failed = setting.failed]
        /\ UNCHANGED <<busy, again, faults>>
     \/ ~On /\ Done(c) /\ UNCHANGED faults
     \/ Fault /\ Done(c)
  /\ UNCHANGED <<branch, deployed, present, setting, last, jobs, stale, secrets, hooks,
                 manual, crashes>>

\* d.running(k); a journal that cannot be read counts as nothing running.
LookForJobs(c) ==
  /\ checks[c].pc = "running"
  /\ \/ Running /\ last' = "already running" /\ Done(c) /\ UNCHANGED faults
     \/ /\ ~Running \/ faults < MaxFaults
        /\ faults' = IF Running THEN faults + 1 ELSE faults
        /\ checks' = [checks EXCEPT ![c].pc = "state", ![c].after = FALSE]
        /\ UNCHANGED <<busy, again, last>>
  /\ UNCHANGED <<branch, deployed, present, setting, jobs, stale, secrets, hooks,
                 manual, crashes>>

\* deployer.FindAll.
ReadService(c) ==
  /\ checks[c].pc = "state"
  /\ \/ /\ present
        /\ checks' = [checks EXCEPT ![c].pc = "tip", ![c].deployed = deployed]
        /\ UNCHANGED <<busy, again, last, faults>>
     \/ ~present /\ last' = "gone" /\ Done(c) /\ UNCHANGED faults
     \/ Fault /\ last' = "unreadable" /\ Done(c)
  /\ UNCHANGED <<branch, deployed, present, setting, jobs, stale, secrets, hooks,
                 manual, crashes>>

\* Mutant: any recorded commit is good enough.
HasCommit(c, t) == checks[c].deployed # 0

\* tipper.Tip, and the switch on what it says.
UpToDate(c, t) == checks[c].deployed # 0 /\ checks[c].deployed = t
FailedBefore(c, t) == t = checks[c].failed

AskTip(c) ==
  /\ checks[c].pc = "tip"
  /\ \/ /\ ~UpToDate(c, branch) /\ ~FailedBefore(c, branch)
        /\ checks' = [checks EXCEPT ![c] = [NoCheck EXCEPT !.pc = "plan", !.by = checks[c].by,
                                                           !.tip = branch]]
        /\ UNCHANGED <<busy, again, last, faults>>
     \/ UpToDate(c, branch) /\ last' = "up to date" /\ Done(c) /\ UNCHANGED faults
     \/ /\ ~UpToDate(c, branch) /\ FailedBefore(c, branch)
        /\ last' = "failed before" /\ Done(c) /\ UNCHANGED faults
     \/ Fault /\ last' = "unreadable" /\ Done(c)
  /\ UNCHANGED <<branch, deployed, present, setting, jobs, stale, secrets, hooks,
                 manual, crashes>>

\* RedeployPlan and Jobs.Start: from here the job holds busy.
PlanAndStart(c) ==
  /\ checks[c].pc = "plan"
  /\ \/ \E j \in JobSlots :
          /\ present
          /\ jobs[j].pc = "none"
          /\ jobs' = [jobs EXCEPT ![j] = [NoDeploy EXCEPT !.pc = "queued",
                                                          !.tip = checks[c].tip]]
          /\ checks' = [checks EXCEPT ![c] = NoCheck]
          /\ last' = "deploying"
          /\ UNCHANGED <<busy, again, faults>>
     \/ ~present /\ last' = "no plan" /\ Done(c) /\ UNCHANGED <<jobs, faults>>
     \/ Fault /\ last' = "no plan" /\ Done(c) /\ UNCHANGED jobs
  /\ UNCHANGED <<branch, deployed, present, setting, stale, secrets, hooks, manual, crashes>>

----------------------------------------------------------------------------
(* The jobs.                                                                 *)

\* A person deploys the service (service-handlers.go), on the same subject.
StartByHand(j) ==
  /\ present
  /\ manual < MaxManual
  /\ jobs[j].pc = "none"
  /\ manual' = manual + 1
  /\ jobs' = [jobs EXCEPT ![j] = [NoDeploy EXCEPT !.pc = "queued", !.kind = "manual"]]
  /\ UNCHANGED <<branch, deployed, present, setting, busy, again, last, checks, stale,
                 secrets, hooks, faults, crashes>>

\* Mutant: the job does not wait for the container's turn.
FetchAtOnce(j) ==
  /\ jobs[j].pc = "queued"
  /\ present
  /\ jobs' = [jobs EXCEPT ![j].pc = "fetched", ![j].commit = branch]
  /\ UNCHANGED <<branch, deployed, present, setting, busy, again, last, checks, stale, bounds>>

\* The container's turn is taken, and what the branch holds now is fetched.
Fetch(j) ==
  /\ jobs[j].pc = "queued"
  /\ present
  /\ \A i \in JobSlots : jobs[i].pc # "fetched"
  /\ jobs' = [jobs EXCEPT ![j].pc = "fetched", ![j].commit = branch]
  /\ UNCHANGED <<branch, deployed, present, setting, busy, again, last, checks, stale, bounds>>

\* Redeploy returned: what is left for an auto-deploy is to remember how it went.
Returned(j, ok) ==
  jobs' = [jobs EXCEPT ![j] = IF jobs[j].kind = "auto"
                              THEN [@ EXCEPT !.pc = "find", !.ok = ok]
                              ELSE [NoDeploy EXCEPT !.pc = "ending", !.kind = "manual"]]

Deployed(j) ==
  /\ jobs[j].pc = "fetched"
  /\ present
  /\ deployed' = jobs[j].commit
  /\ Returned(j, TRUE)
  /\ UNCHANGED <<branch, present, setting, busy, again, last, checks, stale, bounds>>

DeployFailed(j) ==
  /\ jobs[j].pc \in {"queued", "fetched"}
  /\ Returned(j, FALSE)
  /\ UNCHANGED <<branch, deployed, present, setting, busy, again, last, checks, stale, bounds>>

\* if current, _ := Repo.Find; current != nil.
RememberFind(j) ==
  /\ jobs[j].pc = "find"
  /\ \/ /\ On
        /\ jobs' = [jobs EXCEPT ![j].pc = "save", ![j].found = setting]
        /\ UNCHANGED faults
     \/ ~On /\ jobs' = [jobs EXCEPT ![j].pc = "note"] /\ UNCHANGED faults
     \/ Fault /\ jobs' = [jobs EXCEPT ![j].pc = "note"]
  /\ UNCHANGED <<branch, deployed, present, setting, busy, again, last, checks, stale,
                 secrets, hooks, manual, crashes>>

\* Repo.Save is an upsert of what was found; its error is dropped.
SaveFound(j, failed) ==
  /\ jobs[j].pc = "save"
  /\ jobs' = [jobs EXCEPT ![j].pc = "note"]
  /\ \/ setting' = [jobs[j].found EXCEPT !.failed = failed] /\ UNCHANGED faults
     \/ Fault /\ UNCHANGED setting
  /\ UNCHANGED <<branch, deployed, present, busy, again, last, checks, stale, secrets,
                 hooks, manual, crashes>>

\* Mutant: a failure is not remembered.
RememberSuccess(j) == SaveFound(j, 0)

RememberSave(j) == SaveFound(j, IF jobs[j].ok THEN 0 ELSE jobs[j].tip)

\* A last note, then the deferred done. A check asked for meanwhile starts in a
\* free slot.
LastNote(j, result, left) ==
  /\ jobs[j].pc = "note"
  /\ last' = result
  /\ jobs' = [jobs EXCEPT ![j] = [NoDeploy EXCEPT !.pc = "ending"]]
  /\ busy' = FALSE
  /\ again' = left
  /\ IF again
     THEN \E c \in IdleChecks :
            checks' = [checks EXCEPT ![c] =
              [NoCheck EXCEPT !.pc = "asked", !.by = "webhook", !.after = TRUE]]
     ELSE UNCHANGED checks
  /\ UNCHANGED <<branch, deployed, present, setting, stale, bounds>>

Outcome(j) == IF jobs[j].ok THEN "deployed" ELSE "failed"

\* Mutant: again is not taken down.
NoteAndKeepAgain(j) == LastNote(j, Outcome(j), again)

\* It runs before the runner learns that the work is over.
NoteAndDone(j) == LastNote(j, Outcome(j), FALSE)

\* The runner records the end of the job. A journal that cannot be written to
\* keeps saying it runs.
RecordEnd(j) ==
  /\ jobs[j].pc = "ending"
  /\ jobs' = [jobs EXCEPT ![j] = NoDeploy]
  /\ \/ UNCHANGED <<stale, faults>>
     \/ Fault /\ stale' = TRUE
  /\ UNCHANGED <<branch, deployed, present, setting, busy, again, last, checks, secrets,
                 hooks, manual, crashes>>

----------------------------------------------------------------------------
\* The daemon dies and starts again. The journal is settled, and the work the
\* agent was streaming is cut off - perhaps after it had already deployed.
Crash ==
  /\ crashes < MaxCrashes
  /\ crashes' = crashes + 1
  /\ deployed' \in {deployed} \cup (IF present THEN {jobs[j].commit :
                      j \in {i \in JobSlots : jobs[i].pc = "fetched"}} ELSE {})
  /\ busy' = FALSE /\ again' = FALSE /\ last' = "none"
  /\ checks' = [c \in Checks |-> NoCheck]
  /\ jobs' = [j \in JobSlots |-> NoDeploy]
  /\ stale' = FALSE
  /\ UNCHANGED <<branch, present, setting, secrets, hooks, manual, faults>>

----------------------------------------------------------------------------
Check(c) ==
  \/ Enter(c) \/ FindSetting(c) \/ LookForJobs(c) \/ ReadService(c)
  \/ AskTip(c) \/ PlanAndStart(c)

Work(j) ==
  \/ Fetch(j) \/ Deployed(j) \/ DeployFailed(j) \/ RememberFind(j)
  \/ RememberSave(j) \/ NoteAndDone(j) \/ RecordEnd(j)

Next ==
  \/ Push \/ TurnOn \/ TurnOff \/ RemoveService
  \/ \E c \in Checks : Webhook(c) \/ WatchTick(c) \/ Check(c)
  \/ \E j \in JobSlots : StartByHand(j) \/ Work(j)
  \/ Crash

Spec == Init /\ [][Next]_vars

\* Every goroutine runs on, every job ends - its context expires after thirty
\* minutes at the latest - and the ticker of WatchBranches keeps ticking.
HookFairness ==
  /\ \A c \in Checks : WF_vars(Check(c))
  /\ \A j \in JobSlots : WF_vars(Work(j))
HookSpec == Spec /\ HookFairness
FairSpec == HookSpec /\ WF_vars(\E c \in Checks : WatchTick(c))

----------------------------------------------------------------------------
(* Properties.                                                               *)

Commits == 0..MaxCommits
Settings == [secret : 0..MaxSecrets, failed : Commits]
Results == {"none", "already running", "unreadable", "gone", "up to date",
            "failed before", "no plan", "deploying", "deployed", "failed"}

TypeOK ==
  /\ branch \in Commits \ {0}
  /\ deployed \in Commits
  /\ present \in BOOLEAN
  /\ setting \in Settings
  /\ busy \in BOOLEAN /\ again \in BOOLEAN
  /\ last \in Results
  /\ checks \in [Checks ->
       [pc : {"idle", "asked", "settings", "running", "state", "tip", "plan"},
        by : {"check", "webhook"}, failed : Commits, deployed : Commits, tip : Commits,
        after : BOOLEAN]]
  /\ jobs \in [JobSlots ->
       [pc : {"none", "queued", "fetched", "find", "save", "note", "ending"},
        kind : {"auto", "manual"}, tip : Commits, commit : Commits, ok : BOOLEAN,
        found : Settings]]
  /\ stale \in BOOLEAN
  /\ secrets \in 0..MaxSecrets
  /\ hooks \in Nat /\ manual \in Nat /\ faults \in Nat /\ crashes \in Nat

\* However many webhooks and ticks arrive, one look or one automatic deployment
\* of the service is under way at a time, and busy says so: it is never left set
\* with nobody to clear it, nor clear while somebody works.
OneAtATime ==
  /\ \A c, d \in Looking : c = d
  /\ \A i, j \in Deploying : i = j
  /\ Looking = {} \/ Deploying = {}
  /\ busy <=> (Looking # {} \/ Deploying # {})

\* A webhook that came meanwhile is remembered only while somebody is there who
\* will look again for it when they are done.
AgainIsInGoodHands == again => Looking # {} \/ Deploying # {}

\* The panel says "deploying" only while an automatic deployment is under way:
\* every end of one, failed or not, replaces that note.
LastIsNotStuck == last = "deploying" => Deploying # {}

\* What is remembered between looks has an owner who will act on it and clear it.
AutoDeployInv == TypeOK /\ AgainIsInGoodHands /\ LastIsNotStuck

\* What runs never goes back to an older commit: two deployments, one started by
\* a person and one by the branch, fetch and finish in turn.
NeverBackwards == [][present' => deployed' >= deployed]_deployed

\* Once nobody pushes or asks any more, a service that deploys itself ends up
\* running the end of its branch, unless that commit failed.
FollowsTheBranch ==
  []<>(~On \/ ~present \/ deployed = branch \/ setting.failed = branch)

\* Automatic deployments come to rest: a commit that fails is not tried again
\* and again at every tick of the watcher.
ComesToRest == <>[](Deploying = {})

\* Off forgets the setting: only turning it on makes one, with a new secret.
OffForgets ==
  [][setting'.secret \notin {0, setting.secret} => secrets' = secrets + 1]_setting

\* The check that again asked for, once the deployment it waited for is over, is
\* turned away only by some other deployment that is really at work.
LookedAtAgain ==
  [][\A c \in Checks :
       checks[c].after /\ checks[c].pc = "running" /\ last' = "already running"
         /\ checks'[c].pc = "idle"
       => \E j \in JobSlots : jobs[j].pc \notin {"none", "ending"}]_vars
================================================================================
