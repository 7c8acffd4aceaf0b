--------------------------- MODULE AutoDeploy_proofs ---------------------------
(* What AutoDeploy promises for any number of checks, jobs and commits, and     *)
(* however many webhooks, people, failures and restarts there are.              *)
EXTENDS AutoDeploy, TLAPS

CheckRecords ==
  [pc : {"idle", "asked", "settings", "running", "state", "tip", "plan"},
   by : {"check", "webhook"}, failed : Commits, deployed : Commits, tip : Commits,
   after : BOOLEAN]
JobRecords ==
  [pc : {"none", "queued", "fetched", "find", "save", "note", "ending"},
   kind : {"auto", "manual"}, tip : Commits, commit : Commits, ok : BOOLEAN,
   found : Settings]

\* Whoever holds busy is one, and answers for again and for what last says; only
\* an automatic deployment has something to remember when Redeploy returned.
Owned ==
  /\ OneAtATime /\ AgainIsInGoodHands /\ LastIsNotStuck
  /\ \A j \in JobSlots : jobs[j].pc \in {"find", "save", "note"} => jobs[j].kind = "auto"

\* A job that has the turn holds a commit no older than the one that runs, and
\* nobody else has the turn.
Ahead ==
  /\ deployed <= branch
  /\ \A j \in JobSlots : jobs[j].pc = "fetched" =>
       deployed <= jobs[j].commit /\ jobs[j].commit <= branch
  /\ \A i, j \in JobSlots : jobs[i].pc = "fetched" /\ jobs[j].pc = "fetched" => i = j

IInv == TypeOK /\ Owned /\ Ahead

----------------------------------------------------------------------------
(* Types.                                                                    *)

LEMMA Constants ==
  /\ 0 \in Commits /\ 1 \in Commits /\ Commits \subseteq Nat
  /\ Off \in Settings
  /\ NoCheck \in CheckRecords /\ NoDeploy \in JobRecords
<1>1. 0 \in Commits /\ 1 \in Commits /\ Commits \subseteq Nat
  BY AutoDeployAssumption DEF Commits
<1>2. Off \in Settings
  BY <1>1, AutoDeployAssumption DEF Off, Settings
<1> QED BY <1>1, <1>2 DEF NoCheck, NoDeploy, CheckRecords, JobRecords

LEMMA InitTyped == Init => TypeOK
<1> SUFFICES ASSUME Init PROVE TypeOK
  OBVIOUS
<1>1. checks \in [Checks -> CheckRecords] /\ jobs \in [JobSlots -> JobRecords]
  BY Constants DEF Init
<1>2. branch \in Commits \ {0} /\ deployed \in Commits /\ setting \in Settings
  BY Constants DEF Init
<1>3. /\ present \in BOOLEAN /\ busy \in BOOLEAN /\ again \in BOOLEAN /\ stale \in BOOLEAN
      /\ last \in Results
  BY DEF Init, Results
<1>4. /\ secrets \in 0..MaxSecrets
      /\ hooks \in Nat /\ manual \in Nat /\ faults \in Nat /\ crashes \in Nat
  BY AutoDeployAssumption DEF Init
<1> QED
  BY <1>1, <1>2, <1>3, <1>4 DEF TypeOK, CheckRecords, JobRecords

\* Giving busy back leaves records of the same kind.
LEMMA DoneTyped ==
  ASSUME TypeOK, NEW c \in Checks, Done(c)
  PROVE  /\ checks' \in [Checks -> CheckRecords]
         /\ busy' \in BOOLEAN /\ again' \in BOOLEAN
<1>1. [NoCheck EXCEPT !.pc = "asked", !.by = "webhook"] \in CheckRecords
  BY Constants DEF NoCheck, CheckRecords
<1> QED BY <1>1, Constants DEF TypeOK, Done, CheckRecords

LEMMA StepTyped == TypeOK /\ [Next]_vars => TypeOK'
<1> SUFFICES ASSUME TypeOK, [Next]_vars PROVE TypeOK'
  OBVIOUS
<1>t. /\ checks \in [Checks -> CheckRecords] /\ jobs \in [JobSlots -> JobRecords]
      /\ branch \in Commits /\ deployed \in Commits /\ Commits = 0..MaxCommits
      /\ setting \in Settings /\ setting.failed \in Commits /\ MaxCommits \in Nat
      /\ faults \in Nat /\ crashes \in Nat /\ last \in Results
  BY Constants, AutoDeployAssumption DEF TypeOK, CheckRecords, JobRecords, Commits, Settings
<1>f. ASSUME Fault PROVE faults' \in Nat
  BY <1>f DEF Fault, TypeOK
<1>1. ASSUME Push PROVE TypeOK'
  BY <1>1, <1>t DEF Push, TypeOK, bounds
<1>2. ASSUME TurnOn PROVE TypeOK'
  BY <1>2, Constants, AutoDeployAssumption DEF TurnOn, TypeOK, Settings
<1>3. ASSUME TurnOff PROVE TypeOK'
  BY <1>3, Constants DEF TurnOff, TypeOK, bounds
<1>4. ASSUME RemoveService PROVE TypeOK'
  BY <1>4, Constants DEF RemoveService, TypeOK, bounds
<1>a. /\ [NoCheck EXCEPT !.pc = "asked", !.by = "webhook"] \in CheckRecords
      /\ [NoCheck EXCEPT !.pc = "asked", !.by = "check"] \in CheckRecords
      /\ [NoCheck EXCEPT !.pc = "asked", !.by = "webhook", !.after = TRUE] \in CheckRecords
  BY Constants DEF NoCheck, CheckRecords
<1>5. ASSUME NEW c \in Checks, Webhook(c) PROVE TypeOK'
  <2>1. checks' \in [Checks -> CheckRecords] /\ hooks' \in Nat
    BY <1>5, <1>a, <1>t DEF Webhook, TypeOK
  <2> QED BY <1>5, <2>1 DEF Webhook, TypeOK, CheckRecords
<1>6. ASSUME NEW c \in Checks, WatchTick(c) PROVE TypeOK'
  BY <1>6, <1>a, <1>t DEF WatchTick, TypeOK, CheckRecords, bounds
<1>7. ASSUME NEW c \in Checks, Enter(c) PROVE TypeOK'
  <2>1. [checks[c] EXCEPT !.pc = "settings"] \in CheckRecords
    BY <1>t DEF CheckRecords
  <2>2. checks' \in [Checks -> CheckRecords]
    BY <1>7, <2>1, <1>t, Constants DEF Enter
  <2> QED BY <1>7, <2>2 DEF Enter, TypeOK, CheckRecords, bounds
<1>8. ASSUME NEW c \in Checks, FindSetting(c) PROVE TypeOK'
  <2>1. CASE Done(c)
    BY <1>8, <2>1, DoneTyped, <1>f DEF FindSetting, TypeOK, CheckRecords
  <2>2. CASE ~Done(c)
    <3>1. [checks[c] EXCEPT !.pc = "running", !.failed = setting.failed] \in CheckRecords
      BY <1>t DEF CheckRecords
    <3>2. checks' \in [Checks -> CheckRecords]
      BY <1>8, <2>2, <3>1, <1>t DEF FindSetting
    <3> QED BY <1>8, <2>2, <3>2 DEF FindSetting, TypeOK, CheckRecords
  <2> QED BY <2>1, <2>2
<1>9. ASSUME NEW c \in Checks, LookForJobs(c) PROVE TypeOK'
  <2>f. faults' \in Nat /\ last' \in Results
    <3>1. faults' \in Nat
      <4>1. faults' = faults \/ faults' = faults + 1
        BY <1>9, Zenon DEF LookForJobs
      <4> QED BY <4>1, <1>t
    <3>2. last' \in Results
      BY <1>9, <1>t DEF LookForJobs, Results
    <3> QED BY <3>1, <3>2
  <2>1. CASE Done(c)
    <3>1. /\ checks' \in [Checks -> CheckRecords]
          /\ busy' \in BOOLEAN /\ again' \in BOOLEAN
      BY <2>1, DoneTyped
    <3>2. UNCHANGED <<branch, deployed, present, setting, jobs, stale, secrets, hooks,
                      manual, crashes>>
      BY <1>9 DEF LookForJobs
    <3> QED BY <3>1, <3>2, <2>f DEF TypeOK, CheckRecords
  <2>2. CASE ~Done(c)
    <3>1. [checks[c] EXCEPT !.pc = "state", !.after = FALSE] \in CheckRecords
      BY <1>t DEF CheckRecords
    <3>2. checks' \in [Checks -> CheckRecords]
      BY <1>9, <2>2, <3>1, <1>t DEF LookForJobs
    <3> QED BY <1>9, <2>2, <2>f, <3>2 DEF LookForJobs, TypeOK, CheckRecords
  <2> QED BY <2>1, <2>2
<1>10. ASSUME NEW c \in Checks, ReadService(c) PROVE TypeOK'
  <2>1. CASE Done(c)
    BY <1>10, <2>1, DoneTyped, <1>f DEF ReadService, TypeOK, CheckRecords, Results
  <2>2. CASE ~Done(c)
    <3>1. [checks[c] EXCEPT !.pc = "tip", !.deployed = deployed] \in CheckRecords
      BY <1>t DEF CheckRecords
    <3>2. checks' \in [Checks -> CheckRecords]
      BY <1>10, <2>2, <3>1, <1>t DEF ReadService
    <3> QED BY <1>10, <2>2, <3>2 DEF ReadService, TypeOK, CheckRecords
  <2> QED BY <2>1, <2>2
<1>11. ASSUME NEW c \in Checks, AskTip(c) PROVE TypeOK'
  <2>1. CASE Done(c)
    BY <1>11, <2>1, DoneTyped, <1>f DEF AskTip, TypeOK, CheckRecords, Results
  <2>2. CASE ~Done(c)
    <3>1. [NoCheck EXCEPT !.pc = "plan", !.by = checks[c].by, !.tip = branch] \in CheckRecords
      BY <1>t, Constants DEF CheckRecords, NoCheck
    <3>2. checks' \in [Checks -> CheckRecords]
      BY <1>11, <2>2, <3>1, <1>t DEF AskTip
    <3> QED BY <1>11, <2>2, <3>2 DEF AskTip, TypeOK, CheckRecords
  <2> QED BY <2>1, <2>2
<1>12. ASSUME NEW c \in Checks, PlanAndStart(c) PROVE TypeOK'
  <2>1. CASE Done(c) /\ UNCHANGED jobs
    BY <1>12, <2>1, DoneTyped, <1>f DEF PlanAndStart, TypeOK, CheckRecords, Results
  <2>2. CASE ~(Done(c) /\ UNCHANGED jobs)
    <3>1. [NoDeploy EXCEPT !.pc = "queued", !.tip = checks[c].tip] \in JobRecords
      BY <1>t, Constants DEF CheckRecords, JobRecords, NoDeploy
    <3>2. checks' \in [Checks -> CheckRecords] /\ jobs' \in [JobSlots -> JobRecords]
      BY <1>12, <2>2, <3>1, <1>t, Constants DEF PlanAndStart
    <3> QED BY <1>12, <2>2, <3>2 DEF PlanAndStart, TypeOK, CheckRecords, JobRecords, Results
  <2> QED BY <2>1, <2>2
<1>13. ASSUME NEW j \in JobSlots, StartByHand(j) PROVE TypeOK'
  <2>1. [NoDeploy EXCEPT !.pc = "queued", !.kind = "manual"] \in JobRecords
    BY Constants DEF JobRecords, NoDeploy
  <2>2. jobs' \in [JobSlots -> JobRecords]
    BY <1>13, <2>1, <1>t DEF StartByHand
  <2> QED BY <1>13, <2>2 DEF StartByHand, TypeOK, JobRecords
<1>14. ASSUME NEW j \in JobSlots, Fetch(j) PROVE TypeOK'
  <2>1. [jobs[j] EXCEPT !.pc = "fetched", !.commit = branch] \in JobRecords
    BY <1>t DEF JobRecords
  <2>2. jobs' \in [JobSlots -> JobRecords]
    BY <1>14, <2>1, <1>t DEF Fetch
  <2> QED BY <1>14, <2>2 DEF Fetch, TypeOK, JobRecords, bounds
<1>r. ASSUME NEW j \in JobSlots, NEW ok \in BOOLEAN, Returned(j, ok)
      PROVE  jobs' \in [JobSlots -> JobRecords]
  <2>1. /\ [jobs[j] EXCEPT !.pc = "find", !.ok = ok] \in JobRecords
        /\ [NoDeploy EXCEPT !.pc = "ending", !.kind = "manual"] \in JobRecords
    BY <1>t, Constants DEF JobRecords, NoDeploy
  <2> QED BY <1>r, <2>1, <1>t DEF Returned
<1>15. ASSUME NEW j \in JobSlots, Deployed(j) PROVE TypeOK'
  <2>1. jobs' \in [JobSlots -> JobRecords] /\ jobs[j].commit \in Commits
    BY <1>15, <1>r, <1>t DEF Deployed, JobRecords
  <2> QED BY <1>15, <2>1 DEF Deployed, TypeOK, JobRecords, bounds
<1>16. ASSUME NEW j \in JobSlots, DeployFailed(j) PROVE TypeOK'
  <2>1. jobs' \in [JobSlots -> JobRecords]
    BY <1>16, <1>r DEF DeployFailed
  <2> QED BY <1>16, <2>1 DEF DeployFailed, TypeOK, JobRecords, bounds
<1>17. ASSUME NEW j \in JobSlots, RememberFind(j) PROVE TypeOK'
  <2>1. /\ [jobs[j] EXCEPT !.pc = "save", !.found = setting] \in JobRecords
        /\ [jobs[j] EXCEPT !.pc = "note"] \in JobRecords
    BY <1>t DEF JobRecords
  <2>2. jobs' \in [JobSlots -> JobRecords]
    BY <1>17, <2>1, <1>t DEF RememberFind
  <2> QED BY <1>17, <2>2, <1>f DEF RememberFind, TypeOK, JobRecords
<1>18. ASSUME NEW j \in JobSlots, RememberSave(j) PROVE TypeOK'
  <2>1. /\ [jobs[j] EXCEPT !.pc = "note"] \in JobRecords
        /\ jobs[j].tip \in Commits /\ jobs[j].found \in Settings
    BY <1>t DEF JobRecords
  <2>2. jobs' \in [JobSlots -> JobRecords]
    BY <1>18, <2>1, <1>t DEF RememberSave, SaveFound
  <2>3. setting' \in Settings /\ faults' \in Nat
    BY <1>18, <2>1, <1>f, Constants DEF RememberSave, SaveFound, Settings, TypeOK
  <2> QED BY <1>18, <2>2, <2>3 DEF RememberSave, SaveFound, TypeOK, JobRecords
<1>19. ASSUME NEW j \in JobSlots, NoteAndDone(j) PROVE TypeOK'
  <2>1. [NoDeploy EXCEPT !.pc = "ending"] \in JobRecords
    BY Constants DEF JobRecords, NoDeploy
  <2>2. jobs' \in [JobSlots -> JobRecords] /\ checks' \in [Checks -> CheckRecords]
    BY <1>19, <2>1, <1>t, <1>a DEF NoteAndDone, LastNote, IdleChecks
  <2> QED BY <1>19, <2>2 DEF NoteAndDone, LastNote, Outcome, TypeOK, JobRecords, CheckRecords,
                            Results, bounds
<1>20. ASSUME NEW j \in JobSlots, RecordEnd(j) PROVE TypeOK'
  <2>1. jobs' \in [JobSlots -> JobRecords]
    BY <1>20, <1>t, Constants DEF RecordEnd
  <2> QED BY <1>20, <2>1, <1>f DEF RecordEnd, TypeOK, JobRecords
<1>21. ASSUME Crash PROVE TypeOK'
  <2>1. \A j \in JobSlots : jobs[j].commit \in Commits
    BY <1>t DEF JobRecords
  <2>2. deployed' \in Commits
    BY <1>21, <2>1 DEF Crash, TypeOK
  <2>3. checks' \in [Checks -> CheckRecords] /\ jobs' \in [JobSlots -> JobRecords]
    BY <1>21, Constants DEF Crash
  <2>4. busy' \in BOOLEAN /\ again' \in BOOLEAN /\ stale' \in BOOLEAN
    BY <1>21 DEF Crash
  <2>5. last' \in Results
    BY <1>21 DEF Crash, Results
  <2>c. crashes' \in Nat
    BY <1>21, <1>t DEF Crash
  <2>6. UNCHANGED <<branch, present, setting, secrets, hooks, manual, faults>>
    BY <1>21 DEF Crash
  <2> QED BY <2>2, <2>3, <2>4, <2>5, <2>c, <2>6 DEF TypeOK, JobRecords, CheckRecords
<1>22. CASE UNCHANGED vars
  BY <1>22 DEF vars, bounds, TypeOK
<1> QED
  BY <1>1, <1>2, <1>3, <1>4, <1>5, <1>6, <1>7, <1>8, <1>9, <1>10, <1>11, <1>12, <1>13, <1>14,
     <1>15, <1>16, <1>17, <1>18, <1>19, <1>20, <1>21, <1>22 DEF Next, Check, Work

----------------------------------------------------------------------------
(* Who holds busy.                                                           *)

\* What one check or one job does to the two sets OneAtATime speaks of.
LEMMA CheckMoves ==
  ASSUME NEW c \in Checks, \A d \in Checks \ {c} : checks'[d] = checks[d]
  PROVE  /\ checks'[c].pc \in {"idle", "asked"} => Looking' = Looking \ {c}
         /\ checks'[c].pc \notin {"idle", "asked"} => Looking' = Looking \cup {c}
BY DEF Looking

LEMMA JobMoves ==
  ASSUME NEW j \in JobSlots, \A i \in JobSlots \ {j} : jobs'[i] = jobs[i]
  PROVE  /\ jobs'[j].kind # "auto" \/ jobs'[j].pc \in {"none", "ending"}
              => Deploying' = Deploying \ {j}
         /\ jobs'[j].kind = "auto" /\ jobs'[j].pc \notin {"none", "ending"}
              => Deploying' = Deploying \cup {j}
BY DEF Deploying

\* The last part of Owned, for a step of one job.
LEMMA KindKept ==
  ASSUME Owned, NEW j \in JobSlots, \A i \in JobSlots \ {j} : jobs'[i] = jobs[i],
         jobs'[j].pc \in {"find", "save", "note"} => jobs'[j].kind = "auto"
  PROVE  \A i \in JobSlots : jobs'[i].pc \in {"find", "save", "note"} => jobs'[i].kind = "auto"
BY DEF Owned

\* A step that neither starts nor ends any of the work.
LEMMA SameWork ==
  ASSUME Owned, Looking' = Looking, Deploying' = Deploying,
         \A i \in JobSlots : jobs'[i].pc \in {"find", "save", "note"} => jobs'[i].kind = "auto",
         busy' = busy, again' = again \/ (again' = TRUE /\ busy = TRUE),
         last' = last \/ last' # "deploying"
  PROVE  Owned'
BY DEF Owned, OneAtATime, AgainIsInGoodHands, LastIsNotStuck

\* Whoever looks and gives busy back was the only one.
LEMMA DoneKeeps ==
  ASSUME TypeOK, Owned, NEW c \in Looking, Done(c), jobs' = jobs,
         last' = last \/ last' # "deploying"
  PROVE  Owned'
<1>1. c \in Checks /\ Looking = {c} /\ Deploying = {}
  BY DEF Owned, OneAtATime, Looking
<1>2. Looking' = {}
  <2>1. \A d \in Checks \ {c} : checks'[d] = checks[d]
    BY <1>1 DEF Done, TypeOK
  <2>2. checks'[c].pc \in {"idle", "asked"}
    BY <1>1 DEF Done, NoCheck, TypeOK
  <2> QED BY <1>1, <2>1, <2>2, CheckMoves
<1>3. Deploying' = {}
  BY <1>1 DEF Deploying
<1>4. last' # "deploying"
  BY <1>1 DEF Owned, LastIsNotStuck
<1>5. busy' = FALSE /\ again' = FALSE
  BY DEF Done
<1> QED
  BY <1>2, <1>3, <1>4, <1>5 DEF Owned, OneAtATime, AgainIsInGoodHands, LastIsNotStuck

LEMMA InitOwned == Init => Owned
<1> SUFFICES ASSUME Init PROVE Owned
  OBVIOUS
<1>1. Looking = {} /\ Deploying = {}
  BY DEF Init, Looking, Deploying, NoCheck, NoDeploy
<1>2. \A j \in JobSlots : jobs[j].pc = "none"
  BY DEF Init, NoDeploy
<1> QED BY <1>1, <1>2 DEF Init, Owned, OneAtATime, AgainIsInGoodHands, LastIsNotStuck

LEMMA StepOwned == TypeOK /\ Owned /\ [Next]_vars => Owned'
<1> SUFFICES ASSUME TypeOK, Owned, [Next]_vars PROVE Owned'
  OBVIOUS
<1>k. \A j \in JobSlots : jobs[j].pc \in {"find", "save", "note"} => jobs[j].kind = "auto"
  BY DEF Owned
<1>t. /\ checks \in [Checks -> CheckRecords] /\ jobs \in [JobSlots -> JobRecords]
  BY DEF TypeOK, CheckRecords, JobRecords
\* Nothing of what Owned speaks of moves.
<1>s. ASSUME UNCHANGED <<checks, jobs, busy, again, last>> PROVE Owned'
  <2>1. Looking' = Looking /\ Deploying' = Deploying
    BY <1>s DEF Looking, Deploying
  <2> QED BY <1>s, <1>k, <2>1, SameWork
\* One check moves on and stays on its side of busy.
<1>c. ASSUME NEW c \in Checks, checks[c].pc \in {"idle", "asked"},
             checks'[c].pc \in {"idle", "asked"},
             \A d \in Checks \ {c} : checks'[d] = checks[d],
             jobs' = jobs, busy' = busy, again' = again \/ (again' = TRUE /\ busy = TRUE),
             last' = last
      PROVE  Owned'
  <2>1. Looking' = Looking
    BY <1>c, CheckMoves DEF Looking
  <2>2. Deploying' = Deploying
    BY <1>c DEF Deploying
  <2> QED BY <1>c, <1>k, <2>1, <2>2, SameWork
<1>l. ASSUME NEW c \in Looking, checks'[c].pc \notin {"idle", "asked"},
             \A d \in Checks \ {c} : checks'[d] = checks[d],
             UNCHANGED <<jobs, busy, again, last>>
      PROVE  Owned'
  <2>1. Looking' = Looking
    BY <1>l, CheckMoves DEF Looking
  <2>2. Deploying' = Deploying
    BY <1>l DEF Deploying
  <2> QED BY <1>l, <1>k, <2>1, <2>2, SameWork
\* One job moves on and stays in or out of the automatic ones at work.
<1>j. ASSUME NEW j \in JobSlots, \A i \in JobSlots \ {j} : jobs'[i] = jobs[i],
             j \in Deploying <=> jobs'[j].kind = "auto" /\ jobs'[j].pc \notin {"none", "ending"},
             jobs'[j].pc \in {"find", "save", "note"} => jobs'[j].kind = "auto",
             UNCHANGED <<checks, busy, again, last>>
      PROVE  Owned'
  <2>1. Looking' = Looking
    BY <1>j DEF Looking
  <2>2. Deploying' = Deploying
    BY <1>j, JobMoves DEF Deploying
  <2>3. \A i \in JobSlots : jobs'[i].pc \in {"find", "save", "note"} => jobs'[i].kind = "auto"
    BY <1>j, KindKept
  <2> QED BY <1>j, <2>1, <2>2, <2>3, SameWork
<1>1. ASSUME Push \/ TurnOn \/ TurnOff \/ RemoveService \/ UNCHANGED vars PROVE Owned'
  BY <1>1, <1>s DEF Push, TurnOn, TurnOff, RemoveService, vars
<1>2. ASSUME NEW c \in Checks, Webhook(c) \/ WatchTick(c) PROVE Owned'
  <2>1. checks[c].pc = "idle" /\ checks'[c].pc = "asked"
    BY <1>2, <1>t DEF Webhook, WatchTick, IdleChecks, NoCheck
  <2>2. \A d \in Checks \ {c} : checks'[d] = checks[d]
    BY <1>2, <1>t DEF Webhook, WatchTick
  <2>3. UNCHANGED <<jobs, busy, again, last>>
    BY <1>2 DEF Webhook, WatchTick
  <2> QED BY <1>c, <2>1, <2>2, <2>3
<1>3. ASSUME NEW c \in Checks, Enter(c) PROVE Owned'
  <2>1. \A d \in Checks \ {c} : checks'[d] = checks[d]
    BY <1>3, <1>t DEF Enter
  <2>2. jobs' = jobs /\ last' = last /\ checks[c].pc = "asked"
    BY <1>3 DEF Enter
  <2>3. CASE busy
    <3>1. checks'[c].pc = "idle" /\ again' = TRUE /\ busy' = busy /\ busy = TRUE
      BY <1>3, <1>t, <2>3 DEF Enter, NoCheck, TypeOK
    <3> QED BY <1>c, <2>1, <2>2, <3>1
  <2>4. CASE ~busy
    <3>1. busy' = TRUE /\ again' = again /\ checks' = [checks EXCEPT ![c].pc = "settings"]
      BY <1>3, <2>4, Zenon DEF Enter
    <3>c. checks'[c].pc = "settings"
      BY <3>1, <1>t
    <3>2. Looking = {} /\ Deploying = {}
      BY <2>4 DEF Owned, OneAtATime
    <3>3. Looking' = {c}
      BY <2>1, <3>c, <3>2, CheckMoves
    <3>4. Deploying' = {} /\ last' # "deploying"
      BY <2>2, <3>2 DEF Deploying, Owned, LastIsNotStuck
    <3>5. \A i \in JobSlots : jobs'[i].pc \in {"find", "save", "note"} => jobs'[i].kind = "auto"
      BY <1>k, <2>2
    <3> QED
      BY <3>1, <3>3, <3>4, <3>5 DEF Owned, OneAtATime, AgainIsInGoodHands, LastIsNotStuck
  <2> QED BY <2>3, <2>4
<1>d. ASSUME NEW c \in Looking, Done(c), jobs' = jobs, last' = last \/ last' # "deploying"
      PROVE  Owned'
  BY <1>d, DoneKeeps
<1>4. ASSUME NEW c \in Checks, FindSetting(c) PROVE Owned'
  <2>1. c \in Looking /\ jobs' = jobs /\ last' = last
    BY <1>4 DEF FindSetting, Looking
  <2>2. CASE Done(c)
    BY <1>d, <2>1, <2>2
  <2>3. CASE ~Done(c)
    <3>1. /\ checks' = [checks EXCEPT ![c].pc = "running", ![c].failed = setting.failed]
          /\ busy' = busy /\ again' = again
      BY <1>4, <2>3, Zenon DEF FindSetting
    <3>2. checks'[c].pc = "running" /\ \A d \in Checks \ {c} : checks'[d] = checks[d]
      BY <3>1, <1>t
    <3> QED BY <1>l, <2>1, <3>1, <3>2
  <2> QED BY <2>2, <2>3
<1>5. ASSUME NEW c \in Checks, LookForJobs(c) PROVE Owned'
  <2>1. c \in Looking /\ jobs' = jobs /\ (last' = last \/ last' # "deploying")
    BY <1>5 DEF LookForJobs, Looking
  <2>2. CASE Done(c)
    BY <1>d, <2>1, <2>2
  <2>3. CASE ~Done(c)
    <3>1. /\ checks' = [checks EXCEPT ![c].pc = "state", ![c].after = FALSE]
          /\ busy' = busy /\ again' = again /\ last' = last
      BY <1>5, <2>3, Zenon DEF LookForJobs
    <3>2. checks'[c].pc = "state" /\ \A d \in Checks \ {c} : checks'[d] = checks[d]
      BY <3>1, <1>t
    <3> QED BY <1>l, <2>1, <3>1, <3>2
  <2> QED BY <2>2, <2>3
<1>6. ASSUME NEW c \in Checks, ReadService(c) PROVE Owned'
  <2>1. c \in Looking /\ jobs' = jobs /\ (last' = last \/ last' # "deploying")
    BY <1>6 DEF ReadService, Looking
  <2>2. CASE Done(c)
    BY <1>d, <2>1, <2>2
  <2>3. CASE ~Done(c)
    <3>1. /\ checks' = [checks EXCEPT ![c].pc = "tip", ![c].deployed = deployed]
          /\ busy' = busy /\ again' = again /\ last' = last
      BY <1>6, <2>3, Zenon DEF ReadService
    <3>2. checks'[c].pc = "tip" /\ \A d \in Checks \ {c} : checks'[d] = checks[d]
      BY <3>1, <1>t
    <3> QED BY <1>l, <2>1, <3>1, <3>2
  <2> QED BY <2>2, <2>3
<1>7. ASSUME NEW c \in Checks, AskTip(c) PROVE Owned'
  <2>1. c \in Looking /\ jobs' = jobs /\ (last' = last \/ last' # "deploying")
    BY <1>7 DEF AskTip, Looking
  <2>2. CASE Done(c)
    BY <1>d, <2>1, <2>2
  <2>3. CASE ~Done(c)
    <3>1. /\ checks'[c].pc = "plan" /\ busy' = busy /\ again' = again /\ last' = last
          /\ \A d \in Checks \ {c} : checks'[d] = checks[d]
      BY <1>7, <1>t, <2>3 DEF AskTip, NoCheck
    <3> QED BY <1>l, <2>1, <3>1
  <2> QED BY <2>2, <2>3
\* The job that is started takes over what the check had.
<1>8. ASSUME NEW c \in Checks, PlanAndStart(c) PROVE Owned'
  <2>1. c \in Looking
    BY <1>8 DEF PlanAndStart, Looking
  <2>2. CASE Done(c) /\ jobs' = jobs
    <3>1. last' = last \/ last' # "deploying"
      BY <1>8, <2>2, <1>t DEF PlanAndStart, NoDeploy
    <3> QED BY <1>d, <2>1, <2>2, <3>1
  <2>3. CASE ~(Done(c) /\ jobs' = jobs)
    <3>1. PICK j \in JobSlots :
            /\ jobs[j].pc = "none"
            /\ jobs' = [jobs EXCEPT ![j] = [NoDeploy EXCEPT !.pc = "queued",
                                                            !.tip = checks[c].tip]]
            /\ checks' = [checks EXCEPT ![c] = NoCheck]
            /\ last' = "deploying" /\ busy' = busy /\ again' = again
      BY <1>8, <2>3 DEF PlanAndStart
    <3>2. Looking = {c} /\ Deploying = {} /\ busy = TRUE
      BY <2>1 DEF Owned, OneAtATime, TypeOK
    <3>3. Looking' = {}
      <4>1. checks'[c].pc = "idle" /\ \A d \in Checks \ {c} : checks'[d] = checks[d]
        BY <3>1, <1>t DEF NoCheck
      <4> QED BY <4>1, <3>2, CheckMoves
    <3>4. jobs'[j].pc = "queued" /\ jobs'[j].kind = "auto"
      BY <3>1, <1>t DEF NoDeploy
    <3>5. \A i \in JobSlots \ {j} : jobs'[i] = jobs[i]
      BY <3>1, <1>t
    <3>6. Deploying' = {j}
      BY <3>2, <3>4, <3>5, JobMoves
    <3>7. \A i \in JobSlots : jobs'[i].pc \in {"find", "save", "note"} => jobs'[i].kind = "auto"
      BY <3>4, <3>5, <1>k
    <3>8. busy' = TRUE
      BY <3>1, <3>2
    <3> QED BY <3>3, <3>6, <3>7, <3>8 DEF Owned, OneAtATime, AgainIsInGoodHands, LastIsNotStuck
  <2> QED BY <2>2, <2>3
<1>9. ASSUME NEW j \in JobSlots, StartByHand(j) PROVE Owned'
  <2>1. jobs'[j].pc = "queued" /\ jobs'[j].kind = "manual" /\ jobs[j].pc = "none"
    BY <1>9, <1>t DEF StartByHand, NoDeploy
  <2>2. (\A i \in JobSlots \ {j} : jobs'[i] = jobs[i]) /\ UNCHANGED <<checks, busy, again, last>>
    BY <1>9, <1>t DEF StartByHand
  <2>3. j \notin Deploying
    BY <2>1 DEF Deploying
  <2> QED BY <1>j, <2>1, <2>2, <2>3
<1>10. ASSUME NEW j \in JobSlots, Fetch(j) PROVE Owned'
  <2>1. jobs'[j].pc = "fetched" /\ jobs'[j].kind = jobs[j].kind /\ jobs[j].pc = "queued"
    BY <1>10, <1>t DEF Fetch, JobRecords
  <2>2. (\A i \in JobSlots \ {j} : jobs'[i] = jobs[i]) /\ UNCHANGED <<checks, busy, again, last>>
    BY <1>10, <1>t DEF Fetch
  <2>3. j \in Deploying <=> jobs[j].kind = "auto"
    BY <2>1 DEF Deploying
  <2> QED BY <1>j, <2>1, <2>2, <2>3
<1>11. ASSUME NEW j \in JobSlots, Deployed(j) \/ DeployFailed(j) PROVE Owned'
  <2>1. PICK ok \in BOOLEAN : Returned(j, ok) /\ jobs[j].pc \in {"queued", "fetched"}
    BY <1>11 DEF Deployed, DeployFailed
  <2>2. (\A i \in JobSlots \ {j} : jobs'[i] = jobs[i]) /\ UNCHANGED <<checks, busy, again, last>>
    BY <1>11, <2>1, <1>t DEF Returned, Deployed, DeployFailed
  <2>3. j \in Deploying <=> jobs[j].kind = "auto"
    BY <2>1 DEF Deploying
  <2>4. CASE jobs[j].kind = "auto"
    <3>1. jobs'[j].pc = "find" /\ jobs'[j].kind = "auto"
      BY <2>1, <2>4, <1>t DEF Returned, JobRecords
    <3> QED BY <1>j, <2>2, <2>3, <2>4, <3>1
  <2>5. CASE jobs[j].kind # "auto"
    <3>1. jobs'[j].pc = "ending" /\ jobs'[j].kind = "manual"
      BY <2>1, <2>5, <1>t DEF Returned, NoDeploy
    <3> QED BY <1>j, <2>2, <2>3, <2>5, <3>1
  <2> QED BY <2>4, <2>5
<1>12. ASSUME NEW j \in JobSlots, RememberFind(j) \/ RememberSave(j) PROVE Owned'
  <2>1. jobs[j].pc \in {"find", "save"} /\ jobs[j].kind = "auto"
    BY <1>12, <1>k DEF RememberFind, RememberSave, SaveFound
  <2>2. jobs'[j].pc \in {"save", "note"} /\ jobs'[j].kind = "auto"
    BY <1>12, <2>1, <1>t DEF RememberFind, RememberSave, SaveFound, JobRecords
  <2>3. (\A i \in JobSlots \ {j} : jobs'[i] = jobs[i]) /\ UNCHANGED <<checks, busy, again, last>>
    BY <1>12, <1>t DEF RememberFind, RememberSave, SaveFound
  <2>4. j \in Deploying
    BY <2>1 DEF Deploying
  <2> QED BY <1>j, <2>2, <2>3, <2>4
<1>13. ASSUME NEW j \in JobSlots, NoteAndDone(j) PROVE Owned'
  <2>1. jobs[j].pc = "note" /\ jobs[j].kind = "auto"
    BY <1>13, <1>k DEF NoteAndDone, LastNote
  <2>2. Deploying = {j} /\ Looking = {}
    BY <2>1 DEF Owned, OneAtATime, Deploying
  <2>3. jobs'[j].pc = "ending" /\ \A i \in JobSlots \ {j} : jobs'[i] = jobs[i]
    BY <1>13, <1>t DEF NoteAndDone, LastNote, NoDeploy
  <2>4. Deploying' = {}
    BY <2>2, <2>3, JobMoves
  <2>5. Looking' = {}
    <3>1. CASE again
      <4>1. PICK c \in Checks : checks' = [checks EXCEPT ![c] =
              [NoCheck EXCEPT !.pc = "asked", !.by = "webhook", !.after = TRUE]]
        BY <1>13, <3>1 DEF NoteAndDone, LastNote, IdleChecks
      <4>2. checks'[c].pc = "asked" /\ \A d \in Checks \ {c} : checks'[d] = checks[d]
        BY <4>1, <1>t DEF NoCheck
      <4> QED BY <4>2, <2>2, CheckMoves
    <3>2. CASE ~again
      BY <1>13, <3>2, <2>2 DEF NoteAndDone, LastNote, Looking
    <3> QED BY <3>1, <3>2
  <2>6. busy' = FALSE /\ again' = FALSE /\ last' # "deploying"
    BY <1>13 DEF NoteAndDone, LastNote, Outcome
  <2>7. \A i \in JobSlots : jobs'[i].pc \in {"find", "save", "note"} => jobs'[i].kind = "auto"
    BY <2>3, <1>k
  <2> QED
    BY <2>4, <2>5, <2>6, <2>7 DEF Owned, OneAtATime, AgainIsInGoodHands, LastIsNotStuck
<1>14. ASSUME NEW j \in JobSlots, RecordEnd(j) PROVE Owned'
  <2>1. jobs[j].pc = "ending" /\ jobs'[j].pc = "none"
    BY <1>14, <1>t DEF RecordEnd, NoDeploy
  <2>2. (\A i \in JobSlots \ {j} : jobs'[i] = jobs[i]) /\ UNCHANGED <<checks, busy, again, last>>
    BY <1>14, <1>t DEF RecordEnd
  <2>3. j \notin Deploying
    BY <2>1 DEF Deploying
  <2> QED BY <1>j, <2>1, <2>2, <2>3
<1>15. ASSUME Crash PROVE Owned'
  <2>1. Looking' = {} /\ Deploying' = {}
    BY <1>15 DEF Crash, Looking, Deploying, NoCheck, NoDeploy
  <2>2. \A j \in JobSlots : jobs'[j].pc = "none"
    BY <1>15 DEF Crash, NoDeploy
  <2>3. busy' = FALSE /\ again' = FALSE /\ last' = "none"
    BY <1>15 DEF Crash
  <2> QED
    BY <2>1, <2>2, <2>3 DEF Owned, OneAtATime, AgainIsInGoodHands, LastIsNotStuck
<1> QED
  BY <1>1, <1>2, <1>3, <1>4, <1>5, <1>6, <1>7, <1>8, <1>9, <1>10, <1>11, <1>12, <1>13, <1>14,
     <1>15 DEF Next, Check, Work

----------------------------------------------------------------------------
(* What runs only moves forward.                                             *)

LEMMA InitAhead == Init => Ahead
BY Constants DEF Init, Ahead, NoDeploy

\* Nobody fetches and nothing is deployed: whoever still has the turn has what
\* it had.
LEMMA SameTurn ==
  ASSUME Ahead, deployed' = deployed, branch' = branch,
         \A j \in JobSlots : jobs'[j].pc = "fetched" =>
           jobs[j].pc = "fetched" /\ jobs'[j].commit = jobs[j].commit
  PROVE  Ahead'
BY DEF Ahead

LEMMA StepAhead ==
  ASSUME TypeOK, Ahead, [Next]_vars
  PROVE  Ahead' /\ (present' => deployed' >= deployed)
<1>t. /\ jobs \in [JobSlots -> JobRecords] /\ Commits \subseteq Nat
      /\ branch \in Nat /\ deployed \in Nat
      /\ \A j \in JobSlots : jobs[j].commit \in Nat
  BY Constants DEF TypeOK, JobRecords
<1>o. ASSUME UNCHANGED <<deployed, branch, jobs>>
      PROVE  Ahead' /\ (present' => deployed' >= deployed)
  BY <1>o, <1>t, SameTurn
\* One job moves, to where it does not have the turn.
<1>j. ASSUME NEW j \in JobSlots, UNCHANGED <<deployed, branch>>, jobs'[j].pc # "fetched",
             \A i \in JobSlots \ {j} : jobs'[i] = jobs[i]
      PROVE  Ahead' /\ (present' => deployed' >= deployed)
  BY <1>j, <1>t, SameTurn
<1>1. ASSUME Push PROVE Ahead' /\ (present' => deployed' >= deployed)
  BY <1>1, <1>t DEF Push, Ahead
<1>2. ASSUME RemoveService PROVE Ahead' /\ (present' => deployed' >= deployed)
  BY <1>2, <1>t DEF RemoveService, Ahead
<1>3. ASSUME TurnOn \/ TurnOff \/ UNCHANGED vars
      PROVE  Ahead' /\ (present' => deployed' >= deployed)
  BY <1>3, <1>o DEF TurnOn, TurnOff, vars
<1>4. ASSUME NEW c \in Checks, Webhook(c) \/ WatchTick(c) \/ Enter(c) \/ FindSetting(c)
                                 \/ LookForJobs(c) \/ ReadService(c) \/ AskTip(c)
      PROVE  Ahead' /\ (present' => deployed' >= deployed)
  BY <1>4, <1>o DEF Webhook, WatchTick, Enter, FindSetting, LookForJobs, ReadService, AskTip
<1>5. ASSUME NEW c \in Checks, PlanAndStart(c)
      PROVE  Ahead' /\ (present' => deployed' >= deployed)
  <2>1. UNCHANGED <<deployed, branch>>
    BY <1>5 DEF PlanAndStart
  <2>2. CASE jobs' = jobs
    BY <2>1, <2>2, <1>o
  <2>3. CASE jobs' # jobs
    <3>1. PICK j \in JobSlots :
            jobs' = [jobs EXCEPT ![j] = [NoDeploy EXCEPT !.pc = "queued",
                                                         !.tip = checks[c].tip]]
      BY <1>5, <2>3 DEF PlanAndStart
    <3>2. jobs'[j].pc = "queued" /\ \A i \in JobSlots \ {j} : jobs'[i] = jobs[i]
      BY <3>1, <1>t DEF NoDeploy
    <3> QED BY <2>1, <3>2, <1>j
  <2> QED BY <2>2, <2>3
<1>6. ASSUME NEW j \in JobSlots, StartByHand(j)
      PROVE  Ahead' /\ (present' => deployed' >= deployed)
  <2>1. jobs'[j].pc = "queued" /\ \A i \in JobSlots \ {j} : jobs'[i] = jobs[i]
    BY <1>6, <1>t DEF StartByHand, NoDeploy
  <2> QED BY <1>6, <2>1, <1>j DEF StartByHand
\* The turn on the container is what makes the fetched commits come in order.
<1>7. ASSUME NEW j \in JobSlots, Fetch(j)
      PROVE  Ahead' /\ (present' => deployed' >= deployed)
  <2>1. /\ jobs'[j].commit = branch /\ UNCHANGED <<deployed, branch>>
        /\ \A i \in JobSlots \ {j} : jobs'[i] = jobs[i] /\ jobs[i].pc # "fetched"
    BY <1>7, <1>t DEF Fetch, JobRecords
  <2> QED BY <2>1, <1>t DEF Ahead
<1>r. ASSUME NEW j \in JobSlots, NEW ok \in BOOLEAN, Returned(j, ok)
      PROVE  /\ jobs'[j].pc # "fetched"
             /\ \A i \in JobSlots \ {j} : jobs'[i] = jobs[i]
  <2>1. CASE jobs[j].kind = "auto"
    BY <1>r, <2>1, <1>t DEF Returned, JobRecords
  <2>2. CASE jobs[j].kind # "auto"
    BY <1>r, <2>2, <1>t DEF Returned, NoDeploy
  <2> QED BY <2>1, <2>2
<1>8. ASSUME NEW j \in JobSlots, Deployed(j)
      PROVE  Ahead' /\ (present' => deployed' >= deployed)
  <2>1. jobs'[j].pc # "fetched" /\ \A i \in JobSlots \ {j} : jobs'[i] = jobs[i]
    BY <1>8, <1>r DEF Deployed
  <2>2. \A i \in JobSlots : jobs'[i].pc # "fetched"
    BY <1>8, <2>1 DEF Deployed, Ahead
  <2>3. deployed' = jobs[j].commit /\ branch' = branch /\ jobs[j].pc = "fetched"
    BY <1>8 DEF Deployed
  <2> QED BY <2>2, <2>3, <1>t DEF Ahead
<1>9. ASSUME NEW j \in JobSlots, DeployFailed(j)
      PROVE  Ahead' /\ (present' => deployed' >= deployed)
  BY <1>9, <1>r, <1>j DEF DeployFailed
<1>10. ASSUME NEW j \in JobSlots,
              RememberFind(j) \/ RememberSave(j) \/ NoteAndDone(j) \/ RecordEnd(j)
       PROVE  Ahead' /\ (present' => deployed' >= deployed)
  <2>1. jobs'[j].pc # "fetched" /\ \A i \in JobSlots \ {j} : jobs'[i] = jobs[i]
    BY <1>10, <1>t DEF RememberFind, RememberSave, SaveFound, NoteAndDone, LastNote, RecordEnd,
                       NoDeploy, JobRecords
  <2>2. UNCHANGED <<deployed, branch>>
    BY <1>10 DEF RememberFind, RememberSave, SaveFound, NoteAndDone, LastNote, RecordEnd
  <2> QED BY <2>1, <2>2, <1>j
\* What the agent was at may still have been deployed; nothing older than that.
<1>11. ASSUME Crash PROVE Ahead' /\ (present' => deployed' >= deployed)
  <2>1. \A j \in JobSlots : jobs'[j].pc = "none"
    BY <1>11 DEF Crash, NoDeploy
  <2>2. branch' = branch /\ deployed <= deployed' /\ deployed' <= branch
    BY <1>11, <1>t DEF Crash, Ahead
  <2> QED BY <2>1, <2>2, <1>t DEF Ahead
<1> QED
  BY <1>1, <1>2, <1>3, <1>4, <1>5, <1>6, <1>7, <1>8, <1>9, <1>10, <1>11 DEF Next, Check, Work

----------------------------------------------------------------------------
(* The theorems.                                                             *)

LEMMA InductiveAlways == Spec => []IInv
<1>1. Init => IInv
  BY InitTyped, InitOwned, InitAhead DEF IInv
<1>2. IInv /\ [Next]_vars => IInv'
  BY StepTyped, StepOwned, StepAhead DEF IInv
<1> QED BY <1>1, <1>2, PTL DEF Spec

\* However many webhooks, ticks, people, failures and restarts there are, one look
\* or one automatic deployment is under way and busy says so: checkBranch hands
\* busy to the job it starts, and each of them gives it back.
THEOREM OneCheckAtATime == Spec => []OneAtATime
<1>1. IInv => OneAtATime
  BY DEF IInv, Owned
<1> QED BY <1>1, InductiveAlways, PTL

\* The variables have their types, what again remembers has somebody who will
\* look again, and a last note of "deploying" has a deployment that will replace it.
THEOREM RememberedHasAnOwner == Spec => []AutoDeployInv
<1>1. IInv => AutoDeployInv
  BY DEF IInv, Owned, AutoDeployInv
<1> QED BY <1>1, InductiveAlways, PTL

\* The turn on the container orders fetching and deploying, so no deployment -
\* by hand, by the branch, or cut off by a restart - puts back an older commit.
THEOREM NothingGoesBackwards == Spec => NeverBackwards
<1>1. IInv /\ [Next]_vars => [present' => deployed' >= deployed]_deployed
  BY StepAhead DEF IInv
<1> QED BY <1>1, InductiveAlways, PTL DEF Spec, NeverBackwards
================================================================================
