# Opencroft, specified

TLA+ modules of the program in this repository, the TLC configurations that
check them on small instances, and theorems that the TLA+ proof system checks
for instances of every size. Paths below are relative to `src/`.

    tlc -workers 2 -config Turns.cfg MCTurns.tla      # a run
    tlapm Turns_proofs.tla                            # the proofs

## The system

Opencroft ("croft") runs services in system containers of one host. There are
two processes. The *panel* (`cmd/croft`, `internal/server`) serves the web
interface and keeps users, sessions, the history of jobs and the settings of
automatic deployment in sqlite. The *agent* (`internal/agent`) is the only one
that runs as root: it owns containers, nginx, certificates and databases, and
keeps **no state of its own** — what it knows about a service is written on the
container as annotations and read back for every request. The panel turns a
click into a *plan* (a list of commands shown before it is approved) and a
*job* in the background that walks the plan by calling the agent, whose answer
is a stream of progress lines.

| Component | State | Operations | Hard behaviour |
|---|---|---|---|
| Background jobs (`shared/job`) | jobs in memory, their events, listeners | start, forget, find, subscribe, cancel | a goroutine per job, streams that come and go, the daemon dying |
| Journal (`auth/infrastructure/sqlite/job.repository.go`) | a row per job | record, prune, settle, find, recent | writes that fail, rows a restart left running |
| Automatic deployment (`server/autodeploy.go`, `autodeploy`) | settings in sqlite; `busy`, `again`, `last` in memory | turn on and off, webhook, watch, check, deploy, remember | webhooks, ticks, people and jobs at once |
| Turns (`agent/turns.go`, `stream.go`) | a channel of one per container | take, wait, give up, give back | cancellation racing the turn |
| Services (`agent/services.go`, `deploy`) | annotations, index, checkout, unit, environment, snapshots | inspect, deploy, redeploy, destroy, roll back, prune | a plan made before a wait, steps that fail halfway, a rollback of the whole container |
| Snapshots, properties, environment (`agent/snapshots.go`, `properties.go`, `environment.go`) | the same | remove a snapshot, save properties, edit the environment | what was read before the wait, edits over ssh |
| Adoption (`agent/adopt.go`, `adopt_site.go`) | annotations | find, adopt, release | nothing may be touched |
| Databases (`agent/databases*.go`, `database`) | engines in containers, credentials, logins, an index | provision, drop, adopt, share, let go | a credential with its two ends in two containers |
| Routes (`route`, `agent/expose.go`, `aliases.go`, `takeover.go`) | virtual hosts of nginx | write, remove, alias, take over | test, reload and undo; no lock |
| Certificates (`certificate`, `agent/tls.go`, `renew.go`, `wildcard.go`) | PEM files, an ACME account | issue, store, renew | several files, issued over minutes, looked at twice a day |
| Containers (`instance`) | the runtime's own | create, delete, addresses | address chosen before it is used |
| Projects and drift (`project`, `shared/reconcile`, `overview`) | networks, annotations | create, assign, remove, compare | check then act |
| Users (`auth`) | users, sessions, attempts | log in, lock out, expire | many logins at once, windows of time |
| Agent's client, updates (`agent/client.go`, `update`) | version of the agent | handshake, replace | the two at different versions |

### What makes each part correct

- *Jobs, journal*: a running job can be found, watched and cancelled; a stream
  is in order, whole and ends; no row claims an outcome that was not, and none
  stays "running" for a job nobody runs.
- *Automatic deployment*: one look or deployment of a service at a time, no push
  lost, no failing commit tried for ever, nothing deployed goes backwards, off
  means off.
- *Turns*: one writer per container, first come first served, no turn lost.
- *Services*: there is always a snapshot to come back to; snapshots do not pile
  up; what is recorded is what runs; nobody's edit is overwritten.
- *Routes*: nginx can start from what is on disk at every moment; what croft
  wrote is what nginx serves; a name, its certificate and what people wrote by
  hand go only in a request about that very name.
- *Certificates*: nothing that is served expires; a certificate matches its key;
  what is due is renewed; certbot goes on renewing what is still read.
- *Databases*: data is dropped only where a copy stays; a password somebody holds
  is not changed; one consumer never cuts off another, and can always let go.
- *Containers, projects*: no address given twice; a container is in no project
  but a declared one.
- *Signing in*: guesses are bounded however logins interleave; a lock-out holds,
  and ends.

## Modules

| Module | About | Runs |
|---|---|---|
| `JobRunner` | `job.go` and `job.repository.go` across restarts of the daemon | `JobRunner_*.cfg` |
| `JobRunner_proofs` | theorems about `JobRunner` | tlapm |
| `AutoDeploy` | `autodeploy.go`, for one service of one container | `AutoDeploy_*.cfg` |
| `AutoDeploy_proofs` | theorems about `AutoDeploy` | tlapm |
| `OneWriter` | what the turns promise: a lock per container | – |
| `Turns` | `turns.go`, the channel with its waiting senders | `Turns*.cfg` |
| `Turns_proofs` | theorems about `Turns` | tlapm |
| `Deployments` | the plans of `planner.go` as the handlers of the agent walk them, on one container | `Deployments*.cfg` |
| `Deployments_proofs` | theorems about `Deployments` | tlapm |
| `Vhosts` | what a vhost says, how nginx reads the files, which routes the agent finds in them: no state | – |
| `Routes` | every request about a domain, and the agent's retries, over the disk and nginx | `Routes*.cfg` |
| `Routes_proofs` | theorems about `Routes` | tlapm |
| `Certificates` | issuing, storing, renewing and reloading, in half months | `Certificates*.cfg` |
| `Certificates_proofs` | theorems about `Certificates` | tlapm |
| `Machines` | containers and databases: the plans, and what each command does: no state | – |
| `Containers` | the requests that walk those plans | `Containers*.cfg` |
| `Containers_proofs` | theorems about `Containers` | tlapm |
| `SignIn` | attempts and the login handler | `SignIn.cfg` |
| `SignIn_proofs` | theorems about `SignIn` | tlapm |
| `MC*` | the small instances | |

The modules meet at their interfaces. The jobs `AutoDeploy` starts are those of
`JobRunner`, seen only through what `running()` reads (a row that says running
from the first write to the last); the turn its `Fetch` waits for is the one of
`Turns`; `Deployments` and `Containers` take a turn as one atomic step (`Begin`,
`HasTurn`), which is what `Turns` shows to be sound (`TurnIsHeldOnce`,
`ImplementsOneWriter`). `Routes` takes no turn, because the agent takes none for
domains (`stream` and not `streamOn`); the certificates it issues are only there or
not, their age and their files are in `Certificates`.

### JobRunner

State: `memory` is `Runner.jobs`, `phase[j]` where the goroutine of Start is,
`status`, `events`, `started`, `ended`, `stopped` the fields of the job,
`journal[j]` its row, `listeners[j]` the registered channels, `client[c]` each
channel with what was taken from it. Every place the goroutine releases a lock
ends an action: insertion with `forget` (155-158), the first write (159), setting
`j.stop` (167-169), each event, the return (179-187), the End event (189-195), the
last write (196), `closeListeners` (197). Times are positions in an order, as the
code only compares them; events are their positions; a plan's steps, their
texts and the blanking of secrets (`Kept`) are left out. A write of the journal
is an upsert and a prune, each of which may fail.

`Crash` forgets memory and cuts every goroutine off; `Settle` must succeed before
the daemon serves (`main.go` exits otherwise).

### AutoDeploy

State: the end of the branch, what the container says is deployed, the setting,
`busy`, `again`, `last`; `checks` the goroutines inside `checkBranch`, `jobs` the
deployments of this service by whoever started them. One action per call
`checkBranch` makes: each read of a table, of the container, of the repository
may fail, and each is a moment at which others move. A goroutine that `done`
starts for `again` is given a free slot of `Checks`; the guards of `Webhook` and
`WatchTick` keep one free, so that no bound of the model ever blocks `done`.

### OneWriter, Turns

`turn[c]` is the number of tokens in the channel, `queue[c]` Go's queue of
blocked senders. `Take` is a send that does not block - from either select,
`SayWaiting` the default case, `Park` the blocking select, `GiveUp` its
`ctx.Done` case, `Finish` the deferred receive, which hands the freed place to
the sender that has waited longest (`PassOn`), or empties the channel. `Handlers`
is what the handlers of the agent take and write: *own* is every caller of
`streamOn` that writes to the container it takes the turn of
(`services.go:763,988,1190`, `snapshots.go:92`, `properties.go:125`,
`environment.go:179`, `power.go:34`, `units.go:150`, `adopt.go:311`,
`databases.go:173,247`, `databases-adopt.go:117`, `server.go:273`), *host* the
callers of `stream` that only write to the host, *share* and *inspect* the two that
write to a container they have no turn on (`databases-share.go:178` writes to the
provider with the consumer's turn; `services.go:601-632` takes a snapshot and
checks out with none).

### Deployments

One container: `box` has the index and the annotations of each service (`config`),
and its files (`disk`: checkout, unit, environment, and what the running process
was started from). `snaps` are copies of `box`, `before` is the container as the
job at work found it. A plan is a sequence of `<<what, argument>>`; the handlers
that plan before they wait (`destroyPlan`, `rollbackPlan`, `snapshotRemoval`,
`configurePlan`) store it in the job when it is asked for, those that plan at
their turn (`runDeployment`, `changeEnvironment`) build it in `Begin`. A step
that fails, or a request that is cut off, is `Fail`: optional steps are passed
over, others end the job where it stands. `remember` writes its keys in the order
Go ranges over a map, so a cut leaves any subset of them.

Abstracted: the properties a form always fills in are one number, those it may
leave empty (health, build, packages) one boolean - the difference matters,
because `Record` leaves empty values out and `remember` therefore never clears
one. A commit is a number; an environment file is a value; names of snapshots
are numbers, with `Longer` for a service named like another and something more
(`app`, `app-web`), whose snapshots match the other's prefix. A service may be one
deployed before fingerprints were kept (`properties.go:79-82`): it has none at the start.

`cut` is not in the code, and no guard reads it. It remembers the services a property
about the others leaves out: those a failed job left halfway, those whose record a
plan spoiled that had been made before its turn and was no longer right - a fingerprint
that is not the one of what runs, a saved change without one (`Save`) - and those such a
plan listed again after they had been removed (`WriteIndex`). Each way in has its own
counterexample below.

### Vhosts, Routes

A file (`Vhosts`) is croft's, named after the route's domain, or somebody's by
hand; what it says is a record `[to, path, cert, aliases, by]`, the text and the
markers around it are left out. `FindByDomain` and `Domains` are what
`nginx-route.repository.go` finds when it parses `nginx -T`: croft's directory is
included first, and a name two files claim is answered by the first of them.
`Loadable` is `nginx -t`: every certificate named by a file is there.

`Routes` keeps the disk, what nginx loaded, the certificate directories, certbot's
renewal files, what was put aside and whose DNS points here. A request is
prepared when it comes, from the disk as it is then - the panel sends a whole
route for an addition, an edit or a path, and the agent reads again for
everything else - and goes through its steps one at a time: `move`, `reach`,
`issue`, `write`, `test`, `rm`, `drop`, `retire`. `WriteVhost` keeps what was there,
`Reload` loads what is on disk if nginx can, `Refused` puts back what was written
if it cannot or the request was cancelled; the `rm` of a removal is not a file to
put back. A promotion writes the successor and then removes the old file. `Retry`
is the agent's `reachability.go`: it lists who waits for the DNS (`RetryLook`) and
tries one after another (`RetryNext`, `CertifyAlias`); a restart forgets the list and
nothing else. `HandEdit` is somebody with an editor, `PointDNS` a name that starts
to point here, `CutShort` a request cancelled between two steps.

### Certificates

Time is in half months; `left` is what a file has left, `served` what nginx
loaded. The renewer lists what is due (`Look`), takes one name after another
(`RenewNext`), obtains, stores two files in either order (`acme.go` ranges over a
map), and reloads. People issue from the panel (`EnableTLS`, `IssueWildcard`,
`ServeCovered`) and with the command line (`CertIssue`). The
authority may not answer for `MaxOutage` half months in a row; the DNS
provider's credentials may not be there until somebody saves them. The
exchange with the authority is one step that succeeds or fails.

### Machines, Containers

`Machines` has the plans of `instance`, `project` and `database` as sequences of
commands, and `Does(host, step, new)`: the hosts a command may leave behind, none
when it cannot but fail. A machine is whether it is there and runs, its address,
its project, what each database holds (`data`, a number made once), the logins
in it, the credentials it holds (`env`), the index and the keys written on it,
and what its snapshots keep. Passwords are numbers; redis is a database whose
engine has no logins. `FailsWith` is what a failing command leaves: the same host,
or a part or the whole of what it does, for those that are several commands or
whose answer may get lost.

`Containers` asks, refuses, waits and walks: `Ask*` is a handler of the panel and
the plan of the agent, from the host as it is when it is asked for; `Walk` and
`Fail` are `shared/plan`. A password or what a database holds is made once, a number
nothing has yet (`New`), without a bound. Two variables are not in the code: `crossed` is
raised once two requests are under way at the same time, and is a premise of the
properties that the code only keeps for requests that come one at a time (`Recoverable`
and `TypeOK` do without it); `gone` are the containers that were ever destroyed, since one
made anew under the name of a destroyed one has logins of its own, which the
credentials of an old consumer say nothing about.

### SignIn

One action per hold of the mutex of `Attempts`: the look at the name, the look at
the source, the count of each, and `forget`. `byKey` has the failures, how long ago
the window began, and how long the lock-out still lasts; `recent` is not in the
code: it is how long ago each wrong password of the last window was counted, newest
first, for `GuessesAreBounded`.

## Runs

| Run | Instance | States | Shows |
|---|---|---|---|
| `jobs_journal` | 3 jobs, `Keep` 1, journal of 2, one failing write, one crash | 1.4 M | the journal tells the truth, outcomes are final, finished jobs are found, running ones are never forgotten |
| `jobs_streams` | 1 job with 2 steps, 2 clients, channels of 2 | 23 k | no orphan listener, whole stories in order, streams end, rows settle |
| `autodeploy_safety` | 3 goroutines, 2 jobs, 2 commits, a webhook, a person, a fault, a crash | 1.2 M | one at a time, `again` in good hands, `last` not stuck, never backwards |
| `autodeploy_live` | 2 goroutines, no faults | 304 k | the branch is followed, comes to rest |
| `autodeploy_off` | turned on twice | | violated: off does not forget |
| `turns` | 4 requests, 2 containers | 72 k | held once, sound queue, order, refinement, waiting ends |
| `deployments` | 1 service, 2 requests of any kind, `Keep` 1, 2 old snapshots, 2 commits, one failing step, edits over ssh, a service with a fingerprint or without | 595 k | a way back, no piling up, record is what runs, healthy is spared, the environment edited is the one that was read |
| `routes` | 3 names, a vhost taken over and one by hand that read the same certificate, 3 requests of any kind one after another, edits by hand | 89 k | what croft wrote is what nginx serves, no name, certificate or hand-written file is lost but by a request about it |
| `routes_retry` | an alias that waits, the retrier beside a request that is cancelled or not, the panel's own route, a restart | 4.6 k | nginx can always start; who waits gets a certificate |
| `certificates` | 2 names, one a wildcard, a renewer and a person, an authority away for a half month, a restart | 31 k | nothing expires while served, pairs match, what is due is renewed |
| `containers` | 2 containers, postgres and redis, 2 requests at a time and 3 in all, 2 projects, a failing step or a restart | 72 k | data dropped only with a copy, passwords match, others stay connected, one can let go, labels are declared |
| `signin` | 2 names from one place, 2 logins at a time | 211 k | guesses bounded, lock-outs hold and end |

`CHECK_DEADLOCK FALSE` is in every configuration whose requests are finite sets used
once: such an instance comes to an end when all are over, and a system nobody asks
anything of does stop. `Certificates` and `SignIn` never stop, since time goes on,
and are checked for deadlock.

**Bounds.** `Keep` (50, 3) and `Kept` (1000) are 1 or 2, so that they are exceeded
by the instance; nothing in the code depends on their values but the comparison.
Three jobs are one more than the journal holds and two more than memory does.
A channel of 2 with 2 steps and an End event fills up. Two commits suffice for
every order of "older" and "newer" between two deployments; a third goroutine
lets a webhook meet a tick and a check that `again` started. One fault at a
time: each single failing step is explored at every point, and a restart at
every point. Four requests on two containers make a queue of three. Two
requests about a container make every pair of "planned while the other
worked". A third request changes the same state in the same ways, but may start from a
state that two do not reach: the theorems are about any number.

`routes` has **one request at a time**, up to three in a row. Nothing in the agent
locks domains, and with two at once the four properties about what is on disk do
not hold (`Routes_together.cfg`, below). `RoutesInv` does not need it: that nginx can
start is a theorem for any number of requests that remove no alias, and what the
removal of an alias may do is in `Routes_cut.cfg` and `Routes_unalias.cfg`. `containers` has
two at a time, and says with `crossed` which of its properties need one. A third
name in `routes` is the successor of a promotion that leaves another name alone.
In `certificates` a lifetime of six half months, renewal below two and an outage of
one are the three months, the month and a little under two weeks of the code and of
what it may meet; a restart may hit any moment but those inside storing a pair
and before the reload (both in `Certificates_restart.cfg`). In
`signin` a limit of 2, a window of 2 and a lock-out of 4 stand for 10 failures, 5
minutes and 15; what is used of them is that the lock-out is longer than the window
and that a login compares its password in less than a tick. Two logins at a time
make every late count; the theorem is about any number.

**Fairness.** Weak fairness of each goroutine: Go's scheduler runs whatever can
run. Work returns: each job has a context of 30 minutes (`job.go:164`), and the
agent's requests run under it. The ticker of `WatchBranches` ticks on, so the
*existence* of some tick is fair, not any particular one; the same for the retrier
of `reachability.go` and the renewer of `renew.go`. Strong fairness where something
may fail again and again and is tried again and again: the authority grants a
certificate and nginx takes a reload in the end (`Issued`, `Reload`), and the renewer
gets through its list. Time goes on (`Tick`, `HalfMonth`), and a half month is not over
before the agent has done what it could in it: it looks twice a day. A daemon that
died is started again by systemd. Nothing obliges a person, a webhook or a client to
do anything, with one exception: `CanLetGo` is about people who go on trying to let
go of a connection. `autodeploy_live` is without faults: a journal that cannot be
written really can block a service (below). `FollowsTheBranch` is stated as "again
and again", since a person may push, turn off or destroy at any time.

## Proofs

`Turns_proofs` proves, for every set of requests and containers:

- `TypeCorrect`, `TurnHeldOnce`, `TurnsSound`, `QueueSound`: `Spec => []TypeOK`,
  `[]TurnIsHeldOnce`, `[]TurnsInv` (the two together) and `[]QueueIsSound`.
- `ServedInOrder`: `Spec => FirstComeFirstServed`.
- `OneWriterAtATime` and `TurnsImplementOneWriter`: one writer per container, and the
  refinement of `OneWriter`, for `OnlyOwnTurns`: `Kinds` without *share* and
  *inspect*. The assumption is a premise of the theorems, not of the module, and
  `Turns_share.cfg` shows that it is needed.

The inductive invariant is
`TypeOK /\ WaitsForATurn /\ QueueIsSound /\ TurnIsHeldOnce`. The parts need each
other: that a handover goes to a request which is parked for this very container
and not yet its holder is `QueueIsSound`; that the channel is full while it has a
queue, so that the one who receives is the only holder, is `TurnIsHeldOnce`;
`WaitsForATurn` (whoever waits waits for a container, not for `NoTurn`) lets the
channel be indexed. There is one lemma per action; the hard one is the request
that gives up from the middle of a queue, with a lemma about the queue without
it. `OneWriterPerContainer` follows from `TurnIsHeldOnce` and from `OwnWork` (what
a job writes to is what it has the turn of), and for the refinement each action
is mapped: a `Take` begins, a `Finish` ends or hands over, `Restart` stops, the
rest stutter.

`SignIn_proofs` proves, for every limit above one, every window, every lock-out at
least two ticks longer than it, and any number of names, sources and logins:

- `TypeCorrect`: `Spec => []TypeOK`, so that a count stays below the limit.
- `GuessesStayBounded`: `Spec => []SignInInv`, that is `TypeOK` and `GuessesAreBounded`:
  at most `2 * Limit - 3` guesses and one for each login under way in any stretch as long
  as a window. `GuessesFit` relates a record to the observed guesses, by what the record
  is: *over* (fewer than `Limit - 1` guesses are left), *open* (all but the last
  `failures - 1` are at least as old as the window, and at most `failures + Limit - 2` in
  all), *locked* (the guesses and the logins still let through for the key are within
  the bound, and no guess came later than a tick after the lock-out began). The failure
  that locks is one of the logins let through, so that one fewer is left; each late one
  moves from those to the guesses; a tick that ends a window leaves only what came after
  its first failure (`FewFresh`, by counting positions); a tick that ends a lock-out
  leaves none, as it lasted more than a window and a tick.
- `LockOutHolds`: `Spec => LockHolds`. A login let in before a lock-out and counted
  during it finds a record of no failures whose window has begun: if that window
  were over, `Counted` would begin a new record and lift the lock-out. The invariant
  needs `LateInv`: whatever locks a key that a login under way has been cleared
  for came after it was let in, and so at most one tick ago, which is less than a
  window (`Late`). One case per action under `StepLate`; the theorem's own case is
  `CountNext`. The premise `Lock > Window + 1` is what makes a locked record one of this
  window and no earlier.

`AutoDeploy_proofs` proves, for any number of checks, jobs, commits, failures and
restarts:

- `OneCheckAtATime`: `Spec => []OneAtATime`, and `RememberedHasAnOwner`:
  `Spec => []AutoDeployInv`.
- `NothingGoesBackwards`: `Spec => NeverBackwards`.

The inductive invariant is `TypeOK /\ Owned /\ Ahead`. `Owned` adds to the checked
invariants only that a job which has something to remember is an automatic one; each
action then leaves the two sets of those who look and those who deploy as they are
(`SameWork`), empties them with `busy` (`DoneKeeps`), or - `Enter`, `PlanAndStart`,
`NoteAndDone` - moves the one member. `Ahead` says that the fetched commits lie between
what is deployed and the end of the branch, and that one job at most has fetched: that
is what the container's turn gives, and with it each deployment is at least as new as
the last, also one that outlived the restart of the daemon.

`JobRunner_proofs` proves, for any number of jobs, steps, clients, failing writes and
restarts, and any `Keep`, `JournalKept` and buffer:

- `RunningJobsStay`: `Spec => []JobRunnerInv`; `TheJournalIsTrue`:
  `Spec => []JournalTellsTheTruth`; `WhatIsOverIsFound`: `Spec => []FinishedIsFound`;
  `OutcomesStay`: `Spec => OutcomesAreFinal`.
- `NobodyListensInVain`: `Spec => []NoOrphanListener`; `StreamsAreWhole`:
  `Spec => []WholeStory`.

The inductive invariant is `TypeOK /\ Life /\ Told /\ Written /\ Listening`. `Life`
ties the phase of a goroutine to the status and to the times of its job, and puts every
job that runs in memory; it is what `forget` preserves, since it lets go of finished jobs
only. `Told` is that a row says no more than its job did. `Written` is that, as long as no
write failed, each job that is over has its row unless `JournalKept` later ones have
pushed it out; that the rows a prune leaves are the latest is a lemma (`NewestOf`). `Listening` is that a
channel is registered with one job, that this job's goroutine is still to close it, and
that what was got from it and what it holds is the story so far.

`Routes_proofs` proves, for any names, targets, wildcards, files at the start, requests,
cancellations, edits by hand, retries and restarts:

- `FilesAreWellFormed`: `Spec => []TypeOK`, and `HandWrittenFilesStay`:
  `Spec => []HandFilesKept`, for any number of requests at once.
- `NginxAlwaysStarts`: `Spec => []NginxStarts`, and with the two above
  `NothingBreaksNginx`: `Spec => []RoutesInv`, for `Kinds` without *unalias* - the
  premise that `Routes_cut.cfg` and `Routes_unalias.cfg` show to be needed - and any
  number of requests at once.
- `WhatIsWrittenIsServed`: `Spec => []NothingPending`, for one request at a time and no
  restart. Two requests break it (`Routes_together.cfg`), and so does a restart between
  a write and its reload.
- `CertbotsAreRenewed`: `Spec => []StillRenewed`, for one request at a time (and no
  `Retrier` between them), cancelled or not, with edits by hand and restarts, from files
  that are `Lone`: a name read from certbot's certificate is in one file, and is the own
  name of that file if it is croft's. Two requests break it, and so do an alias that is on
  certbot's certificate at first, or a name on it that two files claim then; croft writes
  neither.
- `HttpsIsKept`: `Spec => HttpsStays`, for one request at a time and no restart, whatever
  the files are at first, with cancellations, edits by hand and the retries of the agent. A
  restart between a write and its reload is enough to break it.
- `NoNameIsLost`: `Spec => NoNameIsTaken`, for one request at a time, none cancelled and
  none that exposes the panel, no restart, and files that are `Neat` at first; files that
  share no name are (`ApartNeat`). Each of these premises is needed. A removal promotes the
  first alias with the others in its file, and is cut before it removes the name: both files
  now claim the others, one of which may leave the first of them, and when the name is
  removed again the promotion writes the second without it. Exposing the panel at a name
  makes its route anew, without its aliases.

Where a premise is said to be needed and no configuration is named, take the `cfg` of
the run and change the one constant: TLC finds the property violated with three or four
requests (the files at first are then `shop`'s with two aliases of which one is on https,
or for exposing the panel on certificates of their own).

The inductive invariant of the second is `Typed /\ Safe`. nginx can start from the disk
only because it could from what is put back, and from what is about to be written:
`Safe` is that the disk, every file put aside, and everything a request holds - the route
it is to write, the file it would put back - name only certificates that are there, or
the one that the request itself obtains before it writes (`Backed`), and that nothing under
way drops a certificate (`Spares`). Routes are built from what is read of all the files,
so the lemmas underneath say where `CertOf`, `TargetOf` and the aliases of `FindByDomain`
come from: the first and the last file that claims a name exist (`HasGreatest`,
`FirstIsOne`, `LastIsOne`) and are on disk. `Theirs` adds to `HandFilesKept` that a file
by hand is only taken by its own name's takeover, which puts it aside in the same step.
`Calm` is that the one file nginx may not have loaded is the one whose reload comes next,
and that what a refusal would put back is what nginx has.

The last three speak of what the one request holds, over all its steps: what is about
to be written is a route that was computed several steps ago. `Planned` is the list of
what a request may be about to write in terms of the files it was computed from - a route
as asked, one promoted or removed, joined, left, taken over or secured - and is proved
once of the handlers; `PutReads` and its neighbours say how `CertOf` and `FileOf` change
when one file does. On these:

- `Kept`, of the first: the files are `Sound` (`Lone`, and each of certbot's
  certificates that is read is renewed), and so are they with what the request is to write,
  with what a refusal would put back, and with the file by hand restored; and the
  certificate it is about to retire is read by nobody (`Certified`). Retiring is the step
  after the reload, so that nobody reads it is not seen by the step itself.
- `Followed`, of the second: with nothing at its test each file says of its names what
  nginx loaded (`AllAlike`); what the request holds takes no name from https
  (`Upgrades`), and what comes back is what nginx loaded (`Follows`).
- `Ordered`, of the third: the files are `Neat` (somebody else's file shares its names
  with none, a name two of croft's claim is the own name of one of them, and a
  file with aliases is the one its own name is read from) but for a removal between its two
  steps, where they are once the name is gone, and the removal takes no other
  (`Careful`, `Spared`).

`HttpsStays` first spoke of every name on https. The proof found a case three requests do
not reach, and TLC confirmed it with five: an alias on https is also added, over http,
as a route of its own (`Routes_claims.cfg` has the two files); the first file is
edited by hand, its removal is refused at the reload, and the certificate that is then
asked for is refused. The property now leaves out the names two files claim.

`Vhosts` assumes that `NoFile` is none of the `Contents`, and so do all of these.

`Certificates_proofs` proves, for any names, lifetimes, slack, outages, requests and restarts:

- `TypeCorrect`: `Spec => []TypeOK`. It needs that a serial is free for each new issuance,
  a pigeonhole over the workers (`FreshIs`).
- `WhatIsStoredLoads`: `Spec => []CertificatesInv`, for `~AtOnce` and no restart in
  *half*: `Certificates_together.cfg` and `Certificates_restart.cfg` show that both are
  needed. The invariant `SafeInv` is that one works at a time, that what is served is
  stored, that all pairs match but the one being written, and that the file of this one
  which was written first is of the issuance at hand.
- `NothingExpires`: `Spec => []NeverExpired`, for `~AtOnce`, `~Again`, no restart in
  *half* or *reload*, no name of croft's known to certbot, and an outage that is shorter
  than the slack (`MaxOutage < RenewBelow`). Each premise has its counterexample among the
  configurations below. The invariant `TimeInv` adds `InTime` - once a look is over and the
  authority answered, everything stored has the slack; in the k-th half month of an
  outage the slack less k; after it the slack less the longest outage and the half month
  that passed - and `Loaded`: what is served is what is stored, but for the one name
  whose renewal is at *half* or *reload*, which is why no half month may pass there.

`Containers_proofs` proves, for any containers, databases, projects, requests, failures
and restarts:

- `TypeCorrect`: `Spec => []TypeOK`. It needs that there is always a number nothing has,
  a count of finitely many (`NewIsNew`).
- `LabelsStayDeclared`: `Spec => []ContainersInv`, for requests one at a time, as the
  property says.
- `NothingLost`: `Spec => Recoverable`, for any number of requests at once.
- `PasswordsKeepMatching`: `Spec => []PasswordsMatch`, for requests one at a time.
- `OthersStayConnected`: `Spec => LeavesOthersConnected`, for requests one at a time and
  one failure at most, as the property says.

Underneath are lemmas on what each of the commands does to the one container it is run
on (`Ordered`, `Written`, `HalfWritten`), and what each plan consists of, step by step
(`ProvisionSteps`, `DestroySteps` and so on). The invariant is
`Typed /\ Careful /\ Labelled`, with `Matching` for passwords and `Connecting` for
connections. `Careful` is that a *drop*
is on the container the request has the turn of, with a snapshot that may not fail right
before it, or just taken; and that whatever puts data into a container has its turn as
well, so that nothing gets in between. `Labelled` is what the one request under way is still to
do: it assigns what is declared, and removes what no container is labelled with.
`Matching` is that a container whose login is not there any more (`Stale`) still lists
the database, so that nobody is given another login for it before its credentials are
gone; it holds because a plan that takes a login away takes the credentials next and
before it touches the index, and a plan that makes one is for what is not listed (`Safe`).
`Connecting` is that credentials are of the container the keys name (`Directed`), for then
whoever is connected is seen by whoever would drop the data. As long as no step failed, keys
name a container only for what is listed, so that what is shared finds none; after one
that did, they may be left over, and the credentials of a second provider meet them for
the one step it takes to record the keys anew. A second failure there is the case the
property leaves out, described below.
`Straight` is what each step of a plan relies on for it: keys are recorded
right after the credentials and right before they are listed, and forgotten right
before they are not. TLC checked `Connecting` on two instances before, one of them with
three containers.

`Deployments_proofs` proves, for any services, jobs, requests, properties, snapshots,
failing steps and edits over ssh, and any `Keep`:

- `TypeCorrect`: `Spec => []TypeOK`; `BoundedAndTyped`: `Spec => []DeploymentsInv`.
- `AlwaysAWayBack`: `Spec => []WayBack`.
- `RecordsAreTrue`: `Spec => []RecordIsWhatRuns`.
- `HealthyIsSpared`: `Spec => PruneSparesHealthy`, for services no name of which goes on
  from another's (`Longer = {}`): `Deployments_prune.cfg` shows that it is needed.

None is inductive as it stands, because a job is a plan that is half walked. The
inductive invariant is `Inv` (`Invariant`), of eleven parts:

- `Typed`, which is stronger than `TypeOK`: every step of every plan, whoever made it, is
  of its type, and a snapshot names none that was taken after it.
- `Shaped`: what is left of a plan. Its steps come in order (`Ordered`, by the `Rank` of
  each), a step is followed by all that must come after it (`Whole`), the snapshot is
  left exactly as long as none was taken, and nothing deletes once it was. It is
  shown of each plan as it is put together (`Laying`, `Appended`) and kept by walking
  a step (`WalkShape`).
- `WayBack` and `HeldBack`: the snapshot taken is there, and is the service's own; it stays
  because the job at work is the only one that may delete, and deletes nothing any more.
- `EditsWhatItRead`: `Begin` reads the file again.
- `Rested`, `Preserved` and `OnItsWay`: a service nobody works on is good - it runs what
  its record says, or what was marked if it is marked - in the container and in every
  snapshot, which is what a rollback brings back; of the one worked on, each step that
  is not left any more is done: the unit is the one asked for once it is written, the
  process runs from it once it was started, the record has what was asked for once it
  is remembered (`Progress`), and a removal that has written the index is off it (`Removed`).
- `Owned`: with `Longer = {}`, what a service calls healthy is its own, and what is
  planned for pruning is of the service deployed and not the healthy one.
- `Bounded` and `NotPilingUp`: before the snapshot, all but `Keep` + 1 of the service's
  snapshots are planned for deletion. This is `Pruned`: as names are in a
  strict order, `Keep` of them at most have fewer than `Keep` after them (`FirstOnes`, a
  pigeonhole by counting those after). That the plan deletes all of them, one after another, is
  `DeletesAll`, from an injection into an interval of their number.

There is one lemma per action that says what it changes (`TakeEffect`, `DeleteEffect`,
`WorkEffect`, `FailEffect` and so on), and one per part of the invariant that goes through
the actions (`TypedStep`, `WayBackStep`, `RestedStep` ...). That a service without a
fingerprint could be given a wrong one by a plan that waited was found by this proof:
with more jobs `RecordIsWhatRuns` had a counterexample which two did not reach, and
`MarksWhatRuns` below is what remains of it.

Only model-checked: liveness (all of the leads-to properties), which is out of reach
of the installed provers, and `CanLetGo`, which speaks of ENABLED. Each invariant and
each action property of the passing runs is a theorem. What the configurations of the next section refute is not a theorem of any
module.

## Where the code and its documentation part

`autodeploy_off` is a run, with the sentence it contradicts in `PROJECT.json`. These
are reproduced by configurations beside the runs: TLC finds each property they name
violated. Several name more than one, each of which is; TLC stops at the first of them.

Jobs, deployments, turns:

- `JobRunner_window.cfg`: a client that subscribes between the End event and
  `closeListeners` misses the end, against `job.go:334-335`
  (`LateClientSeesTheWholeStory`); cancelling in the moment between Start and the
  goroutine setting `j.stop` is answered "it had already finished"
  (`write-handlers.go:383`; `RefusedCancelMeansFinished`).
- `AutoDeploy_again.cfg`: the look that "looked at again once the deployment is
  over" (`autodeploy.go:268`) promises finds the job still recorded as running and
  is turned away; the push waits for the next tick.
- `AutoDeploy_journal.cfg`: one failing write of a job's end leaves a row that says
  running, and the service no longer follows its branch until a restart.
- `Turns_share.cfg`: two jobs write to one container at once, against `turns.go:9`.
- `Deployments_first.cfg`: "the one taken before this deployment" is called healthy
  after a deployment that works, also when what ran before it did not
  (`services.go:793-795`; `HealthyIsWhatWorked`); two first deployments queued one
  behind the other both write the environment, against `services.go:336-338`
  (`FirstEnvironmentOnly`).
- `Deployments_first.cfg` also: a removal that fails between forgetting the keys and the
  index leaves a service that is listed and cannot be removed, against
  `planner.go:543-545` (`CanBeTriedAgain`).
- `Deployments_mark.cfg`: a service without a fingerprint is deployed with other
  properties while a saved change waits its turn, and that change records first, as what
  the service runs, what was stored when it was asked for (`MarksWhatRuns`, against
  "What is saved now is what it runs", `properties.go:79-82`). A change that is saved back
  to it then shows as running and is not.
- `Deployments_index.cfg`: a removal writes the index as it was when it was asked
  for (`services.go:1118`), so that a service removed meanwhile is listed again, or
  one deployed meanwhile is not, against `planner.go:609-610`.
- `Deployments_prune.cfg`: deploying `app` prunes snapshots of `app-web`, the one it
  calls healthy included (`snapshot.go:49-53`).

Domains:

- `Routes_together.cfg`: two requests at once. `NothingPending`: two writes of one file
  are refused and undone in the wrong order, so that what comes back was never
  loaded. `StillRenewed`: the renewal of a certificate is retired while the takeover of
  another name, whose file is moved aside and so not listed, is about to read it.
  `NoNameIsTaken`: a whole route read before an alias was added is written back without
  it. `HttpsStays`: an addition accepted while a file is moved aside overwrites, over
  http, the route that was taken over.
- `Routes_claims.cfg`: a name that is an alias of another route is added as a route of
  its own, and nginx answers on it twice, against `route-add.go:53` (`ServedOnce`);
  removing a name whose file somebody edited removes the file with its aliases, against
  `agent/server.go:548-550` (`RemovalSparesOthers`); an edit rewrites a file that was
  edited by hand, against `managed-state.enum.go:9`: what is left of the marker still
  reads as croft's (`nginx-route.repository.go:415`; `HandEditsStay`).
- `Routes_neither.cfg`: a takeover that is cancelled leaves the name with neither file
  in place, against `takeover.go:107-109`.
- `Routes_comesback.cfg`: a retry that read the route before its alias was removed
  writes it back.
- `Routes_cut.cfg`: a request cancelled between the removal of a vhost and the reload,
  or before the certificate of an alias is dropped, and the next one, leave what nginx
  cannot start from.
- `Routes_unalias.cfg`: removing an alias removes a certificate that another vhost
  reads (`aliases.go:173-174`). So does an edit, or a path, prepared before the alias
  was removed and written after: it names the alias's certificate again. The removal of
  an alias is the only request that drops a certificate, and so the only way to leave
  nginx unable to start (`NginxAlwaysStarts`).

Certificates:

- `Certificates_certbot.cfg`: a name both croft and certbot have a certificate of is
  listed once, certbot's first, and croft's is not renewed, against "which croft renews
  from then on" (`tls.go:110`).
- `Certificates_restart.cfg`: a restart between the two files of a pair leaves a key
  that is not the certificate's, and nginx loads nothing any more (`PairsMatch`); one
  between storing and reloading loses the reload for good (`NeverExpired`, with
  `"reload"` alone in `Breaks` as well; `renew.go:63-64`).
- `Certificates_together.cfg`: two issuances of one name mix their files
  (`acme.go:176-184`).
- `Certificates_again.cfg`: what is issued again by hand is not loaded, is not due
  either, and expires in nginx (`renew.go:84-86`).

Containers and databases:

- `Containers_destroyed.cfg`: destroying a container asks nobody who is connected to a
  database in it, while removing the database does (`dependents.go:32-36`;
  `DataOfOthersStays`); letting go while the provider is stopped leaves the login in it
  (`share.go:192-200`; `NoLoginStays`).
- Two failures: sharing a database from one container, cut short before the index, and
  then from another, cut short in the keys, leaves the keys of the first (`Over`: what is empty
  is not written, `planner.go:129-137`) with the credentials of the second. Once
  the database is listed again by an adoption, the second does not know whom it has as a
  consumer, and removing the data from it is not refused. `LeavesOthersConnected`
  therefore says "no more than one failure", and holds for that.
- `Containers_address.cfg`: the address of a stopped container is given to another,
  against "returns a free address" (`instance.repository.go:34`).
- `Containers_index.cfg`: two requests queued on a container each write the index they
  read, and one database drops out of it (`database-read.go:82,94`).

## Not modelled, and why

In `Deployments`: adopted services, sites and the release of either; the keys of
version 0.15 (`.app.`), which are read as a fallback; the certificates a fetch may
need; units started and stopped by hand; snapshots people take; two services at
once but for the longer name. In `AutoDeploy`: the limit and the order of
`Recent(30)`, and the pruning of a running job's row. In `JobRunner`: the blanking of
secrets, and a runner without a journal, which only the demo uses. In `Routes`: the
text of a vhost, more than one path of a route, and lock files of nginx. In
`Certificates`: the exchange with the authority. In `Machines`: images, limits, names
and what a listing shows.

Sessions and users: a session is a row with an expiry, written once and read; users
are created on the command line. `reconcile` and `overview` compare and report, and
change nothing. The web panel and the command line keep no state that anything here
depends on. The client of the agent is a connection per request with a check of
versions, and an update is a script that replaces the binary. The memory
repositories are for the demo.

## Plan

1. `JobRunner`, `AutoDeploy`, `OneWriter`, `Turns`, `Deployments`; `Turns_proofs` - done.
2. `Vhosts`, `Routes`, `Certificates`, `Machines`, `Containers`, `SignIn`; `SignIn_proofs` -
   done.
3. `AutoDeploy_proofs`, `JobRunner_proofs`, `Routes_proofs`, `Certificates_proofs`,
   `Containers_proofs` - done.
4. `Deployments_proofs`: `DeploymentsInv`, `WayBack`, `RecordIsWhatRuns` and
   `PruneSparesHealthy` - done.
5. `GuessesAreBounded` of `SignIn`, `LeavesOthersConnected` of `Containers`;
   `StillRenewed`, `NoNameIsTaken` and `HttpsStays` of `Routes` - done.
6. Composition of `JobRunner` and `AutoDeploy`: `running` over the journal as it is,
   with its order, its limit of 30 and its pruning.
7. `Deployments`: adoption and release; an abstract specification (a container
   moves between recorded versions, and back to snapshots of them) that the
   walked plans implement.
8. Pure operators against reference definitions: which names a certificate
   covers, editing an environment file, comparing desired and actual.
