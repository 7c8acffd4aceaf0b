------------------------------ MODULE Deployments ------------------------------
(****************************************************************************)
(* What the agent does to the services of one container: the plans of        *)
(* internal/deploy/infrastructure/container/planner.go, walked step by step   *)
(* by the handlers of internal/agent/services.go, snapshots.go, properties.go *)
(* and environment.go, one job at a time (module Turns), with what each        *)
(* handler reads before its turn and what it reads once it has it.            *)
(*                                                                          *)
(* The properties a form always fills in (repository, branch, start, port...) *)
(* are one number, those it may leave empty (health, build, packages...) one   *)
(* boolean: set or not. A commit is a number, a snapshot the order it was   *)
(* taken in, an environment file one of Contents; 0 is none.                  *)
(* A plan is a sequence of <<what to do, argument>>.                          *)
(****************************************************************************)
EXTENDS Naturals, Sequences, FiniteSets

CONSTANTS
  Services, Jobs,
  Kinds,       \* the requests in play: see Next
  Longer,      \* pairs <<s, t>>: the name t is s, a hyphen and something more
  Keep,        \* deployment snapshots kept per service (3 in the code)
  Props, Contents,   \* properties and environments asked for
  Past,        \* bound: deployment snapshots there are at the start
  MaxCommits,  \* bound: commits there are to fetch
  MaxFaults,   \* bound: steps that fail, or are cut off
  NoJob, NoService

ASSUME DeploymentsAssumption ==
  /\ Props \subseteq Nat \ {0} /\ 1 \in Props
  /\ Contents \subseteq Nat \ {0}
  /\ Longer \subseteq Services \X Services
  /\ Keep \in Nat \ {0} /\ Past \in Nat /\ MaxCommits \in Nat \ {0} /\ MaxFaults \in Nat
  /\ NoJob \notin Jobs /\ NoService \notin Services /\ IsFiniteSet(Services)

VARIABLES
  box,      \* the container: annotations and files
  snaps,    \* its snapshots, by number
  made,     \* snapshots ever taken
  holder,   \* the job whose turn it is
  before,   \* the container when that turn began, <<>> without one
  jobs, faults

vars == <<box, snaps, made, holder, before, jobs, faults>>

----------------------------------------------------------------------------
(* The container: the index and the annotations of each service, and on disk   *)
(* its checkout, its unit and its environment file; runs is what the process   *)
(* was started from. cut holds the services whose last deployment or removal   *)
(* stopped halfway, and those whose record was spoiled by a plan that was made *)
(* before its turn and is no longer right.                                    *)

NoRecord == [props |-> 0, more |-> FALSE, commit |-> 0, deployed |-> <<>>, healthy |-> 0]
NoFiles == [code |-> 0, unit |-> 0, env |-> 0, runs |-> <<0, 0>>]

Fingerprint(b, s) == <<b.config[s].props, b.config[s].more>>

\* The keys of a service that have a value.
Keys(s) == {key \in DOMAIN NoRecord : box.config[s][key] # NoRecord[key]}

NoAsk == [props |-> 0, more |-> FALSE, env |-> 0, from |-> 0]
NewJob == [pc |-> "new", kind |-> "none", s |-> NoService, want |-> NoAsk, todo |-> <<>>,
           snap |-> 0]

\* A container with some services deployed from the first commit, some of them before
\* fingerprints were kept, and perhaps one of them more than once, with the snapshots
\* those deployments left.
Init ==
  \E old \in SUBSET Services, past \in 0..Past, known \in BOOLEAN,
     mark \in [Services -> {<<>>, <<1, FALSE>>}] : \E s \in old \cup {NoService} :
    LET was == [index |-> old, cut |-> {},
                config |-> [t \in Services |-> IF t \notin old THEN NoRecord ELSE
                  [NoRecord EXCEPT !.props = 1, !.commit = 1, !.deployed = mark[t]]],
                disk |-> [t \in Services |-> IF t \notin old THEN NoFiles ELSE
                  [code |-> 1, unit |-> 1, env |-> 0, runs |-> <<1, 1>>]]]
    IN  /\ (s = NoService) <=> (past = 0)
        /\ known => past > 0
        /\ box = IF ~known THEN was
                 ELSE [was EXCEPT !.config[s].more = TRUE, !.config[s].healthy = past,
                                  !.config[s].deployed = <<1, TRUE>>]
        /\ snaps = [n \in 1..past |-> [of |-> s, kind |-> "deploy", box |-> was]]
        /\ made = past
        /\ holder = NoJob /\ before = <<>>
        /\ jobs = [j \in Jobs |-> NewJob] /\ faults = 0

----------------------------------------------------------------------------
(* Snapshots by name: croft-deploy-<service>-<time>.                          *)

OfService(n, s) == snaps[n].kind = "deploy" /\ (snaps[n].of = s \/ <<s, snaps[n].of>> \in Longer)
Mine(s) == {n \in DOMAIN snaps : OfService(n, s)}

\* Names sort by time, and after every date when the service's name goes on.
SortsAfter(m, n, s) == IF (snaps[m].of = s) = (snaps[n].of = s) THEN m > n ELSE snaps[m].of # s

\* Mutant: the one that is known to work is like any other.
PrunableAll(s, healthy) ==
  {n \in Mine(s) : Cardinality({m \in Mine(s) : SortsAfter(m, n, s)}) >= Keep}

\* Mutant: one more is kept.
PrunableLate(s, healthy) ==
  {n \in Mine(s) \ {healthy} :
     Cardinality({m \in Mine(s) \ {healthy} : SortsAfter(m, n, s)}) > Keep}

Prunable(s, healthy) ==
  {n \in Mine(s) \ {healthy} :
     Cardinality({m \in Mine(s) \ {healthy} : SortsAfter(m, n, s)}) >= Keep}

----------------------------------------------------------------------------
(* The plans.                                                                *)

Do(what) == <<what, 0>>
If(condition, steps) == IF condition THEN steps ELSE <<>>

\* The newest first.
Nth(ns, i) == CHOOSE n \in ns : Cardinality({m \in ns : m > n}) = i - 1
Deletes(ns) == [i \in 1..Cardinality(ns) |-> <<"delete", Nth(ns, i)>>]

\* Mutant: the snapshot is taken once the code is there.
CheckoutFirst(prunable) == Deletes(prunable) \o <<Do("fetch"), Do("snapshot")>>

Checkout(prunable) == Deletes(prunable) \o <<Do("snapshot"), Do("fetch")>>

\* What runDeployment walks, and what it does once the plan has run through.
DeployPlan(s, want) ==
  Checkout(Prunable(s, box.config[s].healthy))
  \o If(want.env # 0, <<Do("environment")>>)
  \o <<Do("build"), Do("unit"), Do("start")>>
  \o If(want.more, <<Do("check")>>)
  \o <<Do("remember"), Do("mark")>>
  \o If(want.more, <<Do("healthy")>>)

DestroyPlan(s) ==
  LET remaining == box.index \ {s} IN
  <<Do("snapshot"), Do("disable"), Do("remove unit"), Do("remove files"),
    <<"forget", Keys(s)>>,
    IF remaining # {} THEN <<"index", remaining>> ELSE Do("empty index")>>

\* The services that name a snapshot, in some order.
Naming(n) ==
  LET named == {s \in box.index : box.config[s].healthy = n} IN
  {order \in [1..Cardinality(named) -> named] : \A s \in named : \E i \in DOMAIN order : order[i] = s}

RemovalPlan(n, named) ==
  <<<<"delete", n>>>> \o [i \in DOMAIN named |-> <<"unset healthy", named[i]>>]

EnvironmentPlan == <<Do("snapshot"), Do("environment"), Do("restart")>>

ConfigurePlan(s, want) ==
  If(box.config[s].deployed = <<>>, <<<<"set deployed", Fingerprint(box, s)>>>>)
  \o If(want.props # box.config[s].props, <<<<"set props", want.props>>>>)
  \o If(want.more # box.config[s].more, <<<<"set more", want.more>>>>)

Optional == {"disable", "empty index", "healthy"}

----------------------------------------------------------------------------
(* Requests: what each handler reads before it waits for its turn.            *)

Asked(j, kind, s, want, todo) ==
  /\ kind \in Kinds
  /\ jobs[j].pc = "new"
  /\ jobs' = [jobs EXCEPT ![j] = [NewJob EXCEPT !.pc = "asked", !.kind = kind, !.s = s,
                                               !.want = want, !.todo = todo]]
  /\ UNCHANGED <<box, snaps, made, holder, before, faults>>

\* stored: a service the container records.
Stored(s) == box.config[s].props # 0

\* known: a service in the index keeps its environment.
KnownEnv(s, env) == IF s \in box.index THEN 0 ELSE env

AskDeploy(j, s) ==
  \E p \in Props, m \in BOOLEAN, e \in {0} \cup Contents :
    Asked(j, "deploy", s,
          [NoAsk EXCEPT !.props = p, !.more = m, !.env = KnownEnv(s, e)], <<>>)

\* recorded: what is stored when it is asked.
AskRedeploy(j, s) ==
  /\ Stored(s)
  /\ Asked(j, "redeploy", s, [NoAsk EXCEPT !.props = box.config[s].props,
                                           !.more = box.config[s].more], <<>>)

AskDestroy(j, s) ==
  /\ s \in box.index /\ Stored(s)
  /\ Asked(j, "destroy", s, NoAsk, DestroyPlan(s))

AskRollback(j, n) == Asked(j, "rollback", NoService, NoAsk, <<<<"restore", n>>>>)

AskRemoval(j, n) ==
  \E named \in Naming(n) : Asked(j, "removal", NoService, NoAsk, RemovalPlan(n, named))

AskConfigure(j, s) ==
  \E p \in Props, m \in BOOLEAN :
    /\ Stored(s)
    /\ <<p, m>> # Fingerprint(box, s)
    /\ Asked(j, "configure", s, [NoAsk EXCEPT !.props = p, !.more = m],
             ConfigurePlan(s, [NoAsk EXCEPT !.props = p, !.more = m]))

\* Somebody opened the file, and sends what it should become.
AskEnvironment(j, s) ==
  \E e \in Contents :
    /\ Stored(s)
    /\ Asked(j, "environment", s, [NoAsk EXCEPT !.env = e, !.from = box.disk[s].env], <<>>)

----------------------------------------------------------------------------
(* The turn.                                                                 *)

Over(j) == jobs' = [jobs EXCEPT ![j] = [NewJob EXCEPT !.pc = "over"]]

Began(j, todo) ==
  /\ jobs' = [jobs EXCEPT ![j].pc = "running", ![j].todo = todo]
  /\ holder' = j /\ before' = box
  /\ UNCHANGED <<box, snaps, made, faults>>

\* A deployment is planned once it is its turn, and an environment is read again;
\* the other plans were made when they were asked for.
Begin(j) ==
  LET s == jobs[j].s  want == jobs[j].want IN
  /\ jobs[j].pc = "asked"
  /\ holder = NoJob
  /\ CASE jobs[j].kind \in {"deploy", "redeploy"} -> Began(j, DeployPlan(s, want))
       [] jobs[j].kind = "environment" /\ box.disk[s].env = want.from /\ want.env # want.from
            -> Began(j, EnvironmentPlan)
       [] jobs[j].kind = "environment" /\ ~(box.disk[s].env = want.from /\ want.env # want.from)
            -> Over(j) /\ UNCHANGED <<box, snaps, made, holder, before, faults>>
       [] OTHER -> Began(j, jobs[j].todo)

\* The next step of the job whose turn it is.
At(j, what) == holder = j /\ jobs[j].todo # <<>> /\ Head(jobs[j].todo)[1] = what
Arg(j) == Head(jobs[j].todo)[2]
Walked(j) == jobs' = [jobs EXCEPT ![j].todo = Tail(@)]
Untouched == UNCHANGED <<snaps, made, holder, before, faults>>

Files(j, what, files) ==
  /\ At(j, what)
  /\ Walked(j)
  /\ box' = [box EXCEPT !.disk[jobs[j].s] = files]
  /\ Untouched

Note(j, what, s, record) ==
  /\ At(j, what)
  /\ Walked(j)
  /\ box' = [box EXCEPT !.config[s] = record]
  /\ Untouched

----------------------------------------------------------------------------
(* The steps that change files.                                              *)

TakeSnapshot(j) ==
  /\ At(j, "snapshot")
  /\ jobs' = [jobs EXCEPT ![j].todo = Tail(@), ![j].snap = made + 1]
  /\ snaps' = [n \in DOMAIN snaps \cup {made + 1} |->
                 IF n = made + 1
                 THEN [of |-> jobs[j].s, box |-> box,
                       kind |-> IF jobs[j].kind = "destroy" THEN "destroy" ELSE "deploy"]
                 ELSE snaps[n]]
  /\ made' = made + 1
  /\ UNCHANGED <<box, holder, before, faults>>

Delete(j) ==
  /\ At(j, "delete")
  /\ Arg(j) \in DOMAIN snaps
  /\ Walked(j)
  /\ snaps' = [n \in DOMAIN snaps \ {Arg(j)} |-> snaps[n]]
  /\ UNCHANGED <<box, made, holder, before, faults>>

Disk(j) == box.disk[jobs[j].s]
Fresh(files) == [files EXCEPT !.runs = <<files.unit, IF files.unit = 0 THEN 0 ELSE files.code>>]

\* What the branch holds by then, or the commit that was asked for.
Fetch(j) == \E c \in 1..MaxCommits : Files(j, "fetch", [Disk(j) EXCEPT !.code = c])

WriteEnvironment(j) ==
  /\ At(j, "environment") /\ Disk(j).code # 0
  /\ Files(j, "environment", [Disk(j) EXCEPT !.env = jobs[j].want.env])

\* Installing, building and waiting for an answer leave nothing behind here.
Build(j) == Files(j, "build", Disk(j)) \/ Files(j, "check", Disk(j))

WriteUnit(j) == Files(j, "unit", [Disk(j) EXCEPT !.unit = jobs[j].want.props])

Start(j) ==
  /\ At(j, "start") \/ (At(j, "restart") /\ Disk(j).unit # 0)
  /\ Files(j, Head(jobs[j].todo)[1], Fresh(Disk(j)))

Disable(j) == Files(j, "disable", [Disk(j) EXCEPT !.runs = <<0, 0>>])
RemoveUnit(j) == Files(j, "remove unit", [Disk(j) EXCEPT !.unit = 0])
RemoveFiles(j) == Files(j, "remove files", [Disk(j) EXCEPT !.code = 0, !.env = 0])

\* The whole container goes back, annotations included, and starts again.
Restore(j) ==
  /\ At(j, "restore")
  /\ Arg(j) \in DOMAIN snaps
  /\ Walked(j)
  /\ LET was == snaps[Arg(j)].box
     IN  box' = [was EXCEPT !.disk = [s \in Services |-> Fresh(was.disk[s])]]
  /\ Untouched

----------------------------------------------------------------------------
(* The steps that change annotations.                                        *)

Config(j) == box.config[jobs[j].s]

\* remember writes the keys that are not empty, in no order, and enrols the
\* service in the index. The commit is empty when git cannot say it.
Written(j, keys) ==
  [Config(j) EXCEPT !.props = IF "props" \in keys THEN jobs[j].want.props ELSE @,
                    !.more = IF "more" \in keys /\ jobs[j].want.more THEN TRUE ELSE @,
                    !.commit = IF "commit" \in keys THEN Disk(j).code ELSE @]

Enrolled(j, keys) ==
  [box EXCEPT !.config[jobs[j].s] = Written(j, keys), !.index = @ \cup {jobs[j].s},
              !.cut = IF "commit" \in keys THEN @ \ {jobs[j].s} ELSE @ \cup {jobs[j].s}]

Remember(j) ==
  /\ At(j, "remember")
  /\ Walked(j)
  /\ \/ box' = Enrolled(j, {"props", "more", "commit"}) /\ UNCHANGED faults
     \/ /\ faults < MaxFaults
        /\ box' = Enrolled(j, {"props", "more"})
        /\ faults' = faults + 1
  /\ UNCHANGED <<snaps, made, holder, before>>

\* Mutant: what is marked is what was asked for when the service was accepted.
MarkOld(j) == Note(j, "mark", jobs[j].s, [Config(j) EXCEPT !.deployed = Fingerprint(before, jobs[j].s)])

MarkDeployed(j) == Note(j, "mark", jobs[j].s, [Config(j) EXCEPT !.deployed = Fingerprint(box, jobs[j].s)])

MarkHealthy(j) == Note(j, "healthy", jobs[j].s, [Config(j) EXCEPT !.healthy = jobs[j].snap])

\* The keys there were when the removal was planned go; those written since stay.
Without(j, keys) ==
  [Config(j) EXCEPT !.props = IF "props" \in keys THEN 0 ELSE @,
                    !.more = IF "more" \in keys THEN FALSE ELSE @,
                    !.commit = IF "commit" \in keys THEN 0 ELSE @,
                    !.deployed = IF "deployed" \in keys THEN <<>> ELSE @,
                    !.healthy = IF "healthy" \in keys THEN 0 ELSE @]

Forget(j) == Note(j, "forget", jobs[j].s, Without(j, Arg(j)))

\* Each is a step of its own that may be passed over: here one, or all of them.
ForgetSome(j) ==
  /\ At(j, "forget") /\ faults < MaxFaults
  /\ \E left \in {Arg(j)} \cup {{key} : key \in Arg(j)} :
       box' = [box EXCEPT !.config[jobs[j].s] = Without(j, Arg(j) \ left)]
  /\ Walked(j)
  /\ faults' = faults + 1
  /\ UNCHANGED <<snaps, made, holder, before>>

ForgetHealthy(j) ==
  At(j, "unset healthy") /\ Note(j, "unset healthy", Arg(j), [box.config[Arg(j)] EXCEPT !.healthy = 0])

\* What marks a service that has no mark is the fingerprint of what it runs, and a
\* service is marked before it is changed; a plan that waited may do otherwise.
Save(j, what, record, right) ==
  /\ At(j, what)
  /\ Walked(j)
  /\ box' = [box EXCEPT !.config[jobs[j].s] = record,
                        !.cut = IF right THEN @ ELSE @ \cup {jobs[j].s}]
  /\ Untouched

Mark(j) ==
  IF Config(j).deployed = <<>> THEN Fingerprint(box, jobs[j].s) ELSE Config(j).deployed

SaveProperty(j) ==
  \/ At(j, "set deployed")
       /\ Save(j, "set deployed", [Config(j) EXCEPT !.deployed = Arg(j)], Arg(j) = Mark(j))
  \/ At(j, "set props")
       /\ Save(j, "set props", [Config(j) EXCEPT !.props = Arg(j)], Config(j).deployed # <<>>)
  \/ At(j, "set more")
       /\ Save(j, "set more", [Config(j) EXCEPT !.more = Arg(j)], Config(j).deployed # <<>>)

\* What is listed again was removed since the plan was made.
WriteIndex(j) ==
  /\ At(j, "index") \/ At(j, "empty index")
  /\ Walked(j)
  /\ LET remaining == IF At(j, "index") THEN Arg(j) ELSE {} IN
     box' = [box EXCEPT !.index = remaining,
               !.cut = (IF Config(j) = NoRecord THEN @ \ {jobs[j].s} ELSE @ \cup {jobs[j].s})
                       \cup (remaining \ box.index)]
  /\ Untouched

----------------------------------------------------------------------------

\* The plan has run through.
Finish(j) ==
  /\ holder = j /\ jobs[j].todo = <<>>
  /\ Over(j)
  /\ holder' = NoJob /\ before' = <<>>
  /\ UNCHANGED <<box, snaps, made, faults>>

\* What cannot be done as things are.
Impossible(j) ==
  \/ (At(j, "delete") \/ At(j, "restore")) /\ Arg(j) \notin DOMAIN snaps
  \/ At(j, "environment") /\ Disk(j).code = 0
  \/ At(j, "restart") /\ Disk(j).unit = 0

\* A step fails, or the request is cut off: a pruning and the other optional
\* ones are passed over, any other ends the job where it stands.
Passable(j) ==
  \/ Head(jobs[j].todo)[1] \in Optional
  \/ (At(j, "delete") /\ jobs[j].kind \in {"deploy", "redeploy"})

Fail(j) ==
  /\ holder = j /\ jobs[j].todo # <<>> /\ ~At(j, "forget")
  /\ \/ Impossible(j) /\ UNCHANGED faults
     \/ ~Impossible(j) /\ faults < MaxFaults /\ faults' = faults + 1
  /\ IF Passable(j)
     THEN /\ Walked(j) /\ UNCHANGED <<holder, before>>
          /\ box' = [box EXCEPT !.cut = IF At(j, "empty index") THEN @ \cup {jobs[j].s} ELSE @]
     ELSE /\ Over(j) /\ holder' = NoJob /\ before' = <<>>
          /\ \E keys \in IF At(j, "remember") THEN SUBSET {"props", "more", "commit"} ELSE {{}} :
               box' = [box EXCEPT
                 !.config = IF keys = {} THEN @ ELSE [@ EXCEPT ![jobs[j].s] = Written(j, keys)],
                 !.cut = IF jobs[j].kind \in {"deploy", "redeploy", "destroy"} /\ jobs[j].snap # 0
                         THEN @ \cup {jobs[j].s} ELSE @]
  /\ UNCHANGED <<snaps, made>>

\* Somebody edits an environment file over ssh.
EditOverSsh(s) ==
  /\ "ssh" \in Kinds
  /\ box.disk[s].code # 0
  /\ \E e \in Contents : box' = [box EXCEPT !.disk[s].env = e]
  /\ UNCHANGED <<snaps, made, holder, before, jobs, faults>>

Ask(j) ==
  \/ \E s \in Services : \/ AskDeploy(j, s) \/ AskRedeploy(j, s) \/ AskDestroy(j, s)
                         \/ AskConfigure(j, s) \/ AskEnvironment(j, s)
  \/ \E n \in DOMAIN snaps : AskRollback(j, n) \/ AskRemoval(j, n)

Step(j) ==
  \/ TakeSnapshot(j) \/ Delete(j) \/ Fetch(j) \/ WriteEnvironment(j) \/ Build(j)
  \/ WriteUnit(j) \/ Start(j) \/ Disable(j) \/ RemoveUnit(j) \/ RemoveFiles(j) \/ Restore(j)
  \/ Remember(j) \/ MarkDeployed(j) \/ MarkHealthy(j) \/ Forget(j) \/ ForgetSome(j)
  \/ ForgetHealthy(j)
  \/ SaveProperty(j) \/ WriteIndex(j)

Next ==
  \/ \E j \in Jobs : Ask(j) \/ Begin(j) \/ Step(j) \/ Finish(j) \/ Fail(j)
  \/ \E s \in Services : EditOverSsh(s)

Spec == Init /\ [][Next]_vars

----------------------------------------------------------------------------
(* Properties.                                                               *)

Fingerprints == {<<>>} \cup ({0} \cup Props) \X BOOLEAN
Records == [props : {0} \cup Props, more : BOOLEAN, commit : 0..MaxCommits,
            deployed : Fingerprints, healthy : 0..made]
FilesOnDisk == [code : 0..MaxCommits, unit : {0} \cup Props, env : {0} \cup Contents,
                runs : ({0} \cup Props) \X (0..MaxCommits)]

BoxOK(b) ==
  /\ b.index \subseteq Services /\ b.cut \subseteq Services
  /\ b.config \in [Services -> Records]
  /\ b.disk \in [Services -> FilesOnDisk]

TypeOK ==
  /\ BoxOK(box)
  /\ IF holder = NoJob THEN before = <<>> ELSE BoxOK(before)
  /\ DOMAIN snaps \subseteq 1..made
  /\ \A n \in DOMAIN snaps : /\ snaps[n].of \in Services
                             /\ snaps[n].kind \in {"deploy", "destroy"}
                             /\ BoxOK(snaps[n].box)
  /\ holder \in Jobs \cup {NoJob}
  /\ \A j \in Jobs : (jobs[j].pc = "running") <=> (holder = j)
  /\ faults \in 0..MaxFaults

\* What a job may change without losing it: the record, the code and the unit.
Kept(b) == <<b.index, b.config, [s \in Services |-> <<b.disk[s].code, b.disk[s].unit>>]>>

\* A deployment, a removal or a change of environment changes nothing before its
\* snapshot is taken, and for as long as it is at work that snapshot is there,
\* with the container as the job found it.
WayBack ==
  holder # NoJob /\ jobs[holder].kind \in {"deploy", "redeploy", "destroy", "environment"} =>
    LET n == jobs[holder].snap IN
    IF n = 0 THEN Kept(box) = Kept(before)
    ELSE n \in DOMAIN snaps /\ Kept(snaps[n].box) = Kept(before)

\* Once a deployment has taken its snapshot there are no more of the service's
\* than Keep, the healthy one and its own - whatever failed deployments and
\* changes of environment left behind - unless one could not be removed.
NotPilingUp ==
  holder # NoJob /\ faults = 0 /\ jobs[holder].kind \in {"deploy", "redeploy"}
    /\ jobs[holder].snap # 0
      => Cardinality(Mine(jobs[holder].s)) <= Keep + 2

\* A change made in the panel goes ahead only if, at its turn, the file still
\* held what it was edited from.
EditsWhatItRead ==
  holder # NoJob /\ jobs[holder].kind = "environment"
    => before.disk[jobs[holder].s].env = jobs[holder].want.from

\* The state is well typed, the room snapshots take is bounded, and no change of an
\* environment starts from what is no longer there.
DeploymentsInv == TypeOK /\ NotPilingUp /\ EditsWhatItRead

\* Nothing but a person removes the snapshot a service calls healthy.
PruneSparesHealthy ==
  [][\A s \in box.index :
       LET n == box.config[s].healthy IN
       n \in DOMAIN snaps /\ n \notin DOMAIN snaps' => jobs[holder].kind = "removal"]_snaps

\* A service that is not being worked on, was not left halfway and carries the
\* fingerprint of what is saved runs from those properties and from the commit
\* its record says: a saved change is never mistaken for one that is running.
RecordIsWhatRuns ==
  \A s \in box.index \ box.cut :
    /\ box.config[s].deployed = Fingerprint(box, s)
    /\ holder # NoJob => jobs[holder].s # s
    => /\ box.disk[s].unit = box.config[s].props
       /\ box.disk[s].code = box.config[s].commit
       /\ box.disk[s].runs = <<box.config[s].props, box.config[s].commit>>

\* The version recorded as the last one known to work is the one that was just
\* seen to work.
HealthyIsWhatWorked ==
  [][\A j \in Jobs :
       At(j, "healthy") /\ box' # box
         => LET s == jobs[j].s
                kept == snaps[box'.config[s].healthy].box.disk[s]
            IN  kept.code = box.disk[s].code /\ kept.unit = box.disk[s].unit]_box

\* The index never disagrees with what is on the container: a service with a unit
\* that no job left halfway is in it.
IndexAgrees ==
  holder = NoJob =>
    \A s \in Services \ box.cut : (box.disk[s].unit # 0) <=> (s \in box.index)

\* A service that exists keeps its environment: a deployment writes it only where
\* there is none.
FirstEnvironmentOnly ==
  [][\A j \in Jobs :
       At(j, "environment") /\ jobs[j].kind = "deploy" /\ box.disk # box'.disk
         => before.disk[jobs[j].s].env = 0]_box

\* What is recorded before a change is saved is what the service runs.
MarksWhatRuns ==
  [][\A j \in Jobs : At(j, "set deployed") /\ box' # box => Arg(j)[1] = Disk(j).unit]_box

\* A removal that stopped halfway can be tried again.
CanBeTriedAgain ==
  holder = NoJob => \A s \in box.index : Stored(s)
================================================================================
