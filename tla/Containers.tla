------------------------------- MODULE Containers -------------------------------
(****************************************************************************)
(* Containers, the projects they are in, and the databases inside them, one      *)
(* container's connected to another's (internal/agent/{server,power,projects,     *)
(* databases,databases-share,databases-adopt}.go and the panel's handlers).       *)
(*                                                                          *)
(* A request is decided on when it comes: what it may do is checked, and its      *)
(* plan made, from the host as it is then. It waits its turn on one container,    *)
(* and walks its plan: any step may fail, which ends it unless the step is        *)
(* optional, and takes nothing back. The commands, the plans and what is refused  *)
(* are those of Machines.                                                      *)
(****************************************************************************)
EXTENDS Machines

CONSTANTS
  Requests,
  Present,  \* the containers there at first, all of them in every project's first
  Home,     \* the project they are in
  Found,    \* pairs of a container and a database croft finds running in it
  Kinds,    \* what people ask for
  MaxAsked, \* bound: requests, but for those to let go of a connection
  MaxFails  \* bound: steps that fail for no reason of the host's, and restarts of the agent

ASSUME ContainersAssumption ==
  /\ Present \subseteq Containers /\ Found \subseteq Present \X Databases
  /\ Home \in Projects
  /\ {MaxAsked, MaxFails} \subseteq Nat
  /\ Cardinality(Present) <= Addresses

VARIABLES
  host,     \* what each container is
  declared, \* the projects declared on the host
  work,     \* what each request is about
  crossed,  \* two requests were under way at once
  gone,     \* the containers that were ever destroyed
  asked, fails

vars == <<host, declared, work, crossed, gone, asked, fails>>

Idle == [kind |-> "none", on |-> None, turn |-> FALSE, walking |-> FALSE, steps |-> <<>>]

\* Addresses for the containers that are there, one each.
InitialAddress ==
  CHOOSE f \in [Present -> 1..Addresses] : \A c, e \in Present : f[c] = f[e] => c = e

\* What croft finds in a container has the login of whoever made it.
InitialHost ==
  LET found(c, d) == IF <<c, d>> \in Found THEN Cardinality(Found) ELSE 0 IN
  [c \in Containers |->
    IF c \notin Present THEN Nothing
    ELSE [Blank EXCEPT !.up = TRUE, !.address = InitialAddress[c], !.project = Home,
                       !.data = [d \in Databases |-> found(c, d)],
                       !.logins = [d \in Databases |-> [e \in Containers |->
                                     IF e = c THEN found(c, d) ELSE 0]]]]

Init ==
  /\ host = InitialHost
  /\ declared = {Home}
  /\ work = [r \in Requests |-> Idle]
  /\ crossed = FALSE /\ gone = {} /\ asked = 0 /\ fails = 0

Busy(r) == work[r].steps # <<>>

----------------------------------------------------------------------------
(* What is asked for, and decided on.                                        *)

Ask(r, kind, c, turn, steps) ==
  /\ kind \in Kinds \cup {"letgo"} /\ ~Busy(r)
  /\ work' = [work EXCEPT ![r] = [kind |-> kind, on |-> c, turn |-> turn, walking |-> FALSE,
                                  steps |-> steps]]
  /\ crossed' = (crossed \/ \E other \in Requests \ {r} : Busy(other))
  /\ UNCHANGED <<host, declared, gone, fails>>

Counted == asked < MaxAsked /\ asked' = asked + 1

\* The panel looks at the name, the agent at the project.
PrepareCreate(c) == ~host[c].here
Accept(p) == p \in declared \cup {None}
AskCreate(r, c, p) ==
  /\ Counted /\ PrepareCreate(c) /\ Accept(p)
  /\ \E n \in AllocateAddress(host) : Ask(r, "create", c, FALSE, CreatePlan(c, n, p))

AskDestroy(r, c) == Counted /\ host[c].here /\ Ask(r, "destroy", c, TRUE, DeletePlan(c))

AskPower(r, c, stop) ==
  /\ Counted /\ host[c].here /\ host[c].up = stop
  /\ Ask(r, "power", c, TRUE, PowerPlan(c, stop))

AskDeclare(r, p) ==
  Counted /\ p \notin declared /\ Ask(r, "declare", None, FALSE, <<Run("declare", None, None, p)>>)

\* Mutant: who is in it is not looked at.
CanRemoveAny(p) == p \in declared
CanRemove(p) == p \in declared /\ \A c \in Containers : host[c].project # p
AskRemoveProject(r, p) ==
  Counted /\ CanRemove(p) /\ Ask(r, "undeclare", None, FALSE, <<Run("undeclare", None, None, p)>>)

PrepareAssign(c, p) == host[c].here /\ host[c].project # p /\ p \in declared \cup {None}
AskAssign(r, c, p) ==
  /\ Counted /\ PrepareAssign(c, p)
  /\ Ask(r, "assign", c, FALSE, <<Run("assign", c, None, p)>>)

AskProvision(r, c, d) ==
  /\ Counted /\ CanProvision(host[c], d)
  /\ Ask(r, "provision", c, TRUE, ProvisionPlan(c, d, host[c].index \cup {d}))

AskShare(r, c, p, d) ==
  /\ Counted /\ CanShare(host, c, p, d)
  /\ Ask(r, "share", c, TRUE, SharePlan(c, p, d, host[c].index \cup {d}))

AskAdopt(r, c, d) ==
  /\ Counted /\ CanAdopt(host[c], d)
  /\ Ask(r, "adopt", c, TRUE, AdoptPlan(c, d, host[c].index \cup {d}))

\* What croft only took note of is let be.
DestroyDatabasePlan(c, d) ==
  LET remaining == host[c].index \ {d} IN
  IF host[c].keys[d] = Adopted THEN ReleasePlan(c, d, remaining) ELSE DestroyPlan(c, d, remaining)

\* Removing one of the container's own: who is connected to it is in the way.
AskRemoveOwn(r, c, d) ==
  /\ Counted /\ CanDestroy(host[c], d) /\ Local(host[c].keys[d])
  /\ ~StillConnected(host, c, d)
  /\ Ask(r, "remove", c, TRUE, DestroyDatabasePlan(c, d))

\* Removing another container's is letting go of it.
AskLetGo(r, c, d) ==
  LET location == host[c].keys[d] IN
  /\ CanDestroy(host[c], d) /\ ~Local(location)
  /\ Ask(r, "letgo", c, TRUE, RevokePlan(c, location, d, host[c].index \ {d}))
  /\ UNCHANGED asked

----------------------------------------------------------------------------
(* Walking a plan.                                                          *)

\* The turns are the containers': a request that takes none waits for nobody.
HasTurn(r) ==
  work[r].turn => \A other \in Requests \ {r} :
    ~(work[other].walking /\ work[other].turn /\ work[other].on = work[r].on)

\* A number nothing has.
Used ==
  UNION {host[c].kept \cup {host[c].data[d] : d \in Databases}
         \cup {host[c].env[d].login : d \in Databases}
         \cup {host[c].logins[d][e] : d \in Databases, e \in Containers} : c \in Containers}
New == CHOOSE n \in 1 .. Cardinality(Used) + 1 : n \notin Used

Step(r) == Head(work[r].steps)
Outcomes(r) == Does(host, Step(r), New)
Failures(r) == FailsWith(host, Step(r), New)

After(r) ==
  LET rest == Tail(work[r].steps) IN
  IF rest = <<>> THEN Idle ELSE [work[r] EXCEPT !.walking = TRUE, !.steps = rest]

DeclaredAfter(step) ==
  CASE step.do = "declare" -> declared \cup {step.arg}
    [] step.do = "undeclare" -> declared \ {step.arg}
    [] OTHER -> declared

Walk(r) ==
  /\ Busy(r) /\ HasTurn(r)
  /\ host' \in Outcomes(r)
  /\ declared' = DeclaredAfter(Step(r))
  /\ work' = [work EXCEPT ![r] = After(r)]
  /\ gone' = IF Step(r).do = "delete" THEN gone \cup {Step(r).on} ELSE gone
  /\ UNCHANGED <<crossed, asked, fails>>

\* A step that cannot be done fails, and so may any other.
Fail(r) ==
  /\ Busy(r) /\ HasTurn(r)
  /\ IF Outcomes(r) = {} THEN UNCHANGED fails ELSE fails < MaxFails /\ fails' = fails + 1
  /\ host' \in Failures(r)
  /\ work' = [work EXCEPT ![r] = IF Step(r).optional THEN After(r) ELSE Idle]
  /\ UNCHANGED <<declared, crossed, gone, asked>>

\* The agent starts again: what was under way stops where it was.
Restart ==
  /\ fails < MaxFails /\ fails' = fails + 1
  /\ \E r \in Requests : Busy(r)
  /\ work' = [r \in Requests |-> Idle]
  /\ UNCHANGED <<host, declared, crossed, gone, asked>>

AskAnything(r) ==
  \/ \E c \in Containers :
       \/ AskDestroy(r, c)
       \/ \E p \in Projects \cup {None} : AskCreate(r, c, p) \/ AskAssign(r, c, p)
       \/ \E stop \in BOOLEAN : AskPower(r, c, stop)
       \/ \E d \in Databases : AskProvision(r, c, d) \/ AskAdopt(r, c, d) \/ AskRemoveOwn(r, c, d)
                               \/ AskLetGo(r, c, d) \/ (\E p \in Containers : AskShare(r, c, p, d))
  \/ \E p \in Projects : AskDeclare(r, p) \/ AskRemoveProject(r, p)

Next == (\E r \in Requests : AskAnything(r) \/ Walk(r) \/ Fail(r)) \/ Restart

Spec == Init /\ [][Next]_vars

\* What is under way goes on, and people do not keep a connection for ever: they let
\* go of it again and again, until croft has forgotten it.
FairSpec ==
  /\ Spec
  /\ \A r \in Requests : WF_vars(Walk(r) \/ Fail(r))
  /\ \A c \in Containers, d \in Databases : SF_vars(\E r \in Requests : AskLetGo(r, c, d))

----------------------------------------------------------------------------
(* Properties.                                                              *)

TypeOK ==
  /\ \A c \in Containers : IsMachine(host[c])
  /\ declared \subseteq Projects /\ crossed \in BOOLEAN /\ gone \subseteq Containers
  /\ asked \in 0..MaxAsked /\ fails \in 0..MaxFails
  /\ \A r \in Requests : work[r].on \in Containers \cup {None}

\* Whatever fails, and whoever else is at work: what a database held is never
\* dropped but from a container that has a snapshot of it.
Recoverable ==
  [][\A c \in Containers, d \in Databases :
       host[c].data[d] # 0 /\ host'[c].data[d] = 0 /\ host'[c].here
         => host[c].data[d] \in host'[c].kept]_vars

\* The credentials a container holds are those of the login they name, as long as
\* there is one: when requests come one at a time, a password is never made anew
\* behind the back of who was given it, however one was cut short and tried again.
\* (A container made anew under the name of a destroyed one has logins of its own.)
PasswordsMatch ==
  crossed \/ \A c \in Containers, d \in Databases :
    LET env == host[c].env[d] IN
    env.login # 0 /\ env.at \notin gone => host[env.at].logins[d][c] \in {0, env.login}

\* A container reaches the database it is connected to.
Reaches(h, c, d) ==
  LET env == h[c].env[d] IN
  /\ d \in All(h[c]) /\ env.login # 0 /\ ~Local(h[c].keys[d])
  /\ h[env.at].data[d] # 0 /\ h[env.at].logins[d][c] = env.login

\* As long as requests come one at a time and no more than one step failed, none of
\* them takes away a connection of another container than its own, unless it destroys
\* the one with the data. (Two sharings cut short leave the keys of one provider with
\* the credentials of another, who does not see whom it has as a consumer.)
LeavesOthersConnected ==
  [][\A r \in Requests, c \in Containers, d \in Databases :
       (/\ ~crossed /\ fails < 2
        /\ work'[r] # work[r] /\ Busy(r) /\ Step(r).do # "delete"
        /\ Reaches(host, c, d) /\ ~Reaches(host', c, d)) => work[r].on = c]_vars

\* A container is in no project but a declared one, when requests come one at a time.
LabelsAreDeclared ==
  crossed \/ \A c \in Containers : host[c].project \in declared \cup {None}

\* The state is well typed, and every label is that of a declared project.
ContainersInv == TypeOK /\ LabelsAreDeclared

\* One can always let go: with the provider stopped or destroyed as well, the
\* credentials go in the end, unless the container is stopped itself.
CanLetGo ==
  \A c \in Containers, d \in Databases :
    (d \in All(host[c]) /\ ~Local(host[c].keys[d]) /\ host[c].env[d].login # 0)
      ~> (host[c].env[d].login = 0 \/ ~host[c].up \/ crossed)

----------------------------------------------------------------------------
(* What the code says of itself and does not keep.                            *)

\* Nothing takes away the data of others, destroying the container it is in neither.
DataOfOthersStays ==
  [][\A r \in Requests, c \in Containers, d \in Databases :
       (/\ ~crossed /\ work'[r] # work[r] /\ Busy(r)
        /\ Reaches(host, c, d) /\ ~Reaches(host', c, d)) => work[r].on = c]_vars

\* The address a container gets is a free one.
AddressIsFree ==
  [][\A r \in Requests, c \in Containers :
       (work'[r].kind = "create" /\ ~Busy(r) /\ host[c].here)
         => \A i \in DOMAIN work'[r].steps :
              work'[r].steps[i].do = "pin" => work'[r].steps[i].arg # host[c].address]_vars

\* The index never disagrees with what is on the container: what was made in it, with
\* nothing failing, is listed.
IndexAgrees ==
  \A c \in Containers, d \in Databases :
    host[c].here /\ host[c].data[d] # 0 /\ host[c].env[d].at = c =>
      \/ d \in All(host[c]) \/ fails > 0
      \/ \E r \in Requests : Busy(r) /\ work[r].on = c

\* A login that was let go of is gone.
NoLoginStays ==
  \A c, p \in Containers, d \in Databases :
    c # p /\ host[p].logins[d][c] # 0 =>
      \/ d \in All(host[c]) \/ fails > 0 \/ crossed
      \/ \E r \in Requests : Busy(r) /\ work[r].on = c
================================================================================
