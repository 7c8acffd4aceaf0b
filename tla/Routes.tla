--------------------------------- MODULE Routes ---------------------------------
(****************************************************************************)
(* Domains: what the panel asks for, what the agent writes for nginx, and what   *)
(* nginx has loaded (internal/route, internal/agent/{server,aliases,takeover,tls, *)
(* expose,reachability}.go, and the panel's handlers in internal/server).        *)
(*                                                                          *)
(* A request is prepared from what is on disk when it is asked for (at            *)
(* "asked"). The panel sends the agent a whole route for an addition, an edit or *)
(* a path; for everything else the agent reads the disk again. No turn is taken: *)
(* two requests, or a request and the agent's own retry, interleave freely. The   *)
(* steps of a request are                                                     *)
(*   asked   the panel has answered; the job has not reached the agent           *)
(*   move    the hand-written file is to be put aside                            *)
(*   reach   the name is to be seen to lead here                                *)
(*   issue   the authority is asked for a certificate                           *)
(*   write   the vhost is to be written                                         *)
(*   test    written: nginx -t, then the reload. Merged: a disk that changes      *)
(*           between the two is either refused, or loaded, by the reload itself  *)
(*   rm      the vhost is to be removed                                         *)
(*   drop    the certificate of an alias that was removed is to go               *)
(*   retire  certbot's renewal file is to be moved aside                         *)
(*                                                                          *)
(* Left to module Certificates: expiry, renewal, and storing a pair.            *)
(****************************************************************************)
EXTENDS Vhosts

CONSTANTS
  Requests,   \* what people ask for, at most one at a time each
  Retrier,    \* the agent's retry of names that wait for their DNS, if it is one of Requests
  NoName,
  Loopback,   \* where the panel itself listens
  Panels,     \* the names a person may give the panel
  Initial,    \* the vhosts there are at first: written by hand, or by earlier requests
  Kinds,      \* the kinds of request in play
  Cancels,    \* whether a request may be cancelled: {FALSE}, or BOOLEAN
  MaxAsked,   \* bound: requests in a behaviour
  MaxCrashes  \* bound: restarts of the agent

ASSUME RoutesAssumption ==
  /\ Retrier # NoName /\ NoName \notin Names
  /\ Loopback \in Targets
  /\ Panels \subseteq Names
  /\ Initial \in [Files -> Contents \cup {NoFile}]
  /\ Cancels \subseteq BOOLEAN
  /\ MaxAsked \in Nat /\ MaxCrashes \in Nat

VARIABLES
  disk,     \* the files nginx -T would read
  loaded,   \* the files as nginx last loaded them
  certs,    \* the certificate directories there are
  renewing, \* the certbot certificates that have a renewal file
  aside,    \* hand-written files moved out of nginx's way
  pointed,  \* the names whose DNS points to this server
  job,      \* each request, and where it is
  todo,     \* the names the retry under way still has to look at
  asked, crashes

vars == <<disk, loaded, certs, renewing, aside, pointed, job, todo, asked, crashes>>
world == <<disk, loaded, certs, renewing, aside>>
counts == <<pointed, todo, asked, crashes>>

Ops == {"add", "edit", "path", "service", "remove", "alias", "unalias", "takeover", "tls",
        "expose", "retry"}

Idle == [op |-> "none", at |-> "idle", name |-> NoName, arg |-> NoName,
         route |-> Marked(Route(NoTarget, NoTarget, NoCert, NoAliases)),
         file |-> NoName, before |-> NoFile, then |-> "over"]

\* The certificates there are at first are those the vhosts name.
InitialCerts ==
  (UNION {{CertIn(Initial, f, n) : n \in NamesIn(Initial, f)} : f \in Files}) \ {NoCert}
CertbotNames == {n \in Names : Certbot(n) \in InitialCerts}

Init ==
  /\ disk = Initial
  /\ loaded = disk
  /\ certs = InitialCerts \cup (IF Covered = {} THEN {} ELSE {Wildcard})
  /\ renewing = CertbotNames
  /\ aside = {}
  /\ pointed = {}
  /\ job = [j \in Requests |-> Idle]
  /\ todo = {}
  /\ asked = 0 /\ crashes = 0

Served(d) == {n \in Names : Claims(d, n) # {}}

\* FindAll runs nginx -T, which fails when the files on disk do not pass.
Listing == Loadable(disk, certs)

----------------------------------------------------------------------------
(* What the panel refuses, and what it prepares.                             *)

CanAsk(j) == j # Retrier /\ job[j].at = "idle" /\ asked < MaxAsked /\ Listing

Ask(j, op, n, arg, r) ==
  /\ op \in Kinds
  /\ asked' = asked + 1
  /\ job' = [job EXCEPT ![j] = [Idle EXCEPT !.op = op, !.at = "asked", !.name = n,
                                            !.arg = arg, !.route = r]]
  /\ UNCHANGED <<world, pointed, todo, crashes>>

\* AddRoute.Prepare looks for a domain of that name; an alias is not one.
PrepareAdd(n, t) ==
  IF IsDomain(disk, n) THEN {} ELSE {Marked(Route(t, NoTarget, NoCert, NoAliases))}

AskAddRoute(j, n, t) == \E r \in PrepareAdd(n, t) : Ask(j, "add", n, NoName, r)

\* Mutant: the certificate is not carried over.
PrepareEditPlain(n, t) ==
  IF IsDomain(disk, n) /\ StateOf(disk, n) # "unmanaged" /\ TargetOf(disk, n) # t
  THEN {Marked([FindByDomain(disk, n) EXCEPT !.to = t, !.cert = NoCert])} ELSE {}

\* EditRoute keeps everything the route has but where it leads.
PrepareEdit(n, t) ==
  IF IsDomain(disk, n) /\ StateOf(disk, n) # "unmanaged" /\ TargetOf(disk, n) # t
  THEN {Marked([FindByDomain(disk, n) EXCEPT !.to = t])} ELSE {}

AskEditRoute(j, n, t) == \E r \in PrepareEdit(n, t) : Ask(j, "edit", n, NoName, r)

PrepareSet(n, t) ==
  IF Managed(disk, n) /\ PathOf(disk, n) # t
  THEN {Marked(WithPath(FindByDomain(disk, n), t))} ELSE {}

AskSetPath(j, n, t) == \E r \in PrepareSet(n, t) : Ask(j, "path", n, NoName, r)

PrepareRemove(n) ==
  IF Managed(disk, n) /\ PathOf(disk, n) # NoTarget
  THEN {Marked(WithoutPath(FindByDomain(disk, n)))} ELSE {}

AskRemovePath(j, n) == \E r \in PrepareRemove(n) : Ask(j, "path", n, NoName, r)

Removable(n) == IsDomain(disk, n) /\ StateOf(disk, n) # "unmanaged"
AskRemoveRoute(j, n) == Removable(n) /\ Ask(j, "remove", n, NoName, Idle.route)

\* aliasAddition: of a route croft manages, and a name nothing else answers on,
\* or one that answers here and still waits for its certificate.
AliasAddition(n, a) ==
  /\ Managed(disk, n) /\ a # n
  /\ a \in DOMAIN FindByDomain(disk, n).aliases
       => CertOf(disk, a) = NoCert /\ CertOf(disk, n) # NoCert
  /\ ~IsDomain(disk, a)
  /\ \A other \in Domains(disk) \ {n} : ~AliasOf(disk, a, other)

AskAddAlias(j, n, a) == AliasAddition(n, a) /\ Ask(j, "alias", n, a, Idle.route)

AliasRemoval(n, a) == Managed(disk, n) /\ AliasOf(disk, a, n)
AskRemoveAlias(j, n, a) == AliasRemoval(n, a) /\ Ask(j, "unalias", n, a, Idle.route)

\* takeOverOf: somebody else's file, which proxies and serves no other domain.
TakeOver(n) ==
  /\ IsDomain(disk, n) /\ StateOf(disk, n) = "unmanaged"
  /\ TargetOf(disk, n) # NoTarget
  /\ \A other \in Domains(disk) \ {n} : FileOf(disk, other) # FileOf(disk, n)

AskTakeOver(j, n) == TakeOver(n) /\ Ask(j, "takeover", n, NoName, Idle.route)

\* tlsChangeFor: a route of croft's that has no https, or certbot's.
TLSChange(n) ==
  /\ IsDomain(disk, n) /\ StateOf(disk, n) # "unmanaged"
  /\ TargetOf(disk, n) # NoTarget
  /\ CertOf(disk, n) \in {NoCert} \cup {Certbot(m) : m \in Names}

AskEnableTLS(j, n) == TLSChange(n) /\ Ask(j, "tls", n, NoName, Idle.route)

Exposable(n) == IsDomain(disk, n) => StateOf(disk, n) # "unmanaged"
AskExpose(j, n) == n \in Panels /\ Exposable(n) /\ Ask(j, "expose", n, NoName, Idle.route)

\* entryRoute: the route that leads where the service is, on https if one does.
EntryRoutes(t) ==
  LET all == {n \in Domains(disk) : StateOf(disk, n) = "managed" /\ TargetOf(disk, n) = t}
      secure == {n \in all : CertOf(disk, n) # NoCert}
      best == IF secure = {} THEN all ELSE secure
  IN  {n \in best : \A m \in best \ {n} : Before(n, m)}

\* A service's first domain is a route and then https; the next ones join it.
AskServiceDomain(j, n, t) ==
  \/ \E e \in EntryRoutes(t) : AliasAddition(e, n) /\ Ask(j, "alias", e, n, Idle.route)
  \/ /\ EntryRoutes(t) = {}
     /\ \E r \in PrepareAdd(n, t) : Ask(j, "service", n, NoName, r)

----------------------------------------------------------------------------
(* What the agent accepts.                                                   *)

Turn(j, step) == job' = [job EXCEPT ![j] = step]
Over(j) == Turn(j, Idle)
Stay == UNCHANGED world /\ UNCHANGED counts

\* To write route r in the file of n, and then go on.
Writing(j, n, r, then) ==
  [job[j] EXCEPT !.at = "write", !.file = n, !.route = Marked(r), !.then = then]

Accept(j, op) == job[j].at = "asked" /\ job[j].op \in op

\* writeRoute writes whatever route the panel sent.
WriteRoute(j) ==
  /\ Accept(j, {"add", "edit", "path", "service"})
  /\ Turn(j, Writing(j, job[j].name, job[j].route,
                     IF job[j].op = "service" THEN "secure" ELSE "over"))
  /\ Stay

\* Mutant: the other names are not promoted.
RemoveRouteWhole(j) ==
  /\ Accept(j, {"remove"})
  /\ IF ~Listing \/ ~Removable(job[j].name) THEN Over(j)
     ELSE Turn(j, [job[j] EXCEPT !.at = "rm"])
  /\ Stay

\* removeRoute: a route with other names goes on serving them, from a file
\* called after the one that takes over, which is written first.
RemoveRoute(j) ==
  LET n == job[j].name
      r == FindByDomain(disk, n) IN
  /\ Accept(j, {"remove"})
  /\ IF ~Listing \/ ~Removable(n) THEN Over(j)
     ELSE IF Managed(disk, n) /\ DOMAIN r.aliases # {}
     THEN Turn(j, Writing(j, Successor(r), Promoted(r), "rm"))
     ELSE Turn(j, [job[j] EXCEPT !.at = "rm"])
  /\ Stay

\* addAlias: over http first when a certificate has to be obtained.
AddAlias(j) ==
  LET n == job[j].name
      a == job[j].arg
      r == FindByDomain(disk, n) IN
  /\ Accept(j, {"alias"})
  /\ IF ~Listing \/ ~AliasAddition(n, a) THEN Over(j)
     ELSE IF r.cert # NoCert /\ a \in Covered
     THEN Turn(j, Writing(j, n, WithAlias(r, a, Wildcard), "over"))
     ELSE Turn(j, Writing(j, n, WithAlias(r, a, NoCert),
                          IF r.cert = NoCert THEN "over" ELSE "reach"))
  /\ Stay

\* removeAlias: a certificate of the alias's own goes after the vhost.
RemoveAlias(j) ==
  LET n == job[j].name
      a == job[j].arg
      r == FindByDomain(disk, n) IN
  /\ Accept(j, {"unalias"})
  /\ IF ~Listing \/ ~AliasRemoval(n, a) THEN Over(j)
     ELSE Turn(j, Writing(j, n, WithoutAlias(r, a),
                          IF r.aliases[a] = Own(a) THEN "drop" ELSE "over"))
  /\ Stay

TakeOverDomain(j) ==
  LET n == job[j].name IN
  /\ Accept(j, {"takeover"})
  /\ IF ~Listing \/ ~TakeOver(n) THEN Over(j)
     ELSE Turn(j, [job[j] EXCEPT !.at = "move",
                                 !.route = Marked([FindByDomain(disk, n) EXCEPT !.aliases = NoAliases])])
  /\ Stay

\* Mutant: whoever else reads that certificate is not looked for.
RetirableAlways(n) == {m \in renewing : CertOf(disk, n) = Certbot(m)}

\* certbot's renewal is retired when no other domain reads that certificate.
Retirable(n) ==
  {m \in renewing : /\ CertOf(disk, n) = Certbot(m)
                    /\ \A other \in Domains(disk) \ {n} : CertOf(disk, other) # Certbot(m)}

\* The change is worked out once: the route written after the certificate is
\* there is the one read before it was asked for.
Securing(j, n, challenge) ==
  LET r == [FindByDomain(disk, n) EXCEPT !.cert = CertFor(n)] IN
  [Writing(j, n, r, IF Retirable(n) = {} THEN "over" ELSE "retire")
     EXCEPT !.op = "tls",
            !.arg = IF Retirable(n) = {} THEN NoName ELSE CHOOSE m \in Retirable(n) : TRUE,
            !.at = IF n \in Covered THEN "write" ELSE IF challenge = "dns" THEN "issue" ELSE "reach"]

EnableTLS(j) ==
  /\ Accept(j, {"tls"}) \/ job[j].at = "secure"
  /\ IF ~Listing \/ ~TLSChange(job[j].name) THEN Over(j)
     ELSE \E challenge \in {"http", "dns"} : Turn(j, Securing(j, job[j].name, challenge))
  /\ Stay

\* Mutant: the vhost is written before its certificate is obtained.
ExposeAtOnce(j) ==
  LET n == job[j].name IN
  /\ Accept(j, {"expose"})
  /\ IF ~Listing \/ ~Exposable(n) THEN Over(j)
     ELSE Turn(j, Writing(j, n, Route(Loopback, NoTarget, Own(n), NoAliases), "over"))
  /\ Stay

\* expose builds the panel's route from nothing, whatever was there.
Expose(j) ==
  LET n == job[j].name IN
  /\ Accept(j, {"expose"})
  /\ IF ~Listing \/ ~Exposable(n) THEN Over(j)
     ELSE Turn(j, [Writing(j, n, Route(Loopback, NoTarget, Own(n), NoAliases), "over")
                     EXCEPT !.at = "issue"])
  /\ Stay

----------------------------------------------------------------------------
(* The steps.                                                                *)

\* What the certificate is for.
Subject(j) == IF job[j].op \in {"alias", "retry"} THEN job[j].arg ELSE job[j].name

\* reaches: the name leads here, and nginx answers for it.
Reaches(n) == n \in pointed /\ n \in Served(loaded)

\* certifyAlias reads the route again once the name is seen to lead here - and
\* keeps what it read while the authority is asked.
CertifyAlias(j) ==
  LET n == job[j].name
      a == job[j].arg
      w == Writing(j, n, WithAlias(FindByDomain(disk, n), a, CertFor(a)), "over") IN
  /\ job[j].at = "reach" /\ job[j].op \in {"alias", "retry"}
  /\ IF ~Reaches(a) \/ ~Listing \/ ~Managed(disk, n) THEN Over(j)
     ELSE Turn(j, IF a \in Covered THEN w ELSE [w EXCEPT !.at = "issue"])
  /\ Stay

CheckReach(j) ==
  /\ job[j].at = "reach" /\ job[j].op = "tls"
  /\ IF Reaches(job[j].name) THEN Turn(j, [job[j] EXCEPT !.at = "issue"]) ELSE Over(j)
  /\ Stay

Issued(j) ==
  /\ job[j].at = "issue"
  /\ certs' = certs \cup {Own(Subject(j))}
  /\ Turn(j, [job[j] EXCEPT !.at = "write"])
  /\ UNCHANGED <<disk, loaded, renewing, aside>> /\ UNCHANGED counts

NotIssued(j) == job[j].at = "issue" /\ Over(j) /\ Stay

\* Mutant: the file is removed, not moved.
MoveAsideForGood(j) ==
  LET f == <<"hand", job[j].name>> IN
  /\ job[j].at = "move"
  /\ disk' = [disk EXCEPT ![f] = NoFile]
  /\ IF disk[f] = NoFile THEN Over(j) ELSE Turn(j, Writing(j, job[j].name, job[j].route, "over"))
  /\ UNCHANGED <<loaded, certs, renewing, aside>> /\ UNCHANGED counts

MoveAside(j) ==
  LET f == <<"hand", job[j].name>> IN
  /\ job[j].at = "move"
  /\ IF disk[f] = NoFile THEN Over(j) /\ UNCHANGED <<disk, aside>>
     ELSE /\ aside' = aside \cup {<<job[j].name, disk[f]>>}
          /\ disk' = [disk EXCEPT ![f] = NoFile]
          /\ Turn(j, Writing(j, job[j].name, job[j].route, "over"))
  /\ UNCHANGED <<loaded, certs, renewing>> /\ UNCHANGED counts

\* walk reads what is there before it writes.
WriteVhost(j) ==
  LET f == Vhost(job[j].file) IN
  /\ job[j].at = "write"
  /\ disk' = [disk EXCEPT ![f] = job[j].route]
  /\ Turn(j, [job[j] EXCEPT !.at = "test", !.before = disk[f]])
  /\ UNCHANGED <<loaded, certs, renewing, aside>> /\ UNCHANGED counts

RemoveVhost(j) ==
  /\ job[j].at = "rm"
  /\ disk' = [disk EXCEPT ![Vhost(job[j].name)] = NoFile]
  /\ Turn(j, [job[j] EXCEPT !.at = "test", !.file = NoName, !.then = "over"])
  /\ UNCHANGED <<loaded, certs, renewing, aside>> /\ UNCHANGED counts

Reload(j) ==
  /\ job[j].at = "test" /\ Loadable(disk, certs)
  /\ loaded' = disk
  /\ IF job[j].then = "over" THEN Over(j)
     ELSE Turn(j, [job[j] EXCEPT !.at = job[j].then])
  /\ UNCHANGED <<disk, certs, renewing, aside>> /\ UNCHANGED counts

\* Mutant: what nginx refused stays where it is.
PutBackNothing(j) == disk

\* A step failed - nginx refuses, or the request was cancelled: what was
\* written is put back as it was. The rm of a removal is not a file to put back.
PutBack(j) ==
  IF job[j].file = NoName THEN disk
  ELSE [disk EXCEPT ![Vhost(job[j].file)] = job[j].before]

Refused(j) ==
  /\ job[j].at = "test" /\ job[j].op # "takeover"
  /\ disk' = PutBack(j)
  /\ Over(j)
  /\ UNCHANGED <<loaded, certs, renewing, aside>> /\ UNCHANGED counts

\* A take over removes its own file and moves the original back - with the
\* request's context, which runs nothing more once it is cancelled.
PutOriginalBack(j, cancelled) ==
  LET n == job[j].name
      moved == {p \in aside : p[1] = n}
      own == [disk EXCEPT ![Vhost(n)] = NoFile] IN
  IF cancelled \/ moved = {} THEN disk' = own /\ UNCHANGED aside
  ELSE \E p \in moved : /\ disk' = [own EXCEPT ![<<"hand", n>>] = p[2]]
                        /\ aside' = aside \ {p}

RefusedTakeOver(j) ==
  /\ job[j].at = "test" /\ job[j].op = "takeover"
  /\ \E cancelled \in Cancels : PutOriginalBack(j, cancelled)
  /\ Over(j)
  /\ UNCHANGED <<loaded, certs, renewing>> /\ UNCHANGED counts

DropCertificate(j) ==
  /\ job[j].at = "drop"
  /\ certs' = certs \ {Own(job[j].arg)}
  /\ Over(j)
  /\ UNCHANGED <<disk, loaded, renewing, aside>> /\ UNCHANGED counts

Retire(j) ==
  /\ job[j].at = "retire"
  /\ renewing' = renewing \ {job[j].arg}
  /\ Over(j)
  /\ UNCHANGED <<disk, loaded, certs, aside>> /\ UNCHANGED counts

\* The request is cancelled between two steps: the commands that are left do not
\* run, and what was done stays.
CutShort(j) ==
  /\ TRUE \in Cancels /\ j # Retrier
  /\ job[j].at \in {"asked", "move", "reach", "rm", "drop", "retire", "secure"}
  /\ Over(j)
  /\ Stay

----------------------------------------------------------------------------
(* The agent's retry, and the world around it.                              *)

\* Mutant: only those of routes over http.
WaitingNamesOverHttp ==
  {p \in Names \X Names : /\ AliasOf(disk, p[2], p[1]) /\ Managed(disk, p[1])
                          /\ CertOf(disk, p[1]) = NoCert /\ CertOf(disk, p[2]) = NoCert}

\* retryWaitingOnce: the aliases over http of the routes on https, as listed once.
WaitingNames ==
  {p \in Names \X Names : /\ AliasOf(disk, p[2], p[1]) /\ Managed(disk, p[1])
                          /\ CertOf(disk, p[1]) # NoCert /\ CertOf(disk, p[2]) = NoCert}

RetryLook(j) ==
  /\ j = Retrier /\ job[j].at = "idle" /\ todo = {}
  /\ Listing /\ WaitingNames # {}
  /\ todo' = WaitingNames
  /\ UNCHANGED <<world, job, pointed, asked, crashes>>

\* The next name of the list goes through certifyAlias.
RetryNext(j) ==
  /\ j = Retrier /\ job[j].at = "idle"
  /\ \E p \in todo :
       /\ todo' = todo \ {p}
       /\ Turn(j, [Idle EXCEPT !.op = "retry", !.at = "reach", !.name = p[1], !.arg = p[2]])
  /\ UNCHANGED <<world, pointed, asked, crashes>>

\* Somebody edits a file of croft's by hand: where it leads, say.
HandEdit(n, t) ==
  LET f == Vhost(n) IN
  /\ "handedit" \in Kinds /\ asked < MaxAsked
  /\ disk[f] # NoFile /\ disk[f].to # t
  /\ disk' = [disk EXCEPT ![f].to = t, ![f].by = "edited"]
  /\ asked' = asked + 1
  /\ UNCHANGED <<loaded, certs, renewing, aside, pointed, job, todo, crashes>>

PointDNS(n) ==
  /\ n \notin pointed
  /\ pointed' = pointed \cup {n}
  /\ UNCHANGED <<world, job, todo, asked, crashes>>

Restart ==
  /\ crashes < MaxCrashes
  /\ crashes' = crashes + 1
  /\ job' = [j \in Requests |-> Idle]
  /\ todo' = {}
  /\ UNCHANGED <<world, pointed, asked>>

AskAnything(j) ==
  CanAsk(j) /\ \E n \in Names :
    \/ \E t \in Targets \ {Loopback} : AskAddRoute(j, n, t) \/ AskEditRoute(j, n, t)
                                       \/ AskSetPath(j, n, t) \/ AskServiceDomain(j, n, t)
    \/ AskRemovePath(j, n) \/ AskRemoveRoute(j, n) \/ AskTakeOver(j, n)
    \/ AskEnableTLS(j, n) \/ AskExpose(j, n)
    \/ \E a \in Names : AskAddAlias(j, n, a) \/ AskRemoveAlias(j, n, a)

Accepted(j) ==
  \/ WriteRoute(j) \/ RemoveRoute(j) \/ AddAlias(j) \/ RemoveAlias(j)
  \/ TakeOverDomain(j) \/ EnableTLS(j) \/ Expose(j)

Step(j) ==
  \/ CertifyAlias(j) \/ CheckReach(j) \/ NotIssued(j) \/ MoveAside(j)
  \/ WriteVhost(j) \/ RemoveVhost(j) \/ Refused(j) \/ RefusedTakeOver(j)
  \/ DropCertificate(j) \/ Retire(j) \/ CutShort(j)

Retry(j) == RetryLook(j) \/ RetryNext(j)

Next ==
  \/ \E j \in Requests : AskAnything(j) \/ Accepted(j) \/ Step(j) \/ Issued(j)
                         \/ Reload(j) \/ Retry(j)
  \/ \E n \in Names : PointDNS(n) \/ (\E t \in Targets : HandEdit(n, t))
  \/ Restart

Spec == Init /\ [][Next]_vars

\* What can go on does. The authority grants a certificate in the end, and
\* nginx takes a reload in the end, if it is asked again and again.
FairSpec ==
  /\ Spec
  /\ \A j \in Requests : /\ WF_vars(Accepted(j) \/ Step(j) \/ Retry(j))
                         /\ SF_vars(Issued(j)) /\ SF_vars(Reload(j))

----------------------------------------------------------------------------
(* Properties.                                                               *)

Steps == {"idle", "asked", "move", "reach", "issue", "write", "test", "rm", "drop", "secure",
          "retire"}

TypeOK ==
  /\ disk \in [Files -> Contents \cup {NoFile}] /\ loaded \in [Files -> Contents \cup {NoFile}]
  /\ certs \subseteq Certs \ {NoCert} /\ renewing \subseteq Names /\ pointed \subseteq Names
  /\ aside \subseteq Names \X Contents
  /\ todo \subseteq Names \X Names
  /\ DOMAIN job = Requests
  /\ \A j \in Requests : job[j].op \in Ops \cup {"none"} /\ job[j].at \in Steps

\* nginx can start from what is on disk, at every moment: no file names a
\* certificate that is not there. A vhost is written after its certificate is
\* obtained, and a certificate goes after the vhost that named it - otherwise the
\* next reload, by anybody, takes every site with it.
NginxStarts == Loadable(disk, certs)

\* Between writes, nothing croft wrote is waiting for somebody else's reload: what
\* is on disk is what nginx serves, whether the last write was taken or refused.
NothingPending ==
  (\A j \in Requests : job[j].at # "test") =>
    \A f \in Files : disk[f] # NoFile => (disk[f].by = "edited" \/ loaded[f] = disk[f])

LettingGo(n) ==
  \E j \in Requests :
    \/ job[j].op \in {"remove", "takeover"} /\ job[j].name = n
    \/ job[j].op = "unalias" /\ job[j].arg = n

\* A name that nginx serves disappears from the disk only in a request about that
\* very name: promotion or a rewrite never takes another name with it. (What is
\* put back is NothingPending's; a file edited by hand is RemovalSparesOthers's.)
Lost == (Served(loaded) \cap Served(disk)) \ Served(disk')

NoNameIsTaken ==
  [][(\A j \in Requests : job[j].at # "test") =>
       \A n \in Lost : disk[FileOf(disk, n)].by = "edited" \/ LettingGo(n)]_vars

\* A name that nginx serves over https, from one file, is never written over http
\* again, whatever is asked. (A name two files claim, ServedOnce, may be.)
HttpsStays ==
  [][\A n \in Served(disk) \cap Served(disk') :
       (CertOf(disk, n) # NoCert /\ CertOf(loaded, n) # NoCert /\ Cardinality(Claims(loaded, n)) = 1)
         => CertOf(disk', n) # NoCert]_vars

\* certbot goes on renewing each of its certificates that some vhost reads.
StillRenewed ==
  \A f \in Files : \A n \in NamesIn(disk, f) : \A m \in CertbotNames :
    CertIn(disk, f, n) = Certbot(m) => m \in renewing

\* A file written by hand is where it was, or put aside: never lost.
HandFilesKept ==
  \A n \in Names : Initial[<<"hand", n>>] # NoFile =>
    \/ disk[<<"hand", n>>] = Initial[<<"hand", n>>]
    \/ <<n, Initial[<<"hand", n>>]>> \in aside

\* The state is well typed, what people wrote by hand is still there, and nginx
\* can start from what is on disk - whatever the requests do between them.
RoutesInv == TypeOK /\ HandFilesKept /\ NginxStarts

Waiting(n, a) ==
  AliasOf(disk, a, n) /\ CertOf(disk, a) = NoCert /\ CertOf(disk, n) # NoCert

\* A name that nginx serves and that waits for its DNS is served over https once
\* its DNS points here: nobody has to come back and press anything, and a restart
\* of the agent forgets nobody. (A restart between the write and the reload leaves
\* a name that nginx does not serve yet: it waits for somebody else's reload.)
GetsItsCertificate ==
  \A n, a \in Names :
    (Waiting(n, a) /\ a \in pointed /\ a \in Served(loaded)) ~> ~Waiting(n, a)

----------------------------------------------------------------------------
(* What the sources say, and the code does not keep: see the README.          *)

\* Nothing answers on a name twice.
ServedOnce == \A n \in Served(loaded) : Cardinality(Claims(loaded, n)) = 1

\* Removing one name never takes another with it.
RemovalSparesOthers ==
  [][(\A j \in Requests : job[j].at # "test") => \A n \in Lost : LettingGo(n)]_vars

\* A take over that fails leaves the name with the original file, not with neither.
NeverNeither ==
  \A n \in Names : Initial[<<"hand", n>>] # NoFile =>
    \/ n \in Served(disk)
    \/ \E j \in Requests : job[j].op \in {"takeover", "remove"} /\ job[j].name = n

\* A file edited by hand is not rewritten.
HandEditsStay ==
  [][\A n \in Names : LET f == Vhost(n) IN
       (disk[f] # NoFile /\ disk'[f] # NoFile /\ disk[f].by = "edited") => disk'[f].by = "edited"]_vars

\* An alias that was removed stays removed until somebody adds it again.
RemovedStaysRemoved ==
  [][\A n \in Served(disk') \ Served(disk) : \E j \in Requests :
       \/ job[j].op # "retry" /\ n \in {job[j].name, job[j].arg}
       \/ job[j].op \in {"takeover", "remove"}]_vars
================================================================================
