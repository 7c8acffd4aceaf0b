------------------------------ MODULE Certificates ------------------------------
(****************************************************************************)
(* The certificates croft issues, stores and renews (internal/certificate,      *)
(* internal/agent/{renew,wildcard,dns,tls}.go), and what nginx serves of them.   *)
(*                                                                          *)
(* A certificate is a pair of files, written one after the other; nginx reads    *)
(* both when it is reloaded, and holds on to what it read. The agent looks twice *)
(* a day for what expires within a month, renews it, and reloads. People issue   *)
(* too, from the panel or with "croft cert issue", and nothing stops two of them *)
(* from working on one name.                                                  *)
(*                                                                          *)
(* Time passes in half months. Many looks fit in one, so one of them gets to     *)
(* the end without a passing failure: a half month is over when a look either    *)
(* renewed all there was to renew, or the authority was not answering at all.    *)
(****************************************************************************)
EXTENDS Integers, FiniteSets

CONSTANTS
  Names,      \* what certificates are for
  Wild,       \* those that are wildcards, which take credentials of the DNS provider
  Certbots,   \* names for which certbot's live directory holds a certificate as well
  Renewer,    \* the agent's loop
  People,     \* requests that issue
  Lifetime,   \* half months a certificate lasts
  RenewBelow, \* half months left below which it is renewed
  MaxOutage,  \* half months in a row the authority may not answer
  Again,      \* whether people issue again what is there already
  AtOnce,     \* whether requests and the loop may be under way at the same time
  MaxRestarts,\* bound: restarts of the agent
  Breaks      \* where a restart may hit, once a pair is being stored: "half", "reload"

ASSUME CertificatesAssumption ==
  /\ Wild \subseteq Names /\ Certbots \subseteq Names
  /\ IsFiniteSet(People) /\ Renewer \notin People
  /\ {Lifetime, RenewBelow, MaxOutage, MaxRestarts} \subseteq Nat
  /\ RenewBelow < Lifetime
  /\ Again \in BOOLEAN /\ AtOnce \in BOOLEAN
  /\ Breaks \subseteq {"half", "reload"}

Workers == {Renewer} \cup People
Expired == -1
Ages == Expired .. Lifetime
\* Serials tell one issuance from another: as many as may be about for a name at once.
Serials == 0 .. Cardinality(Workers) + 1
None == -1

Works == [at : {"idle", "issue", "store", "half", "reload"}, name : Names \cup {None},
          new : Serials \cup {None}, first : {"none", "cert", "key"}, serves : BOOLEAN]

VARIABLES
  left,    \* fullchain.pem in croft's directory: half months it has left
  serial,  \* which issuance fullchain.pem is of, or None
  key,     \* which issuance privkey.pem is of, or None
  sites,   \* the names some vhost serves with croft's certificate
  served,  \* half months left of what nginx has loaded for them
  live,    \* half months left of what certbot's live directory holds
  dns,     \* credentials of the DNS provider are saved
  work,    \* what each worker does
  todo,    \* the names the look under way has left
  failed,  \* something went wrong in this look
  looked,  \* the agent has done what it could in this half month
  outage,  \* half months in a row without the authority, this one included
  restarts

vars == <<left, serial, key, sites, served, live, dns, work, todo, failed, looked, outage,
          restarts>>
files == <<left, serial, key>>
look == <<todo, failed, looked>>
around == <<live, dns, outage, restarts>>

Idle == [at |-> "idle", name |-> None, new |-> None, first |-> "none", serves |-> FALSE]

Init ==
  /\ left = [n \in Names |-> Expired]
  /\ serial = [n \in Names |-> None]
  /\ key = [n \in Names |-> None]
  /\ sites = {}
  /\ served = [n \in Names |-> Expired]
  /\ live = [n \in Names |-> IF n \in Certbots THEN Lifetime ELSE None]
  /\ dns = FALSE
  /\ work = [w \in Workers |-> Idle]
  /\ todo = {} /\ failed = FALSE /\ looked = FALSE /\ outage = 0 /\ restarts = 0

Up == outage = 0
Stored(n) == serial[n] # None
Matching(n) == serial[n] = key[n]

\* FindAll lists certbot's directory first, and one certificate for a name. The
\* wildcards are kept under names of their own.
Managed(n) == Stored(n) /\ n \notin Certbots \ Wild

\* chooseChallenge takes DNS when it can; a wildcard can be proved no other way.
Provable(n) == n \in Wild => dns

\* A worker that may take something up.
Free(w) ==
  /\ work[w].at = "idle"
  /\ AtOnce \/ \A v \in Workers : work[v].at = "idle"

Do(w, step) == work' = [work EXCEPT ![w] = step]

----------------------------------------------------------------------------
(* Issuing.                                                                 *)

\* A serial of no file and no issuance under way.
Fresh(n) ==
  CHOOSE s \in Serials :
    /\ s \notin {serial[n], key[n]}
    /\ \A w \in Workers : work[w].name = n => work[w].new # s

Obtain(w) ==
  /\ work[w].at = "issue" /\ Up
  /\ Do(w, [work[w] EXCEPT !.at = "store", !.new = Fresh(work[w].name)])
  /\ UNCHANGED <<files, sites, served, look, around>>

\* A failure ends a request, and leaves a renewal to the next look.
Fail(w) ==
  /\ Do(w, Idle)
  /\ failed' = (failed \/ w = Renewer)
  /\ UNCHANGED <<files, sites, served, todo, looked, around>>

NotObtained(w) == work[w].at = "issue" /\ Fail(w)

\* store ranges over a map of the two files: either is written first.
Write(w, file) ==
  LET n == work[w].name IN
  IF file = "cert"
  THEN /\ left' = [left EXCEPT ![n] = Lifetime]
       /\ serial' = [serial EXCEPT ![n] = work[w].new]
       /\ UNCHANGED key
  ELSE key' = [key EXCEPT ![n] = work[w].new] /\ UNCHANGED <<left, serial>>

StoreFirst(w) ==
  /\ work[w].at = "store"
  /\ \E file \in {"cert", "key"} :
       /\ Write(w, file)
       /\ Do(w, [work[w] EXCEPT !.at = "half", !.first = file])
  /\ UNCHANGED <<sites, served, look, around>>

\* Mutant: the file that is there already is written again.
StoreSecondSame(w) ==
  /\ work[w].at = "half"
  /\ Write(w, work[w].first)
  /\ Do(w, IF work[w].serves THEN [work[w] EXCEPT !.at = "reload"] ELSE Idle)
  /\ UNCHANGED <<sites, served, look, around>>

\* What was issued to be kept, not served, ends here: nothing is reloaded.
StoreSecond(w) ==
  /\ work[w].at = "half"
  /\ Write(w, IF work[w].first = "cert" THEN "key" ELSE "cert")
  /\ Do(w, IF work[w].serves THEN [work[w] EXCEPT !.at = "reload"] ELSE Idle)
  /\ UNCHANGED <<sites, served, look, around>>

----------------------------------------------------------------------------
(* nginx.                                                                   *)

\* nginx -t reads every pair it is to serve: a key that is not the certificate's fails it.
Passes(S) == \A n \in S : Stored(n) /\ Matching(n)
Loading(S) == served' = [n \in Names |-> IF n \in S THEN left[n] ELSE Expired]

Reload(w) ==
  LET S == sites \cup {work[w].name} IN
  /\ work[w].at = "reload" /\ w \in People /\ Passes(S)
  /\ sites' = S /\ Loading(S)
  /\ Do(w, Idle)
  /\ UNCHANGED <<files, look, around>>

\* Mutant: the pair is stored, and nginx goes on with what it had.
ReloadRenewedNot ==
  /\ work[Renewer].at = "reload" /\ Passes(sites)
  /\ Do(Renewer, Idle)
  /\ UNCHANGED <<files, sites, served, look, around>>

\* renew reloads whether or not a vhost serves the name.
ReloadRenewed ==
  /\ work[Renewer].at = "reload" /\ Passes(sites)
  /\ Loading(sites)
  /\ Do(Renewer, Idle)
  /\ UNCHANGED <<files, sites, look, around>>

\* nginx -t fails, or a request is cancelled: its vhost is put back as it was. A
\* renewal that is not loaded is logged.
Refused(w) ==
  /\ work[w].at = "reload"
  /\ w \in People \/ ~Passes(sites)
  /\ Fail(w)

\* Any other change of any route reloads nginx as well; nobody has to make one.
ReloadByOthers ==
  /\ Passes(sites) /\ Loading(sites) /\ served' # served
  /\ UNCHANGED <<files, sites, work, look, around>>

----------------------------------------------------------------------------
(* People.                                                                  *)

Save == dns' = TRUE

\* From the panel, or with croft dns set.
SaveDNS ==
  /\ ~dns /\ Save
  /\ UNCHANGED <<files, sites, served, live, work, look, outage, restarts>>

\* Https for a name that has none, or certbot's.
EnableTLS(w, n) ==
  /\ Free(w) /\ n \notin Wild \cup sites
  /\ Do(w, [Idle EXCEPT !.at = "issue", !.name = n, !.serves = TRUE])
  /\ UNCHANGED <<files, sites, served, look, around>>

\* A certificate by itself: the pair is stored, and that is all.
ToKeep(w, n) ==
  /\ Free(w) /\ (Stored(n) => Again)
  /\ Do(w, [Idle EXCEPT !.at = "issue", !.name = n])
  /\ UNCHANGED <<files, sites, served, look, around>>

\* A wildcard, from the panel.
IssueWildcard(w, n) == n \in Wild /\ Provable(n) /\ ToKeep(w, n)

\* croft cert issue, by root on the host; it goes on whatever the agent does.
CertIssue(w, n) == Provable(n) /\ ToKeep(w, n)

\* Https for a name that a wildcard covers asks the authority for nothing.
ServeCovered(w, n) ==
  /\ Free(w) /\ n \in Wild \ sites
  /\ Managed(n) /\ left[n] > 0
  /\ Do(w, [Idle EXCEPT !.at = "reload", !.name = n, !.serves = TRUE])
  /\ UNCHANGED <<files, sites, served, look, around>>

----------------------------------------------------------------------------
(* The loop of the agent.                                                   *)

Due(n) == Managed(n) /\ left[n] < RenewBelow

Look ==
  /\ work[Renewer].at = "idle" /\ ~looked /\ todo = {} /\ ~failed
  /\ todo' = {n \in Names : Due(n)}
  /\ looked' = (todo' = {})
  /\ UNCHANGED <<files, sites, served, work, failed, around>>

RenewNext ==
  /\ Free(Renewer)
  /\ \E n \in todo :
       /\ todo' = todo \ {n}
       /\ Do(Renewer, [Idle EXCEPT !.at = "issue", !.name = n, !.serves = TRUE])
  /\ UNCHANGED <<files, sites, served, failed, looked, around>>

\* Mutant: that something failed is not forgotten.
EndLookFailed ==
  /\ work[Renewer].at = "idle" /\ todo = {} /\ failed
  /\ looked' = ~Up
  /\ UNCHANGED <<files, sites, served, work, todo, failed, around>>

\* The look is over: another one before the half month is, unless the authority is out.
EndLook ==
  /\ work[Renewer].at = "idle" /\ todo = {} /\ failed
  /\ looked' = ~Up /\ failed' = FALSE
  /\ UNCHANGED <<files, sites, served, work, todo, around>>

----------------------------------------------------------------------------
(* The world.                                                               *)

Older(age) == IF age > Expired THEN age - 1 ELSE age

HalfMonth ==
  /\ looked /\ \A w \in Workers : work[w].at = "idle"
  /\ left' = [n \in Names |-> Older(left[n])]
  /\ served' = [n \in Names |-> Older(served[n])]
  /\ live' = [n \in Names |-> Older(live[n])]
  /\ looked' = FALSE
  /\ outage' \in {0} \cup (IF outage < MaxOutage THEN {outage + 1} ELSE {})
  /\ UNCHANGED <<serial, key, sites, dns, work, todo, failed, restarts>>

\* The agent starts again: requests and the look are gone, the files stay.
Restart ==
  /\ restarts < MaxRestarts /\ restarts' = restarts + 1
  /\ \E w \in Workers : work[w].at # "idle"
  /\ \A w \in Workers : work[w].at \in {"idle", "issue", "store"} \cup Breaks
  /\ work' = [w \in Workers |-> Idle]
  /\ todo' = {} /\ failed' = FALSE /\ looked' = FALSE
  /\ UNCHANGED <<files, sites, served, live, dns, outage>>

Step(w) ==
  \/ Obtain(w) \/ NotObtained(w) \/ StoreFirst(w) \/ StoreSecond(w)
  \/ Reload(w) \/ Refused(w)

Loop == Look \/ RenewNext \/ EndLook \/ ReloadRenewed

Next ==
  \/ \E w \in Workers : Step(w)
  \/ \E w \in People, n \in Names : EnableTLS(w, n) \/ IssueWildcard(w, n) \/ CertIssue(w, n)
                              \/ ServeCovered(w, n)
  \/ Loop \/ SaveDNS \/ ReloadByOthers \/ HalfMonth \/ Restart

\* Time passes, and what can go on does. The authority answers in the end when it
\* is asked again and again, and people do not get in the way for good.
Spec ==
  /\ Init /\ [][Next]_vars
  /\ SF_vars(Loop) /\ SF_vars(RenewNext) /\ SF_vars(HalfMonth)
  /\ \A w \in Workers : SF_vars(Step(w)) /\ SF_vars(Obtain(w))

----------------------------------------------------------------------------
(* Properties.                                                              *)

TypeOK ==
  /\ left \in [Names -> Ages] /\ served \in [Names -> Ages] /\ live \in [Names -> Ages]
  /\ serial \in [Names -> Serials \cup {None}] /\ key \in [Names -> Serials \cup {None}]
  /\ sites \subseteq Names /\ todo \subseteq Names
  /\ {dns, failed, looked} \subseteq BOOLEAN /\ outage \in 0..MaxOutage /\ restarts \in 0..MaxRestarts
  /\ work \in [Workers -> Works]

\* nginx never serves a certificate that has expired: the month of slack is enough
\* for an authority that does not answer for MaxOutage half months, what is renewed
\* is loaded before the old one runs out, and it is so for every name all the time.
NeverExpired == \A n \in sites : served[n] > Expired

\* Once nobody is writing them, the two files of a name are of one issuance:
\* otherwise nginx -t fails, for everybody, until somebody finds out why.
PairsMatch ==
  \A n \in Names : (\A w \in Workers : work[w].name = n => work[w].at # "half") => Matching(n)

\* The state is well typed, and what is stored can be loaded.
CertificatesInv == TypeOK /\ PairsMatch

\* What is due is renewed in the end, whatever failed or was cut short on the way.
DueIsRenewed ==
  \A n \in Names : (n \in sites /\ left[n] < RenewBelow) ~> (left[n] >= RenewBelow)
================================================================================
