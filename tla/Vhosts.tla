--------------------------------- MODULE Vhosts ---------------------------------
(****************************************************************************)
(* The vhost files nginx reads, and how they are read back as routes           *)
(* (internal/route). A file is croft's own, in its directory and named after   *)
(* the route's domain, or one somebody wrote by hand in theirs. nginx merges    *)
(* them all: a name may be claimed by several files, and nginx -T lists them in *)
(* the order they are included, croft's directory first.                       *)
(*                                                                          *)
(* Abstracted: a target is an address with its port; a route has one prefix    *)
(* that may go elsewhere; a certificate is the directory it is read from.      *)
(****************************************************************************)
EXTENDS Naturals, FiniteSets

CONSTANTS
  Names,     \* domain names
  Rank,      \* the order names, and so files, are listed in
  Targets,   \* addresses with their ports
  NoTarget,  \* what a vhost that proxies nowhere, or a path, points at
  NoFile,    \* what a directory has where there is no such file
  Covered    \* the names a wildcard croft keeps covers

ASSUME VhostsAssumption ==
  /\ IsFiniteSet(Names)
  /\ Rank \in [Names -> Nat]
  /\ \A m, n \in Names : Rank[m] = Rank[n] => m = n
  /\ NoTarget \notin Targets
  /\ Covered \subseteq Names

NoCert == <<"none">>
Own(n) == <<"croft", n>>       \* /var/lib/croft/certificates/<name>
Certbot(n) == <<"certbot", n>> \* /etc/letsencrypt/live/<name>
Wildcard == <<"croft">>        \* the wildcard's own directory
Certs == {Own(n) : n \in Names} \cup {Certbot(n) : n \in Names} \cup {Wildcard, NoCert}

Files == {"croft", "hand"} \X Names
Vhost(n) == <<"croft", n>>

\* What a file says. A name whose certificate is NoCert is served over http.
Route(to, path, cert, aliases) ==
  [to |-> to, path |-> path, cert |-> cert, aliases |-> aliases]
NoAliases == [n \in {} |-> NoCert]

\* The other names of a file, each with its certificate.
Aliases == UNION {[S -> Certs] : S \in SUBSET Names}
Contents ==
  [to : Targets \cup {NoTarget}, path : Targets \cup {NoTarget}, cert : Certs,
   aliases : Aliases, by : {"croft", "edited", "other"}]

\* No file says what a missing one stands for.
ASSUME NoFileAssumption == NoFile \notin Contents

\* marked writes the hash of the body with it: the file is croft's as it stands.
Marked(r) == [to |-> r.to, path |-> r.path, cert |-> r.cert, aliases |-> r.aliases, by |-> "croft"]

Before(m, n) == Rank[m] < Rank[n]
Listed(f, g) == f = g \/ (f[1] # g[1] /\ f[1] = "croft") \/ (f[1] = g[1] /\ Before(f[2], g[2]))

----------------------------------------------------------------------------
(* Reading the files of a disk back as routes: FindAll.                       *)

NamesIn(disk, f) == IF disk[f] = NoFile THEN {} ELSE {f[2]} \cup DOMAIN disk[f].aliases
CertIn(disk, f, n) == IF n = f[2] THEN disk[f].cert ELSE disk[f].aliases[n]
Claims(disk, n) == {f \in Files : n \in NamesIn(disk, f)}
First(F) == CHOOSE f \in F : \A g \in F : Listed(f, g)
Last(F) == CHOOSE f \in F : \A g \in F : Listed(g, f)

\* The block with a certificate that is read last says which one it is.
CertOf(disk, n) ==
  LET secure == {f \in Claims(disk, n) : CertIn(disk, f, n) # NoCert}
  IN  IF secure = {} THEN NoCert ELSE CertIn(disk, Last(secure), n)

\* The first block that passes requests on says where to; paths likewise.
TargetOf(disk, n) ==
  LET proxied == {f \in Claims(disk, n) : disk[f].to # NoTarget}
  IN  IF proxied = {} THEN NoTarget ELSE disk[First(proxied)].to

PathOf(disk, n) ==
  LET split == {f \in Claims(disk, n) : disk[f].path # NoTarget}
  IN  IF split = {} THEN NoTarget ELSE disk[First(split)].path

FileOf(disk, n) == First(Claims(disk, n))

\* A name in a file of croft's is an alias of the name the file is called after.
AliasOf(disk, n, primary) ==
  /\ n # primary /\ n \in NamesIn(disk, Vhost(primary))
  /\ FileOf(disk, n) = Vhost(primary)
  /\ FileOf(disk, primary) = Vhost(primary)

\* The domains FindAll lists: every name that is nobody's alias.
IsDomain(disk, n) ==
  /\ Claims(disk, n) # {}
  /\ LET f == FileOf(disk, n) IN f[1] = "hand" \/ ~AliasOf(disk, n, f[2])

Domains(disk) == {n \in Names : IsDomain(disk, n)}

StateOf(disk, n) ==
  LET f == FileOf(disk, n) IN
  CASE f[1] = "hand" \/ disk[f].by = "other" -> "unmanaged"
    [] f[1] = "croft" /\ disk[f].by = "edited" -> "adopted"
    [] OTHER -> "managed"

FindByDomain(disk, n) ==
  Route(TargetOf(disk, n), PathOf(disk, n), CertOf(disk, n),
        [a \in {m \in Names : AliasOf(disk, m, n)} |-> CertOf(disk, a)])

Managed(disk, n) == IsDomain(disk, n) /\ StateOf(disk, n) = "managed"

\* nginx -t, and so nginx -T: every certificate a file names has to be there.
Loadable(disk, certs) ==
  \A f \in Files : \A n \in NamesIn(disk, f) : CertIn(disk, f, n) \in certs \cup {NoCert}

----------------------------------------------------------------------------
(* The changes of a route.                                                    *)

WithPath(r, t) == [r EXCEPT !.path = t]
WithoutPath(r) == [r EXCEPT !.path = NoTarget]

WithAlias(r, n, cert) ==
  [r EXCEPT !.aliases = [m \in (DOMAIN @) \cup {n} |-> IF m = n THEN cert ELSE @[m]]]

WithoutAlias(r, n) == [r EXCEPT !.aliases = [m \in (DOMAIN @) \ {n} |-> @[m]]]

\* The alias that becomes the domain: the first on https as the route is, or
\* the first of all.
Successor(r) ==
  LET like == {n \in DOMAIN r.aliases : (r.aliases[n] # NoCert) = (r.cert # NoCert)}
      from == IF like = {} THEN DOMAIN r.aliases ELSE like
  IN  CHOOSE n \in from : \A m \in from \ {n} : Before(n, m)

Promoted(r) ==
  LET n == Successor(r) IN
  [WithoutAlias(r, n) EXCEPT !.cert = IF r.cert = NoCert THEN NoCert ELSE r.aliases[n]]

\* wildcardFor, or the certificate of its own the name is to get.
CertFor(n) == IF n \in Covered THEN Wildcard ELSE Own(n)
================================================================================
