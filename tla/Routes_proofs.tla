----------------------------- MODULE Routes_proofs -----------------------------
(* What the files of nginx keep, for any number of names, requests at a time,     *)
(* cancellations, edits by hand and restarts of the agent; and, from the lemmas    *)
(* on what is read of a disk where one file was written on, what they keep for     *)
(* requests that come one at a time.                                            *)
EXTENDS Routes, FiniteSetTheorems, TLAPS

----------------------------------------------------------------------------
(* First, Last and Successor name something: an order on finitely many has a      *)
(* greatest element.                                                           *)

LEMMA HasGreatest ==
  ASSUME NEW F, IsFiniteSet(F), F # {}, NEW R,
         \A x, y \in F : <<x, y>> \in R \/ <<y, x>> \in R,
         \A x, y, z \in F : <<x, y>> \in R /\ <<y, z>> \in R => <<x, z>> \in R
  PROVE  \E x \in F : \A y \in F : <<y, x>> \in R
<1> DEFINE Above(x) == {y \in F : <<y, x>> \notin R}
<1> DEFINE All == {Above(x) : x \in F}
<1>1. All \subseteq FiniteSubsetsOf(F) /\ All # {}
  <2>1. FiniteSubsetsOf(F) = SUBSET F
    BY FS_FiniteSubsetsOfFinite
  <2>2. \A x \in F : Above(x) \in SUBSET F /\ Above(x) \in All
    OBVIOUS
  <2>3. All \subseteq SUBSET F
    BY <2>2
  <2>4. All # {}
    BY <2>2
  <2> QED BY <2>1, <2>3, <2>4
<1>2. IsWellFoundedOn(StrictSubsetOrdering(F), FiniteSubsetsOf(F))
  BY FS_StrictSubsetOrderingWellFounded
<1> HIDE DEF All
<1>3. PICK A \in All : \A B \in All : <<B, A>> \notin StrictSubsetOrdering(F)
  BY <1>1, <1>2, WFMin
<1>4. PICK x \in F : A = Above(x)
  BY DEF All
<1>5. ASSUME NEW y \in F, <<y, x>> \notin R PROVE FALSE
  <2>1. <<x, y>> \in R
    BY <1>5
  <2>2. Above(y) \subseteq Above(x)
    BY <2>1
  <2>3. y \in Above(x) /\ y \notin Above(y)
    BY <1>5
  <2>4. <<Above(y), Above(x)>> \in StrictSubsetOrdering(F)
    BY <2>2, <2>3 DEF StrictSubsetOrdering
  <2>5. Above(y) \in All
    BY DEF All
  <2> QED BY <1>3, <1>4, <2>4, <2>5
<1> QED BY <1>5

LEMMA FilesAreFinite == IsFiniteSet(Files)
<1>1. IsFiniteSet({"croft", "hand"})
  <2>1. IsFiniteSet({"croft"})
    BY FS_Singleton
  <2>2. IsFiniteSet({"croft"} \cup {"hand"})
    BY <2>1, FS_AddElement
  <2> QED BY <2>2
<1> QED BY <1>1, VhostsAssumption, FS_Product DEF Files

LEMMA ListedOrders ==
  /\ \A f, g \in Files : Listed(f, g) \/ Listed(g, f)
  /\ \A f, g, h \in Files : Listed(f, g) /\ Listed(g, h) => Listed(f, h)
<1>1. ASSUME NEW f \in Files PROVE f = <<f[1], f[2]>> /\ f[1] \in {"croft", "hand"} /\ f[2] \in Names
  BY DEF Files
<1>2. \A m \in Names : Rank[m] \in Nat
  BY VhostsAssumption
<1>3. \A f, g \in Files : f[1] = g[1] /\ f[2] = g[2] => f = g
  BY <1>1
<1> QED BY <1>1, <1>2, <1>3, VhostsAssumption DEF Listed, Before

LEMMA FirstIsOne == ASSUME NEW F \in SUBSET Files, F # {} PROVE First(F) \in F
<1> DEFINE R == {p \in Files \X Files : Listed(p[2], p[1])}
<1>1. IsFiniteSet(F)
  BY FilesAreFinite, FS_Subset
<1>2. \A x, y \in Files : <<x, y>> \in R <=> Listed(y, x)
  OBVIOUS
<1> HIDE DEF R
<1>3. \E x \in F : \A y \in F : <<y, x>> \in R
  BY <1>1, <1>2, ListedOrders, HasGreatest
<1> QED BY <1>2, <1>3 DEF First

LEMMA LastIsOne == ASSUME NEW F \in SUBSET Files, F # {} PROVE Last(F) \in F
<1> DEFINE R == {p \in Files \X Files : Listed(p[1], p[2])}
<1>1. IsFiniteSet(F)
  BY FilesAreFinite, FS_Subset
<1>2. \A x, y \in Files : <<x, y>> \in R <=> Listed(x, y)
  OBVIOUS
<1> HIDE DEF R
<1>3. \E x \in F : \A y \in F : <<y, x>> \in R
  BY <1>1, <1>2, ListedOrders, HasGreatest
<1> QED BY <1>2, <1>3 DEF Last

----------------------------------------------------------------------------
(* What is read from a disk, and what the changes make of it: of the right type,  *)
(* and with no certificate but those that are there (K).                        *)

Disks == [Files -> Contents \cup {NoFile}]
Routed == [to : Targets \cup {NoTarget}, path : Targets \cup {NoTarget}, cert : Certs,
           aliases : Aliases]

\* Every certificate r names is one of K.
NamesOnly(r, K) ==
  /\ r.cert \in K \cup {NoCert}
  /\ \A n \in DOMAIN r.aliases : r.aliases[n] \in K \cup {NoCert}

LEMMA AliasesAre ==
  /\ \A a \in Aliases : /\ DOMAIN a \subseteq Names /\ \A n \in DOMAIN a : a[n] \in Certs
                        /\ a = [n \in DOMAIN a |-> a[n]]
  /\ \A S \in SUBSET Names : \A a \in [S -> Certs] : a \in Aliases
  /\ NoAliases \in Aliases /\ DOMAIN NoAliases = {}
<1>1. \A S \in SUBSET Names : \A a \in [S -> Certs] : a \in Aliases
  BY DEF Aliases
<1>2. NoAliases \in [{} -> Certs] /\ DOMAIN NoAliases = {}
  BY DEF NoAliases
<1>3. ASSUME NEW a \in Aliases
      PROVE  /\ DOMAIN a \subseteq Names /\ \A n \in DOMAIN a : a[n] \in Certs
             /\ a = [n \in DOMAIN a |-> a[n]]
  <2>1. PICK S \in SUBSET Names : a \in [S -> Certs]
    BY DEF Aliases
  <2> QED BY <2>1
<1> QED BY <1>1, <1>2, <1>3

LEMMA NamesInAre ==
  ASSUME NEW d \in Disks, NEW f \in Files, NEW n \in NamesIn(d, f)
  PROVE  n \in Names /\ d[f] \in Contents /\ CertIn(d, f, n) \in Certs
<1>1. d[f] \in Contents \cup {NoFile} /\ d[f] # NoFile /\ f[2] \in Names
  BY DEF Disks, Files, NamesIn
<1>2. d[f].aliases \in Aliases /\ d[f].cert \in Certs
  BY <1>1 DEF Contents
<1>3. n \in {f[2]} \cup DOMAIN d[f].aliases
  BY DEF NamesIn
<1> QED BY <1>1, <1>2, <1>3, AliasesAre DEF CertIn

LEMMA CertOfIs ==
  ASSUME NEW d \in Disks, NEW n
  PROVE  /\ CertOf(d, n) \in Certs
         /\ \A K : Loadable(d, K) => CertOf(d, n) \in K \cup {NoCert}
<1> DEFINE secure == {f \in Claims(d, n) : CertIn(d, f, n) # NoCert}
<1>1. CASE secure = {}
  BY <1>1 DEF CertOf, Certs
<1>2. CASE secure # {}
  <2>1. secure \subseteq Files
    BY DEF Claims
  <2>2. Last(secure) \in secure
    BY <1>2, <2>1, LastIsOne
  <2>3. Last(secure) \in Files /\ n \in NamesIn(d, Last(secure))
    BY <2>2 DEF Claims
  <2>4. CertOf(d, n) = CertIn(d, Last(secure), n)
    BY <1>2 DEF CertOf
  <2> HIDE DEF secure
  <2>5. CertOf(d, n) \in Certs
    BY <2>3, <2>4, NamesInAre
  <2>6. ASSUME NEW K, Loadable(d, K) PROVE CertOf(d, n) \in K \cup {NoCert}
    BY <2>3, <2>4, <2>6 DEF Loadable
  <2> QED BY <2>5, <2>6
<1> QED BY <1>1, <1>2

LEMMA TargetsAre ==
  ASSUME NEW d \in Disks, NEW n
  PROVE  TargetOf(d, n) \in Targets \cup {NoTarget} /\ PathOf(d, n) \in Targets \cup {NoTarget}
<1>1. \A f \in Claims(d, n) : /\ d[f].to \in Targets \cup {NoTarget}
                              /\ d[f].path \in Targets \cup {NoTarget}
  BY NamesInAre DEF Claims, Contents
<1>2. Claims(d, n) \subseteq Files
  BY DEF Claims
<1>3. TargetOf(d, n) \in Targets \cup {NoTarget}
  <2> DEFINE F == {f \in Claims(d, n) : d[f].to # NoTarget}
  <2>1. F # {} => First(F) \in F
    BY <1>2, FirstIsOne
  <2> QED BY <1>1, <2>1 DEF TargetOf
<1>4. PathOf(d, n) \in Targets \cup {NoTarget}
  <2> DEFINE F == {f \in Claims(d, n) : d[f].path # NoTarget}
  <2>1. F # {} => First(F) \in F
    BY <1>2, FirstIsOne
  <2> QED BY <1>1, <2>1 DEF PathOf
<1> QED BY <1>3, <1>4

LEMMA FoundIs ==
  ASSUME NEW d \in Disks, NEW n
  PROVE  /\ FindByDomain(d, n) \in Routed
         /\ FindByDomain(d, n).cert = CertOf(d, n)
         /\ FindByDomain(d, n).aliases = [a \in {m \in Names : AliasOf(d, m, n)} |-> CertOf(d, a)]
         /\ \A K : Loadable(d, K) => NamesOnly(FindByDomain(d, n), K)
<1> DEFINE S == {m \in Names : AliasOf(d, m, n)}
<1> DEFINE a == [m \in S |-> CertOf(d, m)]
<1>1. a \in [S -> Certs] /\ S \in SUBSET Names
  BY CertOfIs
<1>2. a \in Aliases /\ DOMAIN a = S /\ \A m \in S : a[m] = CertOf(d, m)
  BY <1>1, AliasesAre
<1> HIDE DEF a
<1>3. FindByDomain(d, n) = [to |-> TargetOf(d, n), path |-> PathOf(d, n),
                            cert |-> CertOf(d, n), aliases |-> a]
  BY DEF FindByDomain, Route, a
<1>4. FindByDomain(d, n) \in Routed
  BY <1>2, <1>3, TargetsAre, CertOfIs DEF Routed
<1>5. ASSUME NEW K, Loadable(d, K) PROVE NamesOnly(FindByDomain(d, n), K)
  <2>1. CertOf(d, n) \in K \cup {NoCert} /\ \A m \in S : CertOf(d, m) \in K \cup {NoCert}
    BY <1>5, CertOfIs
  <2> QED BY <1>2, <1>3, <2>1 DEF NamesOnly
<1> QED BY <1>3, <1>4, <1>5 DEF a

LEMMA MarkedIs ==
  ASSUME NEW r \in Routed \cup Contents
  PROVE  /\ Marked(r) \in Contents /\ Marked(r).by = "croft"
         /\ \A K : NamesOnly(r, K) => NamesOnly(Marked(r), K)
<1>1. /\ r.to \in Targets \cup {NoTarget} /\ r.path \in Targets \cup {NoTarget}
      /\ r.cert \in Certs /\ r.aliases \in Aliases
  BY DEF Routed, Contents
<1> QED BY <1>1 DEF Marked, Contents, NamesOnly

LEMMA RouteIs ==
  ASSUME NEW t \in Targets \cup {NoTarget}, NEW p \in Targets \cup {NoTarget}, NEW c \in Certs
  PROVE  /\ Route(t, p, c, NoAliases) \in Routed
         /\ \A K : c \in K \cup {NoCert} => NamesOnly(Route(t, p, c, NoAliases), K)
BY AliasesAre DEF Route, Routed, NamesOnly

LEMMA WithFieldIs ==
  ASSUME NEW r \in Routed, NEW t \in Targets \cup {NoTarget}, NEW c \in Certs
  PROVE  /\ [r EXCEPT !.to = t] \in Routed /\ [r EXCEPT !.path = t] \in Routed
         /\ [r EXCEPT !.cert = c] \in Routed /\ [r EXCEPT !.aliases = NoAliases] \in Routed
         /\ \A K : NamesOnly(r, K) =>
              /\ NamesOnly([r EXCEPT !.to = t], K) /\ NamesOnly([r EXCEPT !.path = t], K)
              /\ c \in K \cup {NoCert} => NamesOnly([r EXCEPT !.cert = c], K)
              /\ NamesOnly([r EXCEPT !.aliases = NoAliases], K)
<1>1. /\ [r EXCEPT !.to = t] \in Routed /\ [r EXCEPT !.path = t] \in Routed
      /\ [r EXCEPT !.cert = c] \in Routed /\ [r EXCEPT !.aliases = NoAliases] \in Routed
  BY AliasesAre DEF Routed
<1>2. /\ [r EXCEPT !.to = t].cert = r.cert /\ [r EXCEPT !.to = t].aliases = r.aliases
      /\ [r EXCEPT !.path = t].cert = r.cert /\ [r EXCEPT !.path = t].aliases = r.aliases
      /\ [r EXCEPT !.cert = c].cert = c /\ [r EXCEPT !.cert = c].aliases = r.aliases
      /\ [r EXCEPT !.aliases = NoAliases].cert = r.cert
      /\ [r EXCEPT !.aliases = NoAliases].aliases = NoAliases
  BY DEF Routed
<1> QED BY <1>1, <1>2, AliasesAre DEF NamesOnly

LEMMA WithAliasIs ==
  ASSUME NEW r \in Routed, NEW n \in Names, NEW c \in Certs
  PROVE  /\ WithAlias(r, n, c) \in Routed /\ WithoutAlias(r, n) \in Routed
         /\ WithAlias(r, n, c).cert = r.cert
         /\ WithoutAlias(r, n).aliases = [m \in (DOMAIN r.aliases) \ {n} |-> r.aliases[m]]
         /\ \A K : NamesOnly(r, K) =>
              /\ c \in K \cup {NoCert} => NamesOnly(WithAlias(r, n, c), K)
              /\ NamesOnly(WithoutAlias(r, n), K)
<1> DEFINE more == [m \in (DOMAIN r.aliases) \cup {n} |-> IF m = n THEN c ELSE r.aliases[m]]
<1> DEFINE less == [m \in (DOMAIN r.aliases) \ {n} |-> r.aliases[m]]
<1>1. DOMAIN r.aliases \subseteq Names /\ \A m \in DOMAIN r.aliases : r.aliases[m] \in Certs
  BY AliasesAre DEF Routed
<1>2. /\ more \in [(DOMAIN r.aliases) \cup {n} -> Certs]
      /\ less \in [(DOMAIN r.aliases) \ {n} -> Certs]
  BY <1>1
<1>3. more \in Aliases /\ less \in Aliases
  <2>1. (DOMAIN r.aliases) \cup {n} \in SUBSET Names /\ (DOMAIN r.aliases) \ {n} \in SUBSET Names
    BY <1>1
  <2> HIDE DEF more, less
  <2> QED BY <1>2, <2>1, AliasesAre
<1>4. /\ DOMAIN more = (DOMAIN r.aliases) \cup {n} /\ DOMAIN less = (DOMAIN r.aliases) \ {n}
      /\ \A m \in DOMAIN more : more[m] = IF m = n THEN c ELSE r.aliases[m]
      /\ \A m \in DOMAIN less : less[m] = r.aliases[m]
  OBVIOUS
<1>5. /\ WithAlias(r, n, c) = [r EXCEPT !.aliases = more]
      /\ WithoutAlias(r, n) = [r EXCEPT !.aliases = less]
  BY DEF WithAlias, WithoutAlias
<1> HIDE DEF more
<1>6. /\ WithAlias(r, n, c) \in Routed /\ WithAlias(r, n, c).cert = r.cert
      /\ WithAlias(r, n, c).aliases = more
  BY <1>3, <1>5 DEF Routed
<1>7. /\ WithoutAlias(r, n) \in Routed /\ WithoutAlias(r, n).cert = r.cert
      /\ WithoutAlias(r, n).aliases = less
  <2> HIDE DEF less
  <2> QED BY <1>3, <1>5 DEF Routed
<1> QED BY <1>4, <1>6, <1>7 DEF NamesOnly

\* The alias that takes over is one of them, and the rest are the others.
LEMMA PromotedIs ==
  ASSUME NEW r \in Routed, DOMAIN r.aliases # {}
  PROVE  /\ Successor(r) \in Names /\ Successor(r) \in DOMAIN r.aliases
         /\ Promoted(r) \in Routed
         /\ \A K : NamesOnly(r, K) => NamesOnly(Promoted(r), K)
         /\ Promoted(r) = [WithoutAlias(r, Successor(r)) EXCEPT
                             !.cert = IF r.cert = NoCert THEN NoCert ELSE r.aliases[Successor(r)]]
         /\ (\E m \in DOMAIN r.aliases : (r.aliases[m] # NoCert) = (r.cert # NoCert))
              => (r.aliases[Successor(r)] # NoCert) = (r.cert # NoCert)
<1> DEFINE like == {n \in DOMAIN r.aliases : (r.aliases[n] # NoCert) = (r.cert # NoCert)}
<1> DEFINE from == IF like = {} THEN DOMAIN r.aliases ELSE like
<1> DEFINE n == Successor(r)
<1>1. DOMAIN r.aliases \subseteq Names /\ \A m \in DOMAIN r.aliases : r.aliases[m] \in Certs
  BY AliasesAre DEF Routed
<1>2. from \subseteq DOMAIN r.aliases /\ from # {} /\ from \subseteq Names
  BY <1>1
<1>3. n = CHOOSE x \in from : \A m \in from \ {x} : Before(x, m)
  BY DEF Successor
<1> HIDE DEF from, like
<1>4. \E x \in from : \A m \in from \ {x} : Before(x, m)
  <2> DEFINE R == {p \in Names \X Names : Rank[p[2]] <= Rank[p[1]]}
  <2>1. \A x, y \in Names : <<x, y>> \in R <=> Rank[y] <= Rank[x]
    OBVIOUS
  <2>2. \A x \in Names : Rank[x] \in Nat
    BY VhostsAssumption
  <2>3. IsFiniteSet(from)
    BY <1>2, VhostsAssumption, FS_Subset
  <2> HIDE DEF R
  <2>4. \A x, y \in from : <<x, y>> \in R \/ <<y, x>> \in R
    <3>1. \A x, y \in Names : Rank[y] <= Rank[x] \/ Rank[x] <= Rank[y]
      BY <2>2
    <3> QED BY <1>2, <2>1, <3>1
  <2>5. \A x, y, z \in from : <<x, y>> \in R /\ <<y, z>> \in R => <<x, z>> \in R
    <3> SUFFICES ASSUME NEW x \in Names, NEW y \in Names, NEW z \in Names,
                        <<x, y>> \in R, <<y, z>> \in R
                 PROVE  <<x, z>> \in R
      BY <1>2
    <3>1. Rank[y] <= Rank[x] /\ Rank[z] <= Rank[y]
      BY <2>1
    <3>2. Rank[z] <= Rank[x]
      BY <2>2, <3>1
    <3> QED BY <2>1, <3>2
  <2>6. PICK x \in from : \A y \in from : <<y, x>> \in R
    BY <1>2, <2>3, <2>4, <2>5, HasGreatest
  <2>7. \A m \in from \ {x} : Before(x, m)
    <3> SUFFICES ASSUME NEW m \in from \ {x} PROVE Before(x, m)
      OBVIOUS
    <3>1. m \in Names /\ x \in Names /\ m # x
      BY <1>2
    <3>2. Rank[x] <= Rank[m]
      BY <2>1, <2>6, <3>1
    <3>3. Rank[x] # Rank[m]
      BY <3>1, VhostsAssumption
    <3> QED BY <2>2, <3>1, <3>2, <3>3 DEF Before
  <2> QED BY <2>7
<1>5. n \in from
  BY <1>3, <1>4
<1>6. n \in Names /\ n \in DOMAIN r.aliases /\ r.aliases[n] \in Certs
  BY <1>1, <1>2, <1>5
<1> DEFINE c == IF r.cert = NoCert THEN NoCert ELSE r.aliases[n]
<1>7. c \in Certs
  BY <1>6 DEF Certs
<1>8. Promoted(r) = [WithoutAlias(r, n) EXCEPT !.cert = c]
  BY DEF Promoted
<1>9. \A K : NamesOnly(r, K) => c \in K \cup {NoCert}
  BY <1>6 DEF NamesOnly
<1> HIDE DEF n, c
<1>10. WithoutAlias(r, n) \in Routed /\ \A K : NamesOnly(r, K) => NamesOnly(WithoutAlias(r, n), K)
  BY <1>6, <1>7, WithAliasIs
<1>11. NoTarget \in Targets \cup {NoTarget}
  OBVIOUS
<1>12. Promoted(r) \in Routed /\ \A K : NamesOnly(r, K) => NamesOnly(Promoted(r), K)
  <2> DEFINE w == WithoutAlias(r, n)
  <2>1. w \in Routed
    BY <1>10
  <2> HIDE DEF w
  <2>2. /\ [w EXCEPT !.cert = c] \in Routed
        /\ \A K : NamesOnly(w, K) /\ c \in K \cup {NoCert} => NamesOnly([w EXCEPT !.cert = c], K)
    BY <1>7, <1>11, <2>1, WithFieldIs
  <2>3. Promoted(r) = [w EXCEPT !.cert = c]
    BY <1>8 DEF w
  <2>4. \A K : NamesOnly(r, K) => NamesOnly(w, K)
    BY <1>10 DEF w
  <2> QED BY <1>9, <2>2, <2>3, <2>4
<1>13. (\E m \in DOMAIN r.aliases : (r.aliases[m] # NoCert) = (r.cert # NoCert))
         => (r.aliases[n] # NoCert) = (r.cert # NoCert)
  BY <1>5 DEF from, like
<1> QED BY <1>6, <1>8, <1>12, <1>13 DEF n, c

----------------------------------------------------------------------------
(* Requests: the records of job, and what a step makes of one.                  *)

Thens == {"over", "secure", "drop", "retire", "reach", "rm"}
Request == [op : Ops \cup {"none"}, at : Steps, name : Names \cup {NoName},
            arg : Names \cup {NoName}, route : Contents, file : Names \cup {NoName},
            before : Contents \cup {NoFile}, then : Thens]

Req(o, a, n, g, r, f, b, t) ==
  [op |-> o, at |-> a, name |-> n, arg |-> g, route |-> r, file |-> f, before |-> b, then |-> t]

SetOp(x, v) == [x EXCEPT !.op = v]
SetAt(x, v) == [x EXCEPT !.at = v]
SetName(x, v) == [x EXCEPT !.name = v]
SetArg(x, v) == [x EXCEPT !.arg = v]
SetRoute(x, v) == [x EXCEPT !.route = v]
SetFile(x, v) == [x EXCEPT !.file = v]
SetBefore(x, v) == [x EXCEPT !.before = v]
SetThen(x, v) == [x EXCEPT !.then = v]

LEMMA SetReq ==
  ASSUME NEW o, NEW a, NEW n, NEW g, NEW r, NEW f, NEW b, NEW t, NEW v
  PROVE  /\ SetOp(Req(o, a, n, g, r, f, b, t), v) = Req(v, a, n, g, r, f, b, t)
         /\ SetAt(Req(o, a, n, g, r, f, b, t), v) = Req(o, v, n, g, r, f, b, t)
         /\ SetName(Req(o, a, n, g, r, f, b, t), v) = Req(o, a, v, g, r, f, b, t)
         /\ SetArg(Req(o, a, n, g, r, f, b, t), v) = Req(o, a, n, v, r, f, b, t)
         /\ SetRoute(Req(o, a, n, g, r, f, b, t), v) = Req(o, a, n, g, v, f, b, t)
         /\ SetFile(Req(o, a, n, g, r, f, b, t), v) = Req(o, a, n, g, r, v, b, t)
         /\ SetBefore(Req(o, a, n, g, r, f, b, t), v) = Req(o, a, n, g, r, f, v, t)
         /\ SetThen(Req(o, a, n, g, r, f, b, t), v) = Req(o, a, n, g, r, f, b, v)
BY DEF Req, SetOp, SetAt, SetName, SetArg, SetRoute, SetFile, SetBefore, SetThen

LEMMA RequestIs ==
  ASSUME NEW x \in Request
  PROVE  x = Req(x.op, x.at, x.name, x.arg, x.route, x.file, x.before, x.then)
BY DEF Request, Req

\* What Writing leaves of request j.
LEMMA WritingIs ==
  ASSUME NEW j \in Requests, job[j] \in Request, NEW n, NEW r, NEW then
  PROVE  Writing(j, n, r, then)
           = Req(job[j].op, "write", job[j].name, job[j].arg, Marked(r), n, job[j].before, then)
<1> DEFINE o == job[j].op
<1> DEFINE m == job[j].name
<1> DEFINE g == job[j].arg
<1> DEFINE b == job[j].before
<1>1. job[j] = Req(o, job[j].at, m, g, job[j].route, job[j].file, b, job[j].then)
  BY RequestIs
<1> HIDE DEF o, m, g, b
<1>2. SetThen(SetRoute(SetFile(SetAt(job[j], "write"), n), Marked(r)), then)
        = Req(o, "write", m, g, Marked(r), n, b, then)
  BY <1>1, SetReq
<1> QED BY <1>2, Zenon DEF Writing, SetThen, SetRoute, SetFile, SetAt, o, m, g, b

\* What the other steps leave of it.
LEMMA IssueIs ==
  ASSUME NEW j \in Requests, job[j] \in Request, NEW n, NEW r, NEW then
  PROVE  SetAt(Writing(j, n, r, then), "issue")
           = Req(job[j].op, "issue", job[j].name, job[j].arg, Marked(r), n, job[j].before, then)
<1> DEFINE o == job[j].op
<1> DEFINE m == job[j].name
<1> DEFINE g == job[j].arg
<1> DEFINE q == job[j].route
<1> DEFINE f == job[j].file
<1> DEFINE b == job[j].before
<1> DEFINE t == job[j].then
<1>1. Writing(j, n, r, then) = Req(o, "write", m, g, Marked(r), n, b, then)
  BY WritingIs
<1> HIDE DEF o, m, g, q, f, b, t
<1>2. SetAt(Writing(j, n, r, then), "issue") = Req(o, "issue", m, g, Marked(r), n, b, then)
  BY <1>1, SetReq
<1> QED BY <1>2, Zenon DEF SetAt, o, m, g, q, f, b, t

LEMMA SecuringIs ==
  ASSUME NEW j \in Requests, job[j] \in Request, NEW n, NEW r, NEW then, NEW h, NEW s
  PROVE  SetAt(SetArg(SetOp(Writing(j, n, r, then), "tls"), h), s)
           = Req("tls", s, job[j].name, h, Marked(r), n, job[j].before, then)
<1> DEFINE o == job[j].op
<1> DEFINE m == job[j].name
<1> DEFINE g == job[j].arg
<1> DEFINE q == job[j].route
<1> DEFINE f == job[j].file
<1> DEFINE b == job[j].before
<1> DEFINE t == job[j].then
<1>1. Writing(j, n, r, then) = Req(o, "write", m, g, Marked(r), n, b, then)
  BY WritingIs
<1> HIDE DEF o, m, g, q, f, b, t
<1>2. SetAt(SetArg(SetOp(Writing(j, n, r, then), "tls"), h), s)
        = Req("tls", s, m, h, Marked(r), n, b, then)
  BY <1>1, SetReq
<1> QED BY <1>2, Zenon DEF SetAt, SetArg, SetOp, o, m, g, q, f, b, t

LEMMA GoesOnIs ==
  ASSUME NEW j \in Requests, job[j] \in Request, NEW s
  PROVE  SetAt(job[j], s)
           = Req(job[j].op, s, job[j].name, job[j].arg, job[j].route, job[j].file, job[j].before,
                 job[j].then)
<1> DEFINE o == job[j].op
<1> DEFINE m == job[j].name
<1> DEFINE g == job[j].arg
<1> DEFINE q == job[j].route
<1> DEFINE f == job[j].file
<1> DEFINE b == job[j].before
<1> DEFINE t == job[j].then
<1>1. job[j] = Req(o, job[j].at, m, g, q, f, b, t)
  BY RequestIs
<1> HIDE DEF o, m, g, q, f, b, t
<1>2. SetAt(job[j], s) = Req(o, s, m, g, q, f, b, t)
  BY <1>1, SetReq
<1> QED BY <1>2, Zenon DEF SetAt, o, m, g, q, f, b, t

LEMMA MovingIs ==
  ASSUME NEW j \in Requests, job[j] \in Request, NEW c
  PROVE  SetRoute(SetAt(job[j], "move"), c)
           = Req(job[j].op, "move", job[j].name, job[j].arg, c, job[j].file, job[j].before,
                 job[j].then)
<1> DEFINE o == job[j].op
<1> DEFINE m == job[j].name
<1> DEFINE g == job[j].arg
<1> DEFINE q == job[j].route
<1> DEFINE f == job[j].file
<1> DEFINE b == job[j].before
<1> DEFINE t == job[j].then
<1>1. job[j] = Req(o, job[j].at, m, g, q, f, b, t)
  BY RequestIs
<1> HIDE DEF o, m, g, q, f, b, t
<1>2. SetRoute(SetAt(job[j], "move"), c) = Req(o, "move", m, g, c, f, b, t)
  BY <1>1, SetReq
<1> QED BY <1>2, Zenon DEF SetAt, SetRoute, o, m, g, q, f, b, t

LEMMA WrittenIs ==
  ASSUME NEW j \in Requests, job[j] \in Request, NEW c
  PROVE  SetBefore(SetAt(job[j], "test"), c)
           = Req(job[j].op, "test", job[j].name, job[j].arg, job[j].route, job[j].file, c,
                 job[j].then)
<1> DEFINE o == job[j].op
<1> DEFINE m == job[j].name
<1> DEFINE g == job[j].arg
<1> DEFINE q == job[j].route
<1> DEFINE f == job[j].file
<1> DEFINE b == job[j].before
<1> DEFINE t == job[j].then
<1>1. job[j] = Req(o, job[j].at, m, g, q, f, b, t)
  BY RequestIs
<1> HIDE DEF o, m, g, q, f, b, t
<1>2. SetBefore(SetAt(job[j], "test"), c) = Req(o, "test", m, g, q, f, c, t)
  BY <1>1, SetReq
<1> QED BY <1>2, Zenon DEF SetAt, SetBefore, o, m, g, q, f, b, t

LEMMA RemovedIs ==
  ASSUME NEW j \in Requests, job[j] \in Request
  PROVE  SetThen(SetFile(SetAt(job[j], "test"), NoName), "over")
           = Req(job[j].op, "test", job[j].name, job[j].arg, job[j].route, NoName, job[j].before,
                 "over")
<1> DEFINE o == job[j].op
<1> DEFINE m == job[j].name
<1> DEFINE g == job[j].arg
<1> DEFINE q == job[j].route
<1> DEFINE f == job[j].file
<1> DEFINE b == job[j].before
<1> DEFINE t == job[j].then
<1>1. job[j] = Req(o, job[j].at, m, g, q, f, b, t)
  BY RequestIs
<1> HIDE DEF o, m, g, q, f, b, t
<1>2. SetThen(SetFile(SetAt(job[j], "test"), NoName), "over")
        = Req(o, "test", m, g, q, NoName, b, "over")
  BY <1>1, SetReq
<1> QED BY <1>2, Zenon DEF SetAt, SetFile, SetThen, o, m, g, q, f, b, t

LEMMA IdleIs ==
  /\ Idle \in Request /\ Idle.op = "none" /\ Idle.at = "idle" /\ Idle.name = NoName
  /\ Idle.arg = NoName /\ Idle.file = NoName /\ Idle.before = NoFile /\ Idle.then = "over"
  /\ \A K : NamesOnly(Idle.route, K)
  /\ \A o, n, g, r : SetRoute(SetArg(SetName(SetAt(SetOp(Idle, o), "asked"), n), g), r)
                       = Req(o, "asked", n, g, r, NoName, NoFile, "over")
  /\ \A o, n, g : SetArg(SetName(SetAt(SetOp(Idle, o), "reach"), n), g)
                    = Req(o, "reach", n, g, Idle.route, NoName, NoFile, "over")
<1> DEFINE q == Marked(Route(NoTarget, NoTarget, NoCert, NoAliases))
<1>1. q \in Contents /\ \A K : NamesOnly(q, K)
  <2> DEFINE s == Route(NoTarget, NoTarget, NoCert, NoAliases)
  <2>1. NoCert \in Certs
    BY DEF Certs
  <2>2. s \in Routed /\ \A K : NamesOnly(s, K)
    BY <2>1, RouteIs
  <2> HIDE DEF s
  <2> QED BY <2>2, MarkedIs DEF s
<1> HIDE DEF q
<1>2. Idle = Req("none", "idle", NoName, NoName, q, NoName, NoFile, "over")
  BY DEF Idle, Req, q
<1>3. /\ Idle.op = "none" /\ Idle.at = "idle" /\ Idle.name = NoName
      /\ Idle.arg = NoName /\ Idle.file = NoName /\ Idle.before = NoFile /\ Idle.then = "over"
      /\ Idle.route = q
  BY <1>2 DEF Req
<1>4. Idle \in Request
  BY <1>1, <1>2 DEF Req, Request, Steps, Thens
<1>5. \A o, n, g, r : SetRoute(SetArg(SetName(SetAt(SetOp(Idle, o), "asked"), n), g), r)
                       = Req(o, "asked", n, g, r, NoName, NoFile, "over")
  BY <1>2, SetReq
<1>6. \A o, n, g : SetArg(SetName(SetAt(SetOp(Idle, o), "reach"), n), g)
                    = Req(o, "reach", n, g, q, NoName, NoFile, "over")
  BY <1>2, SetReq
<1>7. \A K : NamesOnly(Idle.route, K)
  BY <1>1, <1>3
<1>8. Idle.route = q
  BY <1>3
<1>9. \A o, n, g : SetArg(SetName(SetAt(SetOp(Idle, o), "reach"), n), g)
                    = Req(o, "reach", n, g, Idle.route, NoName, NoFile, "over")
  BY <1>6, <1>8
<1> QED BY <1>3, <1>4, <1>5, <1>7, <1>9, Zenon

----------------------------------------------------------------------------
(* The invariants.                                                           *)

\* A certificate that is about to be asked for is as good as there.
Awaits(x) == x.at = "issue" \/ (x.at = "reach" /\ x.op = "tls")

\* A request is about a name, and what it is to write has a place to be written.
Placed(x) ==
  /\ x.at # "idle" => x.name \in Names
  /\ x.op \in {"alias", "unalias", "retry"} => x.arg \in Names
  /\ x.at = "write" \/ Awaits(x) => x.file \in Names
  /\ x.at = "test" => x.file \in Names \/ x.then = "over"

Typed ==
  /\ TypeOK
  /\ job \in [Requests -> Request] /\ \A j \in Requests : Placed(job[j])

\* A request that will drop no certificate.
Spares(x) == x.op # "unalias" /\ x.at # "drop" /\ x.then # "drop"
SubjectOf(x) == IF x.op \in {"alias", "retry"} THEN x.arg ELSE x.name
AtHand(x, K) == IF Awaits(x) THEN K \cup {Own(SubjectOf(x))} ELSE K

\* What would be put back in the file of n names certificates of K: an alias called
\* like the file is nothing to nginx.
Restorable(c, n, K) ==
  c # NoFile =>
    /\ c.cert \in K \cup {NoCert}
    /\ \A m \in (DOMAIN c.aliases) \ {n} : c.aliases[m] \in K \cup {NoCert}

\* What a request holds to be written, or to be put back, nginx can start from.
Backed(x, K) ==
  /\ NamesOnly(x.route, AtHand(x, K))
  /\ x.at = "test" /\ x.file # NoName => Restorable(x.before, x.file, K)

\* A take over writes one file and is done.
TakingOver(x) ==
  x.op = "takeover" => x.at \in {"asked", "move", "write", "test"} /\ x.then = "over"

WildcardKept == Covered # {} => Wildcard \in certs

Good(j, step) ==
  /\ step \in Request /\ Placed(step)
  /\ step.at # "test"
  /\ TakingOver(job[j]) /\ step.op = "takeover" => step.at \in {"asked", "move"} /\ step.then = "over"
  /\ Backed(job[j], certs) /\ WildcardKept => Backed(step, certs)
  /\ "unalias" \notin Kinds /\ Spares(job[j]) => Spares(step)

LEMMA GoodReq ==
  ASSUME NEW j, NEW o \in Ops, NEW a \in Steps, NEW n \in Names, NEW g \in Names \cup {NoName},
         NEW r \in Contents, NEW f \in Names \cup {NoName}, NEW b \in Contents \cup {NoFile},
         NEW t \in Thens,
         o \in {"alias", "unalias", "retry"} => g \in Names,
         a # "test", TakingOver(job[j]) /\ o = "takeover" => a \in {"asked", "move"} /\ t = "over",
         a \in {"write", "issue"} \/ (a = "reach" /\ o = "tls") => f \in Names,
         "unalias" \notin Kinds /\ Spares(job[j]) => o # "unalias" /\ a # "drop" /\ t # "drop",
         Backed(job[j], certs) /\ WildcardKept => NamesOnly(r, AtHand(Req(o, a, n, g, r, f, b, t), certs))
  PROVE  Good(j, Req(o, a, n, g, r, f, b, t))
<1> DEFINE x == Req(o, a, n, g, r, f, b, t)
<1>1. /\ x.op = o /\ x.at = a /\ x.name = n /\ x.arg = g /\ x.route = r /\ x.file = f
      /\ x.before = b /\ x.then = t /\ x \in Request
  BY DEF Req, Request
<1> HIDE DEF x
<1>2. Placed(x)
  BY <1>1 DEF Placed, Awaits
<1>3. NamesOnly(r, AtHand(x, certs)) => Backed(x, certs)
  BY <1>1 DEF Backed
<1>4. Good(j, x)
  <2>1. "unalias" \notin Kinds /\ Spares(job[j]) => Spares(x)
    BY <1>1 DEF Spares
  <2>2. x.at # "test"
        /\ (TakingOver(job[j]) /\ x.op = "takeover" => x.at \in {"asked", "move"} /\ x.then = "over")
    BY <1>1
  <2> QED BY <1>1, <1>2, <1>3, <2>1, <2>2 DEF Good, x
<1> QED BY <1>4 DEF x

LEMMA GoodIdle == ASSUME NEW j PROVE Good(j, Idle)
BY IdleIs DEF Good, Placed, Backed, Awaits, AtHand, Spares, TakingOver

\* What a request that waits for nothing holds.
LEMMA HoldsNow ==
  ASSUME NEW x, ~Awaits(x), Backed(x, certs)
  PROVE  NamesOnly(x.route, certs)
BY DEF Backed, AtHand

\* A request that is not about to ask for a certificate.
LEMMA GoodNow ==
  ASSUME NEW j, NEW o \in Ops, NEW a \in Steps, NEW n \in Names, NEW g \in Names \cup {NoName},
         NEW r \in Contents, NEW f \in Names \cup {NoName}, NEW b \in Contents \cup {NoFile},
         NEW t \in Thens,
         o \in {"alias", "unalias", "retry"} => g \in Names,
         a \notin {"test", "issue"}, a = "reach" => o # "tls", a = "write" => f \in Names,
         TakingOver(job[j]) /\ o = "takeover" => a \in {"asked", "move"} /\ t = "over",
         "unalias" \notin Kinds /\ Spares(job[j]) => o # "unalias" /\ a # "drop" /\ t # "drop",
         Backed(job[j], certs) /\ WildcardKept => NamesOnly(r, certs)
  PROVE  Good(j, Req(o, a, n, g, r, f, b, t))
<1> DEFINE x == Req(o, a, n, g, r, f, b, t)
<1>1. x.op = o /\ x.at = a
  BY DEF Req
<1>2. AtHand(x, certs) = certs
  BY <1>1 DEF AtHand, Awaits
<1> QED BY <1>2, GoodReq

\* One that is.
LEMMA GoodThen ==
  ASSUME NEW j, NEW o \in Ops, NEW a \in Steps, NEW n \in Names, NEW g \in Names \cup {NoName},
         NEW r \in Contents, NEW f \in Names, NEW b \in Contents \cup {NoFile},
         NEW t \in Thens,
         o \in {"alias", "unalias", "retry"} => g \in Names,
         a = "issue" \/ (a = "reach" /\ o = "tls"), o # "takeover",
         "unalias" \notin Kinds /\ Spares(job[j]) => o # "unalias" /\ t # "drop",
         NamesOnly(r, certs \cup {Own(IF o \in {"alias", "retry"} THEN g ELSE n)})
  PROVE  Good(j, Req(o, a, n, g, r, f, b, t))
<1> DEFINE x == Req(o, a, n, g, r, f, b, t)
<1>1. x.op = o /\ x.at = a /\ x.name = n /\ x.arg = g
  BY DEF Req
<1>2. AtHand(x, certs) = certs \cup {Own(IF o \in {"alias", "retry"} THEN g ELSE n)}
  BY <1>1 DEF AtHand, Awaits, SubjectOf
<1> QED BY <1>2, GoodReq

----------------------------------------------------------------------------
(* What the agent makes of a request it accepts.                                *)

\* The request is known, and asked about a name.
LEMMA AskedIs ==
  ASSUME Typed, NEW j \in Requests, job[j].at # "idle"
  PROVE  /\ job[j] \in Request /\ job[j].op \in Ops \cup {"none"}
         /\ job[j].name \in Names /\ job[j].arg \in Names \cup {NoName}
         /\ job[j].route \in Contents /\ job[j].file \in Names \cup {NoName}
         /\ job[j].before \in Contents \cup {NoFile} /\ job[j].then \in Thens
         /\ job[j].op \in {"alias", "unalias", "retry"} => job[j].arg \in Names
         /\ disk \in Disks
BY DEF Typed, Placed, Request, TypeOK, Disks

LEMMA CertsAre ==
  /\ NoCert \in Certs /\ \A n \in Names : Own(n) \in Certs /\ CertFor(n) \in Certs
  /\ Wildcard \in Certs
  /\ \A n \in Names : n \in Covered => CertFor(n) = Wildcard
  /\ \A n \in Names : n \notin Covered => CertFor(n) = Own(n)
BY DEF Certs, CertFor

LEMMA WriteRouteGood ==
  ASSUME Typed, NEW j \in Requests, WriteRoute(j)
  PROVE  \E step : Turn(j, step) /\ Good(j, step)
<1> DEFINE x == job[j]
<1> DEFINE t == IF x.op = "service" THEN "secure" ELSE "over"
<1>1. x.at = "asked" /\ x.op \in {"add", "edit", "path", "service"}
  BY DEF WriteRoute, Accept
<1>2. Turn(j, Writing(j, x.name, x.route, t))
  BY DEF WriteRoute
<1>3. Writing(j, x.name, x.route, t)
        = Req(x.op, "write", x.name, x.arg, Marked(x.route), x.name, x.before, t)
  BY <1>1, AskedIs, WritingIs
<1>4. Marked(x.route) \in Contents /\ (Backed(x, certs) => NamesOnly(Marked(x.route), certs))
  BY <1>1, AskedIs, MarkedIs, HoldsNow DEF Awaits
<1>5. t \in Thens /\ t # "drop" /\ "write" \in Steps /\ x.op \in Ops
  BY <1>1 DEF Thens, Steps, Ops
<1> HIDE DEF t
<1>6. Good(j, Req(x.op, "write", x.name, x.arg, Marked(x.route), x.name, x.before, t))
  BY <1>1, <1>4, <1>5, AskedIs, GoodNow DEF Spares
<1> QED BY <1>2, <1>3, <1>6

\* Writing a route that was read, or made of one that was.
LEMMA WritingGood ==
  ASSUME Typed, NEW j \in Requests, job[j].at # "idle", job[j].op \in Ops \ {"takeover"},
         NEW n \in Names, NEW r \in Routed, NEW t \in Thens,
         WildcardKept => NamesOnly(r, certs), job[j].op = "unalias" \/ t # "drop"
  PROVE  Good(j, Writing(j, n, r, t))
<1> DEFINE x == job[j]
<1>1. Writing(j, n, r, t) = Req(x.op, "write", x.name, x.arg, Marked(r), n, x.before, t)
  BY AskedIs, WritingIs
<1>2. Marked(r) \in Contents /\ (WildcardKept => NamesOnly(Marked(r), certs))
  BY MarkedIs
<1>3. "write" \in Steps
  BY DEF Steps
<1>4. Good(j, Req(x.op, "write", x.name, x.arg, Marked(r), n, x.before, t))
  BY <1>2, <1>3, AskedIs, GoodNow DEF Spares
<1> QED BY <1>1, <1>4

\* A request that only goes on to its next step, and asks for no certificate there.
LEMMA OnGood ==
  ASSUME Typed, NEW j \in Requests, job[j].at # "idle", job[j].op \in Ops \ {"takeover"},
         ~Awaits(job[j]),
         NEW a \in Steps, a \notin {"test", "issue", "reach", "write", "drop"}
  PROVE  Good(j, [job[j] EXCEPT !.at = a])
<1> DEFINE x == job[j]
<1>1. SetAt(x, a) = Req(x.op, a, x.name, x.arg, x.route, x.file, x.before, x.then)
  BY AskedIs, GoesOnIs
<1>2. Good(j, Req(x.op, a, x.name, x.arg, x.route, x.file, x.before, x.then))
  BY AskedIs, HoldsNow, GoodNow DEF Spares
<1> QED BY <1>1, <1>2, Zenon DEF SetAt

LEMMA RemoveRouteGood ==
  ASSUME Typed, NEW j \in Requests, RemoveRoute(j)
  PROVE  \E step : Turn(j, step) /\ Good(j, step)
<1> DEFINE x == job[j]
<1> DEFINE n == x.name
<1> DEFINE r == FindByDomain(disk, n)
<1>1. x.at = "asked" /\ x.op = "remove"
  BY DEF RemoveRoute, Accept
<1>2. x.op \in Ops \ {"takeover"} /\ "rm" \in Steps /\ "rm" \in Thens /\ ~Awaits(x) /\ x.at # "idle"
  BY <1>1 DEF Ops, Steps, Thens, Awaits
<1>3. CASE Turn(j, Idle)
  BY <1>3, GoodIdle
<1>4. CASE Listing /\ DOMAIN r.aliases # {} /\ Turn(j, Writing(j, Successor(r), Promoted(r), "rm"))
  <2>1. r \in Routed /\ NamesOnly(r, certs)
    BY <1>2, <1>4, AskedIs, FoundIs DEF Listing
  <2> HIDE DEF r
  <2>2. Successor(r) \in Names /\ Promoted(r) \in Routed /\ NamesOnly(Promoted(r), certs)
    BY <1>4, <2>1, PromotedIs
  <2> QED BY <1>2, <1>4, <2>2, WritingGood
<1>5. CASE Turn(j, [x EXCEPT !.at = "rm"])
  BY <1>2, <1>5, OnGood
<1> QED BY <1>3, <1>4, <1>5 DEF RemoveRoute, Over

LEMMA AddAliasGood ==
  ASSUME Typed, NEW j \in Requests, AddAlias(j)
  PROVE  \E step : Turn(j, step) /\ Good(j, step)
<1> DEFINE x == job[j]
<1> DEFINE n == x.name
<1> DEFINE a == x.arg
<1> DEFINE r == FindByDomain(disk, n)
<1>1. x.at = "asked" /\ x.op = "alias"
  BY DEF AddAlias, Accept
<1>2. /\ x.op \in Ops \ {"takeover"} /\ "over" \in Thens /\ "reach" \in Thens /\ x.at # "idle"
  BY <1>1 DEF Ops, Thens
<1>3. n \in Names /\ a \in Names /\ disk \in Disks
  BY <1>1, AskedIs
<1>4. CASE Turn(j, Idle)
  BY <1>4, GoodIdle
<1>5. CASE Listing /\ a \in Covered /\ Turn(j, Writing(j, n, WithAlias(r, a, Wildcard), "over"))
  <2>1. r \in Routed /\ NamesOnly(r, certs)
    BY <1>3, <1>5, FoundIs DEF Listing
  <2>2. WithAlias(r, a, Wildcard) \in Routed
        /\ (WildcardKept => NamesOnly(WithAlias(r, a, Wildcard), certs))
    <3> HIDE DEF r, a
    <3> QED BY <1>3, <1>5, <2>1, WithAliasIs, CertsAre DEF WildcardKept
  <2> QED BY <1>2, <1>3, <1>5, <2>2, WritingGood
<1>6. ASSUME NEW t \in Thens, t # "drop", Listing, Turn(j, Writing(j, n, WithAlias(r, a, NoCert), t))
      PROVE  \E step : Turn(j, step) /\ Good(j, step)
  <2>1. r \in Routed /\ NamesOnly(r, certs)
    BY <1>3, <1>6, FoundIs DEF Listing
  <2>2. WithAlias(r, a, NoCert) \in Routed /\ NamesOnly(WithAlias(r, a, NoCert), certs)
    <3> HIDE DEF r, a
    <3> QED BY <1>3, <2>1, WithAliasIs, CertsAre
  <2> QED BY <1>2, <1>3, <1>6, <2>2, WritingGood
<1> QED BY <1>2, <1>4, <1>5, <1>6 DEF AddAlias, Over

LEMMA RemoveAliasGood ==
  ASSUME Typed, NEW j \in Requests, RemoveAlias(j)
  PROVE  \E step : Turn(j, step) /\ Good(j, step)
<1> DEFINE x == job[j]
<1> DEFINE n == x.name
<1> DEFINE a == x.arg
<1> DEFINE r == FindByDomain(disk, n)
<1>1. x.at = "asked" /\ x.op = "unalias"
  BY DEF RemoveAlias, Accept
<1>2. x.op \in Ops \ {"takeover"} /\ "over" \in Thens /\ "drop" \in Thens /\ x.at # "idle"
  BY <1>1 DEF Ops, Thens
<1>3. n \in Names /\ a \in Names /\ disk \in Disks
  BY <1>1, AskedIs
<1>4. CASE Turn(j, Idle)
  BY <1>4, GoodIdle
<1>5. ASSUME NEW t \in Thens, Listing, Turn(j, Writing(j, n, WithoutAlias(r, a), t))
      PROVE  \E step : Turn(j, step) /\ Good(j, step)
  <2>1. r \in Routed /\ NamesOnly(r, certs)
    BY <1>3, <1>5, FoundIs DEF Listing
  <2>2. WithoutAlias(r, a) \in Routed /\ NamesOnly(WithoutAlias(r, a), certs)
    <3> HIDE DEF r, a
    <3> QED BY <1>3, <2>1, WithAliasIs, CertsAre
  <2> QED BY <1>1, <1>2, <1>3, <1>5, <2>2, WritingGood
<1> QED BY <1>2, <1>4, <1>5 DEF RemoveAlias, Over

LEMMA TakeOverGood ==
  ASSUME Typed, NEW j \in Requests, TakeOverDomain(j)
  PROVE  \E step : Turn(j, step) /\ Good(j, step)
<1> DEFINE x == job[j]
<1> DEFINE r == FindByDomain(disk, x.name)
<1> DEFINE c == Marked([r EXCEPT !.aliases = NoAliases])
<1>1. x.at = "asked" /\ x.op = "takeover"
  BY DEF TakeOverDomain, Accept
<1>2. x.op \in Ops /\ "move" \in Steps /\ x.at # "idle"
  BY <1>1 DEF Ops, Steps
<1>3. CASE Turn(j, Idle)
  BY <1>3, GoodIdle
<1>4. CASE Listing /\ Turn(j, [x EXCEPT !.at = "move", !.route = c])
  <2>1. r \in Routed /\ NamesOnly(r, certs)
    BY <1>2, <1>4, AskedIs, FoundIs DEF Listing
  <2>2. c \in Contents /\ NamesOnly(c, certs)
    <3> DEFINE q == [r EXCEPT !.aliases = NoAliases]
    <3>1. NoTarget \in Targets \cup {NoTarget}
      OBVIOUS
    <3>2. q \in Routed /\ NamesOnly(q, certs)
      <4> HIDE DEF r
      <4> QED BY <2>1, <3>1, WithFieldIs, CertsAre
    <3> HIDE DEF q
    <3>3. Marked(q) \in Contents /\ NamesOnly(Marked(q), certs)
      BY <3>2, MarkedIs
    <3> QED BY <3>3 DEF q
  <2> HIDE DEF c
  <2>3. SetRoute(SetAt(x, "move"), c)
          = Req(x.op, "move", x.name, x.arg, c, x.file, x.before, x.then)
    BY <1>2, AskedIs, MovingIs
  <2>4. Good(j, Req(x.op, "move", x.name, x.arg, c, x.file, x.before, x.then))
    BY <1>1, <1>2, <2>2, AskedIs, GoodNow DEF Spares, TakingOver
  <2>5. Good(j, [x EXCEPT !.at = "move", !.route = c])
    BY <2>3, <2>4, Zenon DEF SetAt, SetRoute
  <2> QED BY <1>4, <2>5
<1> QED BY <1>3, <1>4 DEF TakeOverDomain, Over

LEMMA EnableTLSGood ==
  ASSUME Typed, NEW j \in Requests, EnableTLS(j)
  PROVE  \E step : Turn(j, step) /\ Good(j, step)
<1> DEFINE x == job[j]
<1> DEFINE n == x.name
<1>1. x.at \in {"asked", "secure"}
  BY DEF EnableTLS, Accept
<1>2. n \in Names /\ disk \in Disks /\ x \in Request /\ x.before \in Contents \cup {NoFile}
  BY <1>1, AskedIs
<1>3. CASE Turn(j, Idle)
  BY <1>3, GoodIdle
<1>4. ASSUME Listing, NEW challenge \in {"http", "dns"}, Turn(j, Securing(j, n, challenge))
      PROVE  \E step : Turn(j, step) /\ Good(j, step)
  <2> DEFINE found == FindByDomain(disk, n)
  <2> DEFINE r == [found EXCEPT !.cert = CertFor(n)]
  <2> DEFINE g == IF Retirable(n) = {} THEN NoName ELSE CHOOSE m \in Retirable(n) : TRUE
  <2> DEFINE t == IF Retirable(n) = {} THEN "over" ELSE "retire"
  <2> DEFINE a == IF n \in Covered THEN "write" ELSE IF challenge = "dns" THEN "issue" ELSE "reach"
  <2>1. g \in Names \cup {NoName}
    <3>1. Retirable(n) \subseteq Names
      BY DEF Retirable, Typed, TypeOK
    <3> QED BY <3>1
  <2>2. t \in Thens /\ t # "drop" /\ a \in Steps
    BY DEF Thens, Steps
  <2>3. r \in Routed /\ NamesOnly(r, certs \cup {CertFor(n)})
    <3>1. found \in Routed /\ NamesOnly(found, certs)
      BY <1>2, <1>4, FoundIs DEF Listing
    <3>2. NamesOnly(found, certs \cup {CertFor(n)})
      BY <3>1 DEF NamesOnly
    <3>3. NoTarget \in Targets \cup {NoTarget} /\ CertFor(n) \in Certs
      BY <1>2, CertsAre
    <3> DEFINE K == certs \cup {CertFor(n)}
    <3>4. CertFor(n) \in K \cup {NoCert}
      OBVIOUS
    <3> HIDE DEF found, K
    <3>5. r \in Routed /\ (NamesOnly(found, K) => NamesOnly(r, K))
      BY <3>1, <3>3, <3>4, WithFieldIs
    <3> QED BY <3>2, <3>5 DEF K
  <2>4. Securing(j, n, challenge) = Req("tls", a, n, g, Marked(r), n, x.before, t)
    <3>1. Securing(j, n, challenge) = SetAt(SetArg(SetOp(Writing(j, n, r, t), "tls"), g), a)
      BY Zenon DEF Securing, SetAt, SetArg, SetOp
    <3> HIDE DEF r, t, g, a
    <3> QED BY <1>2, <3>1, SecuringIs
  <2> HIDE DEF r, t, g
  <2>5. Marked(r) \in Contents /\ NamesOnly(Marked(r), certs \cup {CertFor(n)})
    BY <2>3, MarkedIs
  <2> DEFINE c == Marked(r)
  <2> HIDE DEF c
  <2>6. c \in Contents /\ NamesOnly(c, certs \cup {CertFor(n)})
    BY <2>5 DEF c
  <2>7. "tls" \in Ops
    BY DEF Ops
  <2>8. Good(j, Req("tls", a, n, g, c, n, x.before, t))
    <3>1. CASE n \in Covered
      <4>1. a = "write" /\ CertFor(n) = Wildcard
        BY <1>2, <3>1, CertsAre
      <4>2. Backed(x, certs) /\ WildcardKept => NamesOnly(c, certs)
        BY <2>6, <3>1, <4>1 DEF WildcardKept, NamesOnly
      <4> QED BY <1>2, <2>1, <2>2, <2>6, <2>7, <4>1, <4>2, GoodNow
    <3>2. CASE n \notin Covered
      <4>1. a \in {"issue", "reach"} /\ CertFor(n) = Own(n)
        BY <1>2, <3>2, CertsAre
      <4>2. NamesOnly(c, certs \cup {Own(n)})
        BY <2>6, <4>1
      <4> HIDE DEF a
      <4> QED BY <1>2, <2>1, <2>2, <2>6, <2>7, <4>1, <4>2, GoodThen
    <3> QED BY <3>1, <3>2
  <2>9. Good(j, Securing(j, n, challenge))
    BY <2>4, <2>8, Zenon DEF c
  <2> QED BY <1>4, <2>9
<1> QED BY <1>3, <1>4 DEF EnableTLS, Over

LEMMA ExposeGood ==
  ASSUME Typed, NEW j \in Requests, Expose(j)
  PROVE  \E step : Turn(j, step) /\ Good(j, step)
<1> DEFINE x == job[j]
<1> DEFINE n == x.name
<1> DEFINE r == Route(Loopback, NoTarget, Own(n), NoAliases)
<1>1. x.at = "asked" /\ x.op = "expose"
  BY DEF Expose, Accept
<1>2. n \in Names /\ x \in Request
  BY <1>1, AskedIs
<1>3. CASE Turn(j, Idle)
  BY <1>3, GoodIdle
<1>4. CASE Turn(j, [Writing(j, n, r, "over") EXCEPT !.at = "issue"])
  <2>1. r \in Routed /\ NamesOnly(r, certs \cup {Own(n)})
    <3>1. Loopback \in Targets \cup {NoTarget} /\ Own(n) \in Certs
      BY <1>2, CertsAre, RoutesAssumption
    <3>2. NoTarget \in Targets \cup {NoTarget} /\ Own(n) \in (certs \cup {Own(n)}) \cup {NoCert}
      OBVIOUS
    <3> QED BY <3>1, <3>2, RouteIs
  <2> HIDE DEF r
  <2> DEFINE c == Marked(r)
  <2>2. c \in Contents /\ NamesOnly(c, certs \cup {Own(n)})
    BY <2>1, MarkedIs
  <2>3. SetAt(Writing(j, n, r, "over"), "issue")
          = Req(x.op, "issue", n, x.arg, c, n, x.before, "over")
    BY <1>2, IssueIs
  <2> HIDE DEF c
  <2>4. "expose" \in Ops /\ "issue" \in Steps /\ "over" \in Thens
    BY DEF Ops, Steps, Thens
  <2>5. Good(j, Req("expose", "issue", n, x.arg, c, n, x.before, "over"))
    <3>1. n \in Names \cup {NoName} /\ x.arg \in Names \cup {NoName}
          /\ x.before \in Contents \cup {NoFile}
      BY <1>1, AskedIs
    <3> QED BY <1>2, <2>2, <2>4, <3>1, GoodThen
  <2>6. Good(j, [Writing(j, n, r, "over") EXCEPT !.at = "issue"])
    BY <1>1, <2>3, <2>5, Zenon DEF SetAt
  <2> QED BY <1>4, <2>6
<1> QED BY <1>3, <1>4 DEF Expose, Over

LEMMA CertifyAliasGood ==
  ASSUME Typed, NEW j \in Requests, CertifyAlias(j)
  PROVE  \E step : Turn(j, step) /\ Good(j, step)
<1> DEFINE x == job[j]
<1> DEFINE n == x.name
<1> DEFINE a == x.arg
<1> DEFINE found == FindByDomain(disk, n)
<1> DEFINE r == WithAlias(found, a, CertFor(a))
<1> DEFINE w == Writing(j, n, r, "over")
<1>1. x.at = "reach" /\ x.op \in {"alias", "retry"}
  BY DEF CertifyAlias
<1>2. x \in Request /\ n \in Names /\ a \in Names /\ disk \in Disks
      /\ x.before \in Contents \cup {NoFile}
  BY <1>1, AskedIs
<1>3. x.op \in Ops \ {"takeover"} /\ "issue" \in Steps /\ "over" \in Thens /\ x.at # "idle"
  BY <1>1 DEF Ops, Steps, Thens
<1>4. CASE Turn(j, Idle)
  BY <1>4, GoodIdle
<1>5. ASSUME Listing PROVE r \in Routed /\ NamesOnly(r, certs \cup {CertFor(a)})
  <2>1. found \in Routed /\ NamesOnly(found, certs)
    BY <1>2, <1>5, FoundIs DEF Listing
  <2> DEFINE K == certs \cup {CertFor(a)}
  <2>2. NamesOnly(found, K) /\ CertFor(a) \in K \cup {NoCert} /\ CertFor(a) \in Certs
    BY <1>2, <2>1, CertsAre DEF NamesOnly
  <2> HIDE DEF found, K
  <2>3. r \in Routed /\ NamesOnly(r, K)
    BY <1>2, <2>1, <2>2, WithAliasIs
  <2> QED BY <2>3 DEF K
<1>6. CASE Listing /\ a \in Covered /\ Turn(j, w)
  <2>1. CertFor(a) = Wildcard
    BY <1>2, <1>6, CertsAre
  <2>2. WildcardKept => NamesOnly(r, certs)
    <3> HIDE DEF r
    <3> QED BY <1>5, <1>6, <2>1 DEF WildcardKept, NamesOnly
  <2> QED BY <1>2, <1>3, <1>5, <1>6, <2>2, WritingGood
<1>7. CASE Listing /\ a \notin Covered /\ Turn(j, [w EXCEPT !.at = "issue"])
  <2>1. CertFor(a) = Own(a)
    BY <1>2, <1>7, CertsAre
  <2>2. r \in Routed /\ NamesOnly(r, certs \cup {Own(a)})
    BY <1>5, <1>7, <2>1
  <2> HIDE DEF r
  <2> DEFINE c == Marked(r)
  <2>3. c \in Contents /\ NamesOnly(c, certs \cup {Own(a)})
    BY <2>2, MarkedIs
  <2>4. SetAt(w, "issue") = Req(x.op, "issue", n, a, c, n, x.before, "over")
    BY <1>2, IssueIs
  <2> HIDE DEF c
  <2>5. NamesOnly(c, certs \cup {Own(IF x.op \in {"alias", "retry"} THEN a ELSE n)})
    BY <1>1, <2>3
  <2>6. Good(j, Req(x.op, "issue", n, a, c, n, x.before, "over"))
    BY <1>1, <1>2, <1>3, <2>3, <2>5, GoodThen
  <2>7. Good(j, [w EXCEPT !.at = "issue"])
    BY <2>4, <2>6, Zenon DEF SetAt
  <2> QED BY <1>7, <2>7
<1> QED BY <1>4, <1>6, <1>7 DEF CertifyAlias, Over

LEMMA CheckReachGood ==
  ASSUME Typed, NEW j \in Requests, CheckReach(j)
  PROVE  \E step : Turn(j, step) /\ Good(j, step)
<1> DEFINE x == job[j]
<1> DEFINE y == Req(x.op, "issue", x.name, x.arg, x.route, x.file, x.before, x.then)
<1>1. x.at = "reach" /\ x.op = "tls"
  BY DEF CheckReach
<1>2. x.op \in Ops /\ "issue" \in Steps
  BY <1>1 DEF Ops, Steps
<1>3. AtHand(y, certs) = AtHand(x, certs)
  <2>1. y.op = x.op /\ y.at = "issue" /\ y.name = x.name /\ y.arg = x.arg
    BY DEF Req
  <2> HIDE DEF x, y
  <2> QED BY <1>1, <2>1 DEF AtHand, Awaits, SubjectOf
<1>4. Backed(x, certs) => NamesOnly(x.route, AtHand(y, certs))
  BY <1>3 DEF Backed
<1>5. Good(j, y)
  <2>1. x.file \in Names
    BY <1>1 DEF Typed, Placed, Awaits
  <2> QED BY <1>1, <1>2, <1>4, <2>1, AskedIs, GoodReq DEF Spares
<1>6. Good(j, [x EXCEPT !.at = "issue"])
  <2>1. SetAt(x, "issue") = y
    BY <1>1, AskedIs, GoesOnIs
  <2> QED BY <1>5, <2>1, Zenon DEF SetAt
<1> QED BY <1>6, GoodIdle DEF CheckReach, Over

\* A request that is asked for starts with nothing written, and a route whose
\* certificates are there.
LEMMA AskGood ==
  ASSUME NEW j \in Requests, NEW op \in Ops, NEW n \in Names, NEW g \in Names \cup {NoName},
         NEW r \in Contents, NamesOnly(r, certs),
         op \in {"alias", "unalias", "retry"} => g \in Names, Ask(j, op, n, g, r)
  PROVE  \E step : Turn(j, step) /\ Good(j, step)
<1> DEFINE x == Req(op, "asked", n, g, r, NoName, NoFile, "over")
<1>1. "asked" \in Steps /\ "over" \in Thens /\ NoName \in Names \cup {NoName}
      /\ NoFile \in Contents \cup {NoFile}
  BY DEF Steps, Thens
<1>2. Good(j, x)
  <2>1. op \in Kinds
    BY DEF Ask
  <2> QED BY <1>1, <2>1, GoodNow
<1>3. x = SetRoute(SetArg(SetName(SetAt(SetOp(Idle, op), "asked"), n), g), r)
  BY IdleIs
<1>4. Turn(j, x)
  <2>1. job' = [job EXCEPT ![j] = SetRoute(SetArg(SetName(SetAt(SetOp(Idle, op), "asked"), n), g), r)]
    BY Zenon DEF Ask, SetRoute, SetArg, SetName, SetAt, SetOp
  <2> HIDE DEF x
  <2> QED BY <1>3, <2>1, Zenon DEF Turn
<1> QED BY <1>2, <1>4

\* Whatever is asked for is about a name, and holds a route made of what was read.
LEMMA AskAnythingGood ==
  ASSUME Typed, NEW j \in Requests, AskAnything(j)
  PROVE  \E step : Turn(j, step) /\ Good(j, step)
<1>1. Listing /\ disk \in Disks
  BY DEF AskAnything, CanAsk, Typed, TypeOK, Disks
<1>2. \A n : FindByDomain(disk, n) \in Routed /\ NamesOnly(FindByDomain(disk, n), certs)
  BY <1>1, FoundIs DEF Listing
<1>3. \A r \in Routed : NamesOnly(r, certs) => Marked(r) \in Contents /\ NamesOnly(Marked(r), certs)
  BY MarkedIs
<1>4. NoTarget \in Targets \cup {NoTarget} /\ NoCert \in Certs /\ NoName \in Names \cup {NoName}
      /\ NoCert \in certs \cup {NoCert}
  BY CertsAre
<1>5. ASSUME NEW op \in {"remove", "takeover", "tls", "expose"}, NEW n \in Names,
             Ask(j, op, n, NoName, Idle.route)
      PROVE  \E step : Turn(j, step) /\ Good(j, step)
  BY <1>4, <1>5, IdleIs, AskGood DEF Ops, Request
<1>6. ASSUME NEW op \in {"alias", "unalias"}, NEW n \in Names, NEW a \in Names,
             Ask(j, op, n, a, Idle.route)
      PROVE  \E step : Turn(j, step) /\ Good(j, step)
  BY <1>6, IdleIs, AskGood DEF Ops, Request
<1>7. ASSUME NEW op \in {"add", "edit", "path", "service"}, NEW n \in Names, NEW r \in Routed,
             NamesOnly(r, certs), Ask(j, op, n, NoName, Marked(r))
      PROVE  \E step : Turn(j, step) /\ Good(j, step)
  <2>1. Marked(r) \in Contents /\ NamesOnly(Marked(r), certs)
    BY <1>3, <1>7
  <2>2. op \in Ops
    BY DEF Ops
  <2> QED BY <1>4, <1>7, <2>1, <2>2, AskGood
<1>8. ASSUME NEW t \in Targets PROVE Route(t, NoTarget, NoCert, NoAliases) \in Routed
                                     /\ NamesOnly(Route(t, NoTarget, NoCert, NoAliases), certs)
  BY <1>4, RouteIs
<1>9. ASSUME NEW n, NEW t \in Targets \cup {NoTarget}
      PROVE  LET r == FindByDomain(disk, n) IN
             /\ [r EXCEPT !.to = t] \in Routed /\ NamesOnly([r EXCEPT !.to = t], certs)
             /\ [r EXCEPT !.path = t] \in Routed /\ NamesOnly([r EXCEPT !.path = t], certs)
  <2> DEFINE r == FindByDomain(disk, n)
  <2>1. r \in Routed /\ NamesOnly(r, certs)
    BY <1>2
  <2> HIDE DEF r
  <2>2. /\ [r EXCEPT !.to = t] \in Routed /\ NamesOnly([r EXCEPT !.to = t], certs)
        /\ [r EXCEPT !.path = t] \in Routed /\ NamesOnly([r EXCEPT !.path = t], certs)
    BY <1>4, <2>1, WithFieldIs
  <2> QED BY <2>2 DEF r
<1>10. ASSUME NEW n \in Names, NEW t \in Targets, AskAddRoute(j, n, t)
       PROVE  \E step : Turn(j, step) /\ Good(j, step)
  BY <1>7, <1>8, <1>10 DEF AskAddRoute, PrepareAdd
<1>11. ASSUME NEW n \in Names, NEW t \in Targets, AskEditRoute(j, n, t)
       PROVE  \E step : Turn(j, step) /\ Good(j, step)
  <2> DEFINE r == [FindByDomain(disk, n) EXCEPT !.to = t]
  <2>1. Ask(j, "edit", n, NoName, Marked(r))
    BY <1>11, Zenon DEF AskEditRoute, PrepareEdit
  <2>2. r \in Routed /\ NamesOnly(r, certs)
    BY <1>9
  <2> HIDE DEF r
  <2> QED BY <1>7, <2>1, <2>2
<1>12. ASSUME NEW n \in Names, NEW t \in Targets, AskSetPath(j, n, t)
       PROVE  \E step : Turn(j, step) /\ Good(j, step)
  <2> DEFINE r == [FindByDomain(disk, n) EXCEPT !.path = t]
  <2>1. Ask(j, "path", n, NoName, Marked(r))
    BY <1>12, Zenon DEF AskSetPath, PrepareSet, WithPath
  <2>2. r \in Routed /\ NamesOnly(r, certs)
    BY <1>9
  <2> HIDE DEF r
  <2> QED BY <1>7, <2>1, <2>2
<1>13. ASSUME NEW n \in Names, AskRemovePath(j, n)
       PROVE  \E step : Turn(j, step) /\ Good(j, step)
  <2> DEFINE r == [FindByDomain(disk, n) EXCEPT !.path = NoTarget]
  <2>1. Ask(j, "path", n, NoName, Marked(r))
    BY <1>13, Zenon DEF AskRemovePath, PrepareRemove, WithoutPath
  <2>2. r \in Routed /\ NamesOnly(r, certs)
    BY <1>4, <1>9
  <2> HIDE DEF r
  <2> QED BY <1>7, <2>1, <2>2
<1>14. ASSUME NEW n \in Names, NEW t \in Targets, AskServiceDomain(j, n, t)
       PROVE  \E step : Turn(j, step) /\ Good(j, step)
  <2>1. \A e \in EntryRoutes(t) : e \in Names
    BY DEF EntryRoutes, Domains
  <2>2. ASSUME NEW e \in EntryRoutes(t), Ask(j, "alias", e, n, Idle.route)
        PROVE  \E step : Turn(j, step) /\ Good(j, step)
    BY <1>6, <2>1, <2>2
  <2>3. ASSUME NEW r \in PrepareAdd(n, t), Ask(j, "service", n, NoName, r)
        PROVE  \E step : Turn(j, step) /\ Good(j, step)
    BY <1>7, <1>8, <2>3 DEF PrepareAdd
  <2> QED BY <1>14, <2>2, <2>3 DEF AskServiceDomain
<1>15. ASSUME NEW n \in Names, \/ AskRemoveRoute(j, n) \/ AskTakeOver(j, n)
                               \/ AskEnableTLS(j, n) \/ AskExpose(j, n)
       PROVE  \E step : Turn(j, step) /\ Good(j, step)
  BY <1>5, <1>15 DEF AskRemoveRoute, AskTakeOver, AskEnableTLS, AskExpose
<1>16. ASSUME NEW n \in Names, NEW a \in Names, AskAddAlias(j, n, a) \/ AskRemoveAlias(j, n, a)
       PROVE  \E step : Turn(j, step) /\ Good(j, step)
  BY <1>6, <1>16 DEF AskAddAlias, AskRemoveAlias
<1> QED BY <1>10, <1>11, <1>12, <1>13, <1>14, <1>15, <1>16 DEF AskAnything

----------------------------------------------------------------------------
(* The state stays well typed.                                                *)

\* The steps that write nothing and take no certificate away, nor bring one.
Quiet(j) ==
  \/ AskAnything(j) \/ Accepted(j) \/ CertifyAlias(j) \/ CheckReach(j) \/ NotIssued(j)
  \/ CutShort(j) \/ RetryNext(j)

LEMMA RetryNextGood ==
  ASSUME Typed, NEW j \in Requests, RetryNext(j)
  PROVE  \E step : Turn(j, step) /\ Good(j, step)
<1>1. PICK p \in todo : Turn(j, [Idle EXCEPT !.op = "retry", !.at = "reach", !.name = p[1],
                                             !.arg = p[2]])
  BY DEF RetryNext
<1>2. p[1] \in Names /\ p[2] \in Names
  BY DEF Typed, TypeOK
<1> DEFINE n == p[1]
<1> DEFINE a == p[2]
<1> HIDE DEF n, a
<1> DEFINE y == Req("retry", "reach", n, a, Idle.route, NoName, NoFile, "over")
<1>3. Good(j, y)
  <2>1. "retry" \in Ops /\ "reach" \in Steps /\ "over" \in Thens /\ NoName \in Names \cup {NoName}
        /\ NoFile \in Contents \cup {NoFile}
    BY DEF Ops, Steps, Thens
  <2>2. n \in Names /\ a \in Names /\ Idle.route \in Contents
    BY <1>2, IdleIs DEF n, a, Request
  <2>3. NamesOnly(Idle.route, certs)
    BY IdleIs
  <2> QED BY <2>1, <2>2, <2>3, GoodNow
<1>4. SetArg(SetName(SetAt(SetOp(Idle, "retry"), "reach"), n), a) = y
  BY IdleIs
<1>5. Turn(j, SetArg(SetName(SetAt(SetOp(Idle, "retry"), "reach"), n), a))
  BY <1>1, Zenon DEF SetArg, SetName, SetAt, SetOp, n, a
<1> HIDE DEF y
<1>6. Turn(j, y)
  BY <1>4, <1>5
<1> QED BY <1>3, <1>6

LEMMA QuietGood ==
  ASSUME Typed, NEW j \in Requests, Quiet(j)
  PROVE  /\ UNCHANGED world /\ pointed' = pointed /\ todo' \subseteq todo
         /\ \E step : Turn(j, step) /\ Good(j, step)
<1>1. CASE AskAnything(j)
  <2>1. \E op, n, g, r : Ask(j, op, n, g, r)
    BY <1>1 DEF AskAnything, AskAddRoute, AskEditRoute, AskSetPath, AskServiceDomain,
                AskRemovePath, AskRemoveRoute, AskTakeOver, AskEnableTLS, AskExpose,
                AskAddAlias, AskRemoveAlias
  <2>2. UNCHANGED world /\ pointed' = pointed /\ todo' = todo
    BY <2>1 DEF Ask
  <2> QED BY <1>1, <2>2, AskAnythingGood
<1>2. CASE Accepted(j)
  <2>1. Stay
    BY <1>2 DEF Accepted, WriteRoute, RemoveRoute, AddAlias, RemoveAlias, TakeOverDomain,
                EnableTLS, Expose
  <2>2. \E step : Turn(j, step) /\ Good(j, step)
    BY <1>2, WriteRouteGood, RemoveRouteGood, AddAliasGood, RemoveAliasGood, TakeOverGood,
       EnableTLSGood, ExposeGood DEF Accepted
  <2> QED BY <2>1, <2>2 DEF Stay, counts
<1>3. CASE CertifyAlias(j) \/ CheckReach(j)
  <2>1. Stay
    BY <1>3 DEF CertifyAlias, CheckReach
  <2> QED BY <1>3, <2>1, CertifyAliasGood, CheckReachGood DEF Stay, counts
<1>4. CASE NotIssued(j) \/ CutShort(j)
  <2>1. Stay /\ Turn(j, Idle)
    BY <1>4 DEF NotIssued, CutShort, Over
  <2> QED BY <2>1, GoodIdle DEF Stay, counts
<1>5. CASE RetryNext(j)
  <2>1. UNCHANGED world /\ pointed' = pointed /\ todo' \subseteq todo
    BY <1>5 DEF RetryNext
  <2> QED BY <1>5, <2>1, RetryNextGood
<1> QED BY <1>1, <1>2, <1>3, <1>4, <1>5 DEF Quiet

LEMMA TurnIs ==
  ASSUME Typed, NEW j \in Requests, NEW step \in Request, Turn(j, step)
  PROVE  /\ job' \in [Requests -> Request] /\ job'[j] = step
         /\ \A i \in Requests \ {j} : job'[i] = job[i]
<1>1. job \in [Requests -> Request]
  BY DEF Typed
<1> QED BY <1>1 DEF Turn

\* What is not the requests.
WorldTyped ==
  /\ disk \in Disks /\ loaded \in Disks
  /\ certs \subseteq Certs \ {NoCert} /\ renewing \subseteq Names /\ pointed \subseteq Names
  /\ aside \subseteq Names \X Contents
  /\ todo \subseteq Names \X Names

LEMMA TypedIs == Typed <=> /\ WorldTyped /\ job \in [Requests -> Request]
                           /\ \A j \in Requests : Placed(job[j])
BY DEF Typed, TypeOK, WorldTyped, Disks, Request

LEMMA TurnTyped ==
  ASSUME Typed, NEW j \in Requests, NEW step \in Request, Turn(j, step), Placed(step), WorldTyped'
  PROVE  Typed'
<1>1. job' \in [Requests -> Request] /\ \A i \in Requests : Placed(job'[i])
  BY TurnIs, TypedIs
<1>2. (WorldTyped /\ job \in [Requests -> Request] /\ \A i \in Requests : Placed(job[i]))'
        => Typed'
  BY DEF Typed, TypeOK, WorldTyped, Disks, Request
<1> QED BY <1>1, <1>2

----------------------------------------------------------------------------
(* nginx can start, as long as no alias is removed.                             *)

\* Nothing that was put aside, and nothing on disk, names a certificate that is
\* not there.
Sure ==
  /\ Loadable(disk, certs) /\ WildcardKept
  /\ \A p \in aside : Restorable(p[2], p[1], certs)

Safe == Sure /\ \A j \in Requests : Backed(job[j], certs) /\ Spares(job[j])

LEMMA LoadableIs ==
  ASSUME NEW d, NEW K
  PROVE  Loadable(d, K) <=> \A f \in Files : Restorable(d[f], f[2], K)
BY DEF Loadable, Restorable, NamesIn, CertIn

LEMMA PutFile ==
  ASSUME NEW d \in Disks, NEW f \in Files, NEW c \in Contents \cup {NoFile}
  PROVE  /\ [d EXCEPT ![f] = c] \in Disks
         /\ [d EXCEPT ![f] = c][f] = c /\ \A g \in Files \ {f} : [d EXCEPT ![f] = c][g] = d[g]
         /\ \A K : Loadable(d, K) /\ Restorable(c, f[2], K) => Loadable([d EXCEPT ![f] = c], K)
<1> DEFINE e == [d EXCEPT ![f] = c]
<1>1. e \in Disks /\ e[f] = c /\ \A g \in Files \ {f} : e[g] = d[g]
  BY DEF Disks
<1> HIDE DEF e
<1>2. ASSUME NEW K, Loadable(d, K), Restorable(c, f[2], K) PROVE Loadable(e, K)
  <2>1. \A g \in Files : Restorable(e[g], g[2], K)
    BY <1>1, <1>2, LoadableIs
  <2> QED BY <2>1, LoadableIs
<1> QED BY <1>1, <1>2 DEF e

LEMMA FilesAre ==
  /\ \A n \in Names : Vhost(n) \in Files /\ <<"hand", n>> \in Files /\ Vhost(n)[2] = n
                      /\ <<"hand", n>>[2] = n /\ \A m \in Names : Vhost(n) # <<"hand", m>>
  /\ \A K, n : Restorable(NoFile, n, K)
  /\ NoFile \in Contents \cup {NoFile}
BY DEF Files, Vhost, Restorable

\* More certificates break nothing.
LEMMA MoreCerts ==
  ASSUME NEW K, NEW L, K \subseteq L
  PROVE  /\ \A d : Loadable(d, K) => Loadable(d, L)
         /\ \A c, n : Restorable(c, n, K) => Restorable(c, n, L)
         /\ \A r : NamesOnly(r, K) => NamesOnly(r, L)
         /\ \A x : Backed(x, K) => Backed(x, L)
<1>1. /\ \A d : Loadable(d, K) => Loadable(d, L)
      /\ \A c, n : Restorable(c, n, K) => Restorable(c, n, L)
      /\ \A r : NamesOnly(r, K) => NamesOnly(r, L)
  BY DEF Loadable, Restorable, NamesOnly
<1>2. ASSUME NEW x, Backed(x, K) PROVE Backed(x, L)
  <2>1. AtHand(x, K) \subseteq AtHand(x, L)
    BY DEF AtHand
  <2>2. NamesOnly(x.route, AtHand(x, K)) => NamesOnly(x.route, AtHand(x, L))
    BY <2>1 DEF NamesOnly
  <2> QED BY <1>1, <1>2, <2>2 DEF Backed
<1> QED BY <1>1, <1>2

\* What a step of request j keeps.
Fine(j) ==
  /\ WorldTyped'
  /\ \E step \in Request :
       /\ Turn(j, step) /\ Placed(step)
       /\ "unalias" \notin Kinds /\ Safe
            => Sure' /\ certs \subseteq certs' /\ Backed(step, certs') /\ Spares(step)

LEMMA FineKeeps ==
  ASSUME Typed, NEW j \in Requests, Fine(j)
  PROVE  Typed' /\ ("unalias" \notin Kinds /\ Safe => Safe')
<1>1. PICK step \in Request :
        /\ Turn(j, step) /\ Placed(step)
        /\ "unalias" \notin Kinds /\ Safe
             => Sure' /\ certs \subseteq certs' /\ Backed(step, certs') /\ Spares(step)
  BY DEF Fine
<1>2. Typed'
  BY <1>1, TurnTyped DEF Fine
<1>3. ASSUME "unalias" \notin Kinds, Safe PROVE Safe'
  <2>1. job'[j] = step /\ \A i \in Requests \ {j} : job'[i] = job[i]
    BY <1>1, TurnIs
  <2>2. \A i \in Requests : Backed(job[i], certs') /\ Spares(job[i])
    BY <1>1, <1>3, MoreCerts DEF Safe
  <2>3. \A i \in Requests : Backed(job'[i], certs') /\ Spares(job'[i])
    BY <1>1, <1>3, <2>1, <2>2
  <2> QED BY <1>1, <1>3, <2>3 DEF Safe
<1> QED BY <1>2, <1>3

LEMMA QuietFine ==
  ASSUME Typed, NEW j \in Requests, Quiet(j)
  PROVE  Fine(j)
<1>1. UNCHANGED world /\ pointed' = pointed /\ todo' \subseteq todo
  BY QuietGood
<1>2. PICK step : Turn(j, step) /\ Good(j, step)
  BY QuietGood
<1>3. WorldTyped'
  BY <1>1, TypedIs DEF WorldTyped, world
<1>4. Sure => Sure'
  BY <1>1 DEF Sure, WildcardKept, world
<1>5. certs' = certs
  BY <1>1 DEF world
<1>6. Safe => WildcardKept /\ Backed(job[j], certs) /\ Spares(job[j])
  BY DEF Safe, Sure
<1> QED BY <1>2, <1>3, <1>4, <1>5, <1>6 DEF Fine, Good, Safe

LEMMA OverFine ==
  ASSUME NEW j \in Requests, Over(j), WorldTyped',
         "unalias" \notin Kinds /\ Safe => Sure' /\ certs \subseteq certs'
  PROVE  Fine(j)
<1>1. Backed(Idle, certs')
  BY IdleIs DEF Backed, AtHand, Awaits
<1>2. Placed(Idle) /\ Spares(Idle) /\ Idle \in Request
  BY IdleIs DEF Placed, Spares, Awaits
<1> QED BY <1>1, <1>2 DEF Fine, Over

LEMMA IssuedFine == ASSUME Typed, NEW j \in Requests, Issued(j) PROVE Fine(j)
<1> DEFINE x == job[j]
<1> DEFINE y == Req(x.op, "write", x.name, x.arg, x.route, x.file, x.before, x.then)
<1>1. x.at = "issue" /\ certs' = certs \cup {Own(Subject(j))}
      /\ UNCHANGED <<disk, loaded, renewing, aside>> /\ UNCHANGED counts
  BY DEF Issued
<1>2. Turn(j, y)
  <2>1. Turn(j, SetAt(x, "write"))
    BY Zenon DEF Issued, SetAt
  <2>2. SetAt(x, "write") = y
    BY <1>1, AskedIs, GoesOnIs
  <2> HIDE DEF y
  <2> QED BY <2>1, <2>2
<1>3. Subject(j) = SubjectOf(x) /\ SubjectOf(x) \in Names
  BY <1>1, AskedIs DEF Subject, SubjectOf
<1>4. y \in Request /\ y.op = x.op /\ y.at = "write" /\ y.name = x.name /\ y.arg = x.arg
      /\ y.route = x.route /\ y.file = x.file /\ y.then = x.then
  BY <1>1, AskedIs DEF Request, Req, Steps
<1> HIDE DEF x, y
<1>5. Placed(y)
  <2>1. Placed(x)
    BY DEF Typed, x
  <2> QED BY <1>1, <1>4, <2>1 DEF Placed, Awaits
<1>6. WorldTyped'
  <2>1. Own(SubjectOf(x)) \in Certs \ {NoCert}
    BY <1>3 DEF Certs, Own, NoCert
  <2> QED BY <1>1, <1>3, <2>1, TypedIs DEF WorldTyped, counts
<1>7. certs \subseteq certs'
  BY <1>1
<1>8. ASSUME Safe PROVE Sure' /\ Backed(y, certs') /\ Spares(y)
  <2>1. Backed(x, certs) /\ Spares(x) /\ Sure
    BY <1>8 DEF Safe, x
  <2>2. Sure'
    BY <1>1, <1>7, <2>1, MoreCerts DEF Sure, WildcardKept
  <2>3. AtHand(x, certs) = certs'
    BY <1>1, <1>3 DEF AtHand, Awaits
  <2>4. AtHand(y, certs') = certs'
    BY <1>4 DEF AtHand, Awaits
  <2>5. Backed(y, certs')
    BY <1>4, <2>1, <2>3, <2>4 DEF Backed
  <2> QED BY <1>1, <1>4, <2>1, <2>2, <2>5 DEF Spares
<1> QED BY <1>2, <1>4, <1>5, <1>6, <1>7, <1>8 DEF Fine

LEMMA MoveAsideFine == ASSUME Typed, NEW j \in Requests, MoveAside(j) PROVE Fine(j)
<1> DEFINE x == job[j]
<1> DEFINE f == <<"hand", x.name>>
<1> DEFINE w == Writing(j, x.name, x.route, "over")
<1> DEFINE d == [disk EXCEPT ![f] = NoFile]
<1>1. x.at = "move" /\ UNCHANGED <<loaded, certs, renewing>> /\ UNCHANGED counts
  BY DEF MoveAside
<1>2. x \in Request /\ x.name \in Names /\ disk \in Disks /\ f \in Files /\ f[2] = x.name
  BY <1>1, AskedIs, FilesAre
<1>3. CASE disk[f] = NoFile
  <2>1. Over(j) /\ UNCHANGED <<disk, aside>>
    BY <1>3 DEF MoveAside
  <2>2. WorldTyped' /\ (Sure => Sure') /\ certs' = certs
    BY <1>1, <2>1, TypedIs DEF WorldTyped, counts, Sure, WildcardKept
  <2> QED BY <2>1, <2>2, OverFine DEF Safe
<1>4. CASE disk[f] # NoFile
  <2>1. Turn(j, w) /\ aside' = aside \cup {<<x.name, disk[f]>>} /\ disk' = d
    BY <1>4 DEF MoveAside
  <2>2. d \in Disks /\ \A K : Loadable(disk, K) => Loadable(d, K)
    <3>1. NoFile \in Contents \cup {NoFile} /\ \A K : Restorable(NoFile, f[2], K)
      BY FilesAre
    <3> HIDE DEF f
    <3> QED BY <1>2, <3>1, PutFile
  <2> HIDE DEF d
  <2>3. WorldTyped'
    <3>1. disk[f] \in Contents
      BY <1>2, <1>4 DEF Disks
    <3> HIDE DEF f
    <3> QED BY <1>1, <1>2, <2>1, <2>2, <3>1, TypedIs DEF WorldTyped, counts
  <2>4. Sure => Sure'
    <3>1. Loadable(disk, certs) => Restorable(disk[f], x.name, certs)
      BY <1>2, LoadableIs
    <3> DEFINE c == disk[f]
    <3> HIDE DEF f, c
    <3>2. aside' = aside \cup {<<x.name, c>>}
      BY <2>1 DEF c
    <3>3. ASSUME Sure PROVE \A p \in aside' : Restorable(p[2], p[1], certs)
      BY <3>1, <3>2, <3>3 DEF Sure, c
    <3> QED BY <1>1, <2>1, <2>2, <3>3 DEF Sure, WildcardKept
  <2>5. Fine(j)
    <3>1. ASSUME Safe PROVE NamesOnly(x.route, certs)
      BY <1>1, <3>1, HoldsNow DEF Safe, Awaits
    <3> DEFINE c == Marked(x.route)
    <3>2. c \in Contents /\ (Safe => NamesOnly(c, certs))
      BY <1>1, <3>1, AskedIs, MarkedIs
    <3>3. w = Req(x.op, "write", x.name, x.arg, c, x.name, x.before, "over")
      BY <1>2, WritingIs
    <3> DEFINE y == Req(x.op, "write", x.name, x.arg, c, x.name, x.before, "over")
    <3>4. y \in Request /\ y.op = x.op /\ y.at = "write" /\ y.name = x.name /\ y.arg = x.arg
          /\ y.route = c /\ y.file = x.name /\ y.then = "over"
      <4> HIDE DEF c
      <4> QED BY <1>1, <3>2, AskedIs DEF Request, Req, Steps, Thens
    <3> HIDE DEF y, c
    <3>5. Turn(j, y)
      BY <2>1, <3>3 DEF y
    <3>6. Placed(y)
      BY <1>1, <1>2, <3>4, AskedIs DEF Placed
    <3>7. ASSUME Safe PROVE Backed(y, certs') /\ Spares(y)
      <4>1. Spares(x)
        BY <3>7 DEF Safe
      <4> HIDE DEF x
      <4> QED BY <1>1, <3>2, <3>4, <3>7, <4>1 DEF Backed, AtHand, Awaits, Spares
    <3>8. certs' = certs /\ (Safe => Sure)
      BY <1>1 DEF Safe
    <3> QED BY <2>3, <2>4, <3>4, <3>5, <3>6, <3>7, <3>8 DEF Fine
  <2> QED BY <2>5
<1> QED BY <1>3, <1>4

LEMMA WriteVhostFine == ASSUME Typed, NEW j \in Requests, WriteVhost(j) PROVE Fine(j)
<1> DEFINE x == job[j]
<1> DEFINE f == Vhost(x.file)
<1> DEFINE c == x.route
<1> DEFINE b == disk[f]
<1> DEFINE d == [disk EXCEPT ![f] = c]
<1> DEFINE y == Req(x.op, "test", x.name, x.arg, c, x.file, b, x.then)
<1>1. x.at = "write" /\ disk' = d /\ UNCHANGED <<loaded, certs, renewing, aside>>
      /\ UNCHANGED counts
  BY DEF WriteVhost
<1>2. x \in Request /\ x.name \in Names /\ x.file \in Names /\ c \in Contents /\ disk \in Disks
  <2>1. Placed(x)
    BY DEF Typed
  <2> QED BY <1>1, <2>1, AskedIs DEF Placed
<1>3. f \in Files /\ f[2] = x.file
  BY <1>2, FilesAre
<1>4. b \in Contents \cup {NoFile} /\ (Loadable(disk, certs) => Restorable(b, x.file, certs))
  BY <1>2, <1>3, LoadableIs DEF Disks
<1>5. Turn(j, y)
  <2>1. Turn(j, SetBefore(SetAt(x, "test"), b))
    BY Zenon DEF WriteVhost, SetAt, SetBefore
  <2>2. SetBefore(SetAt(x, "test"), b) = y
    BY <1>2, WrittenIs
  <2> HIDE DEF y, b
  <2> QED BY <2>1, <2>2
<1>6. d \in Disks /\ \A K : Loadable(disk, K) /\ Restorable(c, x.file, K) => Loadable(d, K)
  <2> HIDE DEF f
  <2> QED BY <1>2, <1>3, PutFile
<1> HIDE DEF d
<1>7. y \in Request /\ y.op = x.op /\ y.at = "test" /\ y.name = x.name /\ y.arg = x.arg
      /\ y.route = c /\ y.file = x.file /\ y.before = b /\ y.then = x.then
  <2> HIDE DEF f, b
  <2> QED BY <1>2, <1>4 DEF Request, Req, Steps
<1>8. Placed(x)
  BY DEF Typed
<1> HIDE DEF x, y, b
<1>9. Placed(y)
  BY <1>1, <1>2, <1>7, <1>8 DEF Placed, Awaits
<1>10. WorldTyped'
  BY <1>1, <1>6, TypedIs DEF WorldTyped, counts
<1>11. ASSUME Safe PROVE Sure' /\ Backed(y, certs') /\ Spares(y)
  <2>1. Backed(x, certs) /\ Spares(x) /\ Sure
    BY <1>11 DEF Safe, x
  <2>2. NamesOnly(c, certs)
    BY <1>1, <2>1 DEF Backed, AtHand, Awaits
  <2>3. Restorable(c, x.file, certs)
    BY <2>2 DEF Restorable, NamesOnly
  <2>4. Sure'
    BY <1>1, <1>6, <2>1, <2>3 DEF Sure, WildcardKept
  <2>5. Backed(y, certs)
    BY <1>4, <1>7, <2>1, <2>2 DEF Backed, AtHand, Awaits, Sure
  <2>6. certs' = certs
    BY <1>1
  <2> QED BY <1>1, <1>7, <2>1, <2>4, <2>5, <2>6 DEF Spares
<1> QED BY <1>1, <1>5, <1>7, <1>9, <1>10, <1>11 DEF Fine

LEMMA RemoveVhostFine == ASSUME Typed, NEW j \in Requests, RemoveVhost(j) PROVE Fine(j)
<1> DEFINE x == job[j]
<1> DEFINE f == Vhost(x.name)
<1> DEFINE d == [disk EXCEPT ![f] = NoFile]
<1> DEFINE y == Req(x.op, "test", x.name, x.arg, x.route, NoName, x.before, "over")
<1>1. x.at = "rm" /\ disk' = d /\ UNCHANGED <<loaded, certs, renewing, aside>>
      /\ UNCHANGED counts
  BY DEF RemoveVhost
<1>2. x \in Request /\ x.name \in Names /\ disk \in Disks
  BY <1>1, AskedIs
<1>3. f \in Files /\ NoFile \in Contents \cup {NoFile} /\ \A K : Restorable(NoFile, f[2], K)
  BY <1>2, FilesAre
<1>4. Turn(j, y)
  <2>1. Turn(j, SetThen(SetFile(SetAt(x, "test"), NoName), "over"))
    BY Zenon DEF RemoveVhost, SetAt, SetFile, SetThen
  <2>2. SetThen(SetFile(SetAt(x, "test"), NoName), "over") = y
    BY <1>2, RemovedIs
  <2> HIDE DEF y
  <2> QED BY <2>1, <2>2
<1>5. d \in Disks /\ \A K : Loadable(disk, K) => Loadable(d, K)
  <2> HIDE DEF f
  <2> QED BY <1>2, <1>3, PutFile
<1> HIDE DEF d
<1>6. y \in Request /\ y.op = x.op /\ y.at = "test" /\ y.name = x.name /\ y.arg = x.arg
      /\ y.route = x.route /\ y.file = NoName /\ y.then = "over"
  BY <1>2 DEF Request, Req, Steps, Thens
<1>7. Placed(x)
  BY DEF Typed
<1> HIDE DEF x, y
<1>8. Placed(y)
  BY <1>1, <1>2, <1>6, <1>7 DEF Placed, Awaits
<1>9. WorldTyped'
  BY <1>1, <1>5, TypedIs DEF WorldTyped, counts
<1>10. ASSUME Safe PROVE Sure' /\ Backed(y, certs') /\ Spares(y)
  <2>1. Backed(x, certs) /\ Spares(x) /\ Sure
    BY <1>10 DEF Safe, x
  <2>2. Sure'
    BY <1>1, <1>5, <2>1 DEF Sure, WildcardKept
  <2>3. Backed(y, certs)
    BY <1>1, <1>6, <2>1 DEF Backed, AtHand, Awaits
  <2>4. certs' = certs
    BY <1>1
  <2> QED BY <1>1, <1>6, <2>1, <2>2, <2>3, <2>4 DEF Spares
<1> QED BY <1>1, <1>4, <1>6, <1>8, <1>9, <1>10 DEF Fine

LEMMA ReloadFine == ASSUME Typed, NEW j \in Requests, Reload(j) PROVE Fine(j)
<1> DEFINE x == job[j]
<1> DEFINE y == Req(x.op, x.then, x.name, x.arg, x.route, x.file, x.before, x.then)
<1>1. x.at = "test" /\ loaded' = disk /\ UNCHANGED <<disk, certs, renewing, aside>>
      /\ UNCHANGED counts
  BY DEF Reload
<1>2. WorldTyped'
  BY <1>1, TypedIs DEF WorldTyped, counts
<1>3. (Sure => Sure') /\ certs' = certs
  BY <1>1 DEF Sure, WildcardKept
<1>4. CASE x.then = "over"
  BY <1>2, <1>3, <1>4, OverFine DEF Reload, Safe
<1>5. CASE x.then # "over"
  <2>1. x \in Request /\ Placed(x) /\ x.name \in Names
    BY <1>1, AskedIs DEF Typed
  <2>2. Turn(j, y)
    <3>1. Turn(j, SetAt(x, x.then))
      BY <1>5, Zenon DEF Reload, SetAt
    <3>2. SetAt(x, x.then) = y
      BY <2>1, GoesOnIs
    <3> HIDE DEF y
    <3> QED BY <3>1, <3>2
  <2>3. y \in Request /\ y.op = x.op /\ y.at = x.then /\ y.name = x.name /\ y.arg = x.arg
        /\ y.route = x.route /\ y.file = x.file /\ y.then = x.then
        /\ x.then \in {"secure", "drop", "retire", "reach", "rm"}
    BY <1>5, <2>1 DEF Request, Req, Steps, Thens
  <2> HIDE DEF x, y
  <2>4. Placed(y)
    BY <1>1, <1>5, <2>1, <2>3 DEF Placed, x
  <2>5. ASSUME Safe PROVE Backed(y, certs') /\ Spares(y)
    <3>1. Backed(x, certs) /\ Spares(x)
      BY <2>5 DEF Safe, x
    <3>2. NamesOnly(x.route, certs)
      BY <1>1, <3>1 DEF Backed, AtHand, Awaits
    <3>3. certs \subseteq AtHand(y, certs)
      BY DEF AtHand
    <3>4. NamesOnly(y.route, AtHand(y, certs))
      BY <2>3, <3>2, <3>3 DEF NamesOnly
    <3>5. Backed(y, certs)
      BY <2>3, <3>4 DEF Backed
    <3> QED BY <1>3, <2>3, <3>1, <3>5 DEF Spares
  <2> QED BY <1>2, <1>3, <2>2, <2>3, <2>4, <2>5 DEF Fine, Safe
<1> QED BY <1>4, <1>5

LEMMA RefusedFine == ASSUME Typed, NEW j \in Requests, Refused(j) PROVE Fine(j)
<1> DEFINE x == job[j]
<1>1. x.at = "test" /\ disk' = PutBack(j) /\ Over(j) /\ UNCHANGED <<loaded, certs, renewing, aside>>
      /\ UNCHANGED counts
  BY DEF Refused
<1>2. x.before \in Contents \cup {NoFile} /\ x.file \in Names \cup {NoName} /\ disk \in Disks
  BY <1>1, AskedIs
<1>3. disk' \in Disks /\ (Safe => Loadable(disk', certs))
  <2>1. CASE x.file = NoName
    BY <1>1, <1>2, <2>1 DEF PutBack, Safe, Sure
  <2>2. CASE x.file # NoName
    <3> DEFINE f == Vhost(x.file)
    <3> DEFINE b == x.before
    <3>1. f \in Files /\ f[2] = x.file
      BY <1>2, <2>2, FilesAre
    <3>2. disk' = [disk EXCEPT ![f] = b]
      BY <1>1, <2>2 DEF PutBack
    <3>3. ASSUME Safe PROVE Loadable(disk, certs) /\ Restorable(b, x.file, certs)
      BY <1>1, <2>2, <3>3 DEF Safe, Sure, Backed
    <3> HIDE DEF f, b
    <3> DEFINE d == [disk EXCEPT ![f] = b]
    <3>4. d \in Disks /\ \A K : Loadable(disk, K) /\ Restorable(b, x.file, K) => Loadable(d, K)
      BY <1>2, <3>1, PutFile DEF b
    <3> HIDE DEF d
    <3>5. disk' = d
      BY <3>2 DEF d
    <3> QED BY <3>3, <3>4, <3>5
  <2> QED BY <2>1, <2>2
<1>4. WorldTyped'
  BY <1>1, <1>3, TypedIs DEF WorldTyped, counts
<1>5. Safe => Sure' /\ certs \subseteq certs'
  BY <1>1, <1>3 DEF Safe, Sure, WildcardKept
<1> QED BY <1>1, <1>4, <1>5, OverFine

LEMMA RefusedTakeOverFine == ASSUME Typed, NEW j \in Requests, RefusedTakeOver(j) PROVE Fine(j)
<1> DEFINE x == job[j]
<1> DEFINE n == x.name
<1> DEFINE f == Vhost(n)
<1> DEFINE h == <<"hand", n>>
<1> DEFINE own == [disk EXCEPT ![f] = NoFile]
<1>1. x.at = "test" /\ Over(j) /\ UNCHANGED <<loaded, certs, renewing>> /\ UNCHANGED counts
  BY DEF RefusedTakeOver
<1>2. n \in Names /\ disk \in Disks /\ aside \subseteq Names \X Contents
  BY <1>1, AskedIs DEF Typed, TypeOK
<1>3. f \in Files /\ h \in Files /\ h[2] = n /\ NoFile \in Contents \cup {NoFile}
      /\ \A K : Restorable(NoFile, f[2], K)
  BY <1>2, FilesAre
<1>4. own \in Disks /\ \A K : Loadable(disk, K) => Loadable(own, K)
  <2> HIDE DEF f
  <2> QED BY <1>2, <1>3, PutFile
<1>5. /\ disk' \in Disks /\ aside' \subseteq aside
      /\ Safe => Loadable(disk', certs)
  <2>1. CASE disk' = own /\ UNCHANGED aside
    BY <1>4, <2>1 DEF Safe, Sure
  <2>2. ASSUME NEW p \in aside, p[1] = n, disk' = [own EXCEPT ![h] = p[2]], aside' = aside \ {p}
        PROVE  disk' \in Disks /\ aside' \subseteq aside /\ (Safe => Loadable(disk', certs))
    <3> DEFINE c == p[2]
    <3>1. c \in Contents \cup {NoFile} /\ (Safe => Restorable(c, n, certs))
      BY <1>2, <2>2 DEF Safe, Sure
    <3>2. Safe => Loadable(own, certs)
      BY <1>4 DEF Safe, Sure
    <3> DEFINE d == [own EXCEPT ![h] = c]
    <3>3. disk' = d
      BY <2>2
    <3> HIDE DEF own, h, c, n
    <3>4. d \in Disks /\ \A K : Loadable(own, K) /\ Restorable(c, n, K) => Loadable(d, K)
      BY <1>3, <1>4, <3>1, PutFile
    <3> HIDE DEF d
    <3> QED BY <2>2, <3>1, <3>2, <3>3, <3>4
  <2>3. \/ disk' = own /\ UNCHANGED aside
        \/ \E p \in aside : p[1] = n /\ disk' = [own EXCEPT ![h] = p[2]] /\ aside' = aside \ {p}
    <3>1. PICK cancelled \in Cancels : PutOriginalBack(j, cancelled)
      BY DEF RefusedTakeOver
    <3> QED BY <3>1 DEF PutOriginalBack
  <2> QED BY <2>1, <2>2, <2>3
<1>6. WorldTyped'
  BY <1>1, <1>2, <1>5, TypedIs DEF WorldTyped, counts
<1>7. Safe => Sure' /\ certs \subseteq certs'
  BY <1>1, <1>5 DEF Safe, Sure, WildcardKept
<1> QED BY <1>1, <1>6, <1>7, OverFine

LEMMA DropCertificateFine == ASSUME Typed, NEW j \in Requests, DropCertificate(j) PROVE Fine(j)
<1>1. job[j].at = "drop" /\ Over(j) /\ certs' \subseteq certs
      /\ UNCHANGED <<disk, loaded, renewing, aside>> /\ UNCHANGED counts
  BY DEF DropCertificate
<1>2. WorldTyped'
  BY <1>1, TypedIs DEF WorldTyped, counts
<1>3. ~Safe
  BY <1>1 DEF Safe, Spares
<1> QED BY <1>1, <1>2, <1>3, OverFine

LEMMA RetireFine == ASSUME Typed, NEW j \in Requests, Retire(j) PROVE Fine(j)
<1>1. Over(j) /\ renewing' \subseteq renewing /\ UNCHANGED <<disk, loaded, certs, aside>>
      /\ UNCHANGED counts
  BY DEF Retire
<1>2. WorldTyped'
  BY <1>1, TypedIs DEF WorldTyped, counts
<1>3. Safe => Sure' /\ certs \subseteq certs'
  BY <1>1 DEF Safe, Sure, WildcardKept
<1> QED BY <1>1, <1>2, <1>3, OverFine

\* Somebody edits where a file leads: the certificates it names are the same.
LEMMA HandEdited ==
  ASSUME Typed, NEW n \in Names, NEW t \in Targets, HandEdit(n, t)
  PROVE  \E c \in Contents :
           /\ disk' = [disk EXCEPT ![Vhost(n)] = c] /\ disk[Vhost(n)] \in Contents \ {NoFile}
           /\ c.by = "edited" /\ c.cert = disk[Vhost(n)].cert /\ c.aliases = disk[Vhost(n)].aliases
           /\ UNCHANGED <<loaded, certs, renewing, aside, pointed, job, todo, crashes>>
<1> DEFINE f == Vhost(n)
<1> DEFINE c == [[disk[f] EXCEPT !.to = t] EXCEPT !.by = "edited"]
<1>1. f \in Files /\ disk \in Disks /\ disk[f] # NoFile
  BY FilesAre, TypedIs DEF HandEdit, WorldTyped
<1>2. disk[f] \in Contents
  BY <1>1 DEF Disks
<1>3. /\ disk' = [disk EXCEPT ![f] = c]
      /\ UNCHANGED <<loaded, certs, renewing, aside, pointed, job, todo, crashes>>
  <2>1. disk' = [[disk EXCEPT ![f].to = t] EXCEPT ![f].by = "edited"]
    BY Zenon DEF HandEdit
  <2> DEFINE d == [disk EXCEPT ![f].to = t]
  <2>2. d = [disk EXCEPT ![f] = [disk[f] EXCEPT !.to = t]]
    BY Zenon
  <2>3. d[f] = [disk[f] EXCEPT !.to = t]
    BY <1>1, <2>2 DEF Disks
  <2> QED BY <2>1 DEF HandEdit
<1>4. c \in Contents /\ c.cert = disk[f].cert /\ c.aliases = disk[f].aliases /\ c.by = "edited"
  <2> DEFINE old == disk[f]
  <2>1. old \in Contents
    BY <1>2
  <2> HIDE DEF old
  <2>2. [old EXCEPT !.to = t] \in Contents /\ [old EXCEPT !.to = t].cert = old.cert
        /\ [old EXCEPT !.to = t].aliases = old.aliases
    BY <2>1 DEF Contents
  <2> DEFINE mid == [old EXCEPT !.to = t]
  <2> HIDE DEF mid
  <2>3. [mid EXCEPT !.by = "edited"] \in Contents /\ [mid EXCEPT !.by = "edited"].cert = mid.cert
        /\ [mid EXCEPT !.by = "edited"].aliases = mid.aliases
        /\ [mid EXCEPT !.by = "edited"].by = "edited"
    BY <2>2 DEF Contents, mid
  <2> QED BY <2>2, <2>3, Zenon DEF old, mid
<1> HIDE DEF c
<1> QED BY <1>1, <1>2, <1>3, <1>4

LEMMA HandEditFine ==
  ASSUME Typed, NEW n \in Names, NEW t \in Targets, HandEdit(n, t)
  PROVE  Typed' /\ (Safe => Safe')
<1> DEFINE f == Vhost(n)
<1>1. f \in Files /\ disk \in Disks
  BY FilesAre, TypedIs DEF WorldTyped
<1>3. PICK c \in Contents :
        /\ disk' = [disk EXCEPT ![f] = c] /\ disk[f] # NoFile
        /\ c.cert = disk[f].cert /\ c.aliases = disk[f].aliases
        /\ UNCHANGED <<loaded, certs, renewing, aside, pointed, job, todo, crashes>>
  BY HandEdited
<1>5. disk' \in Disks /\ (Safe => Loadable(disk', certs))
  <2>1. f[2] = n
    BY FilesAre
  <2>2. Safe => Loadable(disk, certs) /\ Restorable(disk[f], n, certs)
    BY <1>1, <2>1, LoadableIs DEF Safe, Sure
  <2>3. Safe => Restorable(c, n, certs)
    BY <1>1, <1>3, <2>2 DEF Restorable
  <2> HIDE DEF f
  <2> DEFINE d == [disk EXCEPT ![f] = c]
  <2>4. d \in Disks /\ \A K : Loadable(disk, K) /\ Restorable(c, n, K) => Loadable(d, K)
    BY <1>1, <2>1, PutFile
  <2>5. disk' = d
    BY <1>3
  <2> HIDE DEF d
  <2> QED BY <2>2, <2>3, <2>4, <2>5
<1>6. WorldTyped'
  BY <1>3, <1>5, TypedIs DEF WorldTyped
<1>7. Typed'
  <2>1. (WorldTyped /\ job \in [Requests -> Request] /\ \A j \in Requests : Placed(job[j]))'
          => Typed'
    BY DEF Typed, TypeOK, WorldTyped, Disks, Request
  <2> QED BY <1>3, <1>6, <2>1, TypedIs
<1>8. Safe => Safe'
  BY <1>3, <1>5 DEF Safe, Sure, WildcardKept
<1> QED BY <1>7, <1>8

LEMMA WaitingAre == WaitingNames \subseteq Names \X Names
BY DEF WaitingNames

\* Every step keeps the types; and, unless an alias can be removed, that nginx
\* can start.
LEMMA NextFine ==
  ASSUME Typed, [Next]_vars
  PROVE  Typed' /\ ("unalias" \notin Kinds /\ Safe => Safe')
<1>t. (WorldTyped /\ job \in [Requests -> Request] /\ \A j \in Requests : Placed(job[j]))' => Typed'
  BY DEF Typed, TypeOK, WorldTyped, Disks, Request
<1>1. ASSUME NEW j \in Requests, Fine(j) PROVE Typed' /\ ("unalias" \notin Kinds /\ Safe => Safe')
  BY <1>1, FineKeeps
<1>2. ASSUME NEW j \in Requests, AskAnything(j) \/ Accepted(j) \/ RetryNext(j)
      PROVE  Fine(j)
  BY <1>2, QuietFine DEF Quiet
<1>3. ASSUME NEW j \in Requests, Step(j) PROVE Fine(j)
  BY <1>3, QuietFine, MoveAsideFine, WriteVhostFine, RemoveVhostFine, RefusedFine,
     RefusedTakeOverFine, DropCertificateFine, RetireFine DEF Step, Quiet
<1>4. ASSUME NEW j \in Requests, RetryLook(j) PROVE Typed' /\ (Safe => Safe')
  <2>1. UNCHANGED <<world, job, pointed, asked, crashes>> /\ todo' = WaitingNames
    BY <1>4 DEF RetryLook
  <2>2. WorldTyped'
    BY <2>1, WaitingAre, TypedIs DEF WorldTyped, world
  <2>3. Typed'
    BY <1>t, <2>1, <2>2, TypedIs
  <2>4. Safe => Safe'
    BY <2>1 DEF Safe, Sure, WildcardKept, world
  <2> QED BY <2>3, <2>4
<1>5. ASSUME NEW n \in Names, PointDNS(n) PROVE Typed' /\ (Safe => Safe')
  <2>1. UNCHANGED <<world, job, todo, asked, crashes>> /\ pointed' = pointed \cup {n}
    BY <1>5 DEF PointDNS
  <2>2. WorldTyped'
    BY <2>1, TypedIs DEF WorldTyped, world
  <2>3. Typed'
    BY <1>t, <2>1, <2>2, TypedIs
  <2>4. Safe => Safe'
    BY <2>1 DEF Safe, Sure, WildcardKept, world
  <2> QED BY <2>3, <2>4
<1>6. CASE Restart
  <2>1. UNCHANGED <<world, pointed, asked>> /\ todo' = {} /\ job' = [j \in Requests |-> Idle]
    BY <1>6 DEF Restart
  <2>2. Idle \in Request /\ Placed(Idle) /\ Spares(Idle) /\ \A K : Backed(Idle, K)
    BY IdleIs DEF Placed, Spares, Backed, AtHand, Awaits
  <2>3. WorldTyped'
    BY <2>1, TypedIs DEF WorldTyped, world
  <2>4. Typed'
    <3>1. job' \in [Requests -> Request] /\ \A j \in Requests : Placed(job'[j])
      BY <2>1, <2>2
    <3> QED BY <1>t, <2>3, <3>1
  <2>5. Safe => Safe'
    <3>1. \A j \in Requests : Backed(job'[j], certs') /\ Spares(job'[j])
      BY <2>1, <2>2
    <3> QED BY <2>1, <3>1 DEF Safe, Sure, WildcardKept, world
  <2> QED BY <2>4, <2>5
<1>7. CASE UNCHANGED vars
  <2>1. WorldTyped'
    BY <1>7, TypedIs DEF WorldTyped, vars
  <2>2. Typed'
    BY <1>7, <1>t, <2>1, TypedIs DEF vars
  <2>3. Safe => Safe'
    BY <1>7 DEF Safe, Sure, WildcardKept, vars
  <2> QED BY <2>2, <2>3
<1> QED BY <1>1, <1>2, <1>3, <1>4, <1>5, <1>6, <1>7, IssuedFine, ReloadFine, HandEditFine
        DEF Next, Retry

LEMMA InitialCertsAre ==
  /\ \A f \in Files : \A n \in NamesIn(Initial, f) : CertIn(Initial, f, n) \in InitialCerts \cup {NoCert}
  /\ \A c \in InitialCerts : c # NoCert /\ \E f \in Files : \E n \in NamesIn(Initial, f) :
                                                  c = CertIn(Initial, f, n)
<1> DEFINE of == [f \in Files |-> {CertIn(Initial, f, n) : n \in NamesIn(Initial, f)}]
<1>1. InitialCerts = (UNION {of[f] : f \in Files}) \ {NoCert}
  BY DEF InitialCerts
<1>2. ASSUME NEW f \in Files
      PROVE  /\ \A n \in NamesIn(Initial, f) : CertIn(Initial, f, n) \in of[f]
             /\ \A c \in of[f] : \E n \in NamesIn(Initial, f) : c = CertIn(Initial, f, n)
  OBVIOUS
<1> HIDE DEF of
<1> DEFINE all == {of[f] : f \in Files}
<1>4. InitialCerts = (UNION all) \ {NoCert}
  BY <1>1
<1>5. (\A f \in Files : of[f] \in all) /\ \A S \in all : \E f \in Files : S = of[f]
  OBVIOUS
<1> HIDE DEF all
<1>3. \A c : c \in InitialCerts <=> c # NoCert /\ \E f \in Files : c \in of[f]
  BY <1>4, <1>5
<1> QED BY <1>2, <1>3

LEMMA InitFine ==
  ASSUME Init
  PROVE  Typed /\ Safe
<1>1. Initial \in Disks
  BY RoutesAssumption DEF Disks
<1>2. InitialCerts \subseteq Certs \ {NoCert}
  <2>1. \A f \in Files : \A n \in NamesIn(Initial, f) : CertIn(Initial, f, n) \in Certs
    BY <1>1, NamesInAre
  <2> QED BY <2>1, InitialCertsAre
<1>3. Wildcard \in Certs \ {NoCert}
  BY DEF Certs, Wildcard, NoCert
<1>4. Idle \in Request /\ Placed(Idle) /\ Spares(Idle) /\ \A K : Backed(Idle, K)
  BY IdleIs DEF Placed, Spares, Backed, AtHand, Awaits
<1>5. WorldTyped
  BY <1>1, <1>2, <1>3 DEF Init, WorldTyped, CertbotNames
<1>6. Typed
  BY <1>4, <1>5, TypedIs DEF Init
<1>7. Loadable(Initial, InitialCerts)
  BY InitialCertsAre DEF Loadable
<1>8. Loadable(disk, certs)
  BY <1>7, MoreCerts DEF Init
<1> QED BY <1>4, <1>6, <1>8 DEF Init, Safe, Sure, WildcardKept

\* Every file, certificate, request and name is one there can be, in every state.
THEOREM FilesAreWellFormed == Spec => []TypeOK
<1>1. Init => Typed
  BY InitFine
<1>2. Typed /\ [Next]_vars => Typed'
  BY NextFine
<1>3. Typed => TypeOK
  BY DEF Typed
<1> QED BY <1>1, <1>2, <1>3, PTL DEF Spec

\* Where an alias cannot be removed, nginx can start from what is on disk at every
\* moment: through every order of requests, refusals, cancellations, edits by
\* hand, retries and restarts. What a request is about to write, and what would be
\* put back, name only certificates that are there, or that come before the write.
THEOREM NginxAlwaysStarts == "unalias" \notin Kinds => (Spec => []NginxStarts)
<1> SUFFICES ASSUME "unalias" \notin Kinds PROVE Spec => []NginxStarts
  OBVIOUS
<1>1. Init => Typed /\ Safe
  BY InitFine
<1>2. Typed /\ Safe /\ [Next]_vars => (Typed /\ Safe)'
  BY NextFine
<1>3. Typed /\ Safe => NginxStarts
  BY DEF Safe, Sure, NginxStarts
<1> QED BY <1>1, <1>2, <1>3, PTL DEF Spec

----------------------------------------------------------------------------
(* What people wrote by hand.                                                 *)

\* A file of theirs is where it was or is not, what was put aside is what it was,
\* and it is one of the two.
Theirs ==
  /\ \A n \in Names : disk[<<"hand", n>>] \in {NoFile, Initial[<<"hand", n>>]}
  /\ \A p \in aside : p[2] = Initial[<<"hand", p[1]>>]
  /\ HandFilesKept

\* A disk where only files of croft's changed.
LEMMA TheirsStay ==
  ASSUME Theirs, aside' = aside, \A n \in Names : disk'[<<"hand", n>>] = disk[<<"hand", n>>]
  PROVE  Theirs'
BY DEF Theirs, HandFilesKept

LEMMA OwnFilesOnly ==
  ASSUME NEW d \in Disks, NEW e, NEW m, NEW c, e = [d EXCEPT ![Vhost(m)] = c]
  PROVE  \A n \in Names : e[<<"hand", n>>] = d[<<"hand", n>>]
BY FilesAre DEF Disks, Vhost

LEMMA NextTheirs ==
  ASSUME Typed, Theirs, [Next]_vars
  PROVE  Theirs'
<1>d. disk \in Disks /\ aside \subseteq Names \X Contents
  BY TypedIs DEF WorldTyped
<1>1. CASE UNCHANGED <<disk, aside>>
  BY <1>1, TheirsStay
<1>2. ASSUME NEW j \in Requests, Quiet(j) PROVE Theirs'
  BY <1>2, <1>1, QuietGood DEF world
<1>3. ASSUME NEW j \in Requests, \/ Issued(j) \/ Reload(j) \/ DropCertificate(j) \/ Retire(j)
                                 \/ RetryLook(j)
      PROVE  Theirs'
  BY <1>1, <1>3 DEF Issued, Reload, DropCertificate, Retire, RetryLook, world
<1>4. ASSUME NEW j \in Requests, WriteVhost(j) \/ RemoveVhost(j) \/ Refused(j) PROVE Theirs'
  <2>1. aside' = aside /\ (disk' = disk \/ \E m, c : disk' = [disk EXCEPT ![Vhost(m)] = c])
    BY <1>4 DEF WriteVhost, RemoveVhost, Refused, PutBack
  <2>2. \A n \in Names : disk'[<<"hand", n>>] = disk[<<"hand", n>>]
    <3>1. ASSUME NEW m, NEW c, disk' = [disk EXCEPT ![Vhost(m)] = c]
          PROVE  \A n \in Names : disk'[<<"hand", n>>] = disk[<<"hand", n>>]
      BY <1>d, <3>1, OwnFilesOnly
    <3> QED BY <2>1, <3>1
  <2> QED BY <2>1, <2>2, TheirsStay
<1>5. ASSUME NEW n \in Names, NEW t \in Targets, HandEdit(n, t) PROVE Theirs'
  <2>1. aside' = aside /\ \E c : disk' = [disk EXCEPT ![Vhost(n)] = c]
    BY <1>5, HandEdited
  <2>2. \A m \in Names : disk'[<<"hand", m>>] = disk[<<"hand", m>>]
    <3>1. ASSUME NEW c, disk' = [disk EXCEPT ![Vhost(n)] = c]
          PROVE  \A m \in Names : disk'[<<"hand", m>>] = disk[<<"hand", m>>]
      BY <1>d, <3>1, OwnFilesOnly
    <3> QED BY <2>1, <3>1
  <2> QED BY <2>1, <2>2, TheirsStay
<1>6. ASSUME NEW j \in Requests, MoveAside(j) PROVE Theirs'
  <2> DEFINE n == job[j].name
  <2> DEFINE f == <<"hand", n>>
  <2>1. n \in Names
    BY <1>6, AskedIs DEF MoveAside
  <2>2. CASE disk[f] = NoFile
    BY <1>1, <1>6, <2>2 DEF MoveAside
  <2>3. CASE disk[f] # NoFile
    <3>1. aside' = aside \cup {<<n, disk[f]>>} /\ disk' = [disk EXCEPT ![f] = NoFile]
      BY <1>6, <2>3 DEF MoveAside
    <3>2. disk[f] = Initial[f]
      BY <2>1, <2>3 DEF Theirs
    <3>3. \A m \in Names : disk'[<<"hand", m>>] = IF m = n THEN NoFile ELSE disk[<<"hand", m>>]
      BY <1>d, <2>1, <3>1, FilesAre DEF Disks
    <3>4. aside' = aside \cup {<<n, Initial[f]>>}
      BY <3>1, <3>2
    <3> HIDE DEF n
    <3>5. \A p \in aside' : p[2] = Initial[<<"hand", p[1]>>]
      <4> DEFINE was == Initial[f]
      <4>1. was = Initial[<<"hand", n>>] /\ aside' = aside \cup {<<n, was>>}
        BY <3>4
      <4> HIDE DEF was, f
      <4> SUFFICES ASSUME NEW p \in aside' PROVE p[2] = Initial[<<"hand", p[1]>>]
        OBVIOUS
      <4>2. CASE p \in aside
        BY <4>2 DEF Theirs
      <4>3. CASE p = <<n, was>>
        <5>1. p[1] = n /\ p[2] = was
          BY <4>3
        <5> QED BY <4>1, <5>1
      <4> QED BY <4>1, <4>2, <4>3
    <3>6. HandFilesKept'
      <4> SUFFICES ASSUME NEW m \in Names, Initial[<<"hand", m>>] # NoFile
                   PROVE  \/ disk'[<<"hand", m>>] = Initial[<<"hand", m>>]
                          \/ <<m, Initial[<<"hand", m>>]>> \in aside'
        BY DEF HandFilesKept
      <4>1. CASE m = n
        BY <3>4, <4>1
      <4>2. CASE m # n
        BY <3>3, <3>4, <4>2 DEF Theirs, HandFilesKept
      <4> QED BY <4>1, <4>2
    <3> QED BY <3>3, <3>5, <3>6 DEF Theirs
  <2> QED BY <2>2, <2>3
<1>7. ASSUME NEW j \in Requests, RefusedTakeOver(j) PROVE Theirs'
  <2> DEFINE n == job[j].name
  <2> DEFINE own == [disk EXCEPT ![Vhost(n)] = NoFile]
  <2> DEFINE h == <<"hand", n>>
  <2>1. n \in Names /\ own \in Disks
    <3>1. n \in Names
      BY <1>7, AskedIs DEF RefusedTakeOver
    <3> QED BY <1>d, <3>1, FilesAre, PutFile
  <2>6. own = [disk EXCEPT ![Vhost(n)] = NoFile]
    OBVIOUS
  <2> HIDE DEF own
  <2>2. \A m \in Names : own[<<"hand", m>>] = disk[<<"hand", m>>]
    BY <1>d, <2>6, OwnFilesOnly
  <2>3. \/ disk' = own /\ UNCHANGED aside
        \/ \E p \in aside : p[1] = n /\ disk' = [own EXCEPT ![h] = p[2]] /\ aside' = aside \ {p}
    <3>1. PICK cancelled \in Cancels : PutOriginalBack(j, cancelled)
      BY <1>7 DEF RefusedTakeOver
    <3> QED BY <3>1 DEF PutOriginalBack, own
  <2> HIDE DEF own
  <2>4. CASE disk' = own /\ UNCHANGED aside
    BY <2>2, <2>4, TheirsStay
  <2>5. ASSUME NEW p \in aside, p[1] = n, disk' = [own EXCEPT ![h] = p[2]], aside' = aside \ {p}
        PROVE  Theirs'
    <3>1. p[2] = Initial[h] /\ p = <<n, Initial[h]>>
      BY <1>d, <2>5 DEF Theirs
    <3>2. \A m \in Names : disk'[<<"hand", m>>]
            = IF m = n THEN Initial[<<"hand", m>>] ELSE disk[<<"hand", m>>]
      BY <2>1, <2>2, <2>5, <3>1, FilesAre DEF Disks
    <3> HIDE DEF n
    <3>3. \A q \in aside' : q[2] = Initial[<<"hand", q[1]>>]
      BY <2>5 DEF Theirs
    <3>4. HandFilesKept'
      <4> SUFFICES ASSUME NEW m \in Names, Initial[<<"hand", m>>] # NoFile
                   PROVE  \/ disk'[<<"hand", m>>] = Initial[<<"hand", m>>]
                          \/ <<m, Initial[<<"hand", m>>]>> \in aside'
        BY DEF HandFilesKept
      <4>1. CASE m = n
        BY <3>2, <4>1
      <4>2. CASE m # n
        BY <2>5, <3>1, <3>2, <4>2 DEF Theirs, HandFilesKept
      <4> QED BY <4>1, <4>2
    <3> QED BY <3>2, <3>3, <3>4 DEF Theirs
  <2> QED BY <2>3, <2>4, <2>5
<1>8. CASE (\E n \in Names : PointDNS(n)) \/ Restart \/ UNCHANGED vars
  BY <1>1, <1>8 DEF PointDNS, Restart, vars, world
<1> QED BY <1>2, <1>3, <1>4, <1>5, <1>6, <1>7, <1>8 DEF Next, Step, Retry, Quiet

\* Nothing written by hand is ever lost: it is where it was, or aside as it was.
THEOREM HandWrittenFilesStay == Spec => []HandFilesKept
<1>1. Init => Typed /\ Theirs
  <2>1. Init => Theirs
    BY DEF Init, Theirs, HandFilesKept
  <2> QED BY <2>1, InitFine
<1>2. Typed /\ Theirs /\ [Next]_vars => (Typed /\ Theirs)'
  BY NextFine, NextTheirs
<1>3. Typed /\ Theirs => HandFilesKept
  BY DEF Theirs
<1> QED BY <1>1, <1>2, <1>3, PTL DEF Spec

\* The three together, where an alias cannot be removed.
THEOREM NothingBreaksNginx == "unalias" \notin Kinds => (Spec => []RoutesInv)
<1> SUFFICES ASSUME "unalias" \notin Kinds PROVE Spec => []RoutesInv
  OBVIOUS
<1>1. Spec => []TypeOK
  BY FilesAreWellFormed
<1>2. Spec => []HandFilesKept
  BY HandWrittenFilesStay
<1>3. Spec => []NginxStarts
  BY NginxAlwaysStarts
<1>4. TypeOK /\ HandFilesKept /\ NginxStarts => RoutesInv
  BY DEF RoutesInv
<1> QED BY <1>1, <1>2, <1>3, <1>4, PTL

----------------------------------------------------------------------------
(* What croft wrote is what nginx serves, for requests that come one at a time.  *)

OneAtATime == \A i, j \in Requests : i = j

\* A file that says c waits for no reload, when l is loaded.
Settles(c, l) == c # NoFile => c.by = "edited" \/ l = c

\* Only the file that is being tested waits, and what would be put back in it, or
\* in the place of the file that was taken over, does not.
Waits(x) ==
  /\ \A f \in Files : (x.at = "test" /\ f = Vhost(x.file)) \/ Settles(disk[f], loaded[f])
  /\ x.at = "test" /\ x.file # NoName => Settles(x.before, loaded[Vhost(x.file)])
  /\ TakingOver(x)
  /\ x.op = "takeover" /\ x.at \in {"write", "test"} =>
       x.file = x.name /\ Settles(Initial[<<"hand", x.name>>], loaded[<<"hand", x.name>>])

AllSettled == \A f \in Files : Settles(disk[f], loaded[f])

Calm ==
  /\ (\A j \in Requests : job[j].at # "test") => AllSettled
  /\ \A j \in Requests : Waits(job[j])
  /\ crashes = 0

\* A step of the one request there is.
LEMMA CalmStep ==
  ASSUME OneAtATime, Typed, NEW j \in Requests, NEW step \in Request, Turn(j, step),
         Waits(step)', crashes' = crashes, Calm
  PROVE  Calm'
<1>1. job'[j] = step /\ \A i \in Requests : i = j
  BY TurnIs DEF OneAtATime
<1>2. (\A i \in Requests : job'[i].at # "test") => AllSettled'
  BY <1>1 DEF Waits, AllSettled
<1>3. (\A i \in Requests : Waits(job[i]))'
  BY <1>1 DEF Waits
<1>4. crashes' = 0
  BY DEF Calm
<1> QED BY <1>2, <1>3, <1>4 DEF Calm

LEMMA CalmIdle ==
  ASSUME OneAtATime, Typed, NEW j \in Requests, Over(j), AllSettled', crashes' = crashes, Calm
  PROVE  Calm'
<1>1. Waits(Idle)'
  BY IdleIs DEF Waits, AllSettled, TakingOver
<1> QED BY <1>1, CalmStep, IdleIs DEF Over

LEMMA SettledBut ==
  ASSUME Calm, NEW j \in Requests
  PROVE  /\ \A f \in Files : (job[j].at = "test" /\ f = Vhost(job[j].file)) \/ Settles(disk[f], loaded[f])
         /\ job[j].at # "test" => AllSettled
         /\ job[j].at = "test" /\ job[j].file # NoName
              => Settles(job[j].before, loaded[Vhost(job[j].file)])
         /\ crashes = 0
BY DEF Calm, Waits, AllSettled

LEMMA QuietCalm ==
  ASSUME OneAtATime, Typed, Calm, NEW j \in Requests, Quiet(j)
  PROVE  Calm'
<1>1. UNCHANGED world
  BY QuietGood
<1>2. PICK step : Turn(j, step) /\ Good(j, step)
  BY QuietGood
<1>3. job[j].at # "test"
  BY DEF Quiet, AskAnything, CanAsk, Accepted, WriteRoute, RemoveRoute, AddAlias, RemoveAlias,
         TakeOverDomain, EnableTLS, Expose, Accept, CertifyAlias, CheckReach, NotIssued, CutShort,
         RetryNext
<1>4. AllSettled'
  BY <1>1, <1>3, SettledBut DEF AllSettled, world
<1>5. Waits(step)'
  <2>1. TakingOver(job[j])
    BY DEF Calm, Waits
  <2>2. step.at # "test" /\ TakingOver(step) /\ ~(step.op = "takeover" /\ step.at = "write")
    BY <1>2, <2>1 DEF Good, TakingOver
  <2> QED BY <1>4, <2>2 DEF Waits, AllSettled
<1>6. crashes' = crashes
  <2>1. CASE AskAnything(j)
    <3>1. \E op, n, g, r : Ask(j, op, n, g, r)
      BY <2>1 DEF AskAnything, AskAddRoute, AskEditRoute, AskSetPath, AskServiceDomain,
                  AskRemovePath, AskRemoveRoute, AskTakeOver, AskEnableTLS, AskExpose,
                  AskAddAlias, AskRemoveAlias
    <3> QED BY <3>1 DEF Ask
  <2>2. CASE ~AskAnything(j)
    BY <2>2 DEF Quiet, Accepted, WriteRoute, RemoveRoute, AddAlias, RemoveAlias,
         TakeOverDomain, EnableTLS, Expose, CertifyAlias, CheckReach, NotIssued, CutShort,
         RetryNext, Stay, counts
  <2> QED BY <2>1, <2>2
<1> QED BY <1>2, <1>5, <1>6, CalmStep DEF Good

LEMMA IssuedCalm ==
  ASSUME OneAtATime, Typed, Calm, NEW j \in Requests, Issued(j)
  PROVE  Calm'
<1> DEFINE x == job[j]
<1>1. x.at = "issue" /\ UNCHANGED <<disk, loaded>> /\ crashes' = crashes
  BY DEF Issued, counts
<1>2. x \in Request /\ x.op # "takeover"
  BY <1>1, AskedIs DEF Calm, Waits, TakingOver
<1>3. PICK y \in Request : Turn(j, y) /\ y.op = x.op /\ y.at = "write"
  <2>1. Turn(j, SetAt(x, "write"))
    BY Zenon DEF Issued, SetAt
  <2>2. SetAt(x, "write") \in Request /\ SetAt(x, "write").op = x.op /\ SetAt(x, "write").at = "write"
    BY <1>2 DEF SetAt, Request, Steps
  <2> QED BY <2>1, <2>2
<1>4. AllSettled'
  BY <1>1, SettledBut DEF AllSettled
<1>5. Waits(y)'
  BY <1>2, <1>3, <1>4 DEF Waits, AllSettled, TakingOver
<1> QED BY <1>1, <1>3, <1>5, CalmStep

LEMMA ReloadCalm ==
  ASSUME OneAtATime, Typed, Calm, NEW j \in Requests, Reload(j)
  PROVE  Calm'
<1> DEFINE x == job[j]
<1>1. x.at = "test" /\ loaded' = disk /\ disk' = disk /\ crashes' = crashes
  BY DEF Reload, counts
<1>2. AllSettled'
  BY <1>1 DEF AllSettled, Settles
<1>3. CASE x.then = "over"
  BY <1>1, <1>2, <1>3, CalmIdle DEF Reload
<1>4. CASE x.then # "over"
  <2>1. x \in Request /\ x.then \in {"secure", "drop", "retire", "reach", "rm"} /\ x.op # "takeover"
    BY <1>1, <1>4, AskedIs DEF Thens, Calm, Waits, TakingOver
  <2>2. PICK y \in Request : Turn(j, y) /\ y.op = x.op /\ y.at = x.then
    <3>1. Turn(j, SetAt(x, x.then))
      BY <1>4, Zenon DEF Reload, SetAt
    <3>2. SetAt(x, x.then) \in Request /\ SetAt(x, x.then).op = x.op /\ SetAt(x, x.then).at = x.then
      BY <2>1 DEF SetAt, Request, Steps
    <3> QED BY <3>1, <3>2
  <2>3. Waits(y)'
    BY <1>2, <2>1, <2>2 DEF Waits, AllSettled, TakingOver
  <2> QED BY <1>1, <2>2, <2>3, CalmStep
<1> QED BY <1>3, <1>4

LEMMA OtherCalm ==
  ASSUME OneAtATime, Typed, Calm, NEW j \in Requests, DropCertificate(j) \/ Retire(j)
  PROVE  Calm'
<1>1. job[j].at # "test" /\ UNCHANGED <<disk, loaded>> /\ crashes' = crashes /\ Over(j)
  BY DEF DropCertificate, Retire, counts
<1>2. AllSettled'
  BY <1>1, SettledBut DEF AllSettled
<1> QED BY <1>1, <1>2, CalmIdle

LEMMA WriteVhostCalm ==
  ASSUME OneAtATime, Typed, Calm, NEW j \in Requests, WriteVhost(j)
  PROVE  Calm'
<1> DEFINE x == job[j]
<1> DEFINE f == Vhost(x.file)
<1> DEFINE b == disk[f]
<1>1. x.at = "write" /\ loaded' = loaded /\ crashes' = crashes
      /\ disk' = [disk EXCEPT ![f] = x.route]
  BY DEF WriteVhost, counts
<1>2. x \in Request /\ x.file \in Names /\ disk \in Disks
  BY <1>1, AskedIs DEF Typed, Placed
<1>3. f \in Files /\ b \in Contents \cup {NoFile}
  BY <1>2, FilesAre DEF Disks
<1>4. PICK y \in Request : Turn(j, y) /\ y.op = x.op /\ y.at = "test" /\ y.file = x.file
                           /\ y.before = b /\ y.name = x.name /\ y.then = x.then
  <2> DEFINE z == SetBefore(SetAt(x, "test"), b)
  <2>1. Turn(j, z)
    BY Zenon DEF WriteVhost, SetAt, SetBefore
  <2>2. z \in Request /\ z.op = x.op /\ z.at = "test" /\ z.file = x.file /\ z.before = b
        /\ z.name = x.name /\ z.then = x.then
    <3> HIDE DEF b
    <3> QED BY <1>2, <1>3 DEF SetBefore, SetAt, Request, Steps
  <2> HIDE DEF z
  <2> QED BY <2>1, <2>2
<1>5. AllSettled
  BY <1>1, SettledBut
<1>6. \A g \in Files \ {f} : disk'[g] = disk[g]
  BY <1>1, <1>2 DEF Disks
<1>7. Settles(b, loaded[f])
  BY <1>3, <1>5 DEF AllSettled
<1>8. TakingOver(x)
      /\ (x.op = "takeover" => x.file = x.name
            /\ Settles(Initial[<<"hand", x.name>>], loaded[<<"hand", x.name>>]))
  BY <1>1 DEF Calm, Waits
<1>9. Waits(y)'
  <2>1. \A g \in Files : g = Vhost(y.file) \/ Settles(disk'[g], loaded'[g])
    BY <1>1, <1>4, <1>5, <1>6 DEF AllSettled
  <2>2. Settles(y.before, loaded'[Vhost(y.file)])
    BY <1>1, <1>4, <1>7
  <2>3. y.op = "takeover" => y.file = y.name
                             /\ Settles(Initial[<<"hand", y.name>>], loaded'[<<"hand", y.name>>])
    BY <1>1, <1>4, <1>8
  <2>4. TakingOver(y)
    BY <1>1, <1>4, <1>8 DEF TakingOver
  <2> QED BY <1>4, <2>1, <2>2, <2>3, <2>4 DEF Waits
<1> QED BY <1>1, <1>4, <1>9, CalmStep

LEMMA RemoveVhostCalm ==
  ASSUME OneAtATime, Typed, Calm, NEW j \in Requests, RemoveVhost(j)
  PROVE  Calm'
<1> DEFINE x == job[j]
<1>1. x.at = "rm" /\ loaded' = loaded /\ crashes' = crashes
      /\ disk' = [disk EXCEPT ![Vhost(x.name)] = NoFile]
  BY DEF RemoveVhost, counts
<1>2. x \in Request /\ disk \in Disks /\ x.op # "takeover"
  BY <1>1, AskedIs DEF Calm, Waits, TakingOver
<1>3. PICK y \in Request : Turn(j, y) /\ y.op = x.op /\ y.at = "test" /\ y.file = NoName
  <2> DEFINE z == SetThen(SetFile(SetAt(x, "test"), NoName), "over")
  <2>1. Turn(j, z)
    BY Zenon DEF RemoveVhost, SetAt, SetFile, SetThen
  <2>2. z \in Request /\ z.op = x.op /\ z.at = "test" /\ z.file = NoName
    BY <1>2 DEF SetThen, SetFile, SetAt, Request, Steps, Thens
  <2> HIDE DEF z
  <2> QED BY <2>1, <2>2
<1>4. AllSettled
  BY <1>1, SettledBut
<1>5. \A g \in Files : disk'[g] = disk[g] \/ disk'[g] = NoFile
  BY <1>1, <1>2 DEF Disks
<1>6. \A g \in Files : Settles(disk'[g], loaded'[g])
  BY <1>1, <1>4, <1>5 DEF AllSettled, Settles
<1>7. Waits(y)'
  BY <1>2, <1>3, <1>6 DEF Waits, TakingOver
<1> QED BY <1>1, <1>3, <1>7, CalmStep

LEMMA MoveAsideCalm ==
  ASSUME OneAtATime, Typed, Theirs, Calm, NEW j \in Requests, MoveAside(j)
  PROVE  Calm'
<1> DEFINE x == job[j]
<1> DEFINE h == <<"hand", x.name>>
<1>1. x.at = "move" /\ loaded' = loaded /\ crashes' = crashes
  BY DEF MoveAside, counts
<1>2. AllSettled
  BY <1>1, SettledBut
<1>3. x \in Request /\ x.name \in Names /\ disk \in Disks /\ h \in Files
  BY <1>1, AskedIs, FilesAre
<1>4. CASE disk[h] = NoFile
  <2>1. Over(j) /\ disk' = disk
    BY <1>4 DEF MoveAside
  <2>2. AllSettled'
    BY <1>1, <1>2, <2>1 DEF AllSettled
  <2> QED BY <1>1, <2>1, <2>2, CalmIdle
<1>5. CASE disk[h] # NoFile
  <2>1. Turn(j, Writing(j, x.name, x.route, "over")) /\ disk' = [disk EXCEPT ![h] = NoFile]
    BY <1>5 DEF MoveAside
  <2>2. disk[h] = Initial[h]
    BY <1>3, <1>5 DEF Theirs
  <2>3. Settles(Initial[h], loaded'[h])
    BY <1>1, <1>2, <1>3, <2>2 DEF AllSettled
  <2>4. \A g \in Files : disk'[g] = disk[g] \/ disk'[g] = NoFile
    BY <1>3, <2>1 DEF Disks
  <2>5. \A g \in Files : Settles(disk'[g], loaded'[g])
    BY <1>1, <1>2, <2>4 DEF AllSettled, Settles
  <2>6. PICK y \in Request : Turn(j, y) /\ y.op = x.op /\ y.at = "write" /\ y.name = x.name
                             /\ y.file = x.name /\ y.then = "over"
    <3> DEFINE z == Req(x.op, "write", x.name, x.arg, Marked(x.route), x.name, x.before, "over")
    <3>1. Marked(x.route) \in Contents
      BY <1>1, AskedIs, MarkedIs
    <3>2. z \in Request /\ z.op = x.op /\ z.at = "write" /\ z.name = x.name /\ z.file = x.name
          /\ z.then = "over"
      BY <1>1, <3>1, AskedIs DEF Req, Request, Steps, Thens
    <3>3. Writing(j, x.name, x.route, "over") = z
      BY <1>3, WritingIs
    <3> HIDE DEF z
    <3> QED BY <2>1, <3>2, <3>3
  <2>7. Waits(y)'
    BY <2>3, <2>5, <2>6 DEF Waits, TakingOver
  <2> QED BY <1>1, <2>6, <2>7, CalmStep
<1> QED BY <1>4, <1>5

LEMMA RefusedCalm ==
  ASSUME OneAtATime, Typed, Calm, NEW j \in Requests, Refused(j)
  PROVE  Calm'
<1> DEFINE x == job[j]
<1>1. x.at = "test" /\ loaded' = loaded /\ crashes' = crashes /\ Over(j) /\ disk' = PutBack(j)
  BY DEF Refused, counts
<1>2. x.file \in Names \cup {NoName} /\ disk \in Disks
  BY <1>1, AskedIs
<1>3. \A f \in Files : f = Vhost(x.file) \/ Settles(disk[f], loaded[f])
  BY <1>1, SettledBut
<1>4. CASE x.file = NoName
  <2>1. \A f \in Files : f # Vhost(x.file)
    BY <1>4, RoutesAssumption DEF Files, Vhost
  <2> QED BY <1>1, <1>3, <1>4, <2>1, CalmIdle DEF PutBack, AllSettled
<1>5. CASE x.file # NoName
  <2> DEFINE f == Vhost(x.file)
  <2> DEFINE b == x.before
  <2>1. disk' = [disk EXCEPT ![f] = b]
    BY <1>1, <1>5 DEF PutBack
  <2>2. Settles(b, loaded[f])
    BY <1>1, <1>5, SettledBut
  <2>3. \A g \in Files : (g = f /\ disk'[g] = b) \/ (g # f /\ disk'[g] = disk[g])
    BY <1>2, <2>1 DEF Disks
  <2>4. AllSettled'
    BY <1>1, <1>3, <2>2, <2>3 DEF AllSettled
  <2> QED BY <1>1, <2>4, CalmIdle
<1> QED BY <1>4, <1>5

LEMMA RefusedTakeOverCalm ==
  ASSUME OneAtATime, Typed, Theirs, Calm, NEW j \in Requests, RefusedTakeOver(j)
  PROVE  Calm'
<1> DEFINE x == job[j]
<1> DEFINE n == x.name
<1> DEFINE h == <<"hand", n>>
<1> DEFINE own == [disk EXCEPT ![Vhost(n)] = NoFile]
<1>1. x.at = "test" /\ x.op = "takeover" /\ loaded' = loaded /\ crashes' = crashes /\ Over(j)
  BY DEF RefusedTakeOver, counts
<1>2. x.file = n /\ Settles(Initial[h], loaded[h])
  BY <1>1 DEF Calm, Waits
<1>3. \A f \in Files : f = Vhost(n) \/ Settles(disk[f], loaded[f])
  BY <1>1, <1>2, SettledBut
<1>4. n \in Names /\ disk \in Disks
  BY <1>1, AskedIs
<1>5. own \in Disks /\ \A f \in Files : Settles(own[f], loaded[f])
  <2>1. own \in Disks /\ \A f \in Files : (f = Vhost(n) /\ own[f] = NoFile) \/ (f # Vhost(n) /\ own[f] = disk[f])
    BY <1>4, FilesAre DEF Disks
  <2> HIDE DEF own
  <2> QED BY <1>3, <2>1 DEF Settles
<1>6. \/ disk' = own
      \/ \E p \in aside : p[1] = n /\ disk' = [own EXCEPT ![h] = p[2]]
  <2>1. PICK cancelled \in Cancels : PutOriginalBack(j, cancelled)
    BY DEF RefusedTakeOver
  <2> QED BY <2>1 DEF PutOriginalBack
<1> HIDE DEF own
<1>7. CASE disk' = own
  BY <1>1, <1>5, <1>7, CalmIdle DEF AllSettled
<1>8. ASSUME NEW p \in aside, p[1] = n, disk' = [own EXCEPT ![h] = p[2]]
      PROVE  Calm'
  <2>1. p[2] = Initial[h]
    BY <1>8 DEF Theirs
  <2>2. \A f \in Files : (f = h /\ disk'[f] = Initial[h]) \/ (f # h /\ disk'[f] = own[f])
    BY <1>5, <1>8, <2>1 DEF Disks
  <2> HIDE DEF h
  <2>3. AllSettled'
    BY <1>1, <1>2, <1>5, <2>2 DEF AllSettled
  <2> QED BY <1>1, <2>3, CalmIdle
<1> QED BY <1>6, <1>7, <1>8

LEMMA HandEditCalm ==
  ASSUME Typed, Calm, NEW n \in Names, NEW t \in Targets, HandEdit(n, t)
  PROVE  Calm'
<1> DEFINE f == Vhost(n)
<1>1. UNCHANGED <<loaded, job, crashes>> /\ f \in Files /\ disk \in Disks /\ disk[f] \in Contents
  BY FilesAre, TypedIs, HandEdited DEF WorldTyped
<1>2. \A g \in Files : (g = f /\ disk'[g].by = "edited") \/ (g # f /\ disk'[g] = disk[g])
  <2>1. PICK c \in Contents : disk' = [disk EXCEPT ![f] = c] /\ c.by = "edited"
    BY HandEdited
  <2> HIDE DEF f
  <2> QED BY <1>1, <2>1 DEF Disks
<1>3. \A g \in Files : Settles(disk[g], loaded[g]) => Settles(disk'[g], loaded'[g])
  BY <1>1, <1>2 DEF Settles
<1>4. AllSettled => AllSettled'
  BY <1>3 DEF AllSettled
<1>5. ASSUME NEW j \in Requests PROVE (Waits(job[j]))'
  <2>1. Waits(job[j])
    BY DEF Calm
  <2> QED BY <1>1, <1>3, <2>1 DEF Waits
<1> QED BY <1>1, <1>4, <1>5 DEF Calm

LEMMA NextCalm ==
  ASSUME OneAtATime, MaxCrashes = 0, Typed, Theirs, Calm, [Next]_vars
  PROVE  Calm'
<1>1. ASSUME NEW j \in Requests, AskAnything(j) \/ Accepted(j) \/ Step(j) \/ Issued(j)
                                 \/ Reload(j) \/ RetryNext(j)
      PROVE  Calm'
  BY <1>1, QuietCalm, MoveAsideCalm, WriteVhostCalm, RemoveVhostCalm, RefusedCalm,
     RefusedTakeOverCalm, OtherCalm, IssuedCalm, ReloadCalm DEF Step, Quiet
<1>2. ASSUME UNCHANGED <<disk, loaded, job, crashes>> PROVE Calm'
  <2>1. \A j \in Requests : (Waits(job[j]))'
    BY <1>2 DEF Calm, Waits
  <2> QED BY <1>2, <2>1 DEF Calm, AllSettled
<1>3. ASSUME NEW j \in Requests, RetryLook(j) PROVE Calm'
  BY <1>2, <1>3 DEF RetryLook, world
<1>4. ASSUME NEW n \in Names, PointDNS(n) PROVE Calm'
  BY <1>2, <1>4 DEF PointDNS, world
<1>5. CASE UNCHANGED vars
  BY <1>2, <1>5 DEF vars
<1>6. ~Restart
  BY DEF Restart, Calm
<1> QED BY <1>1, <1>3, <1>4, <1>5, <1>6, HandEditCalm DEF Next, Retry

\* With one request at a time, whatever it is, refused, cancelled or not, and
\* whoever edits by hand meanwhile, nothing that croft wrote is left to be loaded
\* by somebody else's reload. Two requests, or a restart between a write and its
\* reload, are enough to break it.
THEOREM WhatIsWrittenIsServed ==
  (\A i, j \in Requests : i = j) /\ MaxCrashes = 0 => (Spec => []NothingPending)
<1> SUFFICES ASSUME OneAtATime, MaxCrashes = 0 PROVE Spec => []NothingPending
  BY DEF OneAtATime
<1>1. Init => Typed /\ Theirs /\ Calm
  <2>1. Init => Theirs
    BY DEF Init, Theirs, HandFilesKept
  <2>2. Init => AllSettled
    BY DEF Init, AllSettled, Settles
  <2>3. ASSUME Init PROVE \A j \in Requests : Waits(job[j])
    BY <2>2, <2>3, IdleIs DEF Init, Waits, AllSettled, TakingOver
  <2> QED BY <2>1, <2>2, <2>3, InitFine DEF Calm, Init
<1>2. Typed /\ Theirs /\ Calm /\ [Next]_vars => (Typed /\ Theirs /\ Calm)'
  BY NextFine, NextTheirs, NextCalm
<1>3. Typed /\ Theirs /\ Calm => NothingPending
  BY DEF Calm, AllSettled, Settles, NothingPending
<1> QED BY <1>1, <1>2, <1>3, PTL DEF Spec
----------------------------------------------------------------------------
(* What is read of a disk where one file was written.                           *)

\* What a file that says c, called after n, claims, and over which certificate.
NamesFrom(c, n) == IF c = NoFile THEN {} ELSE {n} \cup DOMAIN c.aliases
CertFrom(c, n, m) == IF m = n THEN c.cert ELSE c.aliases[m]

Put(d, f, c) == [d EXCEPT ![f] = c]

LEMMA PutReads ==
  ASSUME NEW d \in Disks, NEW f \in Files, NEW c \in Contents \cup {NoFile}
  PROVE  /\ Put(d, f, c) \in Disks
         /\ Put(d, f, c)[f] = c /\ \A g \in Files \ {f} : Put(d, f, c)[g] = d[g]
         /\ NamesIn(Put(d, f, c), f) = NamesFrom(c, f[2])
         /\ \A g \in Files \ {f} : NamesIn(Put(d, f, c), g) = NamesIn(d, g)
         /\ \A n : CertIn(Put(d, f, c), f, n) = CertFrom(c, f[2], n)
         /\ \A n : \A g \in Files \ {f} : CertIn(Put(d, f, c), g, n) = CertIn(d, g, n)
<1> DEFINE e == Put(d, f, c)
<1>1. e \in Disks /\ e[f] = c /\ \A g \in Files \ {f} : e[g] = d[g]
  BY PutFile DEF Put
<1> HIDE DEF e
<1> QED BY <1>1 DEF NamesIn, CertIn, NamesFrom, CertFrom, e

\* Two disks whose files claim the same names over the same certificates.
Same(d, e) ==
  \A f \in Files : NamesIn(e, f) = NamesIn(d, f)
                   /\ \A n \in NamesIn(d, f) : CertIn(e, f, n) = CertIn(d, f, n)

LEMMA SameClaims ==
  ASSUME NEW d, NEW e, Same(d, e)
  PROVE  /\ \A n : Claims(e, n) = Claims(d, n) /\ FileOf(e, n) = FileOf(d, n)
         /\ Served(e) = Served(d)
<1>1. \A n : Claims(e, n) = Claims(d, n)
  BY DEF Claims, Same
<1> QED BY <1>1 DEF FileOf, Served

LEMMA SamePut ==
  ASSUME NEW d \in Disks, NEW e \in Disks, Same(d, e), NEW f \in Files,
         NEW c \in Contents \cup {NoFile}
  PROVE  Same(Put(d, f, c), Put(e, f, c))
BY PutReads DEF Same

\* What is written twice in one place is what was written last; what is put back is
\* what was there.
LEMMA PutAgain ==
  ASSUME NEW d \in Disks, NEW f \in Files, NEW c \in Contents \cup {NoFile},
         NEW b \in Contents \cup {NoFile}
  PROVE  /\ Same(Put(d, f, b), Put(Put(d, f, c), f, b))
         /\ Same(d, Put(Put(d, f, c), f, d[f]))
<1> DEFINE e == Put(d, f, c)
<1>1. e \in Disks /\ (\A g \in Files \ {f} : NamesIn(e, g) = NamesIn(d, g))
      /\ \A n : \A g \in Files \ {f} : CertIn(e, g, n) = CertIn(d, g, n)
  BY PutReads
<1>2. d[f] \in Contents \cup {NoFile}
  BY DEF Disks
<1> HIDE DEF e
<1>3. Same(Put(d, f, b), Put(e, f, b))
  BY <1>1, PutReads DEF Same
<1>4. Same(d, Put(e, f, d[f]))
  <2>1. NamesIn(d, f) = NamesFrom(d[f], f[2]) /\ \A n : CertIn(d, f, n) = CertFrom(d[f], f[2], n)
    BY DEF NamesIn, CertIn, NamesFrom, CertFrom
  <2> DEFINE k == d[f]
  <2> DEFINE r == Put(e, f, k)
  <2>2. k \in Contents \cup {NoFile}
    BY <1>2
  <2> HIDE DEF k
  <2>3. /\ NamesIn(r, f) = NamesFrom(k, f[2])
        /\ \A g \in Files \ {f} : NamesIn(r, g) = NamesIn(e, g)
        /\ \A n : CertIn(r, f, n) = CertFrom(k, f[2], n)
        /\ \A n : \A g \in Files \ {f} : CertIn(r, g, n) = CertIn(e, g, n)
    BY <1>1, <2>2, PutReads
  <2> HIDE DEF r
  <2>4. Same(d, r)
    <3> SUFFICES ASSUME NEW g \in Files
                 PROVE  NamesIn(r, g) = NamesIn(d, g)
                        /\ \A n \in NamesIn(d, g) : CertIn(r, g, n) = CertIn(d, g, n)
      BY DEF Same
    <3>1. CASE g = f
      BY <2>1, <2>3, <3>1 DEF k
    <3>2. CASE g # f
      BY <1>1, <2>3, <3>2
    <3> QED BY <3>1, <3>2
  <2> QED BY <2>4 DEF r, k
<1> QED BY <1>3, <1>4 DEF e

\* The first of some files is the first of fewer of them, if it is still there.
LEMMA FirstIs ==
  ASSUME NEW F \in SUBSET Files
  PROVE  /\ \A f \in F : (\A g \in F : Listed(f, g)) => First(F) = f
         /\ F # {} => First(F) \in F /\ \A g \in F : Listed(First(F), g)
<1>1. \A f, g \in Files : Listed(f, g) /\ Listed(g, f) => f = g
  <2>1. \A f \in Files : f = <<f[1], f[2]>> /\ f[1] \in {"croft", "hand"} /\ f[2] \in Names
    BY DEF Files
  <2>2. \A m \in Names : Rank[m] \in Nat
    BY VhostsAssumption
  <2> QED BY <2>1, <2>2 DEF Listed, Before
<1>2. ASSUME NEW f \in F, \A g \in F : Listed(f, g)
      PROVE  First(F) = f
  <2>1. \E h \in F : \A g \in F : Listed(h, g)
    BY <1>2
  <2>2. First(F) \in F /\ \A g \in F : Listed(First(F), g)
    BY <2>1 DEF First
  <2> QED BY <1>1, <1>2, <2>2
<1>3. ASSUME F # {} PROVE \E f \in F : \A g \in F : Listed(f, g)
  <2> DEFINE R == {p \in Files \X Files : Listed(p[2], p[1])}
  <2>1. IsFiniteSet(F)
    BY FilesAreFinite, FS_Subset
  <2>2. \A x, y \in Files : <<x, y>> \in R <=> Listed(y, x)
    OBVIOUS
  <2> HIDE DEF R
  <2>3. \E x \in F : \A y \in F : <<y, x>> \in R
    BY <1>3, <2>1, <2>2, ListedOrders, HasGreatest
  <2> QED BY <2>2, <2>3
<1> QED BY <1>2, <1>3

LEMMA ReadFrom ==
  ASSUME NEW d, NEW n
  PROVE  /\ Claims(d, n) \subseteq Files
         /\ \A f : f \in Claims(d, n) <=> f \in Files /\ n \in NamesIn(d, f)
         /\ Claims(d, n) # {} => FileOf(d, n) \in Claims(d, n)
                                 /\ \A g \in Claims(d, n) : Listed(FileOf(d, n), g)
         /\ \A f \in Claims(d, n) : (\A g \in Claims(d, n) : Listed(f, g)) => FileOf(d, n) = f
         /\ \A f : Claims(d, n) = {f} => FileOf(d, n) = f
<1>1. Claims(d, n) \in SUBSET Files /\ \A f : f \in Claims(d, n) <=> f \in Files /\ n \in NamesIn(d, f)
  BY DEF Claims
<1> QED BY <1>1, FirstIs DEF FileOf

----------------------------------------------------------------------------
(* What a request is about to do, in terms of what is read from the disk.         *)

RouteOps == {"add", "edit", "path", "service"}
AliasNames(d, n) == {m \in Names : AliasOf(d, m, n)}
Ours(d, n) == IsDomain(d, n) /\ StateOf(d, n) # "unmanaged"

\* The other names of a route are those read of n, with what was read of them.
ReadAliases(d, n, r) ==
  DOMAIN r.aliases = AliasNames(d, n) /\ \A m \in AliasNames(d, n) : r.aliases[m] = CertOf(d, m)

Same3(x, y) == y.op = x.op /\ y.name = x.name /\ y.arg = x.arg

AskedFor(d, y) ==
  /\ y.at = "asked" /\ y.op \in Kinds /\ y.file = NoName /\ y.then = "over"
  /\ y.op \in {"add", "service"} =>
       ~IsDomain(d, y.name) /\ y.route.cert = NoCert /\ DOMAIN y.route.aliases = {}
  /\ y.op \in {"edit", "path"} =>
       Ours(d, y.name) /\ y.route.cert = CertOf(d, y.name) /\ ReadAliases(d, y.name, y.route)

WritesAsked(x, y) ==
  /\ x.at = "asked" /\ x.op \in RouteOps /\ Same3(x, y) /\ y.at = "write" /\ y.file = x.name
  /\ y.route.cert = x.route.cert /\ y.route.aliases = x.route.aliases
  /\ y.then \in {"over", "secure"}

\* The alias that takes over is over https if the route was and any of them is.
Promotes(d, x, y) ==
  LET n == x.name
      S == AliasNames(d, n) IN
  /\ x.at = "asked" /\ x.op = "remove" /\ Same3(x, y) /\ Ours(d, n)
  /\ y.at = "write" /\ y.then = "rm" /\ y.file \in S
  /\ y.route.cert = IF CertOf(d, n) = NoCert THEN NoCert ELSE CertOf(d, y.file)
  /\ DOMAIN y.route.aliases = S \ {y.file}
  /\ \A m \in S \ {y.file} : y.route.aliases[m] = CertOf(d, m)
  /\ (\E m \in S : (CertOf(d, m) # NoCert) = (CertOf(d, n) # NoCert)) =>
       (CertOf(d, y.file) # NoCert) = (CertOf(d, n) # NoCert)

Removes(d, x, y) ==
  /\ x.at = "asked" /\ x.op = "remove" /\ Same3(x, y) /\ y.at = "rm" /\ Ours(d, x.name)
  /\ ~(Managed(d, x.name) /\ AliasNames(d, x.name) # {})

\* A name joins a route: over the wildcard, or over http and then it is looked for.
Joins(d, x, y) ==
  LET n == x.name
      a == x.arg
      S == AliasNames(d, n) IN
  /\ x.at = "asked" /\ x.op = "alias" /\ Same3(x, y) /\ y.at = "write" /\ y.file = n
  /\ Managed(d, n) /\ a # n /\ ~IsDomain(d, a)
  /\ a \in S => CertOf(d, a) = NoCert
  /\ \A m \in Domains(d) \ {n} : ~AliasOf(d, a, m)
  /\ y.route.cert = CertOf(d, n) /\ DOMAIN y.route.aliases = S \cup {a}
  /\ \A m \in S \ {a} : y.route.aliases[m] = CertOf(d, m)
  /\ y.route.aliases[a] \in {Wildcard, NoCert} /\ y.then \in {"over", "reach"}

Leaves(d, x, y) ==
  LET n == x.name
      S == AliasNames(d, n) \ {x.arg} IN
  /\ x.at = "asked" /\ x.op = "unalias" /\ Same3(x, y) /\ y.at = "write" /\ y.file = n
  /\ Managed(d, n) /\ AliasOf(d, x.arg, n)
  /\ y.route.cert = CertOf(d, n) /\ DOMAIN y.route.aliases = S
  /\ \A m \in S : y.route.aliases[m] = CertOf(d, m)
  /\ y.then \in {"over", "drop"}

TakesOver(d, x, y) ==
  LET n == x.name IN
  /\ x.at = "asked" /\ x.op = "takeover" /\ Same3(x, y) /\ y.at = "move"
  /\ IsDomain(d, n) /\ StateOf(d, n) = "unmanaged" /\ TargetOf(d, n) # NoTarget
  /\ \A m \in Domains(d) \ {n} : FileOf(d, m) # FileOf(d, n)
  /\ y.route.cert = CertOf(d, n) /\ DOMAIN y.route.aliases = {}

\* The certificate of somebody else's is retired when no other domain reads it.
Secures(d, x, y) ==
  LET n == x.name IN
  /\ y.op = "tls" /\ y.name = n /\ y.at \in {"write", "issue", "reach"} /\ y.file = n
  /\ Ours(d, n) /\ y.route.cert = CertFor(n) /\ ReadAliases(d, n, y.route)
  /\ y.then = "over" \/ /\ y.then = "retire" /\ CertOf(d, n) = Certbot(y.arg)
                        /\ \A m \in Domains(d) \ {n} : CertOf(d, m) # Certbot(y.arg)

Exposes(d, x, y) ==
  /\ x.at = "asked" /\ x.op = "expose" /\ Same3(x, y) /\ y.at = "issue" /\ y.file = x.name
  /\ IsDomain(d, x.name) => StateOf(d, x.name) # "unmanaged"
  /\ y.route.cert = Own(x.name) /\ DOMAIN y.route.aliases = {} /\ y.then = "over"

Certifies(d, x, y) ==
  LET n == x.name
      a == x.arg
      S == AliasNames(d, n) IN
  /\ x.at = "reach" /\ x.op # "tls" /\ Same3(x, y) /\ y.at \in {"write", "issue"} /\ y.file = n
  /\ Managed(d, n)
  /\ y.route.cert = CertOf(d, n) /\ DOMAIN y.route.aliases = S \cup {a}
  /\ \A m \in S \ {a} : y.route.aliases[m] = CertOf(d, m)
  /\ y.route.aliases[a] = CertFor(a) /\ y.then = "over"

Reached(x, y) ==
  /\ x.at = "reach" /\ x.op = "tls" /\ Same3(x, y) /\ y.at = "issue"
  /\ y.file = x.file /\ y.route = x.route /\ y.then = x.then

Retries(y) == y.at = "reach" /\ y.op = "retry" /\ y.file = NoName /\ y.then = "over"

Planned(d, x, y) ==
  \/ y = Idle \/ AskedFor(d, y) \/ WritesAsked(x, y) \/ Promotes(d, x, y) \/ Removes(d, x, y)
  \/ Joins(d, x, y) \/ Leaves(d, x, y) \/ TakesOver(d, x, y) \/ Secures(d, x, y)
  \/ Exposes(d, x, y) \/ Certifies(d, x, y) \/ Reached(x, y)

LEMMA JobIs ==
  ASSUME Typed, NEW j \in Requests, NEW s, Turn(j, s)
  PROVE  job'[j] = s
BY DEF Turn, Typed

LEMMA ReqIs ==
  ASSUME NEW y, NEW o, NEW a, NEW n, NEW g, NEW r, NEW f, NEW b, NEW t,
         y = Req(o, a, n, g, r, f, b, t)
  PROVE  /\ y.op = o /\ y.at = a /\ y.name = n /\ y.arg = g /\ y.route = r /\ y.file = f
         /\ y.before = b /\ y.then = t
BY DEF Req

LEMMA MarkedAs == ASSUME NEW r PROVE Marked(r).cert = r.cert /\ Marked(r).aliases = r.aliases
BY DEF Marked

LEMMA ReadIs ==
  ASSUME NEW d \in Disks, NEW n
  PROVE  /\ FindByDomain(d, n) \in Routed /\ FindByDomain(d, n).cert = CertOf(d, n)
         /\ ReadAliases(d, n, FindByDomain(d, n))
<1>1. FindByDomain(d, n).aliases = [a \in AliasNames(d, n) |-> CertOf(d, a)]
  BY FoundIs DEF AliasNames
<1>2. ReadAliases(d, n, FindByDomain(d, n))
  BY <1>1 DEF ReadAliases
<1> QED BY <1>2, FoundIs

\* What the changes make of a route.
LEMMA ChangedIs ==
  ASSUME NEW r \in Routed, NEW n \in Names, NEW c \in Certs, NEW t \in Targets \cup {NoTarget}
  PROVE  /\ WithAlias(r, n, c).cert = r.cert /\ WithoutAlias(r, n).cert = r.cert
         /\ DOMAIN WithAlias(r, n, c).aliases = (DOMAIN r.aliases) \cup {n}
         /\ \A m \in (DOMAIN r.aliases) \ {n} : WithAlias(r, n, c).aliases[m] = r.aliases[m]
         /\ WithAlias(r, n, c).aliases[n] = c
         /\ DOMAIN WithoutAlias(r, n).aliases = (DOMAIN r.aliases) \ {n}
         /\ \A m \in (DOMAIN r.aliases) \ {n} : WithoutAlias(r, n).aliases[m] = r.aliases[m]
         /\ [r EXCEPT !.to = t].cert = r.cert /\ [r EXCEPT !.to = t].aliases = r.aliases
         /\ [r EXCEPT !.path = t].cert = r.cert /\ [r EXCEPT !.path = t].aliases = r.aliases
         /\ [r EXCEPT !.cert = c].cert = c /\ [r EXCEPT !.cert = c].aliases = r.aliases
         /\ [r EXCEPT !.aliases = NoAliases].cert = r.cert
         /\ [r EXCEPT !.aliases = NoAliases].aliases = NoAliases
<1> DEFINE more == [m \in (DOMAIN r.aliases) \cup {n} |-> IF m = n THEN c ELSE r.aliases[m]]
<1> DEFINE less == [m \in (DOMAIN r.aliases) \ {n} |-> r.aliases[m]]
<1>1. /\ DOMAIN more = (DOMAIN r.aliases) \cup {n} /\ DOMAIN less = (DOMAIN r.aliases) \ {n}
      /\ \A m \in DOMAIN more : more[m] = IF m = n THEN c ELSE r.aliases[m]
      /\ \A m \in DOMAIN less : less[m] = r.aliases[m]
  OBVIOUS
<1>2. WithAlias(r, n, c) = [r EXCEPT !.aliases = more] /\ WithoutAlias(r, n) = [r EXCEPT !.aliases = less]
  BY DEF WithAlias, WithoutAlias
<1> HIDE DEF more, less
<1>3. /\ \A a : [r EXCEPT !.aliases = a].aliases = a /\ [r EXCEPT !.aliases = a].cert = r.cert
      /\ [r EXCEPT !.to = t].cert = r.cert /\ [r EXCEPT !.to = t].aliases = r.aliases
      /\ [r EXCEPT !.path = t].cert = r.cert /\ [r EXCEPT !.path = t].aliases = r.aliases
      /\ [r EXCEPT !.cert = c].cert = c /\ [r EXCEPT !.cert = c].aliases = r.aliases
  BY DEF Routed
<1> QED BY <1>1, <1>2, <1>3

\* Asking: a route is prepared, or nothing yet.
LEMMA AskPlanned ==
  ASSUME Typed, NEW j \in Requests, NEW op, NEW n, NEW g, NEW r, Ask(j, op, n, g, r),
         op \in {"add", "service"} => ~IsDomain(disk, n) /\ r.cert = NoCert /\ DOMAIN r.aliases = {},
         op \in {"edit", "path"} => Ours(disk, n) /\ r.cert = CertOf(disk, n) /\ ReadAliases(disk, n, r)
  PROVE  AskedFor(disk, job'[j])
<1> DEFINE y == Req(op, "asked", n, g, r, NoName, NoFile, "over")
<1>1. Turn(j, SetRoute(SetArg(SetName(SetAt(SetOp(Idle, op), "asked"), n), g), r))
  BY Zenon DEF Ask, Turn, SetRoute, SetArg, SetName, SetAt, SetOp
<1>2. job'[j] = y
  <2>1. SetRoute(SetArg(SetName(SetAt(SetOp(Idle, op), "asked"), n), g), r) = y
    BY IdleIs
  <2> HIDE DEF y
  <2> QED BY <1>1, <2>1, JobIs
<1>3. y.op = op /\ y.at = "asked" /\ y.name = n /\ y.route = r /\ y.file = NoName /\ y.then = "over"
  BY ReqIs
<1> HIDE DEF y
<1>4. op \in Kinds
  BY DEF Ask
<1> QED BY <1>2, <1>3, <1>4 DEF AskedFor

LEMMA AskAnythingPlanned ==
  ASSUME Typed, NEW j \in Requests, AskAnything(j)
  PROVE  AskedFor(disk, job'[j])
<1>1. disk \in Disks
  BY DEF Typed, TypeOK, Disks
<1>2. ASSUME NEW op \in {"remove", "takeover", "tls", "expose", "alias", "unalias"}, NEW n, NEW g, NEW r,
             Ask(j, op, n, g, r)
      PROVE  AskedFor(disk, job'[j])
  BY <1>2, AskPlanned
<1>3. ASSUME NEW n, NEW t, NEW op \in {"add", "service"}, NEW r \in PrepareAdd(n, t), Ask(j, op, n, NoName, r)
      PROVE  AskedFor(disk, job'[j])
  <2>1. ~IsDomain(disk, n) /\ r = Marked(Route(t, NoTarget, NoCert, NoAliases))
    BY <1>3 DEF PrepareAdd
  <2>2. r.cert = NoCert /\ r.aliases = NoAliases
    BY <2>1 DEF Marked, Route
  <2> QED BY <1>3, <2>1, <2>2, AliasesAre, AskPlanned
<1>4. ASSUME NEW n, NEW op \in {"edit", "path"}, NEW q, Ours(disk, n), Ask(j, op, n, NoName, Marked(q)),
             q.cert = FindByDomain(disk, n).cert, q.aliases = FindByDomain(disk, n).aliases
      PROVE  AskedFor(disk, job'[j])
  <2> DEFINE r == Marked(q)
  <2>1. r.cert = CertOf(disk, n) /\ ReadAliases(disk, n, r)
    BY <1>1, <1>4, ReadIs, MarkedAs DEF ReadAliases
  <2> HIDE DEF r
  <2>2. Ask(j, op, n, NoName, r)
    BY <1>4 DEF r
  <2> QED BY <1>4, <2>1, <2>2, AskPlanned
<1>5. ASSUME NEW n \in Names, NEW t \in Targets \cup {NoTarget}
      PROVE  LET r == FindByDomain(disk, n) IN
             /\ [r EXCEPT !.to = t].cert = r.cert /\ [r EXCEPT !.to = t].aliases = r.aliases
             /\ [r EXCEPT !.path = t].cert = r.cert /\ [r EXCEPT !.path = t].aliases = r.aliases
  <2> DEFINE r == FindByDomain(disk, n)
  <2>1. r \in Routed
    BY <1>1, ReadIs
  <2> HIDE DEF r
  <2>2. /\ [r EXCEPT !.to = t].cert = r.cert /\ [r EXCEPT !.to = t].aliases = r.aliases
        /\ [r EXCEPT !.path = t].cert = r.cert /\ [r EXCEPT !.path = t].aliases = r.aliases
    BY <1>5, <2>1, ChangedIs, CertsAre
  <2> QED BY <2>2 DEF r
<1>6. \A n : Managed(disk, n) => Ours(disk, n)
  BY DEF Managed, Ours
<1>7. ASSUME NEW n \in Names, NEW t \in Targets, AskAddRoute(j, n, t)
      PROVE  AskedFor(disk, job'[j])
  BY <1>3, <1>7 DEF AskAddRoute
<1>8. ASSUME NEW n \in Names, NEW t \in Targets, AskEditRoute(j, n, t)
      PROVE  AskedFor(disk, job'[j])
  <2> DEFINE q == [FindByDomain(disk, n) EXCEPT !.to = t]
  <2>1. Ask(j, "edit", n, NoName, Marked(q)) /\ Ours(disk, n)
    BY <1>8, Zenon DEF AskEditRoute, PrepareEdit, Ours
  <2>2. q.cert = FindByDomain(disk, n).cert /\ q.aliases = FindByDomain(disk, n).aliases
    BY <1>5
  <2> HIDE DEF q
  <2> QED BY <1>4, <2>1, <2>2
<1>9. ASSUME NEW n \in Names, NEW t \in Targets, AskSetPath(j, n, t)
      PROVE  AskedFor(disk, job'[j])
  <2> DEFINE q == [FindByDomain(disk, n) EXCEPT !.path = t]
  <2>1. Ask(j, "path", n, NoName, Marked(q)) /\ Managed(disk, n)
    BY <1>9, Zenon DEF AskSetPath, PrepareSet, WithPath
  <2>2. q.cert = FindByDomain(disk, n).cert /\ q.aliases = FindByDomain(disk, n).aliases
    BY <1>5
  <2> HIDE DEF q
  <2> QED BY <1>4, <1>6, <2>1, <2>2
<1>10. ASSUME NEW n \in Names, AskRemovePath(j, n)
       PROVE  AskedFor(disk, job'[j])
  <2> DEFINE q == [FindByDomain(disk, n) EXCEPT !.path = NoTarget]
  <2>1. Ask(j, "path", n, NoName, Marked(q)) /\ Managed(disk, n)
    BY <1>10, Zenon DEF AskRemovePath, PrepareRemove, WithoutPath
  <2>2. q.cert = FindByDomain(disk, n).cert /\ q.aliases = FindByDomain(disk, n).aliases
    BY <1>5
  <2> HIDE DEF q
  <2> QED BY <1>4, <1>6, <2>1, <2>2
<1>11. ASSUME NEW n \in Names, NEW t \in Targets, AskServiceDomain(j, n, t)
       PROVE  AskedFor(disk, job'[j])
  <2>1. CASE \E e \in EntryRoutes(t) : Ask(j, "alias", e, n, Idle.route)
    BY <1>2, <2>1
  <2>2. CASE \E r \in PrepareAdd(n, t) : Ask(j, "service", n, NoName, r)
    BY <1>3, <2>2
  <2> QED BY <1>11, <2>1, <2>2 DEF AskServiceDomain
<1>12. ASSUME NEW n \in Names, \/ AskRemoveRoute(j, n) \/ AskTakeOver(j, n)
                               \/ AskEnableTLS(j, n) \/ AskExpose(j, n)
       PROVE  AskedFor(disk, job'[j])
  BY <1>2, <1>12 DEF AskRemoveRoute, AskTakeOver, AskEnableTLS, AskExpose
<1>13. ASSUME NEW n \in Names, NEW a \in Names, AskAddAlias(j, n, a) \/ AskRemoveAlias(j, n, a)
       PROVE  AskedFor(disk, job'[j])
  BY <1>2, <1>13 DEF AskAddAlias, AskRemoveAlias
<1> QED BY <1>7, <1>8, <1>9, <1>10, <1>11, <1>12, <1>13 DEF AskAnything

\* What a request that is to write holds.
LEMMA WritingPlanned ==
  ASSUME Typed, NEW j \in Requests, job[j].at # "idle", NEW n, NEW r, NEW t,
         Turn(j, Writing(j, n, r, t))
  PROVE  LET y == job'[j] IN
         /\ Same3(job[j], y) /\ y.at = "write" /\ y.file = n /\ y.then = t
         /\ y.route.cert = r.cert /\ y.route.aliases = r.aliases
<1> DEFINE x == job[j]
<1> DEFINE y == job'[j]
<1> DEFINE c == Marked(r)
<1>1. y = Req(x.op, "write", x.name, x.arg, c, n, x.before, t)
  <2>1. Writing(j, n, r, t) = Req(x.op, "write", x.name, x.arg, c, n, x.before, t)
    BY AskedIs, WritingIs
  <2>2. y = Writing(j, n, r, t)
    BY JobIs
  <2> QED BY <2>1, <2>2
<1>2. c.cert = r.cert /\ c.aliases = r.aliases
  BY MarkedAs
<1> HIDE DEF c, y
<1>3. y.op = x.op /\ y.at = "write" /\ y.name = x.name /\ y.arg = x.arg /\ y.route = c
      /\ y.file = n /\ y.then = t
  BY <1>1, ReqIs
<1> QED BY <1>2, <1>3 DEF Same3, y

LEMMA WriteRoutePlanned ==
  ASSUME Typed, NEW j \in Requests, WriteRoute(j)
  PROVE  WritesAsked(job[j], job'[j])
<1> DEFINE x == job[j]
<1> DEFINE t == IF x.op = "service" THEN "secure" ELSE "over"
<1>1. x.at = "asked" /\ x.op \in RouteOps
  BY DEF WriteRoute, Accept, RouteOps
<1>2. Turn(j, Writing(j, x.name, x.route, t))
  BY DEF WriteRoute
<1>3. t \in {"over", "secure"}
  OBVIOUS
<1> HIDE DEF t
<1> QED BY <1>1, <1>2, <1>3, WritingPlanned DEF WritesAsked

LEMMA RemoveRoutePlanned ==
  ASSUME Typed, NEW j \in Requests, RemoveRoute(j)
  PROVE  LET y == job'[j] IN
         y = Idle \/ Promotes(disk, job[j], y) \/ Removes(disk, job[j], y)
<1> DEFINE x == job[j]
<1> DEFINE n == x.name
<1> DEFINE r == FindByDomain(disk, n)
<1>1. x.at = "asked" /\ x.op = "remove"
  BY DEF RemoveRoute, Accept
<1>2. disk \in Disks /\ x \in Request
  BY <1>1, AskedIs
<1>3. r \in Routed /\ r.cert = CertOf(disk, n) /\ ReadAliases(disk, n, r)
      /\ DOMAIN r.aliases = AliasNames(disk, n)
  BY <1>2, ReadIs DEF ReadAliases
<1>4. CASE ~Listing \/ ~Removable(n)
  BY <1>4, JobIs DEF RemoveRoute, Over
<1>5. CASE Ours(disk, n) /\ Managed(disk, n) /\ DOMAIN r.aliases # {}
           /\ Turn(j, Writing(j, Successor(r), Promoted(r), "rm"))
  <2> DEFINE s == Successor(r)
  <2> DEFINE q == Promoted(r)
  <2> DEFINE w == WithoutAlias(r, s)
  <2> DEFINE c == IF r.cert = NoCert THEN NoCert ELSE r.aliases[s]
  <2> DEFINE a == r.aliases
  <2>1. /\ s \in Names /\ s \in DOMAIN a /\ q = [w EXCEPT !.cert = c]
        /\ (\E m \in DOMAIN a : (a[m] # NoCert) = (r.cert # NoCert))
             => (a[s] # NoCert) = (r.cert # NoCert)
    <3> HIDE DEF r
    <3> QED BY <1>3, <1>5, PromotedIs
  <2>2. c \in Certs
    <3>1. a \in Aliases
      BY <1>3 DEF Routed
    <3> HIDE DEF a
    <3>2. a[s] \in Certs
      BY <2>1, <3>1, AliasesAre
    <3> QED BY <3>2, CertsAre DEF a
  <2>3. /\ w \in Routed /\ DOMAIN w.aliases = (DOMAIN a) \ {s}
        /\ \A m \in (DOMAIN a) \ {s} : w.aliases[m] = a[m]
    <3>1. NoTarget \in Targets \cup {NoTarget} /\ NoCert \in Certs
      BY CertsAre
    <3>2. r \in Routed /\ s \in Names
      BY <1>3, <2>1
    <3> HIDE DEF r, s
    <3>3. w \in Routed
      BY <3>1, <3>2, WithAliasIs
    <3>4. /\ DOMAIN w.aliases = (DOMAIN r.aliases) \ {s}
          /\ \A m \in (DOMAIN r.aliases) \ {s} : w.aliases[m] = r.aliases[m]
      BY <3>1, <3>2, ChangedIs
    <3> QED BY <3>3, <3>4
  <2>4. q.cert = c /\ q.aliases = w.aliases
    <3>1. NoTarget \in Targets \cup {NoTarget}
      OBVIOUS
    <3> HIDE DEF w, c, q, s
    <3> QED BY <2>1, <2>2, <2>3, <3>1, ChangedIs
  <2> DEFINE y == job'[j]
  <2>5. /\ Same3(x, y) /\ y.at = "write" /\ y.file = s /\ y.then = "rm"
        /\ y.route.cert = c /\ y.route.aliases = w.aliases
    <3> HIDE DEF q, s, y
    <3> QED BY <1>1, <1>5, <2>4, WritingPlanned DEF q, s, y
  <2>6. \A m \in AliasNames(disk, n) : a[m] = CertOf(disk, m)
    BY <1>3 DEF ReadAliases
  <2>7. y.route.cert = IF CertOf(disk, n) = NoCert THEN NoCert ELSE CertOf(disk, s)
    <3> HIDE DEF r, s, y
    <3> QED BY <1>3, <2>1, <2>5, <2>6
  <2> HIDE DEF r, s, w, c, q, y, a
  <2>8. /\ DOMAIN y.route.aliases = AliasNames(disk, n) \ {s}
        /\ \A m \in AliasNames(disk, n) \ {s} : y.route.aliases[m] = CertOf(disk, m)
    BY <1>3, <2>3, <2>5, <2>6 DEF a
  <2>9. (\E m \in AliasNames(disk, n) : (CertOf(disk, m) # NoCert) = (CertOf(disk, n) # NoCert))
          => (CertOf(disk, s) # NoCert) = (CertOf(disk, n) # NoCert)
    BY <1>3, <2>1, <2>6 DEF a
  <2>10. s \in AliasNames(disk, n)
    BY <1>3, <2>1 DEF a
  <2> QED BY <1>1, <1>5, <2>5, <2>7, <2>8, <2>9, <2>10 DEF Promotes, y
<1>6. CASE Ours(disk, n) /\ ~(Managed(disk, n) /\ DOMAIN r.aliases # {})
           /\ Turn(j, [x EXCEPT !.at = "rm"])
  <2>1. job'[j] = SetAt(x, "rm")
    BY <1>6, JobIs, Zenon DEF SetAt
  <2>2. job'[j] = Req(x.op, "rm", x.name, x.arg, x.route, x.file, x.before, x.then)
    BY <1>2, <2>1, GoesOnIs
  <2> DEFINE y == job'[j]
  <2> HIDE DEF y
  <2>3. y.op = x.op /\ y.at = "rm" /\ y.name = x.name /\ y.arg = x.arg
    BY <2>2, ReqIs DEF y
  <2> HIDE DEF r
  <2> QED BY <1>1, <1>3, <1>6, <2>3 DEF Removes, Same3, y
<1> QED BY <1>4, <1>5, <1>6 DEF RemoveRoute, Removable, Ours

LEMMA AddAliasPlanned ==
  ASSUME Typed, NEW j \in Requests, AddAlias(j)
  PROVE  job'[j] = Idle \/ Joins(disk, job[j], job'[j])
<1> DEFINE x == job[j]
<1> DEFINE y == job'[j]
<1> DEFINE n == x.name
<1> DEFINE a == x.arg
<1> DEFINE r == FindByDomain(disk, n)
<1>1. x.at = "asked" /\ x.op = "alias"
  BY DEF AddAlias, Accept
<1>2. disk \in Disks /\ x \in Request /\ n \in Names /\ a \in Names
  BY <1>1, AskedIs
<1>3. r \in Routed /\ r.cert = CertOf(disk, n) /\ ReadAliases(disk, n, r)
      /\ DOMAIN r.aliases = AliasNames(disk, n)
  BY <1>2, ReadIs DEF ReadAliases
<1>4. CASE ~Listing \/ ~AliasAddition(n, a)
  BY <1>4, JobIs DEF AddAlias, Over
<1>5. ASSUME AliasAddition(n, a), NEW c \in {Wildcard, NoCert}, NEW t \in {"over", "reach"},
             Turn(j, Writing(j, n, WithAlias(r, a, c), t))
      PROVE  Joins(disk, x, y)
  <2> DEFINE w == WithAlias(r, a, c)
  <2>1. /\ w.cert = r.cert /\ DOMAIN w.aliases = (DOMAIN r.aliases) \cup {a}
        /\ (\A m \in (DOMAIN r.aliases) \ {a} : w.aliases[m] = r.aliases[m]) /\ w.aliases[a] = c
    <3>1. NoTarget \in Targets \cup {NoTarget} /\ c \in Certs
      BY CertsAre
    <3> HIDE DEF r, a
    <3> QED BY <1>2, <1>3, <3>1, ChangedIs
  <2> HIDE DEF w
  <2>2. /\ Same3(x, y) /\ y.at = "write" /\ y.file = n /\ y.then = t
        /\ y.route.cert = w.cert /\ y.route.aliases = w.aliases
    <3> HIDE DEF y
    <3> QED BY <1>1, <1>5, WritingPlanned DEF w, y
  <2> HIDE DEF y
  <2>3. /\ y.route.cert = CertOf(disk, n) /\ DOMAIN y.route.aliases = AliasNames(disk, n) \cup {a}
        /\ \A m \in AliasNames(disk, n) \ {a} : y.route.aliases[m] = CertOf(disk, m)
        /\ y.route.aliases[a] = c
    BY <1>3, <2>1, <2>2 DEF ReadAliases
  <2>4. /\ Managed(disk, n) /\ a # n /\ ~IsDomain(disk, a)
        /\ (a \in AliasNames(disk, n) => CertOf(disk, a) = NoCert)
        /\ \A m \in Domains(disk) \ {n} : ~AliasOf(disk, a, m)
    BY <1>3, <1>5 DEF AliasAddition
  <2> HIDE DEF r
  <2> QED BY <1>1, <1>5, <2>2, <2>3, <2>4 DEF Joins
<1>6. CASE Listing /\ AliasAddition(n, a)
  <2>1. CASE r.cert # NoCert /\ a \in Covered
    <3>1. Turn(j, Writing(j, n, WithAlias(r, a, Wildcard), "over"))
      BY <1>6, <2>1 DEF AddAlias
    <3> QED BY <1>5, <1>6, <3>1
  <2>2. CASE ~(r.cert # NoCert /\ a \in Covered)
    <3> DEFINE t == IF r.cert = NoCert THEN "over" ELSE "reach"
    <3>1. Turn(j, Writing(j, n, WithAlias(r, a, NoCert), t)) /\ t \in {"over", "reach"}
      BY <1>6, <2>2 DEF AddAlias
    <3> HIDE DEF t
    <3> QED BY <1>5, <1>6, <3>1
  <2> QED BY <2>1, <2>2
<1> QED BY <1>4, <1>6, <1>5

LEMMA RemoveAliasPlanned ==
  ASSUME Typed, NEW j \in Requests, RemoveAlias(j)
  PROVE  job'[j] = Idle \/ Leaves(disk, job[j], job'[j])
<1> DEFINE x == job[j]
<1> DEFINE y == job'[j]
<1> DEFINE n == x.name
<1> DEFINE a == x.arg
<1> DEFINE r == FindByDomain(disk, n)
<1> DEFINE t == IF r.aliases[a] = Own(a) THEN "drop" ELSE "over"
<1>1. x.at = "asked" /\ x.op = "unalias"
  BY DEF RemoveAlias, Accept
<1>2. disk \in Disks /\ x \in Request /\ n \in Names /\ a \in Names
  BY <1>1, AskedIs
<1>3. r \in Routed /\ r.cert = CertOf(disk, n) /\ ReadAliases(disk, n, r)
      /\ DOMAIN r.aliases = AliasNames(disk, n)
  BY <1>2, ReadIs DEF ReadAliases
<1>4. CASE ~Listing \/ ~AliasRemoval(n, a)
  BY <1>4, JobIs DEF RemoveAlias, Over
<1>5. CASE AliasRemoval(n, a) /\ Turn(j, Writing(j, n, WithoutAlias(r, a), t))
  <2> DEFINE w == WithoutAlias(r, a)
  <2>1. /\ w.cert = r.cert /\ DOMAIN w.aliases = (DOMAIN r.aliases) \ {a}
        /\ \A m \in (DOMAIN r.aliases) \ {a} : w.aliases[m] = r.aliases[m]
    <3>1. NoTarget \in Targets \cup {NoTarget} /\ NoCert \in Certs
      BY CertsAre
    <3> HIDE DEF r, a
    <3> QED BY <1>2, <1>3, <3>1, ChangedIs
  <2> HIDE DEF w
  <2>2. /\ Same3(x, y) /\ y.at = "write" /\ y.file = n /\ y.then = t
        /\ y.route.cert = w.cert /\ y.route.aliases = w.aliases
    <3> HIDE DEF y, t
    <3> QED BY <1>1, <1>5, WritingPlanned DEF w, y
  <2>3. t \in {"over", "drop"}
    OBVIOUS
  <2> HIDE DEF y, t
  <2>4. /\ y.route.cert = CertOf(disk, n) /\ DOMAIN y.route.aliases = AliasNames(disk, n) \ {a}
        /\ \A m \in AliasNames(disk, n) \ {a} : y.route.aliases[m] = CertOf(disk, m)
    BY <1>3, <2>1, <2>2 DEF ReadAliases
  <2>5. Managed(disk, n) /\ AliasOf(disk, a, n)
    BY <1>5 DEF AliasRemoval
  <2> HIDE DEF r
  <2> QED BY <1>1, <2>2, <2>3, <2>4, <2>5 DEF Leaves, y
<1> QED BY <1>4, <1>5 DEF RemoveAlias

LEMMA TakeOverPlanned ==
  ASSUME Typed, NEW j \in Requests, TakeOverDomain(j)
  PROVE  job'[j] = Idle \/ TakesOver(disk, job[j], job'[j])
<1> DEFINE x == job[j]
<1> DEFINE y == job'[j]
<1> DEFINE n == x.name
<1> DEFINE r == FindByDomain(disk, n)
<1> DEFINE q == [r EXCEPT !.aliases = NoAliases]
<1> DEFINE c == Marked(q)
<1>1. x.at = "asked" /\ x.op = "takeover"
  BY DEF TakeOverDomain, Accept
<1>2. disk \in Disks /\ x \in Request /\ n \in Names
  BY <1>1, AskedIs
<1>3. r \in Routed /\ r.cert = CertOf(disk, n)
  BY <1>2, ReadIs
<1>4. CASE ~Listing \/ ~TakeOver(n)
  BY <1>4, JobIs DEF TakeOverDomain, Over
<1>5. CASE TakeOver(n) /\ Turn(j, [x EXCEPT !.at = "move", !.route = c])
  <2>1. q.cert = r.cert /\ q.aliases = NoAliases
    <3>1. NoTarget \in Targets \cup {NoTarget} /\ NoCert \in Certs
      BY CertsAre
    <3> HIDE DEF r, n
    <3> QED BY <1>2, <1>3, <3>1, ChangedIs
  <2> HIDE DEF q
  <2>2. c.cert = q.cert /\ c.aliases = q.aliases
    BY MarkedAs
  <2>3. c.cert = CertOf(disk, n) /\ DOMAIN c.aliases = {}
    <3> HIDE DEF r, c
    <3> QED BY <1>3, <2>1, <2>2, AliasesAre
  <2> HIDE DEF c
  <2>4. y = SetRoute(SetAt(x, "move"), c)
    BY <1>5, JobIs, Zenon DEF SetAt, SetRoute
  <2>5. y = Req(x.op, "move", x.name, x.arg, c, x.file, x.before, x.then)
    BY <1>2, <2>4, MovingIs
  <2> HIDE DEF y
  <2>6. y.op = x.op /\ y.at = "move" /\ y.name = x.name /\ y.arg = x.arg /\ y.route = c
    BY <2>5, ReqIs
  <2> HIDE DEF r
  <2> QED BY <1>1, <1>5, <2>3, <2>6 DEF TakesOver, Same3, TakeOver, y
<1> QED BY <1>4, <1>5 DEF TakeOverDomain

LEMMA EnableTLSPlanned ==
  ASSUME Typed, NEW j \in Requests, EnableTLS(j)
  PROVE  job'[j] = Idle \/ Secures(disk, job[j], job'[j])
<1> DEFINE x == job[j]
<1> DEFINE y == job'[j]
<1> DEFINE n == x.name
<1>1. x.at \in {"asked", "secure"}
  BY DEF EnableTLS, Accept
<1>2. disk \in Disks /\ x \in Request /\ n \in Names
  BY <1>1, AskedIs
<1>3. CASE ~Listing \/ ~TLSChange(n)
  BY <1>3, JobIs DEF EnableTLS, Over
<1>4. ASSUME TLSChange(n), NEW challenge \in {"http", "dns"}, Turn(j, Securing(j, n, challenge))
      PROVE  Secures(disk, x, y)
  <2> DEFINE found == FindByDomain(disk, n)
  <2> DEFINE r == [found EXCEPT !.cert = CertFor(n)]
  <2> DEFINE g == IF Retirable(n) = {} THEN NoName ELSE CHOOSE m \in Retirable(n) : TRUE
  <2> DEFINE t == IF Retirable(n) = {} THEN "over" ELSE "retire"
  <2> DEFINE a == IF n \in Covered THEN "write" ELSE IF challenge = "dns" THEN "issue" ELSE "reach"
  <2> DEFINE c == Marked(r)
  <2>1. found \in Routed /\ ReadAliases(disk, n, found)
    BY <1>2, ReadIs
  <2>2. r.cert = CertFor(n) /\ r.aliases = found.aliases
    <3>1. NoTarget \in Targets \cup {NoTarget} /\ CertFor(n) \in Certs
      BY <1>2, CertsAre
    <3> HIDE DEF found, n
    <3> QED BY <1>2, <2>1, <3>1, ChangedIs
  <2>3. Securing(j, n, challenge) = Req("tls", a, n, g, c, n, x.before, t)
    <3>1. Securing(j, n, challenge) = SetAt(SetArg(SetOp(Writing(j, n, r, t), "tls"), g), a)
      BY Zenon DEF Securing, SetAt, SetArg, SetOp
    <3> HIDE DEF r, t, g, a
    <3> QED BY <1>2, <3>1, SecuringIs
  <2>4. a \in {"write", "issue", "reach"}
    OBVIOUS
  <2>5. t = "over" \/ /\ t = "retire" /\ CertOf(disk, n) = Certbot(g)
                      /\ \A m \in Domains(disk) \ {n} : CertOf(disk, m) # Certbot(g)
    <3>1. CASE Retirable(n) # {}
      <4>1. g \in Retirable(n)
        BY <3>1
      <4> HIDE DEF g
      <4> QED BY <3>1, <4>1 DEF Retirable
    <3> QED BY <3>1
  <2> HIDE DEF g, t, a, r
  <2>6. c.cert = CertFor(n) /\ ReadAliases(disk, n, c)
    BY <2>1, <2>2, MarkedAs DEF ReadAliases
  <2>7. y = Securing(j, n, challenge)
    BY <1>4, JobIs
  <2> HIDE DEF c
  <2>8. y = Req("tls", a, n, g, c, n, x.before, t)
    BY <2>3, <2>7
  <2> HIDE DEF y
  <2>9. y.op = "tls" /\ y.at = a /\ y.name = n /\ y.arg = g /\ y.route = c /\ y.file = n /\ y.then = t
    BY <2>8, ReqIs
  <2>10. Ours(disk, n)
    BY <1>4 DEF TLSChange, Ours
  <2> QED BY <2>4, <2>5, <2>6, <2>9, <2>10 DEF Secures
<1> QED BY <1>3, <1>4 DEF EnableTLS

LEMMA ExposePlanned ==
  ASSUME Typed, NEW j \in Requests, Expose(j)
  PROVE  job'[j] = Idle \/ Exposes(disk, job[j], job'[j])
<1> DEFINE x == job[j]
<1> DEFINE y == job'[j]
<1> DEFINE n == x.name
<1> DEFINE r == Route(Loopback, NoTarget, Own(n), NoAliases)
<1> DEFINE c == Marked(r)
<1>1. x.at = "asked" /\ x.op = "expose"
  BY DEF Expose, Accept
<1>2. x \in Request
  BY <1>1, AskedIs
<1>3. CASE ~Listing \/ ~Exposable(n)
  BY <1>3, JobIs DEF Expose, Over
<1>4. CASE Exposable(n) /\ Turn(j, [Writing(j, n, r, "over") EXCEPT !.at = "issue"])
  <2>1. r.cert = Own(n) /\ r.aliases = NoAliases
    BY DEF Route
  <2>2. c.cert = Own(n) /\ DOMAIN c.aliases = {}
    <3> HIDE DEF r
    <3> QED BY <2>1, MarkedAs, AliasesAre
  <2> HIDE DEF r
  <2>3. SetAt(Writing(j, n, r, "over"), "issue") = Req(x.op, "issue", x.name, x.arg, c, n, x.before, "over")
    BY <1>2, IssueIs
  <2>4. y = SetAt(Writing(j, n, r, "over"), "issue")
    BY <1>4, JobIs, Zenon DEF SetAt
  <2> HIDE DEF c, y
  <2>5. y.op = x.op /\ y.at = "issue" /\ y.name = x.name /\ y.arg = x.arg /\ y.route = c
        /\ y.file = n /\ y.then = "over"
    BY <2>3, <2>4, ReqIs
  <2> QED BY <1>1, <1>4, <2>2, <2>5 DEF Exposes, Same3, Exposable, y
<1> QED BY <1>3, <1>4 DEF Expose

LEMMA CertifyAliasPlanned ==
  ASSUME Typed, NEW j \in Requests, CertifyAlias(j)
  PROVE  job'[j] = Idle \/ Certifies(disk, job[j], job'[j])
<1> DEFINE x == job[j]
<1> DEFINE y == job'[j]
<1> DEFINE n == x.name
<1> DEFINE a == x.arg
<1> DEFINE r == FindByDomain(disk, n)
<1> DEFINE w == WithAlias(r, a, CertFor(a))
<1>1. x.at = "reach" /\ x.op \in {"alias", "retry"}
  BY DEF CertifyAlias
<1>2. disk \in Disks /\ x \in Request /\ n \in Names /\ a \in Names
  BY <1>1, AskedIs
<1>3. r \in Routed /\ r.cert = CertOf(disk, n) /\ ReadAliases(disk, n, r)
      /\ DOMAIN r.aliases = AliasNames(disk, n)
  BY <1>2, ReadIs DEF ReadAliases
<1>4. /\ w.cert = r.cert /\ DOMAIN w.aliases = (DOMAIN r.aliases) \cup {a}
      /\ (\A m \in (DOMAIN r.aliases) \ {a} : w.aliases[m] = r.aliases[m]) /\ w.aliases[a] = CertFor(a)
  <2>1. NoTarget \in Targets \cup {NoTarget} /\ CertFor(a) \in Certs
    BY <1>2, CertsAre
  <2> HIDE DEF r, a
  <2> QED BY <1>2, <1>3, <2>1, ChangedIs
<1>5. ASSUME Managed(disk, n), Same3(x, y), y.at \in {"write", "issue"}, y.file = n, y.then = "over",
             y.route.cert = w.cert, y.route.aliases = w.aliases
      PROVE  Certifies(disk, x, y)
  <2> HIDE DEF w, y
  <2>1. /\ y.route.cert = CertOf(disk, n) /\ DOMAIN y.route.aliases = AliasNames(disk, n) \cup {a}
        /\ \A m \in AliasNames(disk, n) \ {a} : y.route.aliases[m] = CertOf(disk, m)
        /\ y.route.aliases[a] = CertFor(a)
    BY <1>3, <1>4, <1>5 DEF ReadAliases
  <2>2. x.op # "tls"
    BY <1>1
  <2> HIDE DEF r
  <2> QED BY <1>1, <1>5, <2>1, <2>2 DEF Certifies
<1>6. CASE Managed(disk, n) /\ Turn(j, Writing(j, n, w, "over"))
  <2> HIDE DEF w
  <2>1. /\ Same3(x, y) /\ y.at = "write" /\ y.file = n /\ y.then = "over"
        /\ y.route.cert = w.cert /\ y.route.aliases = w.aliases
    BY <1>1, <1>6, WritingPlanned
  <2> HIDE DEF y
  <2>2. Certifies(disk, x, y)
    BY <1>5, <1>6, <2>1
  <2> QED BY <2>2 DEF y
<1>7. CASE Managed(disk, n) /\ Turn(j, [Writing(j, n, w, "over") EXCEPT !.at = "issue"])
  <2> DEFINE c == Marked(w)
  <2> HIDE DEF w
  <2>1. SetAt(Writing(j, n, w, "over"), "issue") = Req(x.op, "issue", x.name, x.arg, c, n, x.before, "over")
    BY <1>2, IssueIs
  <2>2. y = SetAt(Writing(j, n, w, "over"), "issue")
    BY <1>7, JobIs, Zenon DEF SetAt
  <2>3. c.cert = w.cert /\ c.aliases = w.aliases
    BY MarkedAs
  <2> HIDE DEF c, y
  <2>4. y.op = x.op /\ y.at = "issue" /\ y.name = x.name /\ y.arg = x.arg /\ y.route = c
        /\ y.file = n /\ y.then = "over"
    BY <2>1, <2>2, ReqIs
  <2>5. Certifies(disk, x, y)
    BY <1>5, <1>7, <2>3, <2>4 DEF Same3
  <2> QED BY <2>5 DEF y
<1>8. CASE Turn(j, Idle)
  BY <1>8, JobIs
<1> QED BY <1>6, <1>7, <1>8 DEF CertifyAlias, Over

LEMMA CheckReachPlanned ==
  ASSUME Typed, NEW j \in Requests, CheckReach(j)
  PROVE  job'[j] = Idle \/ Reached(job[j], job'[j])
<1> DEFINE x == job[j]
<1> DEFINE y == job'[j]
<1>1. x.at = "reach" /\ x.op = "tls"
  BY DEF CheckReach
<1>2. x \in Request
  BY <1>1, AskedIs
<1>3. CASE Turn(j, [x EXCEPT !.at = "issue"])
  <2>1. y = SetAt(x, "issue")
    BY <1>3, JobIs, Zenon DEF SetAt
  <2>2. y = Req(x.op, "issue", x.name, x.arg, x.route, x.file, x.before, x.then)
    BY <1>2, <2>1, GoesOnIs
  <2> HIDE DEF y
  <2>3. y.op = x.op /\ y.at = "issue" /\ y.name = x.name /\ y.arg = x.arg /\ y.route = x.route
        /\ y.file = x.file /\ y.then = x.then
    BY <2>2, ReqIs
  <2> QED BY <1>1, <2>3 DEF Reached, Same3, y
<1>4. CASE Turn(j, Idle)
  BY <1>4, JobIs
<1> QED BY <1>3, <1>4 DEF CheckReach, Over

LEMMA RetryPlanned ==
  ASSUME Typed, NEW j \in Requests, RetryNext(j)
  PROVE  j = Retrier /\ Retries(job'[j])
<1>1. PICK p \in todo : Turn(j, [Idle EXCEPT !.op = "retry", !.at = "reach", !.name = p[1],
                                             !.arg = p[2]])
  BY DEF RetryNext
<1> DEFINE n == p[1]
<1> DEFINE a == p[2]
<1> HIDE DEF n, a
<1> DEFINE y == job'[j]
<1>2. y = SetArg(SetName(SetAt(SetOp(Idle, "retry"), "reach"), n), a)
  BY <1>1, JobIs, Zenon DEF SetArg, SetName, SetAt, SetOp, n, a
<1>3. y = Req("retry", "reach", n, a, Idle.route, NoName, NoFile, "over")
  BY <1>2, IdleIs
<1> HIDE DEF y
<1>4. y.op = "retry" /\ y.at = "reach" /\ y.file = NoName /\ y.then = "over"
  BY <1>3, ReqIs
<1> QED BY <1>4 DEF Retries, RetryNext, y

\* A step that writes nothing leaves the disk, and plans.
LEMMA QuietPlanned ==
  ASSUME Typed, NEW j \in Requests, Quiet(j)
  PROVE  /\ UNCHANGED world
         /\ Planned(disk, job[j], job'[j]) \/ (j = Retrier /\ Retries(job'[j]))
         /\ Good(j, job'[j]) /\ Turn(j, job'[j]) /\ job[j].at \notin {"test", "write"}
<1>1. UNCHANGED world
  BY QuietGood
<1>2. PICK step : Turn(j, step) /\ Good(j, step)
  BY QuietGood
<1>3. Good(j, job'[j]) /\ Turn(j, job'[j])
  BY <1>2, JobIs
<1>4. job[j].at \notin {"test", "write"}
  BY DEF Quiet, AskAnything, CanAsk, Accepted, WriteRoute, RemoveRoute, AddAlias, RemoveAlias,
         TakeOverDomain, EnableTLS, Expose, Accept, CertifyAlias, CheckReach, NotIssued, CutShort,
         RetryNext
<1>5. CASE NotIssued(j) \/ CutShort(j)
  <2>1. Turn(j, Idle)
    BY <1>5 DEF NotIssued, CutShort, Over
  <2> QED BY <1>1, <1>3, <1>4, <2>1, JobIs DEF Planned
<1>6. CASE Accepted(j)
  <2>1. Planned(disk, job[j], job'[j])
    BY <1>6, WriteRoutePlanned, RemoveRoutePlanned, AddAliasPlanned, RemoveAliasPlanned,
       TakeOverPlanned, EnableTLSPlanned, ExposePlanned DEF Accepted, Planned
  <2> QED BY <1>1, <1>3, <1>4, <2>1
<1>7. CASE AskAnything(j) \/ CertifyAlias(j) \/ CheckReach(j)
  <2>1. Planned(disk, job[j], job'[j])
    BY <1>7, AskAnythingPlanned, CertifyAliasPlanned, CheckReachPlanned DEF Planned
  <2> QED BY <1>1, <1>3, <1>4, <2>1
<1>8. CASE RetryNext(j)
  BY <1>1, <1>3, <1>4, <1>8, RetryPlanned
<1> QED BY <1>5, <1>6, <1>7, <1>8 DEF Quiet

----------------------------------------------------------------------------
(* What the other steps do, and what is true of a request whatever is on disk.     *)

Gone(d, n) == Put(d, Vhost(n), NoFile)
Restored(d, n) == Put(Gone(d, n), <<"hand", n>>, Initial[<<"hand", n>>])

LEMMA IssuedIs ==
  ASSUME Typed, NEW j \in Requests, Issued(j)
  PROVE  LET x == job[j]
             y == job'[j] IN
         /\ UNCHANGED <<disk, loaded, renewing, aside, crashes>> /\ x.at = "issue" /\ Turn(j, y)
         /\ Same3(x, y) /\ y.at = "write" /\ y.file = x.file /\ y.route = x.route /\ y.then = x.then
<1> DEFINE x == job[j]
<1> DEFINE y == job'[j]
<1>1. x.at = "issue" /\ UNCHANGED <<disk, loaded, renewing, aside, crashes>>
  BY DEF Issued, counts
<1>2. x \in Request
  BY <1>1, AskedIs
<1>3. Turn(j, SetAt(x, "write"))
  BY Zenon DEF Issued, SetAt
<1>4. y = SetAt(x, "write") /\ Turn(j, y)
  BY <1>3, JobIs
<1>5. y = Req(x.op, "write", x.name, x.arg, x.route, x.file, x.before, x.then)
  BY <1>2, <1>4, GoesOnIs
<1>6. y.op = x.op /\ y.name = x.name /\ y.arg = x.arg /\ y.at = "write" /\ y.file = x.file
      /\ y.route = x.route /\ y.then = x.then
  <2> HIDE DEF y
  <2> QED BY <1>5, ReqIs
<1> HIDE DEF y
<1> QED BY <1>1, <1>4, <1>6 DEF Same3, y

LEMMA MovedIs ==
  ASSUME Typed, NEW j \in Requests, MoveAside(j)
  PROVE  LET x == job[j]
             y == job'[j]
             f == <<"hand", x.name>> IN
         /\ UNCHANGED <<loaded, renewing, crashes>> /\ x.at = "move" /\ x.name \in Names
         /\ \/ y = Idle /\ disk' = disk
            \/ /\ disk[f] # NoFile /\ disk' = Put(disk, f, NoFile)
               /\ Same3(x, y) /\ y.at = "write" /\ y.file = x.name /\ y.then = "over"
               /\ y.route.cert = x.route.cert /\ y.route.aliases = x.route.aliases
<1> DEFINE x == job[j]
<1> DEFINE f == <<"hand", x.name>>
<1>1. x.at = "move" /\ UNCHANGED <<loaded, renewing, crashes>>
  BY DEF MoveAside, counts
<1>2. x.name \in Names
  BY <1>1, AskedIs
<1>3. CASE disk[f] = NoFile
  <2>1. Turn(j, Idle) /\ disk' = disk
    BY <1>3 DEF MoveAside, Over
  <2> QED BY <1>1, <1>2, <2>1, JobIs
<1>4. CASE disk[f] # NoFile
  <2>1. Turn(j, Writing(j, x.name, x.route, "over")) /\ disk' = Put(disk, f, NoFile)
    BY <1>4 DEF MoveAside, Put
  <2>2. LET y == job'[j] IN
        /\ Same3(x, y) /\ y.at = "write" /\ y.file = x.name /\ y.then = "over"
        /\ y.route.cert = x.route.cert /\ y.route.aliases = x.route.aliases
    BY <1>1, <2>1, WritingPlanned
  <2> QED BY <1>1, <1>2, <1>4, <2>1, <2>2
<1> QED BY <1>3, <1>4

LEMMA WroteIs ==
  ASSUME Typed, NEW j \in Requests, WriteVhost(j)
  PROVE  LET x == job[j]
             y == job'[j]
             f == Vhost(x.file) IN
         /\ UNCHANGED <<loaded, renewing, crashes>> /\ x.at = "write" /\ x.file \in Names
         /\ f \in Files /\ x.route \in Contents /\ disk' = Put(disk, f, x.route)
         /\ Same3(x, y) /\ y.at = "test" /\ y.file = x.file /\ y.route = x.route
         /\ y.then = x.then /\ y.before = disk[f]
<1> DEFINE x == job[j]
<1> DEFINE y == job'[j]
<1> DEFINE b == disk[Vhost(x.file)]
<1>1. x.at = "write" /\ UNCHANGED <<loaded, renewing, crashes>> /\ disk' = Put(disk, Vhost(x.file), x.route)
  BY DEF WriteVhost, counts, Put
<1>2. x \in Request /\ x.file \in Names /\ x.route \in Contents /\ Vhost(x.file) \in Files
  BY <1>1, AskedIs, FilesAre DEF Typed, Placed
<1>3. Turn(j, SetBefore(SetAt(x, "test"), b))
  BY Zenon DEF WriteVhost, SetAt, SetBefore
<1> HIDE DEF b
<1>4. y = SetBefore(SetAt(x, "test"), b)
  BY <1>3, JobIs
<1>5. y = Req(x.op, "test", x.name, x.arg, x.route, x.file, b, x.then)
  BY <1>2, <1>4, WrittenIs
<1> HIDE DEF y
<1>6. y.op = x.op /\ y.name = x.name /\ y.arg = x.arg /\ y.at = "test" /\ y.file = x.file
      /\ y.route = x.route /\ y.then = x.then /\ y.before = b
  BY <1>5, ReqIs
<1> QED BY <1>1, <1>2, <1>6 DEF Same3, y, b

LEMMA RmIs ==
  ASSUME Typed, NEW j \in Requests, RemoveVhost(j)
  PROVE  LET x == job[j]
             y == job'[j] IN
         /\ UNCHANGED <<loaded, renewing, crashes>> /\ x.at = "rm" /\ x.name \in Names
         /\ disk' = Gone(disk, x.name)
         /\ Same3(x, y) /\ y.at = "test" /\ y.file = NoName /\ y.then = "over"
<1> DEFINE x == job[j]
<1> DEFINE y == job'[j]
<1>1. x.at = "rm" /\ UNCHANGED <<loaded, renewing, crashes>> /\ disk' = Gone(disk, x.name)
  BY DEF RemoveVhost, counts, Put, Gone
<1>2. x \in Request /\ x.name \in Names
  BY <1>1, AskedIs
<1>3. Turn(j, SetThen(SetFile(SetAt(x, "test"), NoName), "over"))
  BY Zenon DEF RemoveVhost, SetAt, SetFile, SetThen
<1>4. y = SetThen(SetFile(SetAt(x, "test"), NoName), "over")
  BY <1>3, JobIs
<1>5. y = Req(x.op, "test", x.name, x.arg, x.route, NoName, x.before, "over")
  BY <1>2, <1>4, RemovedIs
<1> HIDE DEF y
<1>6. y.op = x.op /\ y.name = x.name /\ y.arg = x.arg /\ y.at = "test" /\ y.file = NoName
      /\ y.then = "over"
  BY <1>5, ReqIs
<1> QED BY <1>1, <1>2, <1>6 DEF Same3, y

LEMMA ReloadIs ==
  ASSUME Typed, NEW j \in Requests, Reload(j)
  PROVE  LET x == job[j]
             y == job'[j] IN
         /\ UNCHANGED <<disk, renewing, crashes>> /\ loaded' = disk /\ x.at = "test"
         /\ x.then \in Thens
         /\ \/ y = Idle
            \/ /\ x.then # "over" /\ Same3(x, y) /\ y.at = x.then /\ y.file = x.file
               /\ y.route = x.route /\ y.then = x.then
<1> DEFINE x == job[j]
<1> DEFINE y == job'[j]
<1>1. x.at = "test" /\ UNCHANGED <<disk, renewing, crashes>> /\ loaded' = disk
  BY DEF Reload, counts
<1>2. x \in Request /\ x.then \in Thens
  BY <1>1, AskedIs
<1>3. CASE x.then = "over"
  BY <1>1, <1>2, <1>3, JobIs DEF Reload, Over
<1>4. CASE x.then # "over"
  <2>1. Turn(j, SetAt(x, x.then))
    BY <1>4, Zenon DEF Reload, SetAt
  <2>2. y = SetAt(x, x.then)
    BY <2>1, JobIs
  <2>3. y = Req(x.op, x.then, x.name, x.arg, x.route, x.file, x.before, x.then)
    BY <1>2, <2>2, GoesOnIs
  <2> HIDE DEF y
  <2>4. y.op = x.op /\ y.name = x.name /\ y.arg = x.arg /\ y.at = x.then /\ y.file = x.file
        /\ y.route = x.route /\ y.then = x.then
    BY <2>3, ReqIs
  <2> QED BY <1>1, <1>2, <1>4, <2>4 DEF Same3, y
<1> QED BY <1>3, <1>4

\* What comes back: the file that was written, or - after a take over that was
\* not cancelled meanwhile - the one that was there before.
LEMMA BackIs ==
  ASSUME Typed, Theirs, NEW j \in Requests, Refused(j) \/ RefusedTakeOver(j)
  PROVE  LET x == job[j] IN
         /\ UNCHANGED <<loaded, renewing, crashes>> /\ x.at = "test" /\ job'[j] = Idle
         /\ \/ x.op # "takeover" /\ x.file = NoName /\ disk' = disk
            \/ /\ x.op # "takeover" /\ x.file \in Names /\ x.before \in Contents \cup {NoFile}
               /\ disk' = Put(disk, Vhost(x.file), x.before)
            \/ /\ x.op = "takeover" /\ x.name \in Names
               /\ \/ /\ disk' = Gone(disk, x.name)
                     /\ TRUE \in Cancels \/ {p \in aside : p[1] = x.name} = {}
                  \/ disk' = Restored(disk, x.name)
<1> DEFINE x == job[j]
<1>1. x.at = "test" /\ UNCHANGED <<loaded, renewing, crashes>> /\ Turn(j, Idle)
  BY DEF Refused, RefusedTakeOver, counts, Over
<1>2. x \in Request /\ x.file \in Names \cup {NoName} /\ x.name \in Names
      /\ x.before \in Contents \cup {NoFile}
  BY <1>1, AskedIs
<1>3. job'[j] = Idle
  BY <1>1, JobIs
<1>4. CASE Refused(j)
  <2>1. x.op # "takeover" /\ disk' = IF x.file = NoName THEN disk ELSE Put(disk, Vhost(x.file), x.before)
    BY <1>4 DEF Refused, PutBack, Put
  <2> QED BY <1>1, <1>2, <1>3, <2>1
<1>5. CASE RefusedTakeOver(j)
  <2> DEFINE n == x.name
  <2> DEFINE moved == {p \in aside : p[1] = n}
  <2>1. PICK cancelled \in Cancels : PutOriginalBack(j, cancelled)
    BY <1>5 DEF RefusedTakeOver
  <2>2. x.op = "takeover"
    BY <1>5 DEF RefusedTakeOver
  <2>3. CASE cancelled \/ moved = {}
    <3>1. disk' = Gone(disk, n)
      BY <2>1, <2>3 DEF PutOriginalBack, Gone, Put
    <3>2. TRUE \in Cancels \/ moved = {}
      BY <2>1, <2>3, RoutesAssumption
    <3> QED BY <1>1, <1>2, <1>3, <2>2, <3>1, <3>2
  <2>4. CASE ~(cancelled \/ moved = {})
    <3>1. PICK p \in moved : disk' = Put(Gone(disk, n), <<"hand", n>>, p[2])
      BY <2>1, <2>4 DEF PutOriginalBack, Gone, Put
    <3>2. p[2] = Initial[<<"hand", n>>]
      BY <3>1 DEF Theirs
    <3>3. disk' = Restored(disk, n)
      BY <3>1, <3>2 DEF Restored
    <3> QED BY <1>1, <1>2, <1>3, <2>2, <3>3
  <2> QED BY <2>3, <2>4
<1> QED BY <1>4, <1>5

\* Which request can be where, and what it goes on to.
Steady(x) ==
  /\ TakingOver(x)
  /\ x.at \in {"write", "test"} \/ Awaits(x) =>
       (x.then = "reach" => x.op = "alias") /\ (x.then = "rm" => x.op = "remove")
  /\ x.at = "move" => x.op = "takeover"
  /\ x.at = "rm" => x.op = "remove"
  /\ x.op = "takeover" /\ x.at \in {"write", "test"} => x.file = x.name

LEMMA SteadyIdle == Steady(Idle)
BY IdleIs DEF Steady, TakingOver, Awaits

LEMMA SteadyQuiet ==
  ASSUME Typed, NEW j \in Requests, Quiet(j), Steady(job[j])
  PROVE  Steady(job'[j])
<1> DEFINE x == job[j]
<1> DEFINE y == job'[j]
<1>1. Planned(disk, x, y) \/ Retries(y)
  BY QuietPlanned
<1>2. TakingOver(x) /\ y.op = "takeover" => y.at \in {"asked", "move"} /\ y.then = "over"
  BY QuietPlanned DEF Good
<1>3. TakingOver(y)
  BY <1>2 DEF Steady, TakingOver
<1> HIDE DEF x, y
<1> SUFFICES Steady(y)
  BY DEF y
<1>4. CASE y = Idle
  BY <1>4, SteadyIdle
<1>5. CASE AskedFor(disk, y) \/ Retries(y)
  BY <1>3, <1>5 DEF AskedFor, Retries, Steady, Awaits
<1>6. CASE WritesAsked(x, y) \/ Joins(disk, x, y) \/ Leaves(disk, x, y) \/ Promotes(disk, x, y)
  BY <1>3, <1>6 DEF WritesAsked, Joins, Leaves, Promotes, Steady, Awaits, Same3, RouteOps
<1>7. CASE Removes(disk, x, y) \/ TakesOver(disk, x, y) \/ Exposes(disk, x, y)
  BY <1>3, <1>7 DEF Removes, TakesOver, Exposes, Steady, Awaits, Same3
<1>8. CASE Secures(disk, x, y) \/ Reached(x, y)
  BY <1>2, <1>3, <1>8 DEF Secures, Reached, Steady, Awaits, Same3, x
<1>9. CASE Certifies(disk, x, y)
  BY <1>2, <1>3, <1>9 DEF Certifies, Steady, Awaits, Same3, x
<1> QED BY <1>1, <1>4, <1>5, <1>6, <1>7, <1>8, <1>9 DEF Planned

LEMMA SteadyStep ==
  ASSUME Typed, NEW j \in Requests, Steady(job[j]),
         Issued(j) \/ MoveAside(j) \/ WriteVhost(j) \/ RemoveVhost(j) \/ Reload(j)
  PROVE  Steady(job'[j])
<1> DEFINE x == job[j]
<1> DEFINE y == job'[j]
<1>1. CASE Issued(j)
  BY <1>1, IssuedIs DEF Steady, Awaits, Same3, TakingOver
<1>2. CASE MoveAside(j)
  <2>1. y = Idle \/ (Same3(x, y) /\ x.at = "move" /\ y.at = "write" /\ y.file = x.name /\ y.then = "over")
    BY <1>2, MovedIs
  <2>2. y = Idle => Steady(y)
    BY SteadyIdle
  <2> HIDE DEF y
  <2> QED BY <2>1, <2>2 DEF Steady, Awaits, Same3, TakingOver, y
<1>3. CASE WriteVhost(j)
  BY <1>3, WroteIs DEF Steady, Awaits, Same3, TakingOver
<1>4. CASE RemoveVhost(j)
  BY <1>4, RmIs DEF Steady, Awaits, Same3, TakingOver
<1>5. CASE Reload(j)
  BY <1>5, ReloadIs, SteadyIdle DEF Steady, Awaits, Same3, TakingOver, Thens
<1> QED BY <1>1, <1>2, <1>3, <1>4, <1>5

----------------------------------------------------------------------------
(* certbot goes on renewing what it is read for, for requests that come one at a  *)
(* time and no retry of the agent's between them.                               *)

\* What is read of a name that one file claims, and of the certificates at all.
LEMMA CertOfClaims ==
  ASSUME NEW d \in Disks, NEW n
  PROVE  /\ CertOf(d, n) # NoCert => \E f \in Claims(d, n) : CertIn(d, f, n) = CertOf(d, n)
         /\ \A f \in Claims(d, n) : CertIn(d, f, n) # NoCert => CertOf(d, n) # NoCert
         /\ \A f : Claims(d, n) = {f} => CertOf(d, n) = CertIn(d, f, n)
<1> DEFINE secure == {f \in Claims(d, n) : CertIn(d, f, n) # NoCert}
<1>1. secure \in SUBSET Files
  BY DEF Claims
<1>2. secure # {} => Last(secure) \in secure
  BY <1>1, LastIsOne
<1>3. CertOf(d, n) = IF secure = {} THEN NoCert ELSE CertIn(d, Last(secure), n)
  BY DEF CertOf
<1>4. \A f \in Claims(d, n) : CertIn(d, f, n) # NoCert => f \in secure
  OBVIOUS
<1>5. \A f \in secure : f \in Claims(d, n) /\ CertIn(d, f, n) # NoCert
  OBVIOUS
<1> HIDE DEF secure
<1>6. \A f : Claims(d, n) = {f} => CertOf(d, n) = CertIn(d, f, n)
  <2> SUFFICES ASSUME NEW f, Claims(d, n) = {f} PROVE CertOf(d, n) = CertIn(d, f, n)
    OBVIOUS
  <2>1. CASE secure = {}
    <3>1. CertIn(d, f, n) = NoCert
      BY <1>4, <2>1
    <3> QED BY <1>3, <2>1, <3>1
  <2>2. CASE secure # {}
    <3>1. Last(secure) = f
      BY <1>2, <1>5, <2>2
    <3> QED BY <1>3, <2>2, <3>1
  <2> QED BY <2>1, <2>2
<1>7. CertOf(d, n) # NoCert => \E f \in Claims(d, n) : CertIn(d, f, n) = CertOf(d, n)
  BY <1>2, <1>3, <1>5
<1>8. \A f \in Claims(d, n) : CertIn(d, f, n) # NoCert => CertOf(d, n) # NoCert
  BY <1>2, <1>3, <1>4, <1>5
<1> QED BY <1>6, <1>7, <1>8

FromCertbot(c) == \E m \in Names : c = Certbot(m)

\* A name that is read from certbot's certificate is read in one file, and only
\* somebody else's file may be called after another name.
Lone(d) ==
  \A f \in Files : \A n \in NamesIn(d, f) :
    FromCertbot(CertIn(d, f, n)) => Claims(d, n) = {f} /\ (f[1] = "croft" => n = f[2])

Renewed(d, R) ==
  \A f \in Files : \A n \in NamesIn(d, f) : \A m \in CertbotNames : CertIn(d, f, n) = Certbot(m) => m \in R

Sound(d, R) == Lone(d) /\ Renewed(d, R)

NotCertbots(d, n) == \A f \in Claims(d, n) : ~FromCertbot(CertIn(d, f, n))
Unread(d, m) == \A f \in Files : \A n \in NamesIn(d, f) : CertIn(d, f, n) # Certbot(m)

LEMMA CertNames ==
  /\ ~FromCertbot(NoCert) /\ ~FromCertbot(Wildcard) /\ \A n : ~FromCertbot(Own(n))
  /\ \A n : ~FromCertbot(CertFor(n)) /\ CertFor(n) # NoCert
  /\ \A m, n : Certbot(m) = Certbot(n) => m = n
  /\ \A m, n : CertFor(n) # Certbot(m)
  /\ CertbotNames \subseteq Names
  /\ Wildcard # NoCert /\ \A n : Own(n) # NoCert /\ Certbot(n) # NoCert
BY DEF FromCertbot, NoCert, Wildcard, Own, Certbot, CertFor, CertbotNames

\* The same files, read the same, are as sound.
LEMMA SameSound ==
  ASSUME NEW d, NEW e, Same(d, e)
  PROVE  /\ \A R : Sound(d, R) => Sound(e, R)
         /\ \A n : NotCertbots(d, n) => NotCertbots(e, n)
         /\ \A m : Unread(d, m) => Unread(e, m)
<1>1. \A n : Claims(e, n) = Claims(d, n)
  BY SameClaims
<1>2. \A f \in Files : NamesIn(e, f) = NamesIn(d, f) /\ \A n \in NamesIn(d, f) : CertIn(e, f, n) = CertIn(d, f, n)
  BY DEF Same
<1>3. Lone(d) => Lone(e)
  BY <1>1, <1>2 DEF Lone
<1>4. \A R : Renewed(d, R) => Renewed(e, R)
  BY <1>2 DEF Renewed
<1>5. \A n : NotCertbots(d, n) => NotCertbots(e, n)
  BY <1>1, <1>2 DEF NotCertbots, Claims
<1>6. \A m : Unread(d, m) => Unread(e, m)
  BY <1>2 DEF Unread
<1> QED BY <1>3, <1>4, <1>5, <1>6 DEF Sound

\* What is written claims no name that is read from certbot's elsewhere, and reads
\* from certbot's only for its own name, that nothing else claims.
Fit(d, f, c, R) ==
  \A n \in NamesFrom(c, f[2]) :
    /\ \A g \in Claims(d, n) \ {f} : ~FromCertbot(CertIn(d, g, n))
    /\ FromCertbot(CertFrom(c, f[2], n)) =>
         /\ n = f[2] /\ Claims(d, n) \subseteq {f}
         /\ \A m \in CertbotNames : CertFrom(c, f[2], n) = Certbot(m) => m \in R

LEMMA SoundPut ==
  ASSUME NEW d \in Disks, NEW f \in Files, NEW c \in Contents \cup {NoFile}, NEW R,
         Sound(d, R), Fit(d, f, c, R)
  PROVE  Sound(Put(d, f, c), R)
<1> DEFINE e == Put(d, f, c)
<1>1. /\ NamesIn(e, f) = NamesFrom(c, f[2])
      /\ \A g \in Files \ {f} : NamesIn(e, g) = NamesIn(d, g)
      /\ \A n : CertIn(e, f, n) = CertFrom(c, f[2], n)
      /\ \A n : \A g \in Files \ {f} : CertIn(e, g, n) = CertIn(d, g, n)
  BY PutReads
<1> HIDE DEF e
<1>2. ASSUME NEW n PROVE Claims(e, n) \ {f} = Claims(d, n) \ {f}
                         /\ (f \in Claims(e, n) <=> n \in NamesFrom(c, f[2]))
  BY <1>1 DEF Claims
<1>3. ASSUME NEW g \in Files, NEW n \in NamesIn(e, g)
      PROVE  /\ FromCertbot(CertIn(e, g, n)) => Claims(e, n) = {g} /\ (g[1] = "croft" => n = g[2])
             /\ \A m \in CertbotNames : CertIn(e, g, n) = Certbot(m) => m \in R
  <2>1. g \in Claims(e, n)
    BY <1>3 DEF Claims
  <2>2. CASE g = f
    <3>1. n \in NamesFrom(c, f[2]) /\ CertIn(e, g, n) = CertFrom(c, f[2], n)
      BY <1>1, <1>3, <2>2
    <3>2. FromCertbot(CertIn(e, g, n)) => n = f[2] /\ Claims(d, n) \subseteq {f}
          /\ \A m \in CertbotNames : CertIn(e, g, n) = Certbot(m) => m \in R
      BY <3>1 DEF Fit
    <3>3. FromCertbot(CertIn(e, g, n)) => Claims(e, n) = {g}
      BY <1>2, <2>1, <2>2, <3>2
    <3>4. \A m \in CertbotNames : CertIn(e, g, n) = Certbot(m) => FromCertbot(CertIn(e, g, n))
      BY CertNames DEF FromCertbot
    <3> QED BY <2>2, <3>2, <3>3, <3>4
  <2>3. CASE g # f
    <3>1. n \in NamesIn(d, g) /\ CertIn(e, g, n) = CertIn(d, g, n) /\ g \in Claims(d, n)
      BY <1>1, <1>3, <2>3 DEF Claims
    <3>2. FromCertbot(CertIn(d, g, n)) => Claims(d, n) = {g} /\ (g[1] = "croft" => n = g[2])
      BY <3>1 DEF Sound, Lone
    <3>3. \A m \in CertbotNames : CertIn(d, g, n) = Certbot(m) => m \in R
      BY <3>1 DEF Sound, Renewed
    <3>4. FromCertbot(CertIn(d, g, n)) => n \notin NamesFrom(c, f[2])
      BY <2>3, <3>1 DEF Fit
    <3>5. FromCertbot(CertIn(d, g, n)) => Claims(e, n) = {g}
      BY <1>2, <2>1, <3>2, <3>4
    <3> QED BY <3>1, <3>2, <3>3, <3>5
  <2> QED BY <2>2, <2>3
<1> QED BY <1>3 DEF Sound, Lone, Renewed, e

\* A file that goes takes nothing of the kind with it.
LEMMA SoundGone ==
  ASSUME NEW d \in Disks, NEW f \in Files, NEW R, Sound(d, R)
  PROVE  Sound(Put(d, f, NoFile), R)
<1>1. Fit(d, f, NoFile, R)
  BY DEF Fit, NamesFrom
<1> QED BY <1>1, SoundPut

\* Names read from certbot's are domains, and croft's are in their own file.
LEMMA LoneIs ==
  ASSUME NEW d \in Disks, Lone(d), NEW n \in Names
  PROVE  /\ ~IsDomain(d, n) => NotCertbots(d, n)
         /\ \A f \in Claims(d, n) : FromCertbot(CertIn(d, f, n)) => IsDomain(d, n) /\ Claims(d, n) = {f}
         /\ (IsDomain(d, n) => StateOf(d, n) # "unmanaged")
              => \A f \in Claims(d, n) : FromCertbot(CertIn(d, f, n)) => f = Vhost(n)
         /\ \A m : AliasOf(d, m, n) => NotCertbots(d, m) /\ ~FromCertbot(CertOf(d, m))
         /\ FromCertbot(CertOf(d, n)) => \E f \in Claims(d, n) : Claims(d, n) = {f}
                                                                /\ CertIn(d, f, n) = CertOf(d, n)
<1>1. ASSUME NEW f \in Claims(d, n), FromCertbot(CertIn(d, f, n))
      PROVE  /\ IsDomain(d, n) /\ Claims(d, n) = {f} /\ FileOf(d, n) = f /\ f \in Files
             /\ f[1] = "croft" => f = Vhost(n)
  <2>1. f \in Files /\ n \in NamesIn(d, f)
    BY <1>1 DEF Claims
  <2>2. Claims(d, n) = {f} /\ (f[1] = "croft" => n = f[2])
    BY <1>1, <2>1 DEF Lone
  <2>3. FileOf(d, n) = f
    BY <2>2, ReadFrom
  <2>4. f[1] \in {"croft", "hand"} /\ f = <<f[1], f[2]>>
    BY <2>1 DEF Files
  <2>5. IsDomain(d, n)
    BY <2>2, <2>3, <2>4 DEF IsDomain, AliasOf
  <2> QED BY <2>1, <2>2, <2>3, <2>4, <2>5 DEF Vhost
<1>2. ~IsDomain(d, n) => NotCertbots(d, n)
  BY <1>1 DEF NotCertbots
<1>3. ASSUME IsDomain(d, n) => StateOf(d, n) # "unmanaged", NEW f \in Claims(d, n),
             FromCertbot(CertIn(d, f, n))
      PROVE  f = Vhost(n)
  <2>1. IsDomain(d, n) /\ FileOf(d, n) = f /\ f \in Files /\ (f[1] = "croft" => f = Vhost(n))
    BY <1>1, <1>3
  <2>2. f[1] # "hand"
    BY <1>3, <2>1 DEF StateOf
  <2>3. f[1] \in {"croft", "hand"}
    BY <2>1 DEF Files
  <2> QED BY <2>1, <2>2, <2>3
<1>4. ASSUME NEW m, AliasOf(d, m, n) PROVE NotCertbots(d, m) /\ ~FromCertbot(CertOf(d, m))
  <2>1. m # n /\ m \in NamesIn(d, Vhost(n)) /\ Vhost(n) \in Files
    BY <1>4, FilesAre DEF AliasOf
  <2>2. Vhost(n)[1] = "croft" /\ Vhost(n)[2] = n
    BY DEF Vhost
  <2>3. Vhost(n) \in Claims(d, m)
    BY <2>1 DEF Claims
  <2>4. NotCertbots(d, m)
    <3> SUFFICES ASSUME NEW f \in Claims(d, m), FromCertbot(CertIn(d, f, m)) PROVE FALSE
      BY DEF NotCertbots
    <3>1. f \in Files /\ m \in NamesIn(d, f)
      BY DEF Claims
    <3>2. Claims(d, m) = {f} /\ (f[1] = "croft" => m = f[2])
      BY <3>1 DEF Lone
    <3> QED BY <2>1, <2>2, <2>3, <3>2
  <2>5. ~FromCertbot(CertOf(d, m))
    BY <2>4, CertOfClaims, CertNames DEF NotCertbots
  <2> QED BY <2>4, <2>5
<1>5. FromCertbot(CertOf(d, n)) => \E f \in Claims(d, n) : Claims(d, n) = {f}
                                                           /\ CertIn(d, f, n) = CertOf(d, n)
  <2> SUFFICES ASSUME FromCertbot(CertOf(d, n))
               PROVE  \E f \in Claims(d, n) : Claims(d, n) = {f} /\ CertIn(d, f, n) = CertOf(d, n)
    OBVIOUS
  <2>1. CertOf(d, n) # NoCert
    BY CertNames
  <2>2. PICK f \in Claims(d, n) : CertIn(d, f, n) = CertOf(d, n)
    BY <2>1, CertOfClaims
  <2> QED BY <1>1, <2>2
<1>6. \A f \in Claims(d, n) : FromCertbot(CertIn(d, f, n)) => IsDomain(d, n) /\ Claims(d, n) = {f}
  BY <1>1
<1>7. (IsDomain(d, n) => StateOf(d, n) # "unmanaged")
        => \A f \in Claims(d, n) : FromCertbot(CertIn(d, f, n)) => f = Vhost(n)
  BY <1>3
<1>8. \A m : AliasOf(d, m, n) => NotCertbots(d, m) /\ ~FromCertbot(CertOf(d, m))
  BY <1>4
<1> QED BY <1>2, <1>5, <1>6, <1>7, <1>8

HoldsRoute(x) == x.at = "write" \/ Awaits(x) \/ (x.at = "asked" /\ x.op \in RouteOps)
Place(x) == IF x.at = "asked" THEN x.name ELSE x.file
Written(x, d) == Put(d, Vhost(Place(x)), x.route)
Undone(x, d) == Put(d, Vhost(x.file), x.before)

\* What the one request x may do next leaves the files as sound as they are: what it
\* holds when it is written, what comes back when that is refused, and the certificate
\* it lets go of.
Certified(x, d, R) ==
  /\ Sound(d, R)
  /\ HoldsRoute(x) => Sound(Written(x, d), R)
  /\ x.at = "test" /\ x.file # NoName => Sound(Undone(x, d), R)
  /\ x.op = "takeover" /\ x.at \in {"write", "test"} => Sound(Restored(d, x.name), R)
  /\ x.at = "move" => /\ DOMAIN x.route.aliases = {}
                      /\ FromCertbot(x.route.cert) =>
                           \E f \in Claims(d, x.name) : CertIn(d, f, x.name) = x.route.cert
  /\ x.then = "retire" /\ (x.at = "write" \/ Awaits(x)) => Unread(Written(x, d), x.arg)
  /\ (x.then = "retire" /\ x.at = "test") \/ x.at = "retire" => Unread(d, x.arg)
  /\ x.then = "reach" /\ (x.at = "write" \/ Awaits(x)) => NotCertbots(Written(x, d), x.arg)
  /\ (x.then = "reach" /\ x.at = "test") \/ (x.at = "reach" /\ x.op # "tls") => NotCertbots(d, x.arg)

\* Routes that say the same, written in one place.
LEMMA PutAlike ==
  ASSUME NEW d \in Disks, NEW f \in Files, NEW c \in Contents, NEW e \in Contents,
         e.cert = c.cert, e.aliases = c.aliases
  PROVE  Same(Put(d, f, c), Put(d, f, e))
<1> DEFINE p == Put(d, f, c)
<1> DEFINE q == Put(d, f, e)
<1>1. /\ NamesIn(p, f) = NamesFrom(c, f[2]) /\ \A n : CertIn(p, f, n) = CertFrom(c, f[2], n)
      /\ \A g \in Files \ {f} : NamesIn(p, g) = NamesIn(d, g)
      /\ \A n : \A g \in Files \ {f} : CertIn(p, g, n) = CertIn(d, g, n)
  BY PutReads
<1>2. /\ NamesIn(q, f) = NamesFrom(e, f[2]) /\ \A n : CertIn(q, f, n) = CertFrom(e, f[2], n)
      /\ \A g \in Files \ {f} : NamesIn(q, g) = NamesIn(d, g)
      /\ \A n : \A g \in Files \ {f} : CertIn(q, g, n) = CertIn(d, g, n)
  BY PutReads
<1>3. NamesFrom(c, f[2]) = NamesFrom(e, f[2]) /\ \A n : CertFrom(c, f[2], n) = CertFrom(e, f[2], n)
  BY NoFileAssumption DEF NamesFrom, CertFrom
<1> HIDE DEF p, q
<1>4. Same(p, q)
  <2> SUFFICES ASSUME NEW g \in Files
               PROVE  NamesIn(q, g) = NamesIn(p, g) /\ \A n : CertIn(q, g, n) = CertIn(p, g, n)
    BY DEF Same
  <2>1. CASE g = f
    BY <1>1, <1>2, <1>3, <2>1
  <2>2. CASE g # f
    BY <1>1, <1>2, <2>2
  <2> QED BY <2>1, <2>2
<1> QED BY <1>4 DEF p, q

\* A route made of what was read of a name of croft's, or of nobody's, with names
\* that are not read from certbot's, and its own certificate or one that is not
\* certbot's.
LEMMA RewriteSound ==
  ASSUME NEW d \in Disks, NEW R, Sound(d, R), NEW n \in Names,
         IsDomain(d, n) => StateOf(d, n) # "unmanaged",
         NEW c \in Contents, c.cert = CertOf(d, n) \/ ~FromCertbot(c.cert),
         \A m \in (DOMAIN c.aliases) \ {n} : NotCertbots(d, m) /\ ~FromCertbot(c.aliases[m])
  PROVE  Sound(Put(d, Vhost(n), c), R)
<1> DEFINE f == Vhost(n)
<1>1. f \in Files /\ f[2] = n /\ c # NoFile
  BY FilesAre, NoFileAssumption
<1>2. NamesFrom(c, f[2]) = {n} \cup DOMAIN c.aliases /\ CertFrom(c, f[2], n) = c.cert
      /\ \A m : m # n => CertFrom(c, f[2], m) = c.aliases[m]
  BY <1>1 DEF NamesFrom, CertFrom
<1>3. Lone(d) /\ Renewed(d, R)
  BY DEF Sound
<1>4. \A g \in Claims(d, n) : FromCertbot(CertIn(d, g, n)) => g = f
  BY <1>3, LoneIs
<1>5. FromCertbot(c.cert) => Claims(d, n) \subseteq {f}
                             /\ \A m \in CertbotNames : c.cert = Certbot(m) => m \in R
  <2> SUFFICES ASSUME FromCertbot(c.cert)
               PROVE  Claims(d, n) \subseteq {f}
                      /\ \A m \in CertbotNames : c.cert = Certbot(m) => m \in R
    OBVIOUS
  <2>1. PICK g \in Claims(d, n) : Claims(d, n) = {g} /\ CertIn(d, g, n) = c.cert
    BY <1>3, LoneIs
  <2>2. g = f
    BY <1>4, <2>1
  <2>3. n \in NamesIn(d, g) /\ g \in Files
    BY <2>1 DEF Claims
  <2> QED BY <1>3, <2>1, <2>2, <2>3 DEF Renewed
<1> HIDE DEF f
<1>6. Fit(d, f, c, R)
  <2> SUFFICES ASSUME NEW m \in NamesFrom(c, f[2])
               PROVE  /\ \A g \in Claims(d, m) \ {f} : ~FromCertbot(CertIn(d, g, m))
                      /\ FromCertbot(CertFrom(c, f[2], m)) =>
                           /\ m = f[2] /\ Claims(d, m) \subseteq {f}
                           /\ \A k \in CertbotNames : CertFrom(c, f[2], m) = Certbot(k) => k \in R
    BY DEF Fit
  <2>1. CASE m = n
    BY <1>1, <1>2, <1>4, <1>5, <2>1
  <2>2. CASE m # n
    BY <1>2, <2>2 DEF NotCertbots
  <2> QED BY <2>1, <2>2
<1> QED BY <1>1, <1>6, SoundPut DEF f

\* What a request plans on sound files is sound.
LEMMA PlannedSound ==
  ASSUME NEW d \in Disks, NEW R, NEW x, NEW y, y.route \in Contents, Placed(y), Certified(x, d, R),
         Steady(y), Planned(d, x, y), HoldsRoute(y), x.route \in Contents, Placed(x)
  PROVE  Sound(Written(y, d), R)
<1>1. Sound(d, R) /\ Lone(d)
  BY DEF Certified, Sound
<1>2. y.name \in Names /\ Place(y) \in Names /\ y.at \in {"write", "issue", "reach", "asked"}
  BY DEF Placed, HoldsRoute, Place, Awaits
<1>3. ASSUME NEW n \in Names, Place(y) = n, IsDomain(d, n) => StateOf(d, n) # "unmanaged",
             y.route.cert = CertOf(d, n) \/ ~FromCertbot(y.route.cert),
             \A m \in (DOMAIN y.route.aliases) \ {n} : NotCertbots(d, m) /\ ~FromCertbot(y.route.aliases[m])
      PROVE  Sound(Written(y, d), R)
  BY <1>1, <1>3, RewriteSound DEF Written
<1>4. ASSUME NEW n \in Names
      PROVE  \A m \in AliasNames(d, n) : NotCertbots(d, m) /\ ~FromCertbot(CertOf(d, m))
  BY <1>1, LoneIs DEF AliasNames
<1>5. \A n : Managed(d, n) => Ours(d, n)
  BY DEF Managed, Ours
<1>6. CASE y = Idle
  BY <1>6, IdleIs DEF HoldsRoute, Awaits
<1>7. CASE AskedFor(d, y)
  <2>1. Place(y) = y.name /\ y.op \in RouteOps
    BY <1>7 DEF AskedFor, HoldsRoute, Awaits, Place
  <2>2. CASE y.op \in {"add", "service"}
    <3>1. ~IsDomain(d, y.name) /\ y.route.cert = NoCert /\ DOMAIN y.route.aliases = {}
      BY <1>7, <2>2 DEF AskedFor
    <3> QED BY <1>2, <1>3, <2>1, <3>1, CertNames
  <2>3. CASE y.op \in {"edit", "path"}
    <3>1. Ours(d, y.name) /\ y.route.cert = CertOf(d, y.name) /\ ReadAliases(d, y.name, y.route)
      BY <1>7, <2>3 DEF AskedFor
    <3> QED BY <1>2, <1>3, <1>4, <2>1, <3>1 DEF Ours, ReadAliases
  <2> QED BY <2>1, <2>2, <2>3 DEF RouteOps
<1>8. CASE WritesAsked(x, y)
  <2>1. HoldsRoute(x) /\ Place(x) = y.file /\ Place(y) = y.file /\ y.route.cert = x.route.cert
        /\ y.route.aliases = x.route.aliases
    BY <1>8 DEF WritesAsked, HoldsRoute, Place, Same3
  <2>2. Sound(Written(x, d), R)
    BY <2>1 DEF Certified
  <2>3. Vhost(y.file) \in Files
    BY <1>2, <2>1, FilesAre
  <2>4. Same(Put(d, Vhost(y.file), x.route), Put(d, Vhost(y.file), y.route))
    BY <2>1, <2>3, PutAlike
  <2> QED BY <2>1, <2>2, <2>4, SameSound DEF Written
<1>9. CASE Promotes(d, x, y)
  <2> DEFINE s == y.file
  <2> DEFINE n == x.name
  <2>1. n \in Names /\ s \in AliasNames(d, n) /\ s \in Names /\ Place(y) = s
    BY <1>2, <1>9 DEF Promotes, Same3, Place, AliasNames
  <2>2. \A m \in AliasNames(d, n) : NotCertbots(d, m) /\ ~FromCertbot(CertOf(d, m))
    BY <1>4, <2>1
  <2>3. ~FromCertbot(y.route.cert)
    BY <1>9, <2>1, <2>2, CertNames DEF Promotes
  <2>4. DOMAIN y.route.aliases = AliasNames(d, n) \ {s}
        /\ \A m \in AliasNames(d, n) \ {s} : y.route.aliases[m] = CertOf(d, m)
    BY <1>9 DEF Promotes
  <2>5. IsDomain(d, s) => StateOf(d, s) # "unmanaged"
    <3>1. AliasOf(d, s, n)
      BY <2>1 DEF AliasNames
    <3>2. FileOf(d, s) = Vhost(n) /\ FileOf(d, n) = Vhost(n)
      BY <3>1 DEF AliasOf
    <3>3. ~IsDomain(d, s)
      BY <3>1, <3>2 DEF IsDomain, Vhost
    <3> QED BY <3>3
  <2> QED BY <1>3, <2>1, <2>2, <2>3, <2>4, <2>5
<1>10. CASE Removes(d, x, y)
  BY <1>10 DEF Removes, HoldsRoute, Awaits
<1>11. CASE Joins(d, x, y)
  <2> DEFINE n == x.name
  <2> DEFINE a == x.arg
  <2>1. n \in Names /\ Place(y) = n /\ Ours(d, n) /\ a \in Names
    BY <1>2, <1>5, <1>11 DEF Joins, Same3, Place, Placed
  <2>2. /\ y.route.cert = CertOf(d, n) /\ DOMAIN y.route.aliases = AliasNames(d, n) \cup {a}
        /\ \A m \in AliasNames(d, n) \ {a} : y.route.aliases[m] = CertOf(d, m)
        /\ y.route.aliases[a] \in {Wildcard, NoCert} /\ ~IsDomain(d, a)
    BY <1>11 DEF Joins
  <2>3. NotCertbots(d, a)
    BY <1>1, <2>1, <2>2, LoneIs
  <2> HIDE DEF n, a
  <2>4. \A m \in (DOMAIN y.route.aliases) \ {n} : NotCertbots(d, m) /\ ~FromCertbot(y.route.aliases[m])
    BY <1>4, <2>1, <2>2, <2>3, CertNames
  <2> QED BY <1>3, <2>1, <2>2, <2>4 DEF Ours
<1>12. CASE Leaves(d, x, y)
  <2> DEFINE n == x.name
  <2>1. n \in Names /\ Place(y) = n /\ Ours(d, n)
    BY <1>2, <1>5, <1>12 DEF Leaves, Same3, Place
  <2>2. /\ y.route.cert = CertOf(d, n) /\ DOMAIN y.route.aliases = AliasNames(d, n) \ {x.arg}
        /\ \A m \in AliasNames(d, n) \ {x.arg} : y.route.aliases[m] = CertOf(d, m)
    BY <1>12 DEF Leaves
  <2> QED BY <1>3, <1>4, <2>1, <2>2 DEF Ours
<1>13. CASE TakesOver(d, x, y)
  BY <1>13 DEF TakesOver, HoldsRoute, Awaits
<1>14. CASE Secures(d, x, y)
  <2> DEFINE n == x.name
  <2>1. /\ n \in Names /\ Place(y) = n /\ Ours(d, n) /\ ~FromCertbot(y.route.cert)
        /\ ReadAliases(d, n, y.route)
    BY <1>2, <1>14, CertNames DEF Secures, Place
  <2> QED BY <1>3, <1>4, <2>1 DEF Ours, ReadAliases
<1>15. CASE Exposes(d, x, y)
  <2> DEFINE n == x.name
  <2>1. /\ n \in Names /\ Place(y) = n /\ ~FromCertbot(y.route.cert) /\ DOMAIN y.route.aliases = {}
        /\ (IsDomain(d, n) => StateOf(d, n) # "unmanaged")
    BY <1>2, <1>15, CertNames DEF Exposes, Place, Same3
  <2> QED BY <1>3, <2>1
<1>16. CASE Certifies(d, x, y)
  <2> DEFINE n == x.name
  <2> DEFINE a == x.arg
  <2>1. n \in Names /\ Place(y) = n /\ Ours(d, n)
    BY <1>2, <1>5, <1>16 DEF Certifies, Same3, Place, Placed
  <2>2. /\ y.route.cert = CertOf(d, n) /\ DOMAIN y.route.aliases = AliasNames(d, n) \cup {a}
        /\ \A m \in AliasNames(d, n) \ {a} : y.route.aliases[m] = CertOf(d, m)
        /\ y.route.aliases[a] = CertFor(a)
    BY <1>16 DEF Certifies
  <2>3. NotCertbots(d, a)
    BY <1>16 DEF Certifies, Certified
  <2> HIDE DEF n, a
  <2>4. \A m \in (DOMAIN y.route.aliases) \ {n} : NotCertbots(d, m) /\ ~FromCertbot(y.route.aliases[m])
    BY <1>4, <2>1, <2>2, <2>3, CertNames
  <2> QED BY <1>3, <2>1, <2>2, <2>4 DEF Ours
<1>17. CASE Reached(x, y)
  <2>1. HoldsRoute(x) /\ Place(y) = Place(x) /\ y.route = x.route
    BY <1>17 DEF Reached, HoldsRoute, Awaits, Place
  <2> QED BY <2>1 DEF Certified, Written
<1> QED BY <1>6, <1>7, <1>8, <1>9, <1>10, <1>11, <1>12, <1>13, <1>14, <1>15, <1>16, <1>17 DEF Planned

\* A name that joins a route, over the wildcard or over http, is not certbot's.
LEMMA JoinsKeeps ==
  ASSUME NEW d \in Disks, NEW R, Sound(d, R), NEW x, NEW y, y.route \in Contents, Placed(y),
         Joins(d, x, y)
  PROVE  NotCertbots(Written(y, d), y.arg)
<1> DEFINE n == x.name
<1> DEFINE a == x.arg
<1> DEFINE f == Vhost(n)
<1> DEFINE c == y.route
<1> DEFINE e == Put(d, f, c)
<1>1. /\ n \in Names /\ a \in Names /\ a # n /\ ~IsDomain(d, a) /\ Written(y, d) = e /\ y.arg = a
      /\ c.aliases[a] \in {Wildcard, NoCert}
  BY DEF Joins, Same3, Placed, Written, Place
<1>2. f \in Files /\ f[2] = n
  BY <1>1, FilesAre
<1>3. NotCertbots(d, a)
  BY <1>1, LoneIs DEF Sound
<1>4. /\ \A g \in Files \ {f} : NamesIn(e, g) = NamesIn(d, g) /\ CertIn(e, g, a) = CertIn(d, g, a)
      /\ CertIn(e, f, a) = CertFrom(c, f[2], a)
  BY <1>2, PutReads
<1>5. ~FromCertbot(CertIn(e, f, a))
  BY <1>1, <1>2, <1>4, CertNames DEF CertFrom
<1> HIDE DEF e, f, a, n, c
<1>6. NotCertbots(e, a)
  BY <1>3, <1>4, <1>5 DEF NotCertbots, Claims
<1> QED BY <1>1, <1>6

\* Nothing reads the certificate of certbot's that https of croft's own replaces,
\* when it is to be retired.
LEMMA SecuresKeeps ==
  ASSUME NEW d \in Disks, NEW R, Sound(d, R), NEW x, NEW y, y.route \in Contents, Placed(y),
         Secures(d, x, y), y.then = "retire"
  PROVE  Unread(Written(y, d), y.arg)
<1> DEFINE n == x.name
<1> DEFINE m == y.arg
<1> DEFINE f == Vhost(n)
<1> DEFINE c == y.route
<1> DEFINE e == Put(d, f, c)
<1>1. /\ n \in Names /\ Ours(d, n) /\ Written(y, d) = e /\ c.cert = CertFor(n) /\ ReadAliases(d, n, c)
      /\ CertOf(d, n) = Certbot(m) /\ \A k \in Domains(d) \ {n} : CertOf(d, k) # Certbot(m)
  BY DEF Secures, Placed, Written, Place
<1>2. f \in Files /\ f[2] = n /\ Lone(d) /\ c # NoFile
  BY <1>1, FilesAre, NoFileAssumption DEF Sound
<1>3. m \in Names
  <2>1. Certbot(m) \in Certs
    BY <1>1, CertOfIs
  <2> QED BY <2>1 DEF Certs, Certbot, Own, Wildcard, NoCert
<1>4. /\ \A g \in Files \ {f} : NamesIn(e, g) = NamesIn(d, g) /\ \A k : CertIn(e, g, k) = CertIn(d, g, k)
      /\ NamesIn(e, f) = NamesFrom(c, f[2]) /\ \A k : CertIn(e, f, k) = CertFrom(c, f[2], k)
  BY <1>2, PutReads
<1>5. \A k \in AliasNames(d, n) : ~FromCertbot(CertOf(d, k))
  BY <1>1, <1>2, LoneIs DEF AliasNames
<1>6. ASSUME NEW k \in NamesIn(e, f) PROVE CertIn(e, f, k) # Certbot(m)
  <2>1. k \in {n} \cup AliasNames(d, n)
    BY <1>1, <1>2, <1>4, <1>6 DEF NamesFrom, ReadAliases
  <2>2. CASE k = n
    BY <1>1, <1>2, <1>4, <2>2, CertNames DEF CertFrom
  <2>3. CASE k # n
    <3>1. CertIn(e, f, k) = CertOf(d, k)
      BY <1>1, <1>2, <1>4, <2>1, <2>3 DEF CertFrom, ReadAliases
    <3> QED BY <1>3, <1>5, <2>1, <2>3, <3>1 DEF FromCertbot
  <2> QED BY <2>2, <2>3
<1> HIDE DEF e
<1>7. ASSUME NEW g \in Files \ {f}, NEW k \in NamesIn(e, g), CertIn(e, g, k) = Certbot(m)
      PROVE  FALSE
  <2>1. k \in NamesIn(d, g) /\ CertIn(d, g, k) = Certbot(m) /\ g \in Claims(d, k) /\ k \in Names
    BY <1>4, <1>7, NamesInAre DEF Claims
  <2>2. IsDomain(d, k) /\ Claims(d, k) = {g}
    BY <1>2, <1>3, <2>1, LoneIs DEF FromCertbot
  <2>3. CertOf(d, k) = Certbot(m)
    BY <2>1, <2>2, CertOfClaims
  <2>4. k = n
    BY <1>1, <2>1, <2>2, <2>3 DEF Domains
  <2>5. g = f
    BY <1>1, <1>2, <1>3, <2>1, <2>4, LoneIs DEF FromCertbot, Ours
  <2> QED BY <1>7, <2>5
<1>8. Unread(e, m)
  BY <1>6, <1>7 DEF Unread
<1> QED BY <1>1, <1>8

LEMMA PlannedCertified ==
  ASSUME NEW d \in Disks, NEW R, NEW x, NEW y, y.route \in Contents, Placed(y), Certified(x, d, R),
         Steady(y), Steady(x), Planned(d, x, y), x.route \in Contents, Placed(x),
         y.at # "test", y.op = "takeover" => y.at \in {"asked", "move"}
  PROVE  Certified(y, d, R)
<1>1. Sound(d, R)
  BY DEF Certified
<1>2. HoldsRoute(y) => Sound(Written(y, d), R)
  BY PlannedSound
<1>3. y.at \notin {"test", "retire"} /\ (y.at = "reach" => y.op = "tls")
      /\ (y.at = "move" => TakesOver(d, x, y))
      /\ (y.then = "retire" /\ (y.at = "write" \/ Awaits(y)) => Secures(d, x, y) \/ Reached(x, y))
  <2>1. CASE y = Idle \/ AskedFor(d, y)
    BY <2>1, IdleIs DEF AskedFor, Awaits
  <2>2. CASE WritesAsked(x, y) \/ Promotes(d, x, y) \/ Removes(d, x, y) \/ Joins(d, x, y)
    BY <2>2 DEF WritesAsked, Promotes, Removes, Joins, Awaits
  <2>3. CASE Leaves(d, x, y) \/ TakesOver(d, x, y) \/ Exposes(d, x, y) \/ Certifies(d, x, y)
    BY <2>3 DEF Leaves, TakesOver, Exposes, Certifies, Awaits
  <2>4. CASE Secures(d, x, y) \/ Reached(x, y)
    BY <2>4 DEF Secures, Reached, Awaits
  <2> QED BY <2>1, <2>2, <2>3, <2>4 DEF Planned
<1>4. y.then = "reach" /\ (y.at = "write" \/ Awaits(y)) => Joins(d, x, y)
  <2> SUFFICES ASSUME y.then = "reach", y.at = "write" \/ Awaits(y) PROVE Joins(d, x, y)
    OBVIOUS
  <2>1. y.op = "alias"
    BY DEF Steady
  <2>2. ~(y = Idle) /\ ~AskedFor(d, y) /\ ~WritesAsked(x, y) /\ ~Promotes(d, x, y) /\ ~Removes(d, x, y)
    BY IdleIs DEF AskedFor, WritesAsked, Promotes, Removes, Awaits
  <2>3. ~Leaves(d, x, y) /\ ~TakesOver(d, x, y) /\ ~Exposes(d, x, y) /\ ~Certifies(d, x, y)
    BY DEF Leaves, TakesOver, Exposes, Certifies, Awaits
  <2>4. ~Secures(d, x, y) /\ ~Reached(x, y)
    BY <2>1 DEF Secures, Reached, Same3
  <2> QED BY <2>2, <2>3, <2>4 DEF Planned
<1>5. ASSUME y.at = "move"
      PROVE  /\ DOMAIN y.route.aliases = {}
             /\ FromCertbot(y.route.cert) => \E f \in Claims(d, y.name) : CertIn(d, f, y.name) = y.route.cert
  <2>1. y.name = x.name /\ DOMAIN y.route.aliases = {} /\ y.route.cert = CertOf(d, y.name)
    BY <1>3, <1>5 DEF TakesOver, Same3
  <2>2. FromCertbot(y.route.cert) => CertOf(d, y.name) # NoCert
    BY <2>1, CertNames
  <2> QED BY <2>1, <2>2, CertOfClaims
<1>6. ASSUME y.then = "retire", y.at = "write" \/ Awaits(y) PROVE Unread(Written(y, d), y.arg)
  <2>1. CASE Secures(d, x, y)
    BY <1>1, <1>6, <2>1, SecuresKeeps
  <2>2. CASE Reached(x, y)
    <3>1. Awaits(x) /\ x.then = "retire" /\ Place(y) = Place(x) /\ y.route = x.route /\ y.arg = x.arg
      BY <1>6, <2>2 DEF Reached, Awaits, Place, Same3
    <3> QED BY <3>1 DEF Certified, Written
  <2> QED BY <1>3, <1>6, <2>1, <2>2
<1>7. ASSUME y.then = "reach", y.at = "write" \/ Awaits(y) PROVE NotCertbots(Written(y, d), y.arg)
  BY <1>1, <1>4, <1>7, JoinsKeeps
<1> QED BY <1>1, <1>2, <1>3, <1>5, <1>6, <1>7 DEF Certified

LEMMA CertifiedIdle ==
  ASSUME NEW d, NEW R, Sound(d, R)
  PROVE  Certified(Idle, d, R)
BY IdleIs DEF Certified, HoldsRoute, Awaits

LEMMA PutIs ==
  ASSUME NEW d \in Disks, NEW f \in Files, NEW c \in Contents \cup {NoFile}
  PROVE  /\ Put(d, f, c) \in Disks
         /\ \A g \in Files : Put(d, f, c)[g] = IF g = f THEN c ELSE d[g]
<1>1. Put(d, f, c) \in Disks /\ Put(d, f, c)[f] = c /\ \A g \in Files \ {f} : Put(d, f, c)[g] = d[g]
  BY PutReads
<1> QED BY <1>1

\* The file that was put aside, put back.
LEMMA BackAgain ==
  ASSUME NEW d \in Disks, NEW n \in Names, d[<<"hand", n>>] = Initial[<<"hand", n>>]
  PROVE  Restored(Put(d, <<"hand", n>>, NoFile), n) = Gone(d, n)
<1> DEFINE h == <<"hand", n>>
<1> DEFINE f == Vhost(n)
<1> DEFINE b == Initial[h]
<1>1. h \in Files /\ f \in Files /\ h # f /\ NoFile \in Contents \cup {NoFile}
  BY FilesAre
<1>2. b \in Contents \cup {NoFile}
  BY <1>1, RoutesAssumption
<1> HIDE DEF h, f, b
<1> DEFINE d1 == Put(d, h, NoFile)
<1> DEFINE d2 == Put(d1, f, NoFile)
<1> DEFINE d3 == Put(d2, h, b)
<1> DEFINE e == Put(d, f, NoFile)
<1>3. d1 \in Disks /\ \A g \in Files : d1[g] = IF g = h THEN NoFile ELSE d[g]
  BY <1>1, PutIs
<1> HIDE DEF d1
<1>4. d2 \in Disks /\ \A g \in Files : d2[g] = IF g = f THEN NoFile ELSE d1[g]
  BY <1>1, <1>3, PutIs
<1> HIDE DEF d2
<1>5. d3 \in Disks /\ \A g \in Files : d3[g] = IF g = h THEN b ELSE d2[g]
  BY <1>1, <1>2, <1>4, PutIs
<1>6. e \in Disks /\ \A g \in Files : e[g] = IF g = f THEN NoFile ELSE d[g]
  BY <1>1, PutIs
<1> HIDE DEF d3, e
<1>7. d[h] = b
  BY DEF h, b
<1>8. \A g \in Files : d3[g] = e[g]
  BY <1>1, <1>3, <1>4, <1>5, <1>6, <1>7
<1>9. d3 = e
  BY <1>5, <1>6, <1>8 DEF Disks
<1> QED BY <1>9 DEF Restored, Gone, d1, d2, d3, e, h, f, b

\* What a take over writes under what comes back.
LEMMA RestoredAlike ==
  ASSUME NEW d \in Disks, NEW n \in Names, NEW c \in Contents \cup {NoFile}
  PROVE  Same(Restored(d, n), Restored(Put(d, Vhost(n), c), n))
<1> DEFINE f == Vhost(n)
<1> DEFINE h == <<"hand", n>>
<1> DEFINE e == Put(d, f, c)
<1>1. h \in Files /\ f \in Files /\ NoFile \in Contents \cup {NoFile} /\ Initial[h] \in Contents \cup {NoFile}
  BY FilesAre, RoutesAssumption
<1>2. Same(Put(d, f, NoFile), Put(e, f, NoFile))
  BY <1>1, PutAgain
<1>3. e \in Disks /\ Put(d, f, NoFile) \in Disks
  BY <1>1, PutIs
<1> HIDE DEF e, f, h
<1>4. Put(e, f, NoFile) \in Disks
  BY <1>1, <1>3, PutIs
<1>5. Same(Put(Put(d, f, NoFile), h, Initial[h]), Put(Put(e, f, NoFile), h, Initial[h]))
  BY <1>1, <1>2, <1>3, <1>4, SamePut
<1> QED BY <1>5 DEF Restored, Gone, e, f, h

\* Every step of a request leaves it so. (The disk and the renewal files it leaves are
\* disk' and renewing'.)
LEMMA IssuedCertified ==
  ASSUME Typed, NEW j \in Requests, Issued(j), Certified(job[j], disk, renewing), Steady(job[j])
  PROVE  Certified(job'[j], disk', renewing')
<1> DEFINE x == job[j]
<1> DEFINE y == job'[j]
<1>1. /\ disk' = disk /\ renewing' = renewing /\ x.at = "issue" /\ Same3(x, y) /\ y.at = "write"
      /\ y.file = x.file /\ y.route = x.route /\ y.then = x.then
  BY IssuedIs
<1>2. Certified(x, disk, renewing) /\ x.op # "takeover"
  BY <1>1 DEF Steady, TakingOver
<1> HIDE DEF x, y
<1>3. Awaits(x) /\ HoldsRoute(x) /\ Written(y, disk) = Written(x, disk)
  BY <1>1 DEF Awaits, HoldsRoute, Written, Place
<1>4. Certified(y, disk, renewing)
  BY <1>1, <1>2, <1>3 DEF Certified, HoldsRoute, Awaits, Same3
<1> QED BY <1>1, <1>4 DEF y

LEMMA MovedCertified ==
  ASSUME Typed, Theirs, NEW j \in Requests, MoveAside(j), Certified(job[j], disk, renewing),
         job'[j].route \in Contents, Steady(job[j])
  PROVE  Certified(job'[j], disk', renewing')
<1> DEFINE x == job[j]
<1> DEFINE y == job'[j]
<1> DEFINE n == x.name
<1> DEFINE h == <<"hand", n>>
<1> DEFINE f == Vhost(n)
<1> DEFINE e == Put(disk, h, NoFile)
<1> DEFINE R == renewing
<1>1. renewing' = R /\ x.at = "move" /\ n \in Names /\ disk \in Disks /\ Sound(disk, R) /\ Lone(disk)
      /\ h \in Files /\ f \in Files /\ h # f /\ f[2] = n
  BY MovedIs, AskedIs, FilesAre DEF Certified, Sound
<1>2. CASE y = Idle /\ disk' = disk
  BY <1>1, <1>2, CertifiedIdle
<1>3. CASE /\ disk[h] # NoFile /\ disk' = e /\ Same3(x, y) /\ y.at = "write" /\ y.file = n
           /\ y.then = "over" /\ y.route.cert = x.route.cert /\ y.route.aliases = x.route.aliases
  <2>1. e \in Disks /\ Sound(e, R)
    BY <1>1, FilesAre, SoundGone, PutIs
  <2>2. disk[h] = Initial[h]
    BY <1>1, <1>3 DEF Theirs
  <2>3. Restored(e, n) = Gone(disk, n)
    BY <1>1, <2>2, BackAgain
  <2>4. Sound(Restored(e, n), R)
    BY <1>1, <2>3, SoundGone DEF Gone
  <2> DEFINE c == y.route
  <2>5. DOMAIN c.aliases = {} /\ c \in Contents
        /\ (FromCertbot(c.cert) => \E g \in Claims(disk, n) : CertIn(disk, g, n) = c.cert)
    BY <1>1, <1>3 DEF Certified
  <2>6. h \in Claims(disk, n)
    BY <1>1, <1>3, FilesAre DEF Claims, NamesIn
  <2>7. /\ \A g \in Files \ {h} : NamesIn(e, g) = NamesIn(disk, g)
        /\ \A g \in Files \ {h} : CertIn(e, g, n) = CertIn(disk, g, n)
        /\ NamesIn(e, h) = {}
    <3>1. NoFile \in Contents \cup {NoFile} /\ NamesFrom(NoFile, h[2]) = {}
      BY DEF NamesFrom
    <3> HIDE DEF h, n
    <3>2. /\ \A g \in Files \ {h} : NamesIn(e, g) = NamesIn(disk, g)
          /\ \A m : \A g \in Files \ {h} : CertIn(e, g, m) = CertIn(disk, g, m)
          /\ NamesIn(e, h) = NamesFrom(NoFile, h[2])
      BY <1>1, <3>1, PutReads
    <3> QED BY <3>1, <3>2
  <2>8. Claims(e, n) = Claims(disk, n) \ {h}
    BY <1>1, <2>7 DEF Claims
  <2>9. \A g \in Claims(disk, n) : FromCertbot(CertIn(disk, g, n)) => Claims(disk, n) = {g} /\ g \in Files
                                                                     /\ n \in NamesIn(disk, g)
    <3>1. \A g \in Claims(disk, n) : g \in Files /\ n \in NamesIn(disk, g)
      BY DEF Claims
    <3> QED BY <1>1, <3>1, LoneIs
  <2>10. NamesFrom(c, f[2]) \subseteq {n} /\ CertFrom(c, f[2], n) = c.cert
    BY <1>1, <2>5 DEF NamesFrom, CertFrom
  <2> HIDE DEF e, c, h, f
  <2>11. \A g \in Claims(e, n) : ~FromCertbot(CertIn(e, g, n))
    <3> SUFFICES ASSUME NEW g \in Claims(disk, n), g # h, FromCertbot(CertIn(e, g, n)) PROVE FALSE
      BY <2>8
    <3>1. g \in Files
      BY DEF Claims
    <3>2. FromCertbot(CertIn(disk, g, n))
      BY <2>7, <3>1
    <3> QED BY <2>6, <2>9, <3>2
  <2>12. FromCertbot(c.cert) => Claims(e, n) = {} /\ \A m \in CertbotNames : c.cert = Certbot(m) => m \in R
    <3> SUFFICES ASSUME FromCertbot(c.cert)
                 PROVE  Claims(e, n) = {} /\ \A m \in CertbotNames : c.cert = Certbot(m) => m \in R
      OBVIOUS
    <3>1. PICK g \in Claims(disk, n) : CertIn(disk, g, n) = c.cert
      BY <2>5
    <3>2. Claims(disk, n) = {g} /\ g \in Files /\ n \in NamesIn(disk, g)
      BY <2>9, <3>1
    <3>3. Claims(e, n) = {}
      BY <2>6, <2>8, <3>2
    <3>4. \A m \in CertbotNames : c.cert = Certbot(m) => m \in R
      BY <1>1, <3>1, <3>2 DEF Sound, Renewed
    <3> QED BY <3>3, <3>4
  <2>13. Fit(e, f, c, R)
    BY <1>1, <2>10, <2>11, <2>12 DEF Fit
  <2>14. Sound(Put(e, f, c), R)
    BY <1>1, <2>1, <2>5, <2>13, SoundPut
  <2>15. y.op = "takeover" /\ y.name = n
    BY <1>1, <1>3 DEF Steady, Same3
  <2>16. Written(y, e) = Put(e, f, c)
    BY <1>3 DEF Written, Place, c, f
  <2> HIDE DEF y
  <2>17. Certified(y, e, R)
    BY <1>3, <2>1, <2>4, <2>14, <2>15, <2>16 DEF Certified, HoldsRoute, Awaits
  <2> QED BY <1>1, <1>3, <2>17 DEF y
<1> QED BY <1>2, <1>3, MovedIs

LEMMA WroteCertified ==
  ASSUME Typed, NEW j \in Requests, WriteVhost(j), Certified(job[j], disk, renewing), Steady(job[j])
  PROVE  Certified(job'[j], disk', renewing')
<1> DEFINE x == job[j]
<1> DEFINE y == job'[j]
<1> DEFINE f == Vhost(x.file)
<1> DEFINE e == Put(disk, f, x.route)
<1> DEFINE R == renewing
<1>1. /\ renewing' = R /\ x.at = "write" /\ x.file \in Names /\ f \in Files /\ x.route \in Contents
      /\ disk' = e /\ Same3(x, y) /\ y.at = "test" /\ y.file = x.file /\ y.then = x.then
      /\ y.before = disk[f] /\ disk \in Disks
  BY WroteIs, AskedIs
<1> HIDE DEF y, x
<1>2. HoldsRoute(x) /\ Written(x, disk) = e
  BY <1>1 DEF HoldsRoute, Written, Place
<1>3. Sound(disk, R) /\ Sound(e, R)
  BY <1>2 DEF Certified, x
<1>4. Sound(Undone(y, e), R)
  <2>1. Same(disk, Put(e, f, disk[f]))
    <3>1. NoFile \in Contents \cup {NoFile}
      OBVIOUS
    <3> QED BY <1>1, <3>1, PutAgain
  <2>2. Undone(y, e) = Put(e, f, disk[f])
    BY <1>1 DEF Undone
  <2> QED BY <1>3, <2>1, <2>2, SameSound
<1>5. y.op = "takeover" => Sound(Restored(e, y.name), R)
  <2> SUFFICES ASSUME y.op = "takeover" PROVE Sound(Restored(e, y.name), R)
    OBVIOUS
  <2>1. x.op = "takeover" /\ x.file = x.name /\ y.name = x.name
    BY <1>1 DEF Steady, Same3, x
  <2>2. Sound(Restored(disk, x.name), R)
    BY <1>1, <2>1 DEF Certified, x
  <2>3. Same(Restored(disk, x.name), Restored(e, x.name))
    BY <1>1, <2>1, RestoredAlike
  <2> QED BY <2>1, <2>2, <2>3, SameSound
<1>6. (y.then = "retire" => Unread(e, y.arg)) /\ (y.then = "reach" => NotCertbots(e, y.arg))
  BY <1>1, <1>2 DEF Certified, Same3, x
<1> HIDE DEF e
<1>7. Certified(y, e, R)
  BY <1>1, <1>3, <1>4, <1>5, <1>6 DEF Certified, HoldsRoute, Awaits
<1> QED BY <1>1, <1>7 DEF y

LEMMA RmCertified ==
  ASSUME Typed, NEW j \in Requests, RemoveVhost(j), Certified(job[j], disk, renewing), Steady(job[j])
  PROVE  Certified(job'[j], disk', renewing')
<1> DEFINE x == job[j]
<1> DEFINE y == job'[j]
<1>1. /\ renewing' = renewing /\ x.at = "rm" /\ x.name \in Names /\ disk' = Gone(disk, x.name)
      /\ Same3(x, y) /\ y.at = "test" /\ y.file = NoName /\ y.then = "over" /\ disk \in Disks
  BY RmIs, AskedIs
<1>2. Sound(Gone(disk, x.name), renewing)
  BY <1>1, FilesAre, SoundGone DEF Gone, Certified
<1>3. y.op = "remove"
  BY <1>1 DEF Steady, Same3
<1> HIDE DEF y, x
<1>4. Certified(y, Gone(disk, x.name), renewing)
  BY <1>1, <1>2, <1>3 DEF Certified, HoldsRoute, Awaits
<1> QED BY <1>1, <1>4 DEF y

LEMMA ReloadCertified ==
  ASSUME Typed, NEW j \in Requests, Reload(j), Certified(job[j], disk, renewing), Steady(job[j])
  PROVE  Certified(job'[j], disk', renewing')
<1> DEFINE x == job[j]
<1> DEFINE y == job'[j]
<1>1. disk' = disk /\ renewing' = renewing /\ x.at = "test" /\ x.then \in Thens
  BY ReloadIs
<1>2. CASE y = Idle
  <2>1. Sound(disk, renewing)
    BY DEF Certified
  <2> QED BY <1>1, <1>2, <2>1, CertifiedIdle
<1>3. CASE x.then # "over" /\ Same3(x, y) /\ y.at = x.then /\ y.file = x.file /\ y.then = x.then
  <2>1. y.at = "reach" => y.op = "alias"
    BY <1>1, <1>3 DEF Steady, Same3
  <2> HIDE DEF y, x
  <2>2. Certified(y, disk, renewing)
    BY <1>1, <1>3, <2>1 DEF Certified, HoldsRoute, Awaits, Thens, Same3, x
  <2> QED BY <1>1, <2>2 DEF y
<1> QED BY <1>2, <1>3, ReloadIs

LEMMA BackCertified ==
  ASSUME Typed, Theirs, NEW j \in Requests, Refused(j) \/ RefusedTakeOver(j),
         Certified(job[j], disk, renewing)
  PROVE  Certified(job'[j], disk', renewing')
<1> DEFINE x == job[j]
<1>1. renewing' = renewing /\ x.at = "test" /\ job'[j] = Idle
  BY BackIs
<1>2. disk \in Disks /\ Sound(disk, renewing)
  BY <1>1, AskedIs DEF Certified
<1>3. Sound(disk', renewing)
  <2>1. CASE x.file = NoName /\ disk' = disk
    BY <1>2, <2>1
  <2>2. CASE x.file \in Names /\ disk' = Put(disk, Vhost(x.file), x.before)
    <3>1. x.file # NoName
      BY <2>2, RoutesAssumption
    <3> QED BY <1>1, <2>2, <3>1 DEF Certified, Undone
  <2>3. CASE x.name \in Names /\ disk' = Gone(disk, x.name)
    BY <1>2, <2>3, FilesAre, SoundGone DEF Gone
  <2>4. CASE x.op = "takeover" /\ disk' = Restored(disk, x.name)
    BY <1>1, <2>4 DEF Certified
  <2> QED BY <2>1, <2>2, <2>3, <2>4, BackIs
<1> QED BY <1>1, <1>3, CertifiedIdle

LEMMA RetireCertified ==
  ASSUME Typed, NEW j \in Requests, Retire(j) \/ DropCertificate(j), Certified(job[j], disk, renewing)
  PROVE  Certified(job'[j], disk', renewing')
<1> DEFINE x == job[j]
<1>1. disk' = disk /\ job'[j] = Idle
  BY JobIs DEF Retire, DropCertificate, Over
<1>2. Sound(disk, renewing)
  BY DEF Certified
<1>3. CASE DropCertificate(j)
  <2>1. renewing' = renewing
    BY <1>3 DEF DropCertificate
  <2> QED BY <1>1, <1>2, <2>1, CertifiedIdle
<1>4. CASE Retire(j)
  <2>1. x.at = "retire" /\ renewing' = renewing \ {x.arg}
    BY <1>4 DEF Retire
  <2>2. Unread(disk, x.arg)
    BY <2>1 DEF Certified
  <2>3. Sound(disk, renewing \ {x.arg})
    BY <1>2, <2>2 DEF Sound, Renewed, Unread
  <2> QED BY <1>1, <2>1, <2>3, CertifiedIdle
<1> QED BY <1>3, <1>4

\* A file edited by hand is read the same, whatever the request holds.
LEMMA SameCertified ==
  ASSUME NEW d \in Disks, NEW e \in Disks, Same(d, e), NEW R, NEW x \in Request, Placed(x),
         Certified(x, d, R)
  PROVE  Certified(x, e, R)
<1>1. Sound(e, R)
  BY SameSound DEF Certified
<1>2. HoldsRoute(x) => Same(Written(x, d), Written(x, e))
  <2> SUFFICES ASSUME HoldsRoute(x) PROVE Same(Written(x, d), Written(x, e))
    OBVIOUS
  <2>1. Place(x) \in Names /\ x.route \in Contents
    BY DEF HoldsRoute, Place, Placed, Request, Awaits
  <2>2. Vhost(Place(x)) \in Files
    BY <2>1, FilesAre
  <2> QED BY <2>1, <2>2, SamePut DEF Written
<1>3. x.at = "test" /\ x.file # NoName => Same(Undone(x, d), Undone(x, e))
  <2> SUFFICES ASSUME x.at = "test", x.file # NoName PROVE Same(Undone(x, d), Undone(x, e))
    OBVIOUS
  <2>1. x.file \in Names /\ x.before \in Contents \cup {NoFile}
    BY DEF Request
  <2>2. Vhost(x.file) \in Files
    BY <2>1, FilesAre
  <2> QED BY <2>1, <2>2, SamePut DEF Undone
<1>4. x.name \in Names => Same(Restored(d, x.name), Restored(e, x.name))
  <2> SUFFICES ASSUME x.name \in Names PROVE Same(Restored(d, x.name), Restored(e, x.name))
    OBVIOUS
  <2> DEFINE f == Vhost(x.name)
  <2> DEFINE h == <<"hand", x.name>>
  <2>1. f \in Files /\ h \in Files /\ NoFile \in Contents \cup {NoFile}
        /\ Initial[h] \in Contents \cup {NoFile}
    BY FilesAre, RoutesAssumption
  <2> HIDE DEF f, h
  <2>2. Same(Put(d, f, NoFile), Put(e, f, NoFile)) /\ Put(d, f, NoFile) \in Disks
        /\ Put(e, f, NoFile) \in Disks
    BY <2>1, SamePut, PutIs
  <2>3. Same(Put(Put(d, f, NoFile), h, Initial[h]), Put(Put(e, f, NoFile), h, Initial[h]))
    BY <2>1, <2>2, SamePut
  <2> QED BY <2>3 DEF Restored, Gone, f, h
<1>5. x.op = "takeover" /\ x.at \in {"write", "test"} => Sound(Restored(e, x.name), R)
  <2> SUFFICES ASSUME x.op = "takeover", x.at \in {"write", "test"} PROVE Sound(Restored(e, x.name), R)
    OBVIOUS
  <2>1. x.name \in Names /\ Sound(Restored(d, x.name), R)
    BY DEF Placed, Certified
  <2> QED BY <1>4, <2>1, SameSound
<1>6. x.at = "move" => /\ DOMAIN x.route.aliases = {}
                       /\ FromCertbot(x.route.cert) =>
                            \E f \in Claims(e, x.name) : CertIn(e, f, x.name) = x.route.cert
  <2>1. \A n : Claims(e, n) = Claims(d, n)
    BY SameClaims
  <2>2. \A n : \A f \in Claims(d, n) : CertIn(e, f, n) = CertIn(d, f, n)
    BY DEF Same, Claims
  <2> QED BY <2>1, <2>2 DEF Certified
<1>7. HoldsRoute(x) => Sound(Written(x, e), R)
  BY <1>2, SameSound DEF Certified
<1>8. x.at = "test" /\ x.file # NoName => Sound(Undone(x, e), R)
  BY <1>3, SameSound DEF Certified
<1>9. /\ x.then = "retire" /\ (x.at = "write" \/ Awaits(x)) => Unread(Written(x, e), x.arg)
      /\ x.then = "reach" /\ (x.at = "write" \/ Awaits(x)) => NotCertbots(Written(x, e), x.arg)
  BY <1>2, SameSound DEF Certified, HoldsRoute
<1>10. /\ (x.then = "retire" /\ x.at = "test") \/ x.at = "retire" => Unread(e, x.arg)
       /\ (x.then = "reach" /\ x.at = "test") \/ (x.at = "reach" /\ x.op # "tls") => NotCertbots(e, x.arg)
  BY SameSound DEF Certified
<1> QED BY <1>1, <1>5, <1>6, <1>7, <1>8, <1>9, <1>10 DEF Certified

LEMMA QuietCertified ==
  ASSUME Typed, NEW j \in Requests, j # Retrier, Quiet(j), job'[j] \in Request, Placed(job'[j]),
         Steady(job[j]), Certified(job[j], disk, renewing)
  PROVE  Certified(job'[j], disk', renewing')
<1> DEFINE x == job[j]
<1> DEFINE y == job'[j]
<1>1. UNCHANGED world /\ Planned(disk, x, y) /\ Good(j, y)
  BY QuietPlanned
<1>2. Steady(y) /\ Steady(x) /\ TakingOver(x)
  BY SteadyQuiet DEF Steady
<1>3. /\ disk' = disk /\ renewing' = renewing /\ disk \in Disks /\ x.route \in Contents
      /\ y.route \in Contents /\ Placed(x)
  BY <1>1, TypedIs DEF world, WorldTyped, Request
<1>4. y.at # "test" /\ (y.op = "takeover" => y.at \in {"asked", "move"})
  BY <1>1, <1>2 DEF Good
<1> HIDE DEF x, y
<1>5. Placed(y) /\ Certified(x, disk, renewing)
  BY DEF x, y
<1>6. Certified(y, disk, renewing)
  BY <1>1, <1>2, <1>3, <1>4, <1>5, PlannedCertified
<1> QED BY <1>3, <1>6 DEF y

LEMMA HandEditSame ==
  ASSUME Typed, NEW n \in Names, NEW t \in Targets, HandEdit(n, t)
  PROVE  /\ Same(disk, disk') /\ disk' \in Disks
         /\ UNCHANGED <<loaded, renewing, aside, job, crashes>>
<1> DEFINE f == Vhost(n)
<1> DEFINE b == disk[f]
<1>1. f \in Files /\ disk \in Disks
  BY FilesAre, TypedIs DEF WorldTyped
<1>2. PICK c \in Contents : /\ disk' = Put(disk, f, c) /\ b \in Contents
                            /\ c.cert = b.cert /\ c.aliases = b.aliases
                            /\ UNCHANGED <<loaded, renewing, aside, job, crashes>>
  BY HandEdited DEF Put
<1>3. Same(Put(disk, f, b), Put(disk, f, c))
  <2> HIDE DEF f, b
  <2> QED BY <1>1, <1>2, PutAlike
<1>4. Put(disk, f, b) = disk
  BY <1>1 DEF Put, Disks
<1>5. disk' \in Disks
  <2> HIDE DEF f, b
  <2> QED BY <1>1, <1>2, PutIs
<1> QED BY <1>2, <1>3, <1>4, <1>5

\* The inductive invariant.
Kept ==
  /\ Sound(disk, renewing)
  /\ \A j \in Requests : Steady(job[j]) /\ Certified(job[j], disk, renewing)

LEMMA KeptBy ==
  ASSUME OneAtATime, NEW j \in Requests, Steady(job'[j]), Certified(job'[j], disk', renewing')
  PROVE  Kept'
BY DEF OneAtATime, Kept, Certified

LEMMA NextKept ==
  ASSUME OneAtATime, Retrier \notin Requests, Typed, Typed', Theirs, Kept, [Next]_vars
  PROVE  Kept'
<1>1. ASSUME NEW j \in Requests PROVE /\ Steady(job[j]) /\ Certified(job[j], disk, renewing)
                                      /\ Sound(disk, renewing) /\ job[j] \in Request /\ Placed(job[j])
                                      /\ job'[j] \in Request /\ Placed(job'[j]) /\ j # Retrier
  BY TypedIs DEF Kept, Certified, Typed
<1>2. ASSUME NEW j \in Requests, Quiet(j) PROVE Kept'
  BY <1>1, <1>2, QuietCertified, SteadyQuiet, KeptBy
<1>3. ASSUME NEW j \in Requests, Issued(j) \/ MoveAside(j) \/ WriteVhost(j) \/ RemoveVhost(j) \/ Reload(j)
      PROVE  Kept'
  <2>1. Steady(job'[j])
    BY <1>1, <1>3, SteadyStep
  <2>2. job'[j].route \in Contents
    BY <1>1 DEF Request
  <2>3. Certified(job'[j], disk', renewing')
    BY <1>1, <1>3, <2>2, IssuedCertified, MovedCertified, WroteCertified, RmCertified, ReloadCertified
  <2> QED BY <2>1, <2>3, KeptBy
<1>4. ASSUME NEW j \in Requests, Refused(j) \/ RefusedTakeOver(j) PROVE Kept'
  <2>1. job'[j] = Idle
    BY <1>4, BackIs
  <2>2. Certified(job'[j], disk', renewing')
    BY <1>1, <1>4, BackCertified
  <2> QED BY <2>1, <2>2, SteadyIdle, KeptBy
<1>5. ASSUME NEW j \in Requests, Retire(j) \/ DropCertificate(j) PROVE Kept'
  <2>1. job'[j] = Idle
    BY <1>5, JobIs DEF Retire, DropCertificate, Over
  <2>2. Certified(job'[j], disk', renewing')
    BY <1>1, <1>5, RetireCertified
  <2> QED BY <2>1, <2>2, SteadyIdle, KeptBy
<1>6. ASSUME UNCHANGED <<disk, renewing, job>> PROVE Kept'
  BY <1>6 DEF Kept
<1>7. ASSUME NEW n \in Names, NEW t \in Targets, HandEdit(n, t) PROVE Kept'
  <2>1. Same(disk, disk') /\ disk' \in Disks /\ UNCHANGED <<renewing, job>> /\ disk \in Disks
    BY <1>7, HandEditSame, TypedIs DEF WorldTyped
  <2>2. \A j \in Requests : Certified(job[j], disk', renewing)
    BY <1>1, <2>1, SameCertified
  <2>3. Sound(disk', renewing)
    BY <2>1, SameSound DEF Kept
  <2> QED BY <1>1, <2>1, <2>2, <2>3 DEF Kept
<1>8. CASE Restart
  <2>1. UNCHANGED <<disk, renewing>> /\ \A j \in Requests : job'[j] = Idle
    BY <1>8 DEF Restart, world
  <2>2. Sound(disk', renewing') /\ Certified(Idle, disk', renewing')
    BY <2>1, CertifiedIdle DEF Kept
  <2> QED BY <2>1, <2>2, SteadyIdle DEF Kept
<1>9. ASSUME NEW j \in Requests, RetryLook(j) PROVE Kept'
  BY <1>1, <1>9 DEF RetryLook
<1>10. ASSUME NEW n \in Names, PointDNS(n) PROVE Kept'
  BY <1>6, <1>10 DEF PointDNS, world
<1>11. CASE UNCHANGED vars
  BY <1>6, <1>11 DEF vars
<1>12. ASSUME NEW j \in Requests, AskAnything(j) \/ Accepted(j) \/ Step(j) \/ Issued(j)
                                 \/ Reload(j) \/ RetryNext(j)
       PROVE  Kept'
  BY <1>2, <1>3, <1>4, <1>5, <1>12 DEF Step, Quiet
<1> QED BY <1>7, <1>8, <1>9, <1>10, <1>11, <1>12 DEF Next, Retry

\* With one request at a time, and nothing the agent retries between them, whoever
\* edits by hand, cancels or restarts the agent: certbot goes on renewing each
\* certificate of its own that some vhost reads. At first a name read from
\* certbot's is claimed by one file, and is the own name of a file of croft's.
THEOREM CertbotsAreRenewed ==
  (\A i, j \in Requests : i = j) /\ Retrier \notin Requests /\ Lone(Initial)
    => (Spec => []StillRenewed)
<1> SUFFICES ASSUME OneAtATime, Retrier \notin Requests, Lone(Initial) PROVE Spec => []StillRenewed
  BY DEF OneAtATime
<1>1. Init => Typed /\ Theirs /\ Kept
  <2> SUFFICES ASSUME Init PROVE Typed /\ Theirs /\ Kept
    OBVIOUS
  <2>1. Theirs /\ Typed
    BY InitFine DEF Init, Theirs, HandFilesKept
  <2>2. Renewed(disk, renewing)
    <3>1. renewing = CertbotNames
      BY DEF Init
    <3> QED BY <3>1 DEF Renewed
  <2>3. Sound(disk, renewing)
    BY <2>2 DEF Init, Sound
  <2>4. \A j \in Requests : job[j] = Idle
    BY DEF Init
  <2> QED BY <2>1, <2>3, <2>4, CertifiedIdle, SteadyIdle DEF Kept
<1>2. Typed /\ Theirs /\ Kept /\ [Next]_vars => (Typed /\ Theirs /\ Kept)'
  BY NextFine, NextTheirs, NextKept
<1>3. Kept => StillRenewed
  BY DEF Kept, Sound, Renewed, StillRenewed
<1> QED BY <1>1, <1>2, <1>3, PTL DEF Spec

----------------------------------------------------------------------------
(* What is on https stays there, for requests that come one at a time and no      *)
(* restart of the agent.                                                        *)

\* Nothing that f alone serves over https is over http in what c says instead.
Upgrades(d, f, c) ==
  \A n \in NamesFrom(c, f[2]) :
    Claims(d, n) = {f} /\ CertIn(d, f, n) # NoCert => CertFrom(c, f[2], n) # NoCert

\* A file that says c says of its names what nginx loaded.
Alike(c, l) == c # NoFile => l # NoFile /\ c.cert = l.cert /\ c.aliases = l.aliases

AllAlike(d, l) == \A f \in Files : Alike(d[f], l[f])

\* What the one request x holds takes no name from https; and only the file that is
\* being tested says anything else than what nginx loaded, and what comes back if it
\* is refused does not.
Follows(x, d, l) ==
  /\ HoldsRoute(x) => Upgrades(d, Vhost(Place(x)), x.route)
  /\ x.at = "move" => /\ DOMAIN x.route.aliases = {}
                      /\ x.name \in NamesIn(d, Vhost(x.name)) /\ CertIn(d, Vhost(x.name), x.name) # NoCert
                           => x.route.cert # NoCert
  /\ \A f \in Files : (x.at = "test" /\ f = Vhost(x.file)) \/ Alike(d[f], l[f])
  /\ x.at = "test" /\ x.file # NoName => Alike(x.before, l[Vhost(x.file)])
  /\ x.op = "takeover" /\ x.at \in {"write", "test"} =>
       Alike(Initial[<<"hand", x.name>>], l[<<"hand", x.name>>])

LEMMA UpgradesSame ==
  ASSUME NEW d, NEW e, Same(d, e), NEW f \in Files, NEW c, Upgrades(d, f, c)
  PROVE  Upgrades(e, f, c)
<1>1. \A n : Claims(e, n) = Claims(d, n)
  BY SameClaims
<1>2. \A n : Claims(d, n) = {f} => n \in NamesIn(d, f)
  BY DEF Claims
<1>3. \A n : Claims(d, n) = {f} => CertIn(e, f, n) = CertIn(d, f, n)
  BY <1>2 DEF Same
<1> QED BY <1>1, <1>3 DEF Upgrades

\* Disks that say what nginx loaded claim what it serves, over the certificate it
\* serves it with.
LEMMA AlikeReads ==
  ASSUME NEW d, NEW l, AllAlike(d, l)
  PROVE  /\ \A n : Claims(d, n) \subseteq Claims(l, n)
         /\ \A n : \A f \in Claims(d, n) : CertIn(d, f, n) = CertIn(l, f, n)
<1>1. ASSUME NEW f \in Files PROVE NamesIn(d, f) \subseteq NamesIn(l, f)
  BY DEF AllAlike, Alike, NamesIn
<1>2. ASSUME NEW f \in Files, NEW n \in NamesIn(d, f) PROVE CertIn(d, f, n) = CertIn(l, f, n)
  BY DEF AllAlike, Alike, NamesIn, CertIn
<1> QED BY <1>1, <1>2 DEF Claims

\* A name that nginx serves over https from one file is over https in what is
\* alike.
LEMMA AlikeStays ==
  ASSUME NEW d \in Disks, NEW l \in Disks, AllAlike(d, l), NEW n, NEW f, Claims(l, n) = {f},
         CertOf(l, n) # NoCert, Claims(d, n) # {}
  PROVE  Claims(d, n) = {f} /\ CertIn(d, f, n) # NoCert /\ CertOf(d, n) # NoCert
<1>1. Claims(d, n) = {f}
  BY AlikeReads
<1>2. CertIn(l, f, n) = CertOf(l, n) /\ CertOf(d, n) = CertIn(d, f, n)
  BY <1>1, CertOfClaims
<1> QED BY <1>1, <1>2, AlikeReads

\* A file that is written over what is alike.
LEMMA UpgradeStays ==
  ASSUME NEW d \in Disks, NEW l \in Disks, AllAlike(d, l), NEW n, NEW f, Claims(l, n) = {f},
         CertOf(l, n) # NoCert, Claims(d, n) # {},
         NEW g \in Files, NEW c \in Contents, Upgrades(d, g, c), Claims(Put(d, g, c), n) # {}
  PROVE  CertOf(Put(d, g, c), n) # NoCert
<1> DEFINE e == Put(d, g, c)
<1>1. Claims(d, n) = {f} /\ CertIn(d, f, n) # NoCert /\ f \in Files
  BY AlikeStays DEF Claims
<1>2. /\ e \in Disks /\ NamesIn(e, g) = NamesFrom(c, g[2]) /\ CertIn(e, g, n) = CertFrom(c, g[2], n)
      /\ \A h \in Files \ {g} : NamesIn(e, h) = NamesIn(d, h) /\ CertIn(e, h, n) = CertIn(d, h, n)
  BY PutReads
<1> HIDE DEF e
<1>3. CASE f # g
  <2>1. f \in Claims(e, n) /\ CertIn(e, f, n) # NoCert
    BY <1>1, <1>2, <1>3 DEF Claims
  <2> QED BY <1>2, <2>1, CertOfClaims DEF e
<1>4. CASE f = g
  <2>1. \A h \in Claims(e, n) : h = g
    BY <1>1, <1>2, <1>4 DEF Claims
  <2>2. g \in Claims(e, n) /\ n \in NamesFrom(c, g[2])
    BY <1>2, <2>1 DEF Claims, e
  <2>3. CertIn(e, g, n) # NoCert
    BY <1>1, <1>2, <1>4, <2>2 DEF Upgrades
  <2> QED BY <1>2, <2>2, <2>3, CertOfClaims DEF e
<1> QED BY <1>3, <1>4

\* A file that goes, or says what nginx loaded, leaves the disk alike.
LEMMA PutAlikes ==
  ASSUME NEW d \in Disks, NEW l, NEW f \in Files, NEW c \in Contents \cup {NoFile}, Alike(c, l[f]),
         \A g \in Files : g = f \/ Alike(d[g], l[g])
  PROVE  AllAlike(Put(d, f, c), l)
<1>1. Put(d, f, c)[f] = c /\ \A g \in Files \ {f} : Put(d, f, c)[g] = d[g]
  BY PutReads
<1> QED BY <1>1 DEF AllAlike

LEMMA GoneAlikes ==
  ASSUME NEW d \in Disks, NEW l, NEW f \in Files, AllAlike(d, l)
  PROVE  AllAlike(Put(d, f, NoFile), l)
<1>1. Alike(NoFile, l[f])
  BY DEF Alike
<1> QED BY <1>1, PutAlikes DEF AllAlike

LEMMA RewriteUpgrades ==
  ASSUME NEW d \in Disks, NEW n \in Names, NEW c \in Contents,
         Claims(d, n) = {Vhost(n)} /\ CertOf(d, n) # NoCert => c.cert # NoCert,
         \A m \in (DOMAIN c.aliases) \ {n} :
           Claims(d, m) = {Vhost(n)} /\ CertOf(d, m) # NoCert => c.aliases[m] # NoCert
  PROVE  Upgrades(d, Vhost(n), c)
<1> DEFINE f == Vhost(n)
<1>1. f \in Files /\ f[2] = n /\ c # NoFile
  BY FilesAre, NoFileAssumption
<1>2. NamesFrom(c, f[2]) = {n} \cup DOMAIN c.aliases /\ CertFrom(c, f[2], n) = c.cert
      /\ \A m : m # n => CertFrom(c, f[2], m) = c.aliases[m]
  BY <1>1 DEF NamesFrom, CertFrom
<1>3. \A m : Claims(d, m) = {f} => CertOf(d, m) = CertIn(d, f, m)
  BY CertOfClaims
<1> HIDE DEF f
<1>4. ASSUME NEW m \in NamesFrom(c, f[2]), Claims(d, m) = {f}, CertIn(d, f, m) # NoCert
      PROVE  CertFrom(c, f[2], m) # NoCert
  <2>1. CertOf(d, m) # NoCert
    BY <1>3, <1>4
  <2>2. CASE m = n
    BY <1>2, <1>4, <2>1, <2>2 DEF f
  <2>3. CASE m # n
    <3>1. m \in (DOMAIN c.aliases) \ {n}
      BY <1>2, <1>4, <2>3
    <3>2. c.aliases[m] # NoCert
      BY <1>4, <2>1, <3>1 DEF f
    <3> QED BY <1>2, <2>3, <3>2
  <2> QED BY <2>2, <2>3
<1> QED BY <1>4 DEF Upgrades, f

\* A name that one file of croft's claims is a domain, or an alias of the name the
\* file is called after.
LEMMA AloneIs ==
  ASSUME NEW d \in Disks, NEW n \in Names, NEW m, Claims(d, m) = {Vhost(n)}
  PROVE  /\ m = n => IsDomain(d, m)
         /\ \A k : k # n => ~AliasOf(d, m, k)
         /\ ~IsDomain(d, m) => AliasOf(d, m, n)
<1>1. FileOf(d, m) = Vhost(n)
  BY ReadFrom
<1>2. Vhost(n)[1] = "croft" /\ Vhost(n)[2] = n /\ \A k : Vhost(k) = Vhost(n) => k = n
  BY DEF Vhost
<1>3. \A k : AliasOf(d, m, k) => FileOf(d, m) = Vhost(k) /\ m # k
  BY DEF AliasOf
<1>4. IsDomain(d, m) <=> ~AliasOf(d, m, n)
  BY <1>1, <1>2 DEF IsDomain
<1> QED BY <1>1, <1>2, <1>3, <1>4

LEMMA PlannedUpgrades ==
  ASSUME NEW d \in Disks, NEW x, NEW y, y.route \in Contents, Placed(y), Planned(d, x, y),
         HoldsRoute(y), x.route \in Contents, Placed(x),
         HoldsRoute(x) => Upgrades(d, Vhost(Place(x)), x.route)
  PROVE  Upgrades(d, Vhost(Place(y)), y.route)
<1>1. y.name \in Names /\ Place(y) \in Names /\ y.at \in {"write", "issue", "reach", "asked"}
  BY DEF Placed, HoldsRoute, Place, Awaits
<1>2. ASSUME NEW n \in Names, Place(y) = n,
             Claims(d, n) = {Vhost(n)} /\ CertOf(d, n) # NoCert => y.route.cert # NoCert,
             \A m \in (DOMAIN y.route.aliases) \ {n} :
               Claims(d, m) = {Vhost(n)} /\ CertOf(d, m) # NoCert => y.route.aliases[m] # NoCert
      PROVE  Upgrades(d, Vhost(Place(y)), y.route)
  BY <1>2, RewriteUpgrades
<1>3. CASE y = Idle
  BY <1>3, IdleIs DEF HoldsRoute, Awaits
<1>4. CASE AskedFor(d, y)
  <2>1. Place(y) = y.name /\ y.op \in RouteOps
    BY <1>4 DEF AskedFor, HoldsRoute, Awaits, Place
  <2>2. CASE y.op \in {"add", "service"}
    <3>1. ~IsDomain(d, y.name) /\ DOMAIN y.route.aliases = {}
      BY <1>4, <2>2 DEF AskedFor
    <3>2. Claims(d, y.name) # {Vhost(y.name)}
      BY <1>1, <3>1, AloneIs
    <3> QED BY <1>1, <1>2, <2>1, <3>1, <3>2
  <2>3. CASE y.op \in {"edit", "path"}
    <3>1. y.route.cert = CertOf(d, y.name) /\ ReadAliases(d, y.name, y.route)
      BY <1>4, <2>3 DEF AskedFor
    <3> QED BY <1>1, <1>2, <2>1, <3>1 DEF ReadAliases
  <2> QED BY <2>1, <2>2, <2>3 DEF RouteOps
<1>5. CASE WritesAsked(x, y)
  <2>1. HoldsRoute(x) /\ Place(x) = y.file /\ Place(y) = y.file /\ y.route.cert = x.route.cert
        /\ y.route.aliases = x.route.aliases
    BY <1>5 DEF WritesAsked, HoldsRoute, Place, Same3
  <2>2. x.route # NoFile /\ y.route # NoFile
    BY NoFileAssumption
  <2> QED BY <2>1, <2>2 DEF Upgrades, NamesFrom, CertFrom
<1>6. CASE Promotes(d, x, y)
  <2> DEFINE s == y.file
  <2> DEFINE n == x.name
  <2>1. Place(y) = s /\ s \in AliasNames(d, n) /\ DOMAIN y.route.aliases = AliasNames(d, n) \ {s}
    BY <1>6 DEF Promotes, Place
  <2>2. \A m \in AliasNames(d, n) : AliasOf(d, m, n)
    BY DEF AliasNames
  <2>3. s # n /\ s \in Names
    BY <2>1 DEF AliasNames, AliasOf
  <2> HIDE DEF s, n
  <2>4. \A m \in AliasNames(d, n) : Claims(d, m) # {Vhost(s)}
    BY <2>2, <2>3, AloneIs
  <2> QED BY <1>1, <1>2, <2>1, <2>4
<1>7. CASE Removes(d, x, y)
  BY <1>7 DEF Removes, HoldsRoute, Awaits
<1>8. CASE Joins(d, x, y)
  <2> DEFINE n == x.name
  <2> DEFINE a == x.arg
  <2>1. n \in Names /\ Place(y) = n /\ a \in Names
    BY <1>1, <1>8 DEF Joins, Same3, Place, Placed
  <2>2. /\ y.route.cert = CertOf(d, n) /\ DOMAIN y.route.aliases = AliasNames(d, n) \cup {a}
        /\ \A m \in AliasNames(d, n) \ {a} : y.route.aliases[m] = CertOf(d, m)
        /\ ~IsDomain(d, a) /\ (a \in AliasNames(d, n) => CertOf(d, a) = NoCert)
    BY <1>8 DEF Joins
  <2> HIDE DEF n, a
  <2>3. Claims(d, a) = {Vhost(n)} => CertOf(d, a) = NoCert
    BY <2>1, <2>2, AloneIs DEF AliasNames
  <2> QED BY <1>2, <2>1, <2>2, <2>3
<1>9. CASE Leaves(d, x, y)
  <2> DEFINE n == x.name
  <2>1. n \in Names /\ Place(y) = n
    BY <1>1, <1>9 DEF Leaves, Same3, Place
  <2>2. /\ y.route.cert = CertOf(d, n) /\ DOMAIN y.route.aliases = AliasNames(d, n) \ {x.arg}
        /\ \A m \in AliasNames(d, n) \ {x.arg} : y.route.aliases[m] = CertOf(d, m)
    BY <1>9 DEF Leaves
  <2> QED BY <1>2, <2>1, <2>2
<1>10. CASE TakesOver(d, x, y)
  BY <1>10 DEF TakesOver, HoldsRoute, Awaits
<1>11. CASE Secures(d, x, y)
  <2> DEFINE n == x.name
  <2>1. n \in Names /\ Place(y) = n /\ y.route.cert # NoCert /\ ReadAliases(d, n, y.route)
    BY <1>1, <1>11, CertNames DEF Secures, Place
  <2> QED BY <1>2, <2>1 DEF ReadAliases
<1>12. CASE Exposes(d, x, y)
  <2> DEFINE n == x.name
  <2>1. n \in Names /\ Place(y) = n /\ y.route.cert # NoCert /\ DOMAIN y.route.aliases = {}
    BY <1>1, <1>12, CertNames DEF Exposes, Place, Same3
  <2> QED BY <1>2, <2>1
<1>13. CASE Certifies(d, x, y)
  <2> DEFINE n == x.name
  <2> DEFINE a == x.arg
  <2>1. n \in Names /\ Place(y) = n
    BY <1>1, <1>13 DEF Certifies, Same3, Place
  <2>2. /\ y.route.cert = CertOf(d, n) /\ DOMAIN y.route.aliases = AliasNames(d, n) \cup {a}
        /\ \A m \in AliasNames(d, n) \ {a} : y.route.aliases[m] = CertOf(d, m)
        /\ y.route.aliases[a] # NoCert
    BY <1>13, CertNames DEF Certifies
  <2> HIDE DEF n, a
  <2> QED BY <1>2, <2>1, <2>2
<1>14. CASE Reached(x, y)
  <2>1. HoldsRoute(x) /\ Place(y) = Place(x) /\ y.route = x.route
    BY <1>14 DEF Reached, HoldsRoute, Awaits, Place
  <2> QED BY <2>1
<1> QED BY <1>3, <1>4, <1>5, <1>6, <1>7, <1>8, <1>9, <1>10, <1>11, <1>12, <1>13, <1>14 DEF Planned

LEMMA AlikeFollows ==
  ASSUME NEW d, NEW l, AllAlike(d, l)
  PROVE  Follows(Idle, d, l)
BY IdleIs DEF Follows, HoldsRoute, Awaits, AllAlike

LEMMA QuietFollows ==
  ASSUME Typed, NEW j \in Requests, Quiet(j), job'[j] \in Request, Placed(job'[j]),
         Steady(job[j]), Follows(job[j], disk, loaded)
  PROVE  Follows(job'[j], disk', loaded')
<1> DEFINE x == job[j]
<1> DEFINE y == job'[j]
<1>1. UNCHANGED world /\ Good(j, y) /\ x.at \notin {"test", "write"}
      /\ (Planned(disk, x, y) \/ Retries(y))
  BY QuietPlanned
<1>2. TakingOver(x)
  BY DEF Steady
<1>3. /\ disk' = disk /\ loaded' = loaded /\ disk \in Disks /\ x.route \in Contents
      /\ y.route \in Contents /\ Placed(x)
  BY <1>1, TypedIs DEF world, WorldTyped, Request
<1>4. y.at # "test" /\ (y.op = "takeover" => y.at \in {"asked", "move"})
  BY <1>1, <1>2 DEF Good
<1> HIDE DEF x, y
<1>5. Placed(y) /\ Follows(x, disk, loaded)
  BY DEF x, y
<1>6. HoldsRoute(y) => Upgrades(disk, Vhost(Place(y)), y.route)
  <2>1. CASE Retries(y)
    BY <2>1 DEF Retries, HoldsRoute, Awaits
  <2>2. CASE Planned(disk, x, y)
    BY <1>3, <1>5, <2>2, PlannedUpgrades DEF Follows
  <2> QED BY <1>1, <2>1, <2>2
<1>7. ASSUME y.at = "move"
      PROVE  DOMAIN y.route.aliases = {} /\ y.route.cert = CertOf(disk, y.name)
  <2>1. Planned(disk, x, y)
    BY <1>1, <1>7 DEF Retries
  <2>2. TakesOver(disk, x, y)
    BY <1>7, <2>1, IdleIs DEF Planned, AskedFor, WritesAsked, Promotes, Removes, Joins, Leaves,
                              Secures, Exposes, Certifies, Reached
  <2> QED BY <2>2 DEF TakesOver, Same3
<1>8. y.name \in NamesIn(disk, Vhost(y.name)) /\ CertIn(disk, Vhost(y.name), y.name) # NoCert
      /\ Vhost(y.name) \in Files => CertOf(disk, y.name) # NoCert
  BY <1>3, CertOfClaims DEF Claims
<1>9. y.at = "move" => Vhost(y.name) \in Files
  BY <1>5, FilesAre DEF Placed
<1>10. \A f \in Files : Alike(disk[f], loaded[f])
  BY <1>1, <1>5 DEF Follows, x
<1>11. Follows(y, disk, loaded)
  BY <1>4, <1>6, <1>7, <1>8, <1>9, <1>10 DEF Follows
<1> QED BY <1>3, <1>11 DEF y

LEMMA IssuedFollows ==
  ASSUME Typed, NEW j \in Requests, Issued(j), Follows(job[j], disk, loaded), Steady(job[j])
  PROVE  Follows(job'[j], disk', loaded')
<1> DEFINE x == job[j]
<1> DEFINE y == job'[j]
<1>1. /\ disk' = disk /\ loaded' = loaded /\ x.at = "issue" /\ Same3(x, y) /\ y.at = "write"
      /\ y.file = x.file /\ y.route = x.route
  BY IssuedIs
<1>2. Follows(x, disk, loaded) /\ x.op # "takeover"
  BY <1>1 DEF Steady, TakingOver
<1> HIDE DEF x, y
<1>3. HoldsRoute(x) /\ Place(y) = Place(x)
  BY <1>1 DEF Awaits, HoldsRoute, Place
<1>4. Follows(y, disk, loaded)
  BY <1>1, <1>2, <1>3 DEF Follows, Same3
<1> QED BY <1>1, <1>4 DEF y

LEMMA MovedFollows ==
  ASSUME Typed, Theirs, NEW j \in Requests, MoveAside(j), Follows(job[j], disk, loaded),
         job'[j].route \in Contents, Steady(job[j])
  PROVE  Follows(job'[j], disk', loaded')
<1> DEFINE x == job[j]
<1> DEFINE y == job'[j]
<1> DEFINE n == x.name
<1> DEFINE h == <<"hand", n>>
<1> DEFINE f == Vhost(n)
<1> DEFINE e == Put(disk, h, NoFile)
<1>1. loaded' = loaded /\ x.at = "move" /\ n \in Names /\ disk \in Disks /\ AllAlike(disk, loaded)
      /\ h \in Files /\ f \in Files /\ h # f /\ f[2] = n
  BY MovedIs, AskedIs, FilesAre DEF Follows, AllAlike
<1>2. CASE y = Idle /\ disk' = disk
  BY <1>1, <1>2, AlikeFollows
<1>3. CASE /\ disk[h] # NoFile /\ disk' = e /\ Same3(x, y) /\ y.at = "write" /\ y.file = n
           /\ y.then = "over" /\ y.route.cert = x.route.cert /\ y.route.aliases = x.route.aliases
  <2> DEFINE c == y.route
  <2>1. Alike(Initial[h], loaded[h])
    BY <1>1, <1>3 DEF Theirs, AllAlike
  <2>2. DOMAIN c.aliases = {} /\ c \in Contents
        /\ (n \in NamesIn(disk, f) /\ CertIn(disk, f, n) # NoCert => c.cert # NoCert)
    BY <1>1, <1>3 DEF Follows
  <2>3. y.name = n
    BY <1>3 DEF Same3
  <2> HIDE DEF c, h, f, n, x
  <2>4. AllAlike(e, loaded)
    BY <1>1, GoneAlikes
  <2>5. NamesIn(e, f) = NamesIn(disk, f) /\ CertIn(e, f, n) = CertIn(disk, f, n)
    <3>1. NoFile \in Contents \cup {NoFile}
      OBVIOUS
    <3> QED BY <1>1, <3>1, PutReads
  <2> HIDE DEF e
  <2>6. NamesFrom(c, f[2]) \subseteq {n} /\ CertFrom(c, f[2], n) = c.cert
    BY <1>1, <2>2 DEF NamesFrom, CertFrom
  <2>7. Claims(e, n) = {f} => n \in NamesIn(e, f)
    BY DEF Claims
  <2>8. Upgrades(e, f, c)
    BY <2>2, <2>5, <2>6, <2>7 DEF Upgrades
  <2>9. Place(y) = n /\ y.at = "write"
    BY <1>3 DEF Place
  <2>10. Upgrades(e, Vhost(Place(y)), y.route)
    BY <2>8, <2>9 DEF c, f
  <2>11. Alike(Initial[<<"hand", y.name>>], loaded[<<"hand", y.name>>])
    BY <2>1, <2>3 DEF h
  <2> HIDE DEF y
  <2>12. Follows(y, e, loaded)
    BY <2>4, <2>9, <2>10, <2>11 DEF Follows, AllAlike
  <2> QED BY <1>1, <1>3, <2>12 DEF y
<1> QED BY <1>2, <1>3, MovedIs

LEMMA WroteFollows ==
  ASSUME Typed, NEW j \in Requests, WriteVhost(j), Follows(job[j], disk, loaded), Steady(job[j])
  PROVE  Follows(job'[j], disk', loaded')
<1> DEFINE x == job[j]
<1> DEFINE y == job'[j]
<1> DEFINE f == Vhost(x.file)
<1> DEFINE e == Put(disk, f, x.route)
<1>1. /\ loaded' = loaded /\ x.at = "write" /\ f \in Files /\ x.route \in Contents
      /\ disk' = e /\ Same3(x, y) /\ y.at = "test" /\ y.file = x.file
      /\ y.before = disk[f] /\ disk \in Disks
  BY WroteIs, AskedIs
<1> HIDE DEF y, x, f
<1>2. \A g \in Files : Alike(disk[g], loaded[g])
  BY <1>1 DEF Follows, x
<1>3. \A g \in Files \ {f} : e[g] = disk[g]
  BY <1>1, PutReads
<1>4. y.op = "takeover" => Alike(Initial[<<"hand", y.name>>], loaded[<<"hand", y.name>>])
  BY <1>1 DEF Follows, Same3, x
<1> HIDE DEF e
<1>5. Follows(y, e, loaded)
  BY <1>1, <1>2, <1>3, <1>4 DEF Follows, HoldsRoute, Awaits, f
<1> QED BY <1>1, <1>5 DEF y

LEMMA RmFollows ==
  ASSUME Typed, NEW j \in Requests, RemoveVhost(j), Follows(job[j], disk, loaded), Steady(job[j])
  PROVE  Follows(job'[j], disk', loaded') /\ AllAlike(disk', loaded')
<1> DEFINE x == job[j]
<1> DEFINE y == job'[j]
<1> DEFINE e == Gone(disk, x.name)
<1>1. /\ loaded' = loaded /\ x.at = "rm" /\ x.name \in Names /\ disk' = e
      /\ Same3(x, y) /\ y.at = "test" /\ y.file = NoName /\ disk \in Disks
  BY RmIs, AskedIs
<1>2. AllAlike(disk, loaded)
  BY <1>1 DEF Follows, AllAlike
<1>3. AllAlike(e, loaded)
  BY <1>1, <1>2, FilesAre, GoneAlikes DEF Gone
<1>4. y.op = "remove"
  BY <1>1 DEF Steady, Same3
<1> HIDE DEF y, x, e
<1>5. Follows(y, e, loaded)
  BY <1>1, <1>3, <1>4 DEF Follows, HoldsRoute, Awaits, AllAlike
<1> QED BY <1>1, <1>3, <1>5 DEF y

LEMMA ReloadFollows ==
  ASSUME Typed, NEW j \in Requests, Reload(j), Steady(job[j])
  PROVE  Follows(job'[j], disk', loaded')
<1> DEFINE x == job[j]
<1> DEFINE y == job'[j]
<1>1. disk' = disk /\ loaded' = disk /\ x.at = "test" /\ x.then \in Thens
  BY ReloadIs
<1>2. AllAlike(disk, disk)
  BY DEF AllAlike, Alike
<1>3. CASE y = Idle
  BY <1>1, <1>2, <1>3, AlikeFollows
<1>4. CASE x.then # "over" /\ Same3(x, y) /\ y.at = x.then
  <2>1. (y.at = "reach" => y.op = "alias") /\ y.op # "takeover"
    BY <1>1, <1>4 DEF Steady, Same3, TakingOver
  <2> HIDE DEF y, x
  <2>2. Follows(y, disk, disk)
    BY <1>1, <1>2, <1>4, <2>1 DEF Follows, HoldsRoute, Awaits, Thens, AllAlike
  <2> QED BY <1>1, <2>2 DEF y
<1> QED BY <1>3, <1>4, ReloadIs

LEMMA BackFollows ==
  ASSUME Typed, Theirs, NEW j \in Requests, Refused(j) \/ RefusedTakeOver(j),
         Follows(job[j], disk, loaded), Steady(job[j])
  PROVE  Follows(job'[j], disk', loaded') /\ AllAlike(disk', loaded')
<1> DEFINE x == job[j]
<1>1. loaded' = loaded /\ x.at = "test" /\ job'[j] = Idle /\ disk \in Disks
  BY BackIs, AskedIs
<1>2. \A f \in Files : f = Vhost(x.file) \/ Alike(disk[f], loaded[f])
  BY <1>1 DEF Follows
<1>3. ASSUME x.op = "takeover", x.name \in Names
      PROVE  AllAlike(Gone(disk, x.name), loaded) /\ AllAlike(Restored(disk, x.name), loaded)
  <2> DEFINE f == Vhost(x.name)
  <2> DEFINE h == <<"hand", x.name>>
  <2>1. f \in Files /\ h \in Files /\ x.file = x.name /\ Alike(Initial[h], loaded[h])
        /\ NoFile \in Contents \cup {NoFile} /\ Initial[h] \in Contents \cup {NoFile}
    BY <1>1, <1>3, FilesAre, RoutesAssumption DEF Follows, Steady
  <2>2. Alike(NoFile, loaded[f])
    BY DEF Alike
  <2>3. \A g \in Files : g = f \/ Alike(disk[g], loaded[g])
    BY <1>2, <2>1
  <2> HIDE DEF f, h
  <2>4. AllAlike(Put(disk, f, NoFile), loaded) /\ Put(disk, f, NoFile) \in Disks
    BY <1>1, <2>1, <2>2, <2>3, PutAlikes, PutIs
  <2>5. AllAlike(Put(Put(disk, f, NoFile), h, Initial[h]), loaded)
    BY <2>1, <2>4, PutAlikes DEF AllAlike
  <2> QED BY <2>4, <2>5 DEF Gone, Restored, f, h
<1>4. AllAlike(disk', loaded)
  <2>1. CASE x.file = NoName /\ disk' = disk
    <3>1. \A f \in Files : f # Vhost(x.file)
      BY <2>1, RoutesAssumption DEF Files, Vhost
    <3> QED BY <1>2, <2>1, <3>1 DEF AllAlike
  <2>2. CASE /\ x.file \in Names /\ x.before \in Contents \cup {NoFile}
             /\ disk' = Put(disk, Vhost(x.file), x.before)
    <3>1. x.file # NoName /\ Vhost(x.file) \in Files
      BY <2>2, RoutesAssumption, FilesAre
    <3>2. Alike(x.before, loaded[Vhost(x.file)])
      BY <1>1, <3>1 DEF Follows
    <3> QED BY <1>1, <1>2, <2>2, <3>1, <3>2, PutAlikes
  <2>3. CASE x.op = "takeover" /\ x.name \in Names
             /\ (disk' = Gone(disk, x.name) \/ disk' = Restored(disk, x.name))
    BY <1>3, <2>3
  <2> QED BY <2>1, <2>2, <2>3, BackIs
<1> QED BY <1>1, <1>4, AlikeFollows

\* A file edited by hand says of its names what it said.
LEMMA EditedFollows ==
  ASSUME Typed, NEW n \in Names, NEW t \in Targets, HandEdit(n, t)
  PROVE  /\ \A f \in Files : Alike(disk[f], loaded[f]) => Alike(disk'[f], loaded'[f])
         /\ \A x : Follows(x, disk, loaded) /\ Placed(x) => Follows(x, disk', loaded')
<1> DEFINE f == Vhost(n)
<1>1. f \in Files /\ disk \in Disks
  BY FilesAre, TypedIs DEF WorldTyped
<1>2. PICK c \in Contents : /\ disk' = Put(disk, f, c) /\ disk[f] \in Contents
                            /\ c.cert = disk[f].cert /\ c.aliases = disk[f].aliases
                            /\ loaded' = loaded
  BY HandEdited DEF Put
<1>3. Same(disk, disk')
  BY HandEditSame
<1>4. \A g \in Files : (g = f /\ disk'[g] = c) \/ (g # f /\ disk'[g] = disk[g])
  BY <1>1, <1>2, PutReads
<1> HIDE DEF f
<1>5. ASSUME NEW g \in Files, Alike(disk[g], loaded[g]) PROVE Alike(disk'[g], loaded'[g])
  BY <1>2, <1>4, <1>5, NoFileAssumption DEF Alike
<1>6. ASSUME NEW x, Follows(x, disk, loaded), Placed(x) PROVE Follows(x, disk', loaded')
  <2>1. HoldsRoute(x) => Vhost(Place(x)) \in Files
    BY <1>6, FilesAre DEF HoldsRoute, Place, Placed, Awaits
  <2>2. HoldsRoute(x) => Upgrades(disk', Vhost(Place(x)), x.route)
    BY <1>3, <1>6, <2>1, UpgradesSame DEF Follows
  <2>3. x.at = "move" => Vhost(x.name) \in Files
    BY <1>6, FilesAre DEF Placed
  <2>4. x.at = "move" /\ x.name \in NamesIn(disk', Vhost(x.name))
        => /\ x.name \in NamesIn(disk, Vhost(x.name))
           /\ CertIn(disk', Vhost(x.name), x.name) = CertIn(disk, Vhost(x.name), x.name)
    BY <1>3, <2>3 DEF Same
  <2>5. \A g \in Files : (x.at = "test" /\ g = Vhost(x.file)) \/ Alike(disk'[g], loaded'[g])
    BY <1>5, <1>6 DEF Follows
  <2> QED BY <1>2, <1>6, <2>2, <2>4, <2>5 DEF Follows
<1> QED BY <1>5, <1>6

\* What https keeps when the disk d, of which nginx loaded l, becomes e.
HttpsKept(d, l, e) ==
  \A n \in Served(d) \cap Served(e) :
    (CertOf(d, n) # NoCert /\ CertOf(l, n) # NoCert /\ Cardinality(Claims(l, n)) = 1)
      => CertOf(e, n) # NoCert

LEMMA AlikeKeeps ==
  ASSUME NEW d \in Disks, NEW l \in Disks, NEW e \in Disks,
         \/ e = d \/ AllAlike(e, l)
         \/ /\ AllAlike(d, l)
            /\ \E f \in Files : \E c \in Contents : Upgrades(d, f, c) /\ e = Put(d, f, c)
  PROVE  HttpsKept(d, l, e)
<1> SUFFICES ASSUME NEW n \in Served(d) \cap Served(e), CertOf(d, n) # NoCert, CertOf(l, n) # NoCert,
                    Cardinality(Claims(l, n)) = 1
             PROVE  CertOf(e, n) # NoCert
  BY DEF HttpsKept
<1>1. \E f : Claims(l, n) = {f}
  <2>1. Claims(l, n) \subseteq Files
    BY DEF Claims
  <2>2. IsFiniteSet(Claims(l, n))
    BY <2>1, FilesAreFinite, FS_Subset
  <2> QED BY <2>2, FS_Singleton
<1>2. Claims(d, n) # {} /\ Claims(e, n) # {}
  BY DEF Served
<1>3. CASE e = d
  BY <1>3
<1>4. CASE AllAlike(e, l)
  BY <1>1, <1>2, <1>4, AlikeStays
<1>5. ASSUME AllAlike(d, l), NEW f \in Files, NEW c \in Contents, Upgrades(d, f, c), e = Put(d, f, c)
      PROVE  CertOf(e, n) # NoCert
  BY <1>1, <1>2, <1>5, UpgradeStays
<1> QED BY <1>3, <1>4, <1>5

\* The inductive invariant.
Followed ==
  /\ (\A j \in Requests : job[j].at # "test") => AllAlike(disk, loaded)
  /\ \A j \in Requests : Steady(job[j]) /\ Follows(job[j], disk, loaded)
  /\ crashes = 0

LEMMA FollowedBy ==
  ASSUME OneAtATime, Followed, NEW j \in Requests, crashes' = crashes, Steady(job'[j]),
         Follows(job'[j], disk', loaded')
  PROVE  Followed'
<1>1. \A i \in Requests : i = j
  BY DEF OneAtATime
<1>2. job'[j].at # "test" => AllAlike(disk', loaded')
  BY DEF Follows, AllAlike
<1> QED BY <1>1, <1>2 DEF Followed

LEMMA QuietCrashes ==
  ASSUME NEW j \in Requests, Quiet(j)
  PROVE  crashes' = crashes
<1>1. CASE AskAnything(j)
  <2>1. \E op, n, g, r : Ask(j, op, n, g, r)
    BY <1>1 DEF AskAnything, AskAddRoute, AskEditRoute, AskSetPath, AskServiceDomain,
                AskRemovePath, AskRemoveRoute, AskTakeOver, AskEnableTLS, AskExpose,
                AskAddAlias, AskRemoveAlias
  <2> QED BY <2>1 DEF Ask
<1>2. CASE Accepted(j)
  BY <1>2 DEF Accepted, WriteRoute, RemoveRoute, AddAlias, RemoveAlias, TakeOverDomain,
              EnableTLS, Expose, Stay, counts
<1>3. CASE CertifyAlias(j) \/ CheckReach(j) \/ NotIssued(j) \/ CutShort(j) \/ RetryNext(j)
  BY <1>3 DEF CertifyAlias, CheckReach, NotIssued, CutShort, RetryNext, Stay, counts
<1> QED BY <1>1, <1>2, <1>3 DEF Quiet

LEMMA NextFollowed ==
  ASSUME OneAtATime, MaxCrashes = 0, Typed, Typed', Theirs, Followed, [Next]_vars
  PROVE  Followed' /\ HttpsKept(disk, loaded, disk')
<1>1. ASSUME NEW j \in Requests PROVE /\ Steady(job[j]) /\ Follows(job[j], disk, loaded)
                                      /\ job[j] \in Request /\ Placed(job[j])
                                      /\ job'[j] \in Request /\ Placed(job'[j])
                                      /\ job'[j].route \in Contents
  BY TypedIs DEF Followed, Typed, Request
<1>2. disk \in Disks /\ loaded \in Disks /\ disk' \in Disks
  BY DEF Typed, TypeOK, Disks
<1>3. disk' = disk => HttpsKept(disk, loaded, disk')
  BY DEF HttpsKept
<1>4. ASSUME NEW j \in Requests, Quiet(j) PROVE Followed' /\ disk' = disk
  <2>1. disk' = disk
    BY <1>4, QuietPlanned DEF world
  <2> QED BY <1>1, <1>4, <2>1, QuietFollows, SteadyQuiet, QuietCrashes, FollowedBy
<1>5. ASSUME NEW j \in Requests, Issued(j) \/ Reload(j) PROVE Followed' /\ disk' = disk
  <2>1. Steady(job'[j]) /\ disk' = disk /\ crashes' = crashes
    BY <1>1, <1>5, SteadyStep, IssuedIs, ReloadIs
  <2>2. Follows(job'[j], disk', loaded')
    BY <1>1, <1>5, IssuedFollows, ReloadFollows
  <2> QED BY <2>1, <2>2, FollowedBy
<1>6. ASSUME NEW j \in Requests, MoveAside(j) PROVE Followed' /\ HttpsKept(disk, loaded, disk')
  <2>1. Steady(job'[j]) /\ crashes' = crashes /\ loaded' = loaded
    BY <1>1, <1>6, SteadyStep, MovedIs
  <2>2. Follows(job'[j], disk', loaded')
    BY <1>1, <1>6, MovedFollows
  <2>3. job'[j].at # "test"
    BY <1>6, IdleIs, MovedIs
  <2>4. AllAlike(disk', loaded)
    BY <2>1, <2>2, <2>3 DEF Follows, AllAlike
  <2>5. HttpsKept(disk, loaded, disk')
    BY <1>2, <2>4, AlikeKeeps
  <2> QED BY <2>1, <2>2, <2>5, FollowedBy
<1>7. ASSUME NEW j \in Requests, WriteVhost(j) PROVE Followed' /\ HttpsKept(disk, loaded, disk')
  <2>1. Steady(job'[j]) /\ crashes' = crashes
    BY <1>1, <1>7, SteadyStep, WroteIs
  <2>2. Follows(job'[j], disk', loaded')
    BY <1>1, <1>7, WroteFollows
  <2> DEFINE x == job[j]
  <2>3. x.at = "write" /\ Vhost(x.file) \in Files /\ x.route \in Contents
        /\ disk' = Put(disk, Vhost(x.file), x.route)
    BY <1>7, WroteIs
  <2>4. AllAlike(disk, loaded) /\ Upgrades(disk, Vhost(x.file), x.route)
    BY <1>1, <2>3 DEF Follows, AllAlike, HoldsRoute, Place
  <2>5. HttpsKept(disk, loaded, disk')
    BY <1>2, <2>3, <2>4, AlikeKeeps
  <2> QED BY <2>1, <2>2, <2>5, FollowedBy
<1>8. ASSUME NEW j \in Requests, RemoveVhost(j) PROVE Followed' /\ HttpsKept(disk, loaded, disk')
  <2>1. Steady(job'[j]) /\ crashes' = crashes /\ loaded' = loaded
    BY <1>1, <1>8, SteadyStep, RmIs
  <2>2. Follows(job'[j], disk', loaded') /\ AllAlike(disk', loaded')
    BY <1>1, <1>8, RmFollows
  <2>3. HttpsKept(disk, loaded, disk')
    BY <1>2, <2>1, <2>2, AlikeKeeps
  <2> QED BY <2>1, <2>2, <2>3, FollowedBy
<1>9. ASSUME NEW j \in Requests, Refused(j) \/ RefusedTakeOver(j)
      PROVE  Followed' /\ HttpsKept(disk, loaded, disk')
  <2>1. job'[j] = Idle /\ crashes' = crashes /\ loaded' = loaded
    BY <1>9, BackIs
  <2>2. Follows(job'[j], disk', loaded') /\ AllAlike(disk', loaded')
    BY <1>1, <1>9, BackFollows
  <2>3. HttpsKept(disk, loaded, disk')
    BY <1>2, <2>1, <2>2, AlikeKeeps
  <2> QED BY <2>1, <2>2, <2>3, SteadyIdle, FollowedBy
<1>10. ASSUME NEW j \in Requests, Retire(j) \/ DropCertificate(j) PROVE Followed' /\ disk' = disk
  <2>1. job'[j] = Idle /\ disk' = disk /\ loaded' = loaded /\ crashes' = crashes /\ job[j].at # "test"
    BY <1>10, JobIs DEF Retire, DropCertificate, Over, counts
  <2>2. AllAlike(disk, loaded)
    BY <1>1, <2>1 DEF Follows, AllAlike
  <2>3. Follows(job'[j], disk', loaded')
    BY <2>1, <2>2, AlikeFollows
  <2> QED BY <2>1, <2>3, SteadyIdle, FollowedBy
<1>11. ASSUME UNCHANGED <<disk, loaded, job, crashes>> PROVE Followed' /\ disk' = disk
  BY <1>11 DEF Followed
<1>12. ASSUME NEW n \in Names, NEW t \in Targets, HandEdit(n, t)
       PROVE  Followed' /\ HttpsKept(disk, loaded, disk')
  <2>1. /\ Same(disk, disk') /\ UNCHANGED <<job, crashes>>
    BY <1>12, HandEditSame
  <2>2. /\ \A f \in Files : Alike(disk[f], loaded[f]) => Alike(disk'[f], loaded'[f])
        /\ \A x : Follows(x, disk, loaded) /\ Placed(x) => Follows(x, disk', loaded')
    BY <1>12, EditedFollows
  <2>3. Followed'
    BY <1>1, <2>1, <2>2 DEF Followed, AllAlike
  <2>4. ASSUME NEW m, CertOf(disk, m) # NoCert PROVE CertOf(disk', m) # NoCert
    <3>1. PICK f \in Claims(disk, m) : CertIn(disk, f, m) = CertOf(disk, m)
      BY <1>2, <2>4, CertOfClaims
    <3>2. f \in Files /\ m \in NamesIn(disk, f)
      BY DEF Claims
    <3>3. f \in Claims(disk', m) /\ CertIn(disk', f, m) = CertIn(disk, f, m)
      BY <2>1, <3>2 DEF Same, Claims
    <3> QED BY <1>2, <2>4, <3>1, <3>3, CertOfClaims
  <2>5. HttpsKept(disk, loaded, disk')
    BY <2>4 DEF HttpsKept
  <2> QED BY <2>3, <2>5
<1>13. ~Restart
  BY DEF Restart, Followed
<1>14. ASSUME NEW j \in Requests, RetryLook(j) PROVE Followed' /\ disk' = disk
  BY <1>11, <1>14 DEF RetryLook, world
<1>15. ASSUME NEW n \in Names, PointDNS(n) PROVE Followed' /\ disk' = disk
  BY <1>11, <1>15 DEF PointDNS, world
<1>16. CASE UNCHANGED vars
  BY <1>3, <1>11, <1>16 DEF vars
<1>17. ASSUME NEW j \in Requests, AskAnything(j) \/ Accepted(j) \/ Step(j) \/ Issued(j)
                                 \/ Reload(j) \/ RetryNext(j)
       PROVE  Followed' /\ HttpsKept(disk, loaded, disk')
  BY <1>3, <1>4, <1>5, <1>6, <1>7, <1>8, <1>9, <1>10, <1>17 DEF Step, Quiet
<1> QED BY <1>3, <1>12, <1>13, <1>14, <1>15, <1>16, <1>17 DEF Next, Retry

\* With one request at a time, whatever it is, refused, cancelled or not, whoever
\* edits by hand and whatever the agent retries, no name that nginx serves over https
\* from one file is written over http. A restart between a write and its reload, or
\* two requests, are enough to break it.
THEOREM HttpsIsKept ==
  (\A i, j \in Requests : i = j) /\ MaxCrashes = 0 => (Spec => HttpsStays)
<1> SUFFICES ASSUME OneAtATime, MaxCrashes = 0 PROVE Spec => HttpsStays
  BY DEF OneAtATime
<1>1. Init => Typed /\ Theirs /\ Followed
  <2> SUFFICES ASSUME Init PROVE Typed /\ Theirs /\ Followed
    OBVIOUS
  <2>1. Theirs /\ Typed
    BY InitFine DEF Init, Theirs, HandFilesKept
  <2>2. AllAlike(disk, loaded) /\ crashes = 0 /\ \A j \in Requests : job[j] = Idle
    BY DEF Init, AllAlike, Alike
  <2> QED BY <2>1, <2>2, AlikeFollows, SteadyIdle DEF Followed
<1>2. Typed /\ Theirs /\ Followed /\ [Next]_vars => (Typed /\ Theirs /\ Followed)'
  BY NextFine, NextTheirs, NextFollowed
<1>3. Typed /\ Theirs /\ Followed /\ [Next]_vars =>
        [\A n \in Served(disk) \cap Served(disk') :
           (CertOf(disk, n) # NoCert /\ CertOf(loaded, n) # NoCert /\ Cardinality(Claims(loaded, n)) = 1)
             => CertOf(disk', n) # NoCert]_vars
  BY NextFine, NextFollowed DEF HttpsKept
<1> QED BY <1>1, <1>2, <1>3, PTL DEF Spec, HttpsStays

----------------------------------------------------------------------------
(* No request takes a name that is not its own, for requests that come one at a     *)
(* time and are not cancelled, and no restart of the agent.                        *)

\* Somebody else's file shares its names with no other; a name two files of croft's
\* claim is the own name of one; and a file of croft's with other names is the one
\* its own name is read from.
HandAlone(d) == \A f \in Files : f[1] = "hand" => \A m \in NamesIn(d, f) : Claims(d, m) = {f}
Once(d) ==
  \A p, q \in Names : p # q =>
    \A m : m \in NamesIn(d, Vhost(p)) /\ m \in NamesIn(d, Vhost(q)) => m = p \/ m = q
Mine(d) == \A n \in Names : NamesIn(d, Vhost(n)) \subseteq {n} \/ FileOf(d, n) = Vhost(n)
Neat(d) == HandAlone(d) /\ Once(d) /\ Mine(d)

LEMMA FileKinds ==
  /\ \A f \in Files : f[2] \in Names /\ (f[1] = "hand" \/ f = Vhost(f[2]))
  /\ \A n \in Names : Vhost(n) \in Files /\ Vhost(n)[1] = "croft" /\ Vhost(n)[2] = n
                      /\ <<"hand", n>> \in Files /\ <<"hand", n>>[1] = "hand"
  /\ \A p, q : Vhost(p) = Vhost(q) => p = q
  /\ "hand" # "croft"
  /\ \A d : \A f \in Files : NamesIn(d, f) # {} => f[2] \in NamesIn(d, f)
  /\ \A d : \A n : NamesIn(d, Vhost(n)) # {} => n \in NamesIn(d, Vhost(n))
BY DEF Files, Vhost, NamesIn

LEMMA NeatSame ==
  ASSUME NEW d, NEW e, Same(d, e), Neat(d)
  PROVE  Neat(e)
<1>1. \A n : Claims(e, n) = Claims(d, n) /\ FileOf(e, n) = FileOf(d, n)
  BY SameClaims
<1>2. \A f \in Files : NamesIn(e, f) = NamesIn(d, f)
  BY DEF Same
<1>3. HandAlone(e)
  BY <1>1, <1>2 DEF Neat, HandAlone
<1>4. \A n \in Names : NamesIn(e, Vhost(n)) = NamesIn(d, Vhost(n))
  BY <1>2, FileKinds
<1>5. Once(e)
  BY <1>4 DEF Neat, Once
<1>6. Mine(e)
  BY <1>1, <1>4 DEF Neat, Mine
<1> QED BY <1>3, <1>5, <1>6 DEF Neat

\* What croft's own routes are read from.
LEMMA NeatReads ==
  ASSUME NEW d \in Disks, Neat(d), NEW n \in Names
  PROVE  /\ Ours(d, n) => FileOf(d, n) = Vhost(n) /\ n \in NamesIn(d, Vhost(n))
                          /\ \A g \in Claims(d, n) : Listed(Vhost(n), g)
         /\ \A m \in NamesIn(d, Vhost(n)) : FileOf(d, n) = Vhost(n) /\ m # n =>
              m \in AliasNames(d, n) \/ (m \in Names /\ m \in NamesIn(d, Vhost(m)))
         /\ \A m \in AliasNames(d, n) : m \in NamesIn(d, Vhost(n)) /\ m # n /\ FileOf(d, m) = Vhost(n)
                                        /\ m \in Names
         /\ ~IsDomain(d, n) => /\ \A g \in Claims(d, n) : g[1] # "hand"
                               /\ NamesIn(d, Vhost(n)) \subseteq {n}
                               /\ Claims(d, n) = {} \/ \E k \in Domains(d) : AliasOf(d, n, k)
         /\ \A m \in NamesIn(d, Vhost(n)) : \A g \in Claims(d, m) : g[1] # "hand"
<1>1. \A m : \A g \in Claims(d, m) : g[1] = "hand" => Claims(d, m) = {g}
  BY DEF Neat, HandAlone, Claims
<1>2. ASSUME NEW m, NEW g \in Claims(d, m), g[1] = "hand" PROVE FileOf(d, m) = g /\ IsDomain(d, m)
  <2>1. Claims(d, m) = {g}
    BY <1>1, <1>2
  <2> QED BY <1>2, <2>1, ReadFrom DEF IsDomain
<1>3. \A m : m \in NamesIn(d, Vhost(n)) => Vhost(n) \in Claims(d, m)
  BY FileKinds DEF Claims
<1>4. \A m \in NamesIn(d, Vhost(n)) : \A g \in Claims(d, m) : g[1] # "hand"
  <2>1. ASSUME NEW m \in NamesIn(d, Vhost(n)), NEW g \in Claims(d, m), g[1] = "hand" PROVE FALSE
    <3>1. Vhost(n) = g
      BY <1>1, <1>3, <2>1
    <3> QED BY <2>1, <3>1, FileKinds
  <2> QED BY <2>1
<1>5. ASSUME Ours(d, n)
      PROVE  FileOf(d, n) = Vhost(n) /\ n \in NamesIn(d, Vhost(n))
             /\ \A g \in Claims(d, n) : Listed(Vhost(n), g)
  <2> DEFINE f == FileOf(d, n)
  <2>1. f \in Claims(d, n) /\ f \in Files /\ n \in NamesIn(d, f)
        /\ \A g \in Claims(d, n) : Listed(f, g)
    BY <1>5, ReadFrom DEF Ours, IsDomain
  <2>2. f[1] # "hand"
    BY <1>5 DEF Ours, StateOf
  <2>3. f = Vhost(f[2]) /\ f[2] \in Names
    BY <2>1, <2>2, FileKinds
  <2>4. ~AliasOf(d, n, f[2])
    BY <1>5, <2>2 DEF Ours, IsDomain
  <2> DEFINE k == f[2]
  <2>5. n # k => FileOf(d, k) = Vhost(k)
    BY <2>1, <2>3 DEF Neat, Mine
  <2>6. n = k
    BY <2>1, <2>3, <2>4, <2>5 DEF AliasOf
  <2> QED BY <2>1, <2>3, <2>6
<1>6. ASSUME NEW m \in NamesIn(d, Vhost(n)), FileOf(d, n) = Vhost(n), m # n
      PROVE  m \in AliasNames(d, n) \/ (m \in Names /\ m \in NamesIn(d, Vhost(m)))
  <2> DEFINE f == FileOf(d, m)
  <2>1. m \in Names
    BY <1>6, NamesInAre, FileKinds
  <2>2. f \in Files /\ f \in Claims(d, m) /\ m \in NamesIn(d, f)
    BY <1>3, <1>6, ReadFrom
  <2>3. f = Vhost(f[2]) /\ f[2] \in Names
    BY <1>4, <1>6, <2>2, FileKinds
  <2>4. CASE f[2] = n
    BY <1>6, <2>1, <2>3, <2>4 DEF AliasNames, AliasOf
  <2>5. CASE f[2] # n
    <3>1. m = n \/ m = f[2]
      BY <1>6, <2>2, <2>3, <2>5 DEF Neat, Once
    <3> QED BY <1>6, <2>1, <2>2, <2>3, <3>1
  <2> QED BY <2>4, <2>5
<1>7. \A m \in AliasNames(d, n) : m \in NamesIn(d, Vhost(n)) /\ m # n /\ FileOf(d, m) = Vhost(n)
                                  /\ m \in Names
  BY DEF AliasNames, AliasOf
<1>8. ASSUME ~IsDomain(d, n)
      PROVE  /\ \A g \in Claims(d, n) : g[1] # "hand"
             /\ NamesIn(d, Vhost(n)) \subseteq {n}
             /\ Claims(d, n) = {} \/ \E k \in Domains(d) : AliasOf(d, n, k)
  <2>1. \A g \in Claims(d, n) : g[1] # "hand"
    BY <1>2, <1>8
  <2>2. NamesIn(d, Vhost(n)) \subseteq {n}
    <3> SUFFICES ASSUME ~(NamesIn(d, Vhost(n)) \subseteq {n}) PROVE FALSE
      OBVIOUS
    <3>1. FileOf(d, n) = Vhost(n)
      BY DEF Neat, Mine
    <3>2. n \in NamesIn(d, Vhost(n))
      <4>1. NamesIn(d, Vhost(n)) # {}
        OBVIOUS
      <4> QED BY <4>1, FileKinds
    <3>3. Claims(d, n) # {}
      BY <1>3, <3>2
    <3>4. ~AliasOf(d, n, Vhost(n)[2])
      BY FileKinds DEF AliasOf
    <3> QED BY <1>8, <3>1, <3>3, <3>4 DEF IsDomain
  <2>3. ASSUME Claims(d, n) # {} PROVE \E k \in Domains(d) : AliasOf(d, n, k)
    <3> DEFINE k == FileOf(d, n)[2]
    <3>1. AliasOf(d, n, k)
      BY <1>8, <2>3 DEF IsDomain
    <3>2. FileOf(d, n) \in Claims(d, n) /\ FileOf(d, n) \in Files
      BY <2>3, ReadFrom
    <3>3. k \in Names
      BY <3>2, FileKinds
    <3>4. FileOf(d, k) = Vhost(k) /\ k \in NamesIn(d, Vhost(k))
      BY <3>1, <3>3, FileKinds DEF AliasOf
    <3>5. Claims(d, k) # {}
      BY <3>3, <3>4, FileKinds DEF Claims
    <3>6. ~AliasOf(d, k, Vhost(k)[2])
      BY <3>3, FileKinds DEF AliasOf
    <3>7. IsDomain(d, k)
      BY <3>4, <3>5, <3>6 DEF IsDomain
    <3> QED BY <3>1, <3>3, <3>7 DEF Domains
  <2> QED BY <2>1, <2>2, <2>3
<1> QED BY <1>4, <1>5, <1>6, <1>7, <1>8

\* A file that is written leaves the files neat.
LEMMA NeatPut ==
  ASSUME NEW d \in Disks, Neat(d), NEW p \in Names, NEW c \in Contents,
         \A m \in NamesFrom(c, p) : \A g \in Claims(d, m) : g[1] # "hand",
         \A m \in NamesFrom(c, p) : \A q \in Names \ {p} :
           m \in NamesIn(d, Vhost(q)) => m = p \/ m = q,
         NamesFrom(c, p) \subseteq {p} \/ \A g \in Claims(d, p) : Listed(Vhost(p), g),
         \A k \in NamesFrom(c, p) \ {p} :
           k \in NamesIn(d, Vhost(p)) \/ NamesIn(d, Vhost(k)) \subseteq {k}
  PROVE  Neat(Put(d, Vhost(p), c))
<1> DEFINE f == Vhost(p)
<1> DEFINE e == Put(d, f, c)
<1>1. f \in Files /\ f[2] = p /\ f[1] # "hand" /\ p \in NamesFrom(c, p)
  BY FileKinds, NoFileAssumption DEF NamesFrom
<1>2. NamesIn(e, f) = NamesFrom(c, p) /\ \A g \in Files \ {f} : NamesIn(e, g) = NamesIn(d, g)
  <2>1. c \in Contents \cup {NoFile}
    OBVIOUS
  <2> HIDE DEF f
  <2> QED BY <1>1, <2>1, PutReads
<1> HIDE DEF e
<1>3. \A q \in Names \ {p} : Vhost(q) \in Files /\ Vhost(q) # f /\ NamesIn(e, Vhost(q)) = NamesIn(d, Vhost(q))
  BY <1>2, FileKinds
<1> HIDE DEF f
<1>4. \A m : \A g \in Files \ {f} : g \in Claims(e, m) <=> g \in Claims(d, m)
  BY <1>2 DEF Claims
<1>5. \A m : f \in Claims(e, m) <=> m \in NamesFrom(c, p)
  BY <1>1, <1>2 DEF Claims
<1>6. \A m : Claims(e, m) \subseteq Files /\ Claims(d, m) \subseteq Files
  BY DEF Claims
<1>7. HandAlone(e)
  <2> SUFFICES ASSUME NEW g \in Files, g[1] = "hand", NEW m \in NamesIn(e, g)
               PROVE  Claims(e, m) = {g}
    BY DEF HandAlone
  <2>1. g # f /\ m \in NamesIn(d, g)
    BY <1>1, <1>2
  <2>2. Claims(d, m) = {g}
    BY <2>1 DEF Neat, HandAlone
  <2>3. m \notin NamesFrom(c, p)
    BY <2>2
  <2> QED BY <1>4, <1>5, <1>6, <2>1, <2>2, <2>3
<1>8. Once(e)
  <2> SUFFICES ASSUME NEW a \in Names, NEW b \in Names, a # b, NEW m,
                      m \in NamesIn(e, Vhost(a)), m \in NamesIn(e, Vhost(b))
               PROVE  m = a \/ m = b
    BY DEF Once
  <2>1. CASE a = p
    BY <1>2, <1>3, <2>1 DEF f
  <2>2. CASE b = p
    BY <1>2, <1>3, <2>2 DEF f
  <2>3. CASE a # p /\ b # p
    BY <1>3, <2>3 DEF Neat, Once
  <2> QED BY <2>1, <2>2, <2>3
<1>9. Mine(e)
  <2> SUFFICES ASSUME NEW k \in Names, ~(NamesIn(e, Vhost(k)) \subseteq {k})
               PROVE  FileOf(e, k) = Vhost(k)
    BY DEF Mine
  <2>1. CASE k = p
    <3>1. \A g \in Claims(d, p) : Listed(f, g)
      BY <1>2, <2>1 DEF f
    <3>2. Listed(f, f)
      BY DEF Listed
    <3>3. f \in Claims(e, p) /\ \A g \in Claims(e, p) : Listed(f, g)
      BY <1>1, <1>4, <1>5, <1>6, <3>1, <3>2
    <3>4. FileOf(e, p) = f
      BY <3>3, ReadFrom
    <3> QED BY <2>1, <3>4 DEF f
  <2>2. CASE k # p
    <3> DEFINE h == Vhost(k)
    <3>1. h \in Files /\ h # f /\ NamesIn(e, h) = NamesIn(d, h)
      BY <1>3, <2>2
    <3>2. FileOf(d, k) = h /\ k \in NamesIn(d, h)
      <4>1. ~(NamesIn(d, h) \subseteq {k}) /\ h[2] = k
        BY <3>1, FileKinds
      <4>2. NamesIn(d, h) # {}
        BY <4>1
      <4> QED BY <3>1, <4>1, <4>2, FileKinds DEF Neat, Mine
    <3>3. f \in Claims(e, k) => f \in Claims(d, k)
      BY <1>1, <1>5, <2>2, <3>1 DEF Claims, f
    <3>4. h \in Claims(e, k) /\ h \in Claims(d, k)
      BY <3>1, <3>2 DEF Claims
    <3>5. \A g \in Claims(d, k) : Listed(h, g)
      BY <3>2, <3>4, ReadFrom
    <3>6. Claims(e, k) \subseteq Claims(d, k)
      BY <1>4, <1>6, <3>3
    <3> HIDE DEF h
    <3>7. FileOf(e, k) = h
      BY <3>4, <3>5, <3>6, ReadFrom
    <3> QED BY <3>7 DEF h
  <2> QED BY <2>1, <2>2
<1> QED BY <1>7, <1>8, <1>9 DEF Neat, e, f

\* A file that goes leaves the others neat.
LEMMA NeatGone ==
  ASSUME NEW d \in Disks, Neat(d), NEW f \in Files
  PROVE  Neat(Put(d, f, NoFile))
<1> DEFINE e == Put(d, f, NoFile)
<1>1. NamesIn(e, f) = {} /\ \A g \in Files \ {f} : NamesIn(e, g) = NamesIn(d, g)
  <2>1. NoFile \in Contents \cup {NoFile} /\ NamesFrom(NoFile, f[2]) = {}
    BY DEF NamesFrom
  <2> QED BY <2>1, PutReads
<1> HIDE DEF e
<1>2. \A m : Claims(e, m) = Claims(d, m) \ {f}
  BY <1>1 DEF Claims
<1>3. \A g \in Files : NamesIn(e, g) \subseteq NamesIn(d, g)
  BY <1>1
<1>4. HandAlone(e)
  <2> SUFFICES ASSUME NEW g \in Files, g[1] = "hand", NEW m \in NamesIn(e, g) PROVE Claims(e, m) = {g}
    BY DEF HandAlone
  <2>1. g # f /\ m \in NamesIn(d, g)
    BY <1>1
  <2>2. Claims(d, m) = {g}
    BY <2>1 DEF Neat, HandAlone
  <2> QED BY <1>2, <2>1, <2>2
<1>5. \A n \in Names : NamesIn(e, Vhost(n)) \subseteq NamesIn(d, Vhost(n))
  BY <1>3, FileKinds
<1>6. Once(e)
  BY <1>5 DEF Neat, Once
<1>7. Mine(e)
  <2> SUFFICES ASSUME NEW k \in Names, ~(NamesIn(e, Vhost(k)) \subseteq {k})
               PROVE  FileOf(e, k) = Vhost(k)
    BY DEF Mine
  <2> DEFINE h == Vhost(k)
  <2>1. NamesIn(e, h) # {} /\ ~(NamesIn(d, h) \subseteq {k}) /\ h \in Files
    BY <1>5, FileKinds
  <2>2. FileOf(d, k) = h /\ k \in NamesIn(e, h)
    BY <2>1, FileKinds DEF Neat, Mine
  <2> HIDE DEF h
  <2>3. h \in Claims(e, k) /\ h \in Claims(d, k)
    BY <1>2, <2>1, <2>2 DEF Claims
  <2>4. \A g \in Claims(e, k) : Listed(h, g)
    BY <1>2, <2>2, <2>3, ReadFrom
  <2>5. FileOf(e, k) = h
    BY <2>3, <2>4, ReadFrom
  <2> QED BY <2>5 DEF h
<1> QED BY <1>4, <1>6, <1>7 DEF Neat, e

\* What a write takes.
LEMMA PutLoses ==
  ASSUME NEW d \in Disks, NEW f \in Files, NEW c \in Contents \cup {NoFile}, NEW m
  PROVE  /\ m \in Served(d) \ Served(Put(d, f, c)) => m \in Names /\ m \in NamesIn(d, f)
                                                      /\ Claims(d, m) = {f} /\ m \notin NamesFrom(c, f[2])
         /\ m \in Served(Put(d, f, c)) => m \in Served(d) \/ m \in NamesFrom(c, f[2])
<1> DEFINE e == Put(d, f, c)
<1>1. NamesIn(e, f) = NamesFrom(c, f[2]) /\ \A g \in Files \ {f} : NamesIn(e, g) = NamesIn(d, g)
  BY PutReads
<1> HIDE DEF e
<1>2. \A g \in Files \ {f} : g \in Claims(e, m) <=> g \in Claims(d, m)
  BY <1>1 DEF Claims
<1>3. Claims(d, m) \subseteq Files /\ Claims(e, m) \subseteq Files
      /\ (f \in Claims(e, m) <=> m \in NamesFrom(c, f[2])) /\ (f \in Claims(d, m) <=> m \in NamesIn(d, f))
  BY <1>1 DEF Claims
<1>4. m \in Served(d) \ Served(e) => m \in Names /\ Claims(d, m) # {} /\ Claims(e, m) = {}
  BY DEF Served
<1>5. m \in Served(e) => m \in Names /\ Claims(e, m) # {}
  BY DEF Served
<1>6. m \in Names /\ Claims(d, m) # {} => m \in Served(d)
  BY DEF Served
<1> QED BY <1>2, <1>3, <1>4, <1>5, <1>6 DEF e

LEMMA NotOwn ==
  ASSUME NEW d, NEW m \in Names, NEW n, m # n, Claims(d, m) = {Vhost(n)}
  PROVE  m \notin NamesIn(d, Vhost(m))
<1>1. Vhost(m) \in Files /\ Vhost(m) # Vhost(n)
  BY DEF Vhost, Files
<1> QED BY <1>1 DEF Claims

\* A route of croft's written again, with names it has, or nobody has, takes no
\* name but those it leaves out.
LEMMA RewriteNeat ==
  ASSUME NEW d \in Disks, Neat(d), NEW n \in Names, Ours(d, n), NEW c \in Contents,
         \A m \in DOMAIN c.aliases : m \in NamesIn(d, Vhost(n)) \/ Claims(d, m) = {}
  PROVE  /\ Neat(Put(d, Vhost(n), c))
         /\ \A m \in Served(d) \ Served(Put(d, Vhost(n), c)) : m \in AliasNames(d, n) \ DOMAIN c.aliases
<1> DEFINE f == Vhost(n)
<1>1. f \in Files /\ f[2] = n /\ NamesFrom(c, n) = {n} \cup DOMAIN c.aliases
  BY FileKinds, NoFileAssumption DEF NamesFrom
<1>2. FileOf(d, n) = f /\ n \in NamesIn(d, f) /\ \A g \in Claims(d, n) : Listed(f, g)
  BY NeatReads
<1>3. \A m \in NamesFrom(c, n) : m \in NamesIn(d, f) \/ Claims(d, m) = {}
  BY <1>1, <1>2
<1>4. \A m \in NamesIn(d, f) : \A g \in Claims(d, m) : g[1] # "hand"
  BY NeatReads
<1>5. \A m \in NamesFrom(c, n) : \A q \in Names \ {n} :
        m \in NamesIn(d, Vhost(q)) => m = n \/ m = q
  <2> SUFFICES ASSUME NEW m \in NamesFrom(c, n), NEW q \in Names \ {n}, m \in NamesIn(d, Vhost(q))
               PROVE  m = n \/ m = q
    OBVIOUS
  <2>1. Vhost(q) \in Claims(d, m)
    BY FileKinds DEF Claims
  <2>2. m \in NamesIn(d, f)
    BY <1>3, <2>1
  <2> QED BY <2>2 DEF Neat, Once
<1>6. \A k \in NamesFrom(c, n) \ {n} : k \in NamesIn(d, f) \/ NamesIn(d, Vhost(k)) \subseteq {k}
  <2> SUFFICES ASSUME NEW k \in NamesFrom(c, n), k \notin NamesIn(d, f) PROVE NamesIn(d, Vhost(k)) = {}
    OBVIOUS
  <2>1. Claims(d, k) = {}
    BY <1>3
  <2>2. k \in Names
    BY <1>1 DEF Contents, Aliases
  <2>3. k \notin NamesIn(d, Vhost(k))
    BY <2>1, <2>2, FileKinds DEF Claims
  <2> QED BY <2>3, FileKinds
<1> HIDE DEF f
<1>7. Neat(Put(d, f, c))
  BY <1>2, <1>3, <1>4, <1>5, <1>6, NeatPut DEF f
<1>8. ASSUME NEW m \in Served(d) \ Served(Put(d, f, c)) PROVE m \in AliasNames(d, n) \ DOMAIN c.aliases
  <2>1. m \in Names /\ m \in NamesIn(d, f) /\ Claims(d, m) = {f} /\ m # n /\ m \notin DOMAIN c.aliases
    BY <1>1, <1>8, PutLoses
  <2>2. m \in AliasNames(d, n) \/ m \in NamesIn(d, Vhost(m))
    BY <1>2, <2>1, NeatReads DEF f
  <2>3. m \notin NamesIn(d, Vhost(m))
    BY <2>1, NotOwn DEF f
  <2> QED BY <2>1, <2>2, <2>3
<1> QED BY <1>7, <1>8 DEF f

\* A route for a name that is nobody's domain takes nothing.
LEMMA AddNeat ==
  ASSUME NEW d \in Disks, Neat(d), NEW n \in Names, ~IsDomain(d, n), NEW c \in Contents,
         DOMAIN c.aliases = {}
  PROVE  Neat(Put(d, Vhost(n), c)) /\ Served(d) \subseteq Served(Put(d, Vhost(n), c))
<1>1. NamesFrom(c, n) = {n} /\ Vhost(n) \in Files /\ Vhost(n)[2] = n
  BY FileKinds, NoFileAssumption DEF NamesFrom
<1>2. (\A g \in Claims(d, n) : g[1] # "hand") /\ NamesIn(d, Vhost(n)) \subseteq {n}
  BY NeatReads
<1>3. Neat(Put(d, Vhost(n), c))
  BY <1>1, <1>2, NeatPut
<1>4. Served(d) \subseteq Served(Put(d, Vhost(n), c))
  BY <1>1, <1>2, PutLoses
<1> QED BY <1>3, <1>4

\* A file of croft's that goes takes its own names only, if the others of its names are
\* in what stays.
LEMMA GoneLoses ==
  ASSUME NEW d \in Disks, Neat(d), NEW n \in Names, Ours(d, n)
  PROVE  \A m \in Served(d) \ Served(Gone(d, n)) : m = n \/ m \in AliasNames(d, n)
<1> SUFFICES ASSUME NEW m \in Served(d) \ Served(Gone(d, n)), m # n PROVE m \in AliasNames(d, n)
  OBVIOUS
<1>1. NoFile \in Contents \cup {NoFile} /\ Vhost(n) \in Files
  BY FileKinds
<1>2. m \in Names /\ m \in NamesIn(d, Vhost(n)) /\ Claims(d, m) = {Vhost(n)}
  BY <1>1, PutLoses DEF Gone
<1>3. FileOf(d, n) = Vhost(n)
  BY NeatReads
<1>4. m \notin NamesIn(d, Vhost(m))
  BY <1>2, NotOwn
<1> QED BY <1>2, <1>3, <1>4, NeatReads

Spared(d, n) == Served(d) \subseteq Served(Gone(d, n)) \cup {n}

LEMMA PutSwap ==
  ASSUME NEW d \in Disks, NEW f \in Files, NEW g \in Files, f # g,
         NEW c \in Contents \cup {NoFile}, NEW b \in Contents \cup {NoFile}
  PROVE  Put(Put(d, f, c), g, b) = Put(Put(d, g, b), f, c)
<1> DEFINE d1 == Put(d, f, c)
<1> DEFINE d2 == Put(d1, g, b)
<1> DEFINE e1 == Put(d, g, b)
<1> DEFINE e2 == Put(e1, f, c)
<1>1. d1 \in Disks /\ \A h \in Files : d1[h] = IF h = f THEN c ELSE d[h]
  BY PutIs
<1>2. e1 \in Disks /\ \A h \in Files : e1[h] = IF h = g THEN b ELSE d[h]
  BY PutIs
<1> HIDE DEF d1, e1
<1>3. d2 \in Disks /\ \A h \in Files : d2[h] = IF h = g THEN b ELSE d1[h]
  BY <1>1, PutIs
<1>4. e2 \in Disks /\ \A h \in Files : e2[h] = IF h = f THEN c ELSE e1[h]
  BY <1>2, PutIs
<1> HIDE DEF d2, e2
<1>5. \A h \in Files : d2[h] = e2[h]
  BY <1>1, <1>2, <1>3, <1>4
<1>6. d2 = e2
  BY <1>3, <1>4, <1>5 DEF Disks
<1> QED BY <1>6 DEF d1, d2, e1, e2

\* An alias that takes over: its file claims every other name first, and the file of
\* the name that goes is then neither read for them nor needed.
LEMMA PromoteNeat ==
  ASSUME NEW d \in Disks, Neat(d), NEW n \in Names, Ours(d, n), NEW s \in AliasNames(d, n),
         NEW c \in Contents, DOMAIN c.aliases = AliasNames(d, n) \ {s}
  PROVE  LET e == Put(d, Vhost(s), c) IN
         Neat(Gone(e, n)) /\ Spared(e, n) /\ Served(d) \subseteq Served(e)
<1> DEFINE S == AliasNames(d, n)
<1> DEFINE f == Vhost(s)
<1> DEFINE h == Vhost(n)
<1> DEFINE e == Put(d, f, c)
<1> DEFINE g == Put(d, h, NoFile)
<1>1. /\ s \in Names /\ s # n /\ f \in Files /\ f[2] = s /\ h \in Files /\ h[2] = n /\ f # h
      /\ NamesFrom(c, s) = S /\ NoFile \in Contents \cup {NoFile} /\ NamesFrom(NoFile, n) = {}
  <2>1. s \in Names /\ s # n
    BY NeatReads
  <2>2. NamesFrom(c, s) = S /\ NamesFrom(NoFile, n) = {}
    BY NoFileAssumption DEF NamesFrom
  <2> QED BY <2>1, <2>2, FileKinds
<1>2. \A m \in S : m \in NamesIn(d, h) /\ m # n /\ FileOf(d, m) = h /\ m \in Names
  BY NeatReads
<1>3. \A m \in NamesIn(d, h) : \A k \in Claims(d, m) : k[1] # "hand"
  BY NeatReads
<1>4. FileOf(d, n) = h /\ n \in NamesIn(d, h)
  BY NeatReads
<1>h. \A m : m \in Names /\ m # n => Vhost(m) # h /\ Vhost(m) \in Files
  BY FileKinds
<1>5. \A m \in S : NamesIn(d, Vhost(m)) \subseteq {m}
  BY <1>2, <1>h DEF Neat, Mine
<1> HIDE DEF h, f
<1>6. g \in Disks /\ NamesIn(g, h) = {} /\ \A k \in Files \ {h} : NamesIn(g, k) = NamesIn(d, k)
  BY <1>1, PutReads
<1>7. Neat(g)
  BY <1>1, NeatGone
<1> HIDE DEF g
<1>8. \A m : Claims(g, m) = Claims(d, m) \ {h}
  BY <1>6 DEF Claims
<1>9. \A m \in S : \A q \in Names \ {s} : m \in NamesIn(g, Vhost(q)) => m = q
  <2> SUFFICES ASSUME NEW m \in S, NEW q \in Names \ {s}, m \in NamesIn(g, Vhost(q)) PROVE m = q
    OBVIOUS
  <2>1. q # n
    BY <1>6 DEF h
  <2>2. m \in NamesIn(d, Vhost(q))
    BY <1>6, <1>h, <2>1
  <2>3. m \in NamesIn(d, Vhost(n)) /\ m # n
    BY <1>2 DEF h
  <2> QED BY <2>1, <2>2, <2>3 DEF Neat, Once
<1>10. \A m \in S : \A k \in Claims(g, m) : k[1] # "hand"
  BY <1>2, <1>3, <1>8
<1>11. \A k \in Claims(g, s) : k = f
  <2> SUFFICES ASSUME NEW k \in Claims(g, s) PROVE k = f
    OBVIOUS
  <2>1. k \in Files /\ s \in NamesIn(g, k) /\ k[1] # "hand"
    BY <1>10 DEF Claims
  <2>2. k = Vhost(k[2]) /\ k[2] \in Names
    BY <2>1, FileKinds
  <2>3. k[2] = s
    BY <1>9, <2>1, <2>2
  <2> QED BY <2>2, <2>3 DEF f
<1>12. \A k \in Claims(g, s) : Listed(f, k)
  BY <1>11 DEF Listed
<1>13. \A k \in S \ {s} : NamesIn(g, Vhost(k)) \subseteq {k}
  BY <1>2, <1>5, <1>6, <1>h
<1> HIDE DEF S
<1>14. Neat(Put(g, f, c))
  BY <1>1, <1>6, <1>7, <1>9, <1>10, <1>12, <1>13, NeatPut DEF f
<1>15. Put(e, h, NoFile) = Put(g, f, c)
  <2>1. c \in Contents \cup {NoFile}
    OBVIOUS
  <2> QED BY <1>1, <2>1, PutSwap DEF g
<1>16. Neat(Gone(e, n))
  BY <1>14, <1>15 DEF Gone, h
<1>17. e \in Disks /\ NamesIn(e, f) = S /\ \A k \in Files \ {f} : NamesIn(e, k) = NamesIn(d, k)
  <2>1. c \in Contents \cup {NoFile}
    OBVIOUS
  <2> QED BY <1>1, <2>1, PutReads
<1>18. Served(d) \subseteq Served(e)
  <2> SUFFICES ASSUME NEW m \in Served(d) \ Served(e) PROVE FALSE
    OBVIOUS
  <2>1. m \in NamesIn(d, f) /\ m \notin S
    BY <1>1, PutLoses
  <2>2. m = s
    BY <1>5, <2>1 DEF f, S
  <2> QED BY <2>1, <2>2 DEF S
<1> HIDE DEF e
<1>19. Spared(e, n)
  <2> SUFFICES ASSUME NEW m \in Served(e) \ Served(Put(e, h, NoFile)), m # n PROVE FALSE
    BY DEF Spared, Gone, h
  <2>1. m \in Names /\ m \in NamesIn(e, h) /\ Claims(e, m) = {h}
    BY <1>1, <1>17, PutLoses
  <2>2. m \notin S
    BY <1>1, <1>17, <2>1 DEF Claims
  <2>3. m \in NamesIn(d, h)
    BY <1>1, <1>17, <2>1
  <2>4. m \in NamesIn(d, Vhost(m))
    BY <1>4, <2>2, <2>3, NeatReads DEF S, h
  <2>5. m # s
    BY <2>2 DEF S
  <2>6. Vhost(m) # f
    BY <2>5, FileKinds DEF f
  <2>7. Vhost(m) \in Claims(e, m)
    BY <1>17, <1>h, <2>1, <2>4, <2>6 DEF Claims
  <2> QED BY <1>h, <2>1, <2>7
<1> QED BY <1>16, <1>18, <1>19 DEF e, f

LetsGo(x, n) ==
  \/ x.op \in {"remove", "takeover"} /\ x.name = n
  \/ x.op = "unalias" /\ x.arg = n

\* From its promoted write on, a removal is about to remove.
Removing(x) == x.at = "rm" \/ (x.at = "test" /\ x.then = "rm")
Edited(d, n) == d[Vhost(n)] # NoFile /\ d[Vhost(n)].by = "edited"

\* What the one request x holds takes no name but its own, and leaves the files neat; and
\* so does what comes back if it is refused.
Careful(x, d) ==
  /\ x.op # "expose"
  /\ x.at = "asked" => x.then = "over"
  /\ ~Removing(x) => Neat(d)
  /\ HoldsRoute(x) => /\ \A m \in Served(d) \ Served(Written(x, d)) : LetsGo(x, m)
                      /\ x.then # "rm" => Neat(Written(x, d))
                      /\ x.then = "rm" => Neat(Gone(Written(x, d), x.name)) /\ Spared(Written(x, d), x.name)
  /\ x.at = "test" /\ x.file # NoName => Neat(Undone(x, d))
  /\ x.op = "takeover" /\ x.at \in {"write", "test"} => Neat(Restored(d, x.name))
  /\ x.at = "move" => DOMAIN x.route.aliases = {} /\ NamesIn(d, <<"hand", x.name>>) \subseteq {x.name}
  /\ Removing(x) => Neat(Gone(d, x.name))
  /\ x.at = "rm" => Edited(d, x.name) \/ Spared(d, x.name)
  /\ x.at = "test" /\ x.then = "rm" => Spared(d, x.name)
  /\ x.then = "reach" /\ (x.at = "write" \/ Awaits(x)) => x.arg \in NamesIn(Written(x, d), Vhost(x.name))
  /\ (x.then = "reach" /\ x.at = "test") \/ (x.at = "reach" /\ x.op # "tls") =>
       x.arg \in NamesIn(d, Vhost(x.name))

\* What a request plans on neat files.
LEMMA PlannedNeat ==
  ASSUME NEW d \in Disks, Neat(d), NEW x, NEW y, y.route \in Contents, Placed(y), Planned(d, x, y),
         HoldsRoute(y), x.route \in Contents, Placed(x), Careful(x, d), x.at # "rm", x.at # "test",
         Steady(y), Steady(x)
  PROVE  /\ \A m \in Served(d) \ Served(Written(y, d)) : LetsGo(y, m)
         /\ y.then # "rm" => Neat(Written(y, d))
         /\ y.then = "rm" => Neat(Gone(Written(y, d), y.name)) /\ Spared(Written(y, d), y.name)
<1>1. y.name \in Names /\ Place(y) \in Names /\ y.at \in {"write", "issue", "reach", "asked"}
  BY DEF Placed, HoldsRoute, Place, Awaits
<1>2. ASSUME NEW n \in Names, Place(y) = n, Ours(d, n), y.then # "rm",
             \A m \in DOMAIN y.route.aliases : m \in NamesIn(d, Vhost(n)) \/ Claims(d, m) = {},
             \A m \in AliasNames(d, n) \ DOMAIN y.route.aliases : LetsGo(y, m)
      PROVE  /\ \A m \in Served(d) \ Served(Written(y, d)) : LetsGo(y, m)
             /\ Neat(Written(y, d))
  BY <1>2, RewriteNeat DEF Written
<1>a. \A n \in Names : \A m \in AliasNames(d, n) : m \in NamesIn(d, Vhost(n))
  BY NeatReads
<1>b. \A n : Managed(d, n) => Ours(d, n)
  BY DEF Managed, Ours
<1>3. CASE y = Idle
  BY <1>3, IdleIs DEF HoldsRoute, Awaits
<1>4. CASE AskedFor(d, y)
  <2>1. Place(y) = y.name /\ y.op \in RouteOps /\ y.then # "rm"
    BY <1>4 DEF AskedFor, HoldsRoute, Awaits, Place
  <2>2. CASE y.op \in {"add", "service"}
    <3>1. ~IsDomain(d, y.name) /\ DOMAIN y.route.aliases = {}
      BY <1>4, <2>2 DEF AskedFor
    <3>2. Neat(Written(y, d)) /\ Served(d) \subseteq Served(Written(y, d))
      BY <1>1, <2>1, <3>1, AddNeat DEF Written
    <3> QED BY <2>1, <3>2
  <2>3. CASE y.op \in {"edit", "path"}
    <3>1. Ours(d, y.name) /\ DOMAIN y.route.aliases = AliasNames(d, y.name)
      BY <1>4, <2>3 DEF AskedFor, ReadAliases
    <3> QED BY <1>1, <1>2, <1>a, <2>1, <3>1
  <2> QED BY <2>1, <2>2, <2>3 DEF RouteOps
<1>5. CASE WritesAsked(x, y)
  <2>1. HoldsRoute(x) /\ Place(x) = y.file /\ Place(y) = y.file /\ y.route.cert = x.route.cert
        /\ y.route.aliases = x.route.aliases /\ y.then # "rm" /\ x.op \in RouteOps
    BY <1>5 DEF WritesAsked, HoldsRoute, Place, Same3
  <2>2. x.then # "rm"
    BY <1>5 DEF WritesAsked, Careful
  <2>3. Neat(Written(x, d)) /\ \A m \in Served(d) \ Served(Written(x, d)) : LetsGo(x, m)
    BY <2>1, <2>2 DEF Careful
  <2>4. Same(Written(x, d), Written(y, d))
    <3>1. Vhost(y.file) \in Files
      BY <1>1, <2>1, FileKinds
    <3> QED BY <2>1, <3>1, PutAlike DEF Written
  <2>5. Neat(Written(y, d)) /\ Served(Written(y, d)) = Served(Written(x, d))
    BY <2>3, <2>4, NeatSame, SameClaims
  <2>6. \A m : ~LetsGo(x, m)
    BY <2>1 DEF LetsGo, RouteOps
  <2> QED BY <2>1, <2>3, <2>5, <2>6
<1>6. CASE Promotes(d, x, y)
  <2> DEFINE s == y.file
  <2> DEFINE n == x.name
  <2>1. Place(y) = s /\ s \in AliasNames(d, n) /\ DOMAIN y.route.aliases = AliasNames(d, n) \ {s}
        /\ Ours(d, n) /\ n \in Names /\ y.then = "rm" /\ y.name = n
    BY <1>1, <1>6 DEF Promotes, Place, Same3
  <2>2. Neat(Gone(Written(y, d), n)) /\ Spared(Written(y, d), n) /\ Served(d) \subseteq Served(Written(y, d))
    BY <2>1, PromoteNeat DEF Written
  <2> QED BY <2>1, <2>2
<1>7. CASE Removes(d, x, y)
  BY <1>7 DEF Removes, HoldsRoute, Awaits
<1>8. CASE Joins(d, x, y)
  <2> DEFINE n == x.name
  <2> DEFINE a == x.arg
  <2>1. n \in Names /\ Place(y) = n /\ a \in Names /\ Ours(d, n) /\ y.then # "rm"
    BY <1>1, <1>b, <1>8 DEF Joins, Same3, Place, Placed
  <2>2. /\ DOMAIN y.route.aliases = AliasNames(d, n) \cup {a}
        /\ ~IsDomain(d, a) /\ \A m \in Domains(d) \ {n} : ~AliasOf(d, a, m)
    BY <1>8 DEF Joins
  <2> HIDE DEF n, a
  <2>3. a \in NamesIn(d, Vhost(n)) \/ Claims(d, a) = {}
    <3>1. Claims(d, a) = {} \/ AliasOf(d, a, n)
      BY <2>1, <2>2, NeatReads
    <3> QED BY <1>a, <2>1, <3>1 DEF AliasNames
  <2> QED BY <1>2, <1>a, <2>1, <2>2, <2>3
<1>9. CASE Leaves(d, x, y)
  <2> DEFINE n == x.name
  <2>1. n \in Names /\ Place(y) = n /\ Ours(d, n) /\ y.then # "rm"
    BY <1>1, <1>b, <1>9 DEF Leaves, Same3, Place
  <2>2. DOMAIN y.route.aliases = AliasNames(d, n) \ {x.arg} /\ LetsGo(y, x.arg)
    BY <1>9 DEF Leaves, LetsGo, Same3
  <2> QED BY <1>2, <1>a, <2>1, <2>2
<1>10. CASE TakesOver(d, x, y)
  BY <1>10 DEF TakesOver, HoldsRoute, Awaits
<1>11. CASE Secures(d, x, y)
  <2> DEFINE n == x.name
  <2>1. n \in Names /\ Place(y) = n /\ Ours(d, n) /\ y.then # "rm" /\ DOMAIN y.route.aliases = AliasNames(d, n)
    BY <1>1, <1>11 DEF Secures, Place, ReadAliases
  <2> QED BY <1>2, <1>a, <2>1
<1>12. CASE Exposes(d, x, y)
  BY <1>12 DEF Exposes, Careful
<1>13. CASE Certifies(d, x, y)
  <2> DEFINE n == x.name
  <2> DEFINE a == x.arg
  <2>1. n \in Names /\ Place(y) = n /\ Ours(d, n) /\ y.then # "rm"
    BY <1>1, <1>b, <1>13 DEF Certifies, Same3, Place
  <2>2. DOMAIN y.route.aliases = AliasNames(d, n) \cup {a} /\ a \in NamesIn(d, Vhost(n))
    BY <1>13 DEF Certifies, Careful
  <2> HIDE DEF n, a
  <2> QED BY <1>2, <1>a, <2>1, <2>2
<1>14. CASE Reached(x, y)
  <2>1. HoldsRoute(x) /\ Place(y) = Place(x) /\ y.route = x.route /\ Same3(x, y) /\ y.then = x.then
    BY <1>14 DEF Reached, HoldsRoute, Awaits, Place
  <2> QED BY <2>1 DEF Careful, Written, Same3, LetsGo
<1> QED BY <1>3, <1>4, <1>5, <1>6, <1>7, <1>8, <1>9, <1>10, <1>11, <1>12, <1>13, <1>14 DEF Planned

\* A take over is of a file that claims one name, and a removal of a file that takes
\* none with it, or was edited.
LEMMA TakesAlone ==
  ASSUME NEW d \in Disks, Neat(d), NEW x, NEW y, TakesOver(d, x, y), y.name \in Names
  PROVE  NamesIn(d, <<"hand", y.name>>) \subseteq {y.name}
<1> DEFINE n == y.name
<1> DEFINE h == <<"hand", n>>
<1>1. h \in Files /\ h[1] = "hand" /\ h[2] = n /\ x.name = n
  BY FileKinds DEF TakesOver, Same3
<1>2. SUFFICES ASSUME NEW m \in NamesIn(d, h), m # n PROVE FALSE
  OBVIOUS
<1>3. m \in Names /\ n \in NamesIn(d, h)
  BY <1>1, NamesInAre, FileKinds
<1> HIDE DEF h
<1>4. Claims(d, m) = {h} /\ Claims(d, n) = {h}
  BY <1>1, <1>3 DEF Neat, HandAlone
<1>5. FileOf(d, m) = h /\ FileOf(d, n) = h
  BY <1>4, ReadFrom
<1>6. m \in Domains(d) \ {n}
  BY <1>1, <1>2, <1>3, <1>4, <1>5 DEF Domains, IsDomain
<1> QED BY <1>1, <1>5, <1>6 DEF TakesOver

LEMMA RemovesNone ==
  ASSUME NEW d \in Disks, Neat(d), NEW x, NEW y, Removes(d, x, y), y.name \in Names
  PROVE  Edited(d, y.name) \/ Spared(d, y.name)
<1> DEFINE n == y.name
<1>1. Ours(d, n) /\ ~(Managed(d, n) /\ AliasNames(d, n) # {})
  BY DEF Removes, Same3
<1> HIDE DEF n
<1>2. n \in Names
  BY DEF n
<1>3. CASE AliasNames(d, n) = {}
  <2>1. \A m \in Served(d) \ Served(Gone(d, n)) : m = n
    BY <1>1, <1>2, <1>3, GoneLoses
  <2> QED BY <2>1 DEF Spared, n
<1>4. CASE ~Managed(d, n)
  <2>1. FileOf(d, n) = Vhost(n) /\ n \in NamesIn(d, Vhost(n))
    BY <1>1, <1>2, NeatReads
  <2>2. d[Vhost(n)] # NoFile
    BY <2>1 DEF NamesIn
  <2>3. StateOf(d, n) # "managed" /\ StateOf(d, n) # "unmanaged"
    BY <1>1, <1>4 DEF Managed, Ours
  <2>4. d[Vhost(n)].by = "edited"
    BY <2>1, <2>3 DEF StateOf
  <2> QED BY <2>2, <2>4 DEF Edited, n
<1> QED BY <1>1, <1>3, <1>4

LEMMA PlannedCareful ==
  ASSUME NEW d \in Disks, Neat(d), NEW x, NEW y, y.route \in Contents, Placed(y), Planned(d, x, y),
         x.route \in Contents, Placed(x), Careful(x, d), x.at # "rm", x.at # "test",
         Steady(y), Steady(x), "expose" \notin Kinds,
         y.at # "test", y.op = "takeover" => y.at \in {"asked", "move"}
  PROVE  Careful(y, d)
<1>1. y.op # "expose"
  <2>1. x.op # "expose"
    BY DEF Careful
  <2>2. CASE y = Idle \/ AskedFor(d, y) \/ Secures(d, x, y)
    BY <2>2, IdleIs DEF AskedFor, Secures
  <2>3. CASE WritesAsked(x, y) \/ Promotes(d, x, y) \/ Removes(d, x, y) \/ Joins(d, x, y) \/ Leaves(d, x, y)
             \/ TakesOver(d, x, y) \/ Exposes(d, x, y) \/ Certifies(d, x, y) \/ Reached(x, y)
    BY <2>1, <2>3 DEF WritesAsked, Promotes, Removes, Joins, Leaves, TakesOver, Exposes, Certifies,
                      Reached, Same3
  <2> QED BY <2>2, <2>3 DEF Planned
<1>2. y.at = "asked" => y.then = "over"
  BY IdleIs DEF Planned, AskedFor, WritesAsked, Promotes, Removes, Joins, Leaves, TakesOver, Secures,
                Exposes, Certifies, Reached
<1>3. HoldsRoute(y) => /\ \A m \in Served(d) \ Served(Written(y, d)) : LetsGo(y, m)
                       /\ y.then # "rm" => Neat(Written(y, d))
                       /\ y.then = "rm" => Neat(Gone(Written(y, d), y.name)) /\ Spared(Written(y, d), y.name)
  BY PlannedNeat
<1>4. y.at = "move" => DOMAIN y.route.aliases = {} /\ NamesIn(d, <<"hand", y.name>>) \subseteq {y.name}
  <2> SUFFICES ASSUME y.at = "move"
               PROVE  DOMAIN y.route.aliases = {} /\ NamesIn(d, <<"hand", y.name>>) \subseteq {y.name}
    OBVIOUS
  <2>1. TakesOver(d, x, y)
    BY IdleIs DEF Planned, AskedFor, WritesAsked, Promotes, Removes, Joins, Leaves, Secures,
                  Exposes, Certifies, Reached
  <2>2. y.name \in Names
    BY DEF Placed
  <2> QED BY <2>1, <2>2, TakesAlone DEF TakesOver
<1>5. y.at = "rm" => Neat(Gone(d, y.name)) /\ (Edited(d, y.name) \/ Spared(d, y.name))
  <2> SUFFICES ASSUME y.at = "rm" PROVE Neat(Gone(d, y.name)) /\ (Edited(d, y.name) \/ Spared(d, y.name))
    OBVIOUS
  <2>1. Removes(d, x, y)
    BY IdleIs DEF Planned, AskedFor, WritesAsked, Promotes, Joins, Leaves, TakesOver, Secures,
                  Exposes, Certifies, Reached
  <2>2. y.name \in Names
    BY DEF Placed
  <2>3. Vhost(y.name) \in Files
    BY <2>2, FileKinds
  <2>4. Neat(Gone(d, y.name))
    BY <2>3, NeatGone DEF Gone
  <2> QED BY <2>1, <2>2, <2>4, RemovesNone
<1>6. y.then = "reach" /\ (y.at = "write" \/ Awaits(y)) => y.arg \in NamesIn(Written(y, d), Vhost(y.name))
  <2> SUFFICES ASSUME y.then = "reach", y.at = "write" \/ Awaits(y)
               PROVE  y.arg \in NamesIn(Written(y, d), Vhost(y.name))
    OBVIOUS
  <2>1. y.op = "alias"
    BY DEF Steady
  <2>2. ~(y = Idle) /\ ~AskedFor(d, y) /\ ~WritesAsked(x, y) /\ ~Promotes(d, x, y) /\ ~Removes(d, x, y)
    BY IdleIs DEF AskedFor, WritesAsked, Promotes, Removes, Awaits
  <2>3. ~Leaves(d, x, y) /\ ~TakesOver(d, x, y) /\ ~Exposes(d, x, y) /\ ~Certifies(d, x, y)
    BY DEF Leaves, TakesOver, Exposes, Certifies, Awaits
  <2>4. ~Secures(d, x, y) /\ ~Reached(x, y)
    BY <2>1 DEF Secures, Reached, Same3
  <2>5. Joins(d, x, y)
    BY <2>2, <2>3, <2>4 DEF Planned
  <2>6. y.arg \in DOMAIN y.route.aliases /\ Place(y) = y.name /\ y.name \in Names
    BY <2>5 DEF Joins, Same3, Place, Placed
  <2>7. Vhost(y.name) \in Files /\ Vhost(y.name)[2] = y.name
    BY <2>6, FileKinds
  <2>8. NamesIn(Written(y, d), Vhost(y.name)) = NamesFrom(y.route, y.name)
    BY <2>6, <2>7, PutReads DEF Written
  <2> QED BY <2>6, <2>8, NoFileAssumption DEF NamesFrom
<1>7. ~(y.at = "reach" /\ y.op # "tls")
  BY IdleIs DEF Planned, AskedFor, WritesAsked, Promotes, Removes, Joins, Leaves, TakesOver, Secures,
                Exposes, Certifies, Reached
<1> QED BY <1>1, <1>2, <1>3, <1>4, <1>5, <1>6, <1>7 DEF Careful, Removing

LEMMA CarefulIdle ==
  ASSUME NEW d, Neat(d)
  PROVE  Careful(Idle, d)
BY IdleIs DEF Careful, HoldsRoute, Awaits, Removing

\* Every step of a request that is not cancelled leaves it so.
LEMMA QuietNotRm ==
  ASSUME NEW j \in Requests, Quiet(j), TRUE \notin Cancels
  PROVE  job[j].at # "rm"
<1> SUFFICES ASSUME job[j].at = "rm" PROVE FALSE
  OBVIOUS
<1>1. CASE AskAnything(j) \/ RetryNext(j) \/ NotIssued(j) \/ CheckReach(j) \/ CertifyAlias(j)
  BY <1>1 DEF AskAnything, CanAsk, RetryNext, NotIssued, CheckReach, CertifyAlias
<1>2. CASE Accepted(j)
  BY <1>2 DEF Accepted, WriteRoute, RemoveRoute, AddAlias, RemoveAlias, TakeOverDomain, EnableTLS,
              Expose, Accept
<1>3. CASE CutShort(j)
  BY <1>3 DEF CutShort
<1> QED BY <1>1, <1>2, <1>3 DEF Quiet

LEMMA QuietCareful ==
  ASSUME Typed, NEW j \in Requests, j # Retrier, Quiet(j), job'[j] \in Request, Placed(job'[j]),
         Steady(job[j]), Careful(job[j], disk), TRUE \notin Cancels, "expose" \notin Kinds
  PROVE  Careful(job'[j], disk')
<1> DEFINE x == job[j]
<1> DEFINE y == job'[j]
<1>1. UNCHANGED world /\ Planned(disk, x, y) /\ Good(j, y) /\ x.at # "test" /\ x.at # "rm"
  BY QuietPlanned, QuietNotRm
<1>2. Steady(y) /\ Steady(x) /\ TakingOver(x)
  BY SteadyQuiet DEF Steady
<1>3. /\ disk' = disk /\ disk \in Disks /\ x.route \in Contents /\ y.route \in Contents /\ Placed(x)
  BY <1>1, TypedIs DEF world, WorldTyped, Request
<1>4. y.at # "test" /\ (y.op = "takeover" => y.at \in {"asked", "move"})
  BY <1>1, <1>2 DEF Good
<1> HIDE DEF x, y
<1>5. Placed(y) /\ Careful(x, disk)
  BY DEF x, y
<1>6. Neat(disk)
  BY <1>1, <1>5 DEF Careful, Removing
<1>7. Careful(y, disk)
  BY <1>1, <1>2, <1>3, <1>4, <1>5, <1>6, PlannedCareful
<1> QED BY <1>3, <1>7 DEF y

LEMMA IssuedCareful ==
  ASSUME Typed, NEW j \in Requests, Issued(j), Careful(job[j], disk), Steady(job[j])
  PROVE  Careful(job'[j], disk')
<1> DEFINE x == job[j]
<1> DEFINE y == job'[j]
<1>1. /\ disk' = disk /\ x.at = "issue" /\ Same3(x, y) /\ y.at = "write"
      /\ y.file = x.file /\ y.route = x.route /\ y.then = x.then
  BY IssuedIs
<1>2. Careful(x, disk) /\ x.op # "takeover"
  BY <1>1 DEF Steady, TakingOver
<1> HIDE DEF x, y
<1>3. Awaits(x) /\ HoldsRoute(x) /\ Written(y, disk) = Written(x, disk)
  BY <1>1 DEF Awaits, HoldsRoute, Written, Place
<1>4. \A m : LetsGo(x, m) <=> LetsGo(y, m)
  BY <1>1 DEF LetsGo, Same3
<1>5. /\ \A m \in Served(disk) \ Served(Written(y, disk)) : LetsGo(y, m)
      /\ y.then # "rm" => Neat(Written(y, disk))
      /\ y.then = "rm" => Neat(Gone(Written(y, disk), y.name)) /\ Spared(Written(y, disk), y.name)
  BY <1>1, <1>2, <1>3, <1>4 DEF Careful, Same3
<1>6. /\ y.op # "expose" /\ Neat(disk) /\ y.op # "takeover"
      /\ y.then = "reach" => y.arg \in NamesIn(Written(y, disk), Vhost(y.name))
  BY <1>1, <1>2, <1>3 DEF Careful, Same3, Removing
<1>7. Careful(y, disk)
  BY <1>1, <1>5, <1>6 DEF Careful, Removing, Awaits
<1> QED BY <1>1, <1>7 DEF y

LEMMA MovedCareful ==
  ASSUME Typed, Theirs, NEW j \in Requests, MoveAside(j), Careful(job[j], disk),
         job'[j].route \in Contents, Steady(job[j])
  PROVE  /\ Careful(job'[j], disk')
         /\ \A m \in Served(disk) \ Served(disk') : LetsGo(job[j], m)
<1> DEFINE x == job[j]
<1> DEFINE y == job'[j]
<1> DEFINE n == x.name
<1> DEFINE h == <<"hand", n>>
<1> DEFINE e == Put(disk, h, NoFile)
<1>1. x.at = "move" /\ n \in Names /\ disk \in Disks /\ Neat(disk) /\ x.op = "takeover"
      /\ h \in Files /\ h[1] = "hand" /\ h[2] = n
  BY MovedIs, AskedIs, FileKinds DEF Careful, Removing, Steady
<1>2. CASE y = Idle /\ disk' = disk
  BY <1>1, <1>2, CarefulIdle
<1>3. CASE /\ disk[h] # NoFile /\ disk' = e /\ Same3(x, y) /\ y.at = "write" /\ y.file = n
           /\ y.then = "over" /\ y.route.cert = x.route.cert /\ y.route.aliases = x.route.aliases
  <2>1. e \in Disks /\ Neat(e)
    <3>1. NoFile \in Contents \cup {NoFile}
      OBVIOUS
    <3> QED BY <1>1, <3>1, NeatGone, PutIs
  <2>2. disk[h] = Initial[h]
    BY <1>1, <1>3 DEF Theirs
  <2>3. Restored(e, n) = Gone(disk, n) /\ Vhost(n) \in Files
    BY <1>1, <2>2, BackAgain, FileKinds
  <2>4. Neat(Restored(e, n))
    BY <1>1, <2>3, NeatGone DEF Gone
  <2>5. NamesIn(disk, h) = {n} /\ DOMAIN y.route.aliases = {}
    BY <1>1, <1>3 DEF Careful, NamesIn
  <2> DEFINE c == y.route
  <2>6. c \in Contents
    OBVIOUS
  <2> HIDE DEF h, c, n
  <2>7. Claims(disk, n) = {h}
    BY <1>1, <2>5 DEF Neat, HandAlone
  <2>8. NamesFrom(NoFile, n) = {} /\ NoFile \in Contents \cup {NoFile}
    BY DEF NamesFrom
  <2>9. n \notin Served(e)
    <3>1. /\ NamesIn(e, h) = {} /\ \A g \in Files \ {h} : NamesIn(e, g) = NamesIn(disk, g)
      BY <1>1, <2>8, PutReads
    <3> HIDE DEF e
    <3>2. Claims(e, n) = {}
      BY <1>1, <2>7, <3>1 DEF Claims
    <3> QED BY <3>2 DEF Served
  <2>10. \A m \in Served(disk) \ Served(e) : m = n
    BY <1>1, <2>5, <2>8, PutLoses
  <2> HIDE DEF e
  <2>11. ~IsDomain(e, n)
    BY <1>1, <2>9 DEF Served, IsDomain
  <2>12. Neat(Put(e, Vhost(n), c)) /\ Served(e) \subseteq Served(Put(e, Vhost(n), c))
    BY <1>1, <2>1, <2>5, <2>6, <2>11, AddNeat DEF c
  <2>13. Written(y, e) = Put(e, Vhost(n), c) /\ y.op = "takeover" /\ y.name = n
    BY <1>1, <1>3 DEF Written, Place, Same3, c, n
  <2>14. \A m \in Served(disk) \ Served(e) : LetsGo(x, m)
    BY <1>1, <2>10 DEF LetsGo, n
  <2>15. y.at = "write" /\ y.then = "over"
    BY <1>3
  <2> HIDE DEF y, x
  <2>16. Careful(y, e)
    BY <2>1, <2>4, <2>12, <2>13, <2>15 DEF Careful, Removing, Awaits
  <2> QED BY <1>3, <2>14, <2>16 DEF y, x
<1> QED BY <1>2, <1>3, MovedIs

LEMMA WroteCareful ==
  ASSUME Typed, NEW j \in Requests, WriteVhost(j), Careful(job[j], disk), Steady(job[j])
  PROVE  /\ Careful(job'[j], disk')
         /\ \A m \in Served(disk) \ Served(disk') : LetsGo(job[j], m)
<1> DEFINE x == job[j]
<1> DEFINE y == job'[j]
<1> DEFINE f == Vhost(x.file)
<1> DEFINE e == Put(disk, f, x.route)
<1>1. /\ x.at = "write" /\ x.file \in Names /\ f \in Files /\ x.route \in Contents
      /\ disk' = e /\ Same3(x, y) /\ y.at = "test" /\ y.file = x.file /\ y.then = x.then
      /\ y.before = disk[f] /\ disk \in Disks
  BY WroteIs, AskedIs
<1> HIDE DEF y, x
<1>2. HoldsRoute(x) /\ Written(x, disk) = e
  BY <1>1 DEF HoldsRoute, Written, Place
<1>3. /\ Neat(disk) /\ \A m \in Served(disk) \ Served(e) : LetsGo(x, m)
      /\ y.then # "rm" => Neat(e)
      /\ y.then = "rm" => Neat(Gone(e, y.name)) /\ Spared(e, y.name)
      /\ y.then = "reach" => y.arg \in NamesIn(e, Vhost(y.name))
      /\ y.op # "expose"
  BY <1>1, <1>2 DEF Careful, Same3, Removing, x
<1>4. Neat(Undone(y, e))
  <2>1. Same(disk, Put(e, f, disk[f]))
    <3>1. NoFile \in Contents \cup {NoFile}
      OBVIOUS
    <3> QED BY <1>1, <3>1, PutAgain
  <2>2. Undone(y, e) = Put(e, f, disk[f])
    BY <1>1 DEF Undone
  <2> QED BY <1>3, <2>1, <2>2, NeatSame
<1>5. y.op = "takeover" => Neat(Restored(e, y.name))
  <2> SUFFICES ASSUME y.op = "takeover" PROVE Neat(Restored(e, y.name))
    OBVIOUS
  <2>1. x.op = "takeover" /\ x.file = x.name /\ y.name = x.name
    BY <1>1 DEF Steady, Same3, x
  <2>2. Neat(Restored(disk, x.name))
    BY <1>1, <2>1 DEF Careful, x
  <2>3. Same(Restored(disk, x.name), Restored(e, x.name))
    BY <1>1, <2>1, RestoredAlike
  <2> QED BY <2>1, <2>2, <2>3, NeatSame
<1> HIDE DEF e
<1>6. Careful(y, e)
  BY <1>1, <1>3, <1>4, <1>5 DEF Careful, HoldsRoute, Awaits, Removing
<1> QED BY <1>1, <1>3, <1>6 DEF y, x

LEMMA RmCareful ==
  ASSUME Typed, NEW j \in Requests, RemoveVhost(j), Careful(job[j], disk), Steady(job[j])
  PROVE  /\ Careful(job'[j], disk')
         /\ \A m \in Served(disk) \ Served(disk') : disk[FileOf(disk, m)].by = "edited" \/ LetsGo(job[j], m)
<1> DEFINE x == job[j]
<1> DEFINE y == job'[j]
<1> DEFINE n == x.name
<1>1. /\ x.at = "rm" /\ n \in Names /\ disk' = Gone(disk, n)
      /\ Same3(x, y) /\ y.at = "test" /\ y.file = NoName /\ y.then = "over" /\ disk \in Disks
      /\ x.op = "remove"
  BY RmIs, AskedIs DEF Steady
<1>2. Neat(Gone(disk, n)) /\ (Edited(disk, n) \/ Spared(disk, n))
  BY <1>1 DEF Careful, Removing
<1>3. y.op = "remove"
  BY <1>1 DEF Same3
<1> HIDE DEF y
<1>4. Careful(y, Gone(disk, n))
  BY <1>1, <1>2, <1>3 DEF Careful, HoldsRoute, Awaits, Removing
<1>5. ASSUME NEW m \in Served(disk) \ Served(Gone(disk, n))
      PROVE  disk[FileOf(disk, m)].by = "edited" \/ LetsGo(x, m)
  <2>1. NoFile \in Contents \cup {NoFile} /\ Vhost(n) \in Files
    BY <1>1, FileKinds
  <2>2. Claims(disk, m) = {Vhost(n)}
    BY <1>1, <1>5, <2>1, PutLoses DEF Gone
  <2>3. FileOf(disk, m) = Vhost(n)
    BY <2>2, ReadFrom
  <2>4. CASE Edited(disk, n)
    BY <2>3, <2>4 DEF Edited
  <2>5. CASE Spared(disk, n)
    BY <1>1, <1>5, <2>5 DEF Spared, LetsGo
  <2> QED BY <1>2, <2>4, <2>5
<1> QED BY <1>1, <1>4, <1>5 DEF y

LEMMA ReloadCareful ==
  ASSUME Typed, NEW j \in Requests, Reload(j), Careful(job[j], disk), Steady(job[j])
  PROVE  Careful(job'[j], disk')
<1> DEFINE x == job[j]
<1> DEFINE y == job'[j]
<1>1. disk' = disk /\ x.at = "test" /\ x.then \in Thens
  BY ReloadIs
<1>2. CASE x.then = "over" /\ y = Idle
  <2>1. Neat(disk)
    BY <1>1, <1>2 DEF Careful, Removing
  <2> QED BY <1>1, <1>2, <2>1, CarefulIdle
<1>3. CASE x.then # "over" /\ Same3(x, y) /\ y.at = x.then /\ y.file = x.file /\ y.then = x.then
  <2>1. y.at = "reach" => y.op = "alias"
    BY <1>1, <1>3 DEF Steady, Same3
  <2>2. y.at \in {"secure", "drop", "retire", "reach", "rm"} /\ y.then = y.at /\ y.name = x.name
        /\ y.arg = x.arg /\ y.op = x.op
    BY <1>1, <1>3 DEF Thens, Same3
  <2> HIDE DEF y, x
  <2>3. Careful(x, disk)
    BY DEF x
  <2>4. y.at # "rm" => Neat(disk)
    BY <1>1, <1>3, <2>3 DEF Careful, Removing
  <2>5. y.at = "rm" => Neat(Gone(disk, y.name)) /\ Spared(disk, y.name)
    BY <1>1, <1>3, <2>2, <2>3 DEF Careful, Removing
  <2>6. y.op # "expose" /\ (y.at = "reach" => y.arg \in NamesIn(disk, Vhost(y.name)))
    BY <1>1, <1>3, <2>2, <2>3 DEF Careful
  <2>7. Careful(y, disk)
    BY <2>1, <2>2, <2>4, <2>5, <2>6 DEF Careful, HoldsRoute, Awaits, Removing
  <2> QED BY <1>1, <2>7 DEF y
<1>4. x.then = "over" => y = Idle
  BY JobIs DEF Reload, Over
<1>5. x.then # "over" => y.at = x.then
  <2>1. x.then # "over" => y = SetAt(x, x.then)
    BY JobIs, Zenon DEF Reload, SetAt
  <2>2. x \in Request
    BY <1>1, AskedIs
  <2> QED BY <2>1, <2>2 DEF SetAt, Request
<1>6. x.then # "over" => y # Idle
  BY <1>1, <1>5, IdleIs DEF Thens
<1> QED BY <1>2, <1>3, <1>4, <1>6, ReloadIs

LEMMA BackCareful ==
  ASSUME Typed, Theirs, NEW j \in Requests, Refused(j) \/ RefusedTakeOver(j),
         Careful(job[j], disk), Steady(job[j])
  PROVE  Careful(job'[j], disk')
<1> DEFINE x == job[j]
<1>1. x.at = "test" /\ job'[j] = Idle
  BY BackIs
<1>2. disk \in Disks /\ Placed(x) /\ TakingOver(x)
  BY <1>1, AskedIs DEF Typed, Steady
<1>3. x.then = "over" => Neat(disk)
  BY <1>1 DEF Careful, Removing
<1>4. Neat(disk')
  <2>1. CASE x.file = NoName /\ disk' = disk
    <3>1. x.then = "over"
      BY <1>1, <1>2, <2>1, RoutesAssumption DEF Placed
    <3> QED BY <1>3, <2>1, <3>1
  <2>2. CASE x.file \in Names /\ disk' = Put(disk, Vhost(x.file), x.before)
    <3>1. x.file # NoName
      BY <2>2, RoutesAssumption
    <3> QED BY <1>1, <2>2, <3>1 DEF Careful, Undone
  <2>3. CASE x.op = "takeover" /\ x.name \in Names /\ disk' = Gone(disk, x.name)
    <3>1. Neat(disk) /\ Vhost(x.name) \in Files
      BY <1>2, <1>3, <2>3, FileKinds DEF TakingOver
    <3> QED BY <1>2, <2>3, <3>1, NeatGone DEF Gone
  <2>4. CASE x.op = "takeover" /\ disk' = Restored(disk, x.name)
    BY <1>1, <2>4 DEF Careful
  <2> QED BY <2>1, <2>2, <2>3, <2>4, BackIs
<1> QED BY <1>1, <1>4, CarefulIdle

\* A file edited by hand is read the same, and is edited.
LEMMA SameCareful ==
  ASSUME NEW d \in Disks, NEW e \in Disks, Same(d, e), NEW x \in Request, Placed(x), Careful(x, d),
         \A n : Edited(d, n) => Edited(e, n)
  PROVE  Careful(x, e)
<1>1. /\ \A f \in Files : NamesIn(e, f) = NamesIn(d, f)
      /\ Served(e) = Served(d) /\ (Neat(d) => Neat(e))
  BY SameClaims, NeatSame DEF Same
<1>2. HoldsRoute(x) => Vhost(Place(x)) \in Files /\ Same(Written(x, d), Written(x, e))
                       /\ Written(x, d) \in Disks /\ Written(x, e) \in Disks
  <2> SUFFICES ASSUME HoldsRoute(x)
               PROVE  Vhost(Place(x)) \in Files /\ Same(Written(x, d), Written(x, e))
                      /\ Written(x, d) \in Disks /\ Written(x, e) \in Disks
    OBVIOUS
  <2>1. Place(x) \in Names /\ x.route \in Contents
    BY DEF HoldsRoute, Place, Placed, Request, Awaits
  <2>2. Vhost(Place(x)) \in Files
    BY <2>1, FileKinds
  <2> QED BY <2>1, <2>2, SamePut, PutIs DEF Written
<1>3. ASSUME NEW n \in Names, NEW p \in Disks, NEW q \in Disks, Same(p, q)
      PROVE  Same(Gone(p, n), Gone(q, n)) /\ (Neat(Gone(p, n)) => Neat(Gone(q, n)))
             /\ (Spared(p, n) => Spared(q, n))
  <2>1. NoFile \in Contents \cup {NoFile} /\ Vhost(n) \in Files
    BY FileKinds
  <2>2. Same(Gone(p, n), Gone(q, n))
    BY <1>3, <2>1, SamePut DEF Gone
  <2>3. Served(q) = Served(p) /\ Served(Gone(q, n)) = Served(Gone(p, n))
    BY <1>3, <2>2, SameClaims
  <2> QED BY <2>2, <2>3, NeatSame DEF Spared
<1>4. HoldsRoute(x) => /\ \A m \in Served(e) \ Served(Written(x, e)) : LetsGo(x, m)
                       /\ x.then # "rm" => Neat(Written(x, e))
                       /\ x.then = "rm" => Neat(Gone(Written(x, e), x.name)) /\ Spared(Written(x, e), x.name)
  <2> SUFFICES ASSUME HoldsRoute(x)
               PROVE  /\ \A m \in Served(e) \ Served(Written(x, e)) : LetsGo(x, m)
                      /\ x.then # "rm" => Neat(Written(x, e))
                      /\ x.then = "rm" => Neat(Gone(Written(x, e), x.name)) /\ Spared(Written(x, e), x.name)
    OBVIOUS
  <2>1. x.name \in Names
    BY DEF Placed, HoldsRoute, Awaits
  <2>2. Served(Written(x, e)) = Served(Written(x, d)) /\ (Neat(Written(x, d)) => Neat(Written(x, e)))
    BY <1>2, SameClaims, NeatSame
  <2>3. /\ Neat(Gone(Written(x, d), x.name)) => Neat(Gone(Written(x, e), x.name))
        /\ Spared(Written(x, d), x.name) => Spared(Written(x, e), x.name)
    BY <1>2, <1>3, <2>1
  <2> QED BY <1>1, <2>2, <2>3 DEF Careful
<1>5. x.at = "test" /\ x.file # NoName => Neat(Undone(x, e))
  <2> SUFFICES ASSUME x.at = "test", x.file # NoName PROVE Neat(Undone(x, e))
    OBVIOUS
  <2>1. x.file \in Names /\ x.before \in Contents \cup {NoFile}
    BY DEF Request
  <2>2. Vhost(x.file) \in Files
    BY <2>1, FileKinds
  <2>3. Same(Undone(x, d), Undone(x, e))
    BY <2>1, <2>2, SamePut DEF Undone
  <2> QED BY <2>3, NeatSame DEF Careful
<1>6. x.op = "takeover" /\ x.at \in {"write", "test"} => Neat(Restored(e, x.name))
  <2> SUFFICES ASSUME x.op = "takeover", x.at \in {"write", "test"} PROVE Neat(Restored(e, x.name))
    OBVIOUS
  <2> DEFINE n == x.name
  <2> DEFINE h == <<"hand", n>>
  <2>1. n \in Names /\ Neat(Restored(d, n))
    BY DEF Placed, Careful
  <2>2. Same(Gone(d, n), Gone(e, n))
    BY <1>3, <2>1
  <2>3. h \in Files /\ Vhost(n) \in Files /\ NoFile \in Contents \cup {NoFile}
        /\ Initial[h] \in Contents \cup {NoFile}
    BY <2>1, FileKinds, RoutesAssumption
  <2>4. Gone(d, n) \in Disks /\ Gone(e, n) \in Disks
    BY <2>3, PutIs DEF Gone
  <2>5. Same(Restored(d, n), Restored(e, n))
    BY <2>2, <2>3, <2>4, SamePut DEF Restored
  <2> QED BY <2>1, <2>5, NeatSame
<1>7. x.at = "move" => DOMAIN x.route.aliases = {} /\ NamesIn(e, <<"hand", x.name>>) \subseteq {x.name}
  <2>1. x.at = "move" => <<"hand", x.name>> \in Files
    BY FileKinds DEF Placed
  <2> QED BY <1>1, <2>1 DEF Careful
<1>8. /\ Removing(x) => Neat(Gone(e, x.name))
      /\ x.at = "rm" => Edited(e, x.name) \/ Spared(e, x.name)
      /\ x.at = "test" /\ x.then = "rm" => Spared(e, x.name)
  <2> SUFFICES ASSUME Removing(x)
               PROVE  /\ Neat(Gone(e, x.name))
                      /\ x.at = "rm" => Edited(e, x.name) \/ Spared(e, x.name)
                      /\ x.at = "test" /\ x.then = "rm" => Spared(e, x.name)
    BY DEF Removing
  <2>1. x.name \in Names
    BY DEF Removing, Placed
  <2>2. (Neat(Gone(d, x.name)) => Neat(Gone(e, x.name))) /\ (Spared(d, x.name) => Spared(e, x.name))
    BY <1>3, <2>1
  <2> QED BY <2>2 DEF Careful
<1>9. x.then = "reach" /\ (x.at = "write" \/ Awaits(x)) => x.arg \in NamesIn(Written(x, e), Vhost(x.name))
  <2> SUFFICES ASSUME x.then = "reach", x.at = "write" \/ Awaits(x)
               PROVE  x.arg \in NamesIn(Written(x, e), Vhost(x.name))
    OBVIOUS
  <2>1. HoldsRoute(x) /\ x.name \in Names
    BY DEF HoldsRoute, Placed, Awaits
  <2>2. Vhost(x.name) \in Files
    BY <2>1, FileKinds
  <2> QED BY <1>2, <2>1, <2>2 DEF Careful, Same
<1>10. (x.then = "reach" /\ x.at = "test") \/ (x.at = "reach" /\ x.op # "tls") =>
         x.arg \in NamesIn(e, Vhost(x.name))
  <2>1. x.at # "idle" => Vhost(x.name) \in Files
    BY FileKinds DEF Placed
  <2> QED BY <1>1, <2>1 DEF Careful
<1> QED BY <1>1, <1>4, <1>5, <1>6, <1>7, <1>8, <1>9, <1>10 DEF Careful

\* The premises of NoNameIsLost about the requests.
Undisturbed ==
  /\ OneAtATime /\ Retrier \notin Requests
  /\ "expose" \notin Kinds /\ TRUE \notin Cancels /\ MaxCrashes = 0

\* The inductive invariant.
Ordered == crashes = 0 /\ \A j \in Requests : Steady(job[j]) /\ Careful(job[j], disk)

\* What the disk may lose as it becomes e.
LosesOwn(e) ==
  \A m \in Served(disk) \ Served(e) : disk[FileOf(disk, m)].by = "edited" \/ LettingGo(m)

LEMMA OrderedBy ==
  ASSUME OneAtATime, Ordered, NEW j \in Requests, crashes' = crashes, Steady(job'[j]),
         Careful(job'[j], disk')
  PROVE  Ordered'
<1>1. \A i \in Requests : i = j
  BY DEF OneAtATime
<1> QED BY <1>1 DEF Ordered

LEMMA LetsGoIs ==
  ASSUME NEW j \in Requests, NEW m, LetsGo(job[j], m)
  PROVE  LettingGo(m)
BY DEF LetsGo, LettingGo

LEMMA NextOrdered ==
  ASSUME Undisturbed, Typed, Typed', Theirs, Ordered, [Next]_vars
  PROVE  Ordered' /\ ((\A j \in Requests : job[j].at # "test") => LosesOwn(disk'))
<1>1. ASSUME NEW j \in Requests PROVE /\ Steady(job[j]) /\ Careful(job[j], disk) /\ j # Retrier
                                      /\ job[j] \in Request /\ Placed(job[j])
                                      /\ job'[j] \in Request /\ Placed(job'[j])
                                      /\ job'[j].route \in Contents
  BY TypedIs DEF Ordered, Typed, Request, Undisturbed
<1>2. disk' = disk => LosesOwn(disk')
  BY DEF LosesOwn
<1>3. OneAtATime /\ TRUE \notin Cancels /\ "expose" \notin Kinds
  BY DEF Undisturbed
<1>4. ASSUME NEW j \in Requests, Quiet(j) PROVE Ordered' /\ disk' = disk
  <2>1. disk' = disk
    BY <1>4, QuietPlanned DEF world
  <2> QED BY <1>1, <1>3, <1>4, <2>1, QuietCareful, SteadyQuiet, QuietCrashes, OrderedBy
<1>5. ASSUME NEW j \in Requests, Issued(j) \/ Reload(j) PROVE Ordered' /\ disk' = disk
  <2>1. Steady(job'[j]) /\ disk' = disk /\ crashes' = crashes
    BY <1>1, <1>5, SteadyStep, IssuedIs, ReloadIs
  <2>2. Careful(job'[j], disk')
    BY <1>1, <1>5, IssuedCareful, ReloadCareful
  <2> QED BY <1>3, <2>1, <2>2, OrderedBy
<1>6. ASSUME NEW j \in Requests, MoveAside(j) \/ WriteVhost(j) \/ RemoveVhost(j)
      PROVE  Ordered' /\ LosesOwn(disk')
  <2>1. Steady(job'[j]) /\ crashes' = crashes
    BY <1>1, <1>6, SteadyStep, MovedIs, WroteIs, RmIs
  <2>2. /\ Careful(job'[j], disk')
        /\ \A m \in Served(disk) \ Served(disk') : disk[FileOf(disk, m)].by = "edited" \/ LetsGo(job[j], m)
    BY <1>1, <1>6, MovedCareful, WroteCareful, RmCareful
  <2>3. LosesOwn(disk')
    BY <2>2, LetsGoIs DEF LosesOwn
  <2> QED BY <1>3, <2>1, <2>2, <2>3, OrderedBy
<1>7. ASSUME NEW j \in Requests, Refused(j) \/ RefusedTakeOver(j)
      PROVE  Ordered' /\ job[j].at = "test"
  <2>1. job'[j] = Idle /\ crashes' = crashes /\ job[j].at = "test"
    BY <1>7, BackIs
  <2>2. Careful(job'[j], disk')
    BY <1>1, <1>7, BackCareful
  <2> QED BY <1>3, <2>1, <2>2, SteadyIdle, OrderedBy
<1>8. ASSUME NEW j \in Requests, Retire(j) \/ DropCertificate(j) PROVE Ordered' /\ disk' = disk
  <2>1. job'[j] = Idle /\ disk' = disk /\ crashes' = crashes /\ job[j].at \in {"retire", "drop"}
    BY <1>8, JobIs DEF Retire, DropCertificate, Over, counts
  <2>2. Neat(disk)
    BY <1>1, <2>1 DEF Careful, Removing
  <2>3. Careful(job'[j], disk')
    BY <2>1, <2>2, CarefulIdle
  <2> QED BY <1>3, <2>1, <2>3, SteadyIdle, OrderedBy
<1>9. ASSUME UNCHANGED <<disk, job, crashes>> PROVE Ordered' /\ disk' = disk
  BY <1>9 DEF Ordered
<1>10. ASSUME NEW n \in Names, NEW t \in Targets, HandEdit(n, t)
       PROVE  Ordered' /\ LosesOwn(disk')
  <2>1. Same(disk, disk') /\ disk \in Disks /\ disk' \in Disks /\ UNCHANGED <<job, crashes>>
    BY <1>10, HandEditSame, TypedIs DEF WorldTyped
  <2>2. \A m : Edited(disk, m) => Edited(disk', m)
    <3> DEFINE f == Vhost(n)
    <3>1. PICK c \in Contents : disk' = Put(disk, f, c) /\ c.by = "edited"
      BY <1>10, HandEdited DEF Put
    <3>2. f \in Files
      BY FileKinds
    <3> HIDE DEF f
    <3>3. disk'[f] = c /\ \A g : g # f => disk'[g] = disk[g]
      BY <2>1, <3>1, <3>2 DEF Put, Disks
    <3> QED BY <3>1, <3>3, NoFileAssumption DEF Edited
  <2>3. \A j \in Requests : Careful(job[j], disk')
    BY <1>1, <2>1, <2>2, SameCareful
  <2>4. Ordered'
    BY <2>1, <2>3 DEF Ordered
  <2>5. Served(disk') = Served(disk)
    BY <2>1, SameClaims
  <2> QED BY <2>4, <2>5 DEF LosesOwn
<1>11. ~Restart
  BY DEF Restart, Ordered, Undisturbed
<1>12. ASSUME NEW j \in Requests, RetryLook(j) PROVE FALSE
  BY <1>1, <1>12 DEF RetryLook
<1>13. ASSUME NEW n \in Names, PointDNS(n) PROVE Ordered' /\ disk' = disk
  BY <1>9, <1>13 DEF PointDNS, world
<1>14. CASE UNCHANGED vars
  BY <1>2, <1>9, <1>14 DEF vars
<1>15. ASSUME NEW j \in Requests, AskAnything(j) \/ Accepted(j) \/ Step(j) \/ Issued(j)
                                 \/ Reload(j) \/ RetryNext(j)
       PROVE  Ordered' /\ ((\A i \in Requests : job[i].at # "test") => LosesOwn(disk'))
  BY <1>2, <1>4, <1>5, <1>6, <1>7, <1>8, <1>15 DEF Step, Quiet
<1> QED BY <1>2, <1>10, <1>11, <1>12, <1>13, <1>14, <1>15 DEF Next, Retry

\* Files that share no name are neat.
LEMMA ApartNeat ==
  ASSUME NEW d, \A n : \A f, g \in Claims(d, n) : f = g
  PROVE  Neat(d)
<1>1. \A f \in Files : \A m \in NamesIn(d, f) : Claims(d, m) = {f}
  BY DEF Claims
<1>2. HandAlone(d)
  BY <1>1 DEF HandAlone
<1>3. Once(d)
  <2> SUFFICES ASSUME NEW p \in Names, NEW q \in Names, p # q, NEW m,
                      m \in NamesIn(d, Vhost(p)), m \in NamesIn(d, Vhost(q))
               PROVE  FALSE
    BY DEF Once
  <2>1. Vhost(p) \in Files /\ Vhost(q) \in Files /\ Vhost(p) # Vhost(q)
    BY FileKinds
  <2>2. Claims(d, m) = {Vhost(p)} /\ Claims(d, m) = {Vhost(q)}
    BY <1>1, <2>1
  <2> QED BY <2>1, <2>2
<1>4. Mine(d)
  <2> SUFFICES ASSUME NEW n \in Names, NamesIn(d, Vhost(n)) # {} PROVE FileOf(d, n) = Vhost(n)
    BY DEF Mine
  <2>1. Claims(d, n) = {Vhost(n)}
    BY <1>1, FileKinds
  <2> QED BY <2>1, ReadFrom
<1> QED BY <1>2, <1>3, <1>4 DEF Neat

\* With one request at a time, none of them cancelled, and no restart of the agent, a
\* name that nginx serves disappears from the disk only in a request about that very
\* name, or in the removal of a file that was edited by hand - however names were
\* promoted, joined, left and taken over before, and whichever steps were refused.
\* Files that share no name at first are neat (ApartNeat). A removal cut between its
\* two steps, by a cancellation or by a restart, the panel exposed at a name with
\* aliases, or files that share names are each enough for a name to be taken.
THEOREM NoNameIsLost ==
  /\ \A i, j \in Requests : i = j
  /\ Retrier \notin Requests /\ "expose" \notin Kinds
  /\ TRUE \notin Cancels /\ MaxCrashes = 0
  /\ Neat(Initial)
  => (Spec => NoNameIsTaken)
<1> SUFFICES ASSUME Undisturbed, Neat(Initial) PROVE Spec => NoNameIsTaken
  BY DEF Undisturbed, OneAtATime
<1>1. Init => Typed /\ Theirs /\ Ordered
  <2> SUFFICES ASSUME Init PROVE Typed /\ Theirs /\ Ordered
    OBVIOUS
  <2>1. Theirs /\ Typed
    BY InitFine DEF Init, Theirs, HandFilesKept
  <2>2. Neat(disk) /\ crashes = 0 /\ \A j \in Requests : job[j] = Idle
    BY DEF Init
  <2> QED BY <2>1, <2>2, CarefulIdle, SteadyIdle DEF Ordered
<1>2. Typed /\ Theirs /\ Ordered /\ [Next]_vars => (Typed /\ Theirs /\ Ordered)'
  BY NextFine, NextTheirs, NextOrdered
<1>3. Typed /\ Theirs /\ Ordered /\ [Next]_vars =>
        [(\A j \in Requests : job[j].at # "test") =>
           \A n \in Lost : disk[FileOf(disk, n)].by = "edited" \/ LettingGo(n)]_vars
  <2> SUFFICES ASSUME Typed, Theirs, Ordered, [Next]_vars, \A j \in Requests : job[j].at # "test",
                      NEW n \in Lost
               PROVE  disk[FileOf(disk, n)].by = "edited" \/ LettingGo(n)
    OBVIOUS
  <2>1. LosesOwn(disk')
    BY NextFine, NextOrdered
  <2>2. n \in Served(disk) \ Served(disk')
    BY DEF Lost
  <2> QED BY <2>1, <2>2 DEF LosesOwn
<1> QED BY <1>1, <1>2, <1>3, PTL DEF Spec, NoNameIsTaken
================================================================================
