-------------------------- MODULE Certificates_proofs --------------------------
(****************************************************************************)
(* Proofs about Certificates for any names, requests, lifetimes and outages: what  *)
(* is stored can be loaded, and nothing that is served expires.                  *)
(*                                                                          *)
(* The first is about the order of steps: a pair is half written only while its    *)
(* writer is at it. The second is about time: whatever a half month that is over    *)
(* left behind had the month of slack, less the half months of the outage, and      *)
(* what nginx serves differs from it only while the renewal is being loaded.        *)
(****************************************************************************)
EXTENDS Certificates, FiniteSetTheorems, TLAPS

----------------------------------------------------------------------------
(* The inductive invariants.                                                  *)

Running(w) == work[w].at # "idle"

\* Who obtained nothing yet has no serial; who obtained one has it, and a name.
WorkOK(x) ==
  /\ x.at \in {"idle", "issue"} => x.new = None
  /\ x.at # "idle" => x.name \in Names
  /\ x.at \in {"store", "half"} => x.new \in Serials
  /\ x.at = "half" => x.first \in {"cert", "key"}
Typed == TypeOK /\ \A w \in Workers : WorkOK(work[w])

\* One at a time, and what is served is stored.
Alone ==
  /\ \A v, w \in Workers : Running(v) /\ Running(w) => v = w
  /\ \A n \in sites : Stored(n)

\* The file of a half written pair that is there already is the new one.
HalfWritten(x) ==
  x.at = "half" => IF x.first = "cert" THEN serial[x.name] = x.new ELSE key[x.name] = x.new
Paired == PairsMatch /\ \A w \in Workers : HalfWritten(work[w])

\* What a half month may leave: the slack, less the half months of the outage.
Slack == IF Up THEN RenewBelow - MaxOutage - 1 ELSE RenewBelow - outage
InTime ==
  /\ \A n \in Names : Stored(n) => left[n] >= Slack
  /\ looked /\ Up => \A n \in Names : Stored(n) => left[n] >= RenewBelow
  /\ \A n \in sites : served[n] >= Slack

\* nginx serves what is on disk, but for what is being renewed.
Renewing(x, n) == x.at \in {"half", "reload"} /\ x.name = n
Loaded ==
  /\ \A n \in sites : served[n] = left[n] \/ Renewing(work[Renewer], n)
  /\ \A w \in People : Running(w) => work[w].name \notin sites
  /\ Running(Renewer) => work[Renewer].serves

SafeInv == Typed /\ Alone /\ Paired
TimeInv == SafeInv /\ InTime /\ Loaded

----------------------------------------------------------------------------
(* Serials: there is always one that nothing of a name has.                    *)

LEMMA Numbers ==
  /\ IsFiniteSet(Workers) /\ Cardinality(Workers) \in Nat /\ Workers # {}
  /\ Serials \subseteq Nat /\ IsFiniteSet(Serials)
  /\ Cardinality(Serials) = Cardinality(Workers) + 2
  /\ None \notin Serials
<1>1. IsFiniteSet({Renewer} \cup People)
  BY CertificatesAssumption, FS_Singleton, FS_Union
<1>2. Cardinality(Workers) \in Nat
  BY <1>1, FS_CardinalityType DEF Workers
<1> DEFINE m == Cardinality(Workers) + 1
<1>3. m \in Int /\ ~(0 > m) /\ m - 0 + 1 = Cardinality(Workers) + 2
  BY <1>2
<1> HIDE DEF m
<1>4. IsFiniteSet(0..m) /\ Cardinality(0..m) = Cardinality(Workers) + 2
  BY <1>3, FS_Interval
<1>5. Serials = 0..m
  BY DEF Serials, m
<1>6. Serials \subseteq Nat /\ None \notin Serials
  BY <1>2 DEF Serials, None
<1> QED BY <1>1, <1>2, <1>4, <1>5, <1>6 DEF Workers

LEMMA OneMore ==
  ASSUME NEW S, IsFiniteSet(S), NEW x, NEW m \in Int, Cardinality(S) < m
  PROVE  IsFiniteSet(S \cup {x}) /\ Cardinality(S \cup {x}) <= m
<1>1. Cardinality(S) \in Nat
  BY FS_CardinalityType
<1>2. IsFiniteSet(S \cup {x}) /\ Cardinality(S \cup {x}) \in {Cardinality(S), Cardinality(S) + 1}
  BY FS_AddElement
<1> QED BY <1>1, <1>2

LEMMA FreshIs ==
  ASSUME Typed, NEW w \in Workers, work[w].new = None, NEW n \in Names
  PROVE  Fresh(n) \in Serials
<1> DEFINE others == Workers \ {w}
<1> DEFINE taken == [v \in others |-> work[v].new]
<1> DEFINE R == {taken[v] : v \in others}
<1>1. IsFiniteSet(others) /\ Cardinality(others) = Cardinality(Workers) - 1
  BY Numbers, FS_RemoveElement
<1>2. taken \in Surjection(others, R)
  BY DEF Surjection
<1>3. IsFiniteSet(R) /\ Cardinality(R) <= Cardinality(Workers) - 1
  <2> HIDE DEF others, R, taken
  <2> QED BY <1>1, <1>2, FS_Surjection
<1> DEFINE U == R \cup {serial[n]}
<1> DEFINE V == U \cup {key[n]}
<1> HIDE DEF R
<1>4. IsFiniteSet(U) /\ Cardinality(U) <= Cardinality(Workers)
  <2> DEFINE m == Cardinality(Workers)
  <2>1. IsFiniteSet(R) /\ Cardinality(R) \in Int /\ Cardinality(R) < m /\ m \in Int
    BY <1>3, Numbers, FS_CardinalityType
  <2> HIDE DEF m
  <2>2. IsFiniteSet(R \cup {serial[n]}) /\ Cardinality(R \cup {serial[n]}) <= m
    BY <2>1, OneMore
  <2> QED BY <2>2 DEF m
<1> HIDE DEF U
<1>5. IsFiniteSet(V) /\ Cardinality(V) <= Cardinality(Workers) + 1
  <2> DEFINE m == Cardinality(Workers) + 1
  <2>1. IsFiniteSet(U) /\ Cardinality(U) < m /\ m \in Int
    BY <1>4, Numbers, FS_CardinalityType
  <2> HIDE DEF m
  <2>2. IsFiniteSet(U \cup {key[n]}) /\ Cardinality(U \cup {key[n]}) <= m
    BY <2>1, OneMore
  <2> QED BY <2>2 DEF m
<1> HIDE DEF V
<1>6. ~(Serials \subseteq V)
  <2>1. Cardinality(V) \in Nat
    BY <1>5, FS_CardinalityType
  <2>2. Serials \subseteq V => Cardinality(Serials) <= Cardinality(V)
    BY <1>5, FS_Subset
  <2> QED BY <1>5, <2>1, <2>2, Numbers
<1>7. PICK s \in Serials : s \notin V
  BY <1>6
<1>8. s \notin {serial[n], key[n]} /\ \A v \in others : work[v].new # s
  BY <1>7 DEF V, U, R
<1>9. \A v \in Workers : work[v].name = n => work[v].new # s
  BY <1>7, <1>8, Numbers
<1> QED BY <1>7, <1>8, <1>9 DEF Fresh

----------------------------------------------------------------------------
(* Every action is one worker's, or nobody's.                                  *)

LEMMA Parts ==
  TypeOK <=>
    /\ left \in [Names -> Ages] /\ served \in [Names -> Ages] /\ live \in [Names -> Ages]
    /\ serial \in [Names -> Serials \cup {None}] /\ key \in [Names -> Serials \cup {None}]
    /\ sites \subseteq Names /\ todo \subseteq Names
    /\ dns \in BOOLEAN /\ failed \in BOOLEAN /\ looked \in BOOLEAN
    /\ outage \in 0..MaxOutage /\ restarts \in 0..MaxRestarts
    /\ work \in [Workers -> Works]
BY DEF TypeOK

LEMMA DoIs ==
  ASSUME work \in [Workers -> Works], \A v \in Workers : WorkOK(work[v]),
         NEW w \in Workers, NEW x \in Works, WorkOK(x), Do(w, x)
  PROVE  /\ work' \in [Workers -> Works] /\ \A v \in Workers : WorkOK(work[v])'
         /\ work'[w] = x /\ \A v \in Workers \ {w} : work'[v] = work[v]
<1>1. work' \in [Workers -> Works] /\ work'[w] = x /\ \A v \in Workers \ {w} : work'[v] = work[v]
  BY DEF Do
<1> QED BY <1>1 DEF WorkOK

LEMMA IdleIs == Idle \in Works /\ WorkOK(Idle)
BY DEF Idle, Works, WorkOK

LEMMA InitTyped == Init => Typed
<1> SUFFICES ASSUME Init PROVE Typed
  OBVIOUS
<1>1. Lifetime \in Nat /\ MaxOutage \in Nat /\ MaxRestarts \in Nat
  BY CertificatesAssumption
<1>2. Expired \in Ages /\ None \in Ages /\ Lifetime \in Ages
  BY <1>1 DEF Ages, Expired, None
<1>3. /\ left \in [Names -> Ages] /\ served \in [Names -> Ages] /\ live \in [Names -> Ages]
      /\ serial \in [Names -> Serials \cup {None}] /\ key \in [Names -> Serials \cup {None}]
  BY <1>2 DEF Init
<1>4. outage \in 0..MaxOutage /\ restarts \in 0..MaxRestarts
  BY <1>1 DEF Init
<1>5. work \in [Workers -> Works]
  BY IdleIs DEF Init
<1>6. TypeOK
  BY <1>3, <1>4, <1>5, Parts DEF Init
<1>7. \A w \in Workers : work[w] = Idle
  BY DEF Init
<1> QED BY <1>6, <1>7, IdleIs DEF Typed

\* A worker's step, and what it leaves.
Turn(w, x) == w \in Workers /\ x \in Works /\ WorkOK(x) /\ Do(w, x)

LEMMA TurnTyped ==
  ASSUME Typed, NEW w, NEW x, Turn(w, x),
         left' \in [Names -> Ages], served' \in [Names -> Ages],
         serial' \in [Names -> Serials \cup {None}], key' \in [Names -> Serials \cup {None}],
         sites' \subseteq Names, todo' \subseteq Names, failed' \in BOOLEAN, looked' \in BOOLEAN,
         UNCHANGED around
  PROVE  Typed'
<1>1. TypeOK /\ \A v \in Workers : WorkOK(work[v])
  BY DEF Typed
<1>2. work \in [Workers -> Works]
  BY <1>1, Parts
<1>3. work' \in [Workers -> Works] /\ \A v \in Workers : WorkOK(work[v])'
  BY <1>1, <1>2, DoIs DEF Turn
<1>4. TypeOK'
  BY <1>1, <1>3, Parts DEF TypeOK, around
<1> QED BY <1>3, <1>4 DEF Typed

\* What is taken up for a name: a request, or a renewal, that begins.
Begins(w, n, at, serves) ==
  /\ n \in Names /\ at \in {"issue", "reload"} /\ serves \in BOOLEAN
  /\ \E x : Turn(w, x) /\ x.at = at /\ x.name = n /\ x.serves = serves

LEMMA Begun ==
  ASSUME NEW n \in Names, NEW at \in {"issue", "reload"}, NEW serves \in BOOLEAN, NEW x,
         \/ x = [Idle EXCEPT !.at = at, !.name = n, !.serves = serves]
         \/ x = [Idle EXCEPT !.at = at, !.name = n] /\ serves = FALSE,
         NEW w \in Workers, Do(w, x)
  PROVE  Begins(w, n, at, serves)
<1>1. x \in Works /\ WorkOK(x) /\ x.at = at /\ x.name = n /\ x.serves = serves
  BY DEF Idle, Works, WorkOK
<1> QED BY <1>1 DEF Begins, Turn

LEMMA FailTyped ==
  ASSUME Typed, NEW w \in Workers, Fail(w)
  PROVE  Typed'
<1>1. Turn(w, Idle)
  BY IdleIs DEF Fail, Turn
<1>2. failed' \in BOOLEAN
  BY DEF Typed, TypeOK, Fail
<1>3. /\ left' \in [Names -> Ages] /\ served' \in [Names -> Ages]
      /\ serial' \in [Names -> Serials \cup {None}] /\ key' \in [Names -> Serials \cup {None}]
      /\ sites' \subseteq Names /\ todo' \subseteq Names /\ looked' \in BOOLEAN
      /\ UNCHANGED around
  BY Parts DEF Fail, Typed, files
<1> QED BY <1>1, <1>2, <1>3, TurnTyped

LEMMA ObtainTyped ==
  ASSUME Typed, NEW w \in Workers, Obtain(w)
  PROVE  Typed' /\ Turn(w, [work[w] EXCEPT !.at = "store", !.new = Fresh(work[w].name)])
<1> DEFINE s == Fresh(work[w].name)
<1>1. work[w] \in Works /\ WorkOK(work[w]) /\ work[w].at = "issue"
  BY DEF Obtain, Typed, TypeOK
<1>2. s \in Serials
  BY <1>1, FreshIs DEF WorkOK
<1> HIDE DEF s
<1>3. [work[w] EXCEPT !.at = "store", !.new = s] \in Works
      /\ WorkOK([work[w] EXCEPT !.at = "store", !.new = s])
  BY <1>1, <1>2 DEF Works, WorkOK
<1>4. Turn(w, [work[w] EXCEPT !.at = "store", !.new = s])
  BY <1>3 DEF Obtain, Turn, s
<1>5. /\ left' \in [Names -> Ages] /\ served' \in [Names -> Ages]
      /\ serial' \in [Names -> Serials \cup {None}] /\ key' \in [Names -> Serials \cup {None}]
      /\ sites' \subseteq Names /\ todo' \subseteq Names /\ looked' \in BOOLEAN
      /\ failed' \in BOOLEAN /\ UNCHANGED around
  BY Parts DEF Obtain, Typed, files, look
<1> QED BY <1>4, <1>5, TurnTyped DEF s

\* A written file is of the issuance at hand.
LEMMA Written ==
  ASSUME Typed, NEW w \in Workers, work[w].at \in {"store", "half"},
         NEW file \in {"cert", "key"}, Write(w, file)
  PROVE  LET n == work[w].name IN
         /\ n \in Names /\ work[w].new \in Serials
         /\ left' \in [Names -> Ages]
         /\ serial' \in [Names -> Serials \cup {None}] /\ key' \in [Names -> Serials \cup {None}]
         /\ \A m \in Names \ {n} : left'[m] = left[m] /\ serial'[m] = serial[m] /\ key'[m] = key[m]
         /\ file = "cert" => serial'[n] = work[w].new /\ left'[n] = Lifetime /\ key' = key
         /\ file = "key" => key'[n] = work[w].new /\ left' = left /\ serial' = serial
<1> DEFINE n == work[w].name
<1>1. n \in Names /\ work[w].new \in Serials
  BY DEF Typed, WorkOK
<1>2. /\ left \in [Names -> Ages] /\ serial \in [Names -> Serials \cup {None}]
      /\ key \in [Names -> Serials \cup {None}]
  BY Parts DEF Typed
<1>3. Lifetime \in Ages
  BY CertificatesAssumption DEF Ages, Expired
<1>4. CASE file = "cert"
  BY <1>1, <1>2, <1>3, <1>4 DEF Write
<1>5. CASE file = "key"
  BY <1>1, <1>2, <1>5 DEF Write
<1> QED BY <1>4, <1>5

LEMMA StoreFirstTyped ==
  ASSUME Typed, NEW w \in Workers, NEW file \in {"cert", "key"}, work[w].at = "store",
         Write(w, file), Do(w, [work[w] EXCEPT !.at = "half", !.first = file]),
         UNCHANGED <<sites, served, look, around>>
  PROVE  Typed' /\ Turn(w, [work[w] EXCEPT !.at = "half", !.first = file])
<1>1. work[w] \in Works /\ WorkOK(work[w]) /\ work[w].at = "store"
  BY DEF Typed, TypeOK
<1>2. Turn(w, [work[w] EXCEPT !.at = "half", !.first = file])
  BY <1>1 DEF Works, WorkOK, Turn
<1>3. /\ left' \in [Names -> Ages] /\ serial' \in [Names -> Serials \cup {None}]
      /\ key' \in [Names -> Serials \cup {None}]
  BY Written
<1>4. /\ served' \in [Names -> Ages] /\ sites' \subseteq Names /\ todo' \subseteq Names
      /\ looked' \in BOOLEAN /\ failed' \in BOOLEAN /\ UNCHANGED around
  BY Parts DEF Typed, look
<1> QED BY <1>2, <1>3, <1>4, TurnTyped

\* Where a stored pair goes next.
Goes(x) == IF x.serves THEN [x EXCEPT !.at = "reload"] ELSE Idle
Other(x) == IF x.first = "cert" THEN "key" ELSE "cert"

LEMMA StoreSecondTyped ==
  ASSUME Typed, NEW w \in Workers, StoreSecond(w)
  PROVE  Typed' /\ Turn(w, Goes(work[w])) /\ Write(w, Other(work[w]))
<1>1. work[w] \in Works /\ WorkOK(work[w]) /\ work[w].at = "half"
  BY DEF Typed, TypeOK, StoreSecond
<1>2. [work[w] EXCEPT !.at = "reload"] \in Works /\ WorkOK([work[w] EXCEPT !.at = "reload"])
  BY <1>1 DEF Works, WorkOK
<1>3. Turn(w, Goes(work[w])) /\ Write(w, Other(work[w]))
  BY <1>2, IdleIs DEF Turn, Goes, Other, StoreSecond
<1>4. /\ left' \in [Names -> Ages] /\ serial' \in [Names -> Serials \cup {None}]
      /\ key' \in [Names -> Serials \cup {None}]
  BY <1>1, <1>3, Written DEF Other
<1>5. /\ served' \in [Names -> Ages] /\ sites' \subseteq Names /\ todo' \subseteq Names
      /\ looked' \in BOOLEAN /\ failed' \in BOOLEAN /\ UNCHANGED around
  BY Parts DEF Typed, look, StoreSecond
<1> QED BY <1>3, <1>4, <1>5, TurnTyped

\* What nginx loads is what is on disk.
LEMMA LoadingIs ==
  ASSUME Typed, NEW S \in SUBSET Names, Loading(S)
  PROVE  served' \in [Names -> Ages] /\ \A n \in S : served'[n] = left[n]
<1>1. Expired \in Ages
  BY CertificatesAssumption DEF Ages, Expired
<1>2. left \in [Names -> Ages]
  BY Parts DEF Typed
<1> QED BY <1>1, <1>2 DEF Loading

LEMMA ReloadTyped ==
  ASSUME Typed, NEW w \in Workers, Reload(w)
  PROVE  Typed' /\ Turn(w, Idle) /\ work[w].name \in Names
         /\ sites' = sites \cup {work[w].name} /\ \A n \in sites' : served'[n] = left[n]
<1>1. work[w].name \in Names
  BY DEF Typed, WorkOK, Reload
<1>2. sites' \in SUBSET Names /\ sites' = sites \cup {work[w].name}
  BY <1>1, Parts DEF Typed, Reload
<1>3. served' \in [Names -> Ages] /\ \A n \in sites' : served'[n] = left[n]
  BY <1>2, LoadingIs DEF Reload
<1>4. Turn(w, Idle)
  BY IdleIs DEF Turn, Reload
<1>5. /\ left' \in [Names -> Ages] /\ serial' \in [Names -> Serials \cup {None}]
      /\ key' \in [Names -> Serials \cup {None}] /\ todo' \subseteq Names
      /\ looked' \in BOOLEAN /\ failed' \in BOOLEAN /\ UNCHANGED around
  BY Parts DEF Typed, look, files, Reload
<1> QED BY <1>1, <1>2, <1>3, <1>4, <1>5, TurnTyped

LEMMA ReloadRenewedTyped ==
  ASSUME Typed, ReloadRenewed
  PROVE  Typed' /\ Turn(Renewer, Idle) /\ \A n \in sites : served'[n] = left[n]
<1>1. sites \in SUBSET Names
  BY Parts DEF Typed
<1>2. served' \in [Names -> Ages] /\ \A n \in sites : served'[n] = left[n]
  BY <1>1, LoadingIs DEF ReloadRenewed
<1>3. Turn(Renewer, Idle)
  BY IdleIs DEF Turn, ReloadRenewed, Workers
<1>4. /\ left' \in [Names -> Ages] /\ serial' \in [Names -> Serials \cup {None}]
      /\ key' \in [Names -> Serials \cup {None}] /\ todo' \subseteq Names /\ sites' \subseteq Names
      /\ looked' \in BOOLEAN /\ failed' \in BOOLEAN /\ UNCHANGED around
  BY Parts DEF Typed, look, files, ReloadRenewed
<1> QED BY <1>2, <1>3, <1>4, TurnTyped


LEMMA BeginTyped ==
  ASSUME Typed, NEW w, NEW n, NEW at, NEW serves, Begins(w, n, at, serves),
         UNCHANGED <<files, sites, served, failed, looked, around>>, todo' \subseteq todo
  PROVE  Typed'
<1>1. /\ left' \in [Names -> Ages] /\ served' \in [Names -> Ages]
      /\ serial' \in [Names -> Serials \cup {None}] /\ key' \in [Names -> Serials \cup {None}]
      /\ sites' \subseteq Names /\ todo' \subseteq Names /\ looked' \in BOOLEAN
      /\ failed' \in BOOLEAN /\ UNCHANGED around
  BY Parts DEF Typed, files
<1> QED BY <1>1, TurnTyped DEF Begins

Asked(w, n) == EnableTLS(w, n) \/ IssueWildcard(w, n) \/ CertIssue(w, n) \/ ServeCovered(w, n)

LEMMA AskedIs ==
  ASSUME NEW w \in People, NEW n \in Names, Asked(w, n)
  PROVE  /\ Free(w) /\ UNCHANGED <<files, sites, served, todo, failed, looked, around>>
         /\ \E at \in {"issue", "reload"}, serves \in BOOLEAN :
              /\ Begins(w, n, at, serves)
              /\ n \notin sites \/ (serves = FALSE /\ (Stored(n) => Again))
              /\ at = "reload" => Stored(n)
<1>1. w \in Workers
  BY DEF Workers
<1>2. CASE EnableTLS(w, n)
  <2> DEFINE x == [Idle EXCEPT !.at = "issue", !.name = n, !.serves = TRUE]
  <2>1. Do(w, x) /\ x = [Idle EXCEPT !.at = "issue", !.name = n, !.serves = TRUE]
    BY <1>2 DEF EnableTLS
  <2> HIDE DEF x
  <2>2. Begins(w, n, "issue", TRUE) /\ n \notin sites
    BY <1>1, <1>2, <2>1, Begun DEF EnableTLS
  <2> QED BY <1>2, <2>2 DEF EnableTLS, look
<1>3. CASE ToKeep(w, n)
  <2> DEFINE x == [Idle EXCEPT !.at = "issue", !.name = n]
  <2>1. Do(w, x) /\ x = [Idle EXCEPT !.at = "issue", !.name = n]
    BY <1>3 DEF ToKeep
  <2> HIDE DEF x
  <2>2. Begins(w, n, "issue", FALSE) /\ (Stored(n) => Again)
    BY <1>1, <1>3, <2>1, Begun DEF ToKeep
  <2> QED BY <1>3, <2>2 DEF ToKeep, look
<1>4. CASE ServeCovered(w, n)
  <2> DEFINE x == [Idle EXCEPT !.at = "reload", !.name = n, !.serves = TRUE]
  <2>1. Do(w, x) /\ x = [Idle EXCEPT !.at = "reload", !.name = n, !.serves = TRUE]
    BY <1>4 DEF ServeCovered
  <2> HIDE DEF x
  <2>2. Begins(w, n, "reload", TRUE) /\ n \notin sites /\ Stored(n)
    BY <1>1, <1>4, <2>1, Begun DEF ServeCovered, Managed
  <2> QED BY <1>4, <2>2 DEF ServeCovered, look
<1> QED BY <1>2, <1>3, <1>4 DEF Asked, IssueWildcard, CertIssue

LEMMA RenewNextIs ==
  ASSUME Typed, RenewNext
  PROVE  /\ Free(Renewer) /\ UNCHANGED <<files, sites, served, failed, looked, around>>
         /\ todo' \subseteq todo /\ \E n \in Names : Begins(Renewer, n, "issue", TRUE)
<1>1. PICK n \in todo : /\ todo' = todo \ {n}
                        /\ Do(Renewer, [Idle EXCEPT !.at = "issue", !.name = n, !.serves = TRUE])
  BY DEF RenewNext
<1>2. n \in Names
  BY <1>1, Parts DEF Typed
<1> DEFINE x == [Idle EXCEPT !.at = "issue", !.name = n, !.serves = TRUE]
<1>3. Do(Renewer, x) /\ x = [Idle EXCEPT !.at = "issue", !.name = n, !.serves = TRUE]
  BY <1>1
<1> HIDE DEF x
<1>4. Begins(Renewer, n, "issue", TRUE)
  BY <1>2, <1>3, Begun DEF Workers
<1> QED BY <1>1, <1>2, <1>4 DEF RenewNext

\* What is nobody's step.
LEMMA OlderIs ==
  ASSUME NEW age \in Ages
  PROVE  /\ Older(age) \in Ages /\ age \in Int /\ Lifetime \in Nat
         /\ age > Expired => Older(age) = age - 1
BY CertificatesAssumption DEF Ages, Older, Expired

LEMMA HalfMonthTyped ==
  ASSUME Typed, HalfMonth
  PROVE  Typed'
<1>1. /\ left \in [Names -> Ages] /\ served \in [Names -> Ages] /\ live \in [Names -> Ages]
      /\ outage \in 0..MaxOutage
  BY Parts DEF Typed
<1>2. left' \in [Names -> Ages] /\ served' \in [Names -> Ages] /\ live' \in [Names -> Ages]
  BY <1>1, OlderIs DEF HalfMonth
<1>4. MaxOutage \in Nat
  BY CertificatesAssumption
<1>3. outage' \in 0..MaxOutage
  BY <1>1, <1>4 DEF HalfMonth
<1>5. TypeOK'
  BY <1>2, <1>3, Parts DEF Typed, HalfMonth, TypeOK
<1> QED BY <1>5 DEF Typed, HalfMonth, WorkOK

LEMMA RestartTyped ==
  ASSUME Typed, Restart
  PROVE  Typed' /\ \A w \in Workers : work'[w] = Idle
<1>1. restarts \in 0..MaxRestarts /\ MaxRestarts \in Nat
  BY Parts, CertificatesAssumption DEF Typed
<1>2. restarts' \in 0..MaxRestarts
  BY <1>1 DEF Restart
<1>4. work' \in [Workers -> Works] /\ \A w \in Workers : work'[w] = Idle
  BY IdleIs DEF Restart
<1>3. TypeOK'
  BY <1>2, <1>4, Parts DEF Typed, Restart, TypeOK, files
<1> QED BY <1>4, <1>3, IdleIs DEF Typed

LEMMA ByOthersTyped ==
  ASSUME Typed, ReloadByOthers
  PROVE  Typed' /\ \A n \in sites : served'[n] = left[n]
<1>1. sites \in SUBSET Names
  BY Parts DEF Typed
<1>2. served' \in [Names -> Ages] /\ \A n \in sites : served'[n] = left[n]
  BY <1>1, LoadingIs DEF ReloadByOthers
<1>4. TypeOK'
  BY <1>2, Parts DEF Typed, ReloadByOthers, TypeOK, files, look, around
<1> QED BY <1>2, <1>4 DEF Typed, ReloadByOthers

\* A look, or a change of the provider's credentials.
Aside == Look \/ EndLook \/ SaveDNS \/ UNCHANGED vars

LEMMA AsideTyped ==
  ASSUME Typed, Aside
  PROVE  Typed' /\ UNCHANGED <<files, sites, served, work, outage>>
<1>1. UNCHANGED <<files, sites, served, work, live, outage, restarts>>
  BY DEF Aside, Look, EndLook, SaveDNS, vars, around, files
<1>2. todo' \subseteq Names /\ dns' \in BOOLEAN /\ looked' \in BOOLEAN /\ failed' \in BOOLEAN
  <2>1. /\ todo \subseteq Names /\ dns \in BOOLEAN /\ looked \in BOOLEAN /\ failed \in BOOLEAN
    BY Parts DEF Typed
  <2>2. CASE Look
    BY <2>1, <2>2 DEF Look, around
  <2>3. CASE EndLook
    BY <2>1, <2>3 DEF EndLook, around
  <2>4. CASE SaveDNS
    BY <2>1, <2>4 DEF SaveDNS, Save, look
  <2>5. CASE UNCHANGED vars
    BY <2>1, <2>5 DEF vars
  <2> QED BY <2>2, <2>3, <2>4, <2>5 DEF Aside
<1>4. TypeOK'
  BY <1>1, <1>2, Parts DEF Typed, TypeOK, files
<1> QED BY <1>1, <1>4 DEF Typed

\* A worker at its steps.
LEMMA StepTyped ==
  ASSUME Typed, NEW w \in Workers, Step(w)
  PROVE  Typed'
<1>1. CASE NotObtained(w) \/ Refused(w)
  BY <1>1, FailTyped DEF NotObtained, Refused
<1>2. CASE StoreFirst(w)
  <2>1. PICK file \in {"cert", "key"} :
          /\ Write(w, file) /\ Do(w, [work[w] EXCEPT !.at = "half", !.first = file])
    BY <1>2 DEF StoreFirst
  <2> QED BY <1>2, <2>1, StoreFirstTyped DEF StoreFirst
<1> QED BY <1>1, <1>2, ObtainTyped, StoreSecondTyped, ReloadTyped DEF Step

LEMMA NextTyped == Typed /\ [Next]_vars => Typed'
<1> SUFFICES ASSUME Typed, [Next]_vars PROVE Typed'
  OBVIOUS
<1>1. ASSUME NEW w \in People, NEW n \in Names, Asked(w, n) PROVE Typed'
  BY <1>1, AskedIs, BeginTyped
<1>2. CASE RenewNext
  BY <1>2, RenewNextIs, BeginTyped
<1> QED BY <1>1, <1>2, StepTyped, ReloadRenewedTyped, HalfMonthTyped, RestartTyped, ByOthersTyped,
           AsideTyped DEF Next, Loop, Asked, Aside

\* Every pair, clock and request is one there can be.
THEOREM TypeCorrect == Spec => []TypeOK
<1>1. Typed => TypeOK
  BY DEF Typed
<1> QED BY <1>1, InitTyped, NextTyped, PTL DEF Spec

----------------------------------------------------------------------------
(* What is stored can be loaded, where one thing is done at a time and the agent  *)
(* does not stop between the two files of a pair.                                *)

Orderly == ~AtOnce /\ "half" \notin Breaks
Nobody == \A v \in Workers : ~Running(v)
Solo == \A v, w \in Workers : Running(v) /\ Running(w) => v = w

LEMMA FreeIsSolo ==
  ASSUME Orderly, NEW w, Free(w)
  PROVE  Nobody
BY DEF Orderly, Free, Nobody, Running

LEMMA TurnSolo ==
  ASSUME Typed, Solo, NEW w, NEW x, Turn(w, x), Running(w) \/ Nobody
  PROVE  /\ Solo' /\ work'[w] = x /\ \A v \in Workers \ {w} : work'[v] = work[v] /\ ~Running(v)
<1>1. work'[w] = x /\ \A v \in Workers \ {w} : work'[v] = work[v]
  BY DoIs DEF Typed, TypeOK, Turn
<1>2. \A v \in Workers \ {w} : ~Running(v)
  BY DEF Solo, Nobody, Turn
<1> QED BY <1>1, <1>2 DEF Solo, Running

\* A turn that writes no file.
LEMMA TurnPaired ==
  ASSUME Typed, Paired, NEW w, NEW x, Turn(w, x), work[w].at # "half", x.at # "half",
         serial' = serial, key' = key
  PROVE  Paired'
<1>1. work'[w] = x /\ \A v \in Workers \ {w} : work'[v] = work[v]
  BY DoIs DEF Typed, TypeOK, Turn
<1>2. \A v \in Workers : work'[v].at = "half" => work'[v] = work[v]
  BY <1>1
<1>3. \A v \in Workers : work[v].at = "half" => work'[v] = work[v]
  BY <1>1
<1>4. \A v \in Workers : HalfWritten(work[v])'
  BY <1>2 DEF Paired, HalfWritten
<1>5. PairsMatch'
  BY <1>3 DEF Paired, PairsMatch, Matching
<1> QED BY <1>4, <1>5 DEF Paired

LEMMA StoreFirstPaired ==
  ASSUME Typed, Solo, Paired, NEW w \in Workers, NEW file \in {"cert", "key"},
         work[w].at = "store", Write(w, file),
         Turn(w, [work[w] EXCEPT !.at = "half", !.first = file])
  PROVE  Paired' /\ Solo'
<1> DEFINE x == [work[w] EXCEPT !.at = "half", !.first = file]
<1>1. work[w] \in Works
  BY DEF Typed, TypeOK
<1>2. x.at = "half" /\ x.first = file /\ x.name = work[w].name /\ x.new = work[w].new
  BY <1>1 DEF Works
<1>3. Turn(w, x)
  OBVIOUS
<1> HIDE DEF x
<1>4. Solo' /\ work'[w] = x /\ \A v \in Workers \ {w} : work'[v] = work[v] /\ work[v].at = "idle"
  BY <1>3, TurnSolo DEF Running
<1>5. \A m \in Names \ {work[w].name} : serial'[m] = serial[m] /\ key'[m] = key[m]
  BY Written
<1>6. file = "cert" => serial'[work[w].name] = work[w].new
  BY Written
<1>7. file = "key" => key'[work[w].name] = work[w].new
  BY Written
<1>8. IF x.first = "cert" THEN serial'[x.name] = x.new ELSE key'[x.name] = x.new
  BY <1>2, <1>6, <1>7
<1>9. \A v \in Workers : HalfWritten(work[v])'
  <2>1. HalfWritten(work[w])'
    BY <1>4, <1>8 DEF HalfWritten
  <2>2. \A v \in Workers \ {w} : work'[v].at # "half"
    BY <1>4
  <2> QED BY <2>1, <2>2 DEF HalfWritten
<1>10. ASSUME NEW m \in Names, \A v \in Workers : work'[v].name = m => work'[v].at # "half"
       PROVE  Matching(m)'
  <2>1. m # work[w].name
    BY <1>2, <1>4, <1>10
  <2>2. Matching(m)
    BY <1>4, <2>1 DEF Paired, PairsMatch
  <2> QED BY <1>5, <2>1, <2>2 DEF Matching
<1>11. PairsMatch'
  BY <1>10 DEF PairsMatch
<1> QED BY <1>4, <1>9, <1>11 DEF Paired

LEMMA StoreSecondPaired ==
  ASSUME Typed, Solo, Paired, NEW w \in Workers, StoreSecond(w)
  PROVE  Paired' /\ Solo'
<1>1. Turn(w, Goes(work[w])) /\ Write(w, Other(work[w])) /\ work[w].at = "half"
  BY StoreSecondTyped DEF StoreSecond
<1>2. work[w] \in Works /\ work[w].first \in {"cert", "key"}
  BY <1>1 DEF Typed, TypeOK, WorkOK
<1>3. Goes(work[w]).at # "half"
  BY <1>2 DEF Goes, Works, Idle
<1>4. Solo' /\ \A v \in Workers : work'[v].at # "half"
  BY <1>1, <1>3, TurnSolo DEF Running
<1>5. \A m \in Names \ {work[w].name} : serial'[m] = serial[m] /\ key'[m] = key[m]
  BY <1>1, Written DEF Other
<1>6. \A m \in Names \ {work[w].name} : Matching(m)
  BY <1>1, TurnSolo DEF Paired, PairsMatch, Running
<1>7. PICK n : n = work[w].name
  OBVIOUS
<1>8. Matching(n)'
  <2>1. CASE work[w].first = "cert"
    <3>1. key'[n] = work[w].new /\ serial' = serial
      BY <1>1, <1>7, <2>1, Written DEF Other
    <3>2. serial[n] = work[w].new
      BY <1>1, <1>7, <2>1 DEF Paired, HalfWritten
    <3> QED BY <3>1, <3>2 DEF Matching
  <2>2. CASE work[w].first = "key"
    <3>1. serial'[n] = work[w].new /\ key' = key
      BY <1>1, <1>7, <2>2, Written DEF Other
    <3>2. key[n] = work[w].new
      BY <1>1, <1>7, <2>2 DEF Paired, HalfWritten
    <3> QED BY <3>1, <3>2 DEF Matching
  <2> QED BY <1>2, <2>1, <2>2
<1>9. \A m \in Names : Matching(m)'
  BY <1>5, <1>6, <1>7, <1>8 DEF Matching
<1> QED BY <1>4, <1>9 DEF Paired, PairsMatch, HalfWritten

\* A certificate that is there stays there, and only what can be loaded is served.
LEMMA WriteStores ==
  ASSUME Typed, NEW w \in Workers, work[w].at \in {"store", "half"},
         NEW file \in {"cert", "key"}, Write(w, file)
  PROVE  \A n \in Names : Stored(n) => Stored(n)'
<1>1. \A n \in Names \ {work[w].name} : serial'[n] = serial[n]
  BY Written
<1>2. \A n \in Names : n = work[w].name => serial'[n] = serial[n] \/ serial'[n] \in Serials
  BY Written
<1> QED BY <1>1, <1>2, Numbers DEF Stored

LEMMA StepAlone ==
  ASSUME Orderly, SafeInv, NEW w \in Workers, Step(w)
  PROVE  Alone' /\ Paired'
<1>t. Typed /\ Solo /\ Paired /\ sites \subseteq Names /\ \A n \in sites : Stored(n)
  BY Parts DEF SafeInv, Alone, Solo, Typed
<1>1. CASE Obtain(w)
  <2> DEFINE x == [work[w] EXCEPT !.at = "store", !.new = Fresh(work[w].name)]
  <2>1. Turn(w, x) /\ work[w].at = "issue" /\ UNCHANGED <<files, sites>>
    BY <1>1, <1>t, ObtainTyped DEF Obtain
  <2>2. x.at = "store"
    BY <1>t DEF Typed, TypeOK, Works
  <2> HIDE DEF x
  <2>3. Solo' /\ Paired'
    BY <1>t, <2>1, <2>2, TurnSolo, TurnPaired DEF Running, files
  <2> QED BY <1>t, <2>1, <2>3 DEF Alone, Solo, Stored, files
<1>2. CASE NotObtained(w) \/ Refused(w)
  <2>1. Turn(w, Idle) /\ work[w].at \in {"issue", "reload"} /\ UNCHANGED <<files, sites>>
    BY <1>2, IdleIs DEF NotObtained, Refused, Fail, Turn
  <2>2. Idle.at # "half"
    BY DEF Idle
  <2>3. Solo' /\ Paired'
    BY <1>t, <2>1, <2>2, TurnSolo, TurnPaired DEF Running, files
  <2> QED BY <1>t, <2>1, <2>3 DEF Alone, Solo, Stored, files
<1>3. CASE StoreFirst(w)
  <2>1. PICK file \in {"cert", "key"} :
          /\ Write(w, file) /\ Do(w, [work[w] EXCEPT !.at = "half", !.first = file])
    BY <1>3 DEF StoreFirst
  <2>2. work[w].at = "store" /\ UNCHANGED <<sites, served, look, around>>
    BY <1>3 DEF StoreFirst
  <2>3. Turn(w, [work[w] EXCEPT !.at = "half", !.first = file])
    BY <1>t, <2>1, <2>2, StoreFirstTyped
  <2>4. Paired' /\ Solo'
    BY <1>t, <2>1, <2>2, <2>3, StoreFirstPaired
  <2>5. \A n \in Names : Stored(n) => Stored(n)'
    BY <1>t, <2>1, <2>2, WriteStores
  <2> QED BY <1>t, <2>2, <2>4, <2>5 DEF Alone, Solo
<1>4. CASE StoreSecond(w)
  <2>1. Paired' /\ Solo' /\ Write(w, Other(work[w])) /\ Other(work[w]) \in {"cert", "key"}
    BY <1>t, <1>4, StoreSecondTyped, StoreSecondPaired DEF Other
  <2>2. work[w].at = "half" /\ sites' = sites
    BY <1>4 DEF StoreSecond
  <2>3. \A n \in Names : Stored(n) => Stored(n)'
    BY <1>t, <2>1, <2>2, WriteStores
  <2> QED BY <1>t, <2>1, <2>2, <2>3 DEF Alone, Solo
<1>5. CASE Reload(w)
  <2>1. Turn(w, Idle) /\ sites' = sites \cup {work[w].name} /\ work[w].at = "reload"
        /\ UNCHANGED files /\ Passes(sites \cup {work[w].name})
    BY <1>t, <1>5, ReloadTyped DEF Reload
  <2>2. Idle.at # "half"
    BY DEF Idle
  <2>3. Solo' /\ Paired'
    BY <1>t, <2>1, <2>2, TurnSolo, TurnPaired DEF Running, files
  <2> QED BY <1>t, <2>1, <2>3 DEF Alone, Solo, Stored, files, Passes
<1> QED BY <1>1, <1>2, <1>3, <1>4, <1>5 DEF Step

LEMMA BeginAlone ==
  ASSUME Orderly, SafeInv, NEW w, NEW n, NEW at, NEW serves, Begins(w, n, at, serves), Free(w),
         UNCHANGED <<files, sites>>
  PROVE  Alone' /\ Paired'
<1>t. Typed /\ Solo /\ Paired /\ sites \subseteq Names /\ \A m \in sites : Stored(m)
  BY Parts DEF SafeInv, Alone, Solo, Typed
<1>1. PICK x : Turn(w, x) /\ x.at = at
  BY DEF Begins
<1>2. Nobody /\ x.at # "half" /\ work[w].at # "half"
  BY <1>1, FreeIsSolo DEF Begins, Free
<1>3. Solo' /\ Paired'
  BY <1>t, <1>1, <1>2, TurnSolo, TurnPaired DEF files
<1> QED BY <1>t, <1>3 DEF Alone, Solo, Stored, files

\* Everybody stays where they were.
LEMMA StayAlone ==
  ASSUME SafeInv, UNCHANGED <<serial, key, sites, work>>
  PROVE  Alone' /\ Paired'
BY DEF SafeInv, Alone, Paired, PairsMatch, HalfWritten, Matching, Stored, Running

LEMMA RestartAlone ==
  ASSUME Orderly, SafeInv, Restart
  PROVE  Alone' /\ Paired'
<1>1. \A w \in Workers : work'[w] = Idle
  BY RestartTyped DEF SafeInv
<1>2. \A w \in Workers : work[w].at # "half"
  BY DEF Restart, Orderly
<1>3. \A n \in Names : Matching(n)
  BY <1>2 DEF SafeInv, Paired, PairsMatch
<1>4. UNCHANGED <<serial, key, sites>> /\ Idle.at = "idle"
  BY DEF Restart, files, Idle
<1>5. Alone'
  BY <1>1, <1>4 DEF SafeInv, Alone, Running, Stored
<1>6. Paired'
  BY <1>1, <1>3, <1>4 DEF Paired, PairsMatch, HalfWritten, Matching
<1> QED BY <1>5, <1>6

LEMMA InitSafe == Init => SafeInv
<1> SUFFICES ASSUME Init PROVE SafeInv
  OBVIOUS
<1>1. \A w \in Workers : work[w].at = "idle"
  BY DEF Init, Idle
<1> QED BY <1>1, InitTyped
        DEF Init, SafeInv, Alone, Paired, PairsMatch, HalfWritten, Matching, Running

LEMMA NextSafe == Orderly /\ SafeInv /\ [Next]_vars => SafeInv'
<1> SUFFICES ASSUME Orderly, SafeInv, [Next]_vars PROVE SafeInv'
  OBVIOUS
<1>t. Typed /\ Typed'
  BY NextTyped DEF SafeInv
<1> SUFFICES Alone' /\ Paired'
  BY <1>t DEF SafeInv
<1>1. ASSUME NEW w \in People, NEW n \in Names, Asked(w, n) PROVE Alone' /\ Paired'
  BY <1>1, AskedIs, BeginAlone
<1>2. CASE RenewNext
  BY <1>t, <1>2, RenewNextIs, BeginAlone
<1>3. CASE ReloadRenewed
  <2>1. Turn(Renewer, Idle) /\ work[Renewer].at = "reload" /\ UNCHANGED <<files, sites>>
    BY <1>t, <1>3, ReloadRenewedTyped DEF ReloadRenewed
  <2>2. Idle.at # "half"
    BY DEF Idle
  <2>3. Solo /\ Paired
    BY DEF SafeInv, Alone, Solo
  <2>4. Solo' /\ Paired'
    BY <1>t, <2>1, <2>2, <2>3, TurnSolo, TurnPaired DEF Running, files
  <2> QED BY <2>1, <2>4 DEF SafeInv, Alone, Solo, Stored, files
<1>4. CASE ReloadByOthers \/ HalfMonth \/ Aside
  BY <1>t, <1>4, AsideTyped, StayAlone DEF ReloadByOthers, HalfMonth, files
<1> QED BY <1>1, <1>2, <1>3, <1>4, StepAlone, RestartAlone DEF Next, Loop, Asked, Aside

\* Where one thing is done at a time and the agent does not stop between the two files
\* of a pair, what is stored is a certificate with its key, at every moment but those.
THEOREM WhatIsStoredLoads == ~AtOnce /\ "half" \notin Breaks => (Spec => []CertificatesInv)
<1> SUFFICES ASSUME Orderly PROVE Spec => []CertificatesInv
  BY DEF Orderly
<1>1. SafeInv /\ [Next]_vars => SafeInv'
  BY NextSafe
<1>2. SafeInv => CertificatesInv
  BY DEF SafeInv, Typed, Paired, CertificatesInv
<1> QED BY <1>1, <1>2, InitSafe, PTL DEF Spec

----------------------------------------------------------------------------
(* What is served has not expired, where moreover nobody issues again what is      *)
(* there, no restart comes between storing and reloading, and certbot has nothing   *)
(* of the names that croft keeps.                                               *)

Steady ==
  /\ Orderly /\ ~Again /\ Breaks = {} /\ Certbots \subseteq Wild
  /\ MaxOutage < RenewBelow

LEMMA SlackIs ==
  ASSUME Steady, outage \in 0..MaxOutage
  PROVE  /\ Slack \in Int /\ Slack >= 0 /\ Slack <= RenewBelow
         /\ RenewBelow \in Nat /\ Lifetime \in Nat /\ Lifetime >= RenewBelow
         /\ MaxOutage \in Nat
BY CertificatesAssumption DEF Steady, Slack, Up

LEMMA TimeParts ==
  ASSUME Steady, TimeInv
  PROVE  /\ Typed /\ Solo /\ Paired /\ InTime /\ Loaded /\ SafeInv
         /\ left \in [Names -> Ages] /\ served \in [Names -> Ages] /\ sites \subseteq Names
         /\ outage \in 0..MaxOutage /\ work \in [Workers -> Works]
         /\ \A n \in sites : Stored(n)
         /\ Ages \subseteq Int
<1>1. Ages \subseteq Int
  BY CertificatesAssumption DEF Ages, Expired
<1> QED BY <1>1, Parts DEF TimeInv, SafeInv, Typed, Alone, Solo

\* Nothing that the times are about changes.
LEMMA StayInTime ==
  ASSUME InTime, UNCHANGED <<left, serial, served, sites, looked, outage>>
  PROVE  InTime'
BY DEF InTime, Stored, Slack, Up

\* A worker's turn that leaves disk and nginx as they are, at whatever it was before
\* the first file, or giving a request up.
LEMMA StayLoaded ==
  ASSUME Steady, TimeInv, NEW w, NEW x, Turn(w, x), Running(w) \/ Nobody,
         UNCHANGED <<left, served, sites>>,
         w = Renewer => work[w].at \notin {"half", "reload"},
         w \in People /\ x.at # "idle" => x.name \notin sites,
         w = Renewer /\ x.at # "idle" => x.serves
  PROVE  Loaded'
<1>1. /\ work'[w] = x /\ \A v \in Workers \ {w} : work'[v] = work[v] /\ ~Running(v)
  BY TimeParts, TurnSolo
<1>2. Renewer \in Workers /\ People \subseteq Workers /\ Renewer \notin People
  BY CertificatesAssumption DEF Workers
<1>3. \A n \in sites : served[n] = left[n] \/ (Renewer # w /\ Renewing(work[Renewer], n))
  BY TimeParts DEF Loaded, Renewing
<1>4. \A n \in sites' : served'[n] = left'[n] \/ Renewing(work[Renewer], n)'
  BY <1>1, <1>2, <1>3 DEF Renewing
<1>5. ASSUME NEW v \in People, Running(v)' PROVE work'[v].name \notin sites'
  BY <1>1, <1>2, <1>5 DEF Running
<1>6. Running(Renewer)' => work'[Renewer].serves
  BY <1>1, <1>2 DEF Running
<1> QED BY <1>4, <1>5, <1>6 DEF Loaded

\* nginx has just loaded what is on disk.
LEMMA JustLoaded ==
  ASSUME Steady, TimeInv, left' = left, serial' = serial, looked' = looked, outage' = outage,
         \A n \in sites' : Stored(n), sites' \subseteq Names,
         \A n \in sites' : served'[n] = left[n]
  PROVE  InTime' /\ \A n \in sites' : served'[n] = left'[n]
BY TimeParts DEF InTime, Stored, Slack, Up

\* A file is written: what there is of the name lasts for a lifetime.
LEMMA WriteInTime ==
  ASSUME Steady, TimeInv, NEW w \in Workers, work[w].at \in {"store", "half"},
         NEW file \in {"cert", "key"}, Write(w, file), UNCHANGED <<sites, served, looked, outage>>
  PROVE  InTime' /\ \A m \in Names \ {work[w].name} : left'[m] = left[m]
<1>1. PICK n \in Names : n = work[w].name
  BY TimeParts, Written
<1>2. \A m \in Names \ {n} : left'[m] = left[m] /\ serial'[m] = serial[m]
  BY <1>1, TimeParts, Written
<1>3. left'[n] = Lifetime \/ (left'[n] = left[n] /\ serial'[n] = serial[n])
  BY <1>1, TimeParts, Written
<1>4. Slack' = Slack /\ Up' = Up
  BY DEF Slack, Up
<1>5. /\ Slack \in Int /\ RenewBelow \in Nat /\ Lifetime \in Nat
      /\ Lifetime >= RenewBelow /\ Lifetime >= Slack
  BY TimeParts, SlackIs
<1>6. \A m \in Names : Stored(m)' => left'[m] >= Slack
  BY <1>2, <1>3, <1>5, TimeParts DEF InTime, Stored
<1>7. looked /\ Up => \A m \in Names : Stored(m)' => left'[m] >= RenewBelow
  BY <1>2, <1>3, <1>5, TimeParts DEF InTime, Stored
<1>8. \A m \in sites : served[m] >= Slack
  BY TimeParts DEF InTime
<1> QED BY <1>1, <1>2, <1>4, <1>6, <1>7, <1>8 DEF InTime

\* A pair is stored by its worker, who goes on to load it if it is a renewal.
LEMMA StoringLoaded ==
  ASSUME Steady, TimeInv, NEW w \in Workers, NEW x, work[w].at \in {"store", "half"},
         Turn(w, x), UNCHANGED <<sites, served>>,
         \A m \in Names \ {work[w].name} : left'[m] = left[m],
         x.at # "idle" => x.name = work[w].name /\ x.serves = work[w].serves,
         w = Renewer => x.at \in {"half", "reload"}
  PROVE  Loaded'
<1>1. Running(w) /\ work'[w] = x /\ \A v \in Workers \ {w} : work'[v] = work[v] /\ ~Running(v)
  BY TimeParts, TurnSolo DEF Running
<1>2. Renewer \in Workers /\ People \subseteq Workers /\ Renewer \notin People
  BY CertificatesAssumption DEF Workers
<1>3. ASSUME NEW m \in sites PROVE served[m] = left'[m] \/ Renewing(work[Renewer], m)'
  <2>1. CASE w = Renewer
    <3>1. work'[w].name = work[w].name
      BY <1>1, <2>1
    <3>2. m = work[w].name => Renewing(work[Renewer], m)'
      BY <1>1, <2>1, <3>1 DEF Renewing
    <3>3. m # work[w].name => served[m] = left[m] /\ left'[m] = left[m]
      BY <1>3, <2>1, TimeParts DEF Loaded, Renewing
    <3> QED BY <3>2, <3>3
  <2>2. CASE w # Renewer
    <3>1. w \in People /\ work[Renewer].at = "idle"
      BY <1>1, <1>2, <2>2 DEF Workers, Running
    <3>2. served[m] = left[m] /\ m # work[w].name
      BY <1>1, <1>3, <3>1, TimeParts DEF Loaded, Renewing
    <3> QED BY <1>3, <3>2, TimeParts
  <2> QED BY <2>1, <2>2
<1>4. ASSUME NEW v \in People, Running(v)' PROVE work'[v].name \notin sites'
  <2>1. v = w
    BY <1>1, <1>2, <1>4 DEF Running
  <2> QED BY <1>1, <1>4, <2>1, TimeParts DEF Loaded, Running
<1>5. Running(Renewer)' => work'[Renewer].serves
  BY <1>1, <1>2, TimeParts DEF Loaded, Running
<1> QED BY <1>3, <1>4, <1>5 DEF Loaded

LEMMA StepTime ==
  ASSUME Steady, TimeInv, NEW w \in Workers, Step(w)
  PROVE  InTime' /\ Loaded'
<1>t. Typed /\ Renewer \in Workers /\ Renewer \notin People
  BY TimeParts, CertificatesAssumption DEF Workers
<1>1. CASE Obtain(w)
  <2> DEFINE x == [work[w] EXCEPT !.at = "store", !.new = Fresh(work[w].name)]
  <2>1. Turn(w, x) /\ work[w].at = "issue" /\ UNCHANGED <<files, sites, served, look, around>>
    BY <1>1, <1>t, ObtainTyped DEF Obtain
  <2>2. x.name = work[w].name /\ x.serves = work[w].serves
    BY TimeParts DEF Works
  <2> HIDE DEF x
  <2>3. w \in People => x.name \notin sites
    BY <2>1, <2>2, TimeParts DEF Loaded, Running
  <2>4. w = Renewer => x.serves
    BY <2>1, <2>2, TimeParts DEF Loaded, Running
  <2>5. Loaded'
    BY <2>1, <2>3, <2>4, StayLoaded DEF Running, files
  <2> QED BY <2>1, <2>5, TimeParts, StayInTime DEF files, look, around
<1>2. CASE NotObtained(w) \/ Refused(w)
  <2>1. Turn(w, Idle) /\ work[w].at \in {"issue", "reload"}
        /\ UNCHANGED <<files, sites, served, looked, around>>
    BY <1>2, IdleIs DEF NotObtained, Refused, Fail, Turn
  <2>2. Idle.at = "idle"
    BY DEF Idle
  <2>3. w = Renewer => work[w].at = "issue"
    <3>1. SUFFICES ASSUME w = Renewer, work[w].at = "reload" PROVE FALSE
      BY <2>1
    <3>2. ~Passes(sites)
      BY <1>2, <1>t, <3>1 DEF NotObtained, Refused
    <3>3. \A v \in Workers : work[v].at # "half"
      BY <3>1, TimeParts DEF Solo, Running
    <3>4. \A n \in sites : Matching(n) /\ Stored(n)
      BY <3>3, TimeParts DEF Paired, PairsMatch
    <3> QED BY <3>2, <3>4 DEF Passes
  <2>4. Loaded'
    BY <2>1, <2>2, <2>3, StayLoaded DEF Running, files
  <2> QED BY <2>1, <2>4, TimeParts, StayInTime DEF files, around
<1>3. CASE StoreFirst(w)
  <2>1. PICK file \in {"cert", "key"} :
          /\ Write(w, file) /\ Do(w, [work[w] EXCEPT !.at = "half", !.first = file])
    BY <1>3 DEF StoreFirst
  <2>2. work[w].at = "store" /\ UNCHANGED <<sites, served, look, around>>
    BY <1>3 DEF StoreFirst
  <2> DEFINE x == [work[w] EXCEPT !.at = "half", !.first = file]
  <2>3. Turn(w, x)
    BY <1>t, <2>1, <2>2, StoreFirstTyped
  <2>4. x.at = "half" /\ x.name = work[w].name /\ x.serves = work[w].serves
    BY TimeParts DEF Works
  <2> HIDE DEF x
  <2>5. InTime' /\ \A m \in Names \ {work[w].name} : left'[m] = left[m]
    BY <2>1, <2>2, WriteInTime DEF look, around
  <2> QED BY <2>2, <2>3, <2>4, <2>5, StoringLoaded
<1>4. CASE StoreSecond(w)
  <2>1. Write(w, Other(work[w])) /\ Other(work[w]) \in {"cert", "key"} /\ Turn(w, Goes(work[w]))
    BY <1>t, <1>4, StoreSecondTyped DEF Other
  <2>2. work[w].at = "half" /\ UNCHANGED <<sites, served, look, around>>
    BY <1>4 DEF StoreSecond
  <2>3. Goes(work[w]).at # "idle" => /\ Goes(work[w]).name = work[w].name
                                      /\ Goes(work[w]).serves = work[w].serves
    BY TimeParts DEF Works, Goes, Idle
  <2>4. w = Renewer => Goes(work[w]).at = "reload"
    BY <2>2, TimeParts DEF Works, Goes, Loaded, Running
  <2>5. InTime' /\ \A m \in Names \ {work[w].name} : left'[m] = left[m]
    BY <2>1, <2>2, WriteInTime DEF look, around
  <2> QED BY <2>1, <2>2, <2>3, <2>4, <2>5, StoringLoaded
<1>5. CASE Reload(w)
  <2>1. Turn(w, Idle) /\ sites' = sites \cup {work[w].name} /\ work[w].at = "reload"
        /\ UNCHANGED <<files, look, around>> /\ Passes(sites \cup {work[w].name})
        /\ \A n \in sites' : served'[n] = left[n]
    BY <1>t, <1>5, ReloadTyped DEF Reload
  <2>2. InTime' /\ \A n \in sites' : served'[n] = left'[n]
    <3>1. sites' \subseteq Names /\ \A n \in sites' : Stored(n)
      BY <1>t, <1>5, <2>1, ReloadTyped, TimeParts DEF Passes
    <3> QED BY <2>1, <3>1, JustLoaded DEF files, look, around
  <2>3. \A v \in Workers : ~Running(v)'
    BY <2>1, TimeParts, TurnSolo DEF Running, Idle
  <2> QED BY <1>t, <2>2, <2>3 DEF Loaded, Workers
<1> QED BY <1>1, <1>2, <1>3, <1>4, <1>5 DEF Step

LEMMA BeginTime ==
  ASSUME Steady, TimeInv, NEW w \in Workers, NEW n, NEW at, NEW serves, Begins(w, n, at, serves),
         Free(w), UNCHANGED <<files, sites, served, looked, around>>,
         w \in People => n \notin sites, w = Renewer => serves = TRUE
  PROVE  InTime' /\ Loaded'
<1>1. PICK x : Turn(w, x) /\ x.at = at /\ x.name = n /\ x.serves = serves
  BY DEF Begins
<1>2. Nobody /\ work[w].at = "idle"
  BY FreeIsSolo DEF Free, Steady
<1>3. Loaded'
  BY <1>1, <1>2, StayLoaded DEF files
<1> QED BY <1>3, TimeParts, StayInTime DEF files, around

LEMMA ReloadRenewedTime ==
  ASSUME Steady, TimeInv, ReloadRenewed
  PROVE  InTime' /\ Loaded'
<1>1. Turn(Renewer, Idle) /\ work[Renewer].at = "reload" /\ UNCHANGED <<files, sites, look, around>>
      /\ \A n \in sites : served'[n] = left[n]
  BY TimeParts, ReloadRenewedTyped DEF ReloadRenewed
<1>2. InTime' /\ \A n \in sites' : served'[n] = left'[n]
  BY <1>1, TimeParts, JustLoaded DEF files, look, around
<1>3. \A v \in Workers : ~Running(v)'
  BY <1>1, TimeParts, TurnSolo DEF Running, Idle
<1> QED BY <1>2, <1>3 DEF Loaded, Workers

LEMMA ByOthersTime ==
  ASSUME Steady, TimeInv, ReloadByOthers
  PROVE  InTime' /\ Loaded'
<1>1. UNCHANGED <<files, sites, work, look, around>> /\ \A n \in sites : served'[n] = left[n]
  BY TimeParts, ByOthersTyped DEF ReloadByOthers
<1>2. InTime' /\ \A n \in sites' : served'[n] = left'[n]
  BY <1>1, TimeParts, JustLoaded DEF files, look, around
<1> QED BY <1>1, <1>2, TimeParts DEF Loaded, Running

\* The look is over when nothing is due any more, or without an answer.
LEMMA AsideTime ==
  ASSUME Steady, TimeInv, Aside
  PROVE  InTime' /\ Loaded'
<1>1. UNCHANGED <<files, sites, served, work, outage>>
  BY TimeParts, AsideTyped
<1>2. Slack' = Slack /\ Up' = Up
  BY <1>1 DEF Slack, Up
<1>3. looked' /\ Up => looked \/ \A n \in Names : ~Due(n)
  BY DEF Aside, Look, EndLook, SaveDNS, look, vars
<1>4. \A n \in Names : Stored(n) /\ ~Due(n) => left[n] >= RenewBelow
  <2>1. \A n \in Names : left[n] \in Int
    BY TimeParts
  <2>2. RenewBelow \in Int
    BY TimeParts, SlackIs
  <2> QED BY <2>1, <2>2 DEF Due, Managed, Steady
<1>5. InTime'
  BY <1>1, <1>2, <1>3, <1>4, TimeParts DEF InTime, Stored, files
<1>6. Loaded'
  BY <1>1, TimeParts DEF Loaded, Renewing, Running, files
<1> QED BY <1>5, <1>6

LEMMA RestartTime ==
  ASSUME Steady, TimeInv, Restart
  PROVE  InTime' /\ Loaded'
<1>1. \A w \in Workers : work'[w].at = "idle"
  BY TimeParts, RestartTyped DEF Idle
<1>2. \A w \in Workers : work[w].at \notin {"half", "reload"}
  BY DEF Restart, Steady
<1>3. UNCHANGED <<files, sites, served, outage>> /\ ~looked'
  BY DEF Restart
<1>4. InTime'
  BY <1>3, TimeParts DEF InTime, Stored, Slack, Up, files
<1>5. \A n \in sites : served[n] = left[n]
  BY <1>2, TimeParts DEF Loaded, Renewing, Workers
<1> QED BY <1>1, <1>3, <1>4, <1>5 DEF Loaded, Running, Workers, files

\* A half month takes one from everything; an outage that goes on has used it up.
LEMMA HalfMonthTime ==
  ASSUME Steady, TimeInv, HalfMonth
  PROVE  InTime' /\ Loaded'
<1>1. /\ left' = [n \in Names |-> Older(left[n])] /\ served' = [n \in Names |-> Older(served[n])]
      /\ UNCHANGED <<serial, sites, work>> /\ looked /\ ~looked'
      /\ \A w \in Workers : work[w].at = "idle"
  BY DEF HalfMonth
<1>2. outage' = 0 \/ (outage < MaxOutage /\ outage' = outage + 1)
  BY DEF HalfMonth
<1>3. \A n \in sites : served[n] = left[n]
  BY <1>1, TimeParts DEF Loaded, Renewing, Workers
<1>4. /\ outage \in Nat /\ outage <= MaxOutage /\ MaxOutage \in Nat /\ RenewBelow \in Nat
      /\ MaxOutage < RenewBelow
  BY TimeParts, SlackIs DEF Steady
<1> DEFINE least == IF outage = 0 THEN RenewBelow ELSE RenewBelow - outage
<1>5. \A n \in Names : Stored(n) => left[n] >= least
  BY <1>1, TimeParts DEF InTime, Up, Slack
<1>6. least - 1 >= Slack' /\ least > 0 /\ least \in Int
  BY <1>2, <1>4 DEF Slack, Up
<1> HIDE DEF least
<1>7. ASSUME NEW n \in Names, Stored(n) PROVE left'[n] >= Slack'
  <2>1. left[n] \in Ages /\ left[n] \in Int /\ left[n] >= least
    BY <1>5, <1>7, TimeParts
  <2>2. left[n] > Expired
    BY <1>6, <2>1 DEF Expired
  <2>3. left'[n] = left[n] - 1
    BY <1>1, <2>1, <2>2, OlderIs
  <2>4. Slack' \in Int
    BY <1>2, <1>4 DEF Slack, Up
  <2> QED BY <1>6, <2>1, <2>3, <2>4
<1>8. \A n \in sites : served'[n] = left'[n] /\ n \in Names /\ Stored(n)
  BY <1>1, <1>3, TimeParts
<1>9. InTime'
  BY <1>1, <1>7, <1>8 DEF InTime, Stored
<1>10. Loaded'
  BY <1>1, <1>8 DEF Loaded, Running, Workers
<1> QED BY <1>9, <1>10

LEMMA NextTime == Steady /\ TimeInv /\ [Next]_vars => TimeInv'
<1> SUFFICES ASSUME Steady, TimeInv, [Next]_vars PROVE TimeInv'
  OBVIOUS
<1>1. SafeInv'
  BY NextSafe DEF Steady, TimeInv
<1> SUFFICES InTime' /\ Loaded'
  BY <1>1 DEF TimeInv
<1>2. ASSUME NEW w \in People, NEW n \in Names, Asked(w, n) PROVE InTime' /\ Loaded'
  <2>1. PICK at \in {"issue", "reload"}, serves \in BOOLEAN :
          /\ Begins(w, n, at, serves)
          /\ n \notin sites \/ (serves = FALSE /\ (Stored(n) => Again))
    BY <1>2, AskedIs
  <2>2. Free(w) /\ UNCHANGED <<files, sites, served, todo, failed, looked, around>>
    BY <1>2, AskedIs
  <2>3. n \notin sites
    BY <2>1, TimeParts DEF Steady
  <2>4. w \in Workers /\ w # Renewer
    BY CertificatesAssumption DEF Workers
  <2> QED BY <2>1, <2>2, <2>3, <2>4, BeginTime
<1>3. CASE RenewNext
  <2>1. Renewer \in Workers /\ Renewer \notin People
    BY CertificatesAssumption DEF Workers
  <2> QED BY <1>3, <2>1, TimeParts, RenewNextIs, BeginTime
<1> QED BY <1>2, <1>3, StepTime, ReloadRenewedTime, ByOthersTime, AsideTime, RestartTime,
           HalfMonthTime DEF Next, Loop, Asked, Aside

\* Nothing nginx serves ever expires, whatever the lifetime: the month of slack covers
\* any outage that is shorter, and what is renewed is loaded before the next half month
\* is over. Each premise is one that the code does not keep by itself: two issuances at
\* once, a restart between storing and reloading, an issuance by hand that nginx does
\* not load, and certbot's certificate of the same name each let one expire.
THEOREM NothingExpires ==
  (~AtOnce /\ ~Again /\ Breaks = {} /\ Certbots \subseteq Wild /\ MaxOutage < RenewBelow)
    => (Spec => []NeverExpired)
<1> SUFFICES ASSUME Steady PROVE Spec => []NeverExpired
  BY DEF Steady, Orderly
<1>1. Init => TimeInv
  <2> SUFFICES ASSUME Init PROVE TimeInv
    OBVIOUS
  <2>1. sites = {} /\ ~looked /\ \A n \in Names : ~Stored(n)
    BY DEF Init, Stored
  <2>2. \A w \in Workers : work[w].at = "idle"
    BY DEF Init, Idle
  <2> QED BY <2>1, <2>2, InitSafe DEF TimeInv, InTime, Loaded, Running, Workers
<1>2. TimeInv /\ [Next]_vars => TimeInv'
  BY NextTime
<1>3. TimeInv => NeverExpired
  <2> SUFFICES ASSUME TimeInv, NEW n \in sites PROVE served[n] > Expired
    BY DEF NeverExpired
  <2>1. served[n] \in Int /\ served[n] >= Slack /\ Slack \in Int /\ Slack >= 0
    BY TimeParts, SlackIs DEF InTime
  <2> QED BY <2>1 DEF Expired
<1> QED BY <1>1, <1>2, <1>3, PTL DEF Spec
================================================================================
