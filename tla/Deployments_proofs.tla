--------------------------- MODULE Deployments_proofs ---------------------------
(****************************************************************************)
(* What holds of Deployments for any services, requests, snapshots and failures. *)
(****************************************************************************)
EXTENDS Deployments, FiniteSetTheorems, SequenceTheorems, TLAPS

----------------------------------------------------------------------------
(* Types.                                                                   *)

Deploying == {"deploy", "redeploy"}
Backed == Deploying \cup {"destroy", "environment"}
AnyKind == Backed \cup {"rollback", "removal", "configure"}

AnyRecord == [props : {0} \cup Props, more : BOOLEAN, commit : 0..MaxCommits,
              deployed : Fingerprints, healthy : Nat]
Boxes == [index : SUBSET Services, cut : SUBSET Services,
          config : [Services -> AnyRecord], disk : [Services -> FilesOnDisk]]
Within(b, m) == \A s \in Services : b.config[s].healthy \in 0..m
Snapshots == [of : Services, kind : {"deploy", "destroy"}, box : Boxes]

Args == Nat \cup BOOLEAN \cup Fingerprints \cup Services
          \cup (SUBSET Services) \cup (SUBSET DOMAIN NoRecord)
Names == {"delete", "snapshot", "fetch", "environment", "build", "unit", "start", "check",
          "remember", "mark", "healthy", "disable", "remove unit", "remove files", "forget",
          "index", "empty index", "restart", "restore", "unset healthy",
          "set deployed", "set props", "set more"}
Entries == Names \X Args
Wants == [props : {0} \cup Props, more : BOOLEAN, env : {0} \cup Contents, from : {0} \cup Contents]
JobRecords == [pc : {"new", "asked", "running", "over"}, kind : AnyKind \cup {"none"},
               s : Services \cup {NoService}, want : Wants, todo : Seq(Entries), snap : Nat]

JobOK(job, m) ==
  /\ job.snap \in 0..m
  /\ job.kind \in Backed \cup {"configure"} => job.s \in Services
  /\ job.kind \in Deploying => job.want.props # 0
  /\ job.pc = "over" => job.kind = "none"

JobsTyped(js, h, m) ==
  /\ js \in [Jobs -> JobRecords]
  /\ \A j \in Jobs : JobOK(js[j], m) /\ ((js[j].pc = "running") <=> (h = j))

BoxTyped(b, m) == b \in Boxes /\ Within(b, m)
SnapsTyped(ss, m) ==
  /\ ss \in [DOMAIN ss -> Snapshots] /\ DOMAIN ss \subseteq 1..m
  /\ \A n \in DOMAIN ss : Within(ss[n].box, m)
BeforeTyped(b, h, m) == IF h = NoJob THEN b = <<>> ELSE BoxTyped(b, m)

Typed ==
  /\ made \in Nat /\ faults \in 0..MaxFaults /\ holder \in Jobs \cup {NoJob}
  /\ BoxTyped(box, made) /\ SnapsTyped(snaps, made) /\ BeforeTyped(before, holder, made)
  /\ JobsTyped(jobs, holder, made)

----------------------------------------------------------------------------
(* What is left of a plan.                                                    *)

Rank(what) ==
  CASE what = "delete" -> 0
    [] what = "snapshot" -> 1
    [] what \in {"fetch", "disable"} -> 2
    [] what \in {"environment", "remove unit"} -> 3
    [] what \in {"build", "remove files"} -> 4
    [] what \in {"unit", "forget"} -> 5
    [] what \in {"start", "restart", "index", "empty index"} -> 6
    [] what = "check" -> 7
    [] what = "remember" -> 8
    [] what = "mark" -> 9
    [] OTHER -> 10

Allowed(kind) ==
  CASE kind \in Deploying -> {"delete", "snapshot", "fetch", "environment", "build", "unit",
                              "start", "check", "remember", "mark", "healthy"}
    [] kind = "destroy" -> {"snapshot", "disable", "remove unit", "remove files", "forget",
                            "index", "empty index"}
    [] kind = "environment" -> {"snapshot", "environment", "restart"}
    [] kind = "rollback" -> {"restore"}
    [] kind = "removal" -> {"delete", "unset healthy"}
    [] kind = "configure" -> {"set deployed", "set props", "set more"}
    [] OTHER -> {}

Left(todo, what) == \E i \in DOMAIN todo : todo[i][1] = what
Listing == {"index", "empty index"}

\* Steps come in order, and only deleting comes more than once.
Ordered(todo) ==
  \A i, k \in DOMAIN todo :
    i < k => \/ Rank(todo[i][1]) < Rank(todo[k][1])
             \/ todo[i][1] = "delete" /\ todo[k][1] = "delete"

\* A step is followed by all those that must come after it.
Whole(todo, needed) ==
  \A i \in DOMAIN todo, what \in needed :
    Rank(todo[i][1]) < Rank(what) => \E k \in DOMAIN todo : k > i /\ todo[k][1] = what

EntryOK(x, s) ==
  /\ x[1] = "set deployed" => x[2] \in Fingerprints
  /\ x[1] = "set props" => x[2] \in {0} \cup Props
  /\ x[1] = "set more" => x[2] \in BOOLEAN
  /\ x[1] = "unset healthy" => x[2] \in Services
  /\ x[1] = "index" => x[2] \subseteq Services \ {s}

Needed == {"fetch", "unit", "start", "remember", "mark"}

Shape(job) ==
  LET todo == job.todo IN
  /\ \A i \in DOMAIN todo : todo[i][1] \in Allowed(job.kind) /\ EntryOK(todo[i], job.s)
  /\ job.kind \in Backed =>
       /\ Ordered(todo)
       /\ job.snap = 0 => Left(todo, "snapshot")
       /\ job.snap # 0 => \A i \in DOMAIN todo : todo[i][1] \notin {"delete", "snapshot"}
  /\ job.kind \in Deploying => Whole(todo, Needed)
  /\ job.kind = "destroy" =>
       \A i \in DOMAIN todo :
         todo[i][1] \notin Listing => \E k \in DOMAIN todo : k > i /\ todo[k][1] \in Listing

Planned(job) ==
  job.pc = "running" \/ (job.pc = "asked" /\ job.kind \notin Deploying \cup {"environment"})
Shaped(js) == \A j \in Jobs : /\ Planned(js[j]) => Shape(js[j])
                              /\ js[j].pc = "asked" => js[j].snap = 0

----------------------------------------------------------------------------
(* The invariant.                                                            *)

HeldBack ==
  holder # NoJob /\ jobs[holder].kind \in Backed /\ jobs[holder].snap # 0
    => snaps[jobs[holder].snap].of = jobs[holder].s

\* What a service without a mark runs is what its record says, and one with a mark
\* runs what was marked.
Running(record) == IF record.deployed = <<>> THEN record.props ELSE record.deployed[1]
Good(b, s) ==
  LET record == b.config[s]  files == b.disk[s] IN
  s \in b.index \ b.cut => /\ Running(record) # 0
                           /\ files.unit = Running(record)
                           /\ files.code = record.commit
Fair(b, s) ==
  s \in b.index \ b.cut => b.disk[s].runs = <<b.disk[s].unit, b.disk[s].code>>

Working(h, job) == h # NoJob /\ job.kind \in Deploying \cup {"destroy"} /\ job.snap # 0
Worked(s) == holder # NoJob /\ Working(holder, jobs[holder]) /\ jobs[holder].s = s

Rested == \A s \in Services : ~Worked(s) => Good(box, s) /\ Fair(box, s)
Preserved == \A n \in DOMAIN snaps, s \in Services : Good(snaps[n].box, s)

\* How far a deployment has come.
Progress(b, s, want, todo) ==
  LET record == b.config[s]  files == b.disk[s] IN
  /\ ~Left(todo, "unit") => files.unit = want.props
  /\ ~Left(todo, "start") => files.runs = <<files.unit, files.code>>
  /\ ~Left(todo, "remember") => /\ record.props = want.props
                                /\ s \in b.cut \/ record.commit = files.code
  /\ ~Left(todo, "mark") => record.deployed # <<>> /\ record.deployed[1] = want.props

\* How far a removal has come.
Removed(b, s, todo) ==
  \/ \E i \in DOMAIN todo : todo[i][1] \in Listing
  \/ s \notin b.index \/ s \in b.cut

OnItsWay ==
  holder # NoJob /\ jobs[holder].snap # 0 =>
    LET job == jobs[holder] IN
    /\ job.kind \in Deploying => Progress(box, job.s, job.want, job.todo)
    /\ job.kind = "destroy" => Removed(box, job.s, job.todo)

Own(b, ss) == \A s \in Services :
  b.config[s].healthy \in DOMAIN ss => ss[b.config[s].healthy].of = s
Owned ==
  Longer = {} =>
    /\ Own(box, snaps)
    /\ \A n \in DOMAIN snaps : Own(snaps[n].box, snaps)
    /\ holder # NoJob /\ jobs[holder].kind \in Deploying =>
         \A i \in DOMAIN jobs[holder].todo :
           LET x == jobs[holder].todo[i] IN
           x[1] = "delete" => /\ x[2] # box.config[jobs[holder].s].healthy
                              /\ x[2] \in DOMAIN snaps => snaps[x[2]].of = jobs[holder].s

Spared(j) == {n \in Mine(jobs[j].s) : \A i \in DOMAIN jobs[j].todo : jobs[j].todo[i] # <<"delete", n>>}
Bounded ==
  holder # NoJob /\ faults = 0 /\ jobs[holder].kind \in Deploying /\ jobs[holder].snap = 0
    => Cardinality(Spared(holder)) <= Keep + 1

Inv == /\ Typed /\ Shaped(jobs) /\ WayBack /\ HeldBack /\ EditsWhatItRead
       /\ Rested /\ Preserved /\ OnItsWay /\ Owned /\ Bounded /\ NotPilingUp

----------------------------------------------------------------------------
(* What an assignment does to a container.                                     *)

SetDisk(b, s, files) == [b EXCEPT !.disk[s] = files]
SetConfig(b, s, record) == [b EXCEPT !.config[s] = record]
SetLists(b, s, record, index, cut) ==
  [b EXCEPT !.config[s] = record, !.index = index, !.cut = cut]

LEMMA DiskSet ==
  ASSUME NEW b \in Boxes, NEW s \in Services, NEW files \in FilesOnDisk, NEW c,
         c = SetDisk(b, s, files)
  PROVE  /\ c \in Boxes /\ c.index = b.index /\ c.cut = b.cut /\ c.config = b.config
         /\ c.disk = [b.disk EXCEPT ![s] = files]
<1>1. [b.disk EXCEPT ![s] = files] \in [Services -> FilesOnDisk]
  BY DEF Boxes
<1>2. c = [b EXCEPT !.disk = [b.disk EXCEPT ![s] = files]]
  BY DEF SetDisk
<1> QED BY <1>1, <1>2 DEF Boxes

LEMMA ConfigSet ==
  ASSUME NEW b \in Boxes, NEW s \in Services, NEW record \in AnyRecord, NEW c,
         c = SetConfig(b, s, record)
  PROVE  /\ c \in Boxes /\ c.index = b.index /\ c.cut = b.cut /\ c.disk = b.disk
         /\ c.config = [b.config EXCEPT ![s] = record]
<1>1. [b.config EXCEPT ![s] = record] \in [Services -> AnyRecord]
  BY DEF Boxes
<1>2. c = [b EXCEPT !.config = [b.config EXCEPT ![s] = record]]
  BY DEF SetConfig
<1> QED BY <1>1, <1>2 DEF Boxes

LEMMA BoxParts ==
  ASSUME NEW b \in Boxes, NEW s \in Services
  PROVE  /\ b.config[s] \in AnyRecord /\ b.disk[s] \in FilesOnDisk
         /\ b.index \subseteq Services /\ b.cut \subseteq Services
         /\ Fingerprint(b, s) \in Fingerprints /\ Fingerprint(b, s) # <<>>
         /\ Fingerprint(b, s)[1] = b.config[s].props
<1>1. b.config[s] \in AnyRecord
  BY DEF Boxes
<1>2. b.config[s].props \in {0} \cup Props /\ b.config[s].more \in BOOLEAN
  BY <1>1 DEF AnyRecord
<1> QED BY <1>1, <1>2 DEF Boxes, Fingerprint, Fingerprints

LEMMA FreshType ==
  ASSUME NEW files \in FilesOnDisk
  PROVE  /\ Fresh(files) \in FilesOnDisk
         /\ Fresh(files).unit = files.unit /\ Fresh(files).code = files.code
         /\ Fresh(files).env = files.env
         /\ files.unit # 0 => Fresh(files).runs = <<files.unit, files.code>>
<1>1. /\ files.unit \in {0} \cup Props /\ files.code \in 0..MaxCommits /\ 0 \in 0..MaxCommits
  BY DeploymentsAssumption DEF FilesOnDisk
<1>2. <<files.unit, IF files.unit = 0 THEN 0 ELSE files.code>>
        \in ({0} \cup Props) \X (0..MaxCommits)
  BY <1>1
<1> QED BY <1>2 DEF Fresh, FilesOnDisk

----------------------------------------------------------------------------
(* What walking a step leaves.                                                 *)

LEMMA Ranks ==
  /\ Rank("delete") = 0 /\ Rank("snapshot") = 1 /\ Rank("fetch") = 2 /\ Rank("disable") = 2
  /\ Rank("environment") = 3 /\ Rank("remove unit") = 3 /\ Rank("build") = 4
  /\ Rank("remove files") = 4 /\ Rank("unit") = 5 /\ Rank("forget") = 5 /\ Rank("start") = 6
  /\ Rank("restart") = 6 /\ Rank("index") = 6 /\ Rank("empty index") = 6 /\ Rank("check") = 7
  /\ Rank("remember") = 8 /\ Rank("mark") = 9 /\ Rank("healthy") = 10
BY DEF Rank

LEMMA RankType == \A what : Rank(what) \in 0..10
BY DEF Rank

LEMMA TailParts ==
  ASSUME NEW S, NEW todo \in Seq(S), todo # <<>>
  PROVE  /\ Tail(todo) \in Seq(S) /\ Head(todo) = todo[1] /\ Head(todo) \in S
         /\ 1 \in DOMAIN todo
         /\ \A i \in DOMAIN Tail(todo) : i + 1 \in DOMAIN todo /\ Tail(todo)[i] = todo[i + 1]
         /\ \A k \in DOMAIN todo : k # 1 => k - 1 \in DOMAIN Tail(todo) /\ Tail(todo)[k - 1] = todo[k]
         /\ DOMAIN todo \subseteq Nat /\ DOMAIN Tail(todo) \subseteq Nat
BY HeadTailProperties

LEMMA TailOrdered ==
  ASSUME NEW S, NEW todo \in Seq(S), todo # <<>>
  PROVE  /\ Ordered(todo) => Ordered(Tail(todo))
         /\ \A needed : Whole(todo, needed) => Whole(Tail(todo), needed)
<1> DEFINE rest == Tail(todo)
<1>1. /\ \A i \in DOMAIN rest : i + 1 \in DOMAIN todo /\ rest[i] = todo[i + 1]
      /\ \A k \in DOMAIN todo : k # 1 => k - 1 \in DOMAIN rest /\ rest[k - 1] = todo[k]
      /\ DOMAIN todo \subseteq Nat /\ DOMAIN rest \subseteq Nat
  BY TailParts
<1> HIDE DEF rest
<1>2. ASSUME Ordered(todo)
      PROVE  Ordered(rest)
  <2> SUFFICES ASSUME NEW i \in DOMAIN rest, NEW k \in DOMAIN rest, i < k
               PROVE  \/ Rank(rest[i][1]) < Rank(rest[k][1])
                      \/ rest[i][1] = "delete" /\ rest[k][1] = "delete"
    BY DEF Ordered
  <2>1. i + 1 \in DOMAIN todo /\ k + 1 \in DOMAIN todo /\ i + 1 < k + 1
    BY <1>1
  <2>2. \/ Rank(todo[i + 1][1]) < Rank(todo[k + 1][1])
        \/ todo[i + 1][1] = "delete" /\ todo[k + 1][1] = "delete"
    BY <1>2, <2>1 DEF Ordered
  <2> QED BY <1>1, <2>2
<1>3. ASSUME NEW needed, Whole(todo, needed)
      PROVE  Whole(rest, needed)
  <2> SUFFICES ASSUME NEW i \in DOMAIN rest, NEW what \in needed,
                      Rank(rest[i][1]) < Rank(what)
               PROVE  \E k \in DOMAIN rest : k > i /\ rest[k][1] = what
    BY DEF Whole
  <2>1. PICK k \in DOMAIN todo : k > i + 1 /\ todo[k][1] = what
    BY <1>1, <1>3 DEF Whole
  <2>2. k - 1 \in DOMAIN rest /\ rest[k - 1] = todo[k] /\ k - 1 > i
    BY <1>1, <2>1
  <2> QED BY <2>1, <2>2
<1> QED BY <1>2, <1>3 DEF rest

\* What is known of the first step, and what walking it leaves.
LEMMA WalkShape ==
  ASSUME NEW job \in JobRecords, Shape(job), job.todo # <<>>, NEW n \in Nat, NEW next,
         next = [job EXCEPT !.todo = Tail(@), !.snap = n],
         IF Head(job.todo)[1] = "snapshot" THEN n # 0 ELSE n = job.snap
  PROVE  next \in JobRecords /\ Shape(next)
<1> DEFINE todo == job.todo  rest == Tail(job.todo)
<1>1. /\ todo \in Seq(Entries) /\ rest \in Seq(Entries) /\ Head(todo) = todo[1] /\ 1 \in DOMAIN todo
      /\ \A i \in DOMAIN rest : i + 1 \in DOMAIN todo /\ rest[i] = todo[i + 1]
      /\ \A k \in DOMAIN todo : k # 1 => k - 1 \in DOMAIN rest /\ rest[k - 1] = todo[k]
      /\ DOMAIN todo \subseteq Nat /\ DOMAIN rest \subseteq Nat
  BY TailParts DEF JobRecords
<1>2. /\ next \in JobRecords /\ next.todo = rest /\ next.snap = n /\ next.kind = job.kind
      /\ next.s = job.s
  BY <1>1 DEF JobRecords
<1>3. /\ Ordered(todo) => Ordered(rest)
      /\ Whole(todo, Needed) => Whole(rest, Needed)
  BY <1>1, TailOrdered
<1> HIDE DEF todo, rest
<1>4. \A i \in DOMAIN todo : todo[i][1] \in Allowed(job.kind) /\ EntryOK(todo[i], job.s)
  BY DEF Shape, todo
<1>5. \A i \in DOMAIN rest : rest[i][1] \in Allowed(job.kind) /\ EntryOK(rest[i], job.s)
  BY <1>1, <1>4
<1>6. ASSUME job.kind \in Backed
      PROVE  /\ Ordered(rest)
             /\ n = 0 => Left(rest, "snapshot")
             /\ n # 0 => \A i \in DOMAIN rest : rest[i][1] \notin {"delete", "snapshot"}
  <2>1. /\ Ordered(todo)
        /\ job.snap = 0 => Left(todo, "snapshot")
        /\ job.snap # 0 => \A i \in DOMAIN todo : todo[i][1] \notin {"delete", "snapshot"}
    BY <1>6 DEF Shape, todo
  <2>2. CASE Head(todo)[1] = "snapshot"
    <3>1. ASSUME NEW i \in DOMAIN rest
          PROVE  rest[i][1] \notin {"delete", "snapshot"}
      <4>1. i + 1 \in DOMAIN todo /\ 1 < i + 1 /\ rest[i] = todo[i + 1]
        <5>1. i \in Nat /\ i # 0
          BY <1>1, SMTT(20)
        <5> QED BY <1>1, <5>1
      <4>2. Rank(todo[1][1]) < Rank(todo[i + 1][1])
        BY <1>1, <2>1, <2>2, <4>1, SMTT(20) DEF Ordered
      <4>3. Rank("snapshot") < Rank(rest[i][1])
        BY <1>1, <2>2, <4>1, <4>2
      <4>4. Rank("snapshot") = 1 /\ Rank("delete") = 0
        BY Ranks
      <4> QED BY <4>3, <4>4
    <3>2. \A i \in DOMAIN rest : rest[i][1] \notin {"delete", "snapshot"}
      BY <3>1
    <3> QED BY <1>3, <2>1, <2>2, <3>2 DEF todo
  <2>3. CASE Head(todo)[1] # "snapshot"
    <3>1. n = job.snap
      BY <2>3 DEF todo
    <3>2. Left(todo, "snapshot") => Left(rest, "snapshot")
      BY <1>1, <2>3, ZenonT(40) DEF Left
    <3> QED BY <1>1, <1>3, <2>1, <3>1, <3>2
  <2> QED BY <2>2, <2>3
<1>7. ASSUME job.kind = "destroy", NEW i \in DOMAIN rest, rest[i][1] \notin Listing
      PROVE  \E k \in DOMAIN rest : k > i /\ rest[k][1] \in Listing
  <2>1. PICK k \in DOMAIN todo : k > i + 1 /\ todo[k][1] \in Listing
    BY <1>1, <1>7 DEF Shape, todo
  <2>2. k - 1 \in DOMAIN rest /\ rest[k - 1] = todo[k] /\ k - 1 > i
    BY <1>1, <2>1
  <2> QED BY <2>1, <2>2
<1>8. job.kind \in Deploying => Whole(rest, Needed)
  BY <1>3 DEF Shape, todo
<1> QED BY <1>2, <1>5, <1>6, <1>7, <1>8 DEF Shape

----------------------------------------------------------------------------
(* What the plans are made of.                                                 *)

LEMMA Joined ==
  ASSUME NEW S, NEW p \in Seq(S), NEW q \in Seq(S)
  PROVE  /\ p \o q \in Seq(S)
         /\ \A i \in DOMAIN (p \o q) :
              \/ i \in DOMAIN p /\ (p \o q)[i] = p[i]
              \/ i > Len(p) /\ i - Len(p) \in DOMAIN q /\ (p \o q)[i] = q[i - Len(p)]
         /\ \A i \in DOMAIN p : i \in DOMAIN (p \o q) /\ (p \o q)[i] = p[i] /\ i <= Len(p)
         /\ \A i \in DOMAIN q :
              Len(p) + i \in DOMAIN (p \o q) /\ (p \o q)[Len(p) + i] = q[i] /\ Len(p) + i > Len(p)
         /\ DOMAIN p \subseteq Nat /\ DOMAIN q \subseteq Nat /\ DOMAIN (p \o q) \subseteq Nat
         /\ Len(p) \in Nat
<1> DEFINE u == p \o q
<1>1. /\ u \in Seq(S) /\ Len(u) = Len(p) + Len(q)
      /\ \A i \in 1..Len(p) + Len(q) : u[i] = IF i <= Len(p) THEN p[i] ELSE q[i - Len(p)]
  BY ConcatProperties
<1>2. /\ DOMAIN u = 1..Len(p) + Len(q) /\ DOMAIN p = 1..Len(p) /\ DOMAIN q = 1..Len(q)
      /\ Len(p) \in Nat /\ Len(q) \in Nat
  BY <1>1
<1> HIDE DEF u
<1>3. \A i \in DOMAIN u : \/ i \in DOMAIN p /\ u[i] = p[i]
                          \/ i > Len(p) /\ i - Len(p) \in DOMAIN q /\ u[i] = q[i - Len(p)]
  BY <1>1, <1>2
<1>4. \A i \in DOMAIN p : i \in DOMAIN u /\ u[i] = p[i] /\ i <= Len(p)
  BY <1>1, <1>2
<1>5. ASSUME NEW i \in DOMAIN q
      PROVE  Len(p) + i \in DOMAIN u /\ u[Len(p) + i] = q[i] /\ Len(p) + i > Len(p)
  <2>1. Len(p) + i \in 1..Len(p) + Len(q) /\ ~(Len(p) + i <= Len(p)) /\ Len(p) + i - Len(p) = i
    BY <1>2
  <2> QED BY <1>1, <1>2, <2>1
<1> QED BY <1>1, <1>2, <1>3, <1>4, <1>5 DEF u

\* Part of a plan: steps of a kind of job, in order, between two ranks.
Laid(p, kind, low, high) ==
  /\ p \in Seq(Entries) /\ Ordered(p)
  /\ \A i \in DOMAIN p : /\ p[i][1] \in Allowed(kind)
                         /\ low <= Rank(p[i][1]) /\ Rank(p[i][1]) <= high

LEMMA Laying ==
  ASSUME NEW p, NEW q, NEW kind, NEW a \in Nat, NEW b \in Nat, NEW c \in Nat, NEW d \in Nat,
         Laid(p, kind, a, b), Laid(q, kind, c, d), b < c, a <= c, b <= d
  PROVE  /\ Laid(p \o q, kind, a, d)
         /\ \A what : Left(p, what) \/ Left(q, what) <=> Left(p \o q, what)
<1> DEFINE u == p \o q
<1>1. /\ u \in Seq(Entries)
      /\ \A i \in DOMAIN u : \/ i \in DOMAIN p /\ u[i] = p[i]
                             \/ i > Len(p) /\ i - Len(p) \in DOMAIN q /\ u[i] = q[i - Len(p)]
      /\ \A i \in DOMAIN p : i \in DOMAIN u /\ u[i] = p[i] /\ i <= Len(p)
      /\ \A i \in DOMAIN q :
           Len(p) + i \in DOMAIN u /\ u[Len(p) + i] = q[i] /\ Len(p) + i > Len(p)
      /\ DOMAIN p \subseteq Nat /\ DOMAIN q \subseteq Nat /\ DOMAIN u \subseteq Nat
      /\ Len(p) \in Nat
  BY Joined DEF Laid
<1> HIDE DEF u
<1>2. \A what : Left(p, what) \/ Left(q, what) <=> Left(u, what)
  BY <1>1 DEF Left
<1>3. ASSUME NEW i \in DOMAIN u
      PROVE  u[i][1] \in Allowed(kind) /\ a <= Rank(u[i][1]) /\ Rank(u[i][1]) <= d
  <2>1. Rank(u[i][1]) \in 0..10
    BY RankType
  <2>2. CASE i \in DOMAIN p /\ u[i] = p[i]
    BY <2>1, <2>2, SMTT(20) DEF Laid
  <2>3. CASE i - Len(p) \in DOMAIN q /\ u[i] = q[i - Len(p)]
    BY <2>1, <2>3, SMTT(20) DEF Laid
  <2> QED BY <1>1, <2>2, <2>3
<1>4. ASSUME NEW i \in DOMAIN u, NEW k \in DOMAIN u, i < k
      PROVE  \/ Rank(u[i][1]) < Rank(u[k][1])
             \/ u[i][1] = "delete" /\ u[k][1] = "delete"
  <2>1. Rank(u[i][1]) \in 0..10 /\ Rank(u[k][1]) \in 0..10 /\ i \in Nat /\ k \in Nat
    BY <1>1, RankType
  <2>2. CASE i \in DOMAIN p /\ u[i] = p[i] /\ k \in DOMAIN p /\ u[k] = p[k]
    BY <1>4, <2>2 DEF Laid, Ordered
  <2>3. CASE i \in DOMAIN p /\ u[i] = p[i] /\ k - Len(p) \in DOMAIN q /\ u[k] = q[k - Len(p)]
    <3>1. Rank(u[i][1]) <= b /\ c <= Rank(u[k][1])
      BY <2>3 DEF Laid
    <3> QED BY <2>1, <3>1
  <2>4. CASE /\ i > Len(p) /\ i - Len(p) \in DOMAIN q /\ u[i] = q[i - Len(p)]
             /\ k - Len(p) \in DOMAIN q /\ u[k] = q[k - Len(p)]
    <3>1. i - Len(p) < k - Len(p)
      BY <1>1, <1>4, <2>1
    <3> QED BY <2>4, <3>1 DEF Laid, Ordered
  <2>5. i > Len(p) => k \notin DOMAIN p
    BY <1>1, <1>4, <2>1
  <2> QED BY <1>1, <2>2, <2>3, <2>4, <2>5
<1> QED BY <1>1, <1>2, <1>3, <1>4 DEF Laid, Ordered, u

LEMMA Deployed ==
  /\ \A kind \in Deploying : Allowed(kind) = {"delete", "snapshot", "fetch", "environment",
       "build", "unit", "start", "check", "remember", "mark", "healthy"}
  /\ Allowed("destroy") = {"snapshot", "disable", "remove unit", "remove files", "forget",
                           "index", "empty index"}
  /\ Allowed("environment") = {"snapshot", "environment", "restart"}
  /\ Allowed("rollback") = {"restore"}
  /\ Allowed("removal") = {"delete", "unset healthy"}
  /\ Allowed("configure") = {"set deployed", "set props", "set more"}
BY DEF Allowed, Deploying

LEMMA Doing ==
  /\ \A what \in Names : Do(what) \in Entries /\ Do(what)[1] = what
  /\ <<>> \in Seq(Entries)
BY DEF Do, Entries, Args

LEMMA Entering ==
  /\ \A n \in Nat : <<"delete", n>> \in Entries /\ <<"restore", n>> \in Entries
  /\ \A keys \in SUBSET DOMAIN NoRecord : <<"forget", keys>> \in Entries
  /\ \A index \in SUBSET Services : <<"index", index>> \in Entries
  /\ \A s \in Services : <<"unset healthy", s>> \in Entries
  /\ \A mark \in Fingerprints : <<"set deployed", mark>> \in Entries
  /\ \A p \in {0} \cup Props : <<"set props", p>> \in Entries
  /\ \A m \in BOOLEAN : <<"set more", m>> \in Entries
<1>1. /\ "delete" \in Names /\ "restore" \in Names /\ "forget" \in Names /\ "index" \in Names
      /\ "unset healthy" \in Names /\ "set deployed" \in Names /\ "set props" \in Names
      /\ "set more" \in Names
  BY DEF Names
<1> DEFINE K == SUBSET DOMAIN NoRecord  S == SUBSET Services
<1>2. Args = Nat \cup BOOLEAN \cup Fingerprints \cup Services \cup S \cup K
  BY Zenon DEF Args
<1> HIDE DEF K, S
<1>3. /\ \A n \in Nat : n \in Args
      /\ \A x \in K : x \in Args
      /\ \A x \in S : x \in Args
      /\ \A x \in Services : x \in Args
      /\ \A x \in Fingerprints : x \in Args
      /\ \A x \in BOOLEAN : x \in Args
  BY <1>2, Zenon
<1>4. {0} \cup Props \subseteq Nat
  BY DeploymentsAssumption
<1> QED BY <1>1, <1>3, <1>4 DEF Entries, K, S

LEMMA LaidOne ==
  ASSUME NEW kind, NEW what \in Names, what \in Allowed(kind), NEW r \in Nat, Rank(what) = r,
         NEW condition \in BOOLEAN
  PROVE  /\ Laid(If(condition, <<Do(what)>>), kind, r, r)
         /\ condition => Left(If(condition, <<Do(what)>>), what)
<1>1. <<Do(what)>> \in Seq(Entries) /\ <<Do(what)>>[1][1] = what /\ DOMAIN <<Do(what)>> = {1}
  BY Doing
<1>2. CASE condition
  <2>1. If(condition, <<Do(what)>>) = <<Do(what)>>
    BY <1>2 DEF If
  <2>2. Laid(<<Do(what)>>, kind, r, r)
    BY <1>1 DEF Laid, Ordered
  <2>3. Left(<<Do(what)>>, what)
    BY <1>1 DEF Left
  <2> QED BY <2>1, <2>2, <2>3
<1>3. CASE ~condition
  <2>1. If(condition, <<Do(what)>>) = <<>>
    BY <1>3 DEF If
  <2>2. Laid(<<>>, kind, r, r)
    BY Doing DEF Laid, Ordered
  <2> QED BY <1>3, <2>1, <2>2
<1> QED BY <1>2, <1>3

LEMMA LaidTwo ==
  ASSUME NEW kind, NEW v \in Names, NEW w \in Names, v \in Allowed(kind), w \in Allowed(kind),
         NEW a \in Nat, NEW b \in Nat, Rank(v) = a, Rank(w) = b, a < b
  PROVE  /\ Laid(<<Do(v), Do(w)>>, kind, a, b)
         /\ Left(<<Do(v), Do(w)>>, v) /\ Left(<<Do(v), Do(w)>>, w)
<1> DEFINE p == <<Do(v), Do(w)>>
<1>1. p \in Seq(Entries) /\ p[1][1] = v /\ p[2][1] = w /\ DOMAIN p = {1, 2}
  BY Doing
<1> HIDE DEF p
<1>2. Ordered(p)
  BY <1>1 DEF Ordered
<1>3. Laid(p, kind, a, b)
  BY <1>1, <1>2 DEF Laid
<1> QED BY <1>1, <1>3 DEF Left, p

LEMMA LaidThree ==
  ASSUME NEW kind, NEW u \in Names, NEW v \in Names, NEW w \in Names,
         u \in Allowed(kind), v \in Allowed(kind), w \in Allowed(kind),
         NEW a \in Nat, NEW b \in Nat, NEW c \in Nat, Rank(u) = a, Rank(v) = b, Rank(w) = c,
         a < b, b < c
  PROVE  /\ Laid(<<Do(u), Do(v), Do(w)>>, kind, a, c)
         /\ Left(<<Do(u), Do(v), Do(w)>>, u) /\ Left(<<Do(u), Do(v), Do(w)>>, v)
         /\ Left(<<Do(u), Do(v), Do(w)>>, w)
<1> DEFINE p == <<Do(u), Do(v), Do(w)>>
<1>1. /\ p \in Seq(Entries) /\ p[1][1] = u /\ p[2][1] = v /\ p[3][1] = w
      /\ DOMAIN p = {1, 2, 3}
  BY Doing
<1> HIDE DEF p
<1>2. Ordered(p)
  BY <1>1 DEF Ordered
<1>3. Laid(p, kind, a, c)
  BY <1>1, <1>2 DEF Laid
<1> QED BY <1>1, <1>3 DEF Left, p

\* What is there comes after every step of a lower rank.
LEMMA WholeIfThere ==
  ASSUME NEW p \in Seq(Entries), Ordered(p), NEW needed, \A what \in needed : Left(p, what)
  PROVE  Whole(p, needed)
<1> SUFFICES ASSUME NEW i \in DOMAIN p, NEW what \in needed, Rank(p[i][1]) < Rank(what)
             PROVE  \E k \in DOMAIN p : k > i /\ p[k][1] = what
  BY DEF Whole
<1>1. PICK k \in DOMAIN p : p[k][1] = what
  BY DEF Left
<1>2. i \in Nat /\ k \in Nat
  OBVIOUS
<1>3. Rank(p[i][1]) \in Nat /\ Rank(what) \in Nat
  BY RankType
<1>4. i # k
  BY <1>1, <1>3
<1>5. ~(k < i)
  BY <1>1, <1>3 DEF Ordered
<1> QED BY <1>1, <1>2, <1>4, <1>5

----------------------------------------------------------------------------
(* Counting what comes after each of a finite set of things in order.            *)

Ranking(ns, after) ==
  /\ IsFiniteSet(ns) /\ after \in [ns -> SUBSET ns]
  /\ \A n \in ns : n \notin after[n]
  /\ \A n \in ns : \A m \in after[n] : after[m] \subseteq after[n]
  /\ \A m, n \in ns : m # n => m \in after[n] \/ n \in after[m]

LEMMA RanksApart ==
  ASSUME NEW ns, NEW after, Ranking(ns, after)
  PROVE  LET place == [n \in ns |-> Cardinality(after[n])] IN
         /\ Cardinality(ns) \in Nat
         /\ place \in [ns -> Nat] /\ \A n \in ns : place[n] < Cardinality(ns)
         /\ \A m, n \in ns : place[m] = place[n] => m = n
<1> DEFINE place == [n \in ns |-> Cardinality(after[n])]
<1>1. Cardinality(ns) \in Nat
  BY FS_CardinalityType DEF Ranking
<1>2. ASSUME NEW n \in ns
      PROVE  /\ IsFiniteSet(after[n]) /\ Cardinality(after[n]) \in Nat
             /\ Cardinality(after[n]) < Cardinality(ns)
  <2>1. after[n] \subseteq ns /\ after[n] # ns /\ IsFiniteSet(ns)
    BY DEF Ranking
  <2>2. IsFiniteSet(after[n]) /\ Cardinality(after[n]) <= Cardinality(ns)
        /\ Cardinality(after[n]) # Cardinality(ns)
    BY <2>1, FS_Subset
  <2>3. Cardinality(after[n]) \in Nat
    BY <2>2, FS_CardinalityType
  <2> QED BY <1>1, <2>2, <2>3
<1>3. ASSUME NEW m \in ns, NEW n \in ns, m \in after[n]
      PROVE  Cardinality(after[m]) < Cardinality(after[n])
  <2>1. after[m] \subseteq after[n] /\ m \notin after[m]
    BY <1>3 DEF Ranking
  <2>2. Cardinality(after[m]) <= Cardinality(after[n])
        /\ Cardinality(after[m]) # Cardinality(after[n])
    BY <1>2, <1>3, <2>1, FS_Subset
  <2> QED BY <1>2, <2>2
<1>4. ASSUME NEW m \in ns, NEW n \in ns, place[m] = place[n], m # n
      PROVE  FALSE
  <2>1. m \in after[n] \/ n \in after[m]
    BY <1>4 DEF Ranking
  <2>2. Cardinality(after[m]) = Cardinality(after[n])
    BY <1>4
  <2>3. Cardinality(after[m]) \in Nat /\ Cardinality(after[n]) \in Nat
    BY <1>2
  <2> QED BY <1>3, <2>1, <2>2, <2>3
<1>5. place \in [ns -> Nat] /\ \A n \in ns : place[n] < Cardinality(ns)
  BY <1>2
<1> QED BY <1>1, <1>4, <1>5

LEMMA FirstOnes ==
  ASSUME NEW ns, NEW after, Ranking(ns, after), NEW c \in Nat
  PROVE  LET few == {n \in ns : ~(Cardinality(after[n]) >= c)} IN
         IsFiniteSet(few) /\ Cardinality(few) <= c
<1> DEFINE few == {n \in ns : ~(Cardinality(after[n]) >= c)}
           place == [n \in ns |-> Cardinality(after[n])]
           short == [n \in few |-> place[n]]
<1>1. /\ place \in [ns -> Nat]
      /\ \A m, n \in ns : place[m] = place[n] => m = n
  BY RanksApart
<1>2. \A n \in ns : place[n] = Cardinality(after[n])
  OBVIOUS
<1> HIDE DEF place
<1>3. \A n \in few : n \in ns /\ place[n] \in 0..c - 1
  BY <1>1, <1>2
<1> HIDE DEF few
<1>4. short \in Injection(few, 0..c - 1)
  BY <1>1, <1>3 DEF Injection, IsInjective
<1>5. IsFiniteSet(0..c - 1) /\ Cardinality(0..c - 1) = c
  <2>1. 0 \in Int /\ c - 1 \in Int /\ (IF 0 > c - 1 THEN 0 ELSE c - 1 - 0 + 1) = c
    OBVIOUS
  <2> QED BY <2>1, FS_Interval
<1>6. IsFiniteSet(few) /\ Cardinality(few) <= Cardinality(0..c - 1)
  BY <1>4, <1>5, FS_Injection
<1> QED BY <1>5, <1>6 DEF few

\* Every place is taken.
LEMMA EachPlace ==
  ASSUME NEW ns, NEW after, Ranking(ns, after), NEW i \in 1..Cardinality(ns)
  PROVE  \E n \in ns : Cardinality(after[n]) = i - 1
<1> DEFINE place == [n \in ns |-> Cardinality(after[n])]  c == Cardinality(ns)
<1>1. /\ place \in [ns -> Nat] /\ c \in Nat /\ \A n \in ns : place[n] < c
      /\ \A m, n \in ns : place[m] = place[n] => m = n
  BY RanksApart
<1>2. \A n \in ns : place[n] = Cardinality(after[n])
  OBVIOUS
<1> HIDE DEF place, c
<1>3. \A n \in ns : place[n] \in 0..c - 1
  BY <1>1
<1>4. place \in Injection(ns, 0..c - 1)
  BY <1>1, <1>3 DEF Injection, IsInjective
<1>5. IsFiniteSet(0..c - 1) /\ Cardinality(0..c - 1) = c
  <2>1. 0 \in Int /\ c - 1 \in Int /\ (IF 0 > c - 1 THEN 0 ELSE c - 1 - 0 + 1) = c
    BY <1>1
  <2> QED BY <2>1, FS_Interval
<1>6. place \in Surjection(ns, 0..c - 1)
  BY <1>4, <1>5, FS_Injection DEF c
<1>7. i - 1 \in 0..c - 1
  BY <1>1 DEF c
<1>8. PICK n \in ns : place[n] = i - 1
  BY <1>6, <1>7 DEF Surjection
<1> QED BY <1>2, <1>8

LEMMA NewestFirst ==
  ASSUME NEW ns \in SUBSET Nat, IsFiniteSet(ns)
  PROVE  LET after == [n \in ns |-> {m \in ns : m > n}] IN
         /\ Ranking(ns, after)
         /\ \A n \in ns : after[n] = {m \in ns : m > n}
<1> DEFINE after == [n \in ns |-> {m \in ns : m > n}]
<1>1. after \in [ns -> SUBSET ns] /\ \A n \in ns : after[n] = {m \in ns : m > n}
  OBVIOUS
<1> HIDE DEF after
<1>2. \A n \in ns : n \in Nat /\ n \notin after[n]
  BY <1>1
<1>3. ASSUME NEW n \in ns, NEW m \in after[n], NEW k \in after[m]
      PROVE  k \in after[n]
  <2>1. m \in ns /\ m > n /\ k \in ns /\ k > m
    BY <1>1
  <2>2. k > n
    <3>1. m \in Nat /\ n \in Nat /\ k \in Nat
      BY <2>1
    <3> QED BY <2>1, <3>1
  <2> QED BY <1>1, <2>1, <2>2
<1>4. ASSUME NEW m \in ns, NEW n \in ns, m # n
      PROVE  m \in after[n] \/ n \in after[m]
  <2>1. m > n \/ n > m
    <3>1. m \in Nat /\ n \in Nat
      OBVIOUS
    <3> QED BY <1>4, <3>1
  <2> QED BY <1>1, <2>1
<1>5. Ranking(ns, after)
  BY <1>1, <1>2, <1>3, <1>4 DEF Ranking
<1> QED BY <1>1, <1>5 DEF after

LEMMA DeletesAll ==
  ASSUME NEW ns \in SUBSET Nat, IsFiniteSet(ns)
  PROVE  /\ Deletes(ns) \in Seq(Entries)
         /\ \A i \in DOMAIN Deletes(ns) : \E n \in ns : Deletes(ns)[i] = <<"delete", n>>
         /\ \A n \in ns : \E i \in DOMAIN Deletes(ns) : Deletes(ns)[i] = <<"delete", n>>
<1> DEFINE after == [n \in ns |-> {m \in ns : m > n}]  c == Cardinality(ns)
           place == [n \in ns |-> Cardinality(after[n])]
<1>1. Ranking(ns, after) /\ \A n \in ns : after[n] = {m \in ns : m > n}
  BY NewestFirst
<1> HIDE DEF after
<1> DEFINE above(n) == {m \in ns : m > n}
<1>2. \A i \in 1..c : \E n \in ns : Cardinality(above(n)) = i - 1
  <2>1. \A i \in 1..Cardinality(ns) : \E n \in ns : Cardinality(after[n]) = i - 1
    BY <1>1, EachPlace
  <2> QED BY <1>1, <2>1
<1>3. \A i \in 1..c : Nth(ns, i) = CHOOSE n \in ns : Cardinality(above(n)) = i - 1
  BY DEF Nth
<1>4. /\ place \in [ns -> Nat] /\ c \in Nat /\ \A n \in ns : place[n] < c
      /\ \A m, n \in ns : place[m] = place[n] => m = n
  BY <1>1, RanksApart
<1>5. \A n \in ns : place[n] = Cardinality(above(n))
  BY <1>1
<1> HIDE DEF place, above
<1>6. \A i \in 1..c : Nth(ns, i) \in ns /\ place[Nth(ns, i)] = i - 1
  BY <1>2, <1>3, <1>5
<1>7. ASSUME NEW n \in ns
      PROVE  place[n] + 1 \in 1..c /\ Nth(ns, place[n] + 1) = n
  <2> DEFINE i == place[n] + 1
  <2>1. i \in 1..c /\ i - 1 = place[n]
    BY <1>4
  <2> HIDE DEF i
  <2>2. Nth(ns, i) \in ns /\ place[Nth(ns, i)] = place[n]
    BY <1>6, <2>1
  <2> QED BY <1>4, <2>1, <2>2 DEF i
<1>8. /\ DOMAIN Deletes(ns) = 1..c
      /\ \A i \in 1..c : Deletes(ns)[i] = <<"delete", Nth(ns, i)>>
  BY DEF Deletes
<1>9. Deletes(ns) = [i \in 1..c |-> <<"delete", Nth(ns, i)>>]
  BY DEF Deletes
<1>10. \A i \in 1..c : <<"delete", Nth(ns, i)>> \in Entries
  BY <1>6 DEF Entries, Names, Args
<1>11. Deletes(ns) \in Seq(Entries)
  BY <1>4, <1>9, <1>10
<1> QED BY <1>6, <1>7, <1>8, <1>11

\* A plan deletes these snapshots and no other.
Deleting(p, ns) ==
  /\ \A i \in DOMAIN p : p[i][1] = "delete" => \E n \in ns : p[i] = <<"delete", n>>
  /\ \A n \in ns : \E i \in DOMAIN p : p[i] = <<"delete", n>>

LEMMA DeletingFirst ==
  ASSUME NEW p \in Seq(Entries), NEW ns, Deleting(p, ns), NEW q, NEW kind, NEW c \in Nat, NEW d \in Nat,
         Laid(q, kind, c, d), 0 < c
  PROVE  Deleting(p \o q, ns)
<1> DEFINE u == p \o q
<1>1. /\ \A i \in DOMAIN u : \/ i \in DOMAIN p /\ u[i] = p[i]
                             \/ i > Len(p) /\ i - Len(p) \in DOMAIN q /\ u[i] = q[i - Len(p)]
      /\ \A i \in DOMAIN p : i \in DOMAIN u /\ u[i] = p[i] /\ i <= Len(p)
  BY Joined DEF Laid
<1> HIDE DEF u
<1>2. \A i \in DOMAIN q : q[i][1] # "delete"
  <2> SUFFICES ASSUME NEW i \in DOMAIN q, q[i][1] = "delete"
               PROVE  FALSE
    OBVIOUS
  <2>1. c <= Rank("delete")
    BY DEF Laid
  <2>2. Rank("delete") = 0
    BY Ranks
  <2> QED BY <2>1, <2>2
<1>3. ASSUME NEW i \in DOMAIN u, u[i][1] = "delete"
      PROVE  \E n \in ns : u[i] = <<"delete", n>>
  BY <1>1, <1>2, <1>3 DEF Deleting
<1>4. ASSUME NEW n \in ns
      PROVE  \E i \in DOMAIN u : u[i] = <<"delete", n>>
  BY <1>1 DEF Deleting
<1> QED BY <1>3, <1>4 DEF Deleting, u

LEMMA CheckoutSteps ==
  ASSUME NEW ns \in SUBSET Nat, IsFiniteSet(ns), NEW kind \in Deploying
  PROVE  /\ Laid(Checkout(ns), kind, 0, 2) /\ Deleting(Checkout(ns), ns)
         /\ Left(Checkout(ns), "snapshot") /\ Left(Checkout(ns), "fetch")
<1> DEFINE q == <<Do("snapshot"), Do("fetch")>>  p == Deletes(ns)
<1>1. /\ p \in Seq(Entries)
      /\ \A i \in DOMAIN p : \E n \in ns : p[i] = <<"delete", n>>
      /\ \A n \in ns : \E i \in DOMAIN p : p[i] = <<"delete", n>>
  BY DeletesAll
<1>2. Laid(q, kind, 1, 2) /\ Left(q, "snapshot") /\ Left(q, "fetch")
  <2>1. {"snapshot", "fetch"} \subseteq Names /\ {"snapshot", "fetch"} \subseteq Allowed(kind)
    BY Deployed DEF Names
  <2>2. Rank("snapshot") = 1 /\ Rank("fetch") = 2
    BY Ranks
  <2> QED BY <2>1, <2>2, LaidTwo
<1>3. Checkout(ns) = p \o q
  BY DEF Checkout
<1> HIDE DEF p, q
<1>4. \A i \in DOMAIN p : p[i][1] = "delete"
  BY <1>1
<1>5. Laid(p, kind, 0, 0)
  <2>1. "delete" \in Allowed(kind)
    BY Deployed
  <2>2. Rank("delete") = 0
    BY Ranks
  <2> QED BY <1>1, <1>4, <2>1, <2>2 DEF Laid, Ordered
<1>6. Deleting(p, ns)
  BY <1>1 DEF Deleting
<1>7. Laid(p \o q, kind, 0, 2) /\ \A what : Left(p, what) \/ Left(q, what) <=> Left(p \o q, what)
  BY <1>2, <1>5, Laying
<1>8. Deleting(p \o q, ns)
  BY <1>1, <1>2, <1>6, DeletingFirst
<1> QED BY <1>2, <1>3, <1>7, <1>8

LEMMA Appended ==
  ASSUME NEW p, NEW q, NEW kind, NEW ns, NEW b \in Nat, NEW c \in Nat, NEW d \in Nat,
         Laid(p, kind, 0, b), Laid(q, kind, c, d), b < c, b <= d, Deleting(p, ns)
  PROVE  /\ Laid(p \o q, kind, 0, d) /\ Deleting(p \o q, ns)
         /\ \A what : Left(p, what) \/ Left(q, what) => Left(p \o q, what)
<1>1. 0 <= c /\ 0 < c /\ p \in Seq(Entries)
  BY DEF Laid
<1>2. Laid(p \o q, kind, 0, d) /\ \A what : Left(p, what) \/ Left(q, what) <=> Left(p \o q, what)
  BY <1>1, Laying
<1> QED BY <1>1, <1>2, DeletingFirst

LEMMA DeploySteps ==
  ASSUME NEW s, NEW want \in Wants, NEW ns \in SUBSET Nat, IsFiniteSet(ns), NEW kind \in Deploying,
         ns = Prunable(s, box.config[s].healthy)
  PROVE  /\ Laid(DeployPlan(s, want), kind, 0, 10) /\ Deleting(DeployPlan(s, want), ns)
         /\ \A what \in Needed \cup {"snapshot"} : Left(DeployPlan(s, want), what)
<1> DEFINE p1 == Checkout(ns)
           q1 == If(want.env # 0, <<Do("environment")>>)
           q2 == <<Do("build"), Do("unit"), Do("start")>>
           q3 == If(want.more, <<Do("check")>>)
           q4 == <<Do("remember"), Do("mark")>>
           q5 == If(want.more, <<Do("healthy")>>)
           p2 == p1 \o q1  p3 == p2 \o q2  p4 == p3 \o q3  p5 == p4 \o q4
<1>1. DeployPlan(s, want) = p5 \o q5
  BY DEF DeployPlan
<1>2. Allowed(kind) \subseteq Names /\ want.more \in BOOLEAN
  <2>1. Allowed(kind) \subseteq Names
    BY Deployed, ZenonT(40) DEF Names
  <2>2. want.more \in BOOLEAN
    BY DEF Wants
  <2> QED BY <2>1, <2>2
<1>3. {"environment", "build", "unit", "start", "check", "remember", "mark", "healthy"}
        \subseteq Allowed(kind)
  BY Deployed, ZenonT(40)
<1>4. /\ Rank("environment") = 3 /\ Rank("build") = 4 /\ Rank("unit") = 5 /\ Rank("start") = 6
      /\ Rank("check") = 7 /\ Rank("remember") = 8 /\ Rank("mark") = 9 /\ Rank("healthy") = 10
  BY Ranks
<1>5. /\ Laid(p1, kind, 0, 2) /\ Deleting(p1, ns) /\ Left(p1, "snapshot") /\ Left(p1, "fetch")
  BY CheckoutSteps
<1>6. Laid(q1, kind, 3, 3)
  BY <1>2, <1>3, <1>4, LaidOne
<1>7. Laid(q2, kind, 4, 6) /\ Left(q2, "unit") /\ Left(q2, "start")
  BY <1>2, <1>3, <1>4, LaidThree
<1>8. Laid(q3, kind, 7, 7)
  BY <1>2, <1>3, <1>4, LaidOne
<1>9. Laid(q4, kind, 8, 9) /\ Left(q4, "remember") /\ Left(q4, "mark")
  BY <1>2, <1>3, <1>4, LaidTwo
<1>10. Laid(q5, kind, 10, 10)
  BY <1>2, <1>3, <1>4, LaidOne
<1> HIDE DEF p1, q1, q2, q3, q4, q5
<1>11. Laid(p2, kind, 0, 3) /\ Deleting(p2, ns) /\ Left(p2, "snapshot") /\ Left(p2, "fetch")
  BY <1>5, <1>6, Appended
<1> HIDE DEF p2
<1>12. /\ Laid(p3, kind, 0, 6) /\ Deleting(p3, ns) /\ Left(p3, "snapshot") /\ Left(p3, "fetch")
       /\ Left(p3, "unit") /\ Left(p3, "start")
  <2>1. /\ Laid(p2 \o q2, kind, 0, 6) /\ Deleting(p2 \o q2, ns)
        /\ \A what : Left(p2, what) \/ Left(q2, what) => Left(p2 \o q2, what)
    BY <1>7, <1>11, Appended
  <2> QED BY <1>7, <1>11, <2>1
<1> HIDE DEF p3
<1>13. /\ Laid(p4, kind, 0, 7) /\ Deleting(p4, ns) /\ Left(p4, "snapshot") /\ Left(p4, "fetch")
       /\ Left(p4, "unit") /\ Left(p4, "start")
  BY <1>8, <1>12, Appended
<1> HIDE DEF p4
<1>14. /\ Laid(p5, kind, 0, 9) /\ Deleting(p5, ns) /\ Left(p5, "snapshot") /\ Left(p5, "fetch")
       /\ Left(p5, "unit") /\ Left(p5, "start") /\ Left(p5, "remember") /\ Left(p5, "mark")
  BY <1>9, <1>13, Appended
<1> HIDE DEF p5
<1>15. /\ Laid(p5 \o q5, kind, 0, 10) /\ Deleting(p5 \o q5, ns)
       /\ \A what : Left(p5, what) => Left(p5 \o q5, what)
  BY <1>10, <1>14, Appended
<1> QED BY <1>1, <1>14, <1>15 DEF Needed

\* The shape of what each kind of job walks when its turn begins.
LEMMA DeployShape ==
  ASSUME NEW job \in JobRecords, job.kind \in Deploying, job.snap = 0,
         Laid(job.todo, job.kind, 0, 10), \A what \in Needed \cup {"snapshot"} : Left(job.todo, what)
  PROVE  Shape(job)
<1>1. job.todo \in Seq(Entries) /\ Ordered(job.todo)
  BY DEF Laid
<1>2. Whole(job.todo, Needed)
  BY <1>1, WholeIfThere
<1>3. \A i \in DOMAIN job.todo : job.todo[i][1] \in Allowed(job.kind)
  BY DEF Laid
<1>4. \A i \in DOMAIN job.todo : EntryOK(job.todo[i], job.s)
  BY <1>3, Deployed DEF EntryOK
<1>5. job.kind # "destroy"
  BY DEF Deploying
<1> QED BY <1>1, <1>2, <1>3, <1>4, <1>5 DEF Shape

LEMMA SixIn ==
  ASSUME NEW S, NEW a \in S, NEW b \in S, NEW c \in S, NEW d \in S, NEW e \in S, NEW f \in S
  PROVE  <<a, b, c, d, e, f>> \in Seq(S)
OBVIOUS

LEMMA DestroyShape ==
  ASSUME NEW s \in Services, box \in Boxes
  PROVE  /\ DestroyPlan(s) \in Seq(Entries)
         /\ \A job \in JobRecords : job.kind = "destroy" /\ job.s = s /\ job.snap = 0
                                      /\ job.todo = DestroyPlan(s) => Shape(job)
<1> DEFINE remaining == box.index \ {s}
           last == IF remaining # {} THEN <<"index", remaining>> ELSE Do("empty index")
           forgetting == <<"forget", Keys(s)>>
           p == <<Do("snapshot"), Do("disable"), Do("remove unit"), Do("remove files"),
                  forgetting, last>>
<1>1. DestroyPlan(s) = p
  BY DEF DestroyPlan
<1>2. last \in Entries /\ last[1] \in Listing /\ EntryOK(last, s)
  <2>1. remaining \subseteq Services \ {s}
    BY DEF Boxes
  <2>2. <<"index", remaining>> \in Entries
    BY <2>1 DEF Entries, Names, Args
  <2>3. "empty index" \in Names
    BY DEF Names
  <2>4. Do("empty index") \in Entries /\ Do("empty index")[1] = "empty index"
    BY <2>3, Doing
  <2>5. CASE remaining # {}
    <3>1. last = <<"index", remaining>>
      BY <2>5
    <3> HIDE DEF last, remaining
    <3> QED BY <2>1, <2>2, <3>1 DEF Listing, EntryOK
  <2>6. CASE remaining = {}
    <3>1. last = Do("empty index")
      BY <2>6
    <3> HIDE DEF last, remaining
    <3> QED BY <2>4, <3>1 DEF Listing, EntryOK
  <2> QED BY <2>5, <2>6
<1>3. Keys(s) \subseteq DOMAIN NoRecord
  BY DEF Keys
<1>4. forgetting \in Entries /\ forgetting[1] = "forget"
  BY <1>3, Entering
<1> HIDE DEF last, forgetting
<1>5. /\ p \in Seq(Entries) /\ DOMAIN p = {1, 2, 3, 4, 5, 6}
      /\ p[1][1] = "snapshot" /\ p[2][1] = "disable" /\ p[3][1] = "remove unit"
      /\ p[4][1] = "remove files" /\ p[5][1] = "forget" /\ p[6] = last
  <2>1. {"snapshot", "disable", "remove unit", "remove files"} \subseteq Names
    BY DEF Names
  <2>2. /\ Do("snapshot") \in Entries /\ Do("snapshot")[1] = "snapshot"
        /\ Do("disable") \in Entries /\ Do("disable")[1] = "disable"
        /\ Do("remove unit") \in Entries /\ Do("remove unit")[1] = "remove unit"
        /\ Do("remove files") \in Entries /\ Do("remove files")[1] = "remove files"
    BY <2>1, Doing
  <2> DEFINE a == Do("snapshot")  b == Do("disable")  c == Do("remove unit")
             d == Do("remove files")
  <2> HIDE DEF a, b, c, d
  <2>3. p = <<a, b, c, d, forgetting, last>>
    BY DEF a, b, c, d
  <2>4. /\ a \in Entries /\ a[1] = "snapshot" /\ b \in Entries /\ b[1] = "disable"
        /\ c \in Entries /\ c[1] = "remove unit" /\ d \in Entries /\ d[1] = "remove files"
        /\ forgetting \in Entries /\ last \in Entries
    BY <1>2, <1>4, <2>2 DEF a, b, c, d
  <2> HIDE DEF p
  <2>5. <<a, b, c, d, forgetting, last>> \in Seq(Entries)
    BY <2>4, SixIn
  <2>6. DOMAIN <<a, b, c, d, forgetting, last>> = {1, 2, 3, 4, 5, 6}
    OBVIOUS
  <2> QED BY <1>4, <2>3, <2>4, <2>5, <2>6
<1> HIDE DEF p
<1>7. Ordered(p)
  <2>1. /\ Rank(p[1][1]) = 1 /\ Rank(p[2][1]) = 2 /\ Rank(p[3][1]) = 3 /\ Rank(p[4][1]) = 4
        /\ Rank(p[5][1]) = 5 /\ Rank(p[6][1]) = 6
    <3>1. last[1] = "index" \/ last[1] = "empty index"
      BY <1>2 DEF Listing
    <3> QED BY <1>5, <3>1, Ranks, ZenonT(40)
  <2>2. \A i \in DOMAIN p : Rank(p[i][1]) = i
    BY <1>5, <2>1
  <2> QED BY <2>2 DEF Ordered
<1>8. \A i \in DOMAIN p : p[i][1] \in Allowed("destroy") /\ EntryOK(p[i], s)
  <2>1. Listing \subseteq Allowed("destroy")
    BY Deployed DEF Listing
  <2>2. ASSUME NEW i \in DOMAIN p
        PROVE  \/ p[i] = last
               \/ p[i][1] \in {"snapshot", "disable", "remove unit", "remove files", "forget"}
    BY <1>5
  <2>4. last[1] \in Allowed("destroy")
    BY <1>2, <2>1
  <2> SUFFICES ASSUME NEW i \in DOMAIN p
               PROVE  p[i][1] \in Allowed("destroy") /\ EntryOK(p[i], s)
    OBVIOUS
  <2>5. CASE p[i] = last
    BY <1>2, <2>4, <2>5
  <2>6. CASE p[i] # last
    <3>1. p[i][1] \in {"snapshot", "disable", "remove unit", "remove files", "forget"}
      BY <2>2, <2>6
    <3> DEFINE x == p[i]
    <3>2. x[1] \in {"snapshot", "disable", "remove unit", "remove files", "forget"}
      BY <3>1
    <3> HIDE DEF x
    <3>3. x[1] \in Allowed("destroy") /\ EntryOK(x, s)
      BY <3>2, Deployed DEF EntryOK
    <3> QED BY <3>3 DEF x
  <2> QED BY <2>5, <2>6
<1>9. ASSUME NEW i \in DOMAIN p, p[i][1] \notin Listing
      PROVE  \E k \in DOMAIN p : k > i /\ p[k][1] \in Listing
  <2>1. i \in {1, 2, 3, 4, 5} /\ 6 \in DOMAIN p
    BY <1>2, <1>5, <1>9
  <2>2. 6 > i
    BY <2>1
  <2> QED BY <1>2, <1>5, <2>1, <2>2
<1>10. Left(p, "snapshot")
  BY <1>5 DEF Left
<1>11. "destroy" \notin Deploying
  BY DEF Deploying
<1>12. ASSUME NEW job \in JobRecords, job.kind = "destroy", job.s = s, job.snap = 0, job.todo = p
       PROVE  Shape(job)
  BY <1>7, <1>8, <1>9, <1>10, <1>11, <1>12 DEF Shape
<1> QED BY <1>1, <1>5, <1>12

LEMMA EnvironmentShape ==
  /\ EnvironmentPlan \in Seq(Entries)
  /\ \A job \in JobRecords : job.kind = "environment" /\ job.snap = 0
                               /\ job.todo = EnvironmentPlan => Shape(job)
<1> DEFINE p == EnvironmentPlan
<1>1. /\ p \in Seq(Entries) /\ DOMAIN p = {1, 2, 3}
      /\ p[1][1] = "snapshot" /\ p[2][1] = "environment" /\ p[3][1] = "restart"
  <2>1. {"snapshot", "environment", "restart"} \subseteq Names
    BY DEF Names
  <2> QED BY <2>1, Doing DEF EnvironmentPlan
<1> HIDE DEF p
<1>2. Ordered(p)
  <2>1. Rank(p[1][1]) = 1 /\ Rank(p[2][1]) = 3 /\ Rank(p[3][1]) = 6
    BY <1>1, Ranks
  <2> QED BY <1>1, <2>1 DEF Ordered
<1>3. \A i \in DOMAIN p : p[i][1] \in {"snapshot", "environment", "restart"}
  BY <1>1
<1>4. \A i \in DOMAIN p : \A s : EntryOK(p[i], s)
  BY <1>3 DEF EntryOK
<1>5. Left(p, "snapshot")
  BY <1>1 DEF Left
<1>6. ASSUME NEW job \in JobRecords, job.kind = "environment", job.snap = 0, job.todo = p
      PROVE  Shape(job)
  <2>1. job.kind \notin Deploying
    BY <1>6 DEF Deploying
  <2> QED BY <1>2, <1>3, <1>4, <1>5, <1>6, <2>1, Deployed DEF Shape
<1> QED BY <1>1, <1>6 DEF p

LEMMA PlainShape ==
  ASSUME NEW job \in JobRecords, job.kind \in {"rollback", "removal", "configure"},
         \A i \in DOMAIN job.todo : job.todo[i][1] \in Allowed(job.kind) /\ EntryOK(job.todo[i], job.s)
  PROVE  Shape(job)
BY DEF Shape, Backed, Deploying

LEMMA RollbackShape ==
  ASSUME NEW n \in Nat
  PROVE  LET p == <<<<"restore", n>>>> IN
         /\ p \in Seq(Entries)
         /\ \A i \in DOMAIN p, s \in {NoService} : p[i][1] \in Allowed("rollback") /\ EntryOK(p[i], s)
<1>1. <<"restore", n>> \in Entries
  BY DEF Entries, Names, Args
<1>2. "restore" \in Allowed("rollback")
  BY Deployed
<1>3. \A s : EntryOK(<<"restore", n>>, s)
  BY DEF EntryOK
<1> QED BY <1>1, <1>2, <1>3

LEMMA RemovalShape ==
  ASSUME NEW n \in Nat, box \in Boxes, NEW named \in Naming(n)
  PROVE  LET p == RemovalPlan(n, named) IN
         /\ p \in Seq(Entries)
         /\ \A i \in DOMAIN p : p[i][1] \in Allowed("removal") /\ EntryOK(p[i], NoService)
<1> DEFINE first == <<<<"delete", n>>>>
           then == [i \in DOMAIN named |-> <<"unset healthy", named[i]>>]
           of == {s \in box.index : box.config[s].healthy = n}
<1>1. /\ Cardinality(of) \in Nat /\ named \in [1..Cardinality(of) -> of] /\ of \subseteq Services
  <2>1. of \subseteq Services
    BY DEF Boxes
  <2>2. Cardinality(of) \in Nat
    BY <2>1, DeploymentsAssumption, FS_Subset, FS_CardinalityType
  <2> QED BY <2>1, <2>2 DEF Naming
<1> HIDE DEF of
<1>2. \A s \in Services : <<"unset healthy", s>> \in Entries
  BY Entering
<1>3. /\ then \in Seq(Entries)
      /\ \A i \in DOMAIN then : then[i][1] = "unset healthy" /\ then[i][2] \in Services
  <2>1. DOMAIN named = 1..Cardinality(of) /\ \A i \in DOMAIN named : named[i] \in Services
    BY <1>1
  <2>2. then \in [1..Cardinality(of) -> Entries]
    BY <1>2, <2>1
  <2> DEFINE c == Cardinality(of)
  <2>3. then \in Seq(Entries)
    <3>1. c \in Nat /\ then \in [1..c -> Entries]
      BY <1>1, <2>2
    <3> HIDE DEF c, then
    <3> QED BY <3>1
  <2>4. DOMAIN then = DOMAIN named /\ \A i \in DOMAIN named : then[i] = <<"unset healthy", named[i]>>
    OBVIOUS
  <2> QED BY <2>1, <2>3, <2>4
<1>4. <<"delete", n>> \in Entries
  BY Entering
<1>5. first \in Seq(Entries) /\ \A i \in DOMAIN first : first[i][1] = "delete"
  BY <1>4
<1>6. RemovalPlan(n, named) = first \o then
  BY DEF RemovalPlan
<1> HIDE DEF first, then
<1>7. /\ first \o then \in Seq(Entries)
      /\ \A i \in DOMAIN (first \o then) :
           \/ i \in DOMAIN first /\ (first \o then)[i] = first[i]
           \/ /\ i > Len(first) /\ i - Len(first) \in DOMAIN then
              /\ (first \o then)[i] = then[i - Len(first)]
  <2>1. first \in Seq(Entries) /\ then \in Seq(Entries)
    BY <1>3, <1>5
  <2> QED BY <2>1, Joined
<1>8. \A i \in DOMAIN (first \o then) :
        \/ (first \o then)[i][1] = "delete"
        \/ (first \o then)[i][1] = "unset healthy" /\ (first \o then)[i][2] \in Services
  BY <1>3, <1>5, <1>7
<1> QED BY <1>6, <1>7, <1>8, Deployed DEF EntryOK

\* Any steps that save a property.
Saving(p, s) ==
  /\ p \in Seq(Entries)
  /\ \A i \in DOMAIN p : p[i][1] \in Allowed("configure") /\ EntryOK(p[i], s)

LEMMA SavingOne ==
  ASSUME NEW condition, NEW x \in Entries, NEW s,
         x[1] \in Allowed("configure"), EntryOK(x, s)
  PROVE  Saving(If(condition, <<x>>), s)
<1>1. CASE condition
  <2>1. If(condition, <<x>>) = <<x>>
    BY <1>1 DEF If
  <2>2. Saving(<<x>>, s)
    <3>1. <<x>> \in Seq(Entries) /\ DOMAIN <<x>> = {1} /\ <<x>>[1] = x
      OBVIOUS
    <3> DEFINE p == <<x>>
    <3> HIDE DEF p
    <3>2. Saving(p, s)
      BY <3>1 DEF Saving, p
    <3> QED BY <3>2 DEF p
  <2> QED BY <2>1, <2>2
<1>2. CASE ~condition
  <2>1. If(condition, <<x>>) = <<>>
    BY <1>2 DEF If
  <2>2. Saving(<<>>, s)
    <3>1. <<>> \in Seq(Entries) /\ DOMAIN <<>> = {}
      OBVIOUS
    <3> QED BY <3>1 DEF Saving
  <2> QED BY <2>1, <2>2
<1> QED BY <1>1, <1>2

LEMMA SavingBoth ==
  ASSUME NEW p, NEW q, NEW s, Saving(p, s), Saving(q, s)
  PROVE  Saving(p \o q, s)
<1>1. p \in Seq(Entries) /\ q \in Seq(Entries)
  BY DEF Saving
<1>2. /\ p \o q \in Seq(Entries)
      /\ \A i \in DOMAIN (p \o q) :
           \/ i \in DOMAIN p /\ (p \o q)[i] = p[i]
           \/ i > Len(p) /\ i - Len(p) \in DOMAIN q /\ (p \o q)[i] = q[i - Len(p)]
  BY <1>1, Joined
<1>3. ASSUME NEW i \in DOMAIN (p \o q)
      PROVE  (p \o q)[i][1] \in Allowed("configure") /\ EntryOK((p \o q)[i], s)
  <2>1. CASE i \in DOMAIN p /\ (p \o q)[i] = p[i]
    BY <2>1 DEF Saving
  <2>2. CASE i - Len(p) \in DOMAIN q /\ (p \o q)[i] = q[i - Len(p)]
    BY <2>2 DEF Saving
  <2> QED BY <1>2, <2>1, <2>2
<1> QED BY <1>2, <1>3 DEF Saving

LEMMA ConfigureShape ==
  ASSUME NEW s \in Services, NEW want \in Wants, box \in Boxes
  PROVE  Saving(ConfigurePlan(s, want), s)
<1> DEFINE x == <<"set deployed", Fingerprint(box, s)>>
           y == <<"set props", want.props>>  z == <<"set more", want.more>>
           p == If(box.config[s].deployed = <<>>, <<x>>)
           q == If(want.props # box.config[s].props, <<y>>)
           r == If(want.more # box.config[s].more, <<z>>)
<1>1. ConfigurePlan(s, want) = (p \o q) \o r
  BY DEF ConfigurePlan
<1>2. x \in Entries /\ EntryOK(x, s) /\ x[1] \in Allowed("configure")
  <2>1. Fingerprint(box, s) \in Fingerprints
    BY BoxParts
  <2> QED BY <2>1, Entering, Deployed DEF EntryOK
<1>3. y \in Entries /\ EntryOK(y, s) /\ y[1] \in Allowed("configure")
  <2>1. want.props \in {0} \cup Props
    BY DEF Wants
  <2> QED BY <2>1, Entering, Deployed DEF EntryOK
<1>4. z \in Entries /\ EntryOK(z, s) /\ z[1] \in Allowed("configure")
  <2>1. want.more \in BOOLEAN
    BY DEF Wants
  <2> QED BY <2>1, Entering, Deployed DEF EntryOK
<1> HIDE DEF x, y, z
<1>5. Saving(p, s) /\ Saving(q, s) /\ Saving(r, s)
  BY <1>2, <1>3, <1>4, SavingOne
<1> HIDE DEF p, q, r
<1>6. Saving(p \o q, s)
  BY <1>5, SavingBoth
<1> QED BY <1>1, <1>5, <1>6, SavingBoth

----------------------------------------------------------------------------
(* What an action does to the jobs.                                            *)

JobsOK(js, h, m) == JobsTyped(js, h, m) /\ Shaped(js)

LEMMA JobParts ==
  ASSUME NEW js, NEW h, NEW m \in Nat, JobsOK(js, h, m), NEW j \in Jobs
  PROVE  /\ js[j] \in JobRecords /\ JobOK(js[j], m) /\ js[j].todo \in Seq(Entries)
         /\ js[j].want \in Wants
         /\ js[j].snap \in Nat /\ js[j].pc = "running" <=> h = j
         /\ h = j => Shape(js[j])
         /\ js[j].kind \in AnyKind \cup {"none"} /\ js[j].s \in Services \cup {NoService}
BY DEF JobsOK, JobsTyped, Shaped, Planned, JobRecords

\* One job changes.
Fits(job, j, g, n) ==
  /\ job \in JobRecords /\ JobOK(job, n) /\ ((job.pc = "running") <=> (g = j))
  /\ Planned(job) => Shape(job)
  /\ job.pc = "asked" => job.snap = 0
SameFor(js, h, g) == \A k \in js : (h = k) <=> (g = k)

LEMMA OneJob ==
  ASSUME NEW js, NEW h, NEW m \in Nat, JobsOK(js, h, m), NEW j \in Jobs, NEW next,
         NEW g, NEW n \in Nat, m <= n, NEW ks, ks = [js EXCEPT ![j] = next],
         Fits(next, j, g, n), SameFor(Jobs \ {j}, h, g)
  PROVE  JobsOK(ks, g, n)
<1>1. ks \in [Jobs -> JobRecords] /\ ks[j] = next /\ \A k \in Jobs \ {j} : ks[k] = js[k]
  BY DEF JobsOK, JobsTyped, Fits
<1>2. \A job : JobOK(job, m) => JobOK(job, n)
  BY DEF JobOK
<1>3. JobsTyped(ks, g, n)
  BY <1>1, <1>2 DEF JobsOK, JobsTyped, Fits, SameFor
<1>4. Shaped(ks)
  BY <1>1 DEF JobsOK, Shaped, Fits
<1> QED BY <1>3, <1>4 DEF JobsOK

Due(job, snap) == IF Head(job.todo)[1] = "snapshot" THEN snap # 0 ELSE snap = job.snap
Next1(job, snap) == [job EXCEPT !.todo = Tail(@), !.snap = snap]
WalkOn(js, j, snap) == [js EXCEPT ![j] = Next1(js[j], snap)]
CanWalk(js, h, m, j, n, snap) ==
  /\ m \in Nat /\ n \in Nat /\ m <= n /\ JobsOK(js, h, m) /\ j \in Jobs /\ h = j
  /\ js[j].todo # <<>> /\ snap \in 0..n /\ Due(js[j], snap)

LEMMA Walking ==
  ASSUME NEW js, NEW h, NEW m, NEW j, NEW n, NEW snap, NEW ks,
         CanWalk(js, h, m, j, n, snap), ks = WalkOn(js, j, snap)
  PROVE  /\ JobsOK(ks, h, n)
         /\ ks[j] = Next1(js[j], snap)
         /\ \A k \in Jobs \ {j} : ks[k] = js[k]
<1>0. /\ m \in Nat /\ n \in Nat /\ m <= n /\ JobsOK(js, h, m) /\ j \in Jobs /\ h = j
      /\ js[j].todo # <<>> /\ snap \in 0..n /\ Due(js[j], snap)
  BY DEF CanWalk
<1> DEFINE next == Next1(js[j], snap)
<1>1. /\ js[j] \in JobRecords /\ JobOK(js[j], m) /\ Shape(js[j]) /\ js[j].pc = "running"
      /\ js \in [Jobs -> JobRecords]
  <2>1. js[j] \in JobRecords /\ JobOK(js[j], m) /\ Shape(js[j]) /\ js[j].pc = "running"
    BY <1>0, JobParts
  <2> QED BY <1>0, <2>1 DEF JobsOK, JobsTyped
<1>3. next \in JobRecords /\ Shape(next)
  <2> DEFINE job == js[j]
  <2>1. /\ job \in JobRecords /\ Shape(job) /\ job.todo # <<>> /\ snap \in Nat
        /\ next = [job EXCEPT !.todo = Tail(@), !.snap = snap]
        /\ IF Head(job.todo)[1] = "snapshot" THEN snap # 0 ELSE snap = job.snap
    BY <1>0, <1>1 DEF Due, Next1
  <2> HIDE DEF job, next
  <2> QED BY <2>1, WalkShape
<1>4. /\ next.pc = js[j].pc /\ next.kind = js[j].kind /\ next.s = js[j].s /\ next.want = js[j].want
      /\ next.snap = snap
  BY <1>1 DEF JobRecords, Next1
<1> HIDE DEF next
<1>5. JobOK(next, n)
  BY <1>0, <1>1, <1>4 DEF JobOK
<1>6. Fits(next, j, h, n) /\ SameFor(Jobs \ {j}, h, h)
  BY <1>0, <1>1, <1>3, <1>4, <1>5 DEF Fits, SameFor
<1>7. ks = [js EXCEPT ![j] = next]
  BY DEF next, WalkOn
<1>8. JobsOK(ks, h, n)
  BY <1>0, <1>6, <1>7, OneJob
<1> QED BY <1>0, <1>1, <1>7, <1>8 DEF next

LEMMA NewJobType == NewJob \in JobRecords
<1>1. /\ 0 \in {0} \cup Props /\ 0 \in {0} \cup Contents /\ FALSE \in BOOLEAN
      /\ NoAsk \in Wants
  BY DEF NoAsk, Wants
<1>2. <<>> \in Seq(Entries)
  OBVIOUS
<1> QED BY <1>1, <1>2 DEF NewJob, JobRecords

LEMMA Ending ==
  ASSUME NEW m \in Nat, JobsOK(jobs, holder, m), NEW j \in Jobs, holder \in {j, NoJob}, Over(j)
  PROVE  JobsOK(jobs', NoJob, m)
<1> DEFINE next == [NewJob EXCEPT !.pc = "over"]
<1>1. /\ next \in JobRecords /\ next.pc = "over" /\ next.kind = "none" /\ next.snap = 0
  BY NewJobType DEF JobRecords, NewJob
<1>2. jobs' = [jobs EXCEPT ![j] = next]
  BY DEF Over
<1> HIDE DEF next
<1>3. JobOK(next, m)
  BY <1>1 DEF JobOK, Backed, Deploying
<1>4. NoJob # j /\ SameFor(Jobs \ {j}, holder, NoJob)
  BY DeploymentsAssumption DEF SameFor
<1>5. Fits(next, j, NoJob, m)
  BY <1>1, <1>3, <1>4 DEF Planned, Fits
<1>6. m <= m
  OBVIOUS
<1> QED BY <1>2, <1>4, <1>5, <1>6, OneJob

LEMMA Asking ==
  ASSUME NEW m \in Nat, JobsOK(jobs, holder, m), NEW j \in Jobs, NEW kind \in AnyKind,
         NEW s \in Services \cup {NoService}, NEW want \in Wants, NEW todo \in Seq(Entries),
         Asked(j, kind, s, want, todo),
         kind \in Backed \cup {"configure"} => s \in Services,
         kind \in Deploying => want.props # 0,
         \A job \in JobRecords :
           /\ job.kind = kind /\ job.s = s /\ job.snap = 0 /\ job.todo = todo
           /\ kind \notin Deploying \cup {"environment"}
           => Shape(job)
  PROVE  JobsOK(jobs', holder, m)
<1> DEFINE next == [NewJob EXCEPT !.pc = "asked", !.kind = kind, !.s = s, !.want = want, !.todo = todo]
<1>1. /\ next \in JobRecords /\ next.pc = "asked" /\ next.kind = kind /\ next.snap = 0
      /\ next.s = s /\ next.want = want /\ next.todo = todo
  BY NewJobType DEF JobRecords, NewJob
<1>2. jobs' = [jobs EXCEPT ![j] = next] /\ jobs[j].pc = "new"
  BY DEF Asked
<1> HIDE DEF next
<1>3. JobOK(next, m)
  BY <1>1 DEF JobOK
<1>4. holder # j /\ SameFor(Jobs \ {j}, holder, holder)
  BY <1>2, JobParts DEF SameFor
<1>5. Fits(next, j, holder, m)
  BY <1>1, <1>3, <1>4 DEF Planned, Fits
<1>6. m <= m
  OBVIOUS
<1> QED BY <1>2, <1>4, <1>5, <1>6, OneJob

LEMMA Beginning ==
  ASSUME NEW m \in Nat, JobsOK(jobs, holder, m), NEW j \in Jobs, NEW todo \in Seq(Entries),
         jobs[j].pc = "asked", holder = NoJob, Began(j, todo),
         \A job \in JobRecords :
           job.kind = jobs[j].kind /\ job.s = jobs[j].s /\ job.snap = 0 /\ job.todo = todo => Shape(job)
  PROVE  /\ JobsOK(jobs', j, m)
         /\ jobs'[j] = [jobs[j] EXCEPT !.pc = "running", !.todo = todo]
         /\ jobs'[j].todo = todo /\ jobs'[j].kind = jobs[j].kind /\ jobs'[j].s = jobs[j].s
         /\ jobs'[j].want = jobs[j].want /\ jobs'[j].snap = 0
<1> DEFINE next == [jobs[j] EXCEPT !.pc = "running", !.todo = todo]
<1>1. /\ jobs[j] \in JobRecords /\ JobOK(jobs[j], m) /\ jobs \in [Jobs -> JobRecords]
      /\ jobs[j].snap = 0
  BY JobParts DEF JobsOK, JobsTyped, Shaped
<1>2. /\ next \in JobRecords /\ next.pc = "running" /\ next.kind = jobs[j].kind /\ next.snap = 0
      /\ next.s = jobs[j].s /\ next.want = jobs[j].want /\ next.todo = todo
  BY <1>1 DEF JobRecords
<1>3. jobs' = [jobs EXCEPT ![j] = next]
  BY <1>1 DEF Began
<1> HIDE DEF next
<1>4. JobOK(next, m)
  BY <1>1, <1>2 DEF JobOK
<1>5. SameFor(Jobs \ {j}, holder, j)
  BY DeploymentsAssumption DEF SameFor
<1>6. Fits(next, j, j, m)
  BY <1>1, <1>2, <1>4 DEF Fits
<1>7. JobsOK(jobs', j, m)
  <2>1. m <= m
    OBVIOUS
  <2> QED BY <1>3, <1>5, <1>6, <2>1, OneJob
<1>8. jobs'[j] = next
  BY <1>1, <1>3
<1> QED BY <1>2, <1>7, <1>8 DEF next

----------------------------------------------------------------------------
(* What is known when a step is about to be walked.                             *)

LEMMA AtParts ==
  ASSUME Typed, Shaped(jobs), NEW j \in Jobs, NEW what, At(j, what)
  PROVE  /\ holder = j /\ holder # NoJob /\ JobsOK(jobs, holder, made) /\ made \in Nat
         /\ jobs[j] \in JobRecords /\ jobs[j].todo \in Seq(Entries) /\ jobs[j].todo # <<>>
         /\ Head(jobs[j].todo)[1] = what /\ Head(jobs[j].todo) = jobs[j].todo[1]
         /\ 1 \in DOMAIN jobs[j].todo
         /\ Shape(jobs[j]) /\ JobOK(jobs[j], made)
         /\ what \in Allowed(jobs[j].kind) /\ EntryOK(Head(jobs[j].todo), jobs[j].s)
         /\ jobs[j].want \in Wants /\ box \in Boxes
<1>1. holder = j /\ jobs[j].todo # <<>> /\ Head(jobs[j].todo)[1] = what
  BY DEF At
<1>2. JobsOK(jobs, holder, made) /\ made \in Nat /\ j # NoJob /\ box \in Boxes
  BY DeploymentsAssumption DEF JobsOK, Typed, BoxTyped
<1>3. jobs[j] \in JobRecords /\ jobs[j].todo \in Seq(Entries) /\ Shape(jobs[j])
      /\ JobOK(jobs[j], made) /\ jobs[j].want \in Wants
  BY <1>1, <1>2, JobParts
<1>4. Head(jobs[j].todo) = jobs[j].todo[1] /\ 1 \in DOMAIN jobs[j].todo
  BY <1>1, <1>3, TailParts
<1>5. jobs[j].todo[1][1] \in Allowed(jobs[j].kind) /\ EntryOK(jobs[j].todo[1], jobs[j].s)
  BY <1>3, <1>4 DEF Shape
<1> QED BY <1>1, <1>2, <1>3, <1>4, <1>5

LEMMA LeftTail ==
  ASSUME NEW S, NEW todo \in Seq(S), todo # <<>>
  PROVE  \A what : /\ Left(Tail(todo), what) => Left(todo, what)
                   /\ Left(todo, what) /\ what # Head(todo)[1] => Left(Tail(todo), what)
<1> DEFINE rest == Tail(todo)
<1>1. /\ Head(todo) = todo[1] /\ 1 \in DOMAIN todo
      /\ \A i \in DOMAIN rest : i + 1 \in DOMAIN todo /\ rest[i] = todo[i + 1]
      /\ \A k \in DOMAIN todo : k # 1 => k - 1 \in DOMAIN rest /\ rest[k - 1] = todo[k]
  BY TailParts
<1> HIDE DEF rest
<1>2. ASSUME NEW what, Left(rest, what)
      PROVE  Left(todo, what)
  BY <1>1, <1>2 DEF Left
<1>3. ASSUME NEW what, Left(todo, what), what # Head(todo)[1]
      PROVE  Left(rest, what)
  <2>1. PICK k \in DOMAIN todo : todo[k][1] = what
    BY <1>3 DEF Left
  <2>2. k # 1
    BY <1>1, <1>3, <2>1
  <2> QED BY <1>1, <2>1, <2>2 DEF Left
<1> QED BY <1>2, <1>3 DEF rest

\* In a deployment what comes first in order has been walked, and the rest has not.
LEMMA InOrder ==
  ASSUME NEW job \in JobRecords, Shape(job), job.todo # <<>>, job.kind \in Deploying,
         NEW what, Head(job.todo)[1] = what
  PROVE  /\ \A other \in Needed : Rank(what) < Rank(other) => Left(Tail(job.todo), other)
         /\ \A other : Rank(other) < Rank(what) => ~Left(job.todo, other)
         /\ what # "delete" => ~Left(Tail(job.todo), what)
<1> DEFINE todo == job.todo  rest == Tail(job.todo)
<1>1. /\ todo \in Seq(Entries) /\ Head(todo) = todo[1] /\ 1 \in DOMAIN todo
      /\ \A i \in DOMAIN rest : i + 1 \in DOMAIN todo /\ rest[i] = todo[i + 1]
      /\ \A k \in DOMAIN todo : k # 1 => k - 1 \in DOMAIN rest /\ rest[k - 1] = todo[k]
      /\ DOMAIN todo = 1..Len(todo) /\ Len(todo) \in Nat /\ DOMAIN rest = 1..Len(rest)
      /\ Len(rest) \in Nat
  BY TailParts DEF JobRecords
<1>2. Ordered(todo) /\ Whole(todo, Needed)
  BY DEF Shape, Backed
<1> HIDE DEF todo, rest
<1>3. ASSUME NEW other \in Needed, Rank(what) < Rank(other)
      PROVE  Left(rest, other)
  <2>1. PICK k \in DOMAIN todo : k > 1 /\ todo[k][1] = other
    BY <1>1, <1>2, <1>3 DEF Whole, todo
  <2>2. k # 1
    BY <1>1, <2>1
  <2> QED BY <1>1, <2>1, <2>2 DEF Left
<1>4. ASSUME NEW k \in DOMAIN todo, k # 1, what # "delete"
      PROVE  Rank(what) < Rank(todo[k][1])
  <2>1. 1 < k /\ todo[1][1] = what
    BY <1>1, <1>4 DEF todo
  <2> QED BY <1>1, <1>2, <1>4, <2>1 DEF Ordered
<1>5. ASSUME NEW other, Rank(other) < Rank(what), Left(todo, other)
      PROVE  FALSE
  <2>1. PICK k \in DOMAIN todo : todo[k][1] = other
    BY <1>5 DEF Left
  <2>2. Rank(what) \in 0..10 /\ Rank(other) \in 0..10
    BY RankType
  <2>3. what # "delete"
    <3>1. Rank("delete") = 0
      BY Ranks
    <3> QED BY <1>5, <2>2, <3>1
  <2>4. todo[1][1] = what
    BY <1>1 DEF todo
  <2>5. k # 1
    BY <1>5, <2>1, <2>2, <2>4
  <2>6. Rank(what) < Rank(other)
    BY <1>4, <2>1, <2>3, <2>5
  <2> QED BY <1>5, <2>2, <2>6
<1>6. ASSUME what # "delete", Left(rest, what)
      PROVE  FALSE
  <2>1. PICK i \in DOMAIN rest : rest[i][1] = what
    BY <1>6 DEF Left
  <2>2. i + 1 \in DOMAIN todo /\ i + 1 # 1 /\ todo[i + 1][1] = what
    BY <1>1, <2>1
  <2>3. Rank(what) < Rank(what) /\ Rank(what) \in 0..10
    BY <1>4, <1>6, <2>2, RankType
  <2> QED BY <2>3
<1> QED BY <1>3, <1>5, <1>6 DEF todo, rest

----------------------------------------------------------------------------
(* What a step does to the container.                                          *)

Untouching == snaps' = snaps /\ made' = made /\ holder' = holder /\ before' = before

\* A step of j leaves this record and these files of a service, and no other service
\* changes.
Leaves(j, t, record, files) ==
  /\ t \in Services /\ record \in AnyRecord /\ record.healthy \in 0..made /\ files \in FilesOnDisk
  /\ box' \in Boxes
  /\ box'.config = [box.config EXCEPT ![t] = record]
  /\ box'.disk = [box.disk EXCEPT ![t] = files]
  /\ Walked(j) /\ Untouching

SameLists == box'.index = box.index /\ box'.cut = box.cut

LEMMA LeavesParts ==
  ASSUME box \in Boxes, NEW j, NEW t, NEW record, NEW files, Leaves(j, t, record, files)
  PROVE  /\ box'.config[t] = record /\ box'.disk[t] = files
         /\ \A s \in Services \ {t} : box'.config[s] = box.config[s] /\ box'.disk[s] = box.disk[s]
BY DEF Leaves, Boxes

LEMMA Same ==
  ASSUME NEW f, f \in [Services -> FilesOnDisk] \/ f \in [Services -> AnyRecord], NEW t \in Services
  PROVE  [f EXCEPT ![t] = f[t]] = f
OBVIOUS

LEMMA FilesEffect ==
  ASSUME box \in Boxes, Within(box, made), NEW j \in Jobs, NEW what, NEW files \in FilesOnDisk,
         jobs[j].s \in Services, Files(j, what, files)
  PROVE  Leaves(j, jobs[j].s, box.config[jobs[j].s], files) /\ SameLists /\ faults' = faults
<1> DEFINE s == jobs[j].s
<1>1. box' = SetDisk(box, s, files) /\ Walked(j) /\ Untouching /\ faults' = faults
  BY DEF Files, Untouched, Untouching, SetDisk
<1>2. s \in Services
  OBVIOUS
<1> HIDE DEF s
<1>3. /\ box' \in Boxes /\ box'.index = box.index /\ box'.cut = box.cut
      /\ box'.config = box.config /\ box'.disk = [box.disk EXCEPT ![s] = files]
  BY <1>1, <1>2, DiskSet
<1>4. box.config[s] \in AnyRecord /\ box.config[s].healthy \in 0..made
  BY <1>2, BoxParts DEF Within
<1>5. [box.config EXCEPT ![s] = box.config[s]] = box.config
  BY <1>2, Same DEF Boxes
<1> QED BY <1>1, <1>2, <1>3, <1>4, <1>5 DEF Leaves, SameLists, s

LEMMA NoteEffect ==
  ASSUME box \in Boxes, NEW j \in Jobs, NEW what, NEW t \in Services, NEW record \in AnyRecord,
         record.healthy \in 0..made, Note(j, what, t, record)
  PROVE  Leaves(j, t, record, box.disk[t]) /\ SameLists /\ faults' = faults
<1>1. box' = SetConfig(box, t, record) /\ Walked(j) /\ Untouching /\ faults' = faults
  BY DEF Note, Untouched, Untouching, SetConfig
<1>2. /\ box' \in Boxes /\ box'.index = box.index /\ box'.cut = box.cut
      /\ box'.disk = box.disk /\ box'.config = [box.config EXCEPT ![t] = record]
  BY <1>1, ConfigSet
<1>3. box.disk[t] \in FilesOnDisk
  BY BoxParts
<1>4. [box.disk EXCEPT ![t] = box.disk[t]] = box.disk
  BY Same DEF Boxes
<1> QED BY <1>1, <1>2, <1>3, <1>4 DEF Leaves, SameLists

\* A record, the index and the services left halfway.
LEMMA ListsSet ==
  ASSUME NEW b \in Boxes, NEW s \in Services, NEW record \in AnyRecord,
         NEW index \in SUBSET Services, NEW cut \in SUBSET Services, NEW c,
         c = SetLists(b, s, record, index, cut)
  PROVE  /\ c \in Boxes /\ c.index = index /\ c.cut = cut /\ c.disk = b.disk
         /\ c.config = [b.config EXCEPT ![s] = record]
<1>1. [b.config EXCEPT ![s] = record] \in [Services -> AnyRecord]
  BY DEF Boxes
<1>2. c = [b EXCEPT !.config = [b.config EXCEPT ![s] = record], !.index = index, !.cut = cut]
  BY DEF SetLists
<1> QED BY <1>1, <1>2 DEF Boxes

LEMMA WrittenType ==
  ASSUME box \in Boxes, Within(box, made), NEW j \in Jobs, jobs[j].s \in Services,
         jobs[j].want \in Wants, NEW keys
  PROVE  /\ Written(j, keys) \in AnyRecord /\ Written(j, keys).healthy \in 0..made
         /\ "props" \in keys => Written(j, keys).props = jobs[j].want.props
         /\ "commit" \in keys => Written(j, keys).commit = Disk(j).code
<1>1. /\ Config(j) \in AnyRecord /\ Config(j).healthy \in 0..made
      /\ Disk(j).code \in 0..MaxCommits
      /\ jobs[j].want.props \in {0} \cup Props /\ jobs[j].want.more \in BOOLEAN
  BY BoxParts DEF Config, Disk, Within, FilesOnDisk, Wants
<1> QED BY <1>1 DEF Written, AnyRecord

\* The job that walks is the only one that changes.
Walks(j) ==
  /\ jobs'[j] \in JobRecords /\ jobs'[j].todo = Tail(jobs[j].todo) /\ jobs'[j].kind = jobs[j].kind
  /\ jobs'[j].s = jobs[j].s /\ jobs'[j].want = jobs[j].want
  /\ \A k \in Jobs \ {j} : jobs'[k] = jobs[k]

LEMMA WalkedJobs ==
  ASSUME Typed, Shaped(jobs), NEW j \in Jobs, NEW what, At(j, what), what # "snapshot",
         Walked(j), holder' = holder, made' = made
  PROVE  JobsOK(jobs', holder', made') /\ Walks(j) /\ jobs'[j].snap = jobs[j].snap
<1>1. /\ holder = j /\ JobsOK(jobs, holder, made) /\ made \in Nat /\ jobs[j] \in JobRecords
      /\ jobs[j].todo # <<>> /\ Head(jobs[j].todo)[1] = what /\ JobOK(jobs[j], made)
      /\ jobs[j].todo \in Seq(Entries)
  BY AtParts
<1>2. jobs[j].snap \in 0..made /\ made <= made
  BY <1>1 DEF JobOK
<1>3. jobs \in [Jobs -> JobRecords]
  BY <1>1 DEF JobsOK, JobsTyped
<1> DEFINE snap == jobs[j].snap
<1>4. jobs' = WalkOn(jobs, j, snap)
  <2> DEFINE x == [jobs[j] EXCEPT !.todo = Tail(@)]
  <2>1. x = Next1(jobs[j], snap)
    BY <1>1 DEF JobRecords, Next1
  <2>2. jobs' = [jobs EXCEPT ![j] = x]
    BY DEF Walked
  <2> QED BY <2>1, <2>2 DEF WalkOn
<1>5. /\ JobsOK(jobs', holder, made) /\ jobs'[j] = Next1(jobs[j], snap)
      /\ \A k \in Jobs \ {j} : jobs'[k] = jobs[k]
  <2>1. CanWalk(jobs, holder, made, j, made, snap)
    BY <1>1, <1>2 DEF CanWalk, Due
  <2> HIDE DEF snap
  <2> QED BY <1>4, <2>1, Walking
<1>6. JobsOK(jobs', holder', made')
  BY <1>5
<1>7. jobs'[j] \in JobRecords
  BY <1>1, <1>5, JobParts
<1> QED BY <1>1, <1>5, <1>6, <1>7 DEF Walks, JobRecords, Next1

LEMMA LeavesTyped ==
  ASSUME Typed, Shaped(jobs), NEW j \in Jobs, NEW what, At(j, what), what # "snapshot",
         NEW t, NEW record, NEW files, Leaves(j, t, record, files), faults' \in 0..MaxFaults
  PROVE  Typed' /\ Shaped(jobs') /\ Walks(j) /\ jobs'[j].snap = jobs[j].snap
<1>1. JobsOK(jobs', holder', made') /\ Walks(j) /\ jobs'[j].snap = jobs[j].snap
  BY WalkedJobs DEF Leaves, Untouching
<1>2. Within(box', made')
  <2>1. /\ box'.config = [box.config EXCEPT ![t] = record] /\ record.healthy \in 0..made
        /\ t \in Services /\ box.config \in [Services -> AnyRecord] /\ made' = made
        /\ \A s \in Services : box.config[s].healthy \in 0..made
    BY DEF Leaves, Typed, BoxTyped, Boxes, Within, Untouching
  <2> QED BY <2>1 DEF Within
<1>3. box' \in Boxes
  BY DEF Leaves
<1>4. /\ made' \in Nat /\ holder' \in Jobs \cup {NoJob} /\ SnapsTyped(snaps', made')
      /\ BeforeTyped(before', holder', made')
  BY DEF Leaves, Untouching, Typed
<1>5. JobsTyped(jobs', holder', made') /\ Shaped(jobs')
  BY <1>1 DEF JobsOK
<1>6. Typed'
  BY <1>2, <1>3, <1>4, <1>5 DEF Typed, BoxTyped
<1> QED BY <1>1, <1>5, <1>6

DeploySteps1 == {"fetch", "build", "unit", "start", "check", "remember", "mark", "healthy"}
DestroySteps == {"disable", "remove unit", "remove files", "forget", "index", "empty index"}

LEMMA AtKind ==
  ASSUME Typed, Shaped(jobs), NEW j \in Jobs, NEW what, At(j, what)
  PROVE  /\ what \in DeploySteps1 => jobs[j].kind \in Deploying
         /\ what \in DestroySteps => jobs[j].kind = "destroy"
         /\ what = "environment" => jobs[j].kind \in Deploying \cup {"environment"}
         /\ what = "restart" => jobs[j].kind = "environment"
         /\ what = "restore" => jobs[j].kind = "rollback"
         /\ what = "unset healthy" => jobs[j].kind = "removal"
         /\ what \in {"set deployed", "set props", "set more"} => jobs[j].kind = "configure"
         /\ what = "snapshot" => jobs[j].kind \in Backed
         /\ what = "delete" => jobs[j].kind \in Deploying \cup {"removal"}
<1>1. what \in Allowed(jobs[j].kind) /\ jobs[j].kind \in AnyKind \cup {"none"}
  BY AtParts DEF JobRecords
<1> DEFINE kind == jobs[j].kind
<1> HIDE DEF kind
<1>2. kind \in AnyKind \cup {"none"} /\ what \in Allowed(kind)
  BY <1>1 DEF kind
<1>3. kind \in Deploying \/ kind = "destroy" \/ kind = "environment" \/ kind = "rollback"
      \/ kind = "removal" \/ kind = "configure" \/ kind = "none"
  BY <1>2 DEF AnyKind, Backed
<1>4. Allowed("none") = {}
  BY DEF Allowed, Deploying
<1>5. CASE kind \in Deploying
  BY <1>2, <1>5, Deployed, ZenonT(40) DEF DeploySteps1, DestroySteps, Backed, kind
<1>6. CASE kind = "destroy"
  BY <1>2, <1>6, Deployed DEF DeploySteps1, DestroySteps, Backed, kind
<1>7. CASE kind = "environment"
  BY <1>2, <1>7, Deployed DEF DeploySteps1, DestroySteps, Backed, kind
<1>8. CASE kind = "rollback"
  BY <1>2, <1>8, Deployed DEF DeploySteps1, DestroySteps, Backed, kind
<1>9. CASE kind = "removal"
  BY <1>2, <1>9, Deployed DEF DeploySteps1, DestroySteps, Backed, kind
<1>10. CASE kind = "configure"
  BY <1>2, <1>10, Deployed DEF DeploySteps1, DestroySteps, Backed, kind
<1>11. CASE kind = "none"
  BY <1>2, <1>4, <1>11
<1> QED BY <1>3, <1>5, <1>6, <1>7, <1>8, <1>9, <1>10, <1>11

LEMMA LowRanks ==
  ASSUME NEW what, Rank(what) < 1
  PROVE  what = "delete"
<1>1. Rank(what) \in 0..10
  BY RankType
<1>2. Rank(what) = 0
  BY <1>1
<1>3. what # "delete" => Rank(what) # 0
  BY DEF Rank
<1> QED BY <1>2, <1>3

\* Nothing but deleting goes before the snapshot.
LEMMA BeforeSnapshot ==
  ASSUME Typed, Shaped(jobs), NEW j \in Jobs, NEW what, At(j, what), jobs[j].kind \in Backed
  PROVE  (jobs[j].snap = 0) <=> (what \in {"delete", "snapshot"})
<1> DEFINE todo == jobs[j].todo
<1>1. /\ Shape(jobs[j]) /\ 1 \in DOMAIN todo /\ todo[1][1] = what /\ todo \in Seq(Entries)
  BY AtParts
<1> HIDE DEF todo
<1>2. /\ Ordered(todo)
      /\ jobs[j].snap = 0 => Left(todo, "snapshot")
      /\ jobs[j].snap # 0 => \A i \in DOMAIN todo : todo[i][1] \notin {"delete", "snapshot"}
  BY <1>1 DEF Shape, todo
<1>3. ASSUME jobs[j].snap = 0
      PROVE  what \in {"delete", "snapshot"}
  <2>1. PICK k \in DOMAIN todo : todo[k][1] = "snapshot"
    BY <1>2, <1>3 DEF Left
  <2>2. CASE k = 1
    BY <1>1, <2>1, <2>2
  <2>3. CASE k # 1
    <3>1. 1 < k
      BY <1>1, <2>3
    <3>2. \/ Rank(what) < Rank("snapshot") \/ what = "delete"
      BY <1>1, <1>2, <2>1, <3>1 DEF Ordered
    <3>3. Rank("snapshot") = 1
      BY Ranks
    <3> QED BY <3>2, <3>3, LowRanks
  <2> QED BY <2>2, <2>3
<1> QED BY <1>1, <1>2, <1>3

LEMMA HasService ==
  ASSUME Typed, Shaped(jobs), NEW j \in Jobs, NEW what, At(j, what),
         jobs[j].kind \in Backed \cup {"configure"}
  PROVE  /\ jobs[j].s \in Services /\ Disk(j) \in FilesOnDisk /\ Config(j) \in AnyRecord
         /\ Config(j).healthy \in 0..made /\ box \in Boxes /\ Within(box, made)
         /\ Disk(j).code \in 0..MaxCommits /\ Disk(j).unit \in {0} \cup Props
<1>1. jobs[j].s \in Services /\ box \in Boxes /\ Within(box, made)
  BY AtParts DEF JobOK, Typed, BoxTyped
<1>2. box.config[jobs[j].s] \in AnyRecord /\ box.disk[jobs[j].s] \in FilesOnDisk
  BY <1>1, BoxParts
<1> QED BY <1>1, <1>2 DEF Disk, Config, Within, FilesOnDisk

\* What each step leaves of the files of its service.
FileNames == {"fetch", "environment", "build", "check", "unit", "start", "restart", "disable",
              "remove unit", "remove files"}
Filing(j, what, files) ==
  LET was == Disk(j) IN
  /\ what \in FileNames /\ At(j, what)
  /\ what \in {"build", "check"} => files = was
  /\ what = "environment" => files.unit = was.unit /\ files.code = was.code /\ files.runs = was.runs
  /\ what = "unit" => files.unit = jobs[j].want.props
  /\ what \in {"start", "restart"} => files = Fresh(was)
  /\ what = "restart" => was.unit # 0

FileStep(j) ==
  \/ Fetch(j) \/ WriteEnvironment(j) \/ Build(j) \/ WriteUnit(j) \/ Start(j) \/ Disable(j)
  \/ RemoveUnit(j) \/ RemoveFiles(j)

LEMMA FileSteps ==
  ASSUME Typed, Shaped(jobs), NEW j \in Jobs, FileStep(j)
  PROVE  /\ jobs[j].kind \in Backed /\ jobs[j].s \in Services
         /\ \E what, files :
              /\ Filing(j, what, files)
              /\ Leaves(j, jobs[j].s, box.config[jobs[j].s], files) /\ SameLists /\ faults' = faults
<1>1. ASSUME NEW what \in FileNames, At(j, what)
      PROVE  jobs[j].kind \in Backed
  BY <1>1, AtKind DEF FileNames, DeploySteps1, DestroySteps, Backed, Deploying
<1>2. ASSUME NEW what \in FileNames, NEW files, At(j, what), Files(j, what, files),
             Disk(j) \in FilesOnDisk => files \in FilesOnDisk,
             Filing(j, what, files)
      PROVE  /\ jobs[j].kind \in Backed /\ jobs[j].s \in Services
             /\ Filing(j, what, files)
             /\ Leaves(j, jobs[j].s, box.config[jobs[j].s], files) /\ SameLists /\ faults' = faults
  <2>1. /\ jobs[j].kind \in Backed /\ jobs[j].s \in Services /\ Disk(j) \in FilesOnDisk
        /\ box \in Boxes /\ Within(box, made)
    BY <1>1, <1>2, HasService
  <2> QED BY <1>2, <2>1, FilesEffect
<1>3. Disk(j) \in FilesOnDisk =>
        /\ Disk(j).code \in 0..MaxCommits /\ Disk(j).unit \in {0} \cup Props
        /\ Disk(j).env \in {0} \cup Contents
        /\ Disk(j).runs \in ({0} \cup Props) \X (0..MaxCommits)
        /\ <<0, 0>> \in ({0} \cup Props) \X (0..MaxCommits)
        /\ 0 \in 0..MaxCommits
  BY DeploymentsAssumption DEF FilesOnDisk
<1>4. ASSUME NEW what, At(j, what), what \in FileNames
      PROVE  /\ jobs[j].want.env \in {0} \cup Contents /\ jobs[j].want.props \in {0} \cup Props
             /\ Disk(j) \in FilesOnDisk
  <2>1. jobs[j].want \in Wants
    BY <1>4, AtParts
  <2> QED BY <1>1, <1>4, <2>1, HasService DEF Wants
<1>5. CASE Fetch(j)
  <2>1. PICK c \in 1..MaxCommits : Files(j, "fetch", [Disk(j) EXCEPT !.code = c])
    BY <1>5 DEF Fetch
  <2> DEFINE files == [Disk(j) EXCEPT !.code = c]
  <2>2. At(j, "fetch") /\ "fetch" \in FileNames
    BY <2>1 DEF Files, FileNames
  <2>3. Disk(j) \in FilesOnDisk => files \in FilesOnDisk
    BY <1>3 DEF FilesOnDisk
  <2>4. Filing(j, "fetch", files)
    BY <2>2 DEF Filing
  <2> QED BY <1>2, <2>1, <2>2, <2>3, <2>4
<1>6. CASE WriteEnvironment(j)
  <2> DEFINE files == [Disk(j) EXCEPT !.env = jobs[j].want.env]
  <2>1. Files(j, "environment", files) /\ At(j, "environment") /\ "environment" \in FileNames
    BY <1>6 DEF WriteEnvironment, FileNames
  <2>2. Disk(j) \in FilesOnDisk
    BY <1>4, <2>1
  <2>3. /\ files \in FilesOnDisk /\ files.unit = Disk(j).unit /\ files.code = Disk(j).code
        /\ files.runs = Disk(j).runs
    BY <1>4, <2>1, <2>2 DEF FilesOnDisk
  <2>4. Filing(j, "environment", files)
    <3> HIDE DEF files
    <3> QED BY <2>1, <2>3 DEF Filing
  <2> QED BY <1>2, <2>1, <2>3, <2>4
<1>7. CASE Build(j)
  <2>1. PICK what \in {"build", "check"} : Files(j, what, Disk(j))
    BY <1>7 DEF Build
  <2>2. At(j, what) /\ what \in FileNames
    BY <2>1 DEF Files, FileNames
  <2>3. Filing(j, what, Disk(j))
    BY <2>1, <2>2 DEF Filing
  <2> QED BY <1>2, <2>1, <2>2, <2>3
<1>8. CASE WriteUnit(j)
  <2> DEFINE files == [Disk(j) EXCEPT !.unit = jobs[j].want.props]
  <2>1. Files(j, "unit", files) /\ At(j, "unit") /\ "unit" \in FileNames
    BY <1>8 DEF WriteUnit, Files, FileNames
  <2>2. Disk(j) \in FilesOnDisk
    BY <1>4, <2>1
  <2>3. files \in FilesOnDisk /\ files.unit = jobs[j].want.props
    BY <1>4, <2>1, <2>2 DEF FilesOnDisk
  <2>4. Filing(j, "unit", files)
    <3> HIDE DEF files
    <3> QED BY <2>1, <2>3 DEF Filing
  <2> QED BY <1>2, <2>1, <2>3, <2>4
<1>9. CASE Start(j)
  <2>1. PICK what \in {"start", "restart"} :
          /\ At(j, what) /\ Files(j, what, Fresh(Disk(j))) /\ (what = "restart" => Disk(j).unit # 0)
    BY <1>9 DEF Start, At
  <2>2. what \in FileNames /\ Disk(j) \in FilesOnDisk
    BY <1>4, <2>1 DEF FileNames
  <2>3. Fresh(Disk(j)) \in FilesOnDisk
    BY <2>2, FreshType
  <2>4. Filing(j, what, Fresh(Disk(j)))
    BY <2>1, <2>2 DEF Filing
  <2> QED BY <1>2, <2>1, <2>2, <2>3, <2>4
<1>10. CASE Disable(j)
  <2> DEFINE files == [Disk(j) EXCEPT !.runs = <<0, 0>>]
  <2>1. Files(j, "disable", files) /\ At(j, "disable") /\ "disable" \in FileNames
    BY <1>10 DEF Disable, Files, FileNames
  <2>2. Disk(j) \in FilesOnDisk => files \in FilesOnDisk
    BY <1>3 DEF FilesOnDisk
  <2>3. Filing(j, "disable", files)
    BY <2>1 DEF Filing
  <2> QED BY <1>2, <2>1, <2>2, <2>3
<1>11. CASE RemoveUnit(j)
  <2> DEFINE files == [Disk(j) EXCEPT !.unit = 0]
  <2>1. Files(j, "remove unit", files) /\ At(j, "remove unit") /\ "remove unit" \in FileNames
    BY <1>11 DEF RemoveUnit, Files, FileNames
  <2>2. Disk(j) \in FilesOnDisk => files \in FilesOnDisk
    BY <1>3 DEF FilesOnDisk
  <2>3. Filing(j, "remove unit", files)
    BY <2>1 DEF Filing
  <2> QED BY <1>2, <2>1, <2>2, <2>3
<1>12. CASE RemoveFiles(j)
  <2> DEFINE files == [Disk(j) EXCEPT !.code = 0, !.env = 0]
  <2>1. Files(j, "remove files", files) /\ At(j, "remove files") /\ "remove files" \in FileNames
    BY <1>12 DEF RemoveFiles, Files, FileNames
  <2>2. Disk(j) \in FilesOnDisk => files \in FilesOnDisk
    BY <1>3 DEF FilesOnDisk
  <2>3. Filing(j, "remove files", files)
    BY <2>1 DEF Filing
  <2> QED BY <1>2, <2>1, <2>2, <2>3
<1> QED BY <1>5, <1>6, <1>7, <1>8, <1>9, <1>10, <1>11, <1>12 DEF FileStep

\* What each step leaves of the record of a service.
MarkSteps ==
  {"mark", "healthy", "forget", "unset healthy", "set deployed", "set props", "set more", "remember"}

Healthier(j, what, t, record) ==
  IF what = "healthy" THEN t = jobs[j].s /\ record.healthy = jobs[j].snap
  ELSE record.healthy \in {box.config[t].healthy, 0}

Marking(j, what, t, record) ==
  /\ what \in MarkSteps /\ At(j, what)
  /\ what # "unset healthy" => t = jobs[j].s
  /\ Healthier(j, what, t, record)
  /\ Leaves(j, t, record, box.disk[t]) /\ faults' \in 0..MaxFaults

LEMMA MarkingTyped ==
  ASSUME Typed, Shaped(jobs), NEW j \in Jobs, NEW what, NEW t, NEW record, Marking(j, what, t, record)
  PROVE  Typed' /\ Shaped(jobs') /\ Walks(j) /\ jobs'[j].snap = jobs[j].snap
<1>1. At(j, what) /\ what # "snapshot" /\ Leaves(j, t, record, box.disk[t]) /\ faults' \in 0..MaxFaults
  BY DEF Marking, MarkSteps
<1> QED BY <1>1, LeavesTyped

LEMMA MarkEffect ==
  ASSUME Typed, Shaped(jobs), NEW j \in Jobs, MarkDeployed(j)
  PROVE  LET s == jobs[j].s  record == [Config(j) EXCEPT !.deployed = Fingerprint(box, s)] IN
         Marking(j, "mark", s, record) /\ SameLists
<1> DEFINE s == jobs[j].s  record == [Config(j) EXCEPT !.deployed = Fingerprint(box, s)]
<1>1. At(j, "mark") /\ Note(j, "mark", s, record)
  BY DEF MarkDeployed, Note
<1>2. jobs[j].kind \in Backed
  BY <1>1, AtKind DEF DeploySteps1, Backed
<1>3. /\ s \in Services /\ Config(j) \in AnyRecord /\ Config(j).healthy \in 0..made /\ box \in Boxes
      /\ Fingerprint(box, s) \in Fingerprints
  BY <1>1, <1>2, HasService, BoxParts
<1>4. record \in AnyRecord /\ record.healthy = Config(j).healthy
  BY <1>3 DEF AnyRecord
<1>5. Leaves(j, s, record, box.disk[s]) /\ SameLists /\ faults' = faults
  <2> HIDE DEF record, s
  <2> QED BY <1>1, <1>3, <1>4, NoteEffect
<1>6. Healthier(j, "mark", s, record)
  <2> HIDE DEF record
  <2> QED BY <1>4 DEF Healthier, Config
<1> QED BY <1>1, <1>5, <1>6 DEF Marking, MarkSteps, Typed

LEMMA HealthyEffect ==
  ASSUME Typed, Shaped(jobs), NEW j \in Jobs, MarkHealthy(j)
  PROVE  LET s == jobs[j].s  record == [Config(j) EXCEPT !.healthy = jobs[j].snap] IN
         Marking(j, "healthy", s, record) /\ SameLists
<1> DEFINE s == jobs[j].s  record == [Config(j) EXCEPT !.healthy = jobs[j].snap]
<1>1. At(j, "healthy") /\ Note(j, "healthy", s, record)
  BY DEF MarkHealthy, Note
<1>2. jobs[j].kind \in Backed
  BY <1>1, AtKind DEF DeploySteps1, Backed
<1>3. s \in Services /\ Config(j) \in AnyRecord /\ box \in Boxes
  BY <1>1, <1>2, HasService
<1>4. jobs[j].snap \in Nat /\ jobs[j].snap \in 0..made
  BY <1>1, AtParts DEF JobOK, JobRecords
<1>5. record \in AnyRecord /\ record.healthy = jobs[j].snap
  BY <1>3, <1>4 DEF AnyRecord
<1>6. Leaves(j, s, record, box.disk[s]) /\ SameLists /\ faults' = faults
  <2> HIDE DEF record, s
  <2> QED BY <1>1, <1>3, <1>4, <1>5, NoteEffect
<1>7. Healthier(j, "healthy", s, record)
  <2> HIDE DEF record
  <2> QED BY <1>5 DEF Healthier
<1> QED BY <1>1, <1>6, <1>7 DEF Marking, MarkSteps, Typed

LEMMA WithoutType ==
  ASSUME NEW j, NEW keys, Config(j) \in AnyRecord
  PROVE  Without(j, keys) \in AnyRecord /\ Without(j, keys).healthy \in {Config(j).healthy, 0}
<1>1. 0 \in {0} \cup Props /\ 0 \in 0..MaxCommits /\ <<>> \in Fingerprints /\ FALSE \in BOOLEAN
  BY DeploymentsAssumption DEF Fingerprints
<1> QED BY <1>1 DEF Without, AnyRecord

LEMMA ForgetEffect ==
  ASSUME Typed, Shaped(jobs), NEW j \in Jobs, Forget(j) \/ ForgetSome(j)
  PROVE  \E record : Marking(j, "forget", jobs[j].s, record) /\ SameLists
<1> DEFINE s == jobs[j].s
<1>1. PICK keys : /\ At(j, "forget") /\ box' = SetConfig(box, s, Without(j, keys))
                  /\ Walked(j) /\ Untouching /\ faults' \in {faults, faults + 1}
                  /\ faults' # faults => faults < MaxFaults
  <2>1. CASE Forget(j)
    BY <2>1 DEF Forget, Note, SetConfig, Untouched, Untouching
  <2>2. CASE ForgetSome(j)
    BY <2>2 DEF ForgetSome, SetConfig, Untouching
  <2> QED BY <2>1, <2>2
<1>2. jobs[j].kind \in Backed
  BY <1>1, AtKind DEF DestroySteps, Backed
<1>3. s \in Services /\ Config(j) \in AnyRecord /\ Config(j).healthy \in 0..made /\ box \in Boxes
  BY <1>1, <1>2, HasService
<1> DEFINE record == Without(j, keys)
<1>4. record \in AnyRecord /\ record.healthy \in {Config(j).healthy, 0}
  BY <1>3, WithoutType
<1> HIDE DEF record
<1>5. record.healthy \in 0..made /\ made \in Nat
  BY <1>3, <1>4 DEF Typed
<1>6. /\ box' \in Boxes /\ box'.index = box.index /\ box'.cut = box.cut
      /\ box'.disk = box.disk /\ box'.config = [box.config EXCEPT ![s] = record]
  <2>1. box' = SetConfig(box, s, record)
    BY <1>1 DEF record
  <2> HIDE DEF s
  <2> QED BY <1>3, <1>4, <2>1, ConfigSet
<1>7. box.disk[s] \in FilesOnDisk /\ [box.disk EXCEPT ![s] = box.disk[s]] = box.disk
  BY <1>3, BoxParts, Same DEF Boxes
<1>8. Leaves(j, s, record, box.disk[s]) /\ SameLists
  BY <1>1, <1>3, <1>4, <1>5, <1>6, <1>7 DEF Leaves, SameLists
<1>9. faults' \in 0..MaxFaults
  BY <1>1, DeploymentsAssumption DEF Typed
<1>10. Healthier(j, "forget", s, record)
  BY <1>4 DEF Healthier, Config
<1> QED BY <1>1, <1>8, <1>9, <1>10 DEF Marking, MarkSteps

LEMMA ForgetHealthyEffect ==
  ASSUME Typed, Shaped(jobs), NEW j \in Jobs, ForgetHealthy(j)
  PROVE  \E t \in Services : \E record :
           /\ Marking(j, "unset healthy", t, record) /\ SameLists
           /\ record = [box.config[t] EXCEPT !.healthy = 0]
<1> DEFINE t == Arg(j)  record == [box.config[t] EXCEPT !.healthy = 0]
<1>1. At(j, "unset healthy") /\ Note(j, "unset healthy", t, record)
  BY DEF ForgetHealthy
<1>2. t \in Services
  BY <1>1, AtParts DEF EntryOK, Arg
<1>3. box \in Boxes /\ made \in Nat
  BY DEF Typed, BoxTyped
<1>4. box.config[t] \in AnyRecord
  BY <1>2, <1>3, BoxParts
<1>5. record \in AnyRecord /\ record.healthy = 0
  BY <1>4 DEF AnyRecord
<1>6. Leaves(j, t, record, box.disk[t]) /\ SameLists /\ faults' = faults
  <2>1. record.healthy \in 0..made
    BY <1>3, <1>5
  <2> HIDE DEF record, t
  <2> QED BY <1>1, <1>2, <1>3, <1>5, <2>1, NoteEffect
<1>7. Healthier(j, "unset healthy", t, record)
  <2> HIDE DEF record, t
  <2> QED BY <1>5 DEF Healthier
<1>8. Marking(j, "unset healthy", t, record)
  <2> HIDE DEF record, t
  <2> QED BY <1>1, <1>6, <1>7 DEF Marking, MarkSteps, Typed
<1> QED BY <1>2, <1>6, <1>8

CutIf(right, s) == IF right THEN box.cut ELSE box.cut \cup {s}

\* Saving a property changes what a service runs by its record only if the plan of it
\* is no longer right.
LEMMA SaveRecord ==
  ASSUME NEW j \in Jobs, NEW what, NEW record \in AnyRecord, NEW right \in BOOLEAN, NEW s,
         s = jobs[j].s, s \in Services, box \in Boxes, Within(box, made),
         Save(j, what, record, right)
  PROVE  /\ At(j, what) /\ box'.index = box.index
         /\ box'.cut = CutIf(right, s)
         /\ record.healthy \in 0..made => Leaves(j, s, record, box.disk[s])
         /\ faults' = faults
<1> DEFINE cut == CutIf(right, s)
<1>1. /\ At(j, what) /\ Walked(j) /\ Untouching /\ faults' = faults
      /\ box' = [box EXCEPT !.config[s] = record, !.cut = cut]
  BY DEF Save, Untouched, Untouching, CutIf
<1>2. cut \in SUBSET Services /\ box.index \in SUBSET Services
  BY DEF Boxes, CutIf
<1> HIDE DEF cut
<1>3. box' = SetLists(box, s, record, box.index, cut)
  BY <1>1 DEF SetLists, Boxes
<1>4. /\ box' \in Boxes /\ box'.index = box.index /\ box'.cut = cut /\ box'.disk = box.disk
      /\ box'.config = [box.config EXCEPT ![s] = record]
  BY <1>2, <1>3, ListsSet
<1>5. box.disk[s] \in FilesOnDisk /\ [box.disk EXCEPT ![s] = box.disk[s]] = box.disk
  BY BoxParts, Same DEF Boxes
<1> QED BY <1>1, <1>4, <1>5 DEF Leaves, cut

SavedAs(j, what, record, right) ==
  /\ Marking(j, what, jobs[j].s, record) /\ box'.index = box.index
  /\ what \in {"set deployed", "set props", "set more"}
  /\ box'.cut = CutIf(right, jobs[j].s)
  /\ record.commit = Config(j).commit
  /\ right => Running(record) = Running(Config(j))

LEMMA SaveEffect ==
  ASSUME Typed, Shaped(jobs), NEW j \in Jobs, SaveProperty(j)
  PROVE  /\ jobs[j].kind = "configure" /\ jobs[j].s \in Services
         /\ \E what, record, right : SavedAs(j, what, record, right)
<1> DEFINE s == jobs[j].s
<1>1. PICK what \in {"set deployed", "set props", "set more"} : At(j, what)
  BY DEF SaveProperty
<1>2. jobs[j].kind = "configure"
  BY <1>1, AtKind
<1>3. /\ s \in Services /\ Config(j) \in AnyRecord /\ Config(j).healthy \in 0..made
      /\ box \in Boxes /\ Within(box, made) /\ Config(j) = box.config[s]
  BY <1>1, <1>2, HasService DEF Config
<1>4. ASSUME NEW how \in {"set deployed", "set props", "set more"},
             NEW record \in AnyRecord, NEW right \in BOOLEAN,
             Save(j, how, record, right), record.healthy = Config(j).healthy,
             record.commit = Config(j).commit, right => Running(record) = Running(Config(j))
      PROVE  SavedAs(j, how, record, right)
  <2>1. record.healthy \in 0..made /\ s = jobs[j].s
    BY <1>3, <1>4
  <2> HIDE DEF s
  <2>2. /\ At(j, how) /\ box'.index = box.index
        /\ box'.cut = CutIf(right, s)
        /\ Leaves(j, s, record, box.disk[s]) /\ faults' = faults
    <3>1. Save(j, how, record, right)
      BY <1>4
    <3> QED BY <1>3, <2>1, <3>1, SaveRecord, ZenonT(40)
  <2>3. Marking(j, how, s, record)
    BY <1>3, <1>4, <2>1, <2>2 DEF Marking, MarkSteps, Healthier, Typed
  <2> QED BY <1>4, <2>1, <2>2, <2>3 DEF SavedAs
<1>5. /\ what = "set deployed" => Arg(j) \in Fingerprints
      /\ what = "set props" => Arg(j) \in {0} \cup Props
      /\ what = "set more" => Arg(j) \in BOOLEAN
  BY <1>1, AtParts DEF EntryOK, Arg
<1>6. CASE what = "set deployed"
  <2> DEFINE record == [Config(j) EXCEPT !.deployed = Arg(j)]  right == Arg(j) = Mark(j)
  <2>1. Save(j, "set deployed", record, right)
    BY <1>1, <1>6 DEF SaveProperty, At
  <2>2. /\ record \in AnyRecord /\ record.healthy = Config(j).healthy /\ right \in BOOLEAN
        /\ record.commit = Config(j).commit /\ record.deployed = Arg(j)
        /\ record.props = Config(j).props
    BY <1>3, <1>5, <1>6 DEF AnyRecord
  <2>3. right => Running(record) = Running(Config(j))
    <3>1. Fingerprint(box, s) # <<>> /\ Fingerprint(box, s)[1] = Config(j).props
      BY <1>3, BoxParts
    <3> HIDE DEF record
    <3> QED BY <1>3, <2>2, <3>1 DEF Mark, Running
  <2> HIDE DEF record, right
  <2>4. SavedAs(j, "set deployed", record, right)
    BY <1>4, <2>1, <2>2, <2>3
  <2> QED BY <1>2, <1>3, <2>4
<1>7. CASE what = "set props"
  <2> DEFINE record == [Config(j) EXCEPT !.props = Arg(j)]  right == Config(j).deployed # <<>>
  <2>1. Save(j, "set props", record, right)
    BY <1>1, <1>7 DEF SaveProperty, At
  <2>2. /\ record \in AnyRecord /\ record.healthy = Config(j).healthy /\ right \in BOOLEAN
        /\ record.commit = Config(j).commit /\ record.deployed = Config(j).deployed
    BY <1>3, <1>5, <1>7 DEF AnyRecord
  <2>3. right => Running(record) = Running(Config(j))
    <3> HIDE DEF record
    <3> QED BY <2>2 DEF Running
  <2> HIDE DEF record, right
  <2>4. SavedAs(j, "set props", record, right)
    BY <1>4, <2>1, <2>2, <2>3
  <2> QED BY <1>2, <1>3, <2>4
<1>8. CASE what = "set more"
  <2> DEFINE record == [Config(j) EXCEPT !.more = Arg(j)]  right == Config(j).deployed # <<>>
  <2>1. Save(j, "set more", record, right)
    BY <1>1, <1>8 DEF SaveProperty, At
  <2>2. /\ record \in AnyRecord /\ record.healthy = Config(j).healthy /\ right \in BOOLEAN
        /\ record.commit = Config(j).commit /\ record.deployed = Config(j).deployed
    BY <1>3, <1>5, <1>8 DEF AnyRecord
  <2>3. right => Running(record) = Running(Config(j))
    <3> HIDE DEF record
    <3> QED BY <2>2 DEF Running
  <2> HIDE DEF record, right
  <2>4. SavedAs(j, "set more", record, right)
    BY <1>4, <2>1, <2>2, <2>3
  <2> QED BY <1>2, <1>3, <2>4
<1> QED BY <1>1, <1>6, <1>7, <1>8

LEMMA RememberEffect ==
  ASSUME Typed, Shaped(jobs), NEW j \in Jobs, Remember(j)
  PROVE  LET s == jobs[j].s IN
         \E keys :
           /\ Marking(j, "remember", s, Written(j, keys)) /\ "props" \in keys
           /\ box'.index = box.index \cup {s}
           /\ box'.cut = IF "commit" \in keys THEN box.cut \ {s} ELSE box.cut \cup {s}
<1> DEFINE s == jobs[j].s
<1>1. PICK keys : /\ At(j, "remember") /\ Walked(j) /\ Untouching /\ "props" \in keys
                  /\ box' = Enrolled(j, keys) /\ faults' \in {faults, faults + 1}
                  /\ faults' # faults => faults < MaxFaults
  <2>1. At(j, "remember") /\ Walked(j) /\ Untouching
    BY DEF Remember, Untouching
  <2>2. CASE box' = Enrolled(j, {"props", "more", "commit"}) /\ faults' = faults
    BY <2>1, <2>2
  <2>3. CASE box' = Enrolled(j, {"props", "more"}) /\ faults' = faults + 1 /\ faults < MaxFaults
    BY <2>1, <2>3
  <2> QED BY <2>2, <2>3 DEF Remember
<1>2. jobs[j].kind \in Backed
  BY <1>1, AtKind DEF DeploySteps1, Backed
<1>3. /\ s \in Services /\ box \in Boxes /\ Within(box, made) /\ jobs[j].want \in Wants
      /\ Config(j) = box.config[s]
  BY <1>1, <1>2, HasService, AtParts DEF Config
<1>4. /\ Written(j, keys) \in AnyRecord /\ Written(j, keys).healthy \in 0..made
  BY <1>3, WrittenType
<1>5. Written(j, keys).healthy = Config(j).healthy
  BY <1>3, BoxParts DEF Written, AnyRecord
<1> DEFINE record == Written(j, keys)
           cut == IF "commit" \in keys THEN box.cut \ {s} ELSE box.cut \cup {s}
           index == box.index \cup {s}
<1>6. cut \in SUBSET Services /\ index \in SUBSET Services
  BY <1>3 DEF Boxes
<1>7. box' = SetLists(box, s, record, index, cut)
  BY <1>1, <1>3 DEF Enrolled, SetLists, Boxes
<1> HIDE DEF record, cut, index
<1>8. /\ box' \in Boxes /\ box'.index = index /\ box'.cut = cut /\ box'.disk = box.disk
      /\ box'.config = [box.config EXCEPT ![s] = record]
  <2>1. record \in AnyRecord
    BY <1>4 DEF record
  <2> HIDE DEF s
  <2> QED BY <1>3, <1>6, <1>7, <2>1, ListsSet
<1>9. box.disk[s] \in FilesOnDisk /\ [box.disk EXCEPT ![s] = box.disk[s]] = box.disk
  BY <1>3, BoxParts, Same DEF Boxes
<1>10. Leaves(j, s, record, box.disk[s])
  BY <1>1, <1>3, <1>4, <1>8, <1>9 DEF Leaves, record
<1>11. faults' \in 0..MaxFaults
  BY <1>1, DeploymentsAssumption DEF Typed
<1>12. Marking(j, "remember", s, record)
  BY <1>1, <1>3, <1>5, <1>10, <1>11 DEF Marking, MarkSteps, Healthier, record
<1> QED BY <1>1, <1>8, <1>12 DEF record, cut, index

\* The services that are listed and whole, but for one.
OthersKept(t) ==
  \A s \in Services \ {t} : s \in box'.index \ box'.cut => s \in box.index \ box.cut

LEMMA IndexEffect ==
  ASSUME Typed, Shaped(jobs), NEW j \in Jobs, WriteIndex(j)
  PROVE  /\ jobs[j].kind = "destroy" /\ jobs[j].s \in Services
         /\ \E what \in Listing : At(j, what)
         /\ Leaves(j, jobs[j].s, box.config[jobs[j].s], box.disk[jobs[j].s]) /\ faults' = faults
         /\ OthersKept(jobs[j].s) /\ jobs[j].s \notin box'.index
<1> DEFINE s == jobs[j].s
<1>1. PICK what \in Listing : At(j, what)
  BY DEF WriteIndex, Listing
<1>2. jobs[j].kind = "destroy"
  BY <1>1, AtKind DEF DestroySteps, Listing
<1>3. /\ s \in Services /\ box \in Boxes /\ Within(box, made)
      /\ Config(j) = box.config[s] /\ Config(j) \in AnyRecord /\ Config(j).healthy \in 0..made
      /\ Disk(j) = box.disk[s] /\ Disk(j) \in FilesOnDisk
  BY <1>1, <1>2, HasService DEF Config, Disk, Backed
<1>4. At(j, "index") => Arg(j) \subseteq Services \ {s}
  BY AtParts DEF EntryOK, Arg
<1> DEFINE remaining == IF At(j, "index") THEN Arg(j) ELSE {}
           cut == (IF Config(j) = NoRecord THEN box.cut \ {s} ELSE box.cut \cup {s})
                  \cup (remaining \ box.index)
<1>5. remaining \subseteq Services \ {s}
  BY <1>4
<1>6. cut \in SUBSET Services /\ remaining \in SUBSET Services
  BY <1>3, <1>5 DEF Boxes
<1>7. /\ box' = [box EXCEPT !.index = remaining, !.cut = cut]
      /\ Walked(j) /\ Untouching /\ faults' = faults
  BY DEF WriteIndex, Untouched, Untouching
<1>8. \A t \in Services \ {s} : t \in remaining \ cut => t \in box.index \ box.cut
  OBVIOUS
<1> HIDE DEF remaining, cut, s
<1>9. /\ box'.index = remaining /\ box'.cut = cut /\ box'.config = box.config
      /\ box'.disk = box.disk /\ box' \in Boxes
  BY <1>3, <1>6, <1>7 DEF Boxes
<1>10. /\ [box.config EXCEPT ![s] = box.config[s]] = box.config
       /\ [box.disk EXCEPT ![s] = box.disk[s]] = box.disk
  BY <1>3, Same DEF Boxes
<1>11. Leaves(j, s, box.config[s], box.disk[s])
  BY <1>3, <1>7, <1>9, <1>10 DEF Leaves
<1>12. OthersKept(s) /\ s \notin box'.index
  BY <1>5, <1>8, <1>9 DEF OthersKept
<1> QED BY <1>1, <1>2, <1>3, <1>7, <1>11, <1>12 DEF s

\* What a container is once it is back where it was.
Back(b) == [b EXCEPT !.disk = [s \in Services |-> Fresh(b.disk[s])]]

LEMMA BackParts ==
  ASSUME NEW b \in Boxes, NEW c, c = Back(b)
  PROVE  /\ c \in Boxes /\ c.index = b.index /\ c.cut = b.cut /\ c.config = b.config
         /\ \A s \in Services : c.disk[s] = Fresh(b.disk[s])
<1> DEFINE disk == [s \in Services |-> Fresh(b.disk[s])]
<1>1. ASSUME NEW s \in Services
      PROVE  Fresh(b.disk[s]) \in FilesOnDisk
  <2>1. b.disk[s] \in FilesOnDisk
    BY DEF Boxes
  <2> HIDE DEF Fresh
  <2> QED BY <2>1, FreshType
<1>2. disk \in [Services -> FilesOnDisk] /\ \A s \in Services : disk[s] = Fresh(b.disk[s])
  BY <1>1
<1>3. c = [b EXCEPT !.disk = disk]
  BY DEF Back
<1> HIDE DEF disk
<1> QED BY <1>2, <1>3 DEF Boxes

LEMMA RestoreEffect ==
  ASSUME Typed, Shaped(jobs), NEW j \in Jobs, Restore(j)
  PROVE  /\ jobs[j].kind = "rollback" /\ Walks(j) /\ jobs'[j].snap = jobs[j].snap
         /\ Typed' /\ Shaped(jobs') /\ Untouching /\ faults' = faults /\ holder = j
         /\ \E n \in DOMAIN snaps : box' = Back(snaps[n].box) /\ snaps[n].box \in Boxes
<1> DEFINE n == Arg(j)
<1>1. /\ At(j, "restore") /\ n \in DOMAIN snaps /\ Walked(j) /\ Untouching /\ faults' = faults
      /\ box' = Back(snaps[n].box)
  BY DEF Restore, Untouched, Untouching, Back
<1> HIDE DEF n
<1>2. jobs[j].kind = "rollback" /\ holder = j
  BY <1>1, AtKind, AtParts
<1>3. snaps[n] \in Snapshots /\ Within(snaps[n].box, made)
  BY <1>1 DEF Typed, SnapsTyped
<1>4. snaps[n].box \in Boxes
  BY <1>3 DEF Snapshots
<1>5. box' \in Boxes /\ box'.config = snaps[n].box.config
  BY <1>1, <1>4, BackParts
<1>6. BoxTyped(box', made)
  BY <1>3, <1>5 DEF BoxTyped, Within
<1>7. JobsOK(jobs', holder', made') /\ Walks(j) /\ jobs'[j].snap = jobs[j].snap
  BY <1>1, WalkedJobs DEF Untouching
<1>8. Typed' /\ Shaped(jobs')
  <2>1. BoxTyped(box', made') /\ SnapsTyped(snaps', made') /\ BeforeTyped(before', holder', made')
    BY <1>1, <1>6 DEF Typed, Untouching
  <2> QED BY <1>1, <1>7, <2>1 DEF Typed, Untouching, JobsOK
<1> QED BY <1>1, <1>2, <1>4, <1>7, <1>8

----------------------------------------------------------------------------
(* What a step does to the snapshots, and what ends a job.                        *)

\* A snapshot is taken of the container as it is; the others stay.
Taken(j) ==
  LET n == made + 1 IN
  /\ box' = box /\ made' = n /\ holder' = holder /\ before' = before /\ faults' = faults
  /\ n \notin DOMAIN snaps /\ DOMAIN snaps' = DOMAIN snaps \cup {n}
  /\ \A k \in DOMAIN snaps : snaps'[k] = snaps[k]
  /\ snaps'[n].of = jobs[j].s /\ snaps'[n].box = box

Adding(ss, n, x) == [k \in DOMAIN ss \cup {n} |-> IF k = n THEN x ELSE ss[k]]

LEMMA TakenTypes ==
  ASSUME NEW ss, NEW m \in Nat, SnapsTyped(ss, m), NEW x \in Snapshots, Within(x.box, m), NEW n,
         n = m + 1, NEW ts, ts = Adding(ss, n, x)
  PROVE  /\ SnapsTyped(ts, n) /\ n \notin DOMAIN ss /\ DOMAIN ts = DOMAIN ss \cup {n}
         /\ ts[n] = x /\ \A k \in DOMAIN ss : ts[k] = ss[k]
<1>1. /\ ss \in [DOMAIN ss -> Snapshots] /\ DOMAIN ss \subseteq 1..m
      /\ \A k \in DOMAIN ss : Within(ss[k].box, m)
  BY DEF SnapsTyped
<1>2. n \notin DOMAIN ss /\ DOMAIN ts = DOMAIN ss \cup {n} /\ ts[n] = x
  BY <1>1 DEF Adding
<1>3. \A k \in DOMAIN ss : ts[k] = ss[k]
  BY <1>2 DEF Adding
<1>4. \A b : Within(b, m) => Within(b, n)
  BY DEF Within
<1>5. \A k \in DOMAIN ts : ts[k] \in Snapshots /\ Within(ts[k].box, n)
  BY <1>1, <1>2, <1>3, <1>4
<1>6. ts \in [DOMAIN ts -> Snapshots]
  BY <1>2, <1>5 DEF Adding
<1>7. DOMAIN ts \subseteq 1..n
  BY <1>1, <1>2
<1> QED BY <1>2, <1>3, <1>5, <1>6, <1>7 DEF SnapsTyped

LEMMA TakeEffect ==
  ASSUME Typed, Shaped(jobs), NEW j \in Jobs, TakeSnapshot(j)
  PROVE  /\ At(j, "snapshot") /\ jobs[j].kind \in Backed /\ jobs[j].s \in Services
         /\ jobs[j].snap = 0 /\ holder = j
         /\ Taken(j) /\ Typed' /\ Shaped(jobs') /\ Walks(j) /\ jobs'[j].snap = made + 1
<1> DEFINE n == made + 1
           x == [of |-> jobs[j].s, box |-> box,
                 kind |-> IF jobs[j].kind = "destroy" THEN "destroy" ELSE "deploy"]
<1>1. At(j, "snapshot")
  BY DEF TakeSnapshot
<1>2. jobs[j].kind \in Backed
  BY <1>1, AtKind
<1>3. /\ jobs[j].s \in Services /\ jobs[j].snap = 0 /\ box \in Boxes /\ Within(box, made)
  BY <1>1, <1>2, HasService, BeforeSnapshot
<1>4. /\ holder = j /\ JobsOK(jobs, holder, made) /\ made \in Nat /\ jobs[j] \in JobRecords
      /\ jobs[j].todo # <<>> /\ Head(jobs[j].todo)[1] = "snapshot"
  BY <1>1, AtParts
<1>5. x \in Snapshots /\ Within(x.box, made) /\ x.of = jobs[j].s /\ x.box = box
  BY <1>3 DEF Snapshots
<1>6. snaps' = Adding(snaps, made + 1, x)
  BY DEF TakeSnapshot, Adding
<1> HIDE DEF x
<1>7. /\ SnapsTyped(snaps', made + 1) /\ made + 1 \notin DOMAIN snaps
      /\ DOMAIN snaps' = DOMAIN snaps \cup {made + 1}
      /\ snaps'[made + 1] = x /\ \A k \in DOMAIN snaps : snaps'[k] = snaps[k]
  <2>1. SnapsTyped(snaps, made) /\ made \in Nat /\ x \in Snapshots /\ Within(x.box, made)
    BY <1>4, <1>5 DEF Typed
  <2> DEFINE next == snaps'
  <2>2. n = made + 1 /\ next = Adding(snaps, n, x)
    BY <1>6
  <2> HIDE DEF n, next
  <2>3. /\ SnapsTyped(next, n) /\ n \notin DOMAIN snaps /\ DOMAIN next = DOMAIN snaps \cup {n}
        /\ next[n] = x /\ \A k \in DOMAIN snaps : next[k] = snaps[k]
    BY <2>1, <2>2, TakenTypes
  <2> QED BY <2>2, <2>3 DEF next
<1>8. Taken(j)
  BY <1>5, <1>7 DEF Taken, TakeSnapshot
<1>9. jobs' = WalkOn(jobs, j, n)
  <2>1. jobs' = [jobs EXCEPT ![j] = [jobs[j] EXCEPT !.todo = Tail(@), !.snap = n]]
    BY <1>4 DEF TakeSnapshot, JobsOK, JobsTyped
  <2> QED BY <2>1 DEF WalkOn, Next1
<1>10. CanWalk(jobs, holder, made, j, n, n)
  BY <1>4 DEF CanWalk, Due
<1> HIDE DEF n
<1>11. /\ JobsOK(jobs', holder, n) /\ jobs'[j] = Next1(jobs[j], n)
       /\ \A k \in Jobs \ {j} : jobs'[k] = jobs[k]
  BY <1>9, <1>10, Walking
<1>12. n = made + 1 /\ n \in Nat /\ holder' = holder /\ made' = n
  BY <1>4 DEF n, TakeSnapshot
<1>13. jobs'[j] \in JobRecords
  BY <1>11, <1>12, JobParts
<1>14. Walks(j) /\ jobs'[j].snap = n
  BY <1>4, <1>11, <1>13 DEF Walks, JobRecords, Next1
<1>15. Typed'
  <2>1. \A b : Within(b, made) => Within(b, n)
    BY <1>4, <1>12 DEF Within
  <2>2. BoxTyped(box', n) /\ BeforeTyped(before', holder', n)
    BY <2>1, <1>8, <1>3 DEF Typed, BoxTyped, BeforeTyped, Taken
  <2> QED BY <1>7, <1>8, <1>11, <1>12, <2>2 DEF Typed, Taken, JobsOK
<1> QED BY <1>1, <1>2, <1>3, <1>4, <1>8, <1>11, <1>12, <1>14, <1>15 DEF JobsOK

LEMMA DeleteEffect ==
  ASSUME Typed, Shaped(jobs), NEW j \in Jobs, Delete(j)
  PROVE  /\ At(j, "delete") /\ holder = j /\ jobs[j].kind \in Deploying \cup {"removal"}
         /\ jobs[j].kind \in Deploying => jobs[j].snap = 0
         /\ Head(jobs[j].todo) = <<"delete", Arg(j)>>
         /\ box' = box /\ made' = made /\ holder' = holder /\ before' = before /\ faults' = faults
         /\ DOMAIN snaps' = DOMAIN snaps \ {Arg(j)} /\ \A n \in DOMAIN snaps' : snaps'[n] = snaps[n]
         /\ Typed' /\ Shaped(jobs') /\ Walks(j) /\ jobs'[j].snap = jobs[j].snap
<1>1. /\ At(j, "delete") /\ Walked(j)
      /\ box' = box /\ made' = made /\ holder' = holder /\ before' = before /\ faults' = faults
      /\ snaps' = [n \in DOMAIN snaps \ {Arg(j)} |-> snaps[n]]
  BY DEF Delete
<1>2. /\ jobs[j].kind \in Deploying \cup {"removal"}
      /\ jobs[j].kind \in Deploying => jobs[j].snap = 0
  BY <1>1, AtKind, BeforeSnapshot DEF Backed
<1>3. Head(jobs[j].todo) = <<"delete", Arg(j)>> /\ holder = j
  <2>1. Head(jobs[j].todo) \in Entries /\ Head(jobs[j].todo)[1] = "delete" /\ holder = j
    BY <1>1, AtParts, TailParts
  <2> QED BY <2>1 DEF Entries, Arg
<1>4. DOMAIN snaps' = DOMAIN snaps \ {Arg(j)} /\ \A n \in DOMAIN snaps' : snaps'[n] = snaps[n]
  BY <1>1
<1>5. JobsOK(jobs', holder', made') /\ Walks(j) /\ jobs'[j].snap = jobs[j].snap
  BY <1>1, WalkedJobs
<1>6. SnapsTyped(snaps', made')
  <2>1. /\ snaps \in [DOMAIN snaps -> Snapshots] /\ DOMAIN snaps \subseteq 1..made
        /\ \A n \in DOMAIN snaps : Within(snaps[n].box, made)
    BY DEF Typed, SnapsTyped
  <2>2. snaps' \in [DOMAIN snaps' -> Snapshots]
    BY <1>1, <1>4, <2>1
  <2> QED BY <1>1, <1>4, <2>1, <2>2 DEF SnapsTyped
<1>7. Typed'
  BY <1>1, <1>5, <1>6 DEF Typed, JobsOK
<1> QED BY <1>1, <1>2, <1>3, <1>4, <1>5, <1>7 DEF JobsOK

LEMMA FinishEffect ==
  ASSUME Typed, Shaped(jobs), NEW j \in Jobs, Finish(j)
  PROVE  /\ holder = j /\ holder # NoJob /\ holder' = NoJob /\ jobs[j].todo = <<>>
         /\ box' = box /\ snaps' = snaps /\ made' = made /\ faults' = faults
         /\ Typed' /\ Shaped(jobs')
<1>1. /\ holder = j /\ holder' = NoJob /\ jobs[j].todo = <<>> /\ Over(j) /\ before' = <<>>
      /\ box' = box /\ snaps' = snaps /\ made' = made /\ faults' = faults
  BY DEF Finish
<1>2. JobsOK(jobs, holder, made) /\ made \in Nat
  BY DEF Typed, JobsOK
<1>3. JobsOK(jobs', NoJob, made)
  BY <1>1, <1>2, Ending
<1>4. Typed'
  BY <1>1, <1>3 DEF Typed, JobsOK, BeforeTyped
<1> QED BY <1>1, <1>3, <1>4, DeploymentsAssumption DEF JobsOK

\* A step that fails is passed over.
Passed(j) ==
  /\ Walks(j) /\ jobs'[j].snap = jobs[j].snap /\ holder' = holder /\ before' = before
  /\ box'.config = box.config
  /\ At(j, "empty index") => jobs[j].s \in box'.cut
  /\ \/ Head(jobs[j].todo)[1] \in Optional
     \/ /\ At(j, "delete") /\ jobs[j].kind \in Deploying
        /\ faults' = 0 => faults = 0 /\ Arg(j) \notin DOMAIN snaps

\* Or it is the last of its job.
Dropped(j) ==
  /\ holder' = NoJob
  /\ \A s \in Services : box'.config[s].healthy = box.config[s].healthy
  /\ \A s \in Services : s \in box'.index \ box'.cut => box'.config[s] = box.config[s]
  /\ Working(holder, jobs[j]) => jobs[j].s \in box'.cut

CutAt(b, cut) == [b EXCEPT !.cut = cut]

LEMMA CutMore ==
  ASSUME NEW b \in Boxes, NEW cut \in SUBSET Services, NEW c, c = CutAt(b, cut)
  PROVE  /\ c \in Boxes /\ c.index = b.index /\ c.config = b.config /\ c.disk = b.disk
         /\ c.cut = cut
BY DEF CutAt, Boxes

LEMMA PassedOver ==
  ASSUME Typed, Shaped(jobs), NEW j \in Jobs, Fail(j), Passable(j)
  PROVE  /\ Typed' /\ Shaped(jobs') /\ snaps' = snaps /\ made' = made /\ holder = j
         /\ box'.index = box.index /\ box'.disk = box.disk /\ box.cut \subseteq box'.cut
         /\ Passed(j)
<1>1. /\ holder = j /\ jobs[j].todo # <<>> /\ Walked(j) /\ holder' = holder /\ before' = before
      /\ snaps' = snaps /\ made' = made
      /\ faults' = faults \/ (faults < MaxFaults /\ faults' = faults + 1)
      /\ faults' # faults + 1 => Impossible(j)
  BY DEF Fail
<1> DEFINE what == Head(jobs[j].todo)[1]
<1>2. At(j, what)
  BY <1>1 DEF At
<1>3. /\ what \in Optional \/ (what = "delete" /\ jobs[j].kind \in Deploying)
      /\ what # "snapshot"
  BY DEF Passable, Optional, At, Deploying
<1> HIDE DEF what
<1>4. JobsOK(jobs', holder', made') /\ Walks(j) /\ jobs'[j].snap = jobs[j].snap
  BY <1>1, <1>2, <1>3, WalkedJobs
<1>5. At(j, "empty index") => jobs[j].s \in Services
  <2>1. At(j, "empty index") => jobs[j].kind = "destroy"
    BY AtKind DEF DestroySteps
  <2> QED BY <2>1, HasService DEF Backed
<1>6. box \in Boxes /\ Within(box, made) /\ faults \in 0..MaxFaults
  BY DEF Typed, BoxTyped
<1> DEFINE cut == IF At(j, "empty index") THEN box.cut \cup {jobs[j].s} ELSE box.cut
<1>7. cut \in SUBSET Services /\ box.cut \subseteq cut
  BY <1>5, <1>6 DEF Boxes
<1>8. At(j, "empty index") => jobs[j].s \in cut
  OBVIOUS
<1>9. box' = CutAt(box, cut)
  BY <1>1 DEF Fail, CutAt
<1> HIDE DEF cut
<1>10. /\ box' \in Boxes /\ box'.index = box.index /\ box'.config = box.config
       /\ box'.disk = box.disk /\ box'.cut = cut
  BY <1>6, <1>7, <1>9, CutMore
<1>11. At(j, "empty index") => jobs[j].s \in box'.cut
  BY <1>8, <1>10
<1>12. At(j, "delete") /\ faults' = 0 => faults = 0 /\ Arg(j) \notin DOMAIN snaps
  <2>1. faults' = 0 => Impossible(j) /\ faults = 0
    BY <1>1, <1>6, DeploymentsAssumption
  <2>2. Impossible(j) /\ At(j, "delete") => Arg(j) \notin DOMAIN snaps
    BY DEF Impossible, At
  <2> QED BY <2>1, <2>2
<1>13. Passed(j)
  <2>1. \/ Head(jobs[j].todo)[1] \in Optional
        \/ At(j, "delete") /\ jobs[j].kind \in Deploying
    BY <1>2, <1>3 DEF what, At
  <2> QED BY <1>1, <1>4, <1>10, <1>11, <1>12, <2>1 DEF Passed
<1>14. Typed'
  <2>1. BoxTyped(box', made') /\ faults' \in 0..MaxFaults
    <3>1. faults' \in 0..MaxFaults
      BY <1>1, <1>6, DeploymentsAssumption
    <3> QED BY <1>1, <1>6, <1>10, <3>1 DEF BoxTyped, Within
  <2> QED BY <1>1, <1>4, <2>1 DEF Typed, JobsOK
<1> QED BY <1>1, <1>4, <1>7, <1>10, <1>13, <1>14 DEF JobsOK

LEMMA EndsThere ==
  ASSUME Typed, Shaped(jobs), NEW j \in Jobs, Fail(j), ~Passable(j)
  PROVE  /\ Typed' /\ Shaped(jobs') /\ snaps' = snaps /\ made' = made /\ holder = j
         /\ box'.index = box.index /\ box'.disk = box.disk /\ box.cut \subseteq box'.cut
         /\ Dropped(j)
<1> DEFINE s == jobs[j].s
           condition == jobs[j].kind \in {"deploy", "redeploy", "destroy"} /\ jobs[j].snap # 0
<1>1. PICK keys \in IF At(j, "remember") THEN SUBSET {"props", "more", "commit"} ELSE {{}} :
        box' = [box EXCEPT
                 !.config = IF keys = {} THEN @ ELSE [@ EXCEPT ![jobs[j].s] = Written(j, keys)],
                 !.cut = IF jobs[j].kind \in {"deploy", "redeploy", "destroy"} /\ jobs[j].snap # 0
                         THEN @ \cup {jobs[j].s} ELSE @]
  BY DEF Fail
<1>2. /\ holder = j /\ jobs[j].todo # <<>> /\ Over(j) /\ holder' = NoJob /\ before' = <<>>
      /\ snaps' = snaps /\ made' = made
      /\ \/ faults' = faults
         \/ faults < MaxFaults /\ faults' = faults + 1
  BY DEF Fail
<1>3. At(j, Head(jobs[j].todo)[1])
  BY <1>2 DEF At
<1>4. condition => s \in Services
  BY <1>3, HasService DEF Backed, Deploying
<1>5. At(j, "remember") => s \in Services /\ condition
  <2>1. At(j, "remember") => jobs[j].kind \in Deploying
    BY AtKind DEF DeploySteps1
  <2>2. At(j, "remember") => jobs[j].snap # 0
    BY <2>1, BeforeSnapshot DEF Backed
  <2> QED BY <2>1, <2>2, HasService DEF Backed, Deploying
<1>6. box \in Boxes /\ Within(box, made) /\ faults \in 0..MaxFaults /\ made \in Nat
  BY DEF Typed, BoxTyped
<1>7. condition \in BOOLEAN
  OBVIOUS
<1> DEFINE config == IF keys = {} THEN box.config ELSE [box.config EXCEPT ![s] = Written(j, keys)]
           cut == IF condition THEN box.cut \cup {s} ELSE box.cut
<1>8. box' = [box EXCEPT !.config = config, !.cut = cut]
  BY <1>1
<1>9. cut \in SUBSET Services /\ box.cut \subseteq cut
  BY <1>4, <1>6 DEF Boxes
<1>10. /\ config \in [Services -> AnyRecord]
       /\ \A t \in Services : config[t].healthy = box.config[t].healthy
       /\ \A t \in Services : t \notin cut => config[t] = box.config[t]
  <2>1. box.config \in [Services -> AnyRecord]
    BY <1>6 DEF Boxes
  <2>2. CASE keys = {}
    BY <2>1, <2>2
  <2>3. CASE keys # {}
    <3>1. At(j, "remember")
      BY <1>1, <2>3
    <3>2. s \in Services /\ condition
      BY <1>5, <3>1
    <3>3. jobs[j].want \in Wants
      BY <3>1, AtParts
    <3>4. Written(j, keys) \in AnyRecord
      BY <1>6, <3>2, <3>3, WrittenType
    <3>5. Written(j, keys).healthy = box.config[s].healthy
      <4>1. Config(j) \in AnyRecord /\ Config(j) = box.config[s]
        BY <1>6, <3>2, BoxParts DEF Config
      <4> QED BY <4>1 DEF Written, AnyRecord
    <3>6. s \in cut
      BY <3>2
    <3>7. config = [box.config EXCEPT ![s] = Written(j, keys)]
      BY <2>3
    <3> HIDE DEF config, s, cut
    <3> QED BY <2>1, <3>2, <3>4, <3>5, <3>6, <3>7
  <2> QED BY <2>2, <2>3
<1>11. condition => s \in cut
  OBVIOUS
<1> HIDE DEF config, cut
<1>12. /\ box' \in Boxes /\ box'.index = box.index /\ box'.config = config
       /\ box'.disk = box.disk /\ box'.cut = cut
  BY <1>6, <1>8, <1>9, <1>10 DEF Boxes
<1>13. Dropped(j)
  <2>1. Working(holder, jobs[j]) => condition
    BY DEF Working, Deploying
  <2> QED BY <1>2, <1>10, <1>11, <1>12, <2>1 DEF Dropped
<1>14. JobsOK(jobs', NoJob, made)
  <2>1. JobsOK(jobs, holder, made)
    BY DEF Typed, JobsOK
  <2> QED BY <1>2, <1>6, <2>1, Ending
<1>15. Typed'
  <2>1. BoxTyped(box', made') /\ faults' \in 0..MaxFaults
    <3>1. faults' \in 0..MaxFaults
      BY <1>2, <1>6, DeploymentsAssumption
    <3>2. Within(box', made')
      BY <1>2, <1>6, <1>10, <1>12 DEF Within
    <3> QED BY <1>12, <3>1, <3>2 DEF BoxTyped
  <2> QED BY <1>2, <1>14, <2>1 DEF Typed, JobsOK, BeforeTyped
<1> QED BY <1>2, <1>9, <1>12, <1>13, <1>14, <1>15 DEF JobsOK

LEMMA EditEffect ==
  ASSUME Typed, Shaped(jobs), NEW s \in Services, EditOverSsh(s)
  PROVE  /\ Typed' /\ UNCHANGED <<snaps, made, holder, before, jobs, faults>>
         /\ box'.index = box.index /\ box'.cut = box.cut /\ box'.config = box.config
         /\ \A t \in Services : /\ box'.disk[t].unit = box.disk[t].unit
                                /\ box'.disk[t].code = box.disk[t].code
                                /\ box'.disk[t].runs = box.disk[t].runs
<1>1. PICK e \in Contents : box' = [box EXCEPT !.disk[s].env = e]
  BY DEF EditOverSsh
<1>2. UNCHANGED <<snaps, made, holder, before, jobs, faults>>
  BY DEF EditOverSsh
<1>3. box \in Boxes /\ Within(box, made)
  BY DEF Typed, BoxTyped
<1> DEFINE files == [box.disk[s] EXCEPT !.env = e]
<1>4. box.disk[s] \in FilesOnDisk
  BY <1>3, BoxParts
<1>5. /\ files \in FilesOnDisk /\ files.unit = box.disk[s].unit /\ files.code = box.disk[s].code
      /\ files.runs = box.disk[s].runs
  BY <1>4 DEF FilesOnDisk
<1>6. box' = SetDisk(box, s, files)
  BY <1>1, <1>3 DEF SetDisk, Boxes
<1> HIDE DEF files
<1>7. /\ box' \in Boxes /\ box'.index = box.index /\ box'.cut = box.cut /\ box'.config = box.config
      /\ box'.disk = [box.disk EXCEPT ![s] = files]
  BY <1>3, <1>5, <1>6, DiskSet
<1>8. BoxTyped(box', made)
  BY <1>3, <1>7 DEF BoxTyped, Within
<1>9. Typed'
  BY <1>2, <1>8 DEF Typed
<1>10. DOMAIN box.disk = Services
  BY <1>3 DEF Boxes
<1> QED BY <1>2, <1>5, <1>7, <1>9, <1>10

----------------------------------------------------------------------------
(* What asking for something and starting on it leave.                             *)

\* What a job that begins is about to do.
Starts(j) ==
  /\ holder' = j /\ before' = box
  /\ jobs'[j].snap = 0 /\ jobs'[j].kind = jobs[j].kind /\ jobs'[j].s = jobs[j].s
  /\ jobs'[j].want = jobs[j].want
  /\ jobs[j].kind \in Deploying =>
       Deleting(jobs'[j].todo, Prunable(jobs[j].s, box.config[jobs[j].s].healthy))
  /\ jobs[j].kind = "environment" => box.disk[jobs[j].s].env = jobs[j].want.from

LEMMA FiniteSnapshots ==
  ASSUME Typed
  PROVE  /\ DOMAIN snaps \subseteq Nat /\ IsFiniteSet(DOMAIN snaps)
         /\ \A ns \in SUBSET (DOMAIN snaps) : ns \in SUBSET Nat /\ IsFiniteSet(ns)
<1>1. DOMAIN snaps \subseteq 1..made /\ made \in Nat
  BY DEF Typed, SnapsTyped
<1>2. IsFiniteSet(1..made)
  BY <1>1, FS_Interval
<1>3. \A ns \in SUBSET (1..made) : IsFiniteSet(ns)
  BY <1>2, FS_Subset
<1> QED BY <1>1, <1>3

LEMMA PrunableSet ==
  ASSUME Typed, NEW s, NEW healthy
  PROVE  /\ Prunable(s, healthy) \in SUBSET Nat /\ IsFiniteSet(Prunable(s, healthy))
         /\ Mine(s) \in SUBSET Nat /\ IsFiniteSet(Mine(s))
<1>1. Prunable(s, healthy) \in SUBSET (DOMAIN snaps) /\ Mine(s) \in SUBSET (DOMAIN snaps)
  BY DEF Prunable, Mine
<1> QED BY <1>1, FiniteSnapshots

LEMMA BeginEffect ==
  ASSUME Typed, Shaped(jobs), NEW j \in Jobs, Begin(j)
  PROVE  /\ Typed' /\ Shaped(jobs') /\ holder = NoJob
         /\ box' = box /\ snaps' = snaps /\ made' = made /\ faults' = faults
         /\ (holder' = NoJob /\ before' = before) \/ Starts(j)
<1> DEFINE s == jobs[j].s  want == jobs[j].want
<1>1. jobs[j].pc = "asked" /\ holder = NoJob /\ JobsOK(jobs, holder, made) /\ made \in Nat
  BY DEF Begin, Typed, JobsOK
<1>2. /\ jobs[j] \in JobRecords /\ JobOK(jobs[j], made) /\ jobs[j].todo \in Seq(Entries)
      /\ jobs[j].snap = 0 /\ jobs[j].want \in Wants
  BY <1>1, JobParts DEF Shaped
<1>3. ASSUME NEW todo \in Seq(Entries), Began(j, todo),
             \A job \in JobRecords :
               job.kind = jobs[j].kind /\ job.s = jobs[j].s /\ job.snap = 0 /\ job.todo = todo => Shape(job),
             jobs[j].kind \in Deploying =>
               Deleting(todo, Prunable(jobs[j].s, box.config[jobs[j].s].healthy)),
             jobs[j].kind = "environment" => box.disk[jobs[j].s].env = jobs[j].want.from
      PROVE  /\ Typed' /\ Shaped(jobs') /\ Starts(j)
             /\ box' = box /\ snaps' = snaps /\ made' = made /\ faults' = faults
  <2>1. /\ JobsOK(jobs', j, made) /\ jobs'[j].todo = todo /\ jobs'[j].kind = jobs[j].kind
        /\ jobs'[j].s = jobs[j].s /\ jobs'[j].want = jobs[j].want /\ jobs'[j].snap = 0
    BY <1>1, <1>3, Beginning
  <2>2. /\ holder' = j /\ before' = box /\ box' = box /\ snaps' = snaps /\ made' = made
        /\ faults' = faults
    BY <1>3 DEF Began
  <2>3. Typed'
    <3>1. BoxTyped(box, made) /\ SnapsTyped(snaps, made) /\ made \in Nat /\ faults \in 0..MaxFaults
      BY DEF Typed
    <3>2. j # NoJob
      BY DeploymentsAssumption
    <3>3. /\ BoxTyped(box', made') /\ SnapsTyped(snaps', made') /\ made' \in Nat
          /\ faults' \in 0..MaxFaults
      BY <2>2, <3>1
    <3>4. BeforeTyped(before', holder', made')
      BY <2>2, <3>1, <3>2 DEF BeforeTyped
    <3>5. JobsTyped(jobs', holder', made') /\ holder' \in Jobs \cup {NoJob}
      BY <2>1, <2>2 DEF JobsOK
    <3> QED BY <3>3, <3>4, <3>5 DEF Typed
  <2> QED BY <1>3, <2>1, <2>2, <2>3 DEF Starts, JobsOK
<1>4. CASE jobs[j].kind \in Deploying
  <2>1. Began(j, DeployPlan(s, want))
    BY <1>4 DEF Begin, Deploying
  <2> DEFINE ns == Prunable(s, box.config[s].healthy)
  <2>2. ns \in SUBSET Nat /\ IsFiniteSet(ns)
    BY PrunableSet
  <2>3. /\ Laid(DeployPlan(s, want), jobs[j].kind, 0, 10) /\ Deleting(DeployPlan(s, want), ns)
        /\ \A what \in Needed \cup {"snapshot"} : Left(DeployPlan(s, want), what)
    <3>1. ns = Prunable(s, box.config[s].healthy)
      OBVIOUS
    <3> HIDE DEF ns, s, want
    <3>2. want \in Wants
      BY <1>2 DEF want
    <3> QED BY <1>4, <2>2, <3>1, <3>2, DeploySteps
  <2> DEFINE todo == DeployPlan(s, want)
  <2>4. todo \in Seq(Entries)
    BY <2>3 DEF Laid
  <2>5. jobs[j].kind # "environment"
    BY <1>4 DEF Deploying
  <2>6. Deleting(todo, Prunable(jobs[j].s, box.config[jobs[j].s].healthy))
    BY <2>3
  <2> HIDE DEF todo, ns
  <2>7. Laid(todo, jobs[j].kind, 0, 10) /\ \A what \in Needed \cup {"snapshot"} : Left(todo, what)
    BY <2>3 DEF todo
  <2>8. \A job \in JobRecords :
          job.kind = jobs[j].kind /\ job.s = jobs[j].s /\ job.snap = 0 /\ job.todo = todo => Shape(job)
    BY <1>4, <2>7, DeployShape
  <2>9. Began(j, todo)
    BY <2>1 DEF todo
  <2> QED BY <1>1, <1>3, <2>4, <2>5, <2>6, <2>8, <2>9
<1>5. CASE jobs[j].kind = "environment" /\ box.disk[s].env = want.from /\ want.env # want.from
  <2>1. Began(j, EnvironmentPlan)
    BY <1>5 DEF Begin
  <2>2. EnvironmentPlan \in Seq(Entries) /\ jobs[j].kind \notin Deploying
    BY <1>5, EnvironmentShape DEF Deploying
  <2>3. \A job \in JobRecords : job.kind = jobs[j].kind /\ job.s = jobs[j].s /\ job.snap = 0
                                /\ job.todo = EnvironmentPlan => Shape(job)
    BY <1>5, EnvironmentShape
  <2> QED BY <1>1, <1>3, <1>5, <2>1, <2>2, <2>3
<1>6. CASE jobs[j].kind = "environment" /\ ~(box.disk[s].env = want.from /\ want.env # want.from)
  <2>1. Over(j) /\ UNCHANGED <<box, snaps, made, holder, before, faults>>
    BY <1>6 DEF Begin
  <2>2. JobsOK(jobs', NoJob, made)
    BY <1>1, <2>1, Ending
  <2>3. Typed'
    BY <1>1, <2>1, <2>2 DEF Typed, JobsOK
  <2> QED BY <1>1, <2>1, <2>2, <2>3 DEF JobsOK
<1>7. CASE jobs[j].kind \notin Deploying \cup {"environment"}
  <2> DEFINE todo == jobs[j].todo
  <2>1. Began(j, todo)
    BY <1>7 DEF Begin, Deploying
  <2>2. Shape(jobs[j])
    BY <1>1, <1>7 DEF Shaped, Planned
  <2>3. ASSUME NEW job \in JobRecords, job.kind = jobs[j].kind, job.s = jobs[j].s, job.snap = 0,
               job.todo = todo
        PROVE  Shape(job)
    BY <1>2, <2>2, <2>3 DEF Shape
  <2>4. todo \in Seq(Entries)
    BY <1>2
  <2> HIDE DEF todo
  <2> QED BY <1>1, <1>3, <1>7, <2>1, <2>3, <2>4
<1> QED BY <1>4, <1>5, <1>6, <1>7

\* Asking changes nothing but a job that had not asked yet.
Waits(j) ==
  /\ UNCHANGED <<box, snaps, made, holder, before, faults>>
  /\ holder # j /\ \A k \in Jobs \ {j} : jobs'[k] = jobs[k]

LEMMA AskEffect ==
  ASSUME Typed, Shaped(jobs), NEW j \in Jobs, Ask(j)
  PROVE  Typed' /\ Shaped(jobs') /\ Waits(j)
<1>1. JobsOK(jobs, holder, made) /\ made \in Nat /\ box \in Boxes /\ Within(box, made)
  BY DEF Typed, JobsOK, BoxTyped
<1>2. ASSUME NEW kind \in AnyKind,
             NEW s \in Services \cup {NoService}, NEW want \in Wants, NEW todo \in Seq(Entries),
             Asked(j, kind, s, want, todo),
             kind \in Backed \cup {"configure"} => s \in Services,
             kind \in Deploying => want.props # 0,
             \A job \in JobRecords :
               /\ job.kind = kind /\ job.s = s /\ job.snap = 0 /\ job.todo = todo
               /\ kind \notin Deploying \cup {"environment"}
               => Shape(job)
      PROVE  Typed' /\ Shaped(jobs') /\ Waits(j)
  <2>1. JobsOK(jobs', holder, made)
    BY <1>1, <1>2, Asking
  <2>2. UNCHANGED <<box, snaps, made, holder, before, faults>> /\ jobs[j].pc = "new"
    BY <1>2 DEF Asked
  <2>3. holder # j
    BY <1>1, <2>2, JobParts
  <2>4. \A k \in Jobs \ {j} : jobs'[k] = jobs[k]
    BY <1>1, <1>2 DEF Asked, JobsOK, JobsTyped
  <2>5. Typed'
    BY <2>1, <2>2 DEF Typed, JobsOK
  <2> QED BY <2>1, <2>2, <2>3, <2>4, <2>5 DEF Waits, JobsOK
<1>3. NoAsk \in Wants /\ NoAsk.from = 0 /\ NoAsk.env = 0
  BY DEF NoAsk, Wants
<1>4. <<>> \in Seq(Entries)
  BY Doing
<1>5. ASSUME NEW s \in Services, AskDeploy(j, s)
      PROVE  Typed' /\ Shaped(jobs') /\ Waits(j)
  <2>1. PICK p \in Props, m \in BOOLEAN, e \in {0} \cup Contents :
          Asked(j, "deploy", s, [NoAsk EXCEPT !.props = p, !.more = m, !.env = KnownEnv(s, e)], <<>>)
    BY <1>5 DEF AskDeploy
  <2> DEFINE want == [NoAsk EXCEPT !.props = p, !.more = m, !.env = KnownEnv(s, e)]
  <2>2. KnownEnv(s, e) \in {0} \cup Contents /\ p # 0
    BY DeploymentsAssumption DEF KnownEnv
  <2>3. want \in Wants /\ want.props = p
    BY <1>3, <2>2 DEF Wants, NoAsk
  <2> HIDE DEF want
  <2>4. Asked(j, "deploy", s, want, <<>>)
    BY <2>1 DEF want
  <2> QED BY <1>2, <1>4, <2>2, <2>3, <2>4 DEF AnyKind, Backed, Deploying
<1>6. ASSUME NEW s \in Services, AskRedeploy(j, s)
      PROVE  Typed' /\ Shaped(jobs') /\ Waits(j)
  <2> DEFINE want == [NoAsk EXCEPT !.props = box.config[s].props, !.more = box.config[s].more]
  <2>1. box.config[s] \in AnyRecord /\ box.config[s].props # 0
    BY <1>1, <1>6, BoxParts DEF AskRedeploy, Stored
  <2>2. want \in Wants /\ want.props # 0
    BY <1>3, <2>1 DEF Wants, NoAsk, AnyRecord
  <2>3. Asked(j, "redeploy", s, want, <<>>)
    BY <1>6 DEF AskRedeploy
  <2> HIDE DEF want
  <2> QED BY <1>2, <1>4, <2>2, <2>3 DEF AnyKind, Backed, Deploying
<1>7. ASSUME NEW s \in Services, AskDestroy(j, s)
      PROVE  Typed' /\ Shaped(jobs') /\ Waits(j)
  <2>1. /\ DestroyPlan(s) \in Seq(Entries)
        /\ \A job \in JobRecords : job.kind = "destroy" /\ job.s = s /\ job.snap = 0
                                     /\ job.todo = DestroyPlan(s) => Shape(job)
    BY <1>1, DestroyShape
  <2>2. Asked(j, "destroy", s, NoAsk, DestroyPlan(s))
    BY <1>7 DEF AskDestroy
  <2> QED BY <1>2, <1>3, <2>1, <2>2 DEF AnyKind, Backed, Deploying
<1>8. ASSUME NEW s \in Services, AskConfigure(j, s)
      PROVE  Typed' /\ Shaped(jobs') /\ Waits(j)
  <2>1. PICK p \in Props, m \in BOOLEAN :
          Asked(j, "configure", s, [NoAsk EXCEPT !.props = p, !.more = m],
                ConfigurePlan(s, [NoAsk EXCEPT !.props = p, !.more = m]))
    BY <1>8 DEF AskConfigure
  <2> DEFINE want == [NoAsk EXCEPT !.props = p, !.more = m]  todo == ConfigurePlan(s, want)
  <2>2. want \in Wants
    BY <1>3 DEF Wants, NoAsk
  <2>3. Saving(todo, s)
    <3> HIDE DEF want
    <3> QED BY <1>1, <2>2, ConfigureShape
  <2> HIDE DEF want, todo
  <2>4. Asked(j, "configure", s, want, todo)
    BY <2>1 DEF want, todo
  <2>5. \A job \in JobRecords : job.kind = "configure" /\ job.s = s /\ job.todo = todo => Shape(job)
    BY <2>3, PlainShape DEF Saving
  <2> QED BY <1>2, <2>2, <2>3, <2>4, <2>5 DEF AnyKind, Backed, Deploying, Saving
<1>9. ASSUME NEW s \in Services, AskEnvironment(j, s)
      PROVE  Typed' /\ Shaped(jobs') /\ Waits(j)
  <2>1. PICK e \in Contents :
          Asked(j, "environment", s, [NoAsk EXCEPT !.env = e, !.from = box.disk[s].env], <<>>)
    BY <1>9 DEF AskEnvironment
  <2> DEFINE want == [NoAsk EXCEPT !.env = e, !.from = box.disk[s].env]
  <2>2. box.disk[s] \in FilesOnDisk
    BY <1>1, BoxParts
  <2>3. want \in Wants
    BY <1>3, <2>2 DEF Wants, NoAsk, FilesOnDisk
  <2> HIDE DEF want
  <2>4. Asked(j, "environment", s, want, <<>>)
    BY <2>1 DEF want
  <2> QED BY <1>2, <1>4, <2>3, <2>4 DEF AnyKind, Backed, Deploying
<1>12. ASSUME NEW kind \in {"rollback", "removal"}, NEW todo \in Seq(Entries),
              Asked(j, kind, NoService, NoAsk, todo),
              \A job \in JobRecords :
                job.kind = kind /\ job.s = NoService /\ job.todo = todo => Shape(job)
       PROVE  Typed' /\ Shaped(jobs') /\ Waits(j)
  <2>1. kind \in AnyKind /\ kind \notin Backed \cup {"configure"} /\ kind \notin Deploying
    BY <1>12 DEF AnyKind, Backed, Deploying
  <2> DEFINE s == NoService
  <2>2. s \in Services \cup {NoService} /\ Asked(j, kind, s, NoAsk, todo)
    BY <1>12
  <2>3. \A job \in JobRecords :
          /\ job.kind = kind /\ job.s = s /\ job.snap = 0 /\ job.todo = todo
          /\ kind \notin Deploying \cup {"environment"}
          => Shape(job)
    BY <1>12
  <2> HIDE DEF s
  <2> QED BY <1>2, <1>3, <2>1, <2>2, <2>3
<1>10. ASSUME NEW n \in DOMAIN snaps, AskRollback(j, n)
       PROVE  Typed' /\ Shaped(jobs') /\ Waits(j)
  <2> DEFINE todo == <<<<"restore", n>>>>
  <2>1. n \in Nat
    BY FiniteSnapshots
  <2>2. /\ todo \in Seq(Entries)
        /\ \A i \in DOMAIN todo, s \in {NoService} : todo[i][1] \in Allowed("rollback") /\ EntryOK(todo[i], s)
    BY <2>1, RollbackShape
  <2>3. Asked(j, "rollback", NoService, NoAsk, todo)
    BY <1>10 DEF AskRollback
  <2> HIDE DEF todo
  <2>4. \A job \in JobRecords : job.kind = "rollback" /\ job.s = NoService /\ job.todo = todo => Shape(job)
    BY <2>2, PlainShape
  <2>5. todo \in Seq(Entries)
    BY <2>2
  <2> QED BY <1>12, <2>3, <2>4, <2>5
<1>11. ASSUME NEW n \in DOMAIN snaps, AskRemoval(j, n)
       PROVE  Typed' /\ Shaped(jobs') /\ Waits(j)
  <2>1. PICK named \in Naming(n) : Asked(j, "removal", NoService, NoAsk, RemovalPlan(n, named))
    BY <1>11 DEF AskRemoval
  <2> DEFINE todo == RemovalPlan(n, named)
  <2>2. n \in Nat
    BY FiniteSnapshots
  <2>3. /\ todo \in Seq(Entries)
        /\ \A i \in DOMAIN todo : todo[i][1] \in Allowed("removal") /\ EntryOK(todo[i], NoService)
    BY <1>1, <2>2, RemovalShape
  <2> HIDE DEF todo
  <2>4. Asked(j, "removal", NoService, NoAsk, todo)
    BY <2>1 DEF todo
  <2>5. \A job \in JobRecords : job.kind = "removal" /\ job.s = NoService /\ job.todo = todo => Shape(job)
    BY <2>3, PlainShape
  <2>6. todo \in Seq(Entries)
    BY <2>3
  <2> QED BY <1>12, <2>4, <2>5, <2>6
<1> QED BY <1>5, <1>6, <1>7, <1>8, <1>9, <1>10, <1>11 DEF Ask

----------------------------------------------------------------------------
(* Every step, and its type.                                                     *)

RecordStep(j) ==
  \/ Remember(j) \/ MarkDeployed(j) \/ MarkHealthy(j) \/ Forget(j) \/ ForgetSome(j)
  \/ ForgetHealthy(j) \/ SaveProperty(j) \/ WriteIndex(j)

LEMMA EveryStep ==
  ASSUME [Next]_vars
  PROVE  \/ UNCHANGED vars
         \/ \E s \in Services : EditOverSsh(s)
         \/ \E j \in Jobs : \/ Ask(j) \/ Begin(j) \/ TakeSnapshot(j) \/ Delete(j) \/ FileStep(j)
                            \/ RecordStep(j) \/ Restore(j) \/ Finish(j) \/ Fail(j)
BY DEF Next, Step, FileStep, RecordStep

\* What a step on the record of t leaves of it: the service of a deployment or a removal,
\* or one that runs what it ran.
Settles(j, t, record) ==
  \/ jobs[j].kind \in Deploying \cup {"destroy"} /\ t = jobs[j].s
  \/ /\ jobs[j].kind \notin Backed
     /\ t \in box'.index \ box'.cut =>
          /\ t \in box.index \ box.cut
          /\ Running(record) = Running(box.config[t]) /\ record.commit = box.config[t].commit

Recording(j, what, t, record) ==
  /\ At(j, what) /\ what \in MarkSteps \cup Listing
  /\ Leaves(j, t, record, box.disk[t]) /\ OthersKept(t) /\ faults' \in 0..MaxFaults
  /\ Healthier(j, what, t, record) /\ Settles(j, t, record)

LEMMA RecordSteps ==
  ASSUME Typed, Shaped(jobs), NEW j \in Jobs, RecordStep(j)
  PROVE  \E what, t, record : Recording(j, what, t, record)
<1> DEFINE s == jobs[j].s
<1>1. \A t : SameLists => OthersKept(t)
  BY DEF SameLists, OthersKept
<1>2. ASSUME NEW what, NEW t, NEW record, Marking(j, what, t, record), OthersKept(t),
             Settles(j, t, record)
      PROVE  Recording(j, what, t, record)
  BY <1>2 DEF Marking, Recording
<1>3. CASE Remember(j)
  <2>1. PICK keys : /\ Marking(j, "remember", s, Written(j, keys))
                    /\ box'.index = box.index \cup {s}
                    /\ box'.cut = IF "commit" \in keys THEN box.cut \ {s} ELSE box.cut \cup {s}
    BY <1>3, RememberEffect
  <2>2. OthersKept(s)
    BY <2>1 DEF OthersKept
  <2>3. jobs[j].kind \in Deploying
    BY <2>1, AtKind DEF Marking, DeploySteps1
  <2> QED BY <1>2, <2>1, <2>2, <2>3 DEF Settles
<1>4. CASE MarkDeployed(j)
  <2> DEFINE record == [Config(j) EXCEPT !.deployed = Fingerprint(box, s)]
  <2>1. Marking(j, "mark", s, record) /\ SameLists
    BY <1>4, MarkEffect
  <2> HIDE DEF record
  <2>2. jobs[j].kind \in Deploying
    BY <2>1, AtKind DEF Marking, DeploySteps1
  <2> QED BY <1>1, <1>2, <2>1, <2>2 DEF Settles
<1>5. CASE MarkHealthy(j)
  <2> DEFINE record == [Config(j) EXCEPT !.healthy = jobs[j].snap]
  <2>1. Marking(j, "healthy", s, record) /\ SameLists
    BY <1>5, HealthyEffect
  <2> HIDE DEF record
  <2>2. jobs[j].kind \in Deploying
    BY <2>1, AtKind DEF Marking, DeploySteps1
  <2> QED BY <1>1, <1>2, <2>1, <2>2 DEF Settles
<1>6. CASE Forget(j) \/ ForgetSome(j)
  <2>1. PICK record : Marking(j, "forget", s, record) /\ SameLists
    BY <1>6, ForgetEffect
  <2>2. jobs[j].kind = "destroy"
    BY <2>1, AtKind DEF Marking, DestroySteps
  <2> QED BY <1>1, <1>2, <2>1, <2>2 DEF Settles
<1>7. CASE ForgetHealthy(j)
  <2>0. PICK t \in Services : \E record :
          /\ Marking(j, "unset healthy", t, record) /\ SameLists
          /\ record = [box.config[t] EXCEPT !.healthy = 0]
    BY <1>7, ForgetHealthyEffect
  <2>1. PICK record :
          /\ Marking(j, "unset healthy", t, record) /\ SameLists
          /\ record = [box.config[t] EXCEPT !.healthy = 0]
    BY <2>0
  <2>2. jobs[j].kind = "removal"
    BY <2>1, AtKind DEF Marking
  <2>3. box.config[t] \in AnyRecord
    BY BoxParts DEF Typed, BoxTyped
  <2>4. Running(record) = Running(box.config[t]) /\ record.commit = box.config[t].commit
    BY <2>1, <2>3 DEF Running, AnyRecord
  <2>5. Settles(j, t, record)
    BY <2>1, <2>2, <2>4 DEF Settles, SameLists, Backed, Deploying
  <2> QED BY <1>1, <1>2, <2>1, <2>5
<1>8. CASE SaveProperty(j)
  <2>1. jobs[j].kind = "configure" /\ s \in Services
    BY <1>8, SaveEffect
  <2>2. PICK what, record, right : SavedAs(j, what, record, right)
    BY <1>8, SaveEffect
  <2>3. /\ Marking(j, what, s, record) /\ box'.index = box.index
        /\ box'.cut = CutIf(right, s)
        /\ record.commit = Config(j).commit
        /\ right => Running(record) = Running(Config(j))
    BY <2>2 DEF SavedAs
  <2>4. OthersKept(s)
    BY <2>3 DEF OthersKept, CutIf
  <2>5. Settles(j, s, record)
    BY <2>1, <2>3 DEF Settles, Backed, Deploying, Config, CutIf
  <2> QED BY <1>2, <2>3, <2>4, <2>5
<1>9. CASE WriteIndex(j)
  <2>1. /\ jobs[j].kind = "destroy" /\ s \in Services
        /\ Leaves(j, s, box.config[s], box.disk[s]) /\ faults' = faults /\ OthersKept(s)
    BY <1>9, IndexEffect
  <2>2. PICK what \in Listing : At(j, what)
    BY <1>9, IndexEffect
  <2>3. what # "healthy"
    BY DEF Listing
  <2> QED BY <2>1, <2>2, <2>3 DEF Recording, Settles, Healthier, Typed
<1> QED BY <1>3, <1>4, <1>5, <1>6, <1>7, <1>8, <1>9 DEF RecordStep

\* What a step on the files or the record of a service may do beside it.
Works(j) ==
  /\ holder = j /\ Walks(j) /\ jobs'[j].snap = jobs[j].snap /\ Untouching
  /\ jobs[j].kind \in Backed => jobs[j].snap # 0
  /\ \A i \in DOMAIN jobs'[j].todo : i + 1 \in DOMAIN jobs[j].todo /\ jobs'[j].todo[i] = jobs[j].todo[i + 1]
  /\ \A s \in Services :
       \/ box'.config[s].healthy \in {box.config[s].healthy, 0}
       \/ /\ jobs[j].kind \in Deploying /\ s = jobs[j].s
          /\ box'.config[s].healthy = jobs[j].snap

LEMMA WorkEffect ==
  ASSUME Typed, Shaped(jobs), NEW j \in Jobs, FileStep(j) \/ RecordStep(j)
  PROVE  Typed' /\ Shaped(jobs') /\ Works(j)
<1>1. PICK what, t, record, files :
        /\ At(j, what) /\ what \notin {"delete", "snapshot"} /\ Leaves(j, t, record, files)
        /\ Healthier(j, what, t, record) /\ faults' \in 0..MaxFaults
  <2>1. CASE FileStep(j)
    <3>1. PICK what, files :
            /\ Filing(j, what, files)
            /\ Leaves(j, jobs[j].s, box.config[jobs[j].s], files) /\ faults' = faults
      BY <2>1, FileSteps
    <3>2. At(j, what) /\ what \notin {"delete", "snapshot", "healthy"}
      BY <3>1 DEF Filing, FileNames
    <3> QED BY <3>1, <3>2 DEF Healthier, Typed
  <2>2. CASE RecordStep(j)
    <3>1. PICK what, t, record : Recording(j, what, t, record)
      BY <2>2, RecordSteps
    <3> QED BY <3>1 DEF Recording, MarkSteps, Listing
  <2> QED BY <2>1, <2>2
<1>2. Typed' /\ Shaped(jobs') /\ Walks(j) /\ jobs'[j].snap = jobs[j].snap
  BY <1>1, LeavesTyped
<1>3. /\ holder = j /\ jobs[j].todo \in Seq(Entries) /\ jobs[j].todo # <<>>
      /\ jobs[j].kind \in Backed => jobs[j].snap # 0
  BY <1>1, AtParts, BeforeSnapshot
<1>4. \A i \in DOMAIN jobs'[j].todo : i + 1 \in DOMAIN jobs[j].todo /\ jobs'[j].todo[i] = jobs[j].todo[i + 1]
  BY <1>2, <1>3, TailParts DEF Walks
<1>5. /\ box'.config[t] = record /\ \A s \in Services \ {t} : box'.config[s] = box.config[s]
  BY <1>1, LeavesParts DEF Typed, BoxTyped
<1>6. \/ record.healthy \in {box.config[t].healthy, 0}
      \/ jobs[j].kind \in Deploying /\ t = jobs[j].s /\ record.healthy = jobs[j].snap
  BY <1>1, AtKind DEF Healthier, DeploySteps1
<1> QED BY <1>1, <1>2, <1>3, <1>4, <1>5, <1>6 DEF Works, Leaves

LEMMA FailEffect ==
  ASSUME Typed, Shaped(jobs), NEW j \in Jobs, Fail(j)
  PROVE  /\ Typed' /\ Shaped(jobs') /\ snaps' = snaps /\ made' = made /\ holder = j
         /\ box'.index = box.index /\ box'.disk = box.disk /\ box.cut \subseteq box'.cut
         /\ Passed(j) \/ Dropped(j)
BY PassedOver, EndsThere

LEMMA TypedStep ==
  ASSUME Typed, Shaped(jobs), [Next]_vars
  PROVE  Typed' /\ Shaped(jobs')
<1>1. CASE UNCHANGED vars
  BY <1>1 DEF vars, Typed
<1>2. CASE \E s \in Services : EditOverSsh(s)
  BY <1>2, EditEffect
<1>3. ASSUME NEW j \in Jobs, \/ Ask(j) \/ Begin(j) \/ TakeSnapshot(j) \/ Delete(j) \/ FileStep(j)
                             \/ RecordStep(j) \/ Restore(j) \/ Finish(j) \/ Fail(j)
      PROVE  Typed' /\ Shaped(jobs')
  BY <1>3, AskEffect, BeginEffect, TakeEffect, DeleteEffect, WorkEffect, RestoreEffect, FinishEffect,
     FailEffect
<1> QED BY <1>1, <1>2, <1>3, EveryStep

----------------------------------------------------------------------------
(* A way back.                                                                *)

LEMMA SameKept ==
  ASSUME NEW b, NEW c, b.index = c.index, b.config = c.config,
         \A s \in Services : b.disk[s].code = c.disk[s].code /\ b.disk[s].unit = c.disk[s].unit
  PROVE  Kept(b) = Kept(c)
BY DEF Kept

WayBackFor(job, b, was, ss) ==
  job.kind \in Backed =>
    IF job.snap = 0 THEN Kept(b) = Kept(was)
    ELSE /\ job.snap \in DOMAIN ss /\ Kept(ss[job.snap].box) = Kept(was)
         /\ ss[job.snap].of = job.s

LEMMA WayBackTold ==
  /\ (WayBack /\ HeldBack) <=> (holder # NoJob => WayBackFor(jobs[holder], box, before, snaps))
  /\ (WayBack /\ HeldBack)' <=> (holder' # NoJob => WayBackFor(jobs'[holder'], box', before', snaps'))
BY DEF WayBack, HeldBack, WayBackFor, Backed, Deploying

LEMMA WayBackStep ==
  ASSUME Typed, Shaped(jobs), WayBack, HeldBack, [Next]_vars
  PROVE  WayBack' /\ HeldBack'
<1>1. holder # NoJob => WayBackFor(jobs[holder], box, before, snaps)
  BY WayBackTold
<1>2. holder # NoJob => holder \in Jobs
  BY DEF Typed
<1> SUFFICES ASSUME holder' # NoJob
             PROVE  WayBackFor(jobs'[holder'], box', before', snaps')
  BY WayBackTold
<1>3. CASE UNCHANGED vars
  BY <1>1, <1>3 DEF vars
<1>4. ASSUME NEW s \in Services, EditOverSsh(s)
      PROVE  WayBackFor(jobs'[holder'], box', before', snaps')
  <2>1. Kept(box') = Kept(box)
    BY <1>4, EditEffect, SameKept
  <2> QED BY <1>1, <1>4, <2>1, EditEffect DEF WayBackFor
<1>5. ASSUME NEW j \in Jobs, Ask(j)
      PROVE  WayBackFor(jobs'[holder'], box', before', snaps')
  BY <1>1, <1>2, <1>5, AskEffect DEF Waits
<1>6. ASSUME NEW j \in Jobs, Begin(j)
      PROVE  WayBackFor(jobs'[holder'], box', before', snaps')
  BY <1>6, BeginEffect DEF Starts, WayBackFor
<1>7. ASSUME NEW j \in Jobs, TakeSnapshot(j)
      PROVE  WayBackFor(jobs'[holder'], box', before', snaps')
  <2>1. /\ holder = j /\ holder' = j /\ box' = box /\ before' = before /\ jobs[j].snap = 0
        /\ jobs'[j].snap = made + 1 /\ made + 1 \in DOMAIN snaps' /\ snaps'[made + 1].box = box
        /\ snaps'[made + 1].of = jobs[j].s /\ jobs'[j].s = jobs[j].s /\ jobs[j].kind \in Backed
    BY <1>7, TakeEffect DEF Taken, Walks
  <2>2. Kept(box) = Kept(before)
    BY <1>1, <2>1 DEF WayBackFor
  <2>3. made + 1 # 0
    BY DEF Typed
  <2> QED BY <2>1, <2>2, <2>3 DEF WayBackFor
<1>8. ASSUME NEW j \in Jobs, Delete(j)
      PROVE  WayBackFor(jobs'[holder'], box', before', snaps')
  <2>1. /\ holder = j /\ holder' = j /\ box' = box /\ before' = before
        /\ jobs'[j].kind = jobs[j].kind /\ jobs'[j].snap = jobs[j].snap
        /\ jobs[j].kind \in Backed => jobs[j].snap = 0
    BY <1>8, DeleteEffect DEF Walks, Backed, Deploying
  <2> QED BY <1>1, <2>1 DEF WayBackFor
<1>9. ASSUME NEW j \in Jobs, FileStep(j) \/ RecordStep(j)
      PROVE  WayBackFor(jobs'[holder'], box', before', snaps')
  <2>1. /\ holder = j /\ holder' = j /\ snaps' = snaps /\ before' = before
        /\ jobs'[j].kind = jobs[j].kind /\ jobs'[j].snap = jobs[j].snap /\ jobs'[j].s = jobs[j].s
        /\ jobs[j].kind \in Backed => jobs[j].snap # 0
    BY <1>9, WorkEffect DEF Works, Walks, Untouching
  <2> QED BY <1>1, <2>1 DEF WayBackFor
<1>10. ASSUME NEW j \in Jobs, Restore(j)
       PROVE  WayBackFor(jobs'[holder'], box', before', snaps')
  BY <1>10, RestoreEffect DEF Untouching, Walks, WayBackFor, Backed, Deploying
<1>11. ASSUME NEW j \in Jobs, Fail(j)
       PROVE  WayBackFor(jobs'[holder'], box', before', snaps')
  <2>1. Passed(j) /\ box'.index = box.index /\ box'.disk = box.disk /\ snaps' = snaps /\ holder = j
    BY <1>11, FailEffect DEF Dropped
  <2>2. /\ holder' = j /\ before' = before /\ jobs'[j].kind = jobs[j].kind
        /\ jobs'[j].snap = jobs[j].snap /\ jobs'[j].s = jobs[j].s /\ box'.config = box.config
    BY <2>1 DEF Passed, Walks
  <2>3. Kept(box') = Kept(box)
    BY <2>1, <2>2, SameKept
  <2> QED BY <1>1, <2>1, <2>2, <2>3 DEF WayBackFor
<1>12. \A j \in Jobs : ~Finish(j)
  BY FinishEffect
<1> QED BY <1>3, <1>4, <1>5, <1>6, <1>7, <1>8, <1>9, <1>10, <1>11, <1>12, EveryStep

\* Nobody else touches what a change of environment was begun from.
LEMMA EditsStep ==
  ASSUME Typed, Shaped(jobs), EditsWhatItRead, [Next]_vars
  PROVE  EditsWhatItRead'
<1>1. holder # NoJob => holder \in Jobs
  BY DEF Typed
<1> SUFFICES ASSUME holder' # NoJob, jobs'[holder'].kind = "environment"
             PROVE  before'.disk[jobs'[holder'].s].env = jobs'[holder'].want.from
  BY DEF EditsWhatItRead
<1>2. CASE UNCHANGED vars \/ (\E s \in Services : EditOverSsh(s)) \/ (\E j \in Jobs : Ask(j))
  <2>1. before' = before /\ holder' = holder /\ jobs'[holder'] = jobs[holder]
    BY <1>1, <1>2, EditEffect, AskEffect DEF Waits, vars
  <2> QED BY <2>1 DEF EditsWhatItRead
<1>3. ASSUME NEW j \in Jobs, Begin(j)
      PROVE  before'.disk[jobs'[holder'].s].env = jobs'[holder'].want.from
  BY <1>3, BeginEffect DEF Starts
<1>4. ASSUME NEW j \in Jobs,
             TakeSnapshot(j) \/ Delete(j) \/ FileStep(j) \/ RecordStep(j) \/ Restore(j) \/ Fail(j)
      PROVE  before'.disk[jobs'[holder'].s].env = jobs'[holder'].want.from
  <2>1. /\ holder = j /\ holder' = holder /\ before' = before /\ Walks(j)
    BY <1>4, TakeEffect, DeleteEffect, WorkEffect, RestoreEffect, FailEffect
       DEF Taken, Works, Untouching, Passed, Dropped
  <2> QED BY <2>1 DEF EditsWhatItRead, Walks
<1>5. \A j \in Jobs : ~Finish(j)
  BY FinishEffect
<1> QED BY <1>2, <1>3, <1>4, <1>5, EveryStep

----------------------------------------------------------------------------
(* What a record says is what runs.                                              *)

\* Nothing that matters to a service that is listed and whole.
Alike(b, c, s) ==
  s \in c.index \ c.cut =>
    /\ s \in b.index \ b.cut
    /\ Running(c.config[s]) = Running(b.config[s]) /\ c.config[s].commit = b.config[s].commit
    /\ c.disk[s].unit = b.disk[s].unit /\ c.disk[s].code = b.disk[s].code

LEMMA AlikeIsGood ==
  ASSUME NEW b, NEW c, NEW s, Alike(b, c, s)
  PROVE  /\ Good(b, s) => Good(c, s)
         /\ Fair(b, s) /\ c.disk[s].runs = b.disk[s].runs => Fair(c, s)
BY DEF Alike, Good, Fair

LEMMA WorkedStill ==
  ASSUME NEW j \in Jobs, holder = j, holder' = holder, Walks(j), jobs'[j].snap = jobs[j].snap
  PROVE  \A s : Worked(s)' <=> Worked(s)
BY DEF Worked, Working, Walks

LEMMA BackIsGood ==
  ASSUME NEW b \in Boxes, NEW c, c = Back(b), NEW s \in Services, Good(b, s)
  PROVE  Good(c, s) /\ Fair(c, s)
<1>1. /\ c.index = b.index /\ c.cut = b.cut /\ c.config = b.config
      /\ c.disk[s] = Fresh(b.disk[s])
  BY BackParts
<1>2. b.disk[s] \in FilesOnDisk
  BY BoxParts
<1>3. /\ c.disk[s].unit = b.disk[s].unit /\ c.disk[s].code = b.disk[s].code
      /\ b.disk[s].unit # 0 => c.disk[s].runs = <<b.disk[s].unit, b.disk[s].code>>
  BY <1>1, <1>2, FreshType
<1>4. Good(c, s)
  BY <1>1, <1>3 DEF Good
<1>5. Fair(c, s)
  BY <1>1, <1>3 DEF Good, Fair
<1> QED BY <1>4, <1>5

\* A change of environment leaves the unit and the code alone.
LEMMA FilesRested ==
  ASSUME Typed, Shaped(jobs), Rested, NEW j \in Jobs, FileStep(j), NEW s \in Services, ~Worked(s)
  PROVE  Good(box', s) /\ Fair(box', s)
<1>1. Good(box, s) /\ Fair(box, s)
  BY DEF Rested
<1>2. jobs[j].kind \in Backed /\ jobs[j].s \in Services
  BY FileSteps
<1>3. PICK what, files : /\ Filing(j, what, files)
                         /\ Leaves(j, jobs[j].s, box.config[jobs[j].s], files) /\ SameLists
  BY FileSteps
<1>4. /\ box'.disk[jobs[j].s] = files /\ box'.config[jobs[j].s] = box.config[jobs[j].s]
      /\ \A t \in Services \ {jobs[j].s} : /\ box'.config[t] = box.config[t]
                                           /\ box'.disk[t] = box.disk[t]
  BY <1>3, LeavesParts DEF Typed, BoxTyped
<1>5. CASE s # jobs[j].s
  <2>1. Alike(box, box', s) /\ box'.disk[s].runs = box.disk[s].runs
    BY <1>3, <1>4, <1>5 DEF Alike, SameLists
  <2> QED BY <1>1, <2>1, AlikeIsGood
<1>6. CASE s = jobs[j].s
  <2>1. holder = j /\ holder # NoJob /\ jobs[j].snap # 0
    <3>1. At(j, what) /\ what \notin {"delete", "snapshot"}
      BY <1>3 DEF Filing, FileNames
    <3> QED BY <1>2, <3>1, AtParts, BeforeSnapshot
  <2>2. jobs[j].kind = "environment"
    BY <1>2, <1>6, <2>1 DEF Worked, Working, Backed
  <2>3. At(j, what) /\ what \in FileNames
    BY <1>3 DEF Filing
  <2>4. what \notin {"fetch", "build", "check", "unit", "start", "disable", "remove unit", "remove files"}
    BY <2>2, <2>3, AtKind DEF DeploySteps1, DestroySteps, Deploying
  <2>5. what \in {"environment", "restart"}
    BY <2>3, <2>4 DEF FileNames
  <2>6. Disk(j) = box.disk[s] /\ Disk(j) \in FilesOnDisk
    BY <1>6, BoxParts DEF Disk, Typed, BoxTyped
  <2>7. CASE what = "environment"
    <3>1. /\ files.unit = box.disk[s].unit /\ files.code = box.disk[s].code
          /\ files.runs = box.disk[s].runs
      BY <1>3, <2>6, <2>7 DEF Filing
    <3>2. Alike(box, box', s) /\ box'.disk[s].runs = box.disk[s].runs
      BY <1>3, <1>4, <1>6, <3>1 DEF Alike, SameLists
    <3> QED BY <1>1, <3>2, AlikeIsGood
  <2>8. CASE what = "restart"
    <3>1. files = Fresh(box.disk[s]) /\ box.disk[s].unit # 0
      BY <1>3, <2>6, <2>8 DEF Filing
    <3>2. /\ files.unit = box.disk[s].unit /\ files.code = box.disk[s].code
          /\ files.runs = <<files.unit, files.code>>
      BY <2>6, <3>1, FreshType
    <3>3. Alike(box, box', s) /\ Fair(box', s)
      BY <1>3, <1>4, <1>6, <3>2 DEF Alike, SameLists, Fair
    <3> QED BY <1>1, <3>3, AlikeIsGood
  <2> QED BY <2>5, <2>7, <2>8
<1> QED BY <1>5, <1>6

LEMMA RecordsRested ==
  ASSUME Typed, Shaped(jobs), Rested, NEW j \in Jobs, RecordStep(j), NEW s \in Services, ~Worked(s)
  PROVE  Good(box', s) /\ Fair(box', s)
<1>1. Good(box, s) /\ Fair(box, s)
  BY DEF Rested
<1>2. PICK what, t, record : Recording(j, what, t, record)
  BY RecordSteps
<1>3. /\ At(j, what) /\ what \notin {"delete", "snapshot"} /\ Leaves(j, t, record, box.disk[t])
      /\ OthersKept(t) /\ Settles(j, t, record)
  BY <1>2 DEF Recording, MarkSteps, Listing
<1>4. /\ box'.disk[t] = box.disk[t] /\ box'.config[t] = record
      /\ \A u \in Services \ {t} : /\ box'.config[u] = box.config[u]
                                   /\ box'.disk[u] = box.disk[u]
  BY <1>3, LeavesParts DEF Typed, BoxTyped
<1>5. Alike(box, box', s)
  <2>1. CASE s # t
    BY <1>3, <1>4, <2>1 DEF Alike, OthersKept
  <2>2. CASE s = t
    <3>1. holder = j /\ holder # NoJob /\ (jobs[j].kind \in Backed => jobs[j].snap # 0)
      BY <1>3, AtParts, BeforeSnapshot
    <3>2. ~(jobs[j].kind \in Deploying \cup {"destroy"} /\ t = jobs[j].s)
      BY <2>2, <3>1 DEF Worked, Working, Backed
    <3> QED BY <1>3, <1>4, <2>2, <3>2 DEF Settles, Alike
  <2> QED BY <2>1, <2>2
<1>6. box'.disk[s] = box.disk[s]
  BY <1>4
<1> QED BY <1>1, <1>5, <1>6, AlikeIsGood

\* A deployment that has run through leaves what its record says, and a removal nothing.
LEMMA FinishRested ==
  ASSUME Typed, Shaped(jobs), Rested, OnItsWay, NEW j \in Jobs, Finish(j), NEW s \in Services
  PROVE  Good(box, s) /\ Fair(box, s)
<1>1. holder = j /\ holder # NoJob /\ jobs[j].todo = <<>>
  BY FinishEffect
<1>2. CASE ~Worked(s)
  BY <1>2 DEF Rested
<1>3. CASE Worked(s)
  <2>1. /\ jobs[j].kind \in Deploying \cup {"destroy"} /\ jobs[j].snap # 0 /\ jobs[j].s = s
    BY <1>1, <1>3 DEF Worked, Working
  <2>2. \A what : ~Left(<<>>, what)
    BY DEF Left
  <2>3. CASE jobs[j].kind \in Deploying
    <3> DEFINE want == jobs[j].want
    <3>1. Progress(box, s, want, <<>>)
      BY <1>1, <2>1, <2>3 DEF OnItsWay
    <3>2. want.props # 0
      BY <2>3 DEF Typed, JobsTyped, JobOK
    <3> HIDE DEF want
    <3>3. /\ box.disk[s].unit = want.props
          /\ box.disk[s].runs = <<box.disk[s].unit, box.disk[s].code>>
          /\ s \in box.cut \/ box.config[s].commit = box.disk[s].code
          /\ box.config[s].deployed # <<>> /\ box.config[s].deployed[1] = want.props
      BY <2>2, <3>1 DEF Progress
    <3> QED BY <3>2, <3>3 DEF Good, Fair, Running
  <2>4. CASE jobs[j].kind = "destroy"
    <3>1. Removed(box, s, <<>>)
      BY <1>1, <2>1, <2>4 DEF OnItsWay
    <3>2. s \notin box.index \/ s \in box.cut
      BY <3>1 DEF Removed
    <3> QED BY <3>2 DEF Good, Fair
  <2> QED BY <2>1, <2>3, <2>4
<1> QED BY <1>2, <1>3

\* A failure leaves less that is whole.
LEMMA FailRested ==
  ASSUME Typed, Shaped(jobs), Rested, NEW j \in Jobs, Fail(j), NEW s \in Services, ~Worked(s)'
  PROVE  Good(box', s) /\ Fair(box', s)
<1>1. /\ box'.index = box.index /\ box'.disk = box.disk /\ box.cut \subseteq box'.cut /\ holder = j
  BY FailEffect
<1>2. CASE Passed(j)
  <2>1. ~Worked(s)
    BY <1>1, <1>2, WorkedStill DEF Passed
  <2>2. Alike(box, box', s) /\ box'.disk[s].runs = box.disk[s].runs
    BY <1>1, <1>2 DEF Alike, Passed
  <2> QED BY <2>1, <2>2, AlikeIsGood DEF Rested
<1>3. CASE Dropped(j)
  <2>1. CASE Worked(s)
    <3>1. s \in box'.cut
      BY <1>1, <1>3, <2>1 DEF Worked, Dropped
    <3> QED BY <3>1 DEF Good, Fair
  <2>2. CASE ~Worked(s)
    <3>1. Alike(box, box', s) /\ box'.disk[s].runs = box.disk[s].runs
      BY <1>1, <1>3 DEF Alike, Dropped
    <3> QED BY <2>2, <3>1, AlikeIsGood DEF Rested
  <2> QED BY <2>1, <2>2
<1> QED BY <1>2, <1>3, FailEffect

LEMMA RestedStep ==
  ASSUME Typed, Shaped(jobs), Rested, Preserved, OnItsWay, [Next]_vars
  PROVE  Rested'
<1>1. holder # NoJob => holder \in Jobs
  BY DEF Typed
<1> SUFFICES ASSUME NEW s \in Services, ~Worked(s)'
             PROVE  Good(box', s) /\ Fair(box', s)
  BY DEF Rested
<1>2. CASE UNCHANGED vars
  <2>1. ~Worked(s) /\ box' = box
    BY <1>2 DEF vars, Worked
  <2> QED BY <2>1 DEF Rested
<1>3. ASSUME NEW t \in Services, EditOverSsh(t)
      PROVE  Good(box', s) /\ Fair(box', s)
  <2>1. ~Worked(s)
    BY <1>3, EditEffect DEF Worked
  <2>2. Alike(box, box', s) /\ box'.disk[s].runs = box.disk[s].runs
    BY <1>3, EditEffect DEF Alike
  <2> QED BY <2>1, <2>2, AlikeIsGood DEF Rested
<1>4. ASSUME NEW j \in Jobs, Ask(j)
      PROVE  Good(box', s) /\ Fair(box', s)
  <2>1. ~Worked(s) /\ box' = box
    BY <1>1, <1>4, AskEffect DEF Waits, Worked
  <2> QED BY <2>1 DEF Rested
<1>5. ASSUME NEW j \in Jobs, Begin(j)
      PROVE  Good(box', s) /\ Fair(box', s)
  <2>1. ~Worked(s) /\ box' = box
    BY <1>5, BeginEffect DEF Worked
  <2> QED BY <2>1 DEF Rested
<1>6. ASSUME NEW j \in Jobs, TakeSnapshot(j)
      PROVE  Good(box', s) /\ Fair(box', s)
  <2>1. box' = box /\ holder = j /\ jobs[j].snap = 0
    BY <1>6, TakeEffect DEF Taken
  <2>2. ~Worked(s)
    BY <2>1 DEF Worked, Working
  <2> QED BY <2>1, <2>2 DEF Rested
<1>7. ASSUME NEW j \in Jobs, Delete(j)
      PROVE  Good(box', s) /\ Fair(box', s)
  <2>1. /\ box' = box /\ holder = j /\ holder' = holder /\ Walks(j)
        /\ jobs'[j].snap = jobs[j].snap
    BY <1>7, DeleteEffect
  <2>2. ~Worked(s)
    BY <2>1, WorkedStill
  <2> QED BY <2>1, <2>2 DEF Rested
<1>8. ASSUME NEW j \in Jobs, FileStep(j) \/ RecordStep(j)
      PROVE  Good(box', s) /\ Fair(box', s)
  <2>1. /\ holder = j /\ holder' = holder /\ Walks(j) /\ jobs'[j].snap = jobs[j].snap
    BY <1>8, WorkEffect DEF Works, Untouching
  <2>2. ~Worked(s)
    BY <2>1, WorkedStill
  <2> QED BY <1>8, <2>2, FilesRested, RecordsRested
<1>9. ASSUME NEW j \in Jobs, Restore(j)
      PROVE  Good(box', s) /\ Fair(box', s)
  <2>1. PICK n \in DOMAIN snaps : box' = Back(snaps[n].box) /\ snaps[n].box \in Boxes
    BY <1>9, RestoreEffect
  <2>2. Good(snaps[n].box, s)
    BY DEF Preserved
  <2> QED BY <2>1, <2>2, BackIsGood
<1>10. ASSUME NEW j \in Jobs, Finish(j)
       PROVE  Good(box', s) /\ Fair(box', s)
  <2>1. box' = box
    BY <1>10, FinishEffect
  <2> QED BY <1>10, <2>1, FinishRested
<1>11. ASSUME NEW j \in Jobs, Fail(j)
       PROVE  Good(box', s) /\ Fair(box', s)
  BY <1>11, FailRested
<1> QED BY <1>2, <1>3, <1>4, <1>5, <1>6, <1>7, <1>8, <1>9, <1>10, <1>11, EveryStep

\* A snapshot is taken while nobody is halfway.
LEMMA PreservedStep ==
  ASSUME Typed, Shaped(jobs), Rested, Preserved, [Next]_vars
  PROVE  Preserved'
<1> SUFFICES ASSUME NEW n \in DOMAIN snaps', NEW s \in Services
             PROVE  Good(snaps'[n].box, s)
  BY DEF Preserved
<1>1. CASE snaps' = snaps
  BY <1>1 DEF Preserved
<1>2. ASSUME NEW j \in Jobs, TakeSnapshot(j)
      PROVE  Good(snaps'[n].box, s)
  <2>1. /\ holder = j /\ jobs[j].snap = 0 /\ DOMAIN snaps' = DOMAIN snaps \cup {made + 1}
        /\ \A k \in DOMAIN snaps : snaps'[k] = snaps[k]
        /\ snaps'[made + 1].box = box
    BY <1>2, TakeEffect DEF Taken
  <2>2. ~Worked(s)
    BY <2>1 DEF Worked, Working
  <2>3. Good(box, s)
    BY <2>2 DEF Rested
  <2>4. n \in DOMAIN snaps => Good(snaps[n].box, s)
    BY DEF Preserved
  <2> QED BY <2>1, <2>3, <2>4
<1>3. ASSUME NEW j \in Jobs, Delete(j)
      PROVE  Good(snaps'[n].box, s)
  <2>1. n \in DOMAIN snaps /\ snaps'[n] = snaps[n]
    BY <1>3, DeleteEffect
  <2> QED BY <2>1 DEF Preserved
<1>4. ASSUME NEW j \in Jobs,
             Ask(j) \/ Begin(j) \/ FileStep(j) \/ RecordStep(j) \/ Restore(j) \/ Finish(j) \/ Fail(j)
      PROVE  snaps' = snaps
  BY <1>4, AskEffect, BeginEffect, WorkEffect, RestoreEffect, FinishEffect, FailEffect
     DEF Waits, Works, Untouching
<1>5. UNCHANGED vars \/ (\E t \in Services : EditOverSsh(t)) => snaps' = snaps
  BY EditEffect DEF vars
<1> QED BY <1>1, <1>2, <1>3, <1>4, <1>5, EveryStep

----------------------------------------------------------------------------
(* How far a deployment or a removal has come.                                    *)

Telling == {"unit", "start", "remember", "mark"}

LEMMA LeftAfter ==
  ASSUME Typed, Shaped(jobs), NEW j \in Jobs, NEW what, At(j, what), jobs[j].kind \in Deploying
  PROVE  LET rest == Tail(jobs[j].todo) IN
         /\ what \in {"snapshot", "fetch", "environment", "build"} => \A x \in Telling : Left(rest, x)
         /\ what = "unit" => Left(rest, "start") /\ Left(rest, "remember") /\ Left(rest, "mark")
         /\ what \in {"start", "check"} => Left(rest, "remember") /\ Left(rest, "mark")
         /\ what = "remember" => Left(rest, "mark")
         /\ what \in {"start", "check", "remember", "mark"} => ~Left(jobs[j].todo, "unit")
         /\ what \in {"check", "remember", "mark"} => ~Left(jobs[j].todo, "start")
         /\ what = "mark" => ~Left(jobs[j].todo, "remember")
         /\ what \notin Telling => \A x \in Telling : ~Left(rest, x) => ~Left(jobs[j].todo, x)
<1> DEFINE rest == Tail(jobs[j].todo)
<1>1. /\ jobs[j] \in JobRecords /\ Shape(jobs[j]) /\ jobs[j].todo # <<>>
      /\ Head(jobs[j].todo)[1] = what /\ jobs[j].todo \in Seq(Entries)
  BY AtParts
<1>2. /\ \A other \in Needed : Rank(what) < Rank(other) => Left(rest, other)
      /\ \A other : Rank(other) < Rank(what) => ~Left(jobs[j].todo, other)
  BY <1>1, InOrder
<1>3. \A x : Left(jobs[j].todo, x) /\ x # what => Left(rest, x)
  BY <1>1, LeftTail
<1> HIDE DEF rest
<1>4. /\ \A x \in {"snapshot", "fetch", "environment", "build"} : Rank(x) < 5
      /\ Rank("unit") = 5 /\ Rank("start") = 6 /\ Rank("check") = 7 /\ Rank("remember") = 8
      /\ Rank("mark") = 9
  <2>1. Rank("snapshot") = 1 /\ Rank("fetch") = 2 /\ Rank("environment") = 3 /\ Rank("build") = 4
    BY Ranks
  <2>2. /\ Rank("unit") = 5 /\ Rank("start") = 6 /\ Rank("check") = 7 /\ Rank("remember") = 8
        /\ Rank("mark") = 9
    BY Ranks
  <2>3. \A x \in {"snapshot", "fetch", "environment", "build"} : Rank(x) < 5
    BY <2>1
  <2> QED BY <2>2, <2>3
<1>5. Telling \subseteq Needed
  BY DEF Telling, Needed
<1>6. \A x \in Telling : 5 <= Rank(x)
  BY <1>4 DEF Telling
<1>7. ASSUME what \in {"snapshot", "fetch", "environment", "build"}, NEW x \in Telling
      PROVE  Left(rest, x)
  <2>1. Rank(what) < 5 /\ 5 <= Rank(x)
    BY <1>4, <1>6, <1>7
  <2>2. Rank(what) < Rank(x)
    BY <2>1, RankType
  <2> QED BY <1>2, <1>5, <2>2
<1>8. /\ what = "unit" => Left(rest, "start") /\ Left(rest, "remember") /\ Left(rest, "mark")
      /\ what \in {"start", "check"} => Left(rest, "remember") /\ Left(rest, "mark")
      /\ what = "remember" => Left(rest, "mark")
  BY <1>2, <1>4 DEF Needed
<1>9. /\ what \in {"start", "check", "remember", "mark"} => ~Left(jobs[j].todo, "unit")
      /\ what \in {"check", "remember", "mark"} => ~Left(jobs[j].todo, "start")
      /\ what = "mark" => ~Left(jobs[j].todo, "remember")
  BY <1>2, <1>4
<1> QED BY <1>3, <1>7, <1>8, <1>9 DEF rest

\* A step that neither changes what runs nor what is recorded.
LEMMA SameProgress ==
  ASSUME NEW b, NEW c, NEW s, NEW want, NEW todo, NEW rest, Progress(b, s, want, todo),
         \A x \in Telling : ~Left(rest, x) => ~Left(todo, x),
         c.disk[s].unit = b.disk[s].unit, c.disk[s].code = b.disk[s].code,
         c.disk[s].runs = b.disk[s].runs, c.config[s].props = b.config[s].props,
         c.config[s].commit = b.config[s].commit, c.config[s].deployed = b.config[s].deployed,
         s \in b.cut => s \in c.cut
  PROVE  Progress(c, s, want, rest)
BY DEF Progress, Telling

LEMMA FilesProgress ==
  ASSUME Typed, Shaped(jobs), NEW j \in Jobs, FileStep(j), jobs[j].kind \in Deploying,
         Progress(box, jobs[j].s, jobs[j].want, jobs[j].todo)
  PROVE  Progress(box', jobs[j].s, jobs[j].want, Tail(jobs[j].todo))
<1> DEFINE s == jobs[j].s  want == jobs[j].want  todo == jobs[j].todo  rest == Tail(jobs[j].todo)
<1>1. PICK what, files : Filing(j, what, files) /\ Leaves(j, s, box.config[s], files) /\ SameLists
  BY FileSteps
<1>2. At(j, what) /\ what \in FileNames /\ s \in Services
  BY <1>1, FileSteps DEF Filing
<1>3. box'.disk[s] = files /\ box'.config[s] = box.config[s] /\ box'.cut = box.cut
  BY <1>1, LeavesParts DEF Typed, BoxTyped, SameLists
<1>4. Disk(j) = box.disk[s] /\ Disk(j) \in FilesOnDisk /\ want.props # 0
  BY <1>2, BoxParts DEF Disk, Typed, BoxTyped, JobsTyped, JobOK
<1>5. what \in {"fetch", "environment", "build", "unit", "start", "check"}
  <2>1. what \notin {"restart", "disable", "remove unit", "remove files"}
    BY <1>2, AtKind DEF DestroySteps, Deploying
  <2> QED BY <1>2, <2>1 DEF FileNames
<1>6. /\ what \in {"fetch", "environment", "build"} => \A x \in Telling : Left(rest, x)
      /\ what = "unit" => Left(rest, "start") /\ Left(rest, "remember") /\ Left(rest, "mark")
      /\ what \in {"start", "check"} => Left(rest, "remember") /\ Left(rest, "mark")
      /\ what \in {"start", "check"} => ~Left(todo, "unit")
      /\ what \notin Telling => \A x \in Telling : ~Left(rest, x) => ~Left(todo, x)
  BY <1>2, LeftAfter
<1> SUFFICES Progress(box', s, want, rest)
  OBVIOUS
<1>7. Progress(box, s, want, todo)
  OBVIOUS
<1> HIDE DEF rest, todo, want, s
<1>8. CASE what \in {"fetch", "environment", "build"}
  BY <1>6, <1>8 DEF Progress, Telling
<1>9. CASE what = "unit"
  <2>1. files.unit = want.props
    BY <1>1, <1>9 DEF Filing, want
  <2> QED BY <1>3, <1>6, <1>9, <2>1 DEF Progress
<1>10. CASE what = "start"
  <2>1. box.disk[s].unit = want.props
    BY <1>6, <1>7, <1>10 DEF Progress
  <2>2. files = Fresh(box.disk[s])
    BY <1>1, <1>4, <1>10 DEF Filing
  <2>3. files.unit = want.props /\ files.runs = <<files.unit, files.code>>
    BY <1>4, <2>1, <2>2, FreshType
  <2> QED BY <1>3, <1>6, <1>10, <2>3 DEF Progress
<1>11. CASE what = "check"
  <2>1. files = box.disk[s]
    BY <1>1, <1>4, <1>11 DEF Filing
  <2>2. \A x \in Telling : ~Left(rest, x) => ~Left(todo, x)
    BY <1>6, <1>11 DEF Telling
  <2> QED BY <1>3, <1>7, <2>1, <2>2, SameProgress
<1> QED BY <1>5, <1>8, <1>9, <1>10, <1>11

LEMMA RecordsProgress ==
  ASSUME Typed, Shaped(jobs), NEW j \in Jobs, RecordStep(j), jobs[j].kind \in Deploying,
         Progress(box, jobs[j].s, jobs[j].want, jobs[j].todo)
  PROVE  Progress(box', jobs[j].s, jobs[j].want, Tail(jobs[j].todo))
<1> DEFINE s == jobs[j].s  want == jobs[j].want  todo == jobs[j].todo  rest == Tail(jobs[j].todo)
<1>1. ASSUME NEW what, NEW t, NEW record, Marking(j, what, t, record)
      PROVE  /\ At(j, what) /\ t \in Services /\ box'.config[t] = record
             /\ box'.disk[t] = box.disk[t]
  <2>1. /\ At(j, what) /\ Leaves(j, t, record, box.disk[t]) /\ box \in Boxes
    BY <1>1 DEF Marking, Typed, BoxTyped
  <2>2. t \in Services
    BY <2>1 DEF Leaves
  <2> QED BY <2>1, <2>2, LeavesParts
<1>2. box \in Boxes /\ want \in Wants
  BY DEF Typed, BoxTyped, JobsTyped, JobRecords
<1>3. CASE Remember(j)
  <2>1. PICK keys : /\ Marking(j, "remember", s, Written(j, keys)) /\ "props" \in keys
                    /\ box'.cut = IF "commit" \in keys THEN box.cut \ {s} ELSE box.cut \cup {s}
    BY <1>3, RememberEffect
  <2>2. /\ At(j, "remember") /\ s \in Services /\ box'.config[s] = Written(j, keys)
        /\ box'.disk[s] = box.disk[s]
    BY <1>1, <2>1
  <2>3. /\ Written(j, keys).props = want.props
        /\ "commit" \in keys => Written(j, keys).commit = box.disk[s].code
    <3>1. Within(box, made)
      BY DEF Typed, BoxTyped
    <3>2. /\ "props" \in keys => Written(j, keys).props = jobs[j].want.props
          /\ "commit" \in keys => Written(j, keys).commit = Disk(j).code
      BY <1>2, <2>2, <3>1, WrittenType
    <3> QED BY <2>1, <3>2 DEF Disk
  <2>4. Left(rest, "mark") /\ ~Left(todo, "unit") /\ ~Left(todo, "start")
    BY <2>2, LeftAfter
  <2> HIDE DEF rest, todo, want, s
  <2>5. Progress(box, s, want, todo)
    BY DEF rest, todo, want, s
  <2>6. Progress(box', s, want, rest)
    BY <2>1, <2>2, <2>3, <2>4, <2>5 DEF Progress
  <2> QED BY <2>6 DEF rest, want, s
<1>4. CASE MarkDeployed(j)
  <2> DEFINE record == [Config(j) EXCEPT !.deployed = Fingerprint(box, s)]
  <2>1. Marking(j, "mark", s, record) /\ SameLists
    BY <1>4, MarkEffect
  <2>2. /\ At(j, "mark") /\ s \in Services /\ box'.config[s] = record
        /\ box'.disk[s] = box.disk[s] /\ box'.cut = box.cut
    BY <1>1, <2>1 DEF SameLists
  <2>3. Config(j) \in AnyRecord /\ Config(j) = box.config[s]
    BY <1>2, <2>2, BoxParts DEF Config
  <2>4. /\ record.props = box.config[s].props /\ record.commit = box.config[s].commit
        /\ record.deployed = Fingerprint(box, s)
    BY <2>3 DEF AnyRecord
  <2>5. Fingerprint(box, s) # <<>> /\ Fingerprint(box, s)[1] = box.config[s].props
    BY <1>2, <2>2, BoxParts
  <2>6. ~Left(todo, "remember") /\ ~Left(todo, "unit") /\ ~Left(todo, "start")
    BY <2>2, LeftAfter
  <2> HIDE DEF rest, todo, want, s, record
  <2>7. Progress(box, s, want, todo)
    BY DEF rest, todo, want, s
  <2>8. Progress(box', s, want, rest)
    BY <2>2, <2>4, <2>5, <2>6, <2>7 DEF Progress
  <2> QED BY <2>8 DEF rest, want, s
<1>5. CASE MarkHealthy(j)
  <2> DEFINE record == [Config(j) EXCEPT !.healthy = jobs[j].snap]
  <2>1. Marking(j, "healthy", s, record) /\ SameLists
    BY <1>5, HealthyEffect
  <2>2. /\ At(j, "healthy") /\ s \in Services /\ box'.config[s] = record
        /\ box'.disk[s] = box.disk[s] /\ box'.cut = box.cut
    BY <1>1, <2>1 DEF SameLists
  <2>3. Config(j) \in AnyRecord /\ Config(j) = box.config[s]
    BY <1>2, <2>2, BoxParts DEF Config
  <2>4. /\ record.props = box.config[s].props /\ record.commit = box.config[s].commit
        /\ record.deployed = box.config[s].deployed
    BY <2>3 DEF AnyRecord
  <2>5. \A x \in Telling : ~Left(rest, x) => ~Left(todo, x)
    <3>1. "healthy" \notin Telling
      BY DEF Telling
    <3> QED BY <2>2, <3>1, LeftAfter
  <2> HIDE DEF rest, todo, want, s, record
  <2>6. Progress(box, s, want, todo)
    BY DEF rest, todo, want, s
  <2>7. Progress(box', s, want, rest)
    BY <2>2, <2>4, <2>5, <2>6, SameProgress
  <2> QED BY <2>7 DEF rest, want, s
<1>6. ~(Forget(j) \/ ForgetSome(j) \/ ForgetHealthy(j) \/ SaveProperty(j) \/ WriteIndex(j))
  <2>1. \A what \in {"forget", "unset healthy", "set deployed", "set props", "set more", "index",
                     "empty index"} : ~At(j, what)
    BY AtKind DEF Deploying, DestroySteps
  <2> QED BY <2>1 DEF Forget, ForgetSome, ForgetHealthy, SaveProperty, WriteIndex, Note
<1> QED BY <1>3, <1>4, <1>5, <1>6 DEF RecordStep

LEMMA StillListed ==
  ASSUME Typed, Shaped(jobs), NEW j \in Jobs, NEW what, At(j, what), jobs[j].kind = "destroy",
         what \notin Listing
  PROVE  \A b, s : Removed(b, s, Tail(jobs[j].todo))
<1>1. /\ jobs[j].todo \in Seq(Entries) /\ jobs[j].todo # <<>> /\ jobs[j].todo[1][1] = what
      /\ 1 \in DOMAIN jobs[j].todo /\ Shape(jobs[j])
  BY AtParts
<1>2. PICK k \in DOMAIN jobs[j].todo : k > 1 /\ jobs[j].todo[k][1] \in Listing
  BY <1>1 DEF Shape
<1>3. k - 1 \in DOMAIN Tail(jobs[j].todo) /\ Tail(jobs[j].todo)[k - 1] = jobs[j].todo[k]
  BY <1>1, <1>2, TailParts
<1> QED BY <1>2, <1>3 DEF Removed

\* The way of one job.
Along(job, b) ==
  job.snap # 0 =>
    /\ job.kind \in Deploying => Progress(b, job.s, job.want, job.todo)
    /\ job.kind = "destroy" => Removed(b, job.s, job.todo)

LEMMA AlongTold ==
  /\ OnItsWay <=> (holder # NoJob => Along(jobs[holder], box))
  /\ OnItsWay' <=> (holder' # NoJob => Along(jobs'[holder'], box'))
BY DEF OnItsWay, Along

\* A step that is passed over tells nothing.
LEMMA PassedAlong ==
  ASSUME Typed, Shaped(jobs), NEW j \in Jobs, Fail(j), Passed(j), Along(jobs[j], box)
  PROVE  Along(jobs'[j], box')
<1>1. /\ box'.index = box.index /\ box'.disk = box.disk /\ box.cut \subseteq box'.cut
      /\ box'.config = box.config /\ holder = j /\ jobs[j].todo # <<>>
  BY FailEffect DEF Passed, Fail
<1>2. /\ jobs'[j].todo = Tail(jobs[j].todo) /\ jobs'[j].kind = jobs[j].kind /\ jobs'[j].s = jobs[j].s
      /\ jobs'[j].want = jobs[j].want /\ jobs'[j].snap = jobs[j].snap
  BY DEF Passed, Walks
<1> SUFFICES ASSUME jobs[j].snap # 0
             PROVE  /\ jobs[j].kind \in Deploying =>
                         Progress(box', jobs[j].s, jobs[j].want, Tail(jobs[j].todo))
                    /\ jobs[j].kind = "destroy" => Removed(box', jobs[j].s, Tail(jobs[j].todo))
  BY <1>2 DEF Along
<1> DEFINE what == Head(jobs[j].todo)[1]
<1>3. At(j, what)
  BY <1>1 DEF At
<1>4. jobs[j].kind \in Backed => what # "delete"
  BY <1>3, BeforeSnapshot
<1>5. jobs[j].kind \in Backed => what \in Optional
  BY <1>4 DEF Passed, At
<1> HIDE DEF what
<1>6. CASE jobs[j].kind \in Deploying
  <2>1. what \notin Telling
    BY <1>5, <1>6 DEF Optional, Telling, Backed
  <2>2. \A x \in Telling : ~Left(Tail(jobs[j].todo), x) => ~Left(jobs[j].todo, x)
    BY <1>3, <1>6, <2>1, LeftAfter
  <2>3. Progress(box, jobs[j].s, jobs[j].want, jobs[j].todo)
    BY <1>6 DEF Along
  <2>4. Progress(box', jobs[j].s, jobs[j].want, Tail(jobs[j].todo))
    BY <1>1, <2>2, <2>3, SameProgress
  <2>5. jobs[j].kind # "destroy"
    BY <1>6 DEF Deploying
  <2> QED BY <2>4, <2>5
<1>7. CASE jobs[j].kind = "destroy"
  <2>1. CASE what \notin Listing
    BY <1>3, <1>7, <2>1, StillListed DEF Deploying
  <2>2. CASE what \in Listing
    <3>1. what = "empty index"
      BY <1>5, <1>7, <2>2 DEF Listing, Optional, Backed
    <3>2. jobs[j].s \in box'.cut
      BY <1>3, <3>1 DEF Passed
    <3> QED BY <1>7, <3>2 DEF Removed, Deploying
  <2> QED BY <2>1, <2>2
<1> QED BY <1>6, <1>7

LEMMA OnItsWayStep ==
  ASSUME Typed, Shaped(jobs), OnItsWay, [Next]_vars
  PROVE  OnItsWay'
<1>1. holder # NoJob => Along(jobs[holder], box) /\ holder \in Jobs
  BY AlongTold DEF Typed
<1> SUFFICES ASSUME holder' # NoJob
             PROVE  Along(jobs'[holder'], box')
  BY AlongTold
<1>2. CASE UNCHANGED vars
  BY <1>1, <1>2 DEF vars
<1>3. ASSUME NEW s \in Services, EditOverSsh(s)
      PROVE  Along(jobs'[holder'], box')
  <2> DEFINE job == jobs[holder]
  <2>1. holder' = holder /\ jobs' = jobs /\ holder \in Jobs /\ Along(job, box)
    BY <1>1, <1>3, EditEffect
  <2> SUFFICES ASSUME job.snap # 0
               PROVE  /\ job.kind \in Deploying => Progress(box', job.s, job.want, job.todo)
                      /\ job.kind = "destroy" => Removed(box', job.s, job.todo)
    BY <2>1 DEF Along
  <2>2. /\ box'.index = box.index /\ box'.cut = box.cut /\ box'.config = box.config
        /\ \A t \in Services : /\ box'.disk[t].unit = box.disk[t].unit
                               /\ box'.disk[t].code = box.disk[t].code
                               /\ box'.disk[t].runs = box.disk[t].runs
    BY <1>3, EditEffect
  <2>3. job.kind \in Deploying => job.s \in Services
    BY <2>1 DEF Typed, JobsTyped, JobOK, Backed
  <2> HIDE DEF job
  <2>4. job.kind \in Deploying => Progress(box', job.s, job.want, job.todo)
    BY <2>1, <2>2, <2>3, SameProgress DEF Along
  <2>5. job.kind = "destroy" => Removed(box', job.s, job.todo)
    BY <2>1, <2>2 DEF Along, Removed
  <2> QED BY <2>4, <2>5
<1>4. ASSUME NEW j \in Jobs, Ask(j)
      PROVE  Along(jobs'[holder'], box')
  BY <1>1, <1>4, AskEffect DEF Waits
<1>5. ASSUME NEW j \in Jobs, Begin(j)
      PROVE  Along(jobs'[holder'], box')
  BY <1>5, BeginEffect DEF Starts, Along
<1>6. ASSUME NEW j \in Jobs, TakeSnapshot(j)
      PROVE  Along(jobs'[holder'], box')
  <2>1. /\ At(j, "snapshot") /\ holder' = j /\ jobs'[j].todo = Tail(jobs[j].todo)
        /\ jobs'[j].kind = jobs[j].kind
    BY <1>6, TakeEffect DEF Taken, Walks
  <2>2. ASSUME jobs[j].kind \in Deploying
        PROVE  \A s, want : Progress(box', s, want, Tail(jobs[j].todo))
    <3>1. \A x \in Telling : Left(Tail(jobs[j].todo), x)
      BY <2>1, <2>2, LeftAfter
    <3> QED BY <3>1 DEF Progress, Telling
  <2>3. ASSUME jobs[j].kind = "destroy"
        PROVE  \A s : Removed(box', s, Tail(jobs[j].todo))
    <3>1. "snapshot" \notin Listing
      BY DEF Listing
    <3> QED BY <2>1, <2>3, <3>1, StillListed
  <2> QED BY <2>1, <2>2, <2>3 DEF Along
<1>7. ASSUME NEW j \in Jobs, Delete(j)
      PROVE  Along(jobs'[holder'], box')
  <2>1. /\ holder' = j /\ jobs'[j].kind = jobs[j].kind /\ jobs'[j].snap = jobs[j].snap
        /\ jobs[j].kind \in Deploying \cup {"removal"}
        /\ jobs[j].kind \in Deploying => jobs[j].snap = 0
    BY <1>7, DeleteEffect DEF Walks
  <2> QED BY <2>1 DEF Along, Deploying
<1>8. ASSUME NEW j \in Jobs, FileStep(j) \/ RecordStep(j)
      PROVE  Along(jobs'[holder'], box')
  <2>1. /\ holder = j /\ holder' = j /\ Walks(j) /\ jobs'[j].snap = jobs[j].snap
    BY <1>8, WorkEffect DEF Works, Untouching
  <2>2. /\ jobs'[j].todo = Tail(jobs[j].todo) /\ jobs'[j].kind = jobs[j].kind
        /\ jobs'[j].s = jobs[j].s /\ jobs'[j].want = jobs[j].want
    BY <2>1 DEF Walks
  <2> SUFFICES ASSUME jobs[j].snap # 0
               PROVE  /\ jobs[j].kind \in Deploying =>
                           Progress(box', jobs[j].s, jobs[j].want, Tail(jobs[j].todo))
                      /\ jobs[j].kind = "destroy" => Removed(box', jobs[j].s, Tail(jobs[j].todo))
    BY <2>1, <2>2 DEF Along
  <2>3. CASE jobs[j].kind \in Deploying
    <3>1. holder # NoJob
      BY <2>1, DeploymentsAssumption
    <3>2. Progress(box, jobs[j].s, jobs[j].want, jobs[j].todo)
      BY <1>1, <2>1, <2>3, <3>1 DEF Along
    <3>3. Progress(box', jobs[j].s, jobs[j].want, Tail(jobs[j].todo))
      BY <1>8, <2>3, <3>2, FilesProgress, RecordsProgress
    <3>4. jobs[j].kind # "destroy"
      BY <2>3 DEF Deploying
    <3> QED BY <3>3, <3>4
  <2>4. CASE jobs[j].kind = "destroy"
    <3>1. jobs[j].kind \notin Deploying
      BY <2>4 DEF Deploying
    <3>2. CASE WriteIndex(j)
      <4>1. jobs[j].s \notin box'.index
        BY <3>2, IndexEffect
      <4> QED BY <3>1, <4>1 DEF Removed
    <3>3. CASE ~WriteIndex(j)
      <4>1. PICK what : At(j, what) /\ what \notin Listing
        <5>1. CASE FileStep(j)
          <6>1. PICK what, files : Filing(j, what, files)
            BY <5>1, FileSteps
          <6> QED BY <6>1 DEF Filing, FileNames, Listing
        <5>2. CASE RecordStep(j)
          <6>1. \/ At(j, "remember") \/ At(j, "mark") \/ At(j, "healthy") \/ At(j, "forget")
                \/ At(j, "unset healthy") \/ At(j, "set deployed") \/ At(j, "set props")
                \/ At(j, "set more")
            BY <3>3, <5>2 DEF RecordStep, Remember, MarkDeployed, MarkHealthy, Forget, ForgetSome,
                              ForgetHealthy, SaveProperty, Note
          <6> DEFINE due == Head(jobs[j].todo)[1]
          <6>2. /\ At(j, due)
                /\ due \in {"remember", "mark", "healthy", "forget", "unset healthy", "set deployed",
                           "set props", "set more"}
            BY <6>1 DEF At
          <6> HIDE DEF due
          <6>3. due \notin Listing
            BY <6>2 DEF Listing
          <6> QED BY <6>2, <6>3
        <5> QED BY <1>8, <5>1, <5>2
      <4> QED BY <2>4, <3>1, <4>1, StillListed
    <3> QED BY <3>2, <3>3
  <2> QED BY <2>3, <2>4
<1>9. ASSUME NEW j \in Jobs, Restore(j)
      PROVE  Along(jobs'[holder'], box')
  BY <1>9, RestoreEffect DEF Untouching, Walks, Along, Deploying
<1>10. ASSUME NEW j \in Jobs, Fail(j)
       PROVE  Along(jobs'[holder'], box')
  <2>1. Passed(j) /\ holder = j /\ holder' = j
    BY <1>10, FailEffect DEF Dropped, Passed
  <2>2. holder # NoJob
    BY <2>1, DeploymentsAssumption
  <2> QED BY <1>1, <1>10, <2>1, <2>2, PassedAlong
<1>11. \A j \in Jobs : ~Finish(j)
  BY FinishEffect
<1> QED BY <1>2, <1>3, <1>4, <1>5, <1>6, <1>7, <1>8, <1>9, <1>10, <1>11, EveryStep

----------------------------------------------------------------------------
(* Whose snapshots are whose.                                                    *)

\* The snapshots a deployment is to delete.
Chosen(job, b, ss) ==
  job.kind \in Deploying =>
    \A i \in DOMAIN job.todo :
      job.todo[i][1] = "delete" =>
        /\ job.todo[i][2] # b.config[job.s].healthy
        /\ job.todo[i][2] \in DOMAIN ss => ss[job.todo[i][2]].of = job.s

LEMMA OwnedTold ==
  ASSUME Longer = {}
  PROVE  /\ Owned <=> /\ Own(box, snaps) /\ \A n \in DOMAIN snaps : Own(snaps[n].box, snaps)
                      /\ holder # NoJob => Chosen(jobs[holder], box, snaps)
         /\ Owned' <=> /\ Own(box', snaps') /\ \A n \in DOMAIN snaps' : Own(snaps'[n].box, snaps')
                       /\ holder' # NoJob => Chosen(jobs'[holder'], box', snaps')
<1>1. Owned <=> /\ Own(box, snaps) /\ \A n \in DOMAIN snaps : Own(snaps[n].box, snaps)
                /\ holder # NoJob => Chosen(jobs[holder], box, snaps)
  BY DEF Owned, Chosen
<1>2. Owned' <=> /\ Own(box', snaps') /\ \A n \in DOMAIN snaps' : Own(snaps'[n].box, snaps')
                 /\ holder' # NoJob => Chosen(jobs'[holder'], box', snaps')
  BY DEF Owned, Chosen
<1> QED BY <1>1, <1>2

\* Once its snapshot is taken a deployment deletes nothing.
LEMMA ChosenLater ==
  ASSUME Typed', Shaped(jobs'), NEW j \in Jobs, holder' = j, jobs'[j].snap # 0
  PROVE  \A b, ss : Chosen(jobs'[j], b, ss)
<1>1. jobs'[j].pc = "running"
  BY DEF Typed, JobsTyped
<1>2. Shape(jobs'[j])
  BY <1>1 DEF Shaped, Planned
<1>3. jobs'[j].kind \in Deploying => \A i \in DOMAIN jobs'[j].todo : jobs'[j].todo[i][1] # "delete"
  BY <1>2 DEF Shape, Backed
<1> QED BY <1>3 DEF Chosen

LEMMA ChosenTail ==
  ASSUME NEW job, NEW next, NEW b, NEW c, NEW ss, NEW ts, Chosen(job, b, ss),
         job.todo \in Seq(Entries), job.todo # <<>>,
         next.kind = job.kind, next.s = job.s, next.todo = Tail(job.todo),
         c.config[job.s].healthy = b.config[job.s].healthy,
         DOMAIN ts \subseteq DOMAIN ss, \A n \in DOMAIN ts : ts[n] = ss[n]
  PROVE  Chosen(next, c, ts)
<1>1. \A i \in DOMAIN Tail(job.todo) : i + 1 \in DOMAIN job.todo /\ Tail(job.todo)[i] = job.todo[i + 1]
  BY TailParts
<1> QED BY <1>1 DEF Chosen

LEMMA OwnedStep ==
  ASSUME Typed, Shaped(jobs), HeldBack, Owned, [Next]_vars
  PROVE  Owned'
<1> SUFFICES ASSUME Longer = {}
             PROVE  Owned'
  BY DEF Owned
<1>1. /\ Own(box, snaps) /\ \A n \in DOMAIN snaps : Own(snaps[n].box, snaps)
      /\ holder # NoJob => Chosen(jobs[holder], box, snaps) /\ holder \in Jobs
  BY OwnedTold DEF Typed
<1>2. /\ box \in Boxes /\ Within(box, made) /\ made \in Nat /\ DOMAIN snaps \subseteq 1..made
      /\ \A n \in DOMAIN snaps : Within(snaps[n].box, made)
      /\ holder # NoJob <=> holder \in Jobs
  BY DeploymentsAssumption DEF Typed, BoxTyped, SnapsTyped
<1> SUFFICES /\ Own(box', snaps') /\ \A n \in DOMAIN snaps' : Own(snaps'[n].box, snaps')
             /\ holder' # NoJob => Chosen(jobs'[holder'], box', snaps')
  BY OwnedTold
<1> DEFINE Goal == /\ Own(box', snaps') /\ \A n \in DOMAIN snaps' : Own(snaps'[n].box, snaps')
                   /\ holder' # NoJob => Chosen(jobs'[holder'], box', snaps')
<1>3. CASE UNCHANGED vars
  BY <1>1, <1>3 DEF vars
<1>4. ASSUME NEW s \in Services, EditOverSsh(s)
      PROVE  Goal
  <2>1. box'.config = box.config /\ snaps' = snaps /\ jobs' = jobs /\ holder' = holder
    BY <1>4, EditEffect
  <2> QED BY <1>1, <2>1 DEF Own, Chosen
<1>5. ASSUME NEW j \in Jobs, Ask(j)
      PROVE  Goal
  BY <1>1, <1>5, AskEffect DEF Waits
<1>6. ASSUME NEW j \in Jobs, Begin(j)
      PROVE  Goal
  <2>1. box' = box /\ snaps' = snaps /\ (holder' = NoJob \/ Starts(j))
    BY <1>6, BeginEffect
  <2>2. ASSUME Starts(j)
        PROVE  Chosen(jobs'[holder'], box', snaps')
    <3>1. /\ holder' = j /\ jobs'[j].kind = jobs[j].kind /\ jobs'[j].s = jobs[j].s
          /\ jobs[j].kind \in Deploying =>
               Deleting(jobs'[j].todo, Prunable(jobs[j].s, box.config[jobs[j].s].healthy))
      BY <2>2 DEF Starts
    <3>2. \A s, healthy : \A n \in Prunable(s, healthy) : n # healthy /\ snaps[n].of = s
      BY DEF Prunable, Mine, OfService
    <3> DEFINE job == jobs'[j]  healthy == box.config[jobs[j].s].healthy  s == jobs[j].s
    <3>3. /\ job.s = s /\ healthy = box.config[s].healthy
          /\ job.kind \in Deploying => Deleting(job.todo, Prunable(s, healthy))
      BY <3>1
    <3> HIDE DEF job, healthy, s
    <3>4. Chosen(job, box, snaps)
      <4> SUFFICES ASSUME job.kind \in Deploying, NEW i \in DOMAIN job.todo, job.todo[i][1] = "delete"
                   PROVE  /\ job.todo[i][2] # box.config[job.s].healthy
                          /\ job.todo[i][2] \in DOMAIN snaps => snaps[job.todo[i][2]].of = job.s
        BY DEF Chosen
      <4>1. PICK n \in Prunable(s, healthy) : job.todo[i] = <<"delete", n>>
        BY <3>3 DEF Deleting
      <4>2. n # healthy /\ snaps[n].of = s /\ job.todo[i][2] = n
        BY <3>2, <4>1
      <4> QED BY <3>3, <4>2
    <3> QED BY <2>1, <3>1, <3>4 DEF job
  <2> QED BY <1>1, <2>1, <2>2
<1>7. ASSUME NEW j \in Jobs, TakeSnapshot(j)
      PROVE  Goal
  <2>1. /\ Taken(j) /\ Typed' /\ Shaped(jobs') /\ holder' = j /\ jobs'[j].snap = made + 1
    BY <1>7, TakeEffect DEF Taken
  <2>2. /\ box' = box /\ DOMAIN snaps' = DOMAIN snaps \cup {made + 1} /\ snaps'[made + 1].box = box
        /\ \A k \in DOMAIN snaps : snaps'[k] = snaps[k]
    BY <2>1 DEF Taken
  <2>3. ASSUME NEW b, Own(b, snaps), Within(b, made)
        PROVE  Own(b, snaps')
    <3>1. \A s \in Services : b.config[s].healthy # made + 1
      BY <1>2, <2>3 DEF Within
    <3> QED BY <2>2, <2>3, <3>1 DEF Own
  <2>4. made + 1 # 0
    BY <1>2
  <2>5. Chosen(jobs'[holder'], box', snaps')
    BY <2>1, <2>4, ChosenLater
  <2> QED BY <1>1, <1>2, <2>2, <2>3, <2>5
<1>8. ASSUME NEW j \in Jobs, Delete(j)
      PROVE  Goal
  <2>1. /\ holder = j /\ holder' = j /\ box' = box /\ jobs'[j].todo = Tail(jobs[j].todo)
        /\ jobs'[j].kind = jobs[j].kind /\ jobs'[j].s = jobs[j].s
        /\ DOMAIN snaps' \subseteq DOMAIN snaps /\ \A n \in DOMAIN snaps' : snaps'[n] = snaps[n]
    BY <1>8, DeleteEffect DEF Walks
  <2>2. jobs[j].todo \in Seq(Entries) /\ jobs[j].todo # <<>>
    BY <1>8, AtParts DEF Delete
  <2>3. ASSUME NEW b, Own(b, snaps)
        PROVE  Own(b, snaps')
    BY <2>1, <2>3 DEF Own
  <2>4. Chosen(jobs[j], box, snaps)
    BY <1>1, <1>2, <2>1
  <2>5. Chosen(jobs'[j], box', snaps')
    <3>1. box'.config[jobs[j].s].healthy = box.config[jobs[j].s].healthy
      BY <2>1
    <3> QED BY <2>1, <2>2, <2>4, <3>1, ChosenTail
  <2> QED BY <1>1, <2>1, <2>3, <2>5
<1>9. ASSUME NEW j \in Jobs, FileStep(j) \/ RecordStep(j)
      PROVE  Goal
  <2>1. /\ Typed' /\ Shaped(jobs') /\ Works(j)
    BY <1>9, WorkEffect
  <2>2. /\ holder = j /\ holder' = j /\ snaps' = snaps /\ jobs'[j].snap = jobs[j].snap
        /\ jobs'[j].kind = jobs[j].kind
        /\ jobs[j].kind \in Backed => jobs[j].snap # 0
        /\ \A s \in Services :
             \/ box'.config[s].healthy \in {box.config[s].healthy, 0}
             \/ /\ jobs[j].kind \in Deploying /\ s = jobs[j].s
                /\ box'.config[s].healthy = jobs[j].snap
    BY <2>1 DEF Works, Walks, Untouching
  <2>3. jobs[j].kind \in Deploying => snaps[jobs[j].snap].of = jobs[j].s
    BY <1>2, <2>2 DEF HeldBack, Backed
  <2>4. 0 \notin DOMAIN snaps
    BY <1>2
  <2>5. Own(box', snaps')
    BY <1>1, <2>2, <2>3, <2>4 DEF Own
  <2>6. Chosen(jobs'[j], box', snaps')
    <3>1. CASE jobs[j].kind \in Deploying
      BY <2>1, <2>2, <3>1, ChosenLater DEF Backed
    <3>2. CASE jobs[j].kind \notin Deploying
      BY <2>2, <3>2 DEF Chosen
    <3> QED BY <3>1, <3>2
  <2> QED BY <1>1, <2>2, <2>5, <2>6
<1>10. ASSUME NEW j \in Jobs, Restore(j)
       PROVE  Goal
  <2>1. /\ jobs[j].kind = "rollback" /\ jobs'[j].kind = "rollback" /\ snaps' = snaps /\ holder' = j
    BY <1>10, RestoreEffect DEF Walks, Untouching
  <2>2. PICK n \in DOMAIN snaps : box' = Back(snaps[n].box) /\ snaps[n].box \in Boxes
    BY <1>10, RestoreEffect
  <2>3. box'.config = snaps[n].box.config
    BY <2>2, BackParts
  <2>4. Own(box', snaps')
    BY <1>1, <2>1, <2>3 DEF Own
  <2> QED BY <1>1, <2>1, <2>4 DEF Chosen, Deploying
<1>11. ASSUME NEW j \in Jobs, Finish(j)
       PROVE  Goal
  BY <1>1, <1>11, FinishEffect
<1>12. ASSUME NEW j \in Jobs, Fail(j)
       PROVE  Goal
  <2>1. snaps' = snaps /\ holder = j
    BY <1>12, FailEffect
  <2>2. CASE Dropped(j)
    <3>1. Own(box', snaps')
      BY <1>1, <2>1, <2>2 DEF Own, Dropped
    <3> QED BY <1>1, <2>1, <2>2, <3>1 DEF Dropped
  <2>3. CASE Passed(j)
    <3>1. /\ holder' = j /\ box'.config = box.config /\ jobs'[j].todo = Tail(jobs[j].todo)
          /\ jobs'[j].kind = jobs[j].kind /\ jobs'[j].s = jobs[j].s
      BY <2>1, <2>3 DEF Passed, Walks
    <3>2. Own(box', snaps')
      BY <1>1, <2>1, <3>1 DEF Own
    <3>3. jobs[j].todo \in Seq(Entries) /\ jobs[j].todo # <<>>
      BY <1>12 DEF Fail, Typed, JobsTyped, JobRecords
    <3>4. Chosen(jobs[j], box, snaps)
      BY <1>1, <1>2, <2>1
    <3>5. Chosen(jobs'[j], box', snaps')
      BY <2>1, <3>1, <3>3, <3>4, ChosenTail
    <3> QED BY <1>1, <2>1, <3>1, <3>2, <3>5
  <2> QED BY <1>12, <2>2, <2>3, FailEffect
<1> QED BY <1>3, <1>4, <1>5, <1>6, <1>7, <1>8, <1>9, <1>10, <1>11, <1>12, EveryStep

----------------------------------------------------------------------------
(* The room snapshots take.                                                      *)

\* The snapshots of a service, those a job has no step to delete, and the room they take.
MineIn(ss, s) ==
  {n \in DOMAIN ss : ss[n].kind = "deploy" /\ (ss[n].of = s \/ <<s, ss[n].of>> \in Longer)}
SparedIn(ss, job) ==
  {n \in MineIn(ss, job.s) : \A i \in DOMAIN job.todo : job.todo[i] # <<"delete", n>>}
Fitting(job, ss) ==
  job.kind \in Deploying =>
    IF job.snap = 0 THEN Cardinality(SparedIn(ss, job)) <= Keep + 1
    ELSE Cardinality(MineIn(ss, job.s)) <= Keep + 2

LEMMA FittingTold ==
  /\ Bounded /\ NotPilingUp <=> (holder # NoJob /\ faults = 0 => Fitting(jobs[holder], snaps))
  /\ (Bounded /\ NotPilingUp)' <=>
       (holder' # NoJob /\ faults' = 0 => Fitting(jobs'[holder'], snaps'))
<1>1. /\ \A s : Mine(s) = MineIn(snaps, s) /\ Mine(s)' = MineIn(snaps', s)
      /\ \A j : Spared(j) = SparedIn(snaps, jobs[j]) /\ Spared(j)' = SparedIn(snaps', jobs'[j])
  BY DEF Mine, OfService, MineIn, Spared, SparedIn
<1>2. Bounded /\ NotPilingUp <=> (holder # NoJob /\ faults = 0 => Fitting(jobs[holder], snaps))
  BY <1>1 DEF Bounded, NotPilingUp, Fitting, Deploying
<1>3. (Bounded /\ NotPilingUp)' <=>
        (holder' # NoJob /\ faults' = 0 => Fitting(jobs'[holder'], snaps'))
  BY <1>1 DEF Bounded, NotPilingUp, Fitting, Deploying
<1> QED BY <1>2, <1>3

LEMMA Fewer ==
  ASSUME NEW S, NEW T \in SUBSET S, IsFiniteSet(S), NEW c \in Nat, Cardinality(S) <= c
  PROVE  IsFiniteSet(T) /\ Cardinality(T) <= c /\ Cardinality(T) \in Nat
BY FS_Subset, FS_CardinalityType

LEMMA OneMore ==
  ASSUME NEW S, NEW x, NEW T \in SUBSET (S \cup {x}), IsFiniteSet(S), NEW c \in Nat, Cardinality(S) <= c
  PROVE  Cardinality(T) <= c + 1
<1>1. /\ IsFiniteSet(S \cup {x}) /\ Cardinality(S) \in Nat
      /\ Cardinality(S \cup {x}) = IF x \in S THEN Cardinality(S) ELSE Cardinality(S) + 1
  BY FS_AddElement, FS_CardinalityType
<1>2. Cardinality(S \cup {x}) <= c + 1 /\ c + 1 \in Nat
  BY <1>1
<1> QED BY <1>1, <1>2, Fewer

\* The names of the snapshots of a service are in order.
LEMMA ByName ==
  ASSUME Typed, NEW s, NEW ns \in SUBSET Nat, IsFiniteSet(ns)
  PROVE  LET after == [n \in ns |-> {m \in ns : SortsAfter(m, n, s)}] IN
         /\ Ranking(ns, after)
         /\ \A n \in ns : after[n] = {m \in ns : SortsAfter(m, n, s)}
<1> DEFINE after == [n \in ns |-> {m \in ns : SortsAfter(m, n, s)}]
<1>1. /\ after \in [ns -> SUBSET ns]
      /\ \A n \in ns : after[n] = {m \in ns : SortsAfter(m, n, s)}
  OBVIOUS
<1> HIDE DEF after
<1>2. \A n \in ns : ~SortsAfter(n, n, s)
  BY DEF SortsAfter
<1>3. \A k, m, n \in ns : SortsAfter(k, m, s) /\ SortsAfter(m, n, s) => SortsAfter(k, n, s)
  BY DEF SortsAfter
<1>4. \A m, n \in ns : m # n => SortsAfter(m, n, s) \/ SortsAfter(n, m, s)
  BY DEF SortsAfter
<1>5. \A n \in ns : n \notin after[n]
  BY <1>1, <1>2
<1>6. ASSUME NEW n \in ns, NEW m \in after[n], NEW k \in after[m]
      PROVE  k \in after[n]
  <2>1. m \in ns /\ SortsAfter(m, n, s)
    BY <1>1
  <2>2. k \in ns /\ SortsAfter(k, m, s)
    BY <1>1, <2>1
  <2>3. SortsAfter(k, n, s)
    BY <1>3, <2>1, <2>2
  <2> QED BY <1>1, <2>2, <2>3
<1>7. ASSUME NEW m \in ns, NEW n \in ns, m # n
      PROVE  m \in after[n] \/ n \in after[m]
  BY <1>1, <1>4, <1>7
<1>8. Ranking(ns, after)
  BY <1>1, <1>5, <1>6, <1>7 DEF Ranking
<1> QED BY <1>1, <1>8 DEF after

\* What is not pruned is one that is known to work, and Keep others.
LEMMA Pruned ==
  ASSUME Typed, NEW s, NEW healthy
  PROVE  Cardinality(Mine(s) \ Prunable(s, healthy)) <= Keep + 1
<1> DEFINE ns == Mine(s) \ {healthy}
           few == {n \in ns : ~(Cardinality({m \in ns : SortsAfter(m, n, s)}) >= Keep)}
<1>1. ns \in SUBSET Nat /\ IsFiniteSet(ns)
  BY PrunableSet, FS_Subset
<1>2. Mine(s) \ Prunable(s, healthy) \in SUBSET (few \cup {healthy})
  BY DEF Prunable
<1>3. IsFiniteSet(few) /\ Cardinality(few) <= Keep
  <2> HIDE DEF ns
  <2> DEFINE after == [n \in ns |-> {m \in ns : SortsAfter(m, n, s)}]
  <2>1. Ranking(ns, after) /\ \A n \in ns : after[n] = {m \in ns : SortsAfter(m, n, s)}
    BY <1>1, ByName
  <2> HIDE DEF after
  <2> DEFINE least == {n \in ns : ~(Cardinality(after[n]) >= Keep)}
  <2>2. Keep \in Nat
    BY DeploymentsAssumption
  <2>3. IsFiniteSet(least) /\ Cardinality(least) <= Keep
    BY <2>1, <2>2, FirstOnes
  <2>4. least = few
    BY <2>1
  <2> QED BY <2>3, <2>4
<1>4. Keep \in Nat
  BY DeploymentsAssumption
<1> HIDE DEF few
<1> QED BY <1>2, <1>3, <1>4, OneMore

LEMMA FaultsStay ==
  ASSUME Typed, [Next]_vars, faults' = 0
  PROVE  faults = 0
<1>1. faults \in Nat
  BY DeploymentsAssumption DEF Typed
<1>2. CASE UNCHANGED vars
  BY <1>2 DEF vars
<1>3. ASSUME NEW s \in Services, EditOverSsh(s)
      PROVE  faults = 0
  BY <1>3 DEF EditOverSsh
<1>4. ASSUME NEW j \in Jobs, Ask(j) \/ Begin(j) \/ Finish(j)
      PROVE  faults = 0
  BY <1>4 DEF Ask, AskDeploy, AskRedeploy, AskDestroy, AskConfigure, AskEnvironment, AskRollback,
              AskRemoval, Asked, Begin, Began, Over, Finish
<1>5. ASSUME NEW j \in Jobs, TakeSnapshot(j) \/ Delete(j) \/ FileStep(j) \/ Restore(j)
      PROVE  faults = 0
  BY <1>5 DEF TakeSnapshot, Delete, FileStep, Restore, Fetch, WriteEnvironment, Build, WriteUnit, Start,
              Disable, RemoveUnit, RemoveFiles, Files, Untouched
<1>6. ASSUME NEW j \in Jobs, RecordStep(j)
      PROVE  faults = 0
  <2>1. ASSUME Remember(j) \/ ForgetSome(j)
        PROVE  faults = 0
    <3>1. faults' = faults \/ faults' = faults + 1
      BY <2>1 DEF Remember, ForgetSome
    <3> QED BY <1>1, <3>1
  <2>2. ASSUME MarkDeployed(j) \/ MarkHealthy(j) \/ Forget(j) \/ ForgetHealthy(j)
        PROVE  faults = 0
    BY <2>2 DEF MarkDeployed, MarkHealthy, Forget, ForgetHealthy, Note, Untouched
  <2>3. ASSUME SaveProperty(j) \/ WriteIndex(j)
        PROVE  faults = 0
    BY <2>3 DEF SaveProperty, WriteIndex, Save, Untouched
  <2> QED BY <1>6, <2>1, <2>2, <2>3 DEF RecordStep
<1>7. ASSUME NEW j \in Jobs, Fail(j)
      PROVE  faults = 0
  <2>1. faults' = faults \/ faults' = faults + 1
    BY <1>7 DEF Fail
  <2> QED BY <1>1, <2>1
<1> QED BY <1>2, <1>3, <1>4, <1>5, <1>6, <1>7, EveryStep

LEMMA FittingStep ==
  ASSUME Typed, Shaped(jobs), Bounded, NotPilingUp, [Next]_vars
  PROVE  Bounded' /\ NotPilingUp'
<1>1. holder # NoJob /\ faults = 0 => Fitting(jobs[holder], snaps)
  BY FittingTold
<1>2. holder # NoJob <=> holder \in Jobs
  BY DeploymentsAssumption DEF Typed
<1> SUFFICES ASSUME holder' # NoJob, faults' = 0
             PROVE  Fitting(jobs'[holder'], snaps')
  BY FittingTold
<1>3. faults = 0
  BY FaultsStay
<1>4. CASE UNCHANGED vars
  BY <1>1, <1>4 DEF vars
<1>5. CASE \E s \in Services : EditOverSsh(s)
  <2>1. snaps' = snaps /\ jobs' = jobs /\ holder' = holder
    BY <1>5, EditEffect
  <2> QED BY <1>1, <1>3, <2>1
<1>6. ASSUME NEW j \in Jobs, Ask(j)
      PROVE  Fitting(jobs'[holder'], snaps')
  BY <1>1, <1>2, <1>3, <1>6, AskEffect DEF Waits
<1>7. ASSUME NEW j \in Jobs, Begin(j)
      PROVE  Fitting(jobs'[holder'], snaps')
  <2>1. Starts(j) /\ snaps' = snaps
    BY <1>7, BeginEffect
  <2> DEFINE job == jobs'[j]  s == jobs[j].s  healthy == box.config[jobs[j].s].healthy
  <2>2. /\ holder' = j /\ job.snap = 0 /\ job.s = s
        /\ job.kind \in Deploying => Deleting(job.todo, Prunable(s, healthy))
    BY <2>1 DEF Starts
  <2> HIDE DEF job, s, healthy
  <2>3. ASSUME job.kind \in Deploying
        PROVE  Cardinality(SparedIn(snaps, job)) <= Keep + 1
    <3>1. \A n \in Prunable(s, healthy) : \E i \in DOMAIN job.todo : job.todo[i] = <<"delete", n>>
      BY <2>2, <2>3 DEF Deleting
    <3>2. MineIn(snaps, s) = Mine(s)
      BY DEF MineIn, Mine, OfService
    <3>3. SparedIn(snaps, job) \in SUBSET (Mine(s) \ Prunable(s, healthy))
      BY <2>2, <3>1, <3>2 DEF SparedIn
    <3>4. IsFiniteSet(Mine(s) \ Prunable(s, healthy))
      BY PrunableSet, FS_Subset
    <3>5. Keep + 1 \in Nat
      BY DeploymentsAssumption
    <3> QED BY <3>3, <3>4, <3>5, Pruned, Fewer
  <2> QED BY <2>1, <2>2, <2>3 DEF Fitting, job
<1>8. ASSUME NEW j \in Jobs, TakeSnapshot(j)
      PROVE  Fitting(jobs'[holder'], snaps')
  <2>1. /\ Taken(j) /\ Typed' /\ Shaped(jobs') /\ holder = j /\ holder' = j
        /\ jobs'[j].snap = made + 1 /\ made + 1 # 0 /\ jobs[j].snap = 0
        /\ jobs'[j].kind = jobs[j].kind /\ jobs'[j].s = jobs[j].s
        /\ jobs'[j].todo = Tail(jobs[j].todo)
    BY <1>8, TakeEffect DEF Taken, Walks, Typed
  <2>2. ASSUME jobs[j].kind \in Deploying
        PROVE  Cardinality(MineIn(snaps', jobs[j].s)) <= Keep + 2
    <3>1. /\ jobs[j].todo \in Seq(Entries) /\ jobs[j].todo # <<>>
          /\ jobs[j].todo[1][1] = "snapshot"
      BY <1>8, TakeEffect, AtParts
    <3>2. \A i \in DOMAIN Tail(jobs[j].todo) : Tail(jobs[j].todo)[i][1] # "delete"
      <4>1. Shape(jobs'[j])
        BY <2>1 DEF Typed, JobsTyped, Shaped, Planned
      <4> QED BY <2>1, <2>2, <4>1 DEF Shape, Backed
    <3>3. ASSUME NEW i \in DOMAIN jobs[j].todo, NEW n
          PROVE  jobs[j].todo[i] # <<"delete", n>>
      <4>1. i # 1 => i - 1 \in DOMAIN Tail(jobs[j].todo) /\ Tail(jobs[j].todo)[i - 1] = jobs[j].todo[i]
        BY <3>1, TailParts
      <4> QED BY <3>1, <3>2, <4>1
    <3>4. SparedIn(snaps, jobs[j]) = MineIn(snaps, jobs[j].s)
      BY <3>3 DEF SparedIn
    <3>5. Cardinality(MineIn(snaps, jobs[j].s)) <= Keep + 1
      BY <1>1, <1>2, <1>3, <2>1, <2>2, <3>4 DEF Fitting
    <3>6. MineIn(snaps', jobs[j].s) \in SUBSET (MineIn(snaps, jobs[j].s) \cup {made + 1})
      BY <2>1 DEF Taken, MineIn
    <3>7. IsFiniteSet(MineIn(snaps, jobs[j].s))
      <4>1. MineIn(snaps, jobs[j].s) \in SUBSET (DOMAIN snaps)
        BY DEF MineIn
      <4> QED BY <4>1, FiniteSnapshots
    <3>8. Keep + 1 \in Nat /\ Keep + 1 + 1 = Keep + 2
      BY DeploymentsAssumption
    <3>9. Cardinality(MineIn(snaps', jobs[j].s)) <= Keep + 1 + 1
      BY <3>5, <3>6, <3>7, <3>8, OneMore
    <3> QED BY <3>8, <3>9
  <2> QED BY <2>1, <2>2 DEF Fitting
<1>9. ASSUME NEW j \in Jobs, holder = j, holder' = j,
             Walks(j), jobs'[j].snap = jobs[j].snap,
             jobs[j].kind \in Deploying /\ jobs[j].snap = 0 =>
               /\ DOMAIN snaps' = DOMAIN snaps \ {Arg(j)}
               /\ \A n \in DOMAIN snaps' : snaps'[n] = snaps[n]
               /\ jobs[j].todo # <<>> /\ Head(jobs[j].todo)[2] = Arg(j),
             jobs[j].kind \in Deploying /\ jobs[j].snap # 0 => snaps' = snaps
      PROVE  Fitting(jobs'[holder'], snaps')
  <2>1. /\ jobs'[j].todo = Tail(jobs[j].todo) /\ jobs'[j].kind = jobs[j].kind /\ jobs'[j].s = jobs[j].s
    BY <1>9 DEF Walks
  <2>2. Fitting(jobs[j], snaps)
    BY <1>1, <1>2, <1>3, <1>9
  <2> SUFFICES ASSUME jobs[j].kind \in Deploying
               PROVE  IF jobs[j].snap = 0 THEN Cardinality(SparedIn(snaps', jobs'[j])) <= Keep + 1
                      ELSE Cardinality(MineIn(snaps', jobs[j].s)) <= Keep + 2
    BY <1>9, <2>1 DEF Fitting
  <2>3. CASE jobs[j].snap # 0
    BY <1>9, <2>2, <2>3 DEF Fitting
  <2>4. CASE jobs[j].snap = 0
    <3> DEFINE todo == jobs[j].todo
    <3>1. todo \in Seq(Entries) /\ todo # <<>>
      BY <1>9, <2>4 DEF Typed, JobsTyped, JobRecords
    <3>2. /\ Head(todo) = todo[1]
          /\ \A k \in DOMAIN todo : k # 1 => k - 1 \in DOMAIN Tail(todo) /\ Tail(todo)[k - 1] = todo[k]
      BY <3>1, TailParts
    <3>3. ASSUME NEW n \in SparedIn(snaps', jobs'[j])
          PROVE  n \in SparedIn(snaps, jobs[j])
      <4>1. /\ n \in DOMAIN snaps' /\ n # Arg(j)
            /\ \A i \in DOMAIN Tail(todo) : Tail(todo)[i] # <<"delete", n>>
            /\ n \in MineIn(snaps, jobs[j].s)
        BY <1>9, <2>1, <2>4, <3>3 DEF SparedIn, MineIn
      <4>2. todo[1] # <<"delete", n>>
        BY <1>9, <2>4, <3>2, <4>1
      <4>3. \A i \in DOMAIN todo : todo[i] # <<"delete", n>>
        BY <3>2, <4>1, <4>2
      <4> QED BY <4>1, <4>3 DEF SparedIn
    <3>4. SparedIn(snaps, jobs[j]) \in SUBSET (DOMAIN snaps)
      BY DEF SparedIn, MineIn
    <3>5. IsFiniteSet(SparedIn(snaps, jobs[j]))
      BY <3>4, FiniteSnapshots
    <3>6. Cardinality(SparedIn(snaps, jobs[j])) <= Keep + 1 /\ Keep + 1 \in Nat
      BY <2>2, <2>4, DeploymentsAssumption DEF Fitting
    <3>7. SparedIn(snaps', jobs'[j]) \in SUBSET SparedIn(snaps, jobs[j])
      BY <3>3
    <3>8. Cardinality(SparedIn(snaps', jobs'[j])) <= Keep + 1
      BY <3>5, <3>6, <3>7, Fewer
    <3> QED BY <2>4, <3>8
  <2> QED BY <2>3, <2>4
<1>10. ASSUME NEW j \in Jobs, Delete(j)
       PROVE  Fitting(jobs'[holder'], snaps')
  <2>1. /\ holder = j /\ holder' = j /\ Walks(j) /\ jobs'[j].snap = jobs[j].snap
        /\ jobs[j].kind \in Deploying => jobs[j].snap = 0
        /\ DOMAIN snaps' = DOMAIN snaps \ {Arg(j)} /\ \A n \in DOMAIN snaps' : snaps'[n] = snaps[n]
        /\ jobs[j].todo # <<>> /\ Head(jobs[j].todo)[2] = Arg(j)
    BY <1>10, DeleteEffect DEF Delete, At
  <2> QED BY <1>9, <2>1
<1>11. ASSUME NEW j \in Jobs, FileStep(j) \/ RecordStep(j) \/ Restore(j)
       PROVE  Fitting(jobs'[holder'], snaps')
  <2>1. /\ holder = j /\ holder' = j /\ Walks(j) /\ jobs'[j].snap = jobs[j].snap /\ snaps' = snaps
        /\ jobs[j].kind \in Deploying => jobs[j].snap # 0
    BY <1>11, WorkEffect, RestoreEffect DEF Works, Untouching, Backed, Deploying
  <2> QED BY <1>9, <2>1
<1>12. ASSUME NEW j \in Jobs, Fail(j)
       PROVE  Fitting(jobs'[holder'], snaps')
  <2>1. Passed(j) /\ snaps' = snaps /\ holder = j /\ jobs[j].todo # <<>>
    BY <1>12, FailEffect DEF Dropped, Fail
  <2>2. /\ holder' = j /\ Walks(j) /\ jobs'[j].snap = jobs[j].snap
        /\ \/ Head(jobs[j].todo)[1] \in Optional
           \/ At(j, "delete") /\ Arg(j) \notin DOMAIN snaps
    BY <2>1 DEF Passed
  <2> DEFINE what == Head(jobs[j].todo)[1]
  <2>3. At(j, what)
    BY <2>1 DEF At
  <2>4. jobs[j].kind \in Deploying /\ jobs[j].snap = 0 => what \in {"delete", "snapshot"}
    BY <2>3, BeforeSnapshot DEF Backed
  <2>5. jobs[j].kind \in Deploying /\ jobs[j].snap = 0 => Arg(j) \notin DOMAIN snaps
    BY <2>2, <2>4 DEF Optional
  <2>6. Head(jobs[j].todo)[2] = Arg(j)
    BY DEF Arg
  <2> QED BY <1>9, <2>1, <2>2, <2>5, <2>6
<1>13. \A j \in Jobs : ~Finish(j)
  BY FinishEffect
<1> QED BY <1>4, <1>5, <1>6, <1>7, <1>8, <1>10, <1>11, <1>12, <1>13, EveryStep

----------------------------------------------------------------------------
(* At the start.                                                               *)

\* A service that was there before, and one that is known to work.
Old(d) == [NoRecord EXCEPT !.props = 1, !.commit = 1, !.deployed = d]
Known(record, past) == [record EXCEPT !.more = TRUE, !.healthy = past, !.deployed = <<1, TRUE>>]
OldFiles == [code |-> 1, unit |-> 1, env |-> 0, runs |-> <<1, 1>>]

LEMMA RecordTypes ==
  /\ NoRecord \in AnyRecord /\ NoRecord.healthy = 0
  /\ \A d \in {<<>>, <<1, FALSE>>} :
       Old(d) \in AnyRecord /\ Old(d).healthy = 0 /\ Running(Old(d)) = 1 /\ Old(d).commit = 1
  /\ NoFiles \in FilesOnDisk /\ OldFiles \in FilesOnDisk
<1>1. 1 \in Props /\ 0 \in 0..MaxCommits /\ 1 \in 0..MaxCommits
  BY DeploymentsAssumption
<1>2. <<>> \in Fingerprints /\ <<1, FALSE>> \in Fingerprints
  BY <1>1 DEF Fingerprints
<1>3. <<0, 0>> \in ({0} \cup Props) \X (0..MaxCommits) /\ <<1, 1>> \in ({0} \cup Props) \X (0..MaxCommits)
  BY <1>1
<1>4. NoRecord \in AnyRecord /\ NoRecord.healthy = 0
  BY <1>1, <1>2 DEF NoRecord, AnyRecord
<1>5. ASSUME NEW d \in {<<>>, <<1, FALSE>>}
      PROVE  Old(d) \in AnyRecord /\ Old(d).healthy = 0 /\ Running(Old(d)) = 1 /\ Old(d).commit = 1
  <2>1. d \in Fingerprints /\ (d = <<>> \/ (d # <<>> /\ d[1] = 1))
    <3>1. CASE d = <<>>
      BY <1>2, <3>1
    <3>2. CASE d = <<1, FALSE>>
      BY <1>2, <3>2
    <3> QED BY <3>1, <3>2
  <2>2. /\ Old(d) \in AnyRecord /\ Old(d).healthy = 0 /\ Old(d).props = 1 /\ Old(d).commit = 1
        /\ Old(d).deployed = d
    BY <1>1, <2>1 DEF NoRecord, AnyRecord, Old
  <2> QED BY <2>1, <2>2 DEF Running
<1>6. NoFiles \in FilesOnDisk /\ OldFiles \in FilesOnDisk
  BY <1>1, <1>3 DEF NoFiles, FilesOnDisk, OldFiles
<1> QED BY <1>4, <1>5, <1>6

LEMMA KnownTypes ==
  ASSUME NEW record \in AnyRecord, NEW past \in Nat, NEW next, next = Known(record, past)
  PROVE  /\ next \in AnyRecord /\ next.healthy = past /\ Running(next) = 1
         /\ next.commit = record.commit
<1>1. <<1, TRUE>> \in Fingerprints /\ <<1, TRUE>> # <<>>
  BY DeploymentsAssumption DEF Fingerprints
<1>2. /\ next \in AnyRecord /\ next.healthy = past /\ next.deployed = <<1, TRUE>>
      /\ next.commit = record.commit
  BY <1>1 DEF AnyRecord, Known
<1> QED BY <1>1, <1>2 DEF Running

There(old, mark) ==
  [index |-> old, cut |-> {},
   config |-> [t \in Services |-> IF t \notin old THEN NoRecord ELSE Old(mark[t])],
   disk |-> [t \in Services |-> IF t \notin old THEN NoFiles ELSE OldFiles]]

LEMMA ThereIsGood ==
  ASSUME NEW old \in SUBSET Services, NEW mark \in [Services -> {<<>>, <<1, FALSE>>}], NEW b,
         b = There(old, mark)
  PROVE  /\ b \in Boxes /\ \A t \in Services : b.config[t].healthy = 0
         /\ \A t \in Services : Good(b, t) /\ Fair(b, t)
         /\ b.index = old
<1>1. /\ NoRecord \in AnyRecord /\ NoRecord.healthy = 0
      /\ \A d \in {<<>>, <<1, FALSE>>} :
           Old(d) \in AnyRecord /\ Old(d).healthy = 0 /\ Running(Old(d)) = 1 /\ Old(d).commit = 1
      /\ NoFiles \in FilesOnDisk /\ OldFiles \in FilesOnDisk
  BY RecordTypes
<1>2. /\ b.index = old /\ b.cut = {}
      /\ b.config = [t \in Services |-> IF t \notin old THEN NoRecord ELSE Old(mark[t])]
      /\ b.disk = [t \in Services |-> IF t \notin old THEN NoFiles ELSE OldFiles]
      /\ b = [index |-> b.index, cut |-> b.cut, config |-> b.config, disk |-> b.disk]
  BY DEF There
<1>3. ASSUME NEW t \in old
      PROVE  /\ b.config[t] = Old(mark[t]) /\ b.disk[t] = OldFiles
             /\ b.config[t] \in AnyRecord /\ b.config[t].healthy = 0
             /\ Running(b.config[t]) = 1 /\ b.config[t].commit = 1
  <2>1. b.config[t] = Old(mark[t]) /\ b.disk[t] = OldFiles /\ mark[t] \in {<<>>, <<1, FALSE>>}
    BY <1>2
  <2> QED BY <1>1, <2>1
<1>4. ASSUME NEW t \in Services \ old
      PROVE  b.config[t] = NoRecord /\ b.disk[t] = NoFiles
  BY <1>2
<1>5. ASSUME NEW t \in Services
      PROVE  /\ b.config[t] \in AnyRecord /\ b.config[t].healthy = 0 /\ b.disk[t] \in FilesOnDisk
             /\ Good(b, t) /\ Fair(b, t)
  <2>1. CASE t \notin old
    <3>1. t \notin b.index
      BY <1>2, <2>1
    <3> QED BY <1>1, <1>4, <2>1, <3>1 DEF Good, Fair
  <2>2. CASE t \in old
    <3>1. /\ b.config[t] \in AnyRecord /\ b.config[t].healthy = 0 /\ b.disk[t] = OldFiles
          /\ Running(b.config[t]) = 1 /\ b.config[t].commit = 1
      BY <1>3, <2>2
    <3>2. OldFiles.code = 1 /\ OldFiles.unit = 1 /\ OldFiles.runs = <<1, 1>>
      BY DEF OldFiles
    <3>3. Good(b, t) /\ Fair(b, t)
      BY <3>1, <3>2 DEF Good, Fair
    <3> QED BY <1>1, <3>1, <3>3
  <2> QED BY <2>1, <2>2
<1>6. b.config \in [Services -> AnyRecord] /\ b.disk \in [Services -> FilesOnDisk]
  <2>1. \A t \in Services : (IF t \notin old THEN NoRecord ELSE Old(mark[t])) \in AnyRecord
    BY <1>1
  <2> QED BY <1>1, <1>2, <2>1
<1>7. b \in Boxes
  <2>1. b.index \in SUBSET Services /\ b.cut \in SUBSET Services
    BY <1>2
  <2> QED BY <1>2, <1>6, <2>1 DEF Boxes
<1> QED BY <1>2, <1>5, <1>7

GoodBox(b) == \A t \in Services : Good(b, t) /\ Fair(b, t) /\ b.config[t] \in AnyRecord
OldOne(record) == record \in AnyRecord /\ Running(record) = 1 /\ record.commit = 1

LEMMA KnownIsGood ==
  ASSUME NEW b \in Boxes, \A t \in Services : b.config[t].healthy = 0, GoodBox(b),
         NEW past \in Nat, NEW s \in b.index, OldOne(b.config[s]),
         NEW record, record = Known(b.config[s], past), NEW c, c = SetConfig(b, s, record)
  PROVE  /\ c \in Boxes /\ \A t \in Services : Good(c, t) /\ Fair(c, t)
         /\ c.config[s].healthy = past /\ \A t \in Services \ {s} : c.config[t].healthy = 0
<1>1. s \in Services /\ b.config \in [Services -> AnyRecord]
  BY DEF Boxes
<1>3. /\ b.config[s] \in AnyRecord /\ Running(b.config[s]) = 1 /\ b.config[s].commit = 1
  BY DEF OldOne
<1>2. /\ record \in AnyRecord /\ record.healthy = past /\ Running(record) = 1 /\ record.commit = 1
  BY <1>3, KnownTypes
<1>4. /\ c \in Boxes /\ c.index = b.index /\ c.cut = b.cut /\ c.disk = b.disk
      /\ c.config = [b.config EXCEPT ![s] = record]
  BY <1>1, <1>2, ConfigSet
<1>5. c.config[s] = record /\ \A t \in Services \ {s} : c.config[t] = b.config[t]
  BY <1>1, <1>4
<1>6. ASSUME NEW t \in Services
      PROVE  Good(c, t) /\ Fair(c, t)
  <2>1. Alike(b, c, t) /\ c.disk[t].runs = b.disk[t].runs
    BY <1>2, <1>3, <1>4, <1>5 DEF Alike
  <2> QED BY <2>1, AlikeIsGood DEF GoodBox
<1> QED BY <1>2, <1>4, <1>5, <1>6

Begun(old, past, known, mark, s) ==
  LET was == There(old, mark) IN
  /\ (s = NoService) <=> (past = 0)
  /\ known => past > 0
  /\ box = IF ~known THEN was
           ELSE [was EXCEPT !.config[s].more = TRUE, !.config[s].healthy = past,
                            !.config[s].deployed = <<1, TRUE>>]
  /\ snaps = [n \in 1..past |-> [of |-> s, kind |-> "deploy", box |-> was]]
  /\ made = past
  /\ holder = NoJob /\ before = <<>>
  /\ jobs = [j \in Jobs |-> NewJob] /\ faults = 0

LEMMA InvAtStart ==
  ASSUME Init
  PROVE  Inv
<1>0. PICK old \in SUBSET Services, past \in 0..Past, known \in BOOLEAN,
           mark \in [Services -> {<<>>, <<1, FALSE>>}] :
        \E s \in old \cup {NoService} : Begun(old, past, known, mark, s)
  BY DEF Init, Begun, There, Old, OldFiles
<1>1. PICK s \in old \cup {NoService} : Begun(old, past, known, mark, s)
  BY <1>0
<1> DEFINE was == There(old, mark)
<1>2. /\ (s = NoService) <=> (past = 0)
      /\ known => past > 0
      /\ box = IF ~known THEN was
               ELSE [was EXCEPT !.config[s].more = TRUE, !.config[s].healthy = past,
                                !.config[s].deployed = <<1, TRUE>>]
      /\ snaps = [n \in 1..past |-> [of |-> s, kind |-> "deploy", box |-> was]]
      /\ made = past
      /\ holder = NoJob /\ before = <<>>
      /\ jobs = [j \in Jobs |-> NewJob] /\ faults = 0
  BY <1>1 DEF Begun
<1>3. past \in Nat /\ (past > 0 => s \in old)
  BY <1>2, DeploymentsAssumption
<1>4. /\ was \in Boxes /\ \A t \in Services : was.config[t].healthy = 0
      /\ \A t \in Services : Good(was, t) /\ Fair(was, t)
      /\ was.index = old
  BY ThereIsGood
<1>5. \A t \in old : \E d \in {<<>>, <<1, FALSE>>} : was.config[t] = Old(d)
  BY DEF There
<1>6. /\ box \in Boxes /\ \A t \in Services : Good(box, t) /\ Fair(box, t)
      /\ \A t \in Services : box.config[t].healthy = 0 \/ (t = s /\ box.config[t].healthy = past /\ past > 0)
  <2>1. CASE ~known
    BY <1>2, <1>4, <2>1
  <2>2. CASE known
    <3>1. s \in old /\ past > 0
      BY <1>2, <1>3, <2>2
    <3>2. box = SetConfig(was, s, Known(was.config[s], past))
      <4>1. box = [was EXCEPT !.config[s].more = TRUE, !.config[s].healthy = past,
                              !.config[s].deployed = <<1, TRUE>>]
        BY <1>2, <2>2
      <4>2. s \in Services /\ was.config \in [Services -> AnyRecord]
        BY <1>4, <3>1 DEF Boxes
      <4> HIDE DEF was
      <4> QED BY <1>4, <4>1, <4>2 DEF SetConfig, Known, Boxes, AnyRecord
    <3>3. PICK d \in {<<>>, <<1, FALSE>>} : was.config[s] = Old(d)
      BY <1>5, <3>1
    <3> DEFINE record == Known(was.config[s], past)
    <3>5. s \in was.index /\ box = SetConfig(was, s, record) /\ record = Known(was.config[s], past)
      BY <1>4, <3>1, <3>2
    <3> HIDE DEF was, record
    <3>4. /\ box \in Boxes /\ \A t \in Services : Good(box, t) /\ Fair(box, t)
          /\ box.config[s].healthy = past /\ \A t \in Services \ {s} : box.config[t].healthy = 0
      <4>1. was \in Boxes /\ GoodBox(was) /\ \A t \in Services : was.config[t].healthy = 0
        BY <1>4, BoxParts DEF GoodBox
      <4>2. past \in Nat
        BY <1>3
      <4>5. OldOne(was.config[s])
        BY <3>3, RecordTypes DEF OldOne
      <4> DEFINE c == box
      <4>3. c = SetConfig(was, s, record)
        BY <3>5
      <4> HIDE DEF c
      <4>4. /\ c \in Boxes /\ \A t \in Services : Good(c, t) /\ Fair(c, t)
            /\ c.config[s].healthy = past /\ \A t \in Services \ {s} : c.config[t].healthy = 0
        BY <3>5, <4>1, <4>2, <4>3, <4>5, KnownIsGood
      <4> QED BY <4>4 DEF c
    <3> QED BY <3>1, <3>4
  <2> QED BY <2>1, <2>2
<1> HIDE DEF was
<1>7. BoxTyped(box, made)
  <2>1. made = past /\ 0 \in 0..past /\ past \in 0..past
    BY <1>2, <1>3
  <2>2. Within(box, made)
    BY <1>6, <2>1 DEF Within
  <2> QED BY <1>6, <2>2 DEF BoxTyped
<1>8. /\ DOMAIN snaps = 1..past
      /\ \A n \in DOMAIN snaps : snaps[n] = [of |-> s, kind |-> "deploy", box |-> was]
  BY <1>2
<1>9. \A n \in DOMAIN snaps :
        snaps[n] \in Snapshots /\ Within(snaps[n].box, made) /\ snaps[n].box = was /\ snaps[n].of = s
  <2>1. Within(was, made)
    BY <1>2, <1>3, <1>4 DEF Within
  <2>2. past > 0 => s \in Services
    BY <1>3
  <2> QED BY <1>3, <1>4, <1>8, <2>1, <2>2 DEF Snapshots
<1>10. SnapsTyped(snaps, made)
  <2>1. snaps \in [DOMAIN snaps -> Snapshots]
    BY <1>2, <1>8, <1>9
  <2> QED BY <1>2, <1>8, <1>9, <2>1 DEF SnapsTyped
<1>11. JobsTyped(jobs, holder, made) /\ Shaped(jobs)
  <2>1. \A j \in Jobs : jobs[j] = NewJob /\ holder # j
    BY <1>2, DeploymentsAssumption
  <2>2. NewJob.pc = "new" /\ NewJob.kind = "none" /\ NewJob.snap = 0
    BY DEF NewJob
  <2>3. jobs \in [Jobs -> JobRecords]
    BY <1>2, NewJobType
  <2> QED BY <1>2, <1>3, <2>1, <2>2, <2>3 DEF JobsTyped, JobOK, Shaped, Planned, Backed, Deploying
<1>12. Typed
  BY <1>2, <1>3, <1>7, <1>10, <1>11, DeploymentsAssumption DEF Typed, BeforeTyped
<1>13. Rested /\ Preserved
  BY <1>4, <1>6, <1>9 DEF Rested, Preserved
<1>14. Own(box, snaps) /\ \A n \in DOMAIN snaps : Own(snaps[n].box, snaps)
  <2>1. 0 \notin DOMAIN snaps
    BY <1>8
  <2> QED BY <1>4, <1>6, <1>9, <2>1 DEF Own
<1>15. Owned
  BY <1>2, <1>14 DEF Owned
<1>16. WayBack /\ HeldBack /\ EditsWhatItRead /\ OnItsWay /\ Bounded /\ NotPilingUp
  BY <1>2 DEF WayBack, HeldBack, EditsWhatItRead, OnItsWay, Bounded, NotPilingUp
<1> QED BY <1>11, <1>12, <1>13, <1>15, <1>16 DEF Inv

----------------------------------------------------------------------------
(* The results.                                                                *)

LEMMA Inductive ==
  ASSUME Inv, [Next]_vars
  PROVE  Inv'
<1>1. /\ Typed /\ Shaped(jobs) /\ WayBack /\ HeldBack /\ EditsWhatItRead
      /\ Rested /\ Preserved /\ OnItsWay /\ Owned /\ Bounded /\ NotPilingUp
  BY DEF Inv
<1>2. Typed' /\ Shaped(jobs')
  BY <1>1, TypedStep
<1>3. WayBack' /\ HeldBack' /\ EditsWhatItRead'
  BY <1>1, WayBackStep, EditsStep
<1>4. Rested' /\ Preserved' /\ OnItsWay'
  BY <1>1, RestedStep, PreservedStep, OnItsWayStep
<1>5. Owned' /\ Bounded' /\ NotPilingUp'
  BY <1>1, OwnedStep, FittingStep
<1> QED BY <1>2, <1>3, <1>4, <1>5 DEF Inv

\* However many services, jobs, requests, snapshots and failures there are: what is
\* planned, what has been walked of it and what the container and its snapshots hold
\* fit together at every step.
THEOREM Invariant == Spec => []Inv
<1>1. ASSUME Init
      PROVE  Inv
  BY <1>1, InvAtStart
<1>2. Inv /\ [Next]_vars => Inv'
  BY Inductive
<1> QED BY <1>1, <1>2, PTL DEF Spec

LEMMA TypedBoxes ==
  ASSUME NEW b, BoxTyped(b, made)
  PROVE  BoxOK(b)
<1>1. /\ b.index \subseteq Services /\ b.cut \subseteq Services
      /\ b.config \in [Services -> AnyRecord] /\ b.disk \in [Services -> FilesOnDisk]
      /\ \A s \in Services : b.config[s].healthy \in 0..made
  BY DEF BoxTyped, Boxes, Within
<1>2. b.config \in [Services -> Records]
  <2>1. \A record \in AnyRecord : record.healthy \in 0..made => record \in Records
    BY DEF AnyRecord, Records
  <2> QED BY <1>1, <2>1
<1> QED BY <1>1, <1>2 DEF BoxOK

\* What is recorded of a service, what is on disk and what the snapshots hold stay
\* within what the handlers write, and only the job whose turn it is runs.
THEOREM TypeCorrect == Spec => []TypeOK
<1>1. ASSUME Inv
      PROVE  TypeOK
  <2>1. Typed
    BY <1>1 DEF Inv
  <2>2. BoxOK(box) /\ (IF holder = NoJob THEN before = <<>> ELSE BoxOK(before))
    BY <2>1, TypedBoxes DEF Typed, BeforeTyped
  <2>3. /\ DOMAIN snaps \subseteq 1..made
        /\ \A n \in DOMAIN snaps : /\ snaps[n].of \in Services
                                   /\ snaps[n].kind \in {"deploy", "destroy"}
                                   /\ BoxOK(snaps[n].box)
    BY <2>1, TypedBoxes DEF Typed, SnapsTyped, Snapshots, BoxTyped
  <2> QED BY <2>1, <2>2, <2>3 DEF TypeOK, Typed, JobsTyped
<1> QED BY <1>1, Invariant, PTL

\* Once a deployment has taken its snapshot there are no more of the service's than
\* Keep, the healthy one and its own, and a change of environment starts from what
\* was read: checkout prunes before it takes a snapshot, and the file is read again
\* once it is the change's turn.
THEOREM BoundedAndTyped == Spec => []DeploymentsInv
<1>1. Inv => NotPilingUp /\ EditsWhatItRead
  BY DEF Inv
<1> QED BY <1>1, TypeCorrect, Invariant, PTL DEF DeploymentsInv

\* Whatever fails, a deployment, a removal and a change of environment can be undone
\* from the snapshot they took.
THEOREM AlwaysAWayBack == Spec => []WayBack
<1>1. Inv => WayBack
  BY DEF Inv
<1> QED BY <1>1, Invariant, PTL

\* A service at rest that carries the fingerprint of what is saved runs from it: after
\* deployments, removals, rollbacks, saved changes and failures in any order.
THEOREM RecordsAreTrue == Spec => []RecordIsWhatRuns
<1>1. ASSUME Inv
      PROVE  RecordIsWhatRuns
  <2> SUFFICES ASSUME NEW s \in box.index \ box.cut,
                      box.config[s].deployed = Fingerprint(box, s),
                      holder # NoJob => jobs[holder].s # s
               PROVE  /\ box.disk[s].unit = box.config[s].props
                      /\ box.disk[s].code = box.config[s].commit
                      /\ box.disk[s].runs = <<box.config[s].props, box.config[s].commit>>
    BY DEF RecordIsWhatRuns
  <2>1. box \in Boxes /\ Rested
    BY <1>1 DEF Inv, Typed, BoxTyped
  <2>2. s \in Services
    BY <2>1 DEF Boxes
  <2>3. ~Worked(s)
    BY DEF Worked
  <2>4. Good(box, s) /\ Fair(box, s)
    BY <2>1, <2>2, <2>3 DEF Rested
  <2>5. Running(box.config[s]) = box.config[s].props
    BY <2>1, <2>2, BoxParts DEF Running
  <2> QED BY <2>4, <2>5 DEF Good, Fair
<1> QED BY <1>1, Invariant, PTL

\* With no service whose name goes on from another's, nothing but a person removes the
\* snapshot a service calls healthy: not its own deployments, and not another's.
THEOREM HealthyIsSpared == Longer = {} => (Spec => PruneSparesHealthy)
<1> SUFFICES ASSUME Longer = {} PROVE Spec => PruneSparesHealthy
  OBVIOUS
<1> DEFINE Step1 == \A s \in box.index :
                      LET n == box.config[s].healthy IN
                      n \in DOMAIN snaps /\ n \notin DOMAIN snaps' => jobs[holder].kind = "removal"
<1>1. ASSUME Inv, [Next]_vars, snaps' # snaps
      PROVE  Step1
  <2>1. /\ Typed /\ Shaped(jobs) /\ Own(box, snaps)
        /\ holder # NoJob => Chosen(jobs[holder], box, snaps)
    BY <1>1, OwnedTold DEF Inv
  <2> SUFFICES ASSUME NEW s \in box.index, box.config[s].healthy \in DOMAIN snaps,
                      box.config[s].healthy \notin DOMAIN snaps'
               PROVE  jobs[holder].kind = "removal"
    OBVIOUS
  <2> DEFINE n == box.config[s].healthy
  <2>2. snaps[n].of = s
    <3>1. s \in Services
      BY <2>1 DEF Typed, BoxTyped, Boxes
    <3> QED BY <2>1, <3>1 DEF Own
  <2>3. PICK j \in Jobs : Delete(j)
    <3>1. \A j \in Jobs : Ask(j) \/ Begin(j) \/ FileStep(j) \/ RecordStep(j) \/ Restore(j) \/ Finish(j)
                            \/ Fail(j) => snaps' = snaps
      BY <2>1, AskEffect, BeginEffect, WorkEffect, RestoreEffect, FinishEffect, FailEffect
         DEF Waits, Works, Untouching
    <3>2. \A j \in Jobs : TakeSnapshot(j) => DOMAIN snaps \subseteq DOMAIN snaps'
      BY <2>1, TakeEffect DEF Taken
    <3>3. UNCHANGED vars \/ (\E t \in Services : EditOverSsh(t)) => snaps' = snaps
      BY <2>1, EditEffect DEF vars
    <3> QED BY <1>1, <3>1, <3>2, <3>3, EveryStep
  <2>4. /\ holder = j /\ jobs[j].kind \in Deploying \cup {"removal"}
        /\ Head(jobs[j].todo) = <<"delete", Arg(j)>> /\ n = Arg(j)
        /\ jobs[j].todo \in Seq(Entries) /\ jobs[j].todo # <<>>
    BY <2>1, <2>3, DeleteEffect, AtParts DEF Delete
  <2>5. ASSUME jobs[j].kind \in Deploying
        PROVE  FALSE
    <3>1. jobs[j].todo[1] = <<"delete", n>> /\ 1 \in DOMAIN jobs[j].todo
      BY <2>4, TailParts
    <3>2. n # box.config[jobs[j].s].healthy /\ snaps[n].of = jobs[j].s
      BY <2>1, <2>4, <2>5, <3>1, DeploymentsAssumption DEF Chosen
    <3> QED BY <2>2, <3>2
  <2> QED BY <2>4, <2>5
<1>2. Inv /\ [Next]_vars => [Step1]_snaps
  BY <1>1
<1> HIDE DEF Step1
<1>3. Spec => [][Step1]_snaps
  BY <1>2, Invariant, PTL DEF Spec
<1> QED BY <1>3 DEF PruneSparesHealthy, Step1
================================================================================
