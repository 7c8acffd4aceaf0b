--------------------------- MODULE Containers_proofs ---------------------------
(****************************************************************************)
(* What holds of Containers for any containers, databases, projects, requests,   *)
(* failures and restarts. First what each command of Machines does and what each  *)
(* plan consists of, step by step; then that the state is well typed and every    *)
(* step keeps it so; then that what was dropped can be had back and labels are    *)
(* those of declared projects; then that passwords are those of the logins they    *)
(* name; and last that no request takes away the connections of others.           *)
(****************************************************************************)
EXTENDS Containers, FiniteSetTheorems, SequenceTheorems, TLAPS

----------------------------------------------------------------------------
(* Types.                                                                   *)

Boxes == {x \in Machine : IsMachine(x)}
Hosts == [Containers -> Boxes]

Args == 0..Addresses \cup Projects \cup Locations \cup SUBSET Databases
Orders == {"init", "delete", "pin", "assign", "start", "stop", "snapshot"}
OfOne == {"create", "drop", "unenv", "forget", "record"}
OfTwo == {"grant", "carry", "revoke"}
Commands == Orders \cup OfOne \cup OfTwo \cup {"index", "declare", "undeclare"}

\* What a step is given is what its command takes.
Given(do, c, d, arg) ==
  /\ do \in Orders \cup OfOne \cup OfTwo \cup {"index"} => c \in Containers
  /\ do \in OfOne \cup OfTwo => d \in Databases
  /\ do \in OfTwo => arg \in Containers
  /\ do = "pin" => arg \in 0..Addresses
  /\ do = "assign" => arg \in Projects \cup {None}
  /\ do = "record" => arg \in Locations
  /\ do = "index" => arg \in SUBSET Databases
  /\ do \in {"declare", "undeclare"} => arg \in Projects
StepOK(s) == Given(s.do, s.on, s.db, s.arg)
Steps ==
  {s \in [do : Commands, on : Containers \cup {None}, db : Databases \cup {None},
          arg : Args, optional : BOOLEAN] : StepOK(s)}

----------------------------------------------------------------------------
(* What a command does.                                                        *)

LEMMA BoxType ==
  ASSUME NEW h \in Hosts, NEW c \in Containers
  PROVE  /\ h[c] \in Boxes /\ h[c] \in Machine /\ IsFiniteSet(h[c].kept)
         /\ h[c].here \/ h[c] = Nothing
BY DEF Hosts, Boxes, IsMachine

LEMMA BlankType == /\ Blank \in Boxes /\ Blank.here /\ Nothing \in Boxes /\ ~Nothing.here
<1>1. Blank \in Machine /\ Blank.here /\ Blank.kept = {}
  BY MachinesAssumption DEF Blank, Machine, Locations, NoEnv, None
<1>2. Nothing \in Machine /\ ~Nothing.here /\ Nothing.kept = {}
  BY <1>1 DEF Nothing, Machine
<1> QED BY <1>1, <1>2, FS_EmptySet DEF Boxes, IsMachine

LEMMA Image ==
  ASSUME NEW f \in [Databases -> Nat]
  PROVE  IsFiniteSet({f[d] : d \in Databases}) /\ {f[d] : d \in Databases} \subseteq Nat
<1>1. f \in Surjection(Databases, {f[d] : d \in Databases})
  BY DEF Surjection
<1> QED BY <1>1, MachinesAssumption, FS_Surjection

LEMMA PutType ==
  ASSUME NEW h \in Hosts, NEW c \in Containers, NEW x \in Boxes
  PROVE  /\ [h EXCEPT ![c] = x] \in Hosts /\ [h EXCEPT ![c] = x][c] = x
         /\ \A e \in Containers \ {c} : [h EXCEPT ![c] = x][e] = h[e]
BY DEF Hosts

\* What may differ between a container before and after a step on it.
Differs(x, y, do) ==
  /\ do \notin {"init", "delete"} => x.here = y.here
  /\ do \notin {"init", "delete", "assign"} => y.project = x.project
  /\ do \notin {"init", "delete", "index"} => y.index = x.index
  /\ do \notin {"init", "delete", "record", "forget"} => y.keys = x.keys
  /\ do \notin {"init", "delete", "create", "drop"} => y.data = x.data
  /\ do \notin {"init", "delete", "create", "drop", "grant", "revoke"} => y.logins = x.logins
  /\ do \notin {"init", "delete", "create", "carry", "unenv"} => y.env = x.env
  /\ do \notin {"init", "delete", "snapshot"} => y.kept = x.kept

\* What it is after one that did what it was to do.
Done(x, y, s) ==
  /\ s.do = "init" => x = Nothing /\ y = Blank
  /\ s.do = "delete" => y = Nothing
  /\ s.do = "assign" => y.project = s.arg
  /\ s.do = "snapshot" => \A d \in Databases : x.data[d] \in y.kept \cup {0}
  /\ s.do = "create" => \A d \in Databases : x.data[d] # 0 => y.data[d] = x.data[d]

Puts(h, h2, s) ==
  \E y \in Boxes : h2 = [h EXCEPT ![s.on] = y] /\ Differs(h[s.on], y, s.do) /\ Done(h[s.on], y, s)

LEMMA Ordered ==
  ASSUME NEW h \in Hosts, NEW s \in Steps, NEW new \in Nat \ {0}, NEW h2 \in Does(h, s, new),
         s.do \in Orders
  PROVE  Puts(h, h2, s)
<1> DEFINE c == s.on
           x == h[c]
<1>1. c \in Containers
  BY DEF Steps, StepOK, Given, Orders
<1>2. x \in Machine /\ IsFiniteSet(x.kept) /\ (x.here \/ x = Nothing)
  BY <1>1, BoxType
<1>3. CASE s.do = "init"
  <2>1. ~x.here /\ h2 = [h EXCEPT ![c] = Blank]
    BY <1>3 DEF Does, InitContainer, When
  <2> QED BY <1>2, <1>3, <2>1, BlankType DEF Puts, Differs, Done
<1>4. CASE s.do = "delete"
  <2>1. h2 = [h EXCEPT ![c] = Nothing]
    BY <1>4 DEF Does, Delete, When
  <2> QED BY <1>4, <2>1, BlankType DEF Puts, Differs, Done
<1>5. CASE s.do = "pin"
  <2> DEFINE y == [x EXCEPT !.address = s.arg]
  <2>1. x.here /\ h2 = [h EXCEPT ![c].address = s.arg]
    BY <1>5 DEF Does, Pin, When
  <2>2. h2 = [h EXCEPT ![c] = y]
    BY <2>1
  <2>3. s.arg \in 0..Addresses
    BY <1>5 DEF Steps, StepOK, Given
  <2>4. /\ y \in Machine /\ y.here /\ y.kept = x.kept /\ y.project = x.project
        /\ y.index = x.index /\ y.keys = x.keys /\ y.data = x.data
        /\ y.logins = x.logins /\ y.env = x.env
    BY <1>2, <2>1, <2>3 DEF Machine
  <2> HIDE DEF y
  <2>5. y \in Boxes
    BY <1>2, <2>4 DEF Boxes, IsMachine
  <2> QED BY <1>5, <2>1, <2>2, <2>4, <2>5 DEF Puts, Differs, Done
<1>6. CASE s.do = "assign"
  <2> DEFINE y == [x EXCEPT !.project = s.arg]
  <2>1. x.here /\ h2 = [h EXCEPT ![c].project = s.arg]
    BY <1>6 DEF Does, Assign, When
  <2>2. h2 = [h EXCEPT ![c] = y]
    BY <2>1
  <2>3. s.arg \in Projects \cup {None}
    BY <1>6 DEF Steps, StepOK, Given
  <2>4. /\ y \in Machine /\ y.here /\ y.kept = x.kept /\ y.project = s.arg
        /\ y.index = x.index /\ y.keys = x.keys /\ y.data = x.data
        /\ y.logins = x.logins /\ y.env = x.env
    BY <1>2, <2>1, <2>3 DEF Machine
  <2> HIDE DEF y
  <2>5. y \in Boxes
    BY <1>2, <2>4 DEF Boxes, IsMachine
  <2> QED BY <1>6, <2>1, <2>2, <2>4, <2>5 DEF Puts, Differs, Done
<1>7. CASE s.do \in {"start", "stop"}
  <2>0. PICK up \in BOOLEAN : h2 \in Power(h, c, up)
    BY <1>7 DEF Does
  <2> DEFINE y == [x EXCEPT !.up = up]
  <2>1. x.here /\ h2 = [h EXCEPT ![c].up = up]
    BY <2>0 DEF Power, When
  <2>2. h2 = [h EXCEPT ![c] = y]
    BY <2>1
  <2>4. /\ y \in Machine /\ y.here /\ y.kept = x.kept /\ y.project = x.project
        /\ y.index = x.index /\ y.keys = x.keys /\ y.data = x.data
        /\ y.logins = x.logins /\ y.env = x.env
    BY <1>2, <2>1 DEF Machine
  <2> HIDE DEF y
  <2>5. y \in Boxes
    BY <1>2, <2>4 DEF Boxes, IsMachine
  <2> QED BY <1>7, <2>1, <2>2, <2>4, <2>5 DEF Puts, Differs, Done
<1>8. CASE s.do = "snapshot"
  <2> DEFINE all == {x.data[d] : d \in Databases}
             kept == x.kept \cup (all \ {0})
             y == [x EXCEPT !.kept = kept]
  <2>1. x.here /\ h2 = [h EXCEPT ![c].kept = @ \cup ({h[c].data[d] : d \in Databases} \ {0})]
    BY <1>8 DEF Does, Snapshot, When
  <2>2. h2 = [h EXCEPT ![c] = y]
    BY <2>1
  <2>3. all \subseteq Nat /\ IsFiniteSet(all)
    BY <1>2, Image DEF Machine
  <2>4. kept \in SUBSET Nat /\ IsFiniteSet(kept)
    <3>1. x.kept \subseteq Nat
      BY <1>2 DEF Machine
    <3>2. IsFiniteSet(all \ {0})
      BY <2>3, FS_Difference
    <3> HIDE DEF all
    <3> QED BY <1>2, <2>3, <3>1, <3>2, FS_Union
  <2>5. \A d \in Databases : x.data[d] \in kept \cup {0}
    OBVIOUS
  <2> HIDE DEF kept
  <2>6. /\ y \in Machine /\ y.here /\ y.kept = kept /\ y.project = x.project
        /\ y.index = x.index /\ y.keys = x.keys /\ y.data = x.data
        /\ y.logins = x.logins /\ y.env = x.env
    BY <1>2, <2>1, <2>4 DEF Machine
  <2> HIDE DEF y
  <2>7. y \in Boxes
    BY <2>4, <2>6 DEF Boxes, IsMachine
  <2> QED BY <1>8, <2>1, <2>2, <2>5, <2>6, <2>7 DEF Puts, Differs, Done
<1> QED BY <1>3, <1>4, <1>5, <1>6, <1>7, <1>8 DEF Orders

\* A container that stays, with something else in it.
LEMMA BoxOf ==
  ASSUME NEW x \in Machine, IsFiniteSet(x.kept), x.here, NEW y \in Machine,
         y.here = x.here, y.kept = x.kept
  PROVE  y \in Boxes
BY DEF Boxes, IsMachine

\* What each command writes, field by field.
Creates(x, y, c, d, new) ==
  IF Credentialed(d)
  THEN /\ x.data[d] = 0 /\ x.logins[d][c] = 0
       /\ y.data = [x.data EXCEPT ![d] = new]
       /\ y.logins = [x.logins EXCEPT ![d] = [x.logins[d] EXCEPT ![c] = new]]
       /\ y.env = [x.env EXCEPT ![d] = [at |-> c, login |-> new]]
  ELSE /\ y.data = [x.data EXCEPT ![d] = IF x.data[d] = 0 THEN new ELSE x.data[d]]
       /\ y.logins = x.logins
       /\ y.env = [x.env EXCEPT ![d] = [at |-> c, login |-> 0]]

LEMMA CreateIs ==
  ASSUME NEW h \in Hosts, NEW c \in Containers, NEW d \in Databases, NEW new \in Nat,
         NEW h2 \in CreateDatabase(h, c, d, new)
  PROVE  \E y \in Boxes : /\ h2 = [h EXCEPT ![c] = y] /\ h[c].here
                          /\ Differs(h[c], y, "create") /\ Creates(h[c], y, c, d, new)
<1> DEFINE x == h[c]
<1>1. x \in Machine /\ IsFiniteSet(x.kept)
  BY BoxType
<1>2. x.here
  BY DEF CreateDatabase, When, Listed
<1>3. /\ x.data \in [Databases -> Nat] /\ x.logins \in [Databases -> [Containers -> Nat]]
      /\ x.env \in [Databases -> [at : {None} \cup Containers, login : Nat]]
  BY <1>1 DEF Machine
<1>4. CASE Credentialed(d)
  <2> DEFINE data == [x.data EXCEPT ![d] = new]
             logins == [x.logins EXCEPT ![d] = [x.logins[d] EXCEPT ![c] = new]]
             env == [x.env EXCEPT ![d] = [at |-> c, login |-> new]]
             y == [x EXCEPT !.data = data, !.logins = logins, !.env = env]
  <2>1. /\ x.data[d] = 0 /\ x.logins[d][c] = 0
        /\ h2 = [h EXCEPT ![c].data[d] = new, ![c].logins[d][c] = new,
                          ![c].env[d] = [at |-> c, login |-> new]]
    BY <1>4 DEF CreateDatabase, When
  <2>2. h2 = [h EXCEPT ![c] = y]
    BY <2>1
  <2>3. /\ data \in [Databases -> Nat] /\ logins \in [Databases -> [Containers -> Nat]]
        /\ env \in [Databases -> [at : {None} \cup Containers, login : Nat]]
    BY <1>3
  <2> HIDE DEF data, logins, env
  <2>4. /\ y \in Machine /\ y.here = x.here /\ y.kept = x.kept /\ y.project = x.project
        /\ y.index = x.index /\ y.keys = x.keys /\ y.data = data
        /\ y.logins = logins /\ y.env = env
    BY <1>1, <2>3 DEF Machine
  <2> HIDE DEF y
  <2>5. y \in Boxes
    BY <1>1, <1>2, <2>4, BoxOf
  <2> QED BY <1>2, <1>4, <2>1, <2>2, <2>4, <2>5 DEF Differs, Creates, data, logins, env
<1>5. CASE ~Credentialed(d)
  <2> DEFINE value == IF x.data[d] = 0 THEN new ELSE x.data[d]
             data == [x.data EXCEPT ![d] = value]
             env == [x.env EXCEPT ![d] = [at |-> c, login |-> 0]]
             y == [x EXCEPT !.data = data, !.env = env]
  <2>1. h2 = [h EXCEPT ![c].data[d] = IF @ = 0 THEN new ELSE @,
                       ![c].env[d] = [at |-> c, login |-> 0]]
    BY <1>5 DEF CreateDatabase, When
  <2>2. h2 = [h EXCEPT ![c] = y]
    BY <2>1
  <2>3. /\ data \in [Databases -> Nat]
        /\ env \in [Databases -> [at : {None} \cup Containers, login : Nat]]
    BY <1>3
  <2> HIDE DEF data, env
  <2>4. /\ y \in Machine /\ y.here = x.here /\ y.kept = x.kept /\ y.project = x.project
        /\ y.index = x.index /\ y.keys = x.keys /\ y.data = data
        /\ y.logins = x.logins /\ y.env = env
    BY <1>1, <2>3 DEF Machine
  <2> HIDE DEF y
  <2>5. y \in Boxes
    BY <1>1, <1>2, <2>4, BoxOf
  <2> QED BY <1>2, <1>5, <2>2, <2>4, <2>5 DEF Differs, Creates, data, env
<1> QED BY <1>4, <1>5

\* Writing one thing of a container and nothing else.
LEMMA WriteLogins ==
  ASSUME NEW h \in Hosts, NEW c \in Containers, h[c].here,
         NEW logins \in [Databases -> [Containers -> Nat]],
         NEW y, y = [h[c] EXCEPT !.logins = logins]
  PROVE  /\ y \in Boxes /\ y.logins = logins
         /\ Differs(h[c], y, "grant") /\ Differs(h[c], y, "revoke") /\ Differs(h[c], y, "create")
<1>1. h[c] \in Machine /\ IsFiniteSet(h[c].kept)
  BY BoxType
<1>2. /\ y \in Machine /\ y.here = h[c].here /\ y.kept = h[c].kept /\ y.project = h[c].project
      /\ y.index = h[c].index /\ y.keys = h[c].keys /\ y.data = h[c].data
      /\ y.logins = logins /\ y.env = h[c].env
  BY <1>1 DEF Machine
<1> QED BY <1>1, <1>2, BoxOf DEF Differs

LEMMA WriteData ==
  ASSUME NEW h \in Hosts, NEW c \in Containers, h[c].here, NEW data \in [Databases -> Nat],
         NEW y, y = [h[c] EXCEPT !.data = data]
  PROVE  /\ y \in Boxes /\ y.data = data /\ y.logins = h[c].logins /\ Differs(h[c], y, "drop")
<1>1. h[c] \in Machine /\ IsFiniteSet(h[c].kept)
  BY BoxType
<1>2. /\ y \in Machine /\ y.here = h[c].here /\ y.kept = h[c].kept /\ y.project = h[c].project
      /\ y.index = h[c].index /\ y.keys = h[c].keys /\ y.data = data
      /\ y.logins = h[c].logins /\ y.env = h[c].env
  BY <1>1 DEF Machine
<1> QED BY <1>1, <1>2, BoxOf DEF Differs

LEMMA WriteEnv ==
  ASSUME NEW h \in Hosts, NEW c \in Containers, h[c].here,
         NEW env \in [Databases -> [at : {None} \cup Containers, login : Nat]],
         NEW y, y = [h[c] EXCEPT !.env = env]
  PROVE  /\ y \in Boxes /\ y.env = env
         /\ Differs(h[c], y, "carry") /\ Differs(h[c], y, "unenv")
<1>1. h[c] \in Machine /\ IsFiniteSet(h[c].kept)
  BY BoxType
<1>2. /\ y \in Machine /\ y.here = h[c].here /\ y.kept = h[c].kept /\ y.project = h[c].project
      /\ y.index = h[c].index /\ y.keys = h[c].keys /\ y.data = h[c].data
      /\ y.logins = h[c].logins /\ y.env = env
  BY <1>1 DEF Machine
<1> QED BY <1>1, <1>2, BoxOf DEF Differs

LEMMA WriteKeys ==
  ASSUME NEW h \in Hosts, NEW c \in Containers, h[c].here, NEW keys \in [Databases -> Locations],
         NEW y, y = [h[c] EXCEPT !.keys = keys]
  PROVE  /\ y \in Boxes /\ y.keys = keys
         /\ Differs(h[c], y, "record") /\ Differs(h[c], y, "forget")
<1>1. h[c] \in Machine /\ IsFiniteSet(h[c].kept)
  BY BoxType
<1>2. /\ y \in Machine /\ y.here = h[c].here /\ y.kept = h[c].kept /\ y.project = h[c].project
      /\ y.index = h[c].index /\ y.keys = keys /\ y.data = h[c].data
      /\ y.logins = h[c].logins /\ y.env = h[c].env
  BY <1>1 DEF Machine
<1> QED BY <1>1, <1>2, BoxOf DEF Differs

LEMMA WriteTheIndex ==
  ASSUME NEW h \in Hosts, NEW c \in Containers, h[c].here, NEW index \in SUBSET Databases,
         NEW y, y = [h[c] EXCEPT !.index = index]
  PROVE  y \in Boxes /\ y.index = index /\ Differs(h[c], y, "index")
<1>1. h[c] \in Machine /\ IsFiniteSet(h[c].kept)
  BY BoxType
<1>2. /\ y \in Machine /\ y.here = h[c].here /\ y.kept = h[c].kept /\ y.project = h[c].project
      /\ y.index = index /\ y.keys = h[c].keys /\ y.data = h[c].data
      /\ y.logins = h[c].logins /\ y.env = h[c].env
  BY <1>1 DEF Machine
<1> QED BY <1>1, <1>2, BoxOf DEF Differs

\* What the command of a step writes when it does what it was to do ...
Effect(h, y, s, new) ==
  LET x == h[s.on] IN
  CASE s.do = "create" -> Creates(x, y, s.on, s.db, new)
    [] s.do = "drop" ->
         /\ y.data = [x.data EXCEPT ![s.db] = 0]
         /\ y.logins = [x.logins EXCEPT ![s.db] = [x.logins[s.db] EXCEPT ![s.on] = 0]]
    [] s.do = "grant" ->
         /\ x.logins[s.db][s.on] # 0 /\ x.logins[s.db][s.arg] = 0
         /\ y.logins = [x.logins EXCEPT ![s.db] = [x.logins[s.db] EXCEPT ![s.arg] = new]]
    [] s.do = "carry" ->
         LET login == h[s.arg].logins[s.db][s.on] IN
         /\ login # 0 /\ h[s.arg].here
         /\ y.env = [x.env EXCEPT ![s.db] = [at |-> s.arg, login |-> login]]
    [] s.do = "revoke" ->
         y.logins = [x.logins EXCEPT ![s.db] = [x.logins[s.db] EXCEPT ![s.arg] = 0]]
    [] s.do = "unenv" -> y.env = [x.env EXCEPT ![s.db] = NoEnv]
    [] s.do = "record" -> y.keys = [x.keys EXCEPT ![s.db] = Over(x.keys[s.db], s.arg)]
    [] s.do = "forget" -> y.keys = [x.keys EXCEPT ![s.db] = None]
    [] s.do = "index" -> y.index = s.arg
    [] OTHER -> FALSE

\* ... and when it fails, unless it writes nothing.
HalfEffect(h, y, s, new) ==
  LET x == h[s.on] IN
  CASE s.do = "create" ->
         /\ Credentialed(s.db) /\ x.logins[s.db][s.on] = 0
         /\ y.logins = [x.logins EXCEPT ![s.db] = [x.logins[s.db] EXCEPT ![s.on] = new]]
         /\ y.data = x.data \/ (x.data[s.db] = 0 /\ y.data = [x.data EXCEPT ![s.db] = new])
         /\ y.env = x.env
    [] s.do = "drop" -> y.data = [x.data EXCEPT ![s.db] = 0] /\ y.logins = x.logins
    [] s.do = "record" -> y.keys = [x.keys EXCEPT ![s.db] = Over(x.keys[s.db], Here)]
    [] s.do = "forget" -> x.keys[s.db] # None /\ y.keys = [x.keys EXCEPT ![s.db] = Here]
    [] s.do \in {"grant", "carry"} -> Effect(h, y, s, new)
    [] OTHER -> FALSE

Writes(h, h2, s, new) ==
  \E y \in Boxes : /\ h2 = [h EXCEPT ![s.on] = y] /\ h[s.on].here
                   /\ Differs(h[s.on], y, s.do) /\ Effect(h, y, s, new)
HalfWrites(h, h2, s, new) ==
  \E y \in Boxes : /\ h2 = [h EXCEPT ![s.on] = y] /\ h[s.on].here
                   /\ Differs(h[s.on], y, s.do) /\ HalfEffect(h, y, s, new)

LEMMA BoxFields ==
  ASSUME NEW h \in Hosts, NEW c \in Containers
  PROVE  /\ h[c].data \in [Databases -> Nat]
         /\ h[c].logins \in [Databases -> [Containers -> Nat]]
         /\ h[c].env \in [Databases -> [at : {None} \cup Containers, login : Nat]]
         /\ h[c].keys \in [Databases -> Locations] /\ h[c].index \in SUBSET Databases
         /\ h[c].here \in BOOLEAN /\ h[c].project \in Projects \cup {None}
         /\ h[c].kept \subseteq Nat
BY BoxType DEF Machine

LEMMA StepFields ==
  ASSUME NEW s \in Steps
  PROVE  /\ s.do \in Orders \cup OfOne \cup OfTwo \cup {"index"} => s.on \in Containers
         /\ s.do \in OfOne \cup OfTwo => s.db \in Databases
         /\ s.do \in OfTwo => s.arg \in Containers
         /\ s.do = "record" => s.arg \in Locations
         /\ s.do = "index" => s.arg \in SUBSET Databases
BY DEF Steps, StepOK, Given

LEMMA Written ==
  ASSUME NEW h \in Hosts, NEW s \in Steps, NEW new \in Nat \ {0}, NEW h2 \in Does(h, s, new),
         s.do \in OfOne \cup OfTwo \cup {"index"}
  PROVE  Writes(h, h2, s, new)
<1> DEFINE c == s.on
           d == s.db
           x == h[c]
<1>1. c \in Containers
  BY StepFields
<1>2. /\ x.data \in [Databases -> Nat] /\ x.logins \in [Databases -> [Containers -> Nat]]
      /\ x.env \in [Databases -> [at : {None} \cup Containers, login : Nat]]
      /\ x.keys \in [Databases -> Locations]
  BY <1>1, BoxFields
<1>3. CASE s.do = "create"
  <2>1. d \in Databases /\ h2 \in CreateDatabase(h, c, d, new)
    BY <1>3, StepFields DEF Does, OfOne
  <2> QED BY <1>1, <1>3, <2>1, CreateIs DEF Writes, Effect
<1>4. CASE s.do = "drop"
  <2>0. x \in Machine /\ IsFiniteSet(x.kept)
    BY <1>1, BoxType
  <2>1. d \in Databases /\ h2 \in DropDatabase(h, c, d)
    BY <1>4, StepFields DEF Does, OfOne
  <2> DEFINE data == [x.data EXCEPT ![d] = 0]
             logins == [x.logins EXCEPT ![d] = [x.logins[d] EXCEPT ![c] = 0]]
             y == [x EXCEPT !.data = data, !.logins = logins]
  <2>2. x.here /\ h2 = [h EXCEPT ![c].data[d] = 0, ![c].logins[d][c] = 0]
    BY <2>1 DEF DropDatabase, When, Listed
  <2>3. h2 = [h EXCEPT ![c] = y]
    BY <2>2
  <2>4. data \in [Databases -> Nat] /\ logins \in [Databases -> [Containers -> Nat]]
    BY <1>1, <1>2, <2>1
  <2> HIDE DEF data, logins
  <2>5. /\ y \in Machine /\ y.here = x.here /\ y.kept = x.kept /\ y.project = x.project
        /\ y.index = x.index /\ y.keys = x.keys /\ y.data = data
        /\ y.logins = logins /\ y.env = x.env
    BY <2>0, <2>4 DEF Machine
  <2> HIDE DEF y
  <2>6. y \in Boxes
    BY <2>0, <2>2, <2>5, BoxOf
  <2> QED BY <1>4, <2>2, <2>3, <2>5, <2>6 DEF Writes, Differs, Effect, data, logins
<1>5. CASE s.do \in {"grant", "revoke"}
  <2>1. /\ d \in Databases /\ s.arg \in Containers
        /\ s.do = "grant" => h2 \in Grant(h, c, d, s.arg, new)
        /\ s.do = "revoke" => h2 \in Revoke(h, c, d, s.arg)
    BY <1>5, StepFields DEF Does, OfTwo
  <2> DEFINE value == IF s.do = "grant" THEN new ELSE 0
             logins == [x.logins EXCEPT ![d] = [x.logins[d] EXCEPT ![s.arg] = value]]
             y == [x EXCEPT !.logins = logins]
  <2>2. /\ x.here /\ h2 = [h EXCEPT ![c].logins[d][s.arg] = value]
        /\ s.do = "grant" => x.logins[d][c] # 0 /\ x.logins[d][s.arg] = 0
    BY <1>5, <2>1 DEF Grant, Revoke, When, Listed
  <2>3. h2 = [h EXCEPT ![c] = y]
    BY <2>2
  <2>4. logins \in [Databases -> [Containers -> Nat]]
    BY <1>1, <1>2, <2>1
  <2> HIDE DEF logins
  <2>5. y \in Boxes /\ y.logins = logins /\ Differs(x, y, "grant") /\ Differs(x, y, "revoke")
    BY <1>1, <2>2, <2>4, WriteLogins
  <2> HIDE DEF y
  <2> QED BY <1>5, <2>2, <2>3, <2>5 DEF Writes, Effect, logins
<1>6. CASE s.do = "carry"
  <2>1. d \in Databases /\ s.arg \in Containers /\ h2 \in Carry(h, c, d, s.arg)
    BY <1>6, StepFields DEF Does, OfTwo
  <2> DEFINE login == h[s.arg].logins[d][c]
             env == [x.env EXCEPT ![d] = [at |-> s.arg, login |-> login]]
             y == [x EXCEPT !.env = env]
  <2>2. /\ x.here /\ h[s.arg].here /\ login # 0
        /\ h2 = [h EXCEPT ![c].env[d] = [at |-> s.arg, login |-> login]]
    BY <2>1 DEF Carry, When, Listed
  <2>3. h2 = [h EXCEPT ![c] = y]
    BY <2>2
  <2>4. login \in Nat
    BY <1>1, <2>1, BoxFields
  <2>5. env \in [Databases -> [at : {None} \cup Containers, login : Nat]]
    BY <1>2, <2>1, <2>4
  <2> HIDE DEF env
  <2>6. y \in Boxes /\ y.env = env /\ Differs(x, y, "carry")
    BY <1>1, <2>2, <2>5, WriteEnv
  <2> HIDE DEF y
  <2> QED BY <1>6, <2>2, <2>3, <2>6 DEF Writes, Effect, env
<1>7. CASE s.do = "unenv"
  <2>1. d \in Databases /\ h2 \in Unenv(h, c, d)
    BY <1>7, StepFields DEF Does, OfOne
  <2> DEFINE env == [x.env EXCEPT ![d] = NoEnv]
             y == [x EXCEPT !.env = env]
  <2>2. x.here /\ h2 = [h EXCEPT ![c].env[d] = NoEnv]
    BY <2>1 DEF Unenv, When, Listed
  <2>3. h2 = [h EXCEPT ![c] = y]
    BY <2>2
  <2>4. env \in [Databases -> [at : {None} \cup Containers, login : Nat]]
    BY <1>2, <2>1 DEF NoEnv
  <2> HIDE DEF env
  <2>5. y \in Boxes /\ y.env = env /\ Differs(x, y, "unenv")
    BY <1>1, <2>2, <2>4, WriteEnv
  <2> HIDE DEF y
  <2> QED BY <1>7, <2>2, <2>3, <2>5 DEF Writes, Effect, env
<1>8. CASE s.do \in {"record", "forget"}
  <2>1. /\ d \in Databases
        /\ s.do = "record" => s.arg \in Locations
        /\ s.do = "record" => h2 \in RecordKeys(h, c, d, s.arg)
        /\ s.do = "forget" => h2 \in ForgetKeys(h, c, d)
    BY <1>8, StepFields DEF Does, OfOne
  <2> DEFINE value == IF s.do = "record" THEN Over(x.keys[d], s.arg) ELSE None
             keys == [x.keys EXCEPT ![d] = value]
             y == [x EXCEPT !.keys = keys]
  <2>2. x.here /\ h2 = [h EXCEPT ![c].keys[d] = value]
    BY <1>8, <2>1 DEF RecordKeys, ForgetKeys, When
  <2>3. h2 = [h EXCEPT ![c] = y]
    BY <2>2
  <2>4. value \in Locations
    BY <1>2, <1>8, <2>1 DEF Over, Locations
  <2>5. keys \in [Databases -> Locations]
    BY <1>2, <2>1, <2>4
  <2> HIDE DEF keys
  <2>6. y \in Boxes /\ y.keys = keys /\ Differs(x, y, "record") /\ Differs(x, y, "forget")
    BY <1>1, <2>2, <2>5, WriteKeys
  <2> HIDE DEF y
  <2> QED BY <1>8, <2>2, <2>3, <2>6 DEF Writes, Effect, keys
<1>9. CASE s.do = "index"
  <2>1. s.arg \in SUBSET Databases /\ h2 \in WriteIndex(h, c, s.arg)
    BY <1>9, StepFields DEF Does
  <2> DEFINE y == [x EXCEPT !.index = s.arg]
  <2>2. x.here /\ h2 = [h EXCEPT ![c].index = s.arg]
    BY <2>1 DEF WriteIndex, When
  <2>3. h2 = [h EXCEPT ![c] = y]
    BY <2>2
  <2>4. y \in Boxes /\ y.index = s.arg /\ Differs(x, y, "index")
    BY <1>1, <2>1, <2>2, WriteTheIndex
  <2> HIDE DEF y
  <2> QED BY <1>9, <2>2, <2>3, <2>4 DEF Writes, Effect
<1> QED BY <1>3, <1>4, <1>5, <1>6, <1>7, <1>8, <1>9 DEF OfOne, OfTwo

LEMMA HalfWritten ==
  ASSUME NEW h \in Hosts, NEW s \in Steps, NEW new \in Nat \ {0}, NEW h2 \in FailsWith(h, s, new)
  PROVE  h2 = h \/ HalfWrites(h, h2, s, new)
<1> DEFINE c == s.on
           d == s.db
           x == h[c]
<1>a. ASSUME s.do \in OfOne \cup OfTwo
      PROVE  /\ c \in Containers /\ d \in Databases /\ x \in Machine /\ IsFiniteSet(x.kept)
             /\ x.data \in [Databases -> Nat] /\ x.logins \in [Databases -> [Containers -> Nat]]
             /\ x.keys \in [Databases -> Locations]
  BY <1>a, StepFields, BoxFields, BoxType
<1>1. CASE s.do = "create"
  <2>0. /\ c \in Containers /\ d \in Databases /\ x \in Machine /\ IsFiniteSet(x.kept)
        /\ x.data \in [Databases -> Nat] /\ x.logins \in [Databases -> [Containers -> Nat]]
    BY <1>1, <1>a DEF OfOne
  <2>1. SUFFICES ASSUME h2 # h PROVE HalfWrites(h, h2, s, new)
    OBVIOUS
  <2>2. h2 \in CreateHalf(h, c, d, new)
    BY <1>1, <2>1 DEF FailsWith
  <2>3. x.here /\ Credentialed(d) /\ x.logins[d][c] = 0
    BY <2>2 DEF CreateHalf, Listed
  <2> DEFINE logins == [x.logins EXCEPT ![d] = [x.logins[d] EXCEPT ![c] = new]]
             data == [x.data EXCEPT ![d] = new]
             y1 == [x EXCEPT !.logins = logins]
             y2 == [x EXCEPT !.logins = logins, !.data = data]
  <2>4. \/ h2 = [h EXCEPT ![c].logins[d][c] = new]
        \/ x.data[d] = 0 /\ h2 = [h EXCEPT ![c].logins[d][c] = new, ![c].data[d] = new]
    BY <2>2 DEF CreateHalf, When
  <2>5. h2 = [h EXCEPT ![c] = y1] \/ (x.data[d] = 0 /\ h2 = [h EXCEPT ![c] = y2])
    BY <2>4
  <2>6. logins \in [Databases -> [Containers -> Nat]] /\ data \in [Databases -> Nat]
    BY <2>0
  <2> HIDE DEF logins, data
  <2>7. /\ y1 \in Machine /\ y1.here = x.here /\ y1.kept = x.kept /\ y1.project = x.project
        /\ y1.index = x.index /\ y1.keys = x.keys /\ y1.data = x.data
        /\ y1.logins = logins /\ y1.env = x.env
    BY <2>0, <2>6 DEF Machine
  <2>8. /\ y2 \in Machine /\ y2.here = x.here /\ y2.kept = x.kept /\ y2.project = x.project
        /\ y2.index = x.index /\ y2.keys = x.keys /\ y2.data = data
        /\ y2.logins = logins /\ y2.env = x.env
    BY <2>0, <2>6 DEF Machine
  <2> HIDE DEF y1, y2
  <2>9. y1 \in Boxes /\ y2 \in Boxes
    BY <2>0, <2>3, <2>7, <2>8, BoxOf
  <2>10. CASE h2 = [h EXCEPT ![c] = y1]
    BY <1>1, <2>3, <2>7, <2>9, <2>10 DEF HalfWrites, HalfEffect, Differs, logins
  <2>11. CASE x.data[d] = 0 /\ h2 = [h EXCEPT ![c] = y2]
    BY <1>1, <2>3, <2>8, <2>9, <2>11 DEF HalfWrites, HalfEffect, Differs, logins, data
  <2> QED BY <2>5, <2>10, <2>11
<1>2. CASE s.do = "drop"
  <2>0. /\ c \in Containers /\ d \in Databases
        /\ x.data \in [Databases -> Nat] /\ x.logins \in [Databases -> [Containers -> Nat]]
    BY <1>2, <1>a DEF OfOne
  <2>1. SUFFICES ASSUME h2 # h PROVE HalfWrites(h, h2, s, new)
    OBVIOUS
  <2> DEFINE data == [x.data EXCEPT ![d] = 0]
             y == [x EXCEPT !.data = data]
  <2>2. x.here /\ h2 = [h EXCEPT ![c].data[d] = 0]
    BY <1>2, <2>1 DEF FailsWith, DropHalf, When, Listed
  <2>3. h2 = [h EXCEPT ![c] = y]
    BY <2>2
  <2>4. data \in [Databases -> Nat]
    BY <2>0
  <2> HIDE DEF data
  <2>5. y \in Boxes /\ y.data = data /\ y.logins = x.logins /\ Differs(x, y, "drop")
    BY <2>0, <2>2, <2>4, WriteData
  <2> HIDE DEF y
  <2> QED BY <1>2, <2>2, <2>3, <2>5 DEF HalfWrites, HalfEffect, data
<1>3. CASE s.do \in {"record", "forget"}
  <2>0. /\ c \in Containers /\ d \in Databases /\ x.keys \in [Databases -> Locations]
    BY <1>3, <1>a DEF OfOne
  <2>1. SUFFICES ASSUME h2 # h PROVE HalfWrites(h, h2, s, new)
    OBVIOUS
  <2> DEFINE value == IF s.do = "record" THEN Over(x.keys[d], Here) ELSE Here
             keys == [x.keys EXCEPT ![d] = value]
             y == [x EXCEPT !.keys = keys]
  <2>2. /\ x.here /\ h2 = [h EXCEPT ![c].keys[d] = value]
        /\ s.do = "forget" => x.keys[d] # None
    BY <1>3, <2>1 DEF FailsWith, RecordKeys, ForgetHalf, When
  <2>3. h2 = [h EXCEPT ![c] = y]
    BY <2>2
  <2>4. value \in Locations
    BY <2>0, <1>3 DEF Over, Locations
  <2>5. keys \in [Databases -> Locations]
    BY <2>0, <2>4
  <2> HIDE DEF keys
  <2>6. y \in Boxes /\ y.keys = keys /\ Differs(x, y, "record") /\ Differs(x, y, "forget")
    BY <2>0, <2>2, <2>5, WriteKeys
  <2> HIDE DEF y
  <2> QED BY <1>3, <2>2, <2>3, <2>6 DEF HalfWrites, HalfEffect, keys
<1>4. CASE s.do \in {"grant", "carry"}
  <2>1. h2 = h \/ h2 \in Does(h, s, new)
    BY <1>4 DEF FailsWith
  <2>2. CASE h2 \in Does(h, s, new)
    <3>1. Writes(h, h2, s, new)
      BY <1>4, <2>2, Written DEF OfTwo
    <3> QED BY <1>4, <3>1 DEF Writes, HalfWrites, HalfEffect
  <2> QED BY <2>1, <2>2
<1>5. CASE s.do \notin {"create", "drop", "record", "forget", "grant", "carry"}
  BY <1>5 DEF FailsWith
<1> QED BY <1>1, <1>2, <1>3, <1>4, <1>5

\* Together: whatever step it is, done or not, the host stays one, and only the
\* container it is on differs.
Moved(h, h2, s) ==
  \/ h2 = h
  \/ \E y \in Boxes : h2 = [h EXCEPT ![s.on] = y] /\ Differs(h[s.on], y, s.do)

LEMMA StepType ==
  ASSUME NEW h \in Hosts, NEW s \in Steps, NEW new \in Nat \ {0},
         NEW h2 \in Does(h, s, new) \cup FailsWith(h, s, new)
  PROVE  h2 \in Hosts /\ Moved(h, h2, s)
<1>1. Moved(h, h2, s) /\ (h2 = h \/ s.on \in Containers)
  <2>1. CASE h2 \in FailsWith(h, s, new)
    <3>1. h2 = h \/ HalfWrites(h, h2, s, new)
      BY <2>1, HalfWritten
    <3>2. HalfWrites(h, h2, s, new) => s.do \in OfOne \cup OfTwo
      BY DEF HalfWrites, HalfEffect, OfOne, OfTwo
    <3> QED BY <3>1, <3>2, StepFields DEF HalfWrites, Moved
  <2>2. CASE h2 \in Does(h, s, new) /\ s.do \in Orders
    BY <2>2, Ordered, StepFields DEF Puts, Moved
  <2>3. CASE h2 \in Does(h, s, new) /\ s.do \in OfOne \cup OfTwo \cup {"index"}
    BY <2>3, Written, StepFields DEF Writes, Moved
  <2>4. CASE h2 \in Does(h, s, new) /\ s.do \notin Orders \cup OfOne \cup OfTwo \cup {"index"}
    BY <2>4 DEF Does, Moved, Orders, OfOne, OfTwo
  <2> QED BY <2>1, <2>2, <2>3, <2>4
<1> QED BY <1>1, PutType DEF Moved

----------------------------------------------------------------------------
(* Plans.                                                                   *)

Fields(s, do, c, d, arg, optional) ==
  s.do = do /\ s.on = c /\ s.db = d /\ s.arg = arg /\ s.optional = optional

LEMMA RunType ==
  ASSUME NEW do \in Commands, NEW c \in Containers \cup {None}, NEW d \in Databases \cup {None},
         NEW arg \in Args, Given(do, c, d, arg)
  PROVE  /\ Run(do, c, d, arg) \in Steps /\ Fields(Run(do, c, d, arg), do, c, d, arg, FALSE)
         /\ Optional(Run(do, c, d, arg)) \in Steps
         /\ Fields(Optional(Run(do, c, d, arg)), do, c, d, arg, TRUE)
<1> DEFINE s == Run(do, c, d, arg)
           o == Optional(s)
           R == [do : Commands, on : Containers \cup {None}, db : Databases \cup {None},
                 arg : Args, optional : BOOLEAN]
<1>1. s \in R /\ Fields(s, do, c, d, arg, FALSE)
  BY DEF Run, Fields
<1>2. o = [s EXCEPT !.optional = TRUE]
  BY DEF Optional
<1> HIDE DEF s, o
<1>3. o \in R /\ Fields(o, do, c, d, arg, TRUE)
  BY <1>1, <1>2 DEF Fields
<1>4. StepOK(s) /\ StepOK(o)
  BY <1>1, <1>3 DEF Fields, StepOK
<1>5. s \in Steps /\ o \in Steps
  BY <1>1, <1>3, <1>4 DEF Steps
<1> QED BY <1>1, <1>3, <1>5 DEF s, o

LEMMA ArgTypes ==
  /\ None \in Args /\ Here \in Args /\ Adopted \in Args
  /\ Containers \subseteq Args /\ Projects \subseteq Args /\ 0..Addresses \subseteq Args
  /\ SUBSET Databases \subseteq Args
BY DEF Args, Locations

\* Every plan, step by step.
LEMMA CreateSteps ==
  ASSUME NEW c \in Containers, NEW n \in 0..Addresses, NEW p \in Projects \cup {None}
  PROVE  LET plan == CreatePlan(c, n, p) IN
         /\ plan \in Seq(Steps)
         /\ p = None =>
              /\ Len(plan) = 3
              /\ Fields(plan[1], "init", c, None, None, FALSE)
              /\ Fields(plan[2], "pin", c, None, n, FALSE)
              /\ Fields(plan[3], "start", c, None, None, FALSE)
         /\ p # None =>
              /\ Len(plan) = 4
              /\ Fields(plan[1], "init", c, None, None, FALSE)
              /\ Fields(plan[2], "pin", c, None, n, FALSE)
              /\ Fields(plan[3], "assign", c, None, p, FALSE)
              /\ Fields(plan[4], "start", c, None, None, FALSE)
<1> DEFINE plan == CreatePlan(c, n, p)
<1>1. Run("init", c, None, None) \in Steps /\ Fields(Run("init", c, None, None), "init", c, None, None, FALSE)
  BY RunType, ArgTypes DEF Given, Commands, Orders, OfOne, OfTwo, Locations
<1>2. Run("pin", c, None, n) \in Steps /\ Fields(Run("pin", c, None, n), "pin", c, None, n, FALSE)
  BY RunType, ArgTypes DEF Given, Commands, Orders, OfOne, OfTwo, Locations
<1>3. Run("start", c, None, None) \in Steps /\ Fields(Run("start", c, None, None), "start", c, None, None, FALSE)
  BY RunType, ArgTypes DEF Given, Commands, Orders, OfOne, OfTwo, Locations
<1>4. Run("assign", c, None, p) \in Steps /\ Fields(Run("assign", c, None, p), "assign", c, None, p, FALSE)
  BY RunType, ArgTypes DEF Given, Commands, Orders, OfOne, OfTwo, Locations
<1>5. ASSUME p = None PROVE plan \in Seq(Steps) /\ Len(plan) = 3
       /\ plan[1] = Run("init", c, None, None)
       /\ plan[2] = Run("pin", c, None, n)
       /\ plan[3] = Run("start", c, None, None)
  BY <1>1, <1>2, <1>3, <1>5 DEF CreatePlan
<1>6. ASSUME p # None PROVE plan \in Seq(Steps) /\ Len(plan) = 4
       /\ plan[1] = Run("init", c, None, None)
       /\ plan[2] = Run("pin", c, None, n)
       /\ plan[3] = Run("assign", c, None, p)
       /\ plan[4] = Run("start", c, None, None)
  BY <1>1, <1>2, <1>4, <1>3, <1>6 DEF CreatePlan
<1> HIDE DEF plan
<1>7. ASSUME p = None PROVE /\ Fields(plan[1], "init", c, None, None, FALSE)
       /\ Fields(plan[2], "pin", c, None, n, FALSE)
       /\ Fields(plan[3], "start", c, None, None, FALSE)
  BY <1>1, <1>2, <1>3, <1>5, <1>7 DEF Fields
<1>8. ASSUME p # None PROVE /\ Fields(plan[1], "init", c, None, None, FALSE)
       /\ Fields(plan[2], "pin", c, None, n, FALSE)
       /\ Fields(plan[3], "assign", c, None, p, FALSE)
       /\ Fields(plan[4], "start", c, None, None, FALSE)
  BY <1>1, <1>2, <1>4, <1>3, <1>6, <1>8 DEF Fields
<1> QED BY <1>5, <1>6, <1>7, <1>8 DEF plan

LEMMA ProvisionSteps ==
  ASSUME NEW c \in Containers, NEW d \in Databases, NEW index \in SUBSET Databases
  PROVE  LET plan == ProvisionPlan(c, d, index) IN
         /\ plan \in Seq(Steps)
         /\ Len(plan) = 4
         /\ Fields(plan[1], "snapshot", c, None, None, FALSE)
         /\ Fields(plan[2], "create", c, d, None, FALSE)
         /\ Fields(plan[3], "record", c, d, Here, FALSE)
         /\ Fields(plan[4], "index", c, None, index, FALSE)
<1> DEFINE plan == ProvisionPlan(c, d, index)
<1>1. Run("snapshot", c, None, None) \in Steps /\ Fields(Run("snapshot", c, None, None), "snapshot", c, None, None, FALSE)
  BY RunType, ArgTypes DEF Given, Commands, Orders, OfOne, OfTwo, Locations
<1>2. Run("create", c, d, None) \in Steps /\ Fields(Run("create", c, d, None), "create", c, d, None, FALSE)
  BY RunType, ArgTypes DEF Given, Commands, Orders, OfOne, OfTwo, Locations
<1>3. Run("record", c, d, Here) \in Steps /\ Fields(Run("record", c, d, Here), "record", c, d, Here, FALSE)
  BY RunType, ArgTypes DEF Given, Commands, Orders, OfOne, OfTwo, Locations
<1>4. Run("index", c, None, index) \in Steps /\ Fields(Run("index", c, None, index), "index", c, None, index, FALSE)
  BY RunType, ArgTypes DEF Given, Commands, Orders, OfOne, OfTwo, Locations
<1>5. plan \in Seq(Steps) /\ Len(plan) = 4
       /\ plan[1] = Run("snapshot", c, None, None)
       /\ plan[2] = Run("create", c, d, None)
       /\ plan[3] = Run("record", c, d, Here)
       /\ plan[4] = Run("index", c, None, index)
  BY <1>1, <1>2, <1>3, <1>4 DEF ProvisionPlan, Record
<1> HIDE DEF plan
<1>6. /\ Fields(plan[1], "snapshot", c, None, None, FALSE)
       /\ Fields(plan[2], "create", c, d, None, FALSE)
       /\ Fields(plan[3], "record", c, d, Here, FALSE)
       /\ Fields(plan[4], "index", c, None, index, FALSE)
  BY <1>1, <1>2, <1>3, <1>4, <1>5 DEF Fields
<1> QED BY <1>5, <1>6 DEF plan

LEMMA AdoptSteps ==
  ASSUME NEW c \in Containers, NEW d \in Databases, NEW index \in SUBSET Databases
  PROVE  LET plan == AdoptPlan(c, d, index) IN
         /\ plan \in Seq(Steps)
         /\ Len(plan) = 2
         /\ Fields(plan[1], "record", c, d, Adopted, FALSE)
         /\ Fields(plan[2], "index", c, None, index, FALSE)
<1> DEFINE plan == AdoptPlan(c, d, index)
<1>1. Run("record", c, d, Adopted) \in Steps /\ Fields(Run("record", c, d, Adopted), "record", c, d, Adopted, FALSE)
  BY RunType, ArgTypes DEF Given, Commands, Orders, OfOne, OfTwo, Locations
<1>2. Run("index", c, None, index) \in Steps /\ Fields(Run("index", c, None, index), "index", c, None, index, FALSE)
  BY RunType, ArgTypes DEF Given, Commands, Orders, OfOne, OfTwo, Locations
<1>3. plan \in Seq(Steps) /\ Len(plan) = 2
       /\ plan[1] = Run("record", c, d, Adopted)
       /\ plan[2] = Run("index", c, None, index)
  BY <1>1, <1>2 DEF AdoptPlan, Record
<1> HIDE DEF plan
<1>4. /\ Fields(plan[1], "record", c, d, Adopted, FALSE)
       /\ Fields(plan[2], "index", c, None, index, FALSE)
  BY <1>1, <1>2, <1>3 DEF Fields
<1> QED BY <1>3, <1>4 DEF plan

LEMMA ShareSteps ==
  ASSUME NEW c \in Containers, NEW p \in Containers, NEW d \in Databases, NEW index \in SUBSET Databases
  PROVE  LET plan == SharePlan(c, p, d, index) IN
         /\ plan \in Seq(Steps)
         /\ Len(plan) = 4
         /\ Fields(plan[1], "grant", p, d, c, FALSE)
         /\ Fields(plan[2], "carry", c, d, p, FALSE)
         /\ Fields(plan[3], "record", c, d, p, FALSE)
         /\ Fields(plan[4], "index", c, None, index, FALSE)
<1> DEFINE plan == SharePlan(c, p, d, index)
<1>1. Run("grant", p, d, c) \in Steps /\ Fields(Run("grant", p, d, c), "grant", p, d, c, FALSE)
  BY RunType, ArgTypes DEF Given, Commands, Orders, OfOne, OfTwo, Locations
<1>2. Run("carry", c, d, p) \in Steps /\ Fields(Run("carry", c, d, p), "carry", c, d, p, FALSE)
  BY RunType, ArgTypes DEF Given, Commands, Orders, OfOne, OfTwo, Locations
<1>3. Run("record", c, d, p) \in Steps /\ Fields(Run("record", c, d, p), "record", c, d, p, FALSE)
  BY RunType, ArgTypes DEF Given, Commands, Orders, OfOne, OfTwo, Locations
<1>4. Run("index", c, None, index) \in Steps /\ Fields(Run("index", c, None, index), "index", c, None, index, FALSE)
  BY RunType, ArgTypes DEF Given, Commands, Orders, OfOne, OfTwo, Locations
<1>5. plan \in Seq(Steps) /\ Len(plan) = 4
       /\ plan[1] = Run("grant", p, d, c)
       /\ plan[2] = Run("carry", c, d, p)
       /\ plan[3] = Run("record", c, d, p)
       /\ plan[4] = Run("index", c, None, index)
  BY <1>1, <1>2, <1>3, <1>4 DEF SharePlan, Record
<1> HIDE DEF plan
<1>6. /\ Fields(plan[1], "grant", p, d, c, FALSE)
       /\ Fields(plan[2], "carry", c, d, p, FALSE)
       /\ Fields(plan[3], "record", c, d, p, FALSE)
       /\ Fields(plan[4], "index", c, None, index, FALSE)
  BY <1>1, <1>2, <1>3, <1>4, <1>5 DEF Fields
<1> QED BY <1>5, <1>6 DEF plan

\* The index is written by a step that may fail when nothing is left in it.
LEMMA ForgetSteps ==
  ASSUME NEW c \in Containers, NEW d \in Databases, NEW index \in SUBSET Databases
  PROVE  LET plan == Forget(c, d, index) IN
         /\ plan \in Seq(Steps) /\ Len(plan) = 2
         /\ Fields(plan[1], "forget", c, d, None, TRUE)
         /\ Fields(plan[2], "index", c, None, index, index = {})
<1> DEFINE write == Run("index", c, None, index)
           last == IF index = {} THEN Optional(write) ELSE write
           first == Optional(Run("forget", c, d, None))
<1>1. first \in Steps /\ Fields(first, "forget", c, d, None, TRUE)
  BY RunType, ArgTypes DEF Given, Commands, Orders, OfOne, OfTwo
<1>2. /\ write \in Steps /\ Fields(write, "index", c, None, index, FALSE)
      /\ Optional(write) \in Steps /\ Fields(Optional(write), "index", c, None, index, TRUE)
  BY RunType, ArgTypes DEF Given, Commands, Orders, OfOne, OfTwo
<1>3. Forget(c, d, index) = <<first, last>>
  BY DEF Forget
<1> HIDE DEF first, write
<1>4. last \in Steps
  BY <1>2
<1>5. Fields(last, "index", c, None, index, index = {})
  BY <1>2 DEF Fields
<1> HIDE DEF last
<1>6. <<first, last>> \in Seq(Steps)
  BY <1>1, <1>4
<1>7. Len(<<first, last>>) = 2 /\ <<first, last>>[1] = first /\ <<first, last>>[2] = last
  OBVIOUS
<1> QED BY <1>1, <1>3, <1>5, <1>6, <1>7

LEMMA Joined ==
  ASSUME NEW S, NEW s \in Seq(S), NEW t \in Seq(S), NEW n \in Nat, Len(s) = n, Len(t) = 2
  PROVE  /\ s \o t \in Seq(S) /\ Len(s \o t) = n + 2
         /\ \A i \in 1..n : (s \o t)[i] = s[i]
         /\ (s \o t)[n + 1] = t[1] /\ (s \o t)[n + 2] = t[2]
<1> DEFINE u == s \o t
<1>1. /\ u \in Seq(S) /\ Len(u) = n + 2
      /\ \A i \in 1..n + 2 : u[i] = IF i <= n THEN s[i] ELSE t[i - n]
  BY ConcatProperties
<1> HIDE DEF u
<1>2. u[n + 1] = t[n + 1 - n] /\ u[n + 2] = t[n + 2 - n]
  BY <1>1
<1>3. n + 1 - n = 1 /\ n + 2 - n = 2
  OBVIOUS
<1>4. \A i \in 1..n : u[i] = s[i]
  BY <1>1
<1> QED BY <1>1, <1>2, <1>3, <1>4 DEF u

LEMMA RevokeSteps ==
  ASSUME NEW c \in Containers, NEW p \in Containers, NEW d \in Databases, NEW index \in SUBSET Databases
  PROVE  LET plan == RevokePlan(c, p, d, index) IN
         /\ plan \in Seq(Steps)
         /\ Len(plan) = 4
         /\ Fields(plan[1], "revoke", p, d, c, TRUE)
         /\ Fields(plan[2], "unenv", c, d, None, FALSE)
         /\ Fields(plan[3], "forget", c, d, None, TRUE)
         /\ Fields(plan[4], "index", c, None, index, index = {})
<1> DEFINE plan == RevokePlan(c, p, d, index)
           rest == Forget(c, d, index)
<1>0. rest \in Seq(Steps) /\ Len(rest) = 2
  BY ForgetSteps
<1>1. /\ Fields(rest[1], "forget", c, d, None, TRUE)
      /\ Fields(rest[2], "index", c, None, index, index = {})
  BY ForgetSteps
<1>2. Optional(Run("revoke", p, d, c)) \in Steps /\ Fields(Optional(Run("revoke", p, d, c)), "revoke", p, d, c, TRUE)
  BY RunType, ArgTypes DEF Given, Commands, Orders, OfOne, OfTwo
<1>3. Run("unenv", c, d, None) \in Steps /\ Fields(Run("unenv", c, d, None), "unenv", c, d, None, FALSE)
  BY RunType, ArgTypes DEF Given, Commands, Orders, OfOne, OfTwo
<1>4. /\ plan = <<Optional(Run("revoke", p, d, c)), Run("unenv", c, d, None)>> \o rest
  BY DEF RevokePlan
<1> HIDE DEF plan, rest
<1>5. /\ plan \in Seq(Steps) /\ Len(plan) = 4
       /\ plan[1] = Optional(Run("revoke", p, d, c))
       /\ plan[2] = Run("unenv", c, d, None)
       /\ plan[3] = rest[1] /\ plan[4] = rest[2]
  <2> DEFINE first == <<Optional(Run("revoke", p, d, c)), Run("unenv", c, d, None)>>
  <2>1. /\ first \in Seq(Steps) /\ Len(first) = 2
        /\ first[1] = Optional(Run("revoke", p, d, c))
        /\ first[2] = Run("unenv", c, d, None)
    BY <1>2, <1>3
  <2>2. plan = first \o rest
    BY <1>4
  <2> HIDE DEF first
  <2> DEFINE n == 2
  <2>3. /\ n \in Nat /\ Len(first) = n /\ n + 1 = 3 /\ n + 2 = 4
        /\ {1, 2} \subseteq 1..n
    BY <2>1
  <2> HIDE DEF n
  <2>4. /\ plan \in Seq(Steps) /\ Len(plan) = n + 2 /\ \A i \in 1..n : plan[i] = first[i]
        /\ plan[n + 1] = rest[1] /\ plan[n + 2] = rest[2]
    BY <1>0, <2>1, <2>2, <2>3, Joined
  <2> QED BY <2>1, <2>3, <2>4
<1> QED BY <1>1, <1>2, <1>3, <1>5 DEF plan, Fields

LEMMA DestroySteps ==
  ASSUME NEW c \in Containers, NEW d \in Databases, NEW index \in SUBSET Databases
  PROVE  LET plan == DestroyPlan(c, d, index) IN
         /\ plan \in Seq(Steps)
         /\ Credentialed(d) =>
              /\ Len(plan) = 5
              /\ Fields(plan[1], "snapshot", c, None, None, FALSE)
              /\ Fields(plan[2], "drop", c, d, None, FALSE)
              /\ Fields(plan[3], "unenv", c, d, None, FALSE)
              /\ Fields(plan[4], "forget", c, d, None, TRUE)
              /\ Fields(plan[5], "index", c, None, index, index = {})
         /\ ~Credentialed(d) =>
              /\ Len(plan) = 4
              /\ Fields(plan[1], "snapshot", c, None, None, FALSE)
              /\ Fields(plan[2], "unenv", c, d, None, FALSE)
              /\ Fields(plan[3], "forget", c, d, None, TRUE)
              /\ Fields(plan[4], "index", c, None, index, index = {})
<1> DEFINE plan == DestroyPlan(c, d, index)
           rest == Forget(c, d, index)
<1>0. rest \in Seq(Steps) /\ Len(rest) = 2
  BY ForgetSteps
<1>1. /\ Fields(rest[1], "forget", c, d, None, TRUE)
      /\ Fields(rest[2], "index", c, None, index, index = {})
  BY ForgetSteps
<1>2. Run("snapshot", c, None, None) \in Steps /\ Fields(Run("snapshot", c, None, None), "snapshot", c, None, None, FALSE)
  BY RunType, ArgTypes DEF Given, Commands, Orders, OfOne, OfTwo
<1>3. Run("drop", c, d, None) \in Steps /\ Fields(Run("drop", c, d, None), "drop", c, d, None, FALSE)
  BY RunType, ArgTypes DEF Given, Commands, Orders, OfOne, OfTwo
<1>4. Run("unenv", c, d, None) \in Steps /\ Fields(Run("unenv", c, d, None), "unenv", c, d, None, FALSE)
  BY RunType, ArgTypes DEF Given, Commands, Orders, OfOne, OfTwo
<1>5. /\ Credentialed(d) => plan = <<Run("snapshot", c, None, None)>> \o <<Run("drop", c, d, None)>> \o <<Run("unenv", c, d, None)>> \o rest
      /\ ~Credentialed(d) => plan = <<Run("snapshot", c, None, None)>> \o <<>> \o <<Run("unenv", c, d, None)>> \o rest
  BY DEF DestroyPlan
<1> HIDE DEF plan, rest
<1>6. ASSUME Credentialed(d) PROVE /\ plan \in Seq(Steps) /\ Len(plan) = 5
       /\ plan[1] = Run("snapshot", c, None, None)
       /\ plan[2] = Run("drop", c, d, None)
       /\ plan[3] = Run("unenv", c, d, None)
       /\ plan[4] = rest[1] /\ plan[5] = rest[2]
  <2> DEFINE first == <<Run("snapshot", c, None, None)>> \o <<Run("drop", c, d, None)>> \o <<Run("unenv", c, d, None)>>
  <2>1. /\ first \in Seq(Steps) /\ Len(first) = 3
        /\ first[1] = Run("snapshot", c, None, None)
        /\ first[2] = Run("drop", c, d, None)
        /\ first[3] = Run("unenv", c, d, None)
    BY <1>2, <1>3, <1>4
  <2>2. plan = first \o rest
    BY <1>5, <1>6
  <2> HIDE DEF first
  <2> DEFINE n == 3
  <2>3. /\ n \in Nat /\ Len(first) = n /\ n + 1 = 4 /\ n + 2 = 5
        /\ {1, 2, 3} \subseteq 1..n
    BY <2>1
  <2> HIDE DEF n
  <2>4. /\ plan \in Seq(Steps) /\ Len(plan) = n + 2 /\ \A i \in 1..n : plan[i] = first[i]
        /\ plan[n + 1] = rest[1] /\ plan[n + 2] = rest[2]
    BY <1>0, <2>1, <2>2, <2>3, Joined
  <2> QED BY <2>1, <2>3, <2>4
<1>7. ASSUME ~Credentialed(d) PROVE /\ plan \in Seq(Steps) /\ Len(plan) = 4
       /\ plan[1] = Run("snapshot", c, None, None)
       /\ plan[2] = Run("unenv", c, d, None)
       /\ plan[3] = rest[1] /\ plan[4] = rest[2]
  <2> DEFINE first == <<Run("snapshot", c, None, None)>> \o <<>> \o <<Run("unenv", c, d, None)>>
  <2>1. /\ first \in Seq(Steps) /\ Len(first) = 2
        /\ first[1] = Run("snapshot", c, None, None)
        /\ first[2] = Run("unenv", c, d, None)
    BY <1>2, <1>4
  <2>2. plan = first \o rest
    BY <1>5, <1>7
  <2> HIDE DEF first
  <2> DEFINE n == 2
  <2>3. /\ n \in Nat /\ Len(first) = n /\ n + 1 = 3 /\ n + 2 = 4
        /\ {1, 2} \subseteq 1..n
    BY <2>1
  <2> HIDE DEF n
  <2>4. /\ plan \in Seq(Steps) /\ Len(plan) = n + 2 /\ \A i \in 1..n : plan[i] = first[i]
        /\ plan[n + 1] = rest[1] /\ plan[n + 2] = rest[2]
    BY <1>0, <2>1, <2>2, <2>3, Joined
  <2> QED BY <2>1, <2>3, <2>4
<1> QED BY <1>1, <1>2, <1>3, <1>4, <1>6, <1>7 DEF plan, Fields

----------------------------------------------------------------------------
(* The state is well typed.                                                   *)

Works ==
  [kind : Kinds \cup {"letgo", "none"}, on : Containers \cup {None}, turn : BOOLEAN,
   walking : BOOLEAN, steps : Seq(Steps)]

Typed ==
  /\ host \in Hosts /\ work \in [Requests -> Works]
  /\ declared \subseteq Projects /\ crossed \in BOOLEAN /\ gone \subseteq Containers
  /\ asked \in 0..MaxAsked /\ fails \in 0..MaxFails

\* There is always a number nothing has.
LEMMA NewIsNew ==
  ASSUME host \in Hosts
  PROVE  New \in Nat \ {0} /\ New \notin Used
<1>1. ASSUME NEW c \in Containers
      PROVE  IsFiniteSet(host[c].kept \cup {host[c].data[d] : d \in Databases}
                         \cup {host[c].env[d].login : d \in Databases}
                         \cup {host[c].logins[d][e] : d \in Databases, e \in Containers})
  <2> DEFINE A == {host[c].data[d] : d \in Databases}
             B == {host[c].env[d].login : d \in Databases}
             D == {host[c].logins[d][e] : d \in Databases, e \in Containers}
  <2>1. IsFiniteSet(host[c].kept)
    BY BoxType
  <2>2. IsFiniteSet(A)
    BY BoxFields, Image
  <2>3. IsFiniteSet(B)
    <3> DEFINE f == [d \in Databases |-> host[c].env[d].login]
    <3>1. f \in [Databases -> Nat]
      BY BoxFields
    <3>2. B = {f[d] : d \in Databases}
      OBVIOUS
    <3> QED BY <3>1, <3>2, Image
  <2>4. IsFiniteSet(D)
    <3> DEFINE f == [p \in Databases \X Containers |-> host[c].logins[p[1]][p[2]]]
    <3>1. IsFiniteSet(Databases \X Containers)
      BY MachinesAssumption, FS_Product
    <3>2. f \in [Databases \X Containers -> D]
      OBVIOUS
    <3>3. ASSUME NEW t \in D PROVE \E p \in Databases \X Containers : f[p] = t
      <4>1. PICK d \in Databases, e \in Containers : t = host[c].logins[d][e]
        OBVIOUS
      <4>2. <<d, e>> \in Databases \X Containers /\ f[<<d, e>>] = t
        BY <4>1
      <4> QED BY <4>2
    <3> HIDE DEF f, D
    <3>4. f \in Surjection(Databases \X Containers, D)
      BY <3>2, <3>3 DEF Surjection
    <3> QED BY <3>1, <3>4, FS_Surjection
  <2> HIDE DEF A, B, D
  <2>5. IsFiniteSet(host[c].kept \cup A)
    BY <2>1, <2>2, FS_Union
  <2>6. IsFiniteSet(host[c].kept \cup A \cup B)
    BY <2>3, <2>5, FS_Union
  <2>7. IsFiniteSet(host[c].kept \cup A \cup B \cup D)
    BY <2>4, <2>6, FS_Union
  <2> QED BY <2>7 DEF A, B, D
<1>2. IsFiniteSet(Used)
  <2> DEFINE Of(c) == host[c].kept \cup {host[c].data[d] : d \in Databases}
                      \cup {host[c].env[d].login : d \in Databases}
                      \cup {host[c].logins[d][e] : d \in Databases, e \in Containers}
             S == {Of(c) : c \in Containers}
             f == [c \in Containers |-> Of(c)]
  <2>1. \A c \in Containers : IsFiniteSet(Of(c))
    BY <1>1
  <2> HIDE DEF Of
  <2>2. f \in Surjection(Containers, S)
    BY DEF Surjection
  <2>3. IsFiniteSet(S)
    BY <2>2, MachinesAssumption, FS_Surjection
  <2>4. IsFiniteSet(UNION S)
    BY <2>1, <2>3, FS_UNION
  <2> QED BY <2>4 DEF Used, Of
<1> DEFINE m == Cardinality(Used)
<1>3. m \in Nat /\ m + 1 \in Int /\ ~(1 > m + 1) /\ m + 1 - 1 + 1 = m + 1
  BY <1>2, FS_CardinalityType
<1> HIDE DEF m
<1>4. IsFiniteSet(1 .. m + 1) /\ Cardinality(1 .. m + 1) = m + 1
  BY <1>3, FS_Interval
<1>5. \E n \in 1 .. m + 1 : n \notin Used
  <2>1. SUFFICES ASSUME 1 .. m + 1 \subseteq Used PROVE FALSE
    OBVIOUS
  <2>2. m + 1 <= m
    BY <1>2, <1>4, <2>1, FS_Subset DEF m
  <2> QED BY <1>3, <2>2
<1>6. New \in 1 .. m + 1 /\ New \notin Used
  BY <1>5 DEF New, m
<1> QED BY <1>3, <1>6

LEMMA InitialType == InitialHost \in Hosts
<1>1. IsFiniteSet(Present) /\ IsFiniteSet(Found)
  <2>1. IsFiniteSet(Present)
    BY MachinesAssumption, ContainersAssumption, FS_Subset
  <2> QED BY <2>1, MachinesAssumption, ContainersAssumption, FS_Product, FS_Subset
<1>2. Cardinality(Found) \in Nat
  BY <1>1, FS_CardinalityType
<1>3. InitialAddress \in [Present -> 1..Addresses]
  <2> DEFINE n == Cardinality(Present)
  <2>1. n \in Nat /\ n <= Addresses /\ ExistsBijection(1..n, Present)
    BY <1>1, FS_CardinalityType, ContainersAssumption
  <2> HIDE DEF n
  <2>2. PICK g \in Bijection(1..n, Present) : TRUE
    BY <2>1 DEF ExistsBijection
  <2>3. /\ \A i, j \in 1..n : g[i] = g[j] => i = j
        /\ \A c \in Present : \E i \in 1..n : g[i] = c
    <3>1. g \in Injection(1..n, Present) /\ g \in Surjection(1..n, Present)
      BY <2>2 DEF Bijection
    <3> QED BY <3>1 DEF Injection, IsInjective, Surjection
  <2> DEFINE f == [c \in Present |-> CHOOSE i \in 1..n : g[i] = c]
  <2>4. \A c \in Present : f[c] \in 1..n /\ g[f[c]] = c
    BY <2>3
  <2>5. f \in [Present -> 1..Addresses]
    BY <2>1, <2>4, MachinesAssumption
  <2>6. \A c, e \in Present : f[c] = f[e] => c = e
    BY <2>4
  <2> HIDE DEF f
  <2> QED BY <2>5, <2>6 DEF InitialAddress
<1> DEFINE found(c, d) == IF <<c, d>> \in Found THEN Cardinality(Found) ELSE 0
           data(c) == [d \in Databases |-> found(c, d)]
           logins(c) == [d \in Databases |-> [e \in Containers |-> IF e = c THEN found(c, d) ELSE 0]]
           box(c) == [Blank EXCEPT !.up = TRUE, !.address = InitialAddress[c], !.project = Home,
                                   !.data = data(c), !.logins = logins(c)]
<1>4. \A c \in Containers : /\ data(c) \in [Databases -> Nat]
                            /\ logins(c) \in [Databases -> [Containers -> Nat]]
  BY <1>2
<1> HIDE DEF data, logins
<1>5. ASSUME NEW c \in Present PROVE box(c) \in Boxes
  <2>1. Blank \in Machine /\ Blank.here /\ IsFiniteSet(Blank.kept)
    BY BlankType DEF Boxes, IsMachine
  <2>2. InitialAddress[c] \in 0..Addresses /\ Home \in Projects \cup {None} /\ c \in Containers
    BY <1>3, MachinesAssumption, ContainersAssumption
  <2>3. box(c) \in Machine /\ box(c).here /\ box(c).kept = Blank.kept
    BY <1>4, <2>1, <2>2 DEF Machine
  <2> HIDE DEF box
  <2> QED BY <2>1, <2>3 DEF Boxes, IsMachine
<1>6. InitialHost = [c \in Containers |-> IF c \notin Present THEN Nothing ELSE box(c)]
  BY DEF InitialHost, data, logins
<1> HIDE DEF box
<1> QED BY <1>5, <1>6, BlankType DEF Hosts

----------------------------------------------------------------------------
(* What is asked for.                                                         *)

\* What a plan may hold when it is made, whatever it is for.
PlanOK(plan, c, turn) ==
  \A i \in DOMAIN plan :
    /\ plan[i].do = "drop" =>
         /\ turn /\ plan[i].on = c /\ i = 2
         /\ plan[1].do = "snapshot" /\ plan[1].on = c /\ ~plan[1].optional
    /\ plan[i].do = "create" => turn /\ plan[i].on = c
    /\ plan[i].do = "assign" => plan[i].arg \in declared \cup {None}
    /\ plan[i].do = "undeclare" =>
         Len(plan) = 1 /\ \A e \in Containers : host[e].project # plan[i].arg

Asks(r) ==
  \E kind \in Kinds \cup {"letgo"}, c \in Containers \cup {None}, turn \in BOOLEAN,
     plan \in Seq(Steps) :
    Ask(r, kind, c, turn, plan) /\ PlanOK(plan, c, turn) /\ asked' \in 0..MaxAsked

\* Plans of one step.
LEMMA Single ==
  ASSUME NEW do \in Commands, NEW c \in Containers \cup {None}, NEW arg \in Args,
         Given(do, c, None, arg)
  PROVE  LET plan == <<Run(do, c, None, arg)>> IN
         /\ plan \in Seq(Steps) /\ Len(plan) = 1 /\ Fields(plan[1], do, c, None, arg, FALSE)
<1> DEFINE s == Run(do, c, None, arg)
<1>1. s \in Steps /\ Fields(s, do, c, None, arg, FALSE)
  BY RunType
<1> HIDE DEF s
<1>2. <<s>> \in Seq(Steps) /\ Len(<<s>>) = 1 /\ <<s>>[1] = s
  BY <1>1
<1> QED BY <1>1, <1>2 DEF s

LEMMA AskKind ==
  ASSUME NEW r, NEW kind, NEW c, NEW turn, NEW plan, Ask(r, kind, c, turn, plan)
  PROVE  kind \in Kinds \cup {"letgo"}
BY DEF Ask

LEMMA AskingType ==
  ASSUME NEW r \in Requests, Typed, AskAnything(r)
  PROVE  Asks(r)
<1>0. MaxAsked \in Nat /\ asked \in 0..MaxAsked
  BY ContainersAssumption DEF Typed
<1>1. ASSUME Counted PROVE asked' \in 0..MaxAsked
  BY <1>0, <1>1 DEF Counted
<1>2. ASSUME NEW c \in Containers, AskDestroy(r, c) PROVE Asks(r)
  <2> DEFINE plan == DeletePlan(c)
  <2>1. plan \in Seq(Steps) /\ Len(plan) = 1 /\ Fields(plan[1], "delete", c, None, None, FALSE)
    BY Single, ArgTypes DEF DeletePlan, Given, Commands, Orders, OfOne, OfTwo
  <2>2. Ask(r, "destroy", c, TRUE, plan) /\ asked' \in 0..MaxAsked
    BY <1>1, <1>2 DEF AskDestroy
  <2> HIDE DEF plan
  <2>3. PlanOK(plan, c, TRUE)
    BY <2>1 DEF PlanOK, Fields
  <2> QED BY <2>1, <2>2, <2>3, AskKind DEF Asks
<1>3. ASSUME NEW c \in Containers, NEW p \in Projects \cup {None}, AskCreate(r, c, p) PROVE Asks(r)
  <2>1. PICK n \in AllocateAddress(host) : Ask(r, "create", c, FALSE, CreatePlan(c, n, p))
    BY <1>3 DEF AskCreate
  <2>2. n \in 0..Addresses
    BY <2>1, MachinesAssumption DEF AllocateAddress, Free
  <2> DEFINE plan == CreatePlan(c, n, p)
  <2>3. /\ plan \in Seq(Steps) /\ DOMAIN plan \subseteq 1..4
        /\ \A i \in DOMAIN plan : /\ plan[i].do \in {"init", "pin", "assign", "start"}
                                  /\ plan[i].do = "assign" => plan[i].arg = p
    <3>1. CASE p = None
      <4>1. /\ plan \in Seq(Steps) /\ Len(plan) = 3
            /\ plan[1].do = "init" /\ plan[2].do = "pin" /\ plan[3].do = "start"
        <5>1. /\ plan \in Seq(Steps) /\ Len(plan) = 3
              /\ Fields(plan[1], "init", c, None, None, FALSE)
              /\ Fields(plan[2], "pin", c, None, n, FALSE)
              /\ Fields(plan[3], "start", c, None, None, FALSE)
          BY <2>2, <3>1, CreateSteps
        <5> HIDE DEF plan
        <5> QED BY <5>1 DEF Fields
      <4> HIDE DEF plan
      <4> QED BY <4>1
    <3>2. CASE p # None
      <4>1. /\ plan \in Seq(Steps) /\ Len(plan) = 4 /\ plan[3].arg = p
            /\ plan[1].do = "init" /\ plan[2].do = "pin" /\ plan[3].do = "assign" /\ plan[4].do = "start"
        <5>1. /\ plan \in Seq(Steps) /\ Len(plan) = 4
              /\ Fields(plan[1], "init", c, None, None, FALSE)
              /\ Fields(plan[2], "pin", c, None, n, FALSE)
              /\ Fields(plan[3], "assign", c, None, p, FALSE)
              /\ Fields(plan[4], "start", c, None, None, FALSE)
          BY <2>2, <3>2, CreateSteps
        <5> HIDE DEF plan
        <5> QED BY <5>1 DEF Fields
      <4> HIDE DEF plan
      <4> QED BY <4>1
    <3> QED BY <3>1, <3>2
  <2> HIDE DEF plan
  <2>4. p \in declared \cup {None} /\ asked' \in 0..MaxAsked
    BY <1>1, <1>3 DEF AskCreate, Accept
  <2>5. PlanOK(plan, c, FALSE)
    BY <2>3, <2>4 DEF PlanOK
  <2>6. Ask(r, "create", c, FALSE, plan)
    BY <2>1 DEF plan
  <2> QED BY <2>3, <2>4, <2>5, <2>6, AskKind DEF Asks
<1>4. ASSUME NEW c \in Containers, NEW p \in Projects \cup {None}, AskAssign(r, c, p) PROVE Asks(r)
  <2> DEFINE plan == <<Run("assign", c, None, p)>>
  <2>1. plan \in Seq(Steps) /\ Len(plan) = 1 /\ Fields(plan[1], "assign", c, None, p, FALSE)
    BY Single, ArgTypes DEF Given, Commands, Orders, OfOne, OfTwo
  <2>2. /\ Ask(r, "assign", c, FALSE, plan) /\ asked' \in 0..MaxAsked
        /\ p \in declared \cup {None}
    BY <1>1, <1>4 DEF AskAssign, PrepareAssign
  <2> HIDE DEF plan
  <2>3. PlanOK(plan, c, FALSE)
    BY <2>1, <2>2 DEF PlanOK, Fields
  <2> QED BY <2>1, <2>2, <2>3, AskKind DEF Asks
<1>5. ASSUME NEW c \in Containers, NEW stop \in BOOLEAN, AskPower(r, c, stop) PROVE Asks(r)
  <2> DEFINE do == IF stop THEN "stop" ELSE "start"
             plan == <<Run(do, c, None, None)>>
  <2>1. do \in {"stop", "start"}
    OBVIOUS
  <2>2. /\ Ask(r, "power", c, TRUE, plan) /\ asked' \in 0..MaxAsked
    BY <1>1, <1>5 DEF AskPower, PowerPlan
  <2> HIDE DEF do
  <2>3. plan \in Seq(Steps) /\ Len(plan) = 1 /\ Fields(plan[1], do, c, None, None, FALSE)
    <3>1. do \in Commands /\ Given(do, c, None, None)
      BY <2>1 DEF Given, Commands, Orders, OfOne, OfTwo
    <3> QED BY <3>1, Single, ArgTypes
  <2> HIDE DEF plan
  <2>4. PlanOK(plan, c, TRUE)
    BY <2>1, <2>3 DEF PlanOK, Fields
  <2> QED BY <2>2, <2>3, <2>4, AskKind DEF Asks
<1>6. ASSUME NEW c \in Containers, NEW d \in Databases, AskProvision(r, c, d) PROVE Asks(r)
  <2> DEFINE index == host[c].index \cup {d}
             plan == ProvisionPlan(c, d, index)
  <2>1. index \in SUBSET Databases
    BY BoxFields DEF Typed
  <2>2. Ask(r, "provision", c, TRUE, plan) /\ asked' \in 0..MaxAsked
    BY <1>1, <1>6 DEF AskProvision
  <2> HIDE DEF index
  <2>3. /\ plan \in Seq(Steps) /\ Len(plan) = 4
        /\ plan[1].do = "snapshot" /\ plan[2].do = "create" /\ plan[2].on = c
        /\ plan[3].do = "record" /\ plan[4].do = "index"
    <3>1. /\ plan \in Seq(Steps) /\ Len(plan) = 4
          /\ Fields(plan[1], "snapshot", c, None, None, FALSE)
          /\ Fields(plan[2], "create", c, d, None, FALSE)
          /\ Fields(plan[3], "record", c, d, Here, FALSE)
          /\ Fields(plan[4], "index", c, None, index, FALSE)
      BY <2>1, ProvisionSteps
    <3> HIDE DEF plan
    <3> QED BY <3>1 DEF Fields
  <2> HIDE DEF plan
  <2>4. PlanOK(plan, c, TRUE)
    BY <2>3 DEF PlanOK
  <2> QED BY <2>2, <2>3, <2>4, AskKind DEF Asks
<1>7. ASSUME NEW c \in Containers, NEW d \in Databases, AskAdopt(r, c, d) PROVE Asks(r)
  <2> DEFINE index == host[c].index \cup {d}
             plan == AdoptPlan(c, d, index)
  <2>1. index \in SUBSET Databases
    BY BoxFields DEF Typed
  <2>2. Ask(r, "adopt", c, TRUE, plan) /\ asked' \in 0..MaxAsked
    BY <1>1, <1>7 DEF AskAdopt
  <2> HIDE DEF index
  <2>3. /\ plan \in Seq(Steps) /\ Len(plan) = 2 /\ plan[1].do = "record" /\ plan[2].do = "index"
    <3>1. /\ plan \in Seq(Steps) /\ Len(plan) = 2
          /\ Fields(plan[1], "record", c, d, Adopted, FALSE)
          /\ Fields(plan[2], "index", c, None, index, FALSE)
      BY <2>1, AdoptSteps
    <3> HIDE DEF plan
    <3> QED BY <3>1 DEF Fields
  <2> HIDE DEF plan
  <2>4. PlanOK(plan, c, TRUE)
    BY <2>3 DEF PlanOK
  <2> QED BY <2>2, <2>3, <2>4, AskKind DEF Asks
<1>8. ASSUME NEW c \in Containers, NEW d \in Databases, AskRemoveOwn(r, c, d) PROVE Asks(r)
  <2> DEFINE index == host[c].index \ {d}
             plan == DestroyDatabasePlan(c, d)
  <2>1. index \in SUBSET Databases
    BY BoxFields DEF Typed
  <2>2. Ask(r, "remove", c, TRUE, plan) /\ asked' \in 0..MaxAsked
    BY <1>1, <1>8 DEF AskRemoveOwn
  <2>3. plan = Forget(c, d, index) \/ plan = DestroyPlan(c, d, index)
    BY DEF DestroyDatabasePlan, ReleasePlan
  <2> HIDE DEF index, plan
  <2>4. CASE plan = Forget(c, d, index)
    <3>1. plan \in Seq(Steps) /\ Len(plan) = 2 /\ plan[1].do = "forget" /\ plan[2].do = "index"
      <4>1. /\ plan \in Seq(Steps) /\ Len(plan) = 2
            /\ Fields(plan[1], "forget", c, d, None, TRUE)
            /\ Fields(plan[2], "index", c, None, index, index = {})
        BY <2>1, <2>4, ForgetSteps
      <4> HIDE DEF plan
      <4> QED BY <4>1 DEF Fields
    <3>2. PlanOK(plan, c, TRUE)
      BY <3>1 DEF PlanOK
    <3> QED BY <2>2, <3>1, <3>2, AskKind DEF Asks
  <2>5. CASE plan = DestroyPlan(c, d, index)
    <3>1. CASE Credentialed(d)
      <4>1. /\ plan \in Seq(Steps) /\ Len(plan) = 5
            /\ plan[1].do = "snapshot" /\ plan[1].on = c /\ ~plan[1].optional
            /\ plan[2].do = "drop" /\ plan[2].on = c
            /\ plan[3].do = "unenv" /\ plan[4].do = "forget" /\ plan[5].do = "index"
        <5>1. /\ plan \in Seq(Steps) /\ Len(plan) = 5
              /\ Fields(plan[1], "snapshot", c, None, None, FALSE)
              /\ Fields(plan[2], "drop", c, d, None, FALSE)
              /\ Fields(plan[3], "unenv", c, d, None, FALSE)
              /\ Fields(plan[4], "forget", c, d, None, TRUE)
              /\ Fields(plan[5], "index", c, None, index, index = {})
          BY <2>1, <2>5, <3>1, DestroySteps
        <5> HIDE DEF plan
        <5> QED BY <5>1 DEF Fields
      <4>2. PlanOK(plan, c, TRUE)
        BY <4>1 DEF PlanOK
      <4> QED BY <2>2, <4>1, <4>2, AskKind DEF Asks
    <3>2. CASE ~Credentialed(d)
      <4>1. /\ plan \in Seq(Steps) /\ Len(plan) = 4 /\ plan[1].do = "snapshot"
            /\ plan[2].do = "unenv" /\ plan[3].do = "forget" /\ plan[4].do = "index"
        <5>1. /\ plan \in Seq(Steps) /\ Len(plan) = 4
              /\ Fields(plan[1], "snapshot", c, None, None, FALSE)
              /\ Fields(plan[2], "unenv", c, d, None, FALSE)
              /\ Fields(plan[3], "forget", c, d, None, TRUE)
              /\ Fields(plan[4], "index", c, None, index, index = {})
          BY <2>1, <2>5, <3>2, DestroySteps
        <5> HIDE DEF plan
        <5> QED BY <5>1 DEF Fields
      <4>2. PlanOK(plan, c, TRUE)
        BY <4>1 DEF PlanOK
      <4> QED BY <2>2, <4>1, <4>2, AskKind DEF Asks
    <3> QED BY <3>1, <3>2
  <2> QED BY <2>3, <2>4, <2>5
<1>9. ASSUME NEW c \in Containers, NEW d \in Databases, AskLetGo(r, c, d) PROVE Asks(r)
  <2> DEFINE index == host[c].index \ {d}
             p == host[c].keys[d]
             plan == RevokePlan(c, p, d, index)
  <2>1. index \in SUBSET Databases /\ p \in Locations
    BY BoxFields DEF Typed
  <2>2. Ask(r, "letgo", c, TRUE, plan) /\ asked' \in 0..MaxAsked
    BY <1>0, <1>9 DEF AskLetGo
  <2>3. p \in Containers
    BY <1>9, <2>1 DEF AskLetGo, CanDestroy, All, FromConfig, Local, Locations
  <2> HIDE DEF index, p
  <2>4. /\ plan \in Seq(Steps) /\ Len(plan) = 4 /\ plan[1].do = "revoke"
        /\ plan[2].do = "unenv" /\ plan[3].do = "forget" /\ plan[4].do = "index"
    <3>1. /\ plan \in Seq(Steps) /\ Len(plan) = 4
          /\ Fields(plan[1], "revoke", p, d, c, TRUE)
          /\ Fields(plan[2], "unenv", c, d, None, FALSE)
          /\ Fields(plan[3], "forget", c, d, None, TRUE)
          /\ Fields(plan[4], "index", c, None, index, index = {})
      BY <2>1, <2>3, RevokeSteps
    <3> HIDE DEF plan
    <3> QED BY <3>1 DEF Fields
  <2> HIDE DEF plan
  <2>5. PlanOK(plan, c, TRUE)
    BY <2>4 DEF PlanOK
  <2> QED BY <2>2, <2>4, <2>5 DEF Asks
<1>10. ASSUME NEW c \in Containers, NEW p \in Containers, NEW d \in Databases, AskShare(r, c, p, d)
       PROVE  Asks(r)
  <2> DEFINE index == host[c].index \cup {d}
             plan == SharePlan(c, p, d, index)
  <2>1. index \in SUBSET Databases
    BY BoxFields DEF Typed
  <2>2. Ask(r, "share", c, TRUE, plan) /\ asked' \in 0..MaxAsked
    BY <1>1, <1>10 DEF AskShare
  <2> HIDE DEF index
  <2>3. /\ plan \in Seq(Steps) /\ Len(plan) = 4 /\ plan[1].do = "grant"
        /\ plan[2].do = "carry" /\ plan[3].do = "record" /\ plan[4].do = "index"
    <3>1. /\ plan \in Seq(Steps) /\ Len(plan) = 4
          /\ Fields(plan[1], "grant", p, d, c, FALSE)
          /\ Fields(plan[2], "carry", c, d, p, FALSE)
          /\ Fields(plan[3], "record", c, d, p, FALSE)
          /\ Fields(plan[4], "index", c, None, index, FALSE)
      BY <2>1, ShareSteps
    <3> HIDE DEF plan
    <3> QED BY <3>1 DEF Fields
  <2> HIDE DEF plan
  <2>4. PlanOK(plan, c, TRUE)
    BY <2>3 DEF PlanOK
  <2> QED BY <2>2, <2>3, <2>4, AskKind DEF Asks
<1>11. ASSUME NEW p \in Projects, AskDeclare(r, p) PROVE Asks(r)
  <2> DEFINE plan == <<Run("declare", None, None, p)>>
  <2>1. plan \in Seq(Steps) /\ Len(plan) = 1 /\ Fields(plan[1], "declare", None, None, p, FALSE)
    BY Single, ArgTypes DEF Given, Commands, Orders, OfOne, OfTwo
  <2>2. Ask(r, "declare", None, FALSE, plan) /\ asked' \in 0..MaxAsked
    BY <1>1, <1>11 DEF AskDeclare
  <2> HIDE DEF plan
  <2>3. PlanOK(plan, None, FALSE)
    BY <2>1 DEF PlanOK, Fields
  <2> QED BY <2>1, <2>2, <2>3, AskKind DEF Asks
<1>12. ASSUME NEW p \in Projects, AskRemoveProject(r, p) PROVE Asks(r)
  <2> DEFINE plan == <<Run("undeclare", None, None, p)>>
  <2>1. plan \in Seq(Steps) /\ Len(plan) = 1 /\ Fields(plan[1], "undeclare", None, None, p, FALSE)
    BY Single, ArgTypes DEF Given, Commands, Orders, OfOne, OfTwo
  <2>2. /\ Ask(r, "undeclare", None, FALSE, plan) /\ asked' \in 0..MaxAsked
        /\ \A e \in Containers : host[e].project # p
    BY <1>1, <1>12 DEF AskRemoveProject, CanRemove
  <2> HIDE DEF plan
  <2>3. PlanOK(plan, None, FALSE)
    BY <2>1, <2>2 DEF PlanOK, Fields
  <2> QED BY <2>1, <2>2, <2>3, AskKind DEF Asks
<1> QED BY <1>2, <1>3, <1>4, <1>5, <1>6, <1>7, <1>8, <1>9, <1>10, <1>11, <1>12 DEF AskAnything

----------------------------------------------------------------------------
(* The inductive invariant.                                                   *)

\* What a container holds now, it has a snapshot of.
Covered(h, c) == \A d \in Databases : h[c].data[d] \in h[c].kept \cup {0}

\* A drop is on the request's own container, whose turn it has, with the snapshot
\* right before it; and so is whatever makes data, so that no other request can get
\* in between.
Careful ==
  \A r \in Requests :
    LET w == work[r] IN
    \A i \in DOMAIN w.steps :
      /\ w.steps[i].do = "drop" =>
           /\ w.turn /\ w.steps[i].on = w.on
           /\ IF w.walking THEN i = 1 /\ Covered(host, w.on)
              ELSE /\ i = 2 /\ w.steps[1].do = "snapshot" /\ w.steps[1].on = w.on
                   /\ ~w.steps[1].optional
      /\ w.steps[i].do = "create" => w.turn /\ w.steps[i].on = w.on

\* One request at a time: what it will assign is declared, and what it will remove is
\* nobody's.
Labelled ==
  crossed \/
    /\ \A q, r \in Requests : Busy(q) /\ Busy(r) => q = r
    /\ LabelsAreDeclared
    /\ \A r \in Requests : \A i \in DOMAIN work[r].steps :
         LET s == work[r].steps[i] IN
         /\ s.do = "assign" => s.arg \in declared \cup {None}
         /\ s.do = "undeclare" =>
              Len(work[r].steps) = 1 /\ \A e \in Containers : host[e].project # s.arg

Inv == Typed /\ Careful /\ Labelled

LEMMA IdleType == Idle \in Works /\ Idle.steps = <<>> /\ <<>> \in Seq(Steps)
<1>1. <<>> \in Seq(Steps)
  OBVIOUS
<1> QED BY <1>1 DEF Idle, Works

LEMMA Initially == Init => Inv
<1> SUFFICES ASSUME Init PROVE Inv
  OBVIOUS
<1>1. Typed
  <2>1. Home \in Projects /\ {MaxAsked, MaxFails} \subseteq Nat
    BY ContainersAssumption
  <2>2. work \in [Requests -> Works]
    BY IdleType DEF Init
  <2>3. 0 \in 0..MaxAsked /\ 0 \in 0..MaxFails
    BY <2>1
  <2>4. {Home} \subseteq Projects
    BY <2>1
  <2> QED BY <2>2, <2>3, <2>4, InitialType DEF Init, Typed
<1>2. \A r \in Requests : work[r].steps = <<>> /\ ~Busy(r)
  BY IdleType DEF Init, Busy
<1>3. Careful
  BY <1>2 DEF Careful
<1>4. LabelsAreDeclared
  <2>1. \A c \in Containers : host[c].project \in {Home, None}
    <3>1. Nothing.project = None
      BY DEF Nothing, Blank
    <3>2. \A c \in Present : InitialHost[c].project = Home
      BY ContainersAssumption DEF InitialHost, Blank
    <3>3. \A c \in Containers \ Present : InitialHost[c] = Nothing
      BY DEF InitialHost
    <3> QED BY <3>1, <3>2, <3>3 DEF Init
  <2> QED BY <2>1 DEF Init, LabelsAreDeclared
<1>5. Labelled
  BY <1>2, <1>4 DEF Labelled
<1> QED BY <1>1, <1>3, <1>5 DEF Inv

\* How work goes on.
LEMMA Onward ==
  ASSUME NEW r \in Requests, Typed, Busy(r), NEW more \in BOOLEAN,
         work' = [work EXCEPT ![r] = IF more THEN After(r) ELSE Idle]
  PROVE  /\ Step(r) \in Steps /\ Step(r) = work[r].steps[1] /\ 1 \in DOMAIN work[r].steps
         /\ work' \in [Requests -> Works]
         /\ \A q \in Requests \ {r} : work'[q] = work[q]
         /\ \/ work'[r] = Idle
            \/ /\ more /\ work'[r].walking
               /\ work'[r].on = work[r].on /\ work'[r].turn = work[r].turn
               /\ Len(work'[r].steps) = Len(work[r].steps) - 1
               /\ \A i \in DOMAIN work'[r].steps :
                    /\ i \in Nat \ {0} /\ i + 1 \in DOMAIN work[r].steps
                    /\ work'[r].steps[i] = work[r].steps[i + 1]
<1> DEFINE w == work[r]
           s == w.steps
<1>1. work \in [Requests -> Works] /\ w \in Works /\ s \in Seq(Steps) /\ s # <<>>
  BY DEF Typed, Works, Busy
<1> DEFINE t == Tail(s)
<1>2. /\ Head(s) \in Steps /\ Head(s) = s[1] /\ 1 \in DOMAIN s /\ t \in Seq(Steps)
      /\ Len(t) = Len(s) - 1
      /\ \A i \in DOMAIN t : i \in Nat \ {0} /\ i + 1 \in DOMAIN s /\ t[i] = s[i + 1]
  BY <1>1
<1> HIDE DEF t
<1> DEFINE v == [w EXCEPT !.walking = TRUE, !.steps = t]
<1>3. v \in Works /\ v.walking /\ v.on = w.on /\ v.turn = w.turn /\ v.steps = t
  BY <1>1, <1>2 DEF Works
<1> HIDE DEF v
<1>4. After(r) = Idle \/ After(r) = v
  BY DEF After, v, t
<1>5. work'[r] = Idle \/ (more /\ work'[r] = v)
  BY <1>1, <1>4
<1>6. work' \in [Requests -> Works]
  BY <1>1, <1>3, <1>4, IdleType
<1>7. \A q \in Requests \ {r} : work'[q] = work[q]
  BY <1>1
<1> QED BY <1>2, <1>3, <1>5, <1>6, <1>7 DEF Step

\* What a request's step may do to the host.
LEMMA Stepping ==
  ASSUME NEW r \in Requests, Typed, Walk(r) \/ Fail(r)
  PROVE  /\ Typed' /\ Step(r) \in Steps /\ Moved(host, host', Step(r))
         /\ crossed' = crossed
         /\ \E more \in BOOLEAN : work' = [work EXCEPT ![r] = IF more THEN After(r) ELSE Idle]
<1>1. Busy(r)
  BY DEF Walk, Fail
<1>2. PICK more \in BOOLEAN : work' = [work EXCEPT ![r] = IF more THEN After(r) ELSE Idle]
  BY DEF Walk, Fail
<1>3. work' \in [Requests -> Works] /\ Step(r) \in Steps
  BY <1>1, <1>2, Onward
<1>4. host \in Hosts /\ New \in Nat \ {0}
  BY NewIsNew DEF Typed
<1>5. host' \in Does(host, Step(r), New) \cup FailsWith(host, Step(r), New)
  BY DEF Walk, Fail, Outcomes, Failures
<1>6. host' \in Hosts /\ Moved(host, host', Step(r))
  BY <1>3, <1>4, <1>5, StepType
<1>7. declared' \subseteq Projects
  <2>1. Step(r).do = "declare" => Step(r).arg \in Projects
    BY <1>3 DEF Steps, StepOK, Given
  <2> QED BY <2>1 DEF Walk, Fail, DeclaredAfter, Typed
<1>8. gone' \subseteq Containers
  <2>1. Step(r).do = "delete" => Step(r).on \in Containers
    BY <1>3, StepFields DEF Orders
  <2> QED BY <2>1 DEF Walk, Fail, Typed
<1>9. crossed' = crossed /\ asked' = asked /\ fails' \in 0..MaxFails
  BY ContainersAssumption DEF Walk, Fail, Typed
<1> QED BY <1>2, <1>3, <1>6, <1>7, <1>8, <1>9 DEF Typed

----------------------------------------------------------------------------
(* What was dropped can be had back.                                           *)

\* The data of a container changes in one way only that loses it.
LEMMA KeepsCovered ==
  ASSUME NEW h \in Hosts, NEW s \in Steps, NEW new \in Nat \ {0}, NEW c \in Containers,
         NEW h2 \in Does(h, s, new) \cup FailsWith(h, s, new),
         Covered(h, c), ~(s.on = c /\ s.do \in {"create", "drop"})
  PROVE  Covered(h2, c)
<1>1. h2 \in Hosts /\ Moved(h, h2, s)
  BY StepType
<1>2. CASE h2 = h \/ s.on # c
  BY <1>1, <1>2, PutType DEF Moved, Covered, Hosts
<1>3. CASE h2 # h /\ s.on = c /\ s.do \notin {"init", "delete", "snapshot"}
  BY <1>1, <1>3, PutType DEF Moved, Differs, Covered
<1>4. CASE h2 # h /\ s.on = c /\ s.do \in {"init", "delete", "snapshot"}
  <2>1. ~HalfWrites(h, h2, s, new)
    BY <1>4 DEF HalfWrites, HalfEffect
  <2>2. h2 \in Does(h, s, new)
    BY <1>4, <2>1, HalfWritten
  <2>3. PICK y \in Boxes : h2[c] = y /\ Differs(h[c], y, s.do) /\ Done(h[c], y, s)
    BY <1>4, <2>2, Ordered, PutType DEF Orders, Puts
  <2>4. \A d \in Databases : Blank.data[d] = 0 /\ Nothing.data[d] = 0
    BY DEF Blank, Nothing
  <2> QED BY <1>4, <2>3, <2>4 DEF Done, Differs, Covered
<1> QED BY <1>2, <1>3, <1>4

LEMMA OnlyDropLoses ==
  ASSUME NEW h \in Hosts, NEW s \in Steps, NEW new \in Nat \ {0},
         NEW h2 \in Does(h, s, new) \cup FailsWith(h, s, new),
         NEW c \in Containers, NEW d \in Databases,
         h[c].data[d] # 0, h2[c].data[d] = 0, h2[c].here
  PROVE  s.do = "drop" /\ s.on = c /\ h2[c].kept = h[c].kept
<1>1. PICK y \in Boxes : h2 = [h EXCEPT ![s.on] = y] /\ Differs(h[s.on], y, s.do)
  BY StepType DEF Moved
<1>2. s.on = c /\ h2[c] = y
  BY <1>1 DEF Hosts
<1>3. s.do \in {"init", "delete", "create", "drop"}
  BY <1>1, <1>2 DEF Differs
<1>4. s.do \notin {"init", "delete"}
  <2>1. SUFFICES ASSUME s.do \in {"init", "delete"} PROVE FALSE
    OBVIOUS
  <2>2. ~HalfWrites(h, h2, s, new)
    BY <2>1 DEF HalfWrites, HalfEffect
  <2>3. h2 \in Does(h, s, new)
    BY <2>2, HalfWritten
  <2>4. PICK z \in Boxes : h2[c] = z /\ Done(h[c], z, s)
    BY <1>2, <2>1, <2>3, Ordered, PutType DEF Orders, Puts
  <2>5. Nothing.data[d] = 0 /\ ~Nothing.here
    BY BlankType DEF Blank, Nothing
  <2> QED BY <2>1, <2>4, <2>5 DEF Done
<1>5. s.do # "create"
  <2>1. SUFFICES ASSUME s.do = "create" PROVE FALSE
    OBVIOUS
  <2>2. s.db \in Databases
    BY <2>1, StepFields DEF OfOne
  <2>3. h[c].data \in [Databases -> Nat]
    BY BoxFields
  <2>4. CASE h2 \in Does(h, s, new)
    <3>1. Writes(h, h2, s, new)
      BY <2>1, <2>4, Written DEF OfOne
    <3>2. PICK z \in Boxes : h2[c] = z /\ Effect(h, z, s, new)
      BY <1>2, <3>1, PutType DEF Writes
    <3>3. Creates(h[c], z, c, s.db, new)
      BY <1>2, <2>1, <3>2 DEF Effect
    <3> QED BY <2>2, <2>3, <3>2, <3>3 DEF Creates
  <2>5. CASE h2 \in FailsWith(h, s, new)
    <3>1. PICK z \in Boxes : h2[c] = z /\ HalfEffect(h, z, s, new)
      BY <1>2, <2>5, HalfWritten, PutType DEF HalfWrites
    <3>2. z.data = h[c].data \/ z.data = [h[c].data EXCEPT ![s.db] = new]
      BY <1>2, <2>1, <3>1 DEF HalfEffect
    <3> QED BY <2>2, <2>3, <3>1, <3>2
  <2> QED BY <2>4, <2>5
<1> QED BY <1>1, <1>2, <1>3, <1>4, <1>5 DEF Differs

LEMMA CarefulStep ==
  ASSUME NEW r \in Requests, Typed, Careful, Walk(r) \/ Fail(r)
  PROVE  Careful'
<1>1. Busy(r) /\ HasTurn(r)
  BY DEF Walk, Fail
<1>2. /\ Typed' /\ Step(r) \in Steps /\ Moved(host, host', Step(r))
      /\ \E more \in BOOLEAN : work' = [work EXCEPT ![r] = IF more THEN After(r) ELSE Idle]
  BY Stepping
<1>3. host \in Hosts /\ New \in Nat \ {0}
  BY NewIsNew DEF Typed
<1>4. host' \in Does(host, Step(r), New) \cup FailsWith(host, Step(r), New)
  BY DEF Walk, Fail, Outcomes, Failures
<1>5. PICK more \in BOOLEAN : work' = [work EXCEPT ![r] = IF more THEN After(r) ELSE Idle]
  BY <1>2
<1> DEFINE OK(w, h) == \A i \in DOMAIN w.steps :
      /\ w.steps[i].do = "drop" =>
           /\ w.turn /\ w.steps[i].on = w.on
           /\ IF w.walking THEN i = 1 /\ Covered(h, w.on)
              ELSE /\ i = 2 /\ w.steps[1].do = "snapshot" /\ w.steps[1].on = w.on
                   /\ ~w.steps[1].optional
      /\ w.steps[i].do = "create" => w.turn /\ w.steps[i].on = w.on
<1>6. \A q \in Requests : OK(work[q], host)
  BY DEF Careful
<1>7. ASSUME NEW q \in Requests \ {r} PROVE OK(work'[q], host')
  <2>1. work'[q] = work[q]
    BY <1>1, <1>5, Onward
  <2>2. ASSUME NEW i \in DOMAIN work[q].steps, work[q].steps[i].do = "drop", work[q].walking
        PROVE  Covered(host', work[q].on)
    <3>1. /\ work[q].turn /\ work[q].steps[i].on = work[q].on /\ Covered(host, work[q].on)
      BY <1>6, <2>2
    <3>2. work[q].on \in Containers
      <4>1. work[q].steps[i] \in Steps
        BY <2>2 DEF Typed, Works
      <4> QED BY <2>2, <3>1, <4>1, StepFields DEF OfOne
    <3>3. ~(Step(r).on = work[q].on /\ Step(r).do \in {"create", "drop"})
      <4>1. SUFFICES ASSUME Step(r).on = work[q].on, Step(r).do \in {"create", "drop"} PROVE FALSE
        OBVIOUS
      <4>2. Step(r) = work[r].steps[1] /\ 1 \in DOMAIN work[r].steps
        BY <1>1, <1>5, Onward
      <4>3. work[r].turn /\ work[r].on = work[q].on
        BY <1>6, <4>1, <4>2
      <4> QED BY <1>1, <2>2, <3>1, <4>3 DEF HasTurn
    <3> QED BY <1>2, <1>3, <1>4, <3>1, <3>2, <3>3, KeepsCovered
  <2> QED BY <1>6, <2>1, <2>2
<1>8. OK(work'[r], host')
  <2>1. CASE work'[r] = Idle
    BY <2>1, IdleType
  <2>2. CASE work'[r] # Idle
    <3>1. /\ work'[r].walking /\ work'[r].on = work[r].on /\ work'[r].turn = work[r].turn
          /\ \A i \in DOMAIN work'[r].steps :
               /\ i \in Nat \ {0} /\ i + 1 \in DOMAIN work[r].steps
               /\ work'[r].steps[i] = work[r].steps[i + 1]
      BY <1>1, <1>5, <2>2, Onward
    <3>2. Step(r) = work[r].steps[1]
      BY <1>1, <1>5, Onward
    <3>3. ASSUME NEW i \in DOMAIN work'[r].steps, work'[r].steps[i].do = "drop"
          PROVE  /\ work[r].turn /\ work'[r].steps[i].on = work[r].on
                 /\ i = 1 /\ Covered(host', work[r].on)
      <4>1. /\ i \in Nat \ {0} /\ i + 1 \in DOMAIN work[r].steps
            /\ work'[r].steps[i] = work[r].steps[i + 1]
        BY <3>1
      <4>2. /\ work[r].turn /\ work'[r].steps[i].on = work[r].on
            /\ ~work[r].walking => /\ i + 1 = 2 /\ Step(r).do = "snapshot"
                                   /\ Step(r).on = work[r].on /\ ~Step(r).optional
            /\ work[r].walking => i + 1 = 1
        BY <1>6, <3>2, <3>3, <4>1
      <4>3. /\ i = 1 /\ Step(r).do = "snapshot" /\ Step(r).on = work[r].on /\ ~Step(r).optional
        BY <4>1, <4>2
      <4>4. ~Fail(r)
        <5>1. Fail(r) => work' = [work EXCEPT ![r] = Idle]
          BY <4>3 DEF Fail
        <5> QED BY <2>2, <5>1 DEF Typed
      <4>5. host' \in Does(host, Step(r), New)
        BY <4>4 DEF Walk, Outcomes
      <4>6. work[r].on \in Containers
        BY <1>2, <4>3, StepFields DEF Orders
      <4>7. PICK y \in Boxes : /\ host'[work[r].on] = y /\ Differs(host[work[r].on], y, "snapshot")
                               /\ Done(host[work[r].on], y, Step(r))
        BY <1>2, <1>3, <4>3, <4>5, <4>6, Ordered, PutType DEF Orders, Puts
      <4>8. Covered(host', work[r].on)
        BY <4>3, <4>7 DEF Differs, Done, Covered
      <4> QED BY <4>2, <4>3, <4>8
    <3>4. ASSUME NEW i \in DOMAIN work'[r].steps, work'[r].steps[i].do = "create"
          PROVE  work[r].turn /\ work'[r].steps[i].on = work[r].on
      BY <1>6, <3>1, <3>4
    <3> QED BY <3>1, <3>3, <3>4
  <2> QED BY <2>1, <2>2
<1>9. \A q \in Requests : OK(work'[q], host')
  BY <1>7, <1>8
<1> QED BY <1>9 DEF Careful, Covered

----------------------------------------------------------------------------
(* Labels.                                                                    *)

LEMMA LabelledStep ==
  ASSUME NEW r \in Requests, Typed, Labelled, Walk(r) \/ Fail(r)
  PROVE  Labelled'
<1>1. SUFFICES ASSUME ~crossed PROVE Labelled'
  BY Stepping DEF Labelled
<1>2. Busy(r)
  BY DEF Walk, Fail
<1>3. PICK more \in BOOLEAN : work' = [work EXCEPT ![r] = IF more THEN After(r) ELSE Idle]
  BY Stepping
<1>4. /\ Typed' /\ Moved(host, host', Step(r))
      /\ Step(r) \in Steps /\ Step(r) = work[r].steps[1] /\ 1 \in DOMAIN work[r].steps
  BY <1>2, <1>3, Stepping, Onward
<1>5. \A q \in Requests \ {r} : work[q].steps = <<>> /\ work'[q].steps = <<>>
  BY <1>1, <1>2, <1>3, Onward DEF Labelled, Busy
<1>6. \A q \in Requests : Busy(q)' => q = r
  BY <1>5 DEF Busy
<1>7. \A i \in DOMAIN work'[r].steps :
        /\ i \in Nat \ {0} /\ i + 1 \in DOMAIN work[r].steps
        /\ work'[r].steps[i] = work[r].steps[i + 1]
  <2>1. CASE work'[r] = Idle
    BY <2>1, IdleType
  <2>2. CASE work'[r] # Idle
    BY <1>2, <1>3, <2>2, Onward
  <2> QED BY <2>1, <2>2
<1>8. work[r].steps \in Seq(Steps)
  BY DEF Typed, Works
<1>9. \A i \in DOMAIN work[r].steps :
        LET s == work[r].steps[i] IN
        /\ s.do = "assign" => s.arg \in declared \cup {None}
        /\ s.do = "undeclare" =>
             Len(work[r].steps) = 1 /\ \A e \in Containers : host[e].project # s.arg
  BY <1>1 DEF Labelled
\* Nothing that is asked for after a removal is left in the same plan.
<1>10. \A i \in DOMAIN work'[r].steps : work'[r].steps[i].do # "undeclare" /\ Step(r).do # "undeclare"
  <2>1. SUFFICES ASSUME NEW i \in DOMAIN work'[r].steps,
                        work'[r].steps[i].do = "undeclare" \/ Step(r).do = "undeclare"
                 PROVE  FALSE
    OBVIOUS
  <2>2. Len(work[r].steps) = 1
    BY <1>4, <1>7, <1>9, <2>1
  <2>3. i \in Nat \ {0} /\ i + 1 \in 1..Len(work[r].steps)
    BY <1>7, <1>8
  <2> QED BY <2>2, <2>3
<1>11. \A i \in DOMAIN work'[r].steps :
         work'[r].steps[i].do = "assign" => work'[r].steps[i].arg \in declared' \cup {None}
  <2>1. ASSUME Step(r).do # "undeclare" PROVE declared \subseteq declared'
    BY <2>1 DEF Walk, Fail, DeclaredAfter
  <2> QED BY <1>7, <1>9, <1>10, <2>1
<1>12. LabelsAreDeclared'
  <2>1. SUFFICES ASSUME NEW c \in Containers PROVE host'[c].project \in declared' \cup {None}
    BY DEF LabelsAreDeclared
  <2>2. host[c].project \in declared \cup {None}
    BY <1>1 DEF Labelled, LabelsAreDeclared
  <2>3. host[c].project \in declared' \cup {None}
    <3>1. CASE Walk(r) /\ Step(r).do = "undeclare"
      <4>1. host[c].project # Step(r).arg /\ declared' = declared \ {Step(r).arg}
        BY <1>4, <1>9, <3>1 DEF Walk, DeclaredAfter
      <4> QED BY <2>2, <4>1
    <3>2. CASE ~(Walk(r) /\ Step(r).do = "undeclare")
      BY <2>2, <3>2 DEF Walk, Fail, DeclaredAfter
    <3> QED BY <3>1, <3>2
  <2>4. CASE host' = host \/ Step(r).on # c \/ Step(r).do \notin {"init", "delete", "assign"}
    <3>1. host'[c].project = host[c].project
      <4>1. CASE host' = host \/ Step(r).on # c
        BY <1>4, <4>1, PutType DEF Moved, Typed, Hosts
      <4>2. CASE host' # host /\ Step(r).on = c /\ Step(r).do \notin {"init", "delete", "assign"}
        BY <1>4, <4>2, PutType DEF Moved, Differs, Typed
      <4> QED BY <2>4, <4>1, <4>2
    <3> QED BY <2>3, <3>1
  <2>5. CASE host' # host /\ Step(r).on = c /\ Step(r).do \in {"init", "delete", "assign"}
    <3>1. ~HalfWrites(host, host', Step(r), New)
      BY <2>5 DEF HalfWrites, HalfEffect
    <3>2. host' \in Does(host, Step(r), New)
      BY <1>4, <2>5, <3>1, HalfWritten, NewIsNew DEF Walk, Fail, Outcomes, Failures, Typed
    <3>3. PICK y \in Boxes : host'[c] = y /\ Done(host[c], y, Step(r))
      BY <1>4, <2>5, <3>2, Ordered, PutType, NewIsNew DEF Orders, Puts, Typed
    <3>4. Blank.project = None /\ Nothing.project = None
      BY DEF Blank, Nothing
    <3>5. CASE Step(r).do = "assign"
      <4>1. Step(r).arg \in declared \cup {None} /\ declared' = declared
        BY <1>4, <1>9, <3>5 DEF Walk, Fail, DeclaredAfter
      <4> QED BY <3>3, <3>5, <4>1 DEF Done
    <3> QED BY <2>5, <3>3, <3>4, <3>5 DEF Done
  <2> QED BY <2>4, <2>5
<1>13. \A q \in Requests : \A i \in DOMAIN work'[q].steps :
         /\ work'[q].steps[i].do = "assign" => work'[q].steps[i].arg \in declared' \cup {None}
         /\ work'[q].steps[i].do # "undeclare"
  BY <1>5, <1>10, <1>11
<1> QED BY <1>6, <1>12, <1>13 DEF Labelled

----------------------------------------------------------------------------
(* Asking, and starting again.                                                 *)

LEMMA Asked ==
  ASSUME NEW r \in Requests, Inv, AskAnything(r)
  PROVE  Inv' /\ host' = host
<1>1. PICK kind \in Kinds \cup {"letgo"}, c \in Containers \cup {None}, turn \in BOOLEAN,
           plan \in Seq(Steps) :
        Ask(r, kind, c, turn, plan) /\ PlanOK(plan, c, turn) /\ asked' \in 0..MaxAsked
  BY AskingType DEF Asks, Inv
<1> DEFINE w == [kind |-> kind, on |-> c, turn |-> turn, walking |-> FALSE, steps |-> plan]
<1>2. /\ w \in Works /\ w.on = c /\ w.turn = turn /\ ~w.walking /\ w.steps = plan
  BY DEF Works
<1>3. /\ ~Busy(r) /\ work' = [work EXCEPT ![r] = w]
      /\ crossed' = (crossed \/ \E other \in Requests \ {r} : Busy(other))
      /\ UNCHANGED <<host, declared, gone, fails>>
  BY <1>1 DEF Ask
<1> HIDE DEF w
<1>4. /\ work' \in [Requests -> Works] /\ work'[r] = w
      /\ \A q \in Requests \ {r} : work'[q] = work[q]
  BY <1>2, <1>3 DEF Inv, Typed
<1>5. Typed'
  <2>1. crossed' \in BOOLEAN
    BY <1>3
  <2> QED BY <1>1, <1>3, <1>4, <2>1 DEF Inv, Typed
<1>6. Careful'
  <2> DEFINE OK(x, h) == \A i \in DOMAIN x.steps :
      /\ x.steps[i].do = "drop" =>
           /\ x.turn /\ x.steps[i].on = x.on
           /\ IF x.walking THEN i = 1 /\ Covered(h, x.on)
              ELSE /\ i = 2 /\ x.steps[1].do = "snapshot" /\ x.steps[1].on = x.on
                   /\ ~x.steps[1].optional
      /\ x.steps[i].do = "create" => x.turn /\ x.steps[i].on = x.on
  <2>1. OK(w, host)
    BY <1>1, <1>2 DEF PlanOK
  <2>2. \A q \in Requests : OK(work[q], host)
    BY DEF Inv, Careful
  <2>3. \A q \in Requests : OK(work'[q], host')
    BY <1>3, <1>4, <2>1, <2>2
  <2> QED BY <2>3 DEF Careful, Covered
<1>7. Labelled'
  <2>1. SUFFICES ASSUME ~crossed' PROVE Labelled'
    BY DEF Labelled
  <2>2. ~crossed /\ \A q \in Requests \ {r} : work'[q].steps = <<>>
    BY <1>3, <1>4, <2>1 DEF Busy
  <2>3. \A q \in Requests : Busy(q)' => q = r
    BY <2>2 DEF Busy
  <2>4. LabelsAreDeclared'
    BY <1>3, <2>2 DEF Inv, Labelled, LabelsAreDeclared
  <2>5. \A i \in DOMAIN plan :
          /\ plan[i].do = "assign" => plan[i].arg \in declared' \cup {None}
          /\ plan[i].do = "undeclare" =>
               Len(plan) = 1 /\ \A e \in Containers : host'[e].project # plan[i].arg
    BY <1>1, <1>3 DEF PlanOK
  <2>6. work'[r].steps = plan
    BY <1>2, <1>4
  <2>7. \A q \in Requests : \A i \in DOMAIN work'[q].steps :
          /\ work'[q].steps[i].do = "assign" => work'[q].steps[i].arg \in declared' \cup {None}
          /\ work'[q].steps[i].do = "undeclare" =>
               /\ Len(work'[q].steps) = 1
               /\ \A e \in Containers : host'[e].project # work'[q].steps[i].arg
    BY <2>2, <2>5, <2>6
  <2> QED BY <2>3, <2>4, <2>7 DEF Labelled
<1> QED BY <1>3, <1>5, <1>6, <1>7 DEF Inv

LEMMA Restarted ==
  ASSUME Inv, Restart
  PROVE  Inv' /\ host' = host
<1>1. /\ work' = [r \in Requests |-> Idle]
      /\ UNCHANGED <<host, declared, crossed, gone, asked>>
  BY DEF Restart
<1>2. fails' \in 0..MaxFails
  BY ContainersAssumption DEF Restart, Inv, Typed
<1>3. \A r \in Requests : work'[r].steps = <<>>
  BY <1>1, IdleType
<1>4. Typed'
  BY <1>1, <1>2, IdleType DEF Inv, Typed
<1>5. Careful'
  BY <1>3 DEF Careful
<1>6. Labelled'
  <2>1. \A r \in Requests : ~Busy(r)'
    BY <1>3 DEF Busy
  <2>2. crossed' \/ LabelsAreDeclared'
    BY <1>1 DEF Inv, Labelled, LabelsAreDeclared
  <2> QED BY <1>3, <2>1, <2>2 DEF Labelled
<1> QED BY <1>1, <1>4, <1>5, <1>6 DEF Inv

LEMMA Unchanged ==
  ASSUME Inv, UNCHANGED vars
  PROVE  Inv'
BY DEF Inv, Typed, Careful, Covered, Labelled, LabelsAreDeclared, Busy, vars

LEMMA Inductive ==
  ASSUME Inv, [Next]_vars
  PROVE  Inv'
<1>1. ASSUME NEW r \in Requests, Walk(r) \/ Fail(r) PROVE Inv'
  BY <1>1, Stepping, CarefulStep, LabelledStep DEF Inv
<1> QED BY <1>1, Asked, Restarted, Unchanged DEF Next

THEOREM Invariant == Spec => []Inv
<1>1. Init => Inv
  BY Initially
<1>2. Inv /\ [Next]_vars => Inv'
  BY Inductive
<1> QED BY <1>1, <1>2, PTL DEF Spec

----------------------------------------------------------------------------
(* What follows.                                                             *)

\* The state is well typed.
THEOREM TypeCorrect == Spec => []TypeOK
<1>1. Inv => TypeOK
  BY BoxType DEF Inv, Typed, TypeOK, Works, IsMachine
<1> QED BY <1>1, Invariant, PTL

\* As long as requests come one at a time, whatever fails and however often the agent
\* is restarted, no container is labelled with a project the host does not have: a
\* project that is removed is nobody's, and one that is assigned is still declared.
THEOREM LabelsStayDeclared == Spec => []ContainersInv
<1>1. Inv => LabelsAreDeclared
  BY DEF Inv, Labelled, LabelsAreDeclared
<1> QED BY <1>1, TypeCorrect, Invariant, PTL DEF ContainersInv

\* Whoever else is at work, whatever fails and wherever the agent is cut short: what a
\* database held is dropped only from a container that has a snapshot of it.
THEOREM NothingLost == Spec => Recoverable
<1> DEFINE Kept(c, d) == host[c].data[d] # 0 /\ host'[c].data[d] = 0 /\ host'[c].here
                           => host[c].data[d] \in host'[c].kept
<1>1. ASSUME Inv, [Next]_vars, NEW c \in Containers, NEW d \in Databases PROVE Kept(c, d)
  <2>1. CASE host' = host
    BY <2>1
  <2>2. ASSUME NEW r \in Requests, Walk(r) \/ Fail(r),
               host[c].data[d] # 0, host'[c].data[d] = 0, host'[c].here
        PROVE  host[c].data[d] \in host'[c].kept
    <3>1. /\ Busy(r) /\ Step(r) \in Steps /\ host \in Hosts /\ New \in Nat \ {0}
          /\ \E more \in BOOLEAN : work' = [work EXCEPT ![r] = IF more THEN After(r) ELSE Idle]
      BY <1>1, <2>2, Stepping, NewIsNew DEF Inv, Typed, Walk, Fail
    <3>2. host' \in Does(host, Step(r), New) \cup FailsWith(host, Step(r), New)
      BY <2>2 DEF Walk, Fail, Outcomes, Failures
    <3>3. Step(r).do = "drop" /\ Step(r).on = c /\ host'[c].kept = host[c].kept
      BY <2>2, <3>1, <3>2, OnlyDropLoses
    <3>4. Step(r) = work[r].steps[1] /\ 1 \in DOMAIN work[r].steps
      BY <1>1, <3>1, Onward DEF Inv
    <3>5. work[r].on = c /\ Covered(host, work[r].on)
      BY <1>1, <3>3, <3>4 DEF Inv, Careful
    <3> QED BY <2>2, <3>3, <3>5 DEF Covered
  <2> QED BY <1>1, <2>1, <2>2, Asked, Restarted DEF Next, vars
<1>2. Inv /\ [Next]_vars => \A c \in Containers, d \in Databases : Kept(c, d)
  BY <1>1
<1> QED BY <1>2, Invariant, PTL DEF Spec, Recoverable

----------------------------------------------------------------------------
(* Passwords.                                                                 *)

\* A container that holds a password of a login that is not there any more.
Stale(h, g, c, d) ==
  LET e == h[c].env[d] IN e.login # 0 /\ e.at \notin g /\ h[e.at].logins[d][c] = 0

\* It is still listed as what removing it takes the credentials of.
Lists(h, c, d) == d \in h[c].index /\ h[c].keys[d] # Adopted

Matches(h, g, c, d) ==
  LET e == h[c].env[d] IN
  e.login # 0 =>
    /\ e.at \in Containers
    /\ e.at \notin g => h[e.at].logins[d][c] \in {0, e.login}
    /\ Stale(h, g, c, d) => Lists(h, c, d)

\* Whose login a step takes away, makes, and whose credentials it takes.
Loses(s, c, d) ==
  s.db = d /\ ((s.do = "drop" /\ s.on = c) \/ (s.do = "revoke" /\ s.arg = c))
Makes(s, c, d) ==
  s.db = d /\ ((s.do = "create" /\ s.on = c) \/ (s.do = "grant" /\ s.arg = c))
Clears(s, c, d) == s.do = "unenv" /\ s.on = c /\ s.db = d /\ ~s.optional

OfHost == {"init", "pin", "assign", "start", "delete"}

\* A login is made, and its place recorded, only for what is not listed; one that is
\* taken away is listed, and its credentials go next; and what the index drops is not
\* stale by then.
SafeAt(h, g, steps, i) ==
  LET s == steps[i] IN
  /\ \A c \in Containers, d \in Databases :
       /\ Makes(s, c, d) => d \notin h[c].index
       /\ Loses(s, c, d) => /\ Lists(h, c, d) /\ i + 1 \in DOMAIN steps
                            /\ Clears(steps[i + 1], c, d)
  /\ s.do = "record" => s.db \notin h[s.on].index
  /\ s.do = "unenv" => \A j \in DOMAIN steps : j > i => steps[j].do \in {"forget", "index"}
  /\ s.do = "index" =>
       /\ i = Len(steps)
       /\ \A d \in h[s.on].index \ s.arg :
            \/ \E j \in DOMAIN steps : Clears(steps[j], s.on, d)
            \/ /\ ~Stale(h, g, s.on, d)
               /\ \A j \in DOMAIN steps : ~Loses(steps[j], s.on, d)
  /\ s.do \in {"init", "delete"} => \A j \in DOMAIN steps : steps[j].do \in OfHost
Safe(h, g, steps) == \A i \in DOMAIN steps : SafeAt(h, g, steps, i)

Matching ==
  crossed \/ /\ \A c \in Containers, d \in Databases : Matches(host, gone, c, d)
             /\ \A r \in Requests : Safe(host, gone, work[r].steps)

\* What a step may do to logins, credentials, keys and index, point by point.
Points(h, h2, s, c, d) ==
  /\ \A p \in Containers :
       LET old == h[p].logins[d][c]
           now == h2[p].logins[d][c]
       IN  now = old \/ (Loses(s, c, d) /\ now = 0) \/ (Makes(s, c, d) /\ old = 0 /\ now # 0)
  /\ LET e == h2[c].env[d] IN
     e = h[c].env[d] \/ e.login = 0 \/ (e.at \in Containers /\ h2[e.at].logins[d][c] = e.login)
  /\ \/ h2[c].keys[d] = h[c].keys[d] \/ h2[c].keys[d] \in {None, Here}
     \/ s.do = "record" /\ s.on = c /\ s.db = d
  /\ h2[c].index = h[c].index \/ (s.do = "index" /\ s.on = c /\ h2[c].index = s.arg)

\* Of one container, by what its command writes.
LEMMA PointsOf ==
  ASSUME NEW h \in Hosts, NEW s \in Steps, NEW new \in Nat \ {0}, NEW y \in Boxes,
         s.do \in OfOne \cup OfTwo \cup {"index"}, Differs(h[s.on], y, s.do),
         Effect(h, y, s, new) \/ HalfEffect(h, y, s, new),
         NEW h2, h2 = [h EXCEPT ![s.on] = y], NEW c \in Containers, NEW d \in Databases
  PROVE  Points(h, h2, s, c, d)
<1> DEFINE x == h[s.on]
<1>1. /\ s.on \in Containers /\ h2 \in Hosts /\ h2[s.on] = y
      /\ \A e \in Containers \ {s.on} : h2[e] = h[e]
  <2>1. s.on \in Containers
    BY StepFields
  <2>2. h2 \in [Containers -> Boxes]
    BY <2>1 DEF Hosts
  <2>3. h2[s.on] = y /\ \A e \in Containers \ {s.on} : h2[e] = h[e]
    BY <2>1 DEF Hosts
  <2> QED BY <2>1, <2>2, <2>3 DEF Hosts
<1>2. /\ x.logins \in [Databases -> [Containers -> Nat]]
      /\ x.env \in [Databases -> [at : {None} \cup Containers, login : Nat]]
      /\ x.keys \in [Databases -> Locations]
  BY <1>1, BoxFields
<1>3. ASSUME NEW p \in Containers, h2[p].logins[d][c] # h[p].logins[d][c]
      PROVE  \/ Loses(s, c, d) /\ h2[p].logins[d][c] = 0
             \/ Makes(s, c, d) /\ h[p].logins[d][c] = 0 /\ h2[p].logins[d][c] # 0
  <2>1. p = s.on /\ h2[p] = y /\ y.logins[d][c] # x.logins[d][c]
    BY <1>1, <1>3
  <2>2. s.do \in {"create", "drop", "grant", "revoke"}
    BY <2>1 DEF Differs, OfOne, OfTwo
  <2>3. CASE s.do = "create"
    <3>1. /\ x.logins[s.db][s.on] = 0
          /\ y.logins = [x.logins EXCEPT ![s.db] = [x.logins[s.db] EXCEPT ![s.on] = new]]
      BY <2>1, <2>3 DEF Effect, HalfEffect, Creates
    <3>2. s.db = d /\ s.on = c /\ y.logins[d][c] = new
      BY <1>2, <2>1, <3>1
    <3> QED BY <2>1, <2>3, <3>1, <3>2 DEF Makes
  <2>4. CASE s.do = "grant"
    <3>1. /\ x.logins[s.db][s.arg] = 0
          /\ y.logins = [x.logins EXCEPT ![s.db] = [x.logins[s.db] EXCEPT ![s.arg] = new]]
      BY <2>4 DEF Effect, HalfEffect
    <3>2. s.db = d /\ s.arg = c /\ y.logins[d][c] = new
      BY <1>2, <2>1, <3>1
    <3> QED BY <2>1, <2>4, <3>1, <3>2 DEF Makes
  <2>5. CASE s.do = "drop"
    <3>1. y.logins = [x.logins EXCEPT ![s.db] = [x.logins[s.db] EXCEPT ![s.on] = 0]]
      BY <2>1, <2>5 DEF Effect, HalfEffect
    <3>2. s.db = d /\ s.on = c /\ y.logins[d][c] = 0
      BY <1>2, <2>1, <3>1
    <3> QED BY <2>1, <2>5, <3>2 DEF Loses
  <2>6. CASE s.do = "revoke"
    <3>1. y.logins = [x.logins EXCEPT ![s.db] = [x.logins[s.db] EXCEPT ![s.arg] = 0]]
      BY <2>6 DEF Effect, HalfEffect
    <3>2. s.db = d /\ s.arg = c /\ y.logins[d][c] = 0
      BY <1>2, <2>1, <3>1
    <3> QED BY <2>1, <2>6, <3>2 DEF Loses
  <2> QED BY <2>2, <2>3, <2>4, <2>5, <2>6
<1>4. ASSUME h2[c].env[d] # h[c].env[d]
      PROVE  LET e == h2[c].env[d] IN
             e.login = 0 \/ (e.at \in Containers /\ h2[e.at].logins[d][c] = e.login)
  <2>1. c = s.on /\ h2[c] = y /\ y.env[d] # x.env[d]
    BY <1>1, <1>4
  <2>2. s.do \in {"create", "carry", "unenv"}
    BY <2>1 DEF Differs, OfOne, OfTwo
  <2>3. CASE s.do = "create"
    <3>1. Creates(x, y, c, s.db, new)
      BY <2>1, <2>3 DEF Effect, HalfEffect
    <3>2. CASE Credentialed(s.db)
      <4>1. /\ y.env = [x.env EXCEPT ![s.db] = [at |-> c, login |-> new]]
            /\ y.logins = [x.logins EXCEPT ![s.db] = [x.logins[s.db] EXCEPT ![c] = new]]
        BY <3>1, <3>2 DEF Creates
      <4>2. s.db = d /\ y.env[d].at = c /\ y.env[d].login = new
        BY <1>2, <2>1, <4>1
      <4>3. y.logins[d][c] = new
        BY <1>2, <2>1, <4>1, <4>2
      <4> QED BY <2>1, <4>2, <4>3
    <3>3. CASE ~Credentialed(s.db)
      <4>1. y.env = [x.env EXCEPT ![s.db] = [at |-> c, login |-> 0]]
        BY <3>1, <3>3 DEF Creates
      <4>2. y.env[d].login = 0
        BY <1>2, <2>1, <4>1
      <4> QED BY <2>1, <4>2
    <3> QED BY <3>2, <3>3
  <2>4. CASE s.do = "carry"
    <3>1. /\ s.arg \in Containers
          /\ y.env = [x.env EXCEPT ![s.db] =
                        [at |-> s.arg, login |-> h[s.arg].logins[s.db][s.on]]]
      BY <2>4, StepFields DEF Effect, HalfEffect, OfTwo
    <3>2. /\ s.db = d /\ y.env[d].at = s.arg /\ y.env[d].login = h[s.arg].logins[d][c]
      BY <1>2, <2>1, <3>1
    <3>3. h2[s.arg].logins = h[s.arg].logins
      BY <1>1, <2>4, <3>1 DEF Differs
    <3> QED BY <2>1, <3>1, <3>2, <3>3
  <2>5. CASE s.do = "unenv"
    <3>1. y.env = [x.env EXCEPT ![s.db] = NoEnv]
      BY <2>5 DEF Effect, HalfEffect
    <3>2. y.env[d] = NoEnv
      BY <1>2, <2>1, <3>1
    <3> QED BY <2>1, <3>2 DEF NoEnv
  <2> QED BY <2>2, <2>3, <2>4, <2>5
<1>5. ASSUME h2[c].keys[d] # h[c].keys[d]
      PROVE  h2[c].keys[d] \in {None, Here} \/ (s.do = "record" /\ s.on = c /\ s.db = d)
  <2>1. c = s.on /\ h2[c] = y /\ y.keys[d] # x.keys[d]
    BY <1>1, <1>5
  <2>2. s.do \in {"record", "forget"}
    BY <2>1 DEF Differs, OfOne, OfTwo
  <2>3. PICK k : y.keys = [x.keys EXCEPT ![s.db] = k] /\ (s.do = "forget" => k \in {None, Here})
    BY <2>2 DEF Effect, HalfEffect
  <2>4. s.db = d /\ y.keys[d] = k
    BY <1>2, <2>1, <2>3
  <2> QED BY <2>1, <2>2, <2>3, <2>4
<1>6. ASSUME h2[c].index # h[c].index
      PROVE  s.do = "index" /\ s.on = c /\ h2[c].index = s.arg
  <2>1. c = s.on /\ h2[c] = y /\ y.index # x.index
    BY <1>1, <1>6
  <2>2. s.do = "index"
    BY <2>1 DEF Differs, OfOne, OfTwo
  <2> QED BY <2>1, <2>2 DEF Effect, HalfEffect
<1> QED BY <1>3, <1>4, <1>5, <1>6 DEF Points

LEMMA PointByPoint ==
  ASSUME NEW h \in Hosts, NEW s \in Steps, NEW new \in Nat \ {0}, s.do # "delete",
         NEW h2 \in Does(h, s, new) \cup FailsWith(h, s, new),
         NEW c \in Containers, NEW d \in Databases
  PROVE  Points(h, h2, s, c, d)
<1>1. CASE h2 = h
  BY <1>1 DEF Points
<1>2. CASE h2 # h /\ s.do \in OfOne \cup OfTwo \cup {"index"}
  <2>1. Writes(h, h2, s, new) \/ HalfWrites(h, h2, s, new)
    BY <1>2, Written, HalfWritten
  <2> QED BY <1>2, <2>1, PointsOf DEF Writes, HalfWrites
<1>3. CASE h2 # h /\ s.do \in Orders
  <2>1. ~HalfWrites(h, h2, s, new)
    BY <1>3 DEF HalfWrites, HalfEffect, Orders
  <2>2. h2 \in Does(h, s, new)
    BY <1>3, <2>1, HalfWritten
  <2>3. PICK y \in Boxes : /\ h2 = [h EXCEPT ![s.on] = y] /\ Differs(h[s.on], y, s.do)
                           /\ Done(h[s.on], y, s)
    BY <1>3, <2>2, Ordered DEF Puts
  <2>4. /\ s.on \in Containers /\ h2[s.on] = y
        /\ \A e \in Containers \ {s.on} : h2[e] = h[e]
    BY <1>3, <2>3, StepFields, PutType
  <2>5. /\ Blank.index = Nothing.index /\ Blank.keys = Nothing.keys
        /\ Blank.logins = Nothing.logins /\ Blank.env = Nothing.env
    BY DEF Blank, Nothing
  <2>6. /\ y.index = h[s.on].index /\ y.keys = h[s.on].keys
        /\ y.logins = h[s.on].logins /\ y.env = h[s.on].env
    BY <1>3, <2>3, <2>5 DEF Differs, Done, Orders
  <2>7. \A p \in Containers : /\ h2[p].index = h[p].index /\ h2[p].keys = h[p].keys
                              /\ h2[p].logins = h[p].logins /\ h2[p].env = h[p].env
    BY <2>4, <2>6
  <2> QED BY <2>7 DEF Points
<1>4. CASE h2 # h /\ s.do \notin Orders \cup OfOne \cup OfTwo \cup {"index"}
  BY <1>4 DEF Does, FailsWith, Orders, OfOne, OfTwo
<1> QED BY <1>1, <1>2, <1>3, <1>4

\* What is stale was so before, or is what this step makes so.
LEMMA StaleBefore ==
  ASSUME NEW s, NEW c \in Containers, NEW d \in Databases, Points(host, host', s, c, d),
         Matches(host, gone, c, d), gone' = gone, Stale(host', gone', c, d)
  PROVE  Stale(host, gone, c, d) \/ Loses(s, c, d)
<1> DEFINE e == host[c].env[d]
           f == host'[c].env[d]
<1>1. f.login # 0 /\ f.at \notin gone /\ host'[f.at].logins[d][c] = 0
  BY DEF Stale
<1>2. f = e
  BY <1>1 DEF Points
<1>3. e.at \in Containers
  BY <1>1, <1>2 DEF Matches
<1>4. host[e.at].logins[d][c] = 0 \/ Loses(s, c, d)
  BY <1>1, <1>2, <1>3 DEF Points
<1> QED BY <1>1, <1>2, <1>4 DEF Stale

LEMMA MatchesStep ==
  ASSUME NEW r \in Requests, Typed, Labelled, Matching, ~crossed, Walk(r) \/ Fail(r),
         NEW c \in Containers, NEW d \in Databases
  PROVE  Matches(host', gone', c, d)
<1> DEFINE s == Step(r)
           steps == work[r].steps
           e == host[c].env[d]
           f == host'[c].env[d]
<1>1. Busy(r)
  BY DEF Walk, Fail
<1>2. /\ Typed' /\ s \in Steps /\ Moved(host, host', s)
      /\ s = steps[1] /\ 1 \in DOMAIN steps
  BY <1>1, Stepping, Onward
<1>3. host \in Hosts /\ host' \in Hosts /\ New \in Nat \ {0}
  BY <1>2, NewIsNew DEF Typed
<1>4. host' \in Does(host, s, New) \cup FailsWith(host, s, New)
  BY DEF Walk, Fail, Outcomes, Failures
<1>5. Matches(host, gone, c, d) /\ SafeAt(host, gone, steps, 1) /\ steps \in Seq(Steps)
  BY <1>2 DEF Matching, Safe, Typed, Works
<1>6. CASE s.do = "delete" /\ host' # host
  <2>1. ~HalfWrites(host, host', s, New)
    BY <1>6 DEF HalfWrites, HalfEffect
  <2>2. host' \in Does(host, s, New) /\ Walk(r)
    BY <1>2, <1>3, <1>4, <1>6, <2>1, HalfWritten DEF Walk, Fail, Outcomes, Failures
  <2>3. host' = [host EXCEPT ![s.on] = Nothing] /\ s.on \in Containers
    BY <1>2, <1>6, <2>2, StepFields DEF Does, Delete, When, Orders
  <2>4. gone' = gone \cup {s.on}
    BY <1>6, <2>2 DEF Walk
  <2>5. CASE c = s.on
    <3>1. f.login = 0
      BY <1>3, <2>3, <2>5, BlankType, PutType DEF Nothing, Blank, NoEnv
    <3> QED BY <3>1 DEF Matches
  <2>6. CASE c # s.on
    <3>1. host'[c] = host[c]
      BY <1>3, <2>3, <2>6 DEF Hosts
    <3>2. \A p \in Containers \ {s.on} : host'[p] = host[p]
      BY <1>3, <2>3 DEF Hosts
    <3>3. ASSUME e.login # 0, e.at \notin gone'
          PROVE  /\ e.at \in Containers /\ host'[e.at] = host[e.at] /\ e.at \notin gone
      BY <1>5, <2>4, <3>2, <3>3 DEF Matches
    <3> QED BY <1>5, <2>4, <3>1, <3>3 DEF Matches, Stale, Lists
  <2> QED BY <2>5, <2>6
<1>7. CASE host' = host
  <2>1. gone \subseteq gone'
    BY DEF Walk, Fail
  <2> QED BY <1>5, <1>7, <2>1 DEF Matches, Stale, Lists
<1>8. CASE s.do # "delete"
  <2>1. Points(host, host', s, c, d)
    BY <1>2, <1>3, <1>4, <1>8, PointByPoint
  <2>2. gone' = gone
    BY <1>8 DEF Walk, Fail
  <2>3. Stale(host, gone, c, d) => Lists(host, c, d) /\ ~Makes(s, c, d)
    <3>1. Stale(host, gone, c, d) => Lists(host, c, d)
      BY <1>5 DEF Matches, Stale
    <3>2. Makes(s, c, d) => d \notin host[c].index
      BY <1>2, <1>5 DEF SafeAt
    <3> QED BY <3>1, <3>2 DEF Lists
  <2>4. ASSUME f.login # 0, f.at \notin gone, host'[f.at].logins[d][c] = 0
        PROVE  (Stale(host, gone, c, d) \/ Loses(s, c, d)) /\ Lists(host, c, d)
    <3>1. Stale(host, gone, c, d) \/ Loses(s, c, d)
      BY <1>5, <2>1, <2>2, <2>4, StaleBefore DEF Stale
    <3>2. Loses(s, c, d) => Lists(host, c, d)
      BY <1>2, <1>5 DEF SafeAt
    <3> QED BY <2>3, <3>1, <3>2
  <2>5. ASSUME f.login # 0
        PROVE  /\ f.at \in Containers
               /\ f.at \notin gone => host'[f.at].logins[d][c] \in {0, f.login}
    <3>1. CASE f # e
      BY <2>1, <2>5, <3>1 DEF Points
    <3>2. CASE f = e
      <4>1. e.at \in Containers /\ (e.at \notin gone => host[e.at].logins[d][c] \in {0, e.login})
        BY <1>5, <2>5, <3>2 DEF Matches
      <4>2. \/ host'[e.at].logins[d][c] = host[e.at].logins[d][c]
            \/ host'[e.at].logins[d][c] = 0
            \/ Makes(s, c, d) /\ host[e.at].logins[d][c] = 0
        BY <2>1, <4>1 DEF Points
      <4>3. ~(Makes(s, c, d) /\ host[e.at].logins[d][c] = 0 /\ e.at \notin gone)
        BY <2>3, <2>5, <3>2 DEF Stale
      <4> QED BY <3>2, <4>1, <4>2, <4>3
    <3> QED BY <3>1, <3>2
  <2>6. ASSUME f.login # 0, f.at \notin gone, host'[f.at].logins[d][c] = 0
        PROVE  d \in host'[c].index /\ host'[c].keys[d] # Adopted
    <3>1. Lists(host, c, d) /\ (Stale(host, gone, c, d) \/ Loses(s, c, d))
      BY <2>4, <2>6
    <3>2. host'[c].keys[d] # Adopted
      <4>1. ~(s.do = "record" /\ s.on = c /\ s.db = d)
        BY <1>2, <1>5, <3>1 DEF SafeAt, Lists
      <4> QED BY <2>1, <3>1, <4>1 DEF Points, Lists, None, Here, Adopted
    <3>3. d \in host'[c].index
      <4>1. CASE host'[c].index = host[c].index
        BY <3>1, <4>1 DEF Lists
      <4>2. CASE s.do = "index" /\ s.on = c /\ host'[c].index = s.arg
        <5>1. Stale(host, gone, c, d)
          BY <3>1, <4>2 DEF Loses
        <5>2. 1 = Len(steps) /\ \A j \in DOMAIN steps : j = 1
          BY <1>2, <1>5, <4>2 DEF SafeAt
        <5>3. ~\E j \in DOMAIN steps : Clears(steps[j], c, d)
          BY <1>2, <4>2, <5>2 DEF Clears
        <5>4. d \notin host[c].index \ s.arg
          BY <1>2, <1>5, <4>2, <5>1, <5>3 DEF SafeAt
        <5> QED BY <3>1, <4>2, <5>4 DEF Lists
      <4> QED BY <2>1, <4>1, <4>2 DEF Points
    <3> QED BY <3>2, <3>3
  <2> QED BY <2>2, <2>5, <2>6 DEF Matches, Stale, Lists
<1> QED BY <1>6, <1>7, <1>8
LEMMA SafeStep ==
  ASSUME NEW r \in Requests, Typed, Labelled, Matching, ~crossed, Walk(r) \/ Fail(r),
         work'[r] # Idle
  PROVE  Safe(host', gone', work'[r].steps)
<1> DEFINE s == Step(r)
           steps == work[r].steps
           t == work'[r].steps
<1>1. Busy(r)
  BY DEF Walk, Fail
<1>2. PICK more \in BOOLEAN : work' = [work EXCEPT ![r] = IF more THEN After(r) ELSE Idle]
  BY Stepping
<1>3. /\ s \in Steps /\ s = steps[1] /\ 1 \in DOMAIN steps
      /\ Len(t) = Len(steps) - 1
      /\ \A i \in DOMAIN t : /\ i \in Nat \ {0} /\ i + 1 \in DOMAIN steps
                             /\ t[i] = steps[i + 1]
  BY <1>1, <1>2, Onward
<1>4. host \in Hosts /\ host' \in Hosts /\ New \in Nat \ {0}
  BY Stepping, NewIsNew DEF Typed
<1>5. host' \in Does(host, s, New) \cup FailsWith(host, s, New)
  BY DEF Walk, Fail, Outcomes, Failures
<1>6. steps \in Seq(Steps) /\ t \in Seq(Steps) /\ \A i \in DOMAIN steps : SafeAt(host, gone, steps, i)
  BY Stepping DEF Matching, Safe, Typed, Works
<1>7. \A c \in Containers, d \in Databases : Matches(host, gone, c, d)
  BY DEF Matching
<1> HIDE DEF s, steps, t
<1>8. SUFFICES ASSUME NEW i \in DOMAIN t PROVE SafeAt(host', gone', t, i)
  BY DEF Safe, t
<1>9. /\ i \in Nat \ {0} /\ i + 1 \in DOMAIN steps /\ t[i] = steps[i + 1]
      /\ SafeAt(host, gone, steps, i + 1) /\ SafeAt(host, gone, steps, 1)
  BY <1>3, <1>6
<1> DEFINE u == t[i]
<1>10. CASE u.do \in OfHost
  <2>1. u.do \in {"init", "delete"} => \A j \in DOMAIN t : t[j].do \in OfHost
    BY <1>3, <1>9 DEF SafeAt
  <2> QED BY <1>10, <2>1 DEF SafeAt, OfHost, Makes, Loses
<1>11. CASE u.do \notin OfHost
  <2>1. s.do \notin {"init", "delete"}
    BY <1>3, <1>9, <1>11 DEF SafeAt
  <2>2. s.do # "index"
    <3>1. i + 1 \in 1..Len(steps)
      BY <1>6, <1>9
    <3>2. s.do = "index" => 1 = Len(steps)
      BY <1>3, <1>9 DEF SafeAt
    <3> QED BY <1>9, <3>1, <3>2
  <2>3. \A c \in Containers, d \in Databases : Points(host, host', s, c, d)
    BY <1>3, <1>4, <1>5, <2>1, PointByPoint
  <2>4. u \in Steps
    BY <1>6
  <2>5. \A c \in Containers : \A d \in Databases : d \in host'[c].index <=> d \in host[c].index
    BY <2>2, <2>3 DEF Points
  <2>6. gone' = gone
    BY <2>1 DEF Walk, Fail, s
  <2>7. ASSUME NEW c \in Containers, NEW d \in Databases, Makes(u, c, d)
        PROVE  d \notin host'[c].index
    BY <1>9, <2>5, <2>7 DEF SafeAt
  <2>8. ASSUME NEW c \in Containers, NEW d \in Databases, Loses(u, c, d)
        PROVE  /\ Lists(host', c, d) /\ i + 1 \in DOMAIN t /\ Clears(t[i + 1], c, d)
    <3>1. /\ Lists(host, c, d) /\ i + 1 + 1 \in DOMAIN steps /\ Clears(steps[i + 1 + 1], c, d)
      BY <1>9, <2>8 DEF SafeAt
    <3>2. ~(s.do = "record" /\ s.on = c /\ s.db = d)
      BY <1>3, <1>9, <3>1 DEF SafeAt, Lists
    <3>3. Lists(host', c, d)
      <4>1. host'[c].keys[d] # Adopted
        BY <2>3, <3>1, <3>2 DEF Points, Lists, None, Here, Adopted
      <4> QED BY <2>5, <3>1, <4>1 DEF Lists
    <3>4. i + 1 \in DOMAIN t
      <4>1. i + 1 + 1 \in 1..Len(steps) /\ DOMAIN t = 1..Len(t) /\ Len(t) \in Nat /\ Len(steps) \in Nat
        BY <1>6, <3>1
      <4> QED BY <1>3, <1>9, <4>1
    <3> QED BY <1>3, <3>1, <3>3, <3>4
  <2>9. u.do = "record" => u.db \notin host'[u.on].index
    <3>1. u.do = "record" => u.db \notin host[u.on].index /\ u.on \in Containers /\ u.db \in Databases
      BY <1>9, <2>4, StepFields DEF SafeAt, OfOne
    <3> QED BY <2>5, <3>1
  <2>10. u.do = "unenv" => \A j \in DOMAIN t : j > i => t[j].do \in {"forget", "index"}
    <3>1. ASSUME u.do = "unenv", NEW j \in DOMAIN t, j > i PROVE t[j].do \in {"forget", "index"}
      <4>1. j + 1 \in DOMAIN steps /\ t[j] = steps[j + 1] /\ j + 1 > i + 1
        BY <1>3, <1>9, <3>1
      <4> QED BY <1>9, <3>1, <4>1 DEF SafeAt
    <3> QED BY <3>1
  <2>11. ASSUME u.do = "index"
         PROVE  /\ i = Len(t)
                /\ \A d \in host'[u.on].index \ u.arg :
                     \/ \E j \in DOMAIN t : Clears(t[j], u.on, d)
                     \/ ~Stale(host', gone', u.on, d) /\ \A j \in DOMAIN t : ~Loses(t[j], u.on, d)
    <3>1. i = Len(t)
      <4>1. i + 1 = Len(steps) /\ Len(steps) \in Nat
        BY <1>6, <1>9, <2>11 DEF SafeAt
      <4> QED BY <1>3, <1>9, <4>1
    <3>2. u.on \in Containers
      BY <2>4, <2>11, StepFields
    <3>3. ASSUME NEW d \in host'[u.on].index \ u.arg
          PROVE  \/ \E j \in DOMAIN t : Clears(t[j], u.on, d)
                 \/ ~Stale(host', gone', u.on, d) /\ \A j \in DOMAIN t : ~Loses(t[j], u.on, d)
      <4>1. d \in Databases /\ d \in host[u.on].index \ u.arg
        <5>1. d \in Databases
          BY <1>4, <3>2, BoxFields
        <5> QED BY <2>5, <3>2, <5>1
      <4>2. \/ \E j \in DOMAIN steps : Clears(steps[j], u.on, d)
            \/ ~Stale(host, gone, u.on, d) /\ \A j \in DOMAIN steps : ~Loses(steps[j], u.on, d)
        BY <1>9, <2>11, <4>1 DEF SafeAt
      <4>3. CASE ~Stale(host, gone, u.on, d) /\ \A j \in DOMAIN steps : ~Loses(steps[j], u.on, d)
        <5>1. ~Loses(s, u.on, d)
          BY <1>3, <4>3
        <5>2. ~Stale(host', gone', u.on, d)
          BY <1>7, <2>3, <2>6, <3>2, <4>1, <4>3, <5>1, StaleBefore
        <5> QED BY <1>3, <4>3, <5>2
      <4>4. ASSUME NEW j \in DOMAIN steps, Clears(steps[j], u.on, d), j # 1
            PROVE  \E k \in DOMAIN t : Clears(t[k], u.on, d)
        <5>1. j \in 1..Len(steps) /\ DOMAIN t = 1..Len(t) /\ Len(t) \in Nat /\ Len(steps) \in Nat
          BY <1>6
        <5>2. j - 1 \in DOMAIN t /\ j - 1 + 1 = j
          BY <1>3, <4>4, <5>1
        <5>3. t[j - 1] = steps[j]
          BY <1>3, <5>2
        <5> QED BY <4>4, <5>2, <5>3
      <4>5. CASE Clears(s, u.on, d)
        <5>1. s.do = "unenv" /\ s.on = u.on /\ s.db = d /\ ~s.optional
          BY <4>5 DEF Clears
        <5>2. host' \in Does(host, s, New)
          <6>1. Fail(r) => work'[r] = Idle
            BY <5>1 DEF Fail, Typed, s
          <6> QED BY <6>1 DEF Walk, Outcomes, s
        <5>3. Writes(host, host', s, New)
          BY <1>3, <1>4, <5>1, <5>2, Written DEF OfOne
        <5>4. PICK y \in Boxes : /\ host' = [host EXCEPT ![s.on] = y]
                                 /\ Effect(host, y, s, New)
          BY <5>3 DEF Writes
        <5>5. host'[u.on] = y /\ y.env = [host[u.on].env EXCEPT ![d] = NoEnv]
          BY <1>4, <3>2, <5>1, <5>4, PutType DEF Effect
        <5>6. host'[u.on].env[d] = NoEnv
          BY <1>4, <3>2, <4>1, <5>5, BoxFields
        <5>7. ~Stale(host', gone', u.on, d)
          BY <5>6 DEF Stale, NoEnv
        <5>8. ASSUME NEW j \in DOMAIN t PROVE ~Loses(t[j], u.on, d)
          <6>1. j + 1 \in DOMAIN steps /\ t[j] = steps[j + 1] /\ j + 1 > 1
            BY <1>3
          <6>2. t[j].do \in {"forget", "index"}
            BY <1>3, <1>9, <5>1, <6>1 DEF SafeAt
          <6> QED BY <6>2 DEF Loses
        <5> QED BY <5>7, <5>8
      <4> QED BY <1>3, <4>2, <4>3, <4>4, <4>5
    <3> QED BY <3>1, <3>3
  <2>12. u.do \notin {"init", "delete"}
    BY <1>11 DEF OfHost
  <2> QED BY <2>7, <2>8, <2>9, <2>10, <2>11, <2>12 DEF SafeAt
<1> QED BY <1>10, <1>11

\* Three kinds of plans: of what does not touch databases, of what makes one known, and
\* of what takes one away.
LEMMA PlainPlan ==
  ASSUME NEW h, NEW g, NEW plan,
         \/ \A i \in DOMAIN plan : plan[i].do \in OfHost
         \/ \A i \in DOMAIN plan : plan[i].do \in {"assign", "start", "stop", "declare", "undeclare"}
  PROVE  Safe(h, g, plan)
BY DEF Safe, SafeAt, OfHost, Makes, Loses

MakingStep(h, c, d, plan, i) ==
  \/ plan[i].do \in {"snapshot", "carry"}
  \/ plan[i].do \in {"create", "record"} /\ plan[i].on = c /\ plan[i].db = d
  \/ plan[i].do = "grant" /\ plan[i].arg = c /\ plan[i].db = d
  \/ /\ plan[i].do = "index" /\ plan[i].on = c /\ i = Len(plan)
     /\ plan[i].arg = h[c].index \cup {d}

LEMMA MakingPlan ==
  ASSUME NEW h \in Hosts, NEW g, NEW c \in Containers, NEW d \in Databases,
         d \notin h[c].index, NEW plan \in Seq(Steps),
         \A i \in DOMAIN plan : MakingStep(h, c, d, plan, i)
  PROVE  Safe(h, g, plan)
<1> SUFFICES ASSUME NEW i \in DOMAIN plan PROVE SafeAt(h, g, plan, i)
  BY DEF Safe
<1> DEFINE s == plan[i]
<1>1. s.do \in {"snapshot", "carry", "create", "record", "grant", "index"}
  BY DEF MakingStep
<1>2. \A e \in Containers, b \in Databases :
        /\ Makes(s, e, b) => b \notin h[e].index
        /\ ~Loses(s, e, b)
  BY DEF MakingStep, Makes, Loses
<1>3. s.do = "record" => s.db \notin h[s.on].index
  BY DEF MakingStep
<1>4. s.do = "index" => i = Len(plan) /\ h[s.on].index \ s.arg = {}
  BY DEF MakingStep
<1> HIDE DEF s
<1> QED BY <1>1, <1>2, <1>3, <1>4 DEF SafeAt, s

TakingStep(h, c, d, plan, i) ==
  \/ plan[i].do \in {"snapshot", "forget"}
  \/ /\ plan[i].db = d /\ Lists(h, c, d)
     /\ \/ plan[i].do = "drop" /\ plan[i].on = c
        \/ plan[i].do = "revoke" /\ plan[i].arg = c
     /\ i + 1 \in DOMAIN plan /\ Clears(plan[i + 1], c, d)
  \/ /\ plan[i].do = "unenv"
     /\ \A j \in DOMAIN plan : j > i => plan[j].do \in {"forget", "index"}
  \/ /\ plan[i].do = "index" /\ plan[i].on = c /\ i = Len(plan)
     /\ plan[i].arg = h[c].index \ {d}

LEMMA TakingPlan ==
  ASSUME NEW h \in Hosts, NEW g, NEW c \in Containers, NEW d \in Databases,
         NEW plan \in Seq(Steps),
         \A i \in DOMAIN plan : TakingStep(h, c, d, plan, i),
         \/ \E j \in DOMAIN plan : Clears(plan[j], c, d)
         \/ /\ ~Stale(h, g, c, d)
            /\ \A j \in DOMAIN plan : plan[j].do \notin {"drop", "revoke"}
  PROVE  Safe(h, g, plan)
<1> SUFFICES ASSUME NEW i \in DOMAIN plan PROVE SafeAt(h, g, plan, i)
  BY DEF Safe
<1> DEFINE s == plan[i]
<1>1. s.do \in {"snapshot", "forget", "drop", "revoke", "unenv", "index"}
  BY DEF TakingStep
<1>2. ASSUME NEW e \in Containers, NEW b \in Databases
      PROVE  /\ ~Makes(s, e, b)
             /\ Loses(s, e, b) => /\ Lists(h, e, b) /\ i + 1 \in DOMAIN plan
                                  /\ Clears(plan[i + 1], e, b)
  <2>1. ~Makes(s, e, b)
    BY <1>1 DEF Makes
  <2>2. Loses(s, e, b) => e = c /\ b = d /\ s.do \in {"drop", "revoke"}
    BY DEF TakingStep, Loses
  <2> QED BY <2>1, <2>2 DEF TakingStep
<1>3. s.do = "unenv" => \A j \in DOMAIN plan : j > i => plan[j].do \in {"forget", "index"}
  BY DEF TakingStep
<1>4. s.do = "index" => /\ i = Len(plan) /\ s.on = c
                        /\ \A b \in h[c].index \ s.arg : b = d
  BY DEF TakingStep
<1>5. \/ \E j \in DOMAIN plan : Clears(plan[j], c, d)
      \/ ~Stale(h, g, c, d) /\ \A j \in DOMAIN plan : ~Loses(plan[j], c, d)
  BY DEF TakingStep, Loses
<1> HIDE DEF s
<1> QED BY <1>1, <1>2, <1>3, <1>4, <1>5 DEF SafeAt, s

\* What is asked for is safe, when nothing else is under way.
LEMMA AskingSafe ==
  ASSUME NEW r \in Requests, Inv, Matching, ~crossed, AskAnything(r)
  PROVE  Safe(host, gone, work'[r].steps)
<1>0. /\ host \in Hosts /\ work \in [Requests -> Works]
      /\ \A c \in Containers, d \in Databases : Matches(host, gone, c, d)
  BY DEF Inv, Typed, Matching
<1>1. ASSUME NEW kind, NEW c, NEW turn, NEW plan, Ask(r, kind, c, turn, plan)
      PROVE  work'[r].steps = plan
  BY <1>0, <1>1 DEF Ask
<1>2. ASSUME NEW c \in Containers, NEW d \in Databases, CanDestroy(host[c], d)
      PROVE  /\ d \in host[c].index /\ host[c].keys[d] \in Locations
             /\ host[c].keys[d] # None
  <2>1. host[c].keys[d] \in Locations
    BY <1>0, BoxFields
  <2> QED BY <1>2, <2>1 DEF CanDestroy, All, FromConfig
<1>3. ASSUME NEW c \in Containers, AskDestroy(r, c) PROVE Safe(host, gone, work'[r].steps)
  <2> DEFINE plan == DeletePlan(c)
  <2>1. plan \in Seq(Steps) /\ Len(plan) = 1 /\ Fields(plan[1], "delete", c, None, None, FALSE)
    BY Single, ArgTypes DEF DeletePlan, Given, Commands, Orders, OfOne, OfTwo
  <2>2. work'[r].steps = plan
    BY <1>1, <1>3 DEF AskDestroy
  <2> HIDE DEF plan
  <2>3. \A i \in DOMAIN plan : plan[i].do \in OfHost
    BY <2>1 DEF OfHost, Fields
  <2> QED BY <2>2, <2>3, PlainPlan
<1>4. ASSUME NEW c \in Containers, NEW p \in Projects \cup {None}, AskCreate(r, c, p)
      PROVE  Safe(host, gone, work'[r].steps)
  <2>1. PICK n \in AllocateAddress(host) : Ask(r, "create", c, FALSE, CreatePlan(c, n, p))
    BY <1>4 DEF AskCreate
  <2>2. n \in 0..Addresses
    BY <2>1, MachinesAssumption DEF AllocateAddress, Free
  <2> DEFINE plan == CreatePlan(c, n, p)
  <2>3. work'[r].steps = plan
    BY <1>1, <2>1
  <2>4. \A i \in DOMAIN plan : plan[i].do \in OfHost
    <3>1. CASE p = None
      <4>1. /\ plan \in Seq(Steps) /\ Len(plan) = 3
            /\ Fields(plan[1], "init", c, None, None, FALSE)
            /\ Fields(plan[2], "pin", c, None, n, FALSE)
            /\ Fields(plan[3], "start", c, None, None, FALSE)
        BY <2>2, <3>1, CreateSteps
      <4> HIDE DEF plan
      <4> QED BY <4>1 DEF Fields, OfHost
    <3>2. CASE p # None
      <4>1. /\ plan \in Seq(Steps) /\ Len(plan) = 4
            /\ Fields(plan[1], "init", c, None, None, FALSE)
            /\ Fields(plan[2], "pin", c, None, n, FALSE)
            /\ Fields(plan[3], "assign", c, None, p, FALSE)
            /\ Fields(plan[4], "start", c, None, None, FALSE)
        BY <2>2, <3>2, CreateSteps
      <4> HIDE DEF plan
      <4> QED BY <4>1 DEF Fields, OfHost
    <3> QED BY <3>1, <3>2
  <2> HIDE DEF plan
  <2> QED BY <2>3, <2>4, PlainPlan
<1>5. ASSUME NEW do \in {"assign", "start", "stop", "declare", "undeclare"},
             NEW c \in Containers \cup {None}, NEW arg \in Args, Given(do, c, None, arg),
             work'[r].steps = <<Run(do, c, None, arg)>>
      PROVE  Safe(host, gone, work'[r].steps)
  <2> DEFINE plan == <<Run(do, c, None, arg)>>
  <2>1. plan \in Seq(Steps) /\ Len(plan) = 1 /\ Fields(plan[1], do, c, None, arg, FALSE)
    BY <1>5, Single DEF Commands, Orders
  <2>2. work'[r].steps = plan
    BY <1>5
  <2> HIDE DEF plan
  <2>3. \A i \in DOMAIN plan : plan[i].do \in {"assign", "start", "stop", "declare", "undeclare"}
    BY <2>1 DEF Fields
  <2> QED BY <2>2, <2>3, PlainPlan
<1>6. ASSUME NEW c \in Containers, NEW p \in Projects \cup {None}, AskAssign(r, c, p)
      PROVE  Safe(host, gone, work'[r].steps)
  <2>1. work'[r].steps = <<Run("assign", c, None, p)>>
    BY <1>1, <1>6 DEF AskAssign
  <2>2. p \in Args /\ Given("assign", c, None, p)
    BY ArgTypes DEF Given, Orders, OfOne, OfTwo
  <2> QED BY <1>5, <2>1, <2>2
<1>7. ASSUME NEW c \in Containers, NEW stop \in BOOLEAN, AskPower(r, c, stop)
      PROVE  Safe(host, gone, work'[r].steps)
  <2> DEFINE do == IF stop THEN "stop" ELSE "start"
  <2>1. work'[r].steps = <<Run(do, c, None, None)>>
    BY <1>1, <1>7 DEF AskPower, PowerPlan
  <2>2. do \in {"stop", "start"}
    OBVIOUS
  <2> HIDE DEF do
  <2>3. Given(do, c, None, None)
    BY <2>2 DEF Given, Orders, OfOne, OfTwo
  <2> QED BY <1>5, <2>1, <2>2, <2>3, ArgTypes
<1>8. ASSUME NEW p \in Projects, AskDeclare(r, p) \/ AskRemoveProject(r, p)
      PROVE  Safe(host, gone, work'[r].steps)
  <2>1. PICK do \in {"declare", "undeclare"} : work'[r].steps = <<Run(do, None, None, p)>>
    BY <1>1, <1>8 DEF AskDeclare, AskRemoveProject
  <2>2. p \in Args /\ Given(do, None, None, p)
    BY <2>1, ArgTypes DEF Given, Orders, OfOne, OfTwo
  <2> QED BY <1>5, <2>1, <2>2
<1>9. ASSUME NEW c \in Containers, NEW d \in Databases, AskProvision(r, c, d)
      PROVE  Safe(host, gone, work'[r].steps)
  <2> DEFINE index == host[c].index \cup {d}
             plan == ProvisionPlan(c, d, index)
  <2>1. index \in SUBSET Databases
    BY <1>0, BoxFields
  <2>2. work'[r].steps = plan /\ d \notin host[c].index
    BY <1>1, <1>9 DEF AskProvision, CanProvision, ProvisionDatabase
  <2>3. index = host[c].index \cup {d}
    OBVIOUS
  <2> HIDE DEF index
  <2>4. /\ plan \in Seq(Steps) /\ Len(plan) = 4
        /\ Fields(plan[1], "snapshot", c, None, None, FALSE)
        /\ Fields(plan[2], "create", c, d, None, FALSE)
        /\ Fields(plan[3], "record", c, d, Here, FALSE)
        /\ Fields(plan[4], "index", c, None, index, FALSE)
    BY <2>1, ProvisionSteps
  <2> HIDE DEF plan
  <2>5. \A i \in DOMAIN plan : MakingStep(host, c, d, plan, i)
    BY <2>3, <2>4 DEF Fields, MakingStep
  <2> QED BY <1>0, <2>2, <2>4, <2>5, MakingPlan
<1>10. ASSUME NEW c \in Containers, NEW d \in Databases, AskAdopt(r, c, d)
       PROVE  Safe(host, gone, work'[r].steps)
  <2> DEFINE index == host[c].index \cup {d}
             plan == AdoptPlan(c, d, index)
  <2>1. index \in SUBSET Databases
    BY <1>0, BoxFields
  <2>2. work'[r].steps = plan /\ d \notin host[c].index
    BY <1>1, <1>10 DEF AskAdopt, CanAdopt, AdoptDatabase
  <2>3. index = host[c].index \cup {d}
    OBVIOUS
  <2> HIDE DEF index
  <2>4. /\ plan \in Seq(Steps) /\ Len(plan) = 2
        /\ Fields(plan[1], "record", c, d, Adopted, FALSE)
        /\ Fields(plan[2], "index", c, None, index, FALSE)
    BY <2>1, AdoptSteps
  <2> HIDE DEF plan
  <2>5. \A i \in DOMAIN plan : MakingStep(host, c, d, plan, i)
    BY <2>3, <2>4 DEF Fields, MakingStep
  <2> QED BY <1>0, <2>2, <2>4, <2>5, MakingPlan
<1>11. ASSUME NEW c \in Containers, NEW p \in Containers, NEW d \in Databases, AskShare(r, c, p, d)
       PROVE  Safe(host, gone, work'[r].steps)
  <2> DEFINE index == host[c].index \cup {d}
             plan == SharePlan(c, p, d, index)
  <2>1. index \in SUBSET Databases
    BY <1>0, BoxFields
  <2>2. work'[r].steps = plan /\ d \notin host[c].index
    BY <1>1, <1>11 DEF AskShare, CanShare, ShareDatabase
  <2>3. index = host[c].index \cup {d}
    OBVIOUS
  <2> HIDE DEF index
  <2>4. /\ plan \in Seq(Steps) /\ Len(plan) = 4
        /\ Fields(plan[1], "grant", p, d, c, FALSE)
        /\ Fields(plan[2], "carry", c, d, p, FALSE)
        /\ Fields(plan[3], "record", c, d, p, FALSE)
        /\ Fields(plan[4], "index", c, None, index, FALSE)
    BY <2>1, ShareSteps
  <2> HIDE DEF plan
  <2>5. \A i \in DOMAIN plan : MakingStep(host, c, d, plan, i)
    BY <2>3, <2>4 DEF Fields, MakingStep
  <2> QED BY <1>0, <2>2, <2>4, <2>5, MakingPlan
<1>12. ASSUME NEW c \in Containers, NEW d \in Databases, AskLetGo(r, c, d)
       PROVE  Safe(host, gone, work'[r].steps)
  <2> DEFINE p == host[c].keys[d]
             index == host[c].index \ {d}
             plan == RevokePlan(c, p, d, index)
  <2>1. index \in SUBSET Databases
    BY <1>0, BoxFields
  <2>2. p \in Containers /\ Lists(host, c, d)
    BY <1>2, <1>12 DEF AskLetGo, Local, Lists, Locations
  <2>3. work'[r].steps = plan
    BY <1>1, <1>12 DEF AskLetGo
  <2>4. index = host[c].index \ {d}
    OBVIOUS
  <2> HIDE DEF index, p
  <2>5. /\ plan \in Seq(Steps) /\ Len(plan) = 4
        /\ Fields(plan[1], "revoke", p, d, c, TRUE)
        /\ Fields(plan[2], "unenv", c, d, None, FALSE)
        /\ Fields(plan[3], "forget", c, d, None, TRUE)
        /\ Fields(plan[4], "index", c, None, index, index = {})
    BY <2>1, <2>2, RevokeSteps
  <2> HIDE DEF plan
  <2>6. DOMAIN plan = 1..4 /\ Clears(plan[2], c, d) /\ 2 \in DOMAIN plan
    BY <2>5 DEF Fields, Clears
  <2>7. \A i \in DOMAIN plan : TakingStep(host, c, d, plan, i)
    BY <2>2, <2>4, <2>5, <2>6 DEF Fields, TakingStep
  <2> QED BY <1>0, <2>3, <2>5, <2>6, <2>7, TakingPlan
<1>13. ASSUME NEW c \in Containers, NEW d \in Databases, AskRemoveOwn(r, c, d)
       PROVE  Safe(host, gone, work'[r].steps)
  <2> DEFINE index == host[c].index \ {d}
  <2>1. index \in SUBSET Databases
    BY <1>0, BoxFields
  <2>2. work'[r].steps = DestroyDatabasePlan(c, d) /\ d \in host[c].index
    BY <1>1, <1>2, <1>13 DEF AskRemoveOwn
  <2>3. index = host[c].index \ {d}
    OBVIOUS
  <2>4. CASE host[c].keys[d] = Adopted
    <3> DEFINE plan == Forget(c, d, index)
    <3>1. work'[r].steps = plan
      BY <2>2, <2>4 DEF DestroyDatabasePlan, ReleasePlan
    <3>2. ~Stale(host, gone, c, d)
      BY <1>0, <2>4 DEF Matches, Lists, Stale
    <3> HIDE DEF index
    <3>3. /\ plan \in Seq(Steps) /\ Len(plan) = 2
          /\ Fields(plan[1], "forget", c, d, None, TRUE)
          /\ Fields(plan[2], "index", c, None, index, index = {})
      BY <2>1, ForgetSteps
    <3> HIDE DEF plan
    <3>4. \A i \in DOMAIN plan : TakingStep(host, c, d, plan, i)
      BY <2>3, <3>3 DEF Fields, TakingStep
    <3>5. \A j \in DOMAIN plan : plan[j].do \notin {"drop", "revoke"}
      BY <3>3 DEF Fields
    <3> QED BY <1>0, <3>1, <3>2, <3>3, <3>4, <3>5, TakingPlan
  <2>5. CASE host[c].keys[d] # Adopted
    <3> DEFINE plan == DestroyPlan(c, d, index)
    <3>1. work'[r].steps = plan /\ Lists(host, c, d)
      BY <2>2, <2>5 DEF DestroyDatabasePlan, Lists
    <3> HIDE DEF index
    <3>2. CASE Credentialed(d)
      <4>1. /\ plan \in Seq(Steps) /\ Len(plan) = 5
            /\ Fields(plan[1], "snapshot", c, None, None, FALSE)
            /\ Fields(plan[2], "drop", c, d, None, FALSE)
            /\ Fields(plan[3], "unenv", c, d, None, FALSE)
            /\ Fields(plan[4], "forget", c, d, None, TRUE)
            /\ Fields(plan[5], "index", c, None, index, index = {})
        BY <2>1, <3>2, DestroySteps
      <4> HIDE DEF plan
      <4>2. DOMAIN plan = 1..5 /\ Clears(plan[3], c, d) /\ 3 \in DOMAIN plan
        BY <4>1 DEF Fields, Clears
      <4>3. \A i \in DOMAIN plan : TakingStep(host, c, d, plan, i)
        BY <2>3, <3>1, <4>1, <4>2 DEF Fields, TakingStep
      <4> QED BY <1>0, <3>1, <4>1, <4>2, <4>3, TakingPlan
    <3>3. CASE ~Credentialed(d)
      <4>1. /\ plan \in Seq(Steps) /\ Len(plan) = 4
            /\ Fields(plan[1], "snapshot", c, None, None, FALSE)
            /\ Fields(plan[2], "unenv", c, d, None, FALSE)
            /\ Fields(plan[3], "forget", c, d, None, TRUE)
            /\ Fields(plan[4], "index", c, None, index, index = {})
        BY <2>1, <3>3, DestroySteps
      <4> HIDE DEF plan
      <4>2. DOMAIN plan = 1..4 /\ Clears(plan[2], c, d) /\ 2 \in DOMAIN plan
        BY <4>1 DEF Fields, Clears
      <4>3. \A i \in DOMAIN plan : TakingStep(host, c, d, plan, i)
        BY <2>3, <3>1, <4>1, <4>2 DEF Fields, TakingStep
      <4> QED BY <1>0, <3>1, <4>1, <4>2, <4>3, TakingPlan
    <3> QED BY <3>2, <3>3
  <2> QED BY <2>4, <2>5
<1> QED BY <1>3, <1>4, <1>6, <1>7, <1>8, <1>9, <1>10, <1>11, <1>12, <1>13 DEF AskAnything

LEMMA NothingYet == Init => Matching
<1> SUFFICES ASSUME Init PROVE Matching
  OBVIOUS
<1>1. host = InitialHost /\ \A r \in Requests : work[r].steps = <<>>
  BY IdleType DEF Init
<1>2. ASSUME NEW c \in Containers, NEW d \in Databases PROVE host[c].env[d].login = 0
  <2>1. Blank.env[d] = NoEnv /\ Nothing.env = Blank.env
    BY DEF Blank, Nothing
  <2>2. host[c].env = Blank.env
    <3>1. CASE c \notin Present
      BY <1>1, <2>1, <3>1 DEF InitialHost
    <3>2. CASE c \in Present
      BY <1>1, <3>2 DEF InitialHost, Blank
    <3> QED BY <3>1, <3>2
  <2> QED BY <2>1, <2>2 DEF NoEnv
<1> QED BY <1>1, <1>2 DEF Matching, Matches, Safe

LEMMA KeepsMatching ==
  ASSUME Inv, Matching, [Next]_vars
  PROVE  Matching'
<1>0. Typed /\ Labelled
  BY DEF Inv
<1>1. SUFFICES ASSUME ~crossed' PROVE Matching'
  BY DEF Matching
<1>2. CASE UNCHANGED vars
  <2>1. host' = host /\ gone' = gone /\ work' = work /\ crossed' = crossed
    BY <1>2 DEF vars
  <2> QED BY <2>1 DEF Matching
<1>3. CASE Restart
  <2>1. /\ host' = host /\ gone' = gone /\ crossed' = crossed
        /\ \A r \in Requests : work'[r].steps = <<>>
    BY <1>3, IdleType DEF Restart
  <2> QED BY <1>1, <2>1 DEF Matching, Safe
<1>4. ASSUME NEW r \in Requests, AskAnything(r) PROVE Matching'
  <2>1. PICK kind \in Kinds \cup {"letgo"}, c \in Containers \cup {None}, turn \in BOOLEAN,
             plan \in Seq(Steps) : Ask(r, kind, c, turn, plan)
    BY <1>0, <1>4, AskingType DEF Asks
  <2>2. /\ ~crossed /\ host' = host /\ gone' = gone
        /\ \A q \in Requests \ {r} : work'[q] = work[q]
    BY <1>0, <1>1, <2>1 DEF Ask, Typed
  <2>3. Safe(host, gone, work'[r].steps)
    BY <1>4, <2>2, AskingSafe
  <2>4. \A q \in Requests : Safe(host', gone', work'[q].steps)
    BY <2>2, <2>3 DEF Matching
  <2> QED BY <2>2, <2>4 DEF Matching
<1>5. ASSUME NEW r \in Requests, Walk(r) \/ Fail(r) PROVE Matching'
  <2>1. /\ ~crossed /\ Busy(r) /\ \A q \in Requests \ {r} : work'[q] = work[q]
    <3>1. crossed' = crossed /\ Busy(r)
      BY <1>5 DEF Walk, Fail
    <3>2. \A q \in Requests \ {r} : work'[q] = work[q]
      BY <1>0, <1>5, <3>1, Stepping, Onward
    <3> QED BY <1>1, <3>1, <3>2
  <2>2. \A q \in Requests \ {r} : work'[q].steps = <<>>
    BY <1>0, <2>1 DEF Labelled, Busy
  <2>3. Safe(host', gone', work'[r].steps)
    <3>1. CASE work'[r] = Idle
      BY <3>1, IdleType DEF Safe
    <3>2. CASE work'[r] # Idle
      BY <1>0, <1>5, <2>1, <3>2, SafeStep
    <3> QED BY <3>1, <3>2
  <2>4. \A q \in Requests : Safe(host', gone', work'[q].steps)
    BY <2>2, <2>3 DEF Safe
  <2>5. \A c \in Containers, d \in Databases : Matches(host', gone', c, d)
    BY <1>0, <1>5, <2>1, MatchesStep
  <2> QED BY <2>4, <2>5 DEF Matching
<1> QED BY <1>2, <1>3, <1>4, <1>5 DEF Next

\* As long as requests come one at a time, whatever fails, however often the agent is
\* restarted and whatever is tried again: what a container holds is the password of the
\* login it names, unless there is no such login any more or the container with the
\* data was destroyed. No password is made anew behind the back of who was given it.
THEOREM PasswordsKeepMatching == Spec => []PasswordsMatch
<1>1. Matching => PasswordsMatch
  BY DEF Matching, Matches, PasswordsMatch
<1>2. Init => Matching
  BY NothingYet
<1>3. Inv /\ Matching /\ [Next]_vars => Matching'
  BY KeepsMatching
<1> QED BY <1>1, <1>2, <1>3, Invariant, PTL DEF Spec

----------------------------------------------------------------------------
(* Connections.                                                               *)

\* A place to keep a database that is another container's.
Foreign(k) == k \notin {None, Here, Adopted}

\* The steps that come next.
Ahead == {Step(r) : r \in {other \in Requests : Busy(other)}}

\* The credentials a container holds are its own, or of the very container its keys
\* name, as long as no more than one step failed; and as long as none did, the keys
\* name no container but for what is listed. Between two steps of one plan the keys are
\* yet to follow the credentials, and the list the keys.
Directed(h, f, ahead, c, d) ==
  LET e == h[c].env[d]
      k == h[c].keys[d]
  IN
  /\ e.login # 0 /\ Foreign(k) =>
       \/ e.at \in {c, k}
       \/ f = 1 /\ \E s \in ahead : s.do = "record" /\ s.on = c /\ s.db = d /\ s.arg = e.at
  /\ f = 0 /\ d \notin h[c].index /\ Foreign(k) =>
       \E s \in ahead : s.do = "index" /\ s.on = c /\ d \in s.arg

\* What a step of a plan relies on: it is on the request's own container, or about its
\* login in another; keys are recorded right after the credentials they belong to, and
\* right before they are listed; they are forgotten right before they are not listed any
\* more; and what is dropped nobody is connected to.
StraightAt(h, f, on, steps, i) ==
  LET s == steps[i] IN
  /\ IF s.do \in {"grant", "revoke"} THEN s.arg = on ELSE s.on = on
  /\ s.do = "carry" =>
       /\ ~s.optional /\ s.db \notin h[on].index
       /\ i + 1 \in DOMAIN steps
       /\ steps[i + 1].do = "record" /\ steps[i + 1].db = s.db /\ steps[i + 1].arg = s.arg
  /\ s.do = "record" =>
       /\ i + 1 \in DOMAIN steps
       /\ steps[i + 1].do = "index" /\ s.db \in steps[i + 1].arg
       /\ Foreign(s.arg) =>
            IF i = 1 THEN h[on].env[s.db].login = 0 \/ h[on].env[s.db].at \in {on, s.arg}
            ELSE /\ steps[i - 1].do = "carry" /\ steps[i - 1].db = s.db
                 /\ steps[i - 1].arg = s.arg
  /\ s.do = "index" =>
       \A d \in h[on].index \ s.arg :
         IF i = 1 THEN f = 0 => ~Foreign(h[on].keys[d])
         ELSE steps[i - 1].do = "forget" /\ steps[i - 1].db = d
  /\ s.do = "drop" => ~StillConnected(h, s.on, s.db)
Straight(h, f, on, steps) == \A i \in DOMAIN steps : StraightAt(h, f, on, steps, i)

Connecting ==
  crossed \/ fails > 1 \/
    /\ \A c \in Containers, d \in Databases : Directed(host, fails, Ahead, c, d)
    /\ \A r \in Requests : Straight(host, fails, work[r].on, work[r].steps)

\* What a step may turn credentials, keys and index to.
Turns(h, h2, s, c, d) ==
  LET e == h2[c].env[d]
      k == h2[c].keys[d]
  IN
  /\ \/ e = h[c].env[d] \/ e.login = 0
     \/ /\ s.on = c /\ s.db = d
        /\ (s.do = "create" /\ e.at = c) \/ (s.do = "carry" /\ e.at = s.arg)
  /\ \/ k = h[c].keys[d] \/ ~Foreign(k)
     \/ s.do = "record" /\ s.on = c /\ s.db = d /\ k = s.arg
  /\ \/ h2[c].index = h[c].index
     \/ s.do = "index" /\ s.on = c /\ h2[c].index = s.arg
     \/ s.do = "delete" /\ ~Foreign(k)

LEMMA OverWhat ==
  ASSUME NEW old, NEW location
  PROVE  /\ Over(old, location) = old \/ ~Foreign(Over(old, location)) \/ Over(old, location) = location
         /\ Foreign(location) => Over(old, location) = location
         /\ Over(old, Here) = old \/ ~Foreign(Over(old, Here))
BY DEF Over, Foreign, Local, Here, Adopted

\* Of one container, by what its command writes.
LEMMA TurnsOf ==
  ASSUME NEW h \in Hosts, NEW s \in Steps, NEW new \in Nat \ {0}, NEW y \in Boxes,
         s.do \in OfOne \cup OfTwo \cup {"index"}, Differs(h[s.on], y, s.do),
         Effect(h, y, s, new) \/ HalfEffect(h, y, s, new),
         NEW h2, h2 = [h EXCEPT ![s.on] = y], NEW c \in Containers, NEW d \in Databases
  PROVE  Turns(h, h2, s, c, d)
<1> DEFINE x == h[s.on]
<1>1. /\ s.on \in Containers /\ h2[s.on] = y
      /\ \A e \in Containers \ {s.on} : h2[e] = h[e]
  BY StepFields, PutType
<1>2. /\ x.env \in [Databases -> [at : {None} \cup Containers, login : Nat]]
      /\ x.keys \in [Databases -> Locations]
  BY <1>1, BoxFields
<1>3. ASSUME h2[c].env[d] # h[c].env[d]
      PROVE  \/ h2[c].env[d].login = 0
             \/ /\ s.on = c /\ s.db = d
                /\ \/ s.do = "create" /\ h2[c].env[d].at = c
                   \/ s.do = "carry" /\ h2[c].env[d].at = s.arg
  <2>1. c = s.on /\ h2[c] = y /\ y.env[d] # x.env[d]
    BY <1>1, <1>3
  <2>2. s.do \in {"create", "carry", "unenv"}
    BY <2>1 DEF Differs, OfOne, OfTwo
  <2>3. PICK e : y.env = [x.env EXCEPT ![s.db] = e]
                 /\ (s.do = "create" => e.at = c) /\ (s.do = "carry" => e.at = s.arg)
                 /\ (s.do = "unenv" => e.login = 0)
    <3>1. CASE s.do = "create"
      <4>1. Creates(x, y, c, s.db, new)
        BY <2>1, <3>1 DEF Effect, HalfEffect
      <4>2. PICK n : y.env = [x.env EXCEPT ![s.db] = [at |-> c, login |-> n]]
        BY <4>1 DEF Creates
      <4> QED BY <3>1, <4>2
    <3>2. CASE s.do = "carry"
      <4>1. y.env = [x.env EXCEPT ![s.db] =
                       [at |-> s.arg, login |-> h[s.arg].logins[s.db][s.on]]]
        BY <3>2 DEF Effect, HalfEffect
      <4> DEFINE e == [at |-> s.arg, login |-> h[s.arg].logins[s.db][s.on]]
      <4>2. e.at = s.arg /\ y.env = [x.env EXCEPT ![s.db] = e]
        BY <4>1
      <4> HIDE DEF e
      <4> QED BY <3>2, <4>2
    <3>3. CASE s.do = "unenv"
      <4>1. y.env = [x.env EXCEPT ![s.db] = NoEnv] /\ NoEnv.login = 0
        BY <3>3 DEF Effect, HalfEffect, NoEnv
      <4> QED BY <3>3, <4>1
    <3> QED BY <2>2, <3>1, <3>2, <3>3
  <2>4. s.db = d /\ y.env[d] = e
    BY <1>2, <2>1, <2>3
  <2> QED BY <2>1, <2>2, <2>3, <2>4
<1>4. ASSUME h2[c].keys[d] # h[c].keys[d], Foreign(h2[c].keys[d])
      PROVE  s.do = "record" /\ s.on = c /\ s.db = d /\ h2[c].keys[d] = s.arg
  <2>1. c = s.on /\ h2[c] = y /\ y.keys[d] # x.keys[d]
    BY <1>1, <1>4
  <2>2. s.do \in {"record", "forget"}
    BY <2>1 DEF Differs, OfOne, OfTwo
  <2>3. CASE s.do = "record"
    <3>1. PICK location \in {s.arg, Here} :
            y.keys = [x.keys EXCEPT ![s.db] = Over(x.keys[s.db], location)]
      BY <2>3 DEF Effect, HalfEffect
    <3>2. s.db = d /\ y.keys[d] = Over(x.keys[d], location)
      BY <1>2, <2>1, <3>1
    <3>3. y.keys[d] = location /\ location # Here
      BY <1>4, <2>1, <3>2, OverWhat
    <3> QED BY <2>1, <2>3, <3>1, <3>2, <3>3
  <2>4. CASE s.do = "forget"
    <3>1. PICK k \in {None, Here} : y.keys = [x.keys EXCEPT ![s.db] = k]
      BY <2>4 DEF Effect, HalfEffect
    <3>2. y.keys[d] \in {None, Here}
      BY <1>2, <2>1, <3>1
    <3> QED BY <1>4, <2>1, <3>2 DEF Foreign
  <2> QED BY <2>2, <2>3, <2>4
<1>5. ASSUME h2[c].index # h[c].index
      PROVE  s.do = "index" /\ s.on = c /\ h2[c].index = s.arg
  <2>1. c = s.on /\ h2[c] = y /\ y.index # x.index
    BY <1>1, <1>5
  <2>2. s.do = "index"
    BY <2>1 DEF Differs, OfOne, OfTwo
  <2> QED BY <2>1, <2>2 DEF Effect, HalfEffect
<1> QED BY <1>3, <1>4, <1>5 DEF Turns

LEMMA Turning ==
  ASSUME NEW h \in Hosts, NEW s \in Steps, NEW new \in Nat \ {0},
         NEW h2 \in Does(h, s, new) \cup FailsWith(h, s, new),
         NEW c \in Containers, NEW d \in Databases
  PROVE  Turns(h, h2, s, c, d)
<1>1. CASE h2 = h
  BY <1>1 DEF Turns
<1>2. CASE h2 # h /\ s.do \in OfOne \cup OfTwo \cup {"index"}
  <2>1. Writes(h, h2, s, new) \/ HalfWrites(h, h2, s, new)
    BY <1>2, Written, HalfWritten
  <2> QED BY <1>2, <2>1, TurnsOf DEF Writes, HalfWrites
<1>3. CASE h2 # h /\ s.do \in Orders
  <2>1. ~HalfWrites(h, h2, s, new)
    BY <1>3 DEF HalfWrites, HalfEffect, Orders
  <2>2. h2 \in Does(h, s, new)
    BY <1>3, <2>1, HalfWritten
  <2>3. PICK y \in Boxes : /\ h2 = [h EXCEPT ![s.on] = y] /\ Differs(h[s.on], y, s.do)
                           /\ Done(h[s.on], y, s)
    BY <1>3, <2>2, Ordered DEF Puts
  <2>4. /\ s.on \in Containers /\ h2[s.on] = y
        /\ \A e \in Containers \ {s.on} : h2[e] = h[e]
    BY <1>3, <2>3, StepFields, PutType
  <2>5. /\ Blank.index = Nothing.index /\ Blank.keys = Nothing.keys
        /\ Blank.env = Nothing.env
        /\ Nothing.keys[d] = None /\ Nothing.env[d].login = 0
    BY DEF Blank, Nothing, NoEnv
  <2>6. CASE s.do # "delete"
    <3>1. /\ y.index = h[s.on].index /\ y.keys = h[s.on].keys /\ y.env = h[s.on].env
      BY <1>3, <2>3, <2>5, <2>6 DEF Differs, Done, Orders
    <3>2. h2[c].index = h[c].index /\ h2[c].keys = h[c].keys /\ h2[c].env = h[c].env
      BY <2>4, <3>1
    <3> QED BY <3>2 DEF Turns
  <2>7. CASE s.do = "delete"
    <3>1. h2[c] = h[c] \/ h2[c] = Nothing
      BY <2>3, <2>4, <2>7 DEF Done
    <3> QED BY <2>5, <2>7, <3>1 DEF Turns, Foreign
  <2> QED BY <2>6, <2>7
<1>4. CASE h2 # h /\ s.do \notin Orders \cup OfOne \cup OfTwo \cup {"index"}
  BY <1>4 DEF Does, FailsWith, Orders, OfOne, OfTwo
<1> QED BY <1>1, <1>2, <1>3, <1>4

\* What a step has done that did what it was to do ...
LEMMA Finished ==
  ASSUME NEW h \in Hosts, NEW s \in Steps, NEW new \in Nat \ {0}, NEW h2 \in Does(h, s, new)
  PROVE  /\ s.do = "carry" => h2[s.on].env[s.db].at = s.arg
         /\ s.do = "record" /\ Foreign(s.arg) => h2[s.on].keys[s.db] = s.arg
         /\ s.do = "forget" => h2[s.on].keys[s.db] = None
         /\ s.do = "index" => h2[s.on].index = s.arg
<1> SUFFICES ASSUME s.do \in {"carry", "record", "forget", "index"}
             PROVE  /\ s.do = "carry" => h2[s.on].env[s.db].at = s.arg
                    /\ s.do = "record" /\ Foreign(s.arg) => h2[s.on].keys[s.db] = s.arg
                    /\ s.do = "forget" => h2[s.on].keys[s.db] = None
                    /\ s.do = "index" => h2[s.on].index = s.arg
  OBVIOUS
<1> DEFINE x == h[s.on]
<1>1. Writes(h, h2, s, new) /\ s.on \in Containers /\ (s.do # "index" => s.db \in Databases)
  BY Written, StepFields DEF OfOne, OfTwo
<1>2. PICK y \in Boxes : h2[s.on] = y /\ Effect(h, y, s, new)
  BY <1>1, PutType DEF Writes
<1>3. /\ x.env \in [Databases -> [at : {None} \cup Containers, login : Nat]]
      /\ x.keys \in [Databases -> Locations]
  BY <1>1, BoxFields
<1>4. CASE s.do = "carry"
  <2>1. y.env = [x.env EXCEPT ![s.db] = [at |-> s.arg, login |-> h[s.arg].logins[s.db][s.on]]]
    BY <1>2, <1>4 DEF Effect
  <2>2. y.env[s.db].at = s.arg
    BY <1>1, <1>3, <1>4, <2>1
  <2> QED BY <1>2, <1>4, <2>2
<1>5. CASE s.do = "record"
  <2>1. y.keys = [x.keys EXCEPT ![s.db] = Over(x.keys[s.db], s.arg)]
    BY <1>2, <1>5 DEF Effect
  <2>2. y.keys[s.db] = Over(x.keys[s.db], s.arg)
    BY <1>1, <1>3, <1>5, <2>1
  <2> QED BY <1>2, <1>5, <2>2, OverWhat
<1>6. CASE s.do = "forget"
  <2>1. y.keys = [x.keys EXCEPT ![s.db] = None]
    BY <1>2, <1>6 DEF Effect
  <2>2. y.keys[s.db] = None
    BY <1>1, <1>3, <1>6, <2>1
  <2> QED BY <1>2, <1>6, <2>2
<1>7. CASE s.do = "index"
  BY <1>2, <1>7 DEF Effect
<1> QED BY <1>4, <1>5, <1>6, <1>7

\* ... and what one has not that could not but fail.
LEMMA Unable ==
  ASSUME NEW h \in Hosts, NEW s \in Steps, NEW new \in Nat \ {0}, Does(h, s, new) = {},
         NEW h2 \in FailsWith(h, s, new), s.do \in {"carry", "record", "forget", "index"}
  PROVE  h2 = h /\ (s.do # "carry" => h[s.on] = Nothing)
<1>1. s.on \in Containers
  BY StepFields DEF OfOne, OfTwo
<1>2. CASE s.do = "carry"
  BY <1>2 DEF FailsWith
<1>3. CASE s.do # "carry"
  <2>1. ~h[s.on].here
    BY <1>3 DEF Does, RecordKeys, ForgetKeys, WriteIndex, When
  <2>2. h[s.on] = Nothing
    BY <1>1, <2>1, BoxType
  <2>3. h2 = h
    BY <1>3, <2>1 DEF FailsWith, RecordKeys, ForgetHalf, When
  <2> QED BY <2>2, <2>3
<1> QED BY <1>2, <1>3

\* A container with data in it is there, and stays.
LEMMA StaysHere ==
  ASSUME NEW h \in Hosts, NEW s \in Steps, NEW new \in Nat \ {0},
         NEW h2 \in Does(h, s, new) \cup FailsWith(h, s, new), s.do # "delete",
         NEW c \in Containers, NEW d \in Databases, h[c].data[d] # 0
  PROVE  h2[c].here
<1>1. h[c].here
  BY BoxType DEF Nothing, Blank
<1>2. Moved(h, h2, s)
  BY StepType
<1>3. CASE h2 = h \/ s.on # c
  BY <1>1, <1>2, <1>3 DEF Moved, Hosts
<1>4. CASE h2 # h /\ s.on = c /\ s.do # "init"
  BY <1>1, <1>2, <1>4, PutType DEF Moved, Differs
<1>5. CASE h2 # h /\ s.on = c /\ s.do = "init"
  <2>1. ~HalfWrites(h, h2, s, new)
    BY <1>5 DEF HalfWrites, HalfEffect
  <2>2. h2 \in Does(h, s, new)
    BY <1>5, <2>1, HalfWritten
  <2> QED BY <1>1, <1>5, <2>2 DEF Does, InitContainer, When
<1> QED BY <1>3, <1>4, <1>5

LEMMA DropsOnlyIts ==
  ASSUME NEW h \in Hosts, NEW s \in Steps, NEW new \in Nat \ {0}, s.do = "drop",
         NEW h2 \in Does(h, s, new) \cup FailsWith(h, s, new),
         NEW d \in Databases \ {s.db}
  PROVE  h2[s.on].data[d] = h[s.on].data[d]
<1>1. CASE h2 = h
  BY <1>1
<1>2. CASE h2 # h
  <2>1. Writes(h, h2, s, new) \/ HalfWrites(h, h2, s, new)
    BY <1>2, Written, HalfWritten DEF OfOne
  <2>2. s.on \in Containers
    BY StepFields DEF OfOne
  <2>3. PICK y \in Boxes : h2[s.on] = y /\ (Effect(h, y, s, new) \/ HalfEffect(h, y, s, new))
    BY <2>1, <2>2, PutType DEF Writes, HalfWrites
  <2>4. y.data = [h[s.on].data EXCEPT ![s.db] = 0]
    BY <2>3 DEF Effect, HalfEffect
  <2>5. h[s.on].data \in [Databases -> Nat]
    BY <2>2, BoxFields
  <2> QED BY <2>3, <2>4, <2>5
<1> QED BY <1>1, <1>2

\* Requests come one at a time: what comes next is of one request.
LEMMA OneAhead ==
  ASSUME NEW r \in Requests, Typed, Labelled, ~crossed, Walk(r) \/ Fail(r)
  PROVE  /\ Ahead = {Step(r)}
         /\ Walk(r) /\ 2 \in DOMAIN work[r].steps => work[r].steps[2] \in Ahead'
<1>1. Busy(r) /\ \A q \in Requests : Busy(q) => q = r
  BY DEF Walk, Fail, Labelled
<1>2. Ahead = {Step(r)}
  BY <1>1 DEF Ahead
<1>3. ASSUME Walk(r), 2 \in DOMAIN work[r].steps PROVE work[r].steps[2] \in Ahead'
  <2>1. work \in [Requests -> Works] /\ work[r].steps \in Seq(Steps) /\ work[r].steps # <<>>
    BY <1>1 DEF Typed, Works, Busy
  <2> DEFINE t == Tail(work[r].steps)
  <2>2. t # <<>> /\ Head(t) = work[r].steps[2]
    BY <1>3, <2>1
  <2> HIDE DEF t
  <2>3. work' = [work EXCEPT ![r] = [work[r] EXCEPT !.walking = TRUE, !.steps = t]]
    BY <1>3, <2>2 DEF Walk, After, t
  <2>4. work'[r].steps = t
    BY <2>1, <2>3 DEF Works
  <2>5. Busy(r)' /\ Step(r)' = work[r].steps[2]
    BY <2>2, <2>4 DEF Busy, Step
  <2> QED BY <2>5 DEF Ahead
<1> QED BY <1>2, <1>3

\* How steps that failed are counted.
LEMMA Counting ==
  ASSUME NEW r \in Requests, Typed, Walk(r) \/ Fail(r), ~(fails' > 1)
  PROVE  /\ ~(fails > 1) /\ fails \in {0, 1} /\ fails' \in {0, 1}
         /\ fails # 0 => fails' = fails
         /\ fails' # fails => Fail(r)
         /\ fails' = fails => Walk(r) \/ (Fail(r) /\ Outcomes(r) = {})
<1>1. fails \in Nat
  BY ContainersAssumption DEF Typed
<1>2. Walk(r) => fails' = fails
  BY DEF Walk
<1>3. Fail(r) => (Outcomes(r) = {} /\ fails' = fails) \/ fails' = fails + 1
  BY DEF Fail
<1> QED BY <1>1, <1>2, <1>3

LEMMA DirectedStep ==
  ASSUME NEW r \in Requests, Typed, Labelled, Matching, Connecting, ~crossed,
         Walk(r) \/ Fail(r), ~(fails' > 1), NEW c \in Containers, NEW d \in Databases
  PROVE  Directed(host', fails', Ahead', c, d)
<1> DEFINE s == Step(r)
           steps == work[r].steps
           on == work[r].on
           e == host[c].env[d]
           k == host[c].keys[d]
           e2 == host'[c].env[d]
           k2 == host'[c].keys[d]
<1>1. /\ s \in Steps /\ s = steps[1] /\ 1 \in DOMAIN steps
      /\ host \in Hosts /\ host' \in Hosts /\ New \in Nat \ {0}
  <2>1. Busy(r)
    BY DEF Walk, Fail
  <2> QED BY <2>1, Stepping, Onward, NewIsNew DEF Typed
<1>2. /\ host' \in Does(host, s, New) \cup FailsWith(host, s, New)
      /\ Walk(r) => host' \in Does(host, s, New)
      /\ Fail(r) => host' \in FailsWith(host, s, New)
      /\ Outcomes(r) = Does(host, s, New)
  BY DEF Walk, Fail, Outcomes, Failures
<1>3. /\ ~(fails > 1) /\ fails \in {0, 1} /\ fails' \in {0, 1}
      /\ fails # 0 => fails' = fails
      /\ fails' = fails => Walk(r) \/ (Fail(r) /\ Outcomes(r) = {})
  BY Counting
<1>4. /\ Directed(host, fails, Ahead, c, d)
      /\ \A i \in DOMAIN steps : StraightAt(host, fails, on, steps, i)
      /\ Matches(host, gone, c, d)
  BY <1>3 DEF Connecting, Straight, Matching
<1>5. StraightAt(host, fails, on, steps, 1)
  BY <1>1, <1>4
<1>6. Ahead = {s} /\ (Walk(r) /\ 2 \in DOMAIN steps => steps[2] \in Ahead')
  BY OneAhead
<1>7. Turns(host, host', s, c, d)
  BY <1>1, <1>2, Turning
<1>8. fails' = fails /\ s.do \in {"carry", "record", "forget", "index"} =>
        \/ host' \in Does(host, s, New) /\ Walk(r)
        \/ host' = host /\ (s.do # "carry" => host[s.on] = Nothing)
  BY <1>1, <1>2, <1>3, Unable
<1>9. Nothing.keys[d] = None /\ Nothing.env[d].login = 0 /\ ~Foreign(None)
  BY DEF Nothing, Blank, NoEnv, Foreign
<1> HIDE DEF s, steps, on
\* What the keys are, when they name a container.
<1>10. ASSUME Foreign(k2)
       PROVE  k2 = k \/ (s.do = "record" /\ s.on = c /\ s.db = d /\ k2 = s.arg)
  BY <1>7, <1>10 DEF Turns
\* Credentials that were there already.
<1>11. ASSUME e2 = e, e2.login # 0, Foreign(k2)
       PROVE  e2.at \in {c, k2}
  <2>1. CASE k2 # k
    <3>1. s.do = "record" /\ s.on = c /\ s.db = d /\ k2 = s.arg
      BY <1>10, <1>11, <2>1
    <3>2. on = c /\ (host[on].env[s.db].login = 0 \/ host[on].env[s.db].at \in {on, s.arg})
      BY <1>1, <1>5, <1>11, <3>1 DEF StraightAt
    <3> QED BY <1>11, <3>1, <3>2
  <2>2. CASE k2 = k
    <3>1. CASE e.at \in {c, k}
      BY <1>11, <2>2, <3>1
    <3>2. CASE e.at \notin {c, k}
      <4>1. fails = 1 /\ s.do = "record" /\ s.on = c /\ s.db = d /\ s.arg = e.at
        BY <1>4, <1>6, <1>11, <2>2, <3>2 DEF Directed
      <4>2. Foreign(s.arg)
        <5>1. e.at \in Containers
          BY <1>4, <1>11 DEF Matches
        <5> QED BY <4>1, <5>1, PlacesAssumption DEF Foreign
      <4>3. host[c] # Nothing
        BY <1>9, <1>11
      <4>4. host' \in Does(host, s, New)
        BY <1>3, <1>8, <4>1, <4>3
      <4>5. k2 = s.arg
        BY <1>1, <4>1, <4>2, <4>4, Finished
      <4> QED BY <1>11, <4>1, <4>5
    <3> QED BY <3>1, <3>2
  <2> QED BY <2>1, <2>2
\* Credentials that were carried just now.
<1>12. ASSUME s.on = c, s.db = d, s.do = "carry", e2 # e, Foreign(k2)
       PROVE  /\ fails' = 1
              /\ e2.at = s.arg => \E u \in Ahead' : /\ u.do = "record" /\ u.on = c /\ u.db = d
                                                    /\ u.arg = e2.at
  <2>1. /\ on = c /\ d \notin host[c].index /\ 1 + 1 \in DOMAIN steps
        /\ steps[1 + 1].do = "record" /\ steps[1 + 1].db = d /\ steps[1 + 1].arg = s.arg
    BY <1>1, <1>5, <1>12 DEF StraightAt
  <2>2. k2 = k
    BY <1>10, <1>12
  <2>3. fails = 1
    BY <1>3, <1>4, <1>6, <1>12, <2>1, <2>2 DEF Directed
  <2>4. fails' = fails /\ Walk(r)
    BY <1>3, <1>8, <1>12, <2>3
  <2>5. steps[2].on = c
    <3>1. StraightAt(host, fails, on, steps, 2)
      BY <1>4, <2>1
    <3> QED BY <2>1, <3>1 DEF StraightAt
  <2> QED BY <1>6, <2>1, <2>3, <2>4, <2>5
<1>13. ASSUME e2.login # 0, Foreign(k2)
       PROVE  \/ e2.at \in {c, k2}
              \/ fails' = 1 /\ \E u \in Ahead' : /\ u.do = "record" /\ u.on = c /\ u.db = d
                                                 /\ u.arg = e2.at
  <2>1. CASE e2 = e
    BY <1>11, <1>13, <2>1
  <2>2. CASE e2 # e
    <3>1. /\ s.on = c /\ s.db = d
          /\ (s.do = "create" /\ e2.at = c) \/ (s.do = "carry" /\ e2.at = s.arg)
      BY <1>7, <1>13, <2>2 DEF Turns
    <3> QED BY <1>12, <1>13, <2>2, <3>1
  <2> QED BY <2>1, <2>2
<1>14. ASSUME fails' = 0, d \notin host'[c].index, Foreign(k2)
       PROVE  \E u \in Ahead' : u.do = "index" /\ u.on = c /\ d \in u.arg
  <2>1. fails = 0 /\ fails' = fails
    BY <1>3, <1>14
  <2>2. CASE k2 = k
    <3>1. d \notin host[c].index =>
            /\ s.do = "index" /\ s.on = c /\ d \in s.arg
      BY <1>4, <1>6, <1>14, <2>1, <2>2 DEF Directed
    <3>2. ~(s.do = "index" /\ s.on = c /\ d \in s.arg)
      <4>1. SUFFICES ASSUME s.do = "index", s.on = c, d \in s.arg PROVE FALSE
        OBVIOUS
      <4>2. host[c] # Nothing
        BY <1>9, <1>14, <2>2
      <4>3. host'[c].index = s.arg
        BY <1>1, <1>8, <2>1, <4>1, <4>2, Finished
      <4> QED BY <1>14, <4>1, <4>3
    <3>3. /\ d \in host[c].index
          /\ s.do = "index" /\ s.on = c /\ host'[c].index = s.arg
      BY <1>7, <1>14, <3>1, <3>2 DEF Turns
    <3>4. on = c /\ d \in host[on].index \ s.arg
      BY <1>1, <1>5, <1>14, <3>3 DEF StraightAt
    <3>5. ~Foreign(k)
      BY <1>1, <1>5, <2>1, <3>3, <3>4 DEF StraightAt
    <3> QED BY <1>14, <2>2, <3>5
  <2>3. CASE k2 # k
    <3>1. s.do = "record" /\ s.on = c /\ s.db = d /\ k2 = s.arg
      BY <1>10, <1>14, <2>3
    <3>2. /\ on = c /\ 1 + 1 \in DOMAIN steps
          /\ steps[1 + 1].do = "index" /\ d \in steps[1 + 1].arg
      BY <1>1, <1>5, <3>1 DEF StraightAt
    <3>3. Walk(r)
      BY <1>8, <2>1, <2>3, <3>1
    <3>4. steps[2].on = c
      <4>1. StraightAt(host, fails, on, steps, 2)
        BY <1>4, <3>2
      <4> QED BY <3>2, <4>1 DEF StraightAt
    <3> QED BY <1>6, <3>2, <3>3, <3>4
  <2> QED BY <2>2, <2>3
<1> QED BY <1>13, <1>14 DEF Directed

\* A step that looks and does not touch leaves who is connected as it was.
LEMMA StillWhoWas ==
  ASSUME NEW h \in Hosts, NEW s \in Steps, NEW new \in Nat \ {0}, s.do = "snapshot",
         NEW h2 \in Does(h, s, new) \cup FailsWith(h, s, new), NEW p, NEW d,
         ~StillConnected(h, p, d)
  PROVE  ~StillConnected(h2, p, d)
<1>1. Moved(h, h2, s) /\ h2 \in Hosts
  BY StepType
<1>2. \A c \in Containers : /\ h2[c].here = h[c].here /\ h2[c].index = h[c].index
                            /\ h2[c].keys = h[c].keys
  <2>1. CASE h2 = h
    BY <2>1
  <2>2. ASSUME NEW y \in Boxes, h2 = [h EXCEPT ![s.on] = y], Differs(h[s.on], y, s.do),
               NEW c \in Containers
        PROVE  /\ h2[c].here = h[c].here /\ h2[c].index = h[c].index
               /\ h2[c].keys = h[c].keys
    <3>1. CASE s.on = c
      BY <2>2, <3>1, PutType DEF Differs
    <3>2. CASE s.on # c
      BY <2>2, <3>2 DEF Hosts
    <3> QED BY <3>1, <3>2
  <2> QED BY <1>1, <2>1, <2>2 DEF Moved
<1>3. \A c \in Containers : All(h2[c]) = All(h[c])
  BY <1>2 DEF All, FromConfig
<1> QED BY <1>2, <1>3 DEF StillConnected, Consumers

LEMMA StraightStep ==
  ASSUME NEW r \in Requests, Inv, Matching, Connecting, ~crossed,
         Walk(r) \/ Fail(r), ~(fails' > 1), work'[r] # Idle
  PROVE  Straight(host', fails', work'[r].on, work'[r].steps)
<1> DEFINE s == Step(r)
           steps == work[r].steps
           on == work[r].on
           t == work'[r].steps
<1>0. Typed /\ Labelled /\ Careful
  BY DEF Inv
<1>1. Busy(r)
  BY DEF Walk, Fail
<1>2. PICK more \in BOOLEAN : work' = [work EXCEPT ![r] = IF more THEN After(r) ELSE Idle]
  BY <1>0, Stepping
<1>3. /\ s \in Steps /\ s = steps[1] /\ 1 \in DOMAIN steps
      /\ work'[r].on = on /\ Len(t) = Len(steps) - 1
      /\ \A i \in DOMAIN t : /\ i \in Nat \ {0} /\ i + 1 \in DOMAIN steps
                             /\ t[i] = steps[i + 1]
  BY <1>0, <1>1, <1>2, Onward
<1>4. host \in Hosts /\ host' \in Hosts /\ New \in Nat \ {0}
  BY <1>0, Stepping, NewIsNew DEF Typed
<1>5. /\ host' \in Does(host, s, New) \cup FailsWith(host, s, New)
      /\ Walk(r) => host' \in Does(host, s, New)
      /\ Fail(r) => host' \in FailsWith(host, s, New)
      /\ Outcomes(r) = Does(host, s, New)
  BY DEF Walk, Fail, Outcomes, Failures
<1>6. /\ ~(fails > 1) /\ fails \in {0, 1} /\ fails' \in {0, 1}
      /\ fails # 0 => fails' = fails
      /\ fails' = fails => Walk(r) \/ (Fail(r) /\ Outcomes(r) = {})
  BY <1>0, Counting
<1>7. Fail(r) => s.optional
  BY <1>0 DEF Fail, Typed
<1>8. /\ steps \in Seq(Steps) /\ t \in Seq(Steps)
      /\ \A i \in DOMAIN steps : StraightAt(host, fails, on, steps, i)
      /\ \A i \in DOMAIN steps : SafeAt(host, gone, steps, i)
  BY <1>0, <1>6, Stepping DEF Connecting, Straight, Matching, Safe, Typed, Works
<1>9. \A i \in DOMAIN steps :
        /\ steps[i].do = "drop" =>
             IF work[r].walking THEN i = 1 ELSE i = 2 /\ steps[1].do = "snapshot"
  BY <1>0 DEF Careful
<1> HIDE DEF s, steps, t, on
<1>10. SUFFICES ASSUME NEW i \in DOMAIN t PROVE StraightAt(host', fails', on, t, i)
  BY <1>3 DEF Straight, t
<1> DEFINE u == t[i]
<1>11. /\ i \in Nat \ {0} /\ i + 1 \in DOMAIN steps /\ u = steps[i + 1] /\ u \in Steps
       /\ StraightAt(host, fails, on, steps, i + 1) /\ StraightAt(host, fails, on, steps, 1)
       /\ SafeAt(host, gone, steps, 1)
  BY <1>3, <1>8
<1>12. /\ i + 1 + 1 \in DOMAIN steps => i + 1 \in DOMAIN t /\ t[i + 1] = steps[i + 1 + 1]
       /\ i # 1 => i - 1 \in DOMAIN t /\ t[i - 1] = steps[i + 1 - 1]
       /\ i = 1 => steps[i + 1 - 1] = s /\ i + 1 # 1
       /\ i + 1 # 1
  <2>1. /\ DOMAIN t = 1..Len(t) /\ Len(t) \in Nat /\ DOMAIN steps = 1..Len(steps)
        /\ Len(steps) \in Nat
    BY <1>8
  <2>2. i + 1 + 1 \in DOMAIN steps => i + 1 \in DOMAIN t
    BY <1>3, <1>11, <2>1
  <2>3. i # 1 => i - 1 \in DOMAIN t /\ (i - 1) + 1 = (i + 1) - 1
    BY <1>3, <1>11, <2>1
  <2>4. i + 1 - 1 = i /\ i + 1 # 1
    BY <1>11
  <2>5. i + 1 + 1 \in DOMAIN steps => i + 1 \in DOMAIN t /\ t[i + 1] = steps[i + 1 + 1]
    BY <1>3, <2>2
  <2>6. i # 1 => i - 1 \in DOMAIN t /\ t[i - 1] = steps[i + 1 - 1]
    BY <1>3, <2>3
  <2>7. i = 1 => steps[i + 1 - 1] = s
    BY <1>3, <2>4
  <2> QED BY <2>4, <2>5, <2>6, <2>7
<1>13. u.do \in {"carry", "record", "index", "drop"} =>
         /\ u.on = on /\ on \in Containers
         /\ \A d \in Databases : d \in host'[on].index <=> d \in host[on].index
  <2>1. SUFFICES ASSUME u.do \in {"carry", "record", "index", "drop"}
                 PROVE  /\ u.on = on /\ on \in Containers
                        /\ \A d \in Databases : d \in host'[on].index <=> d \in host[on].index
    OBVIOUS
  <2>2. u.on = on /\ on \in Containers
    <3>1. u.on = on
      BY <1>11, <2>1 DEF StraightAt
    <3>2. u.on \in Containers
      BY <1>11, <2>1, StepFields DEF OfOne, OfTwo
    <3> QED BY <3>1, <3>2
  <2>3. s.do \notin {"delete", "index"}
    <3>1. s.do = "delete" => u.do \in OfHost
      BY <1>3, <1>11 DEF SafeAt
    <3>2. s.do = "index" => 1 = Len(steps)
      BY <1>3, <1>11 DEF SafeAt
    <3>3. i + 1 \in 1..Len(steps)
      BY <1>8, <1>11
    <3> QED BY <1>11, <2>1, <3>1, <3>2, <3>3 DEF OfHost
  <2>4. \A d \in Databases : Turns(host, host', s, on, d)
    BY <1>3, <1>4, <1>5, <2>2, Turning
  <2> QED BY <2>2, <2>3, <2>4 DEF Turns
<1>14. IF u.do \in {"grant", "revoke"} THEN u.arg = on ELSE u.on = on
  BY <1>11 DEF StraightAt
<1>15. ASSUME u.do = "carry"
       PROVE  /\ ~u.optional /\ u.db \notin host'[on].index
              /\ i + 1 \in DOMAIN t
              /\ t[i + 1].do = "record" /\ t[i + 1].db = u.db /\ t[i + 1].arg = u.arg
  <2>1. u.db \in Databases
    BY <1>11, <1>15, StepFields DEF OfTwo
  <2> QED BY <1>11, <1>12, <1>13, <1>15, <2>1 DEF StraightAt
<1>16. ASSUME u.do = "record"
       PROVE  /\ i + 1 \in DOMAIN t /\ t[i + 1].do = "index" /\ u.db \in t[i + 1].arg
              /\ Foreign(u.arg) =>
                   IF i = 1 THEN \/ host'[on].env[u.db].login = 0
                                 \/ host'[on].env[u.db].at \in {on, u.arg}
                   ELSE /\ t[i - 1].do = "carry" /\ t[i - 1].db = u.db
                        /\ t[i - 1].arg = u.arg
  <2>1. /\ i + 1 + 1 \in DOMAIN steps
        /\ steps[i + 1 + 1].do = "index" /\ u.db \in steps[i + 1 + 1].arg
        /\ Foreign(u.arg) => /\ steps[i + 1 - 1].do = "carry" /\ steps[i + 1 - 1].db = u.db
                             /\ steps[i + 1 - 1].arg = u.arg
    BY <1>11, <1>12, <1>16 DEF StraightAt
  <2>2. ASSUME i = 1, Foreign(u.arg) PROVE host'[on].env[u.db].at = u.arg
    <3>1. s.do = "carry" /\ s.db = u.db /\ s.arg = u.arg
      BY <1>12, <2>1, <2>2
    <3>2. s.on = on /\ ~s.optional
      BY <1>3, <1>11, <3>1 DEF StraightAt
    <3>3. host' \in Does(host, s, New)
      BY <1>5, <1>7, <3>2
    <3> QED BY <1>3, <1>4, <3>1, <3>2, <3>3, Finished
  <2> QED BY <1>12, <2>1, <2>2
<1>17. ASSUME u.do = "index"
       PROVE  \A d \in host'[on].index \ u.arg :
                IF i = 1 THEN fails' = 0 => ~Foreign(host'[on].keys[d])
                ELSE t[i - 1].do = "forget" /\ t[i - 1].db = d
  <2>1. SUFFICES ASSUME NEW d \in host'[on].index \ u.arg
                 PROVE  IF i = 1 THEN fails' = 0 => ~Foreign(host'[on].keys[d])
                        ELSE t[i - 1].do = "forget" /\ t[i - 1].db = d
    OBVIOUS
  <2>2. d \in Databases /\ d \in host[on].index \ u.arg
    BY <1>4, <1>13, <1>17, BoxFields
  <2>3. steps[i + 1 - 1].do = "forget" /\ steps[i + 1 - 1].db = d
    BY <1>11, <1>12, <1>17, <2>2 DEF StraightAt
  <2>4. ASSUME i = 1, fails' = 0 PROVE ~Foreign(host'[on].keys[d])
    <3>1. s.do = "forget" /\ s.db = d /\ fails' = fails
      BY <1>6, <1>12, <2>3, <2>4
    <3>2. s.on = on
      BY <1>3, <1>11, <3>1 DEF StraightAt
    <3>3. \/ host' \in Does(host, s, New)
          \/ host' = host /\ host[on] = Nothing
      BY <1>3, <1>4, <1>5, <1>6, <3>1, <3>2, Unable
    <3>4. Nothing.keys[d] = None
      BY <2>2 DEF Nothing, Blank
    <3>5. host'[on].keys[d] = None
      BY <1>3, <1>4, <3>1, <3>2, <3>3, <3>4, Finished
    <3> QED BY <3>5 DEF Foreign
  <2> QED BY <1>12, <2>3, <2>4
<1>18. ASSUME u.do = "drop" PROVE ~StillConnected(host', u.on, u.db)
  <2>1. s.do = "snapshot"
    BY <1>3, <1>9, <1>11, <1>12, <1>18
  <2>2. ~StillConnected(host, u.on, u.db)
    BY <1>11, <1>18 DEF StraightAt
  <2> QED BY <1>3, <1>4, <1>5, <2>1, <2>2, StillWhoWas
<1> QED BY <1>14, <1>15, <1>16, <1>17, <1>18 DEF StraightAt

\* Plans that touch no database, that make one known, and that take one away.
LEMMA PlainStraight ==
  ASSUME NEW h, NEW f, NEW on, NEW plan,
         \A i \in DOMAIN plan :
           /\ plan[i].do \in Orders \cup {"declare", "undeclare"}
           /\ plan[i].on = on
  PROVE  Straight(h, f, on, plan)
BY DEF Straight, StraightAt, Orders

\* Of a plan that makes a database known, what precedes its keys and its place in the
\* index is what these are about.
LEMMA MakingStraight ==
  ASSUME NEW h \in Hosts, NEW f, NEW c \in Containers, NEW d \in Databases, d \notin h[c].index,
         NEW n \in {1, 3}, NEW location, NEW index, index = h[c].index \cup {d},
         NEW plan \in Seq(Steps), Len(plan) = n + 1,
         Fields(plan[n], "record", c, d, location, FALSE),
         Fields(plan[n + 1], "index", c, None, index, FALSE),
         n = 3 => \/ /\ plan[1].do = "snapshot" /\ plan[1].on = c
                     /\ plan[2].do = "create" /\ plan[2].on = c
                     /\ ~Foreign(location)
                  \/ /\ plan[1].do = "grant" /\ plan[1].arg = c
                     /\ Fields(plan[2], "carry", c, d, location, FALSE),
         n = 1 => ~Foreign(location)
  PROVE  Straight(h, f, c, plan)
<1>1. DOMAIN plan = 1..n + 1 /\ h[c].index \ index = {}
  OBVIOUS
<1>2. StraightAt(h, f, c, plan, n + 1)
  BY <1>1 DEF StraightAt, Fields
<1>3. StraightAt(h, f, c, plan, n)
  <2>1. n + 1 \in DOMAIN plan /\ (n = 3 => n - 1 = 2) /\ d \in index
    BY <1>1
  <2> QED BY <2>1 DEF StraightAt, Fields
<1>4. ASSUME n = 3 PROVE StraightAt(h, f, c, plan, 1) /\ StraightAt(h, f, c, plan, 2)
  <2>1. 2 + 1 = n /\ 2 + 1 \in DOMAIN plan
    BY <1>1, <1>4
  <2>2. StraightAt(h, f, c, plan, 1)
    BY <1>4 DEF StraightAt
  <2>3. StraightAt(h, f, c, plan, 2)
    BY <1>4, <2>1 DEF StraightAt, Fields
  <2> QED BY <2>2, <2>3
<1>5. \A i \in DOMAIN plan : i = n + 1 \/ i = n \/ (n = 3 /\ i \in {1, 2})
  BY <1>1
<1> QED BY <1>2, <1>3, <1>4, <1>5 DEF Straight

LEMMA TakingStraight ==
  ASSUME NEW h, NEW f, NEW c, NEW d, NEW plan \in Seq(Steps),
         NEW n \in {2, 4, 5}, Len(plan) = n,
         plan[n - 1].do = "forget" /\ plan[n - 1].on = c /\ plan[n - 1].db = d,
         plan[n].do = "index" /\ plan[n].on = c /\ plan[n].arg = h[c].index \ {d},
         \A i \in DOMAIN plan : i < n - 1 =>
           \/ plan[i].do \in {"snapshot", "unenv"} /\ plan[i].on = c
           \/ plan[i].do = "revoke" /\ plan[i].arg = c
           \/ plan[i].do = "drop" /\ plan[i].on = c /\ ~StillConnected(h, c, plan[i].db)
  PROVE  Straight(h, f, c, plan)
<1>1. DOMAIN plan = 1..n /\ n # 1
  OBVIOUS
<1>2. StraightAt(h, f, c, plan, n)
  BY <1>1 DEF StraightAt
<1>3. StraightAt(h, f, c, plan, n - 1)
  BY DEF StraightAt
<1>4. ASSUME NEW i \in DOMAIN plan, i < n - 1 PROVE StraightAt(h, f, c, plan, i)
  BY <1>4 DEF StraightAt
<1>5. \A i \in DOMAIN plan : i = n \/ i = n - 1 \/ i < n - 1
  BY <1>1
<1> QED BY <1>2, <1>3, <1>4, <1>5 DEF Straight

\* What is asked for relies on nothing that is not so.
LEMMA AskingStraight ==
  ASSUME NEW r \in Requests, Typed, AskAnything(r)
  PROVE  Straight(host, fails, work'[r].on, work'[r].steps)
<1> DEFINE Fine == Straight(host, fails, work'[r].on, work'[r].steps)
<1>0. host \in Hosts /\ work \in [Requests -> Works]
  BY DEF Typed
<1>1. ASSUME NEW kind, NEW c, NEW turn, NEW plan, Ask(r, kind, c, turn, plan)
      PROVE  work'[r].steps = plan /\ work'[r].on = c
  BY <1>0, <1>1 DEF Ask
<1>2. ASSUME NEW kind, NEW c \in Containers \cup {None}, NEW turn,
             NEW do \in Orders \cup {"declare", "undeclare"},
             NEW arg \in Args, Given(do, c, None, arg),
             Ask(r, kind, c, turn, <<Run(do, c, None, arg)>>)
      PROVE  Fine
  <2> DEFINE plan == <<Run(do, c, None, arg)>>
  <2>1. plan \in Seq(Steps) /\ Len(plan) = 1 /\ Fields(plan[1], do, c, None, arg, FALSE)
    BY <1>2, Single DEF Commands
  <2>2. work'[r].steps = plan /\ work'[r].on = c
    BY <1>1, <1>2
  <2> HIDE DEF plan
  <2>3. \A i \in DOMAIN plan : plan[i].do \in Orders \cup {"declare", "undeclare"}
                               /\ plan[i].on = c
    BY <2>1 DEF Fields
  <2> QED BY <2>2, <2>3, PlainStraight
<1>3. ASSUME NEW c \in Containers, AskDestroy(r, c) PROVE Fine
  <2>1. Ask(r, "destroy", c, TRUE, <<Run("delete", c, None, None)>>)
    BY <1>3 DEF AskDestroy, DeletePlan
  <2>2. Given("delete", c, None, None) /\ "delete" \in Orders
    BY DEF Given, Orders, OfOne, OfTwo
  <2> QED BY <1>2, <2>1, <2>2, ArgTypes
<1>4. ASSUME NEW c \in Containers, NEW p \in Projects \cup {None}, AskCreate(r, c, p)
      PROVE  Fine
  <2>1. PICK n \in AllocateAddress(host) : Ask(r, "create", c, FALSE, CreatePlan(c, n, p))
    BY <1>4 DEF AskCreate
  <2>2. n \in 0..Addresses
    BY <2>1, MachinesAssumption DEF AllocateAddress, Free
  <2> DEFINE plan == CreatePlan(c, n, p)
  <2>3. work'[r].steps = plan /\ work'[r].on = c
    BY <1>1, <2>1
  <2>4. \A i \in DOMAIN plan : plan[i].do \in Orders /\ plan[i].on = c
    <3>1. CASE p = None
      <4>1. /\ plan \in Seq(Steps) /\ Len(plan) = 3
            /\ Fields(plan[1], "init", c, None, None, FALSE)
            /\ Fields(plan[2], "pin", c, None, n, FALSE)
            /\ Fields(plan[3], "start", c, None, None, FALSE)
        BY <2>2, <3>1, CreateSteps
      <4> HIDE DEF plan
      <4> QED BY <4>1 DEF Fields, Orders
    <3>2. CASE p # None
      <4>1. /\ plan \in Seq(Steps) /\ Len(plan) = 4
            /\ Fields(plan[1], "init", c, None, None, FALSE)
            /\ Fields(plan[2], "pin", c, None, n, FALSE)
            /\ Fields(plan[3], "assign", c, None, p, FALSE)
            /\ Fields(plan[4], "start", c, None, None, FALSE)
        BY <2>2, <3>2, CreateSteps
      <4> HIDE DEF plan
      <4> QED BY <4>1 DEF Fields, Orders
    <3> QED BY <3>1, <3>2
  <2> HIDE DEF plan
  <2> QED BY <2>3, <2>4, PlainStraight
<1>5. ASSUME NEW c \in Containers, NEW p \in Projects \cup {None}, AskAssign(r, c, p)
      PROVE  Fine
  <2>1. Ask(r, "assign", c, FALSE, <<Run("assign", c, None, p)>>)
    BY <1>5 DEF AskAssign
  <2>2. p \in Args /\ Given("assign", c, None, p) /\ "assign" \in Orders
    BY ArgTypes DEF Given, Orders, OfOne, OfTwo
  <2> QED BY <1>2, <2>1, <2>2
<1>6. ASSUME NEW c \in Containers, NEW stop \in BOOLEAN, AskPower(r, c, stop)
      PROVE  Fine
  <2> DEFINE do == IF stop THEN "stop" ELSE "start"
  <2>1. Ask(r, "power", c, TRUE, <<Run(do, c, None, None)>>)
    BY <1>6 DEF AskPower, PowerPlan
  <2>2. do \in {"stop", "start"}
    OBVIOUS
  <2> HIDE DEF do
  <2>3. Given(do, c, None, None) /\ do \in Orders
    BY <2>2 DEF Given, Orders, OfOne, OfTwo
  <2> QED BY <1>2, <2>1, <2>3, ArgTypes
<1>7. ASSUME NEW p \in Projects, AskDeclare(r, p) \/ AskRemoveProject(r, p)
      PROVE  Fine
  <2>1. PICK do \in {"declare", "undeclare"} :
          Ask(r, do, None, FALSE, <<Run(do, None, None, p)>>)
    BY <1>7 DEF AskDeclare, AskRemoveProject
  <2>2. p \in Args /\ Given(do, None, None, p)
    BY <2>1, ArgTypes DEF Given, Orders, OfOne, OfTwo
  <2> QED BY <1>2, <2>1, <2>2
<1>8. ASSUME NEW c \in Containers, NEW d \in Databases, AskProvision(r, c, d)
      PROVE  Fine
  <2> DEFINE index == host[c].index \cup {d}
             plan == ProvisionPlan(c, d, index)
  <2>1. index \in SUBSET Databases
    BY <1>0, BoxFields
  <2>2. work'[r].steps = plan /\ work'[r].on = c /\ d \notin host[c].index
    BY <1>1, <1>8 DEF AskProvision, CanProvision, ProvisionDatabase
  <2>3. index = host[c].index \cup {d} /\ ~Foreign(Here)
    BY DEF Foreign
  <2> HIDE DEF index
  <2>4. /\ plan \in Seq(Steps) /\ Len(plan) = 4
        /\ Fields(plan[1], "snapshot", c, None, None, FALSE)
        /\ Fields(plan[2], "create", c, d, None, FALSE)
        /\ Fields(plan[3], "record", c, d, Here, FALSE)
        /\ Fields(plan[4], "index", c, None, index, FALSE)
    BY <2>1, ProvisionSteps
  <2> HIDE DEF plan
  <2> DEFINE n == 3
  <2>5. /\ n \in {1, 3} /\ n + 1 = 4 /\ n = 3 /\ n # 1
        /\ plan[1].do = "snapshot" /\ plan[1].on = c
        /\ plan[2].do = "create" /\ plan[2].on = c
    BY <2>4 DEF Fields
  <2> HIDE DEF n
  <2>6. Straight(host, fails, c, plan)
    BY <1>0, <2>2, <2>3, <2>4, <2>5, MakingStraight
  <2> QED BY <2>2, <2>6
<1>9. ASSUME NEW c \in Containers, NEW d \in Databases, AskAdopt(r, c, d)
      PROVE  Fine
  <2> DEFINE index == host[c].index \cup {d}
             plan == AdoptPlan(c, d, index)
  <2>1. index \in SUBSET Databases
    BY <1>0, BoxFields
  <2>2. work'[r].steps = plan /\ work'[r].on = c /\ d \notin host[c].index
    BY <1>1, <1>9 DEF AskAdopt, CanAdopt, AdoptDatabase
  <2>3. index = host[c].index \cup {d} /\ ~Foreign(Adopted)
    BY DEF Foreign
  <2> HIDE DEF index
  <2>4. /\ plan \in Seq(Steps) /\ Len(plan) = 2
        /\ Fields(plan[1], "record", c, d, Adopted, FALSE)
        /\ Fields(plan[2], "index", c, None, index, FALSE)
    BY <2>1, AdoptSteps
  <2> HIDE DEF plan
  <2> DEFINE n == 1
  <2>5. n \in {1, 3} /\ n + 1 = 2 /\ n = 1 /\ n # 3
    OBVIOUS
  <2> HIDE DEF n
  <2>6. Straight(host, fails, c, plan)
    BY <1>0, <2>2, <2>3, <2>4, <2>5, MakingStraight
  <2> QED BY <2>2, <2>6
<1>10. ASSUME NEW c \in Containers, NEW p \in Containers, NEW d \in Databases, AskShare(r, c, p, d)
       PROVE  Fine
  <2> DEFINE index == host[c].index \cup {d}
             plan == SharePlan(c, p, d, index)
  <2>1. index \in SUBSET Databases
    BY <1>0, BoxFields
  <2>2. work'[r].steps = plan /\ work'[r].on = c /\ d \notin host[c].index
    BY <1>1, <1>10 DEF AskShare, CanShare, ShareDatabase
  <2>3. index = host[c].index \cup {d}
    OBVIOUS
  <2> HIDE DEF index
  <2>4. /\ plan \in Seq(Steps) /\ Len(plan) = 4
        /\ Fields(plan[1], "grant", p, d, c, FALSE)
        /\ Fields(plan[2], "carry", c, d, p, FALSE)
        /\ Fields(plan[3], "record", c, d, p, FALSE)
        /\ Fields(plan[4], "index", c, None, index, FALSE)
    BY <2>1, ShareSteps
  <2> HIDE DEF plan
  <2> DEFINE n == 3
  <2>5. /\ n \in {1, 3} /\ n + 1 = 4 /\ n = 3 /\ n # 1
        /\ plan[1].do = "grant" /\ plan[1].arg = c
    BY <2>4 DEF Fields
  <2> HIDE DEF n
  <2>6. Straight(host, fails, c, plan)
    BY <1>0, <2>2, <2>3, <2>4, <2>5, MakingStraight
  <2> QED BY <2>2, <2>6
<1>11. ASSUME NEW c \in Containers, NEW d \in Databases, AskLetGo(r, c, d)
       PROVE  Fine
  <2> DEFINE p == host[c].keys[d]
             index == host[c].index \ {d}
             plan == RevokePlan(c, p, d, index)
  <2>1. index \in SUBSET Databases
    BY <1>0, BoxFields
  <2>2. p \in Containers
    <3>1. host[c].keys[d] \in Locations
      BY <1>0, BoxFields
    <3> QED BY <1>11, <3>1 DEF AskLetGo, CanDestroy, All, FromConfig, Local, Locations
  <2>3. work'[r].steps = plan /\ work'[r].on = c
    BY <1>1, <1>11 DEF AskLetGo
  <2>4. index = host[c].index \ {d}
    OBVIOUS
  <2> HIDE DEF index, p
  <2>5. /\ plan \in Seq(Steps) /\ Len(plan) = 4
        /\ Fields(plan[1], "revoke", p, d, c, TRUE)
        /\ Fields(plan[2], "unenv", c, d, None, FALSE)
        /\ Fields(plan[3], "forget", c, d, None, TRUE)
        /\ Fields(plan[4], "index", c, None, index, index = {})
    BY <2>1, <2>2, RevokeSteps
  <2> HIDE DEF plan
  <2> DEFINE n == 4
  <2>6. /\ n \in {2, 4, 5} /\ n = 4 /\ n - 1 = 3
        /\ \A i \in DOMAIN plan : i < n - 1 =>
             \/ plan[i].do = "unenv" /\ plan[i].on = c
             \/ plan[i].do = "revoke" /\ plan[i].arg = c
    BY <2>5 DEF Fields
  <2>7. /\ plan[n - 1].do = "forget" /\ plan[n - 1].on = c /\ plan[n - 1].db = d
        /\ plan[n].do = "index" /\ plan[n].on = c /\ plan[n].arg = host[c].index \ {d}
        /\ Len(plan) = n
    BY <2>4, <2>5, <2>6 DEF Fields
  <2> HIDE DEF n
  <2>8. Straight(host, fails, c, plan)
    BY <2>5, <2>6, <2>7, TakingStraight
  <2> QED BY <2>3, <2>8
<1>12. ASSUME NEW c \in Containers, NEW d \in Databases, AskRemoveOwn(r, c, d)
       PROVE  Fine
  <2> DEFINE index == host[c].index \ {d}
  <2>1. index \in SUBSET Databases
    BY <1>0, BoxFields
  <2>2. /\ work'[r].steps = DestroyDatabasePlan(c, d) /\ work'[r].on = c
        /\ ~StillConnected(host, c, d)
    BY <1>1, <1>12 DEF AskRemoveOwn
  <2>3. index = host[c].index \ {d}
    OBVIOUS
  <2>4. CASE host[c].keys[d] = Adopted
    <3> DEFINE plan == Forget(c, d, index)
    <3>1. work'[r].steps = plan
      BY <2>2, <2>4 DEF DestroyDatabasePlan, ReleasePlan
    <3> HIDE DEF index
    <3>3. /\ plan \in Seq(Steps) /\ Len(plan) = 2
          /\ Fields(plan[1], "forget", c, d, None, TRUE)
          /\ Fields(plan[2], "index", c, None, index, index = {})
      BY <2>1, ForgetSteps
    <3> HIDE DEF plan
    <3> DEFINE n == 2
    <3>4. n \in {2, 4, 5} /\ n = 2 /\ n - 1 = 1 /\ \A i \in DOMAIN plan : ~(i < n - 1)
      BY <3>3
    <3> HIDE DEF n
    <3>5. /\ plan[n - 1].do = "forget" /\ plan[n - 1].on = c /\ plan[n - 1].db = d
          /\ plan[n].do = "index" /\ plan[n].on = c /\ plan[n].arg = host[c].index \ {d}
          /\ Len(plan) = n
      BY <2>3, <3>3, <3>4 DEF Fields
    <3>6. Straight(host, fails, c, plan)
      BY <3>3, <3>4, <3>5, TakingStraight
    <3> QED BY <2>2, <3>1, <3>6
  <2>5. CASE host[c].keys[d] # Adopted
    <3> DEFINE plan == DestroyPlan(c, d, index)
    <3>1. work'[r].steps = plan
      BY <2>2, <2>5 DEF DestroyDatabasePlan
    <3> HIDE DEF index
    <3>2. CASE Credentialed(d)
      <4>1. /\ plan \in Seq(Steps) /\ Len(plan) = 5
            /\ Fields(plan[1], "snapshot", c, None, None, FALSE)
            /\ Fields(plan[2], "drop", c, d, None, FALSE)
            /\ Fields(plan[3], "unenv", c, d, None, FALSE)
            /\ Fields(plan[4], "forget", c, d, None, TRUE)
            /\ Fields(plan[5], "index", c, None, index, index = {})
        BY <2>1, <3>2, DestroySteps
      <4> HIDE DEF plan
      <4> DEFINE n == 5
      <4>2. /\ n \in {2, 4, 5} /\ n = 5 /\ n - 1 = 4
            /\ \A i \in DOMAIN plan : i < n - 1 =>
                 \/ plan[i].do \in {"snapshot", "unenv"} /\ plan[i].on = c
                 \/ plan[i].do = "drop" /\ plan[i].on = c /\ plan[i].db = d
        BY <4>1 DEF Fields
      <4> HIDE DEF n
      <4>3. /\ plan[n - 1].do = "forget" /\ plan[n - 1].on = c /\ plan[n - 1].db = d
            /\ plan[n].do = "index" /\ plan[n].on = c /\ plan[n].arg = host[c].index \ {d}
            /\ Len(plan) = n
        BY <2>3, <4>1, <4>2 DEF Fields
      <4>4. Straight(host, fails, c, plan)
        BY <2>2, <4>1, <4>2, <4>3, TakingStraight
      <4> QED BY <2>2, <3>1, <4>4
    <3>3. CASE ~Credentialed(d)
      <4>1. /\ plan \in Seq(Steps) /\ Len(plan) = 4
            /\ Fields(plan[1], "snapshot", c, None, None, FALSE)
            /\ Fields(plan[2], "unenv", c, d, None, FALSE)
            /\ Fields(plan[3], "forget", c, d, None, TRUE)
            /\ Fields(plan[4], "index", c, None, index, index = {})
        BY <2>1, <3>3, DestroySteps
      <4> HIDE DEF plan
      <4> DEFINE n == 4
      <4>2. /\ n \in {2, 4, 5} /\ n = 4 /\ n - 1 = 3
            /\ \A i \in DOMAIN plan : i < n - 1 =>
                 plan[i].do \in {"snapshot", "unenv"} /\ plan[i].on = c
        BY <4>1 DEF Fields
      <4> HIDE DEF n
      <4>3. /\ plan[n - 1].do = "forget" /\ plan[n - 1].on = c /\ plan[n - 1].db = d
            /\ plan[n].do = "index" /\ plan[n].on = c /\ plan[n].arg = host[c].index \ {d}
            /\ Len(plan) = n
        BY <2>3, <4>1, <4>2 DEF Fields
      <4>4. Straight(host, fails, c, plan)
        BY <4>1, <4>2, <4>3, TakingStraight
      <4> QED BY <2>2, <3>1, <4>4
    <3> QED BY <3>2, <3>3
  <2> QED BY <2>4, <2>5
<1> QED BY <1>3, <1>4, <1>5, <1>6, <1>7, <1>8, <1>9, <1>10, <1>11, <1>12 DEF AskAnything

LEMMA NobodyConnected == Init => Connecting
<1> SUFFICES ASSUME Init PROVE Connecting
  OBVIOUS
<1>1. host = InitialHost /\ \A r \in Requests : work[r].steps = <<>>
  BY IdleType DEF Init
<1>2. ASSUME NEW c \in Containers, NEW d \in Databases
      PROVE  host[c].env[d].login = 0 /\ ~Foreign(host[c].keys[d])
  <2>1. /\ Blank.env[d] = NoEnv /\ Nothing.env = Blank.env
        /\ Blank.keys[d] = None /\ Nothing.keys = Blank.keys
    BY DEF Blank, Nothing
  <2>2. host[c].env = Blank.env /\ host[c].keys = Blank.keys
    <3>1. CASE c \notin Present
      BY <1>1, <2>1, <3>1 DEF InitialHost
    <3>2. CASE c \in Present
      BY <1>1, <3>2 DEF InitialHost, Blank
    <3> QED BY <3>1, <3>2
  <2> QED BY <2>1, <2>2 DEF NoEnv, Foreign
<1> QED BY <1>1, <1>2 DEF Connecting, Directed, Straight

LEMMA KeepsConnecting ==
  ASSUME Inv, Matching, Connecting, [Next]_vars
  PROVE  Connecting'
<1>0. Typed /\ Labelled /\ fails \in Nat
  BY ContainersAssumption DEF Inv, Typed
<1>1. SUFFICES ASSUME ~crossed', ~(fails' > 1) PROVE Connecting'
  BY DEF Connecting
<1>2. CASE UNCHANGED vars
  <2>1. host' = host /\ fails' = fails /\ work' = work /\ crossed' = crossed
    BY <1>2 DEF vars
  <2>2. Ahead' = Ahead
    BY <2>1 DEF Ahead, Busy, Step
  <2> QED BY <2>1, <2>2 DEF Connecting
<1>3. CASE Restart
  <2>1. /\ host' = host /\ crossed' = crossed /\ fails = 0 /\ fails' = 1
        /\ \A r \in Requests : work'[r].steps = <<>>
    BY <1>0, <1>1, <1>3, IdleType DEF Restart
  <2>2. ~crossed /\ ~(fails > 1)
    BY <1>1, <2>1
  <2>3. ASSUME NEW c \in Containers, NEW d \in Databases
        PROVE  Directed(host', fails', Ahead', c, d)
    <3>1. Directed(host, 0, Ahead, c, d)
      BY <2>1, <2>2 DEF Connecting
    <3> QED BY <2>1, <3>1 DEF Directed
  <2> QED BY <2>1, <2>3 DEF Connecting, Straight
<1>4. ASSUME NEW r \in Requests, AskAnything(r) PROVE Connecting'
  <2>1. PICK kind \in Kinds \cup {"letgo"}, c \in Containers \cup {None}, turn \in BOOLEAN,
             plan \in Seq(Steps) : Ask(r, kind, c, turn, plan)
    BY <1>0, <1>4, AskingType DEF Asks
  <2>2. /\ ~crossed /\ host' = host /\ fails' = fails /\ ~Busy(r)
        /\ \A q \in Requests \ {r} : work'[q] = work[q]
    BY <1>0, <1>1, <2>1 DEF Ask, Typed
  <2>3. Straight(host, fails, work'[r].on, work'[r].steps)
    BY <1>0, <1>4, AskingStraight
  <2>4. /\ \A e \in Containers, d \in Databases : Directed(host, fails, Ahead, e, d)
        /\ \A q \in Requests : Straight(host, fails, work[q].on, work[q].steps)
    BY <1>1, <2>2 DEF Connecting
  <2>5. \A q \in Requests : Straight(host', fails', work'[q].on, work'[q].steps)
    BY <2>2, <2>3, <2>4
  <2>6. Ahead \subseteq Ahead'
    <3>1. ASSUME NEW q \in Requests, Busy(q) PROVE Step(q) \in Ahead'
      <4>1. work'[q] = work[q]
        BY <2>2, <3>1
      <4>2. Busy(q)' /\ Step(q)' = Step(q)
        BY <3>1, <4>1 DEF Busy, Step
      <4> QED BY <4>2 DEF Ahead
    <3> QED BY <3>1 DEF Ahead
  <2>7. ASSUME NEW e \in Containers, NEW d \in Databases
        PROVE  Directed(host', fails', Ahead', e, d)
    <3>1. Directed(host, fails, Ahead, e, d)
      BY <2>4
    <3> QED BY <2>2, <2>6, <3>1 DEF Directed
  <2> QED BY <2>5, <2>7 DEF Connecting
<1>5. ASSUME NEW r \in Requests, Walk(r) \/ Fail(r) PROVE Connecting'
  <2>1. /\ ~crossed /\ Busy(r) /\ \A q \in Requests \ {r} : work'[q] = work[q]
    <3>1. crossed' = crossed /\ Busy(r)
      BY <1>5 DEF Walk, Fail
    <3>2. \A q \in Requests \ {r} : work'[q] = work[q]
      BY <1>0, <1>5, <3>1, Stepping, Onward
    <3> QED BY <1>1, <3>1, <3>2
  <2>2. \A q \in Requests \ {r} : work'[q].steps = <<>>
    BY <1>0, <2>1 DEF Labelled, Busy
  <2>3. Straight(host', fails', work'[r].on, work'[r].steps)
    <3>1. CASE work'[r] = Idle
      BY <3>1, IdleType DEF Straight
    <3>2. CASE work'[r] # Idle
      BY <1>1, <1>5, <2>1, <3>2, StraightStep
    <3> QED BY <3>1, <3>2
  <2>4. \A q \in Requests : Straight(host', fails', work'[q].on, work'[q].steps)
    BY <2>2, <2>3 DEF Straight
  <2>5. \A c \in Containers, d \in Databases : Directed(host', fails', Ahead', c, d)
    BY <1>0, <1>1, <1>5, <2>1, DirectedStep
  <2> QED BY <2>4, <2>5 DEF Connecting
<1> QED BY <1>2, <1>3, <1>4, <1>5 DEF Next

\* A step that takes a connection away is of the request of the container that has it.
LEMMA TakesOnlyItsOwn ==
  ASSUME NEW r \in Requests, Inv, Matching, Connecting, ~crossed, fails < 2,
         Walk(r) \/ Fail(r), Step(r).do # "delete",
         NEW c \in Containers, NEW d \in Databases, Reaches(host, c, d), work[r].on # c
  PROVE  Reaches(host', c, d)
<1> DEFINE s == Step(r)
           steps == work[r].steps
           on == work[r].on
           e == host[c].env[d]
           k == host[c].keys[d]
           p == e.at
<1>0. Typed /\ Labelled /\ fails \in Nat
  BY ContainersAssumption DEF Inv, Typed
<1>1. /\ s \in Steps /\ s = steps[1] /\ 1 \in DOMAIN steps /\ Moved(host, host', s)
      /\ host \in Hosts /\ host' \in Hosts /\ New \in Nat \ {0}
  <2>1. Busy(r)
    BY DEF Walk, Fail
  <2> QED BY <1>0, <2>1, Stepping, Onward, NewIsNew DEF Typed
<1>2. host' \in Does(host, s, New) \cup FailsWith(host, s, New)
  BY DEF Walk, Fail, Outcomes, Failures
<1>3. /\ Directed(host, fails, Ahead, c, d) /\ Ahead = {s}
      /\ StraightAt(host, fails, on, steps, 1)
      /\ Matches(host, gone, c, d)
  <2>1. ~(fails > 1)
    BY <1>0
  <2> QED BY <1>0, <1>1, <2>1, OneAhead DEF Connecting, Straight, Matching
<1>4. /\ d \in All(host[c]) /\ e.login # 0 /\ ~Local(k) /\ host[p].data[d] # 0
      /\ host[p].logins[d][c] = e.login /\ p \in Containers
      /\ d \in host[c].index /\ k # None
  BY <1>3 DEF Reaches, Matches, All, FromConfig
<1>5. IF s.do \in {"grant", "revoke"} THEN s.arg = on ELSE s.on = on
  BY <1>1, <1>3 DEF StraightAt
<1> HIDE DEF s, steps, on
<1>6. on # c /\ s.do # "delete"
  BY DEF on, s
\* What the container itself has stays.
<1>7. /\ host'[c].here = host[c].here /\ host'[c].index = host[c].index
      /\ host'[c].keys = host[c].keys /\ host'[c].env = host[c].env
  <2>1. CASE host' = host
    BY <2>1
  <2>2. ASSUME NEW y \in Boxes, host' = [host EXCEPT ![s.on] = y], Differs(host[s.on], y, s.do)
        PROVE  /\ host'[c].here = host[c].here /\ host'[c].index = host[c].index
               /\ host'[c].keys = host[c].keys /\ host'[c].env = host[c].env
    <3>1. CASE s.on = c
      <4>1. s.do \in {"grant", "revoke"}
        BY <1>5, <1>6, <3>1
      <4> QED BY <1>1, <2>2, <3>1, <4>1, PutType DEF Differs
    <3>2. CASE s.on # c
      BY <1>1, <2>2, <3>2 DEF Hosts
    <3> QED BY <3>1, <3>2
  <2> QED BY <1>1, <2>1, <2>2 DEF Moved
\* Its login does.
<1>8. host'[p].logins[d][c] = e.login
  <2>1. Points(host, host', s, c, d)
    BY <1>1, <1>2, <1>6, PointByPoint
  <2>2. ~Loses(s, c, d)
    BY <1>5, <1>6 DEF Loses
  <2> QED BY <1>4, <2>1, <2>2 DEF Points
\* The data does: who connects to it is seen by whoever would drop it.
<1>9. host'[p].data[d] # 0
  <2>1. SUFFICES ASSUME host'[p].data[d] = 0 PROVE FALSE
    OBVIOUS
  <2>2. host'[p].here
    BY <1>1, <1>2, <1>4, <1>6, StaysHere
  <2>3. s.do = "drop" /\ s.on = p
    BY <1>1, <1>2, <1>4, <2>1, <2>2, OnlyDropLoses
  <2>4. s.db = d
    <3>1. SUFFICES ASSUME s.db # d PROVE FALSE
      OBVIOUS
    <3>2. d \in Databases \ {s.db}
      BY <3>1
    <3>3. host'[s.on].data[d] = host[s.on].data[d]
      BY <1>1, <1>2, <2>3, <3>2, DropsOnlyIts
    <3> QED BY <1>4, <2>1, <2>3, <3>3
  <2>5. p # c /\ ~StillConnected(host, p, d)
    BY <1>1, <1>3, <1>5, <1>6, <2>3, <2>4 DEF StraightAt
  <2>6. Foreign(k)
    BY <1>4 DEF Foreign, Local
  <2>7. p = k
    BY <1>3, <1>4, <2>3, <2>5, <2>6 DEF Directed
  <2>8. c \in Consumers(host, p, d)
    BY <1>4, <2>5, <2>7 DEF Consumers
  <2> QED BY <2>5, <2>8 DEF StillConnected
<1>10. All(host'[c]) = All(host[c])
  BY <1>7 DEF All, FromConfig
<1> QED BY <1>4, <1>7, <1>8, <1>9, <1>10 DEF Reaches

\* As long as requests come one at a time and no more than one step failed: but for a
\* container that is destroyed, nothing that is asked for takes away a connection of
\* another container than the one it is asked for. What is dropped is dropped with nobody
\* connected, for a connection is seen by the container it is to.
THEOREM OthersStayConnected == Spec => LeavesOthersConnected
<1> DEFINE Left(r, c, d) ==
      (/\ ~crossed /\ fails < 2
       /\ work'[r] # work[r] /\ Busy(r) /\ Step(r).do # "delete"
       /\ Reaches(host, c, d) /\ ~Reaches(host', c, d)) => work[r].on = c
<1>1. Init => Matching /\ Connecting
  BY NothingYet, NobodyConnected
<1>2. Inv /\ Matching /\ Connecting /\ [Next]_vars => Matching' /\ Connecting'
  BY KeepsMatching, KeepsConnecting
<1>3. ASSUME Inv, Matching, Connecting, [Next]_vars,
             NEW r \in Requests, NEW c \in Containers, NEW d \in Databases
      PROVE  Left(r, c, d)
  <2>1. CASE host' = host
    BY <2>1
  <2>2. ASSUME NEW q \in Requests, Walk(q) \/ Fail(q), ~crossed, Busy(r)
        PROVE  q = r
    BY <1>3, <2>2 DEF Inv, Labelled, Walk, Fail
  <2>3. CASE Walk(r) \/ Fail(r)
    BY <1>3, <2>3, TakesOnlyItsOwn
  <2>4. UNCHANGED vars \/ Restart \/ (\E q \in Requests : AskAnything(q)) => host' = host
    BY <1>3, Asked, Restarted DEF vars
  <2>5. \/ UNCHANGED vars \/ Restart \/ (\E q \in Requests : AskAnything(q))
        \/ \E q \in Requests : Walk(q) \/ Fail(q)
    BY <1>3 DEF Next
  <2> QED BY <2>1, <2>2, <2>3, <2>4, <2>5
<1>4. Inv /\ Matching /\ Connecting /\ [Next]_vars =>
        \A r \in Requests, c \in Containers, d \in Databases : Left(r, c, d)
  BY <1>3
<1> QED BY <1>1, <1>2, <1>4, Invariant, PTL DEF Spec, LeavesOthersConnected
================================================================================
