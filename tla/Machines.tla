-------------------------------- MODULE Machines --------------------------------
(****************************************************************************)
(* What croft keeps about a container and the databases inside it, and what the *)
(* commands of its plans do to them (internal/instance, internal/project,       *)
(* internal/database). Nothing here has state: a host is a function from the    *)
(* names of containers to what each one is, and a command gives the hosts it    *)
(* may leave behind, none of them when it cannot but fail.                      *)
(*                                                                          *)
(* A password and what a database holds are each a number, made once and never  *)
(* read: the number tells one from another. An engine with logins stands for    *)
(* postgres, the other for redis, which has none.                              *)
(****************************************************************************)
EXTENDS Integers, Sequences, FiniteSets

CONSTANTS
  Containers, \* names of containers
  Databases,  \* names of databases
  Projects,   \* names of projects
  Redis,      \* the databases whose engine has no logins
  Addresses   \* how many addresses the static range has

ASSUME MachinesAssumption ==
  /\ IsFiniteSet(Containers) /\ IsFiniteSet(Databases)
  /\ Redis \subseteq Databases
  /\ Addresses \in Nat

None == "none"
Here == "here"
Adopted == "adopted"

\* The three are not names of containers: a place that is none is an empty string in the
\* code, which no container can have for a name.
ASSUME PlacesAssumption == Containers \cap {None, Here, Adopted} = {}

\* Zero is no password, no data, no address.
NoEnv == [at |-> None, login |-> 0]

\* A container made just now, stopped, or one that is not there.
Blank ==
  [here |-> TRUE, up |-> FALSE, address |-> 0, project |-> None,
   index |-> {}, keys |-> [d \in Databases |-> None],
   data |-> [d \in Databases |-> 0],
   logins |-> [d \in Databases |-> [c \in Containers |-> 0]],
   env |-> [d \in Databases |-> NoEnv],
   kept |-> {}]
Nothing == [Blank EXCEPT !.here = FALSE]

----------------------------------------------------------------------------
(* Reading.                                                                 *)

\* FromConfig reads a database's own keys, whether the index lists it or not.
FromConfig(x, d) == IF x.here THEN x.keys[d] ELSE None

\* All skips what the index lists and no key describes.
All(x) == {d \in x.index : FromConfig(x, d) # None}

Local(location) == location \in {Here, Adopted}
Credentialed(d) == d \notin Redis

\* The listing of the runtime has an address for what runs.
Listed(x) == x.here /\ x.up

\* The first address of the range that nothing in the listing has.
Free(h) == {n \in 1..Addresses : \A c \in Containers : Listed(h[c]) => h[c].address # n}

AllocateAddress(h) == {n \in Free(h) : \A k \in Free(h) : n <= k}

Consumers(h, p, d) == {c \in Containers \ {p} : d \in All(h[c]) /\ h[c].keys[d] = p}

\* What is running in a container and croft has no note of.
Unrecorded(x) ==
  {d \in Databases : x.data[d] # 0 /\ ~(d \in All(x) /\ Local(x.keys[d]))}

----------------------------------------------------------------------------
(* What is refused.                                                         *)

\* One engine of a kind in a container: each would claim the same variable.
EngineTaken(x, d) == \E e \in All(x) : Credentialed(e) = Credentialed(d)

ProvisionDatabase(x, d) == d \notin x.index /\ ~EngineTaken(x, d)
CanProvision(x, d) == x.here /\ ProvisionDatabase(x, d)

\* Inside one project, from the container that has the data itself.
ShareDatabase(h, c, p, d) ==
  /\ c # p /\ h[c].project # None /\ h[c].project = h[p].project
  /\ Local(FromConfig(h[p], d)) /\ Credentialed(d)
  /\ d \notin h[c].index /\ ~EngineTaken(h[c], d)
CanShare(h, c, p, d) == Listed(h[c]) /\ Listed(h[p]) /\ ShareDatabase(h, c, p, d)

AdoptDatabase(x, d) == d \in Unrecorded(x) /\ d \notin x.index
CanAdopt(x, d) == Listed(x) /\ AdoptDatabase(x, d)

CanDestroy(x, d) == d \in All(x)

\* Mutant: nobody is asked.
StillConnectedNot(h, p, d) == FALSE
StillConnected(h, p, d) == Consumers(h, p, d) # {}

----------------------------------------------------------------------------
(* Plans: what to run, on which container, for which database, with what.      *)

Run(do, c, d, arg) == [do |-> do, on |-> c, db |-> d, arg |-> arg, optional |-> FALSE]
Optional(step) == [step EXCEPT !.optional = TRUE]

CreatePlan(c, address, project) ==
  <<Run("init", c, None, None), Run("pin", c, None, address)>>
  \o (IF project = None THEN <<>> ELSE <<Run("assign", c, None, project)>>)
  \o <<Run("start", c, None, None)>>

DeletePlan(c) == <<Run("delete", c, None, None)>>
PowerPlan(c, stop) == <<Run(IF stop THEN "stop" ELSE "start", c, None, None)>>

Record(c, d, location, index) ==
  <<Run("record", c, d, location), Run("index", c, None, index)>>

ProvisionPlan(c, d, index) ==
  <<Run("snapshot", c, None, None), Run("create", c, d, None)>> \o Record(c, d, Here, index)

AdoptPlan(c, d, index) == Record(c, d, Adopted, index)

SharePlan(c, p, d, index) ==
  <<Run("grant", p, d, c), Run("carry", c, d, p)>> \o Record(c, d, p, index)

\* The index is emptied by a step that may fail, and written by one that may not.
Forget(c, d, remaining) ==
  LET write == Run("index", c, None, remaining) IN
  <<Optional(Run("forget", c, d, None)), IF remaining = {} THEN Optional(write) ELSE write>>

ReleasePlan(c, d, remaining) == Forget(c, d, remaining)

\* Mutant: the data goes whether or not there is a snapshot of it.
DestroyPlanAnyway(c, d, remaining) ==
  <<Optional(Run("snapshot", c, None, None)), Run("drop", c, d, None), Run("unenv", c, d, None)>>
  \o Forget(c, d, remaining)

DestroyPlan(c, d, remaining) ==
  <<Run("snapshot", c, None, None)>>
  \o (IF Credentialed(d) THEN <<Run("drop", c, d, None)>> ELSE <<>>)
  \o <<Run("unenv", c, d, None)>> \o Forget(c, d, remaining)

\* Mutant: what the provider does not do keeps the consumer from forgetting it.
RevokePlanStrict(c, p, d, remaining) ==
  <<Run("revoke", p, d, c), Run("unenv", c, d, None)>> \o Forget(c, d, remaining)

RevokePlan(c, p, d, remaining) ==
  <<Optional(Run("revoke", p, d, c)), Run("unenv", c, d, None)>> \o Forget(c, d, remaining)

----------------------------------------------------------------------------
(* What the commands do.                                                    *)

When(able, h) == IF able THEN {h} ELSE {}

InitContainer(h, c) == When(~h[c].here, [h EXCEPT ![c] = Blank])
Delete(h, c) == When(h[c].here, [h EXCEPT ![c] = Nothing])
Pin(h, c, n) == When(h[c].here, [h EXCEPT ![c].address = n])
Assign(h, c, p) == When(h[c].here, [h EXCEPT ![c].project = p])
Power(h, c, up) == When(h[c].here /\ h[c].up # up, [h EXCEPT ![c].up = up])

Snapshot(h, c) ==
  When(h[c].here, [h EXCEPT ![c].kept = @ \cup ({h[c].data[d] : d \in Databases} \ {0})])

\* The user, the database and the credentials in one go; new is what is made. An
\* engine refuses a user that it has already.
CreateDatabase(h, c, d, new) ==
  IF Credentialed(d)
  THEN When(Listed(h[c]) /\ h[c].data[d] = 0 /\ h[c].logins[d][c] = 0,
            [h EXCEPT ![c].data[d] = new, ![c].logins[d][c] = new,
                      ![c].env[d] = [at |-> c, login |-> new]])
  ELSE When(Listed(h[c]),
            [h EXCEPT ![c].data[d] = IF @ = 0 THEN new ELSE @, ![c].env[d] = [at |-> c, login |-> 0]])

\* Of a creation that failed: the user alone, or the two and no credentials.
CreateHalf(h, c, d, new) ==
  IF Listed(h[c]) /\ Credentialed(d) /\ h[c].logins[d][c] = 0
  THEN {[h EXCEPT ![c].logins[d][c] = new]}
       \cup When(h[c].data[d] = 0, [h EXCEPT ![c].logins[d][c] = new, ![c].data[d] = new])
  ELSE {}

DropDatabase(h, c, d) ==
  When(Listed(h[c]), [h EXCEPT ![c].data[d] = 0, ![c].logins[d][c] = 0])

\* The user stays when it cannot be dropped.
DropHalf(h, c, d) == When(Listed(h[c]), [h EXCEPT ![c].data[d] = 0])

\* Mutant: a login that is there gets a new password.
GrantAnyway(h, p, d, c, new) ==
  When(Listed(h[p]) /\ h[p].logins[d][p] # 0, [h EXCEPT ![p].logins[d][c] = new])

\* A member of the owner's role, which has to be there.
Grant(h, p, d, c, new) ==
  When(Listed(h[p]) /\ h[p].logins[d][p] # 0 /\ h[p].logins[d][c] = 0,
       [h EXCEPT ![p].logins[d][c] = new])

\* From the file the provider left, through a pipe, to the consumer's own.
Carry(h, c, d, p) ==
  LET login == h[p].logins[d][c] IN
  When(Listed(h[p]) /\ Listed(h[c]) /\ login # 0,
       [h EXCEPT ![c].env[d] = [at |-> p, login |-> login]])

Revoke(h, p, d, c) ==
  When(Listed(h[p]) /\ h[p].data[d] # 0, [h EXCEPT ![p].logins[d][c] = 0])

Unenv(h, c, d) == When(Listed(h[c]), [h EXCEPT ![c].env[d] = NoEnv])
ForgetKeys(h, c, d) == When(h[c].here, [h EXCEPT ![c].keys[d] = None])

\* What is empty is not written: a location, and that it was adopted, stay from before.
Over(old, location) ==
  IF old \in Containers /\ Local(location) THEN old
  ELSE IF old = Adopted /\ location = Here THEN old ELSE location
RecordKeys(h, c, d, location) ==
  When(h[c].here, [h EXCEPT ![c].keys[d] = Over(@, location)])

\* The keys are one command each: the engine's is the first to be written, and
\* without the one that says where it is a database is the container's own.
ForgetHalf(h, c, d) == When(h[c].here /\ h[c].keys[d] # None, [h EXCEPT ![c].keys[d] = Here])

WriteIndex(h, c, index) == When(h[c].here, [h EXCEPT ![c].index = index])

\* What is left by a step that did what it was to do.
Does(h, s, new) ==
  CASE s.do = "init" -> InitContainer(h, s.on)
    [] s.do = "delete" -> Delete(h, s.on)
    [] s.do = "pin" -> Pin(h, s.on, s.arg)
    [] s.do = "assign" -> Assign(h, s.on, s.arg)
    [] s.do = "start" -> Power(h, s.on, TRUE)
    [] s.do = "stop" -> Power(h, s.on, FALSE)
    [] s.do = "snapshot" -> Snapshot(h, s.on)
    [] s.do = "create" -> CreateDatabase(h, s.on, s.db, new)
    [] s.do = "drop" -> DropDatabase(h, s.on, s.db)
    [] s.do = "grant" -> Grant(h, s.on, s.db, s.arg, new)
    [] s.do = "carry" -> Carry(h, s.on, s.db, s.arg)
    [] s.do = "revoke" -> Revoke(h, s.on, s.db, s.arg)
    [] s.do = "unenv" -> Unenv(h, s.on, s.db)
    [] s.do = "record" -> RecordKeys(h, s.on, s.db, s.arg)
    [] s.do = "forget" -> ForgetKeys(h, s.on, s.db)
    [] s.do = "index" -> WriteIndex(h, s.on, s.arg)
    [] OTHER -> {h}

\* What is left by one that failed: of most nothing, of some a part or all.
FailsWith(h, s, new) ==
  {h} \cup (CASE s.do = "create" -> CreateHalf(h, s.on, s.db, new)
              [] s.do = "drop" -> DropHalf(h, s.on, s.db)
              [] s.do = "record" -> RecordKeys(h, s.on, s.db, Here)
              [] s.do = "forget" -> ForgetHalf(h, s.on, s.db)
              [] s.do \in {"grant", "carry"} -> Does(h, s, new)
              [] OTHER -> {})

----------------------------------------------------------------------------
(* Types.                                                                   *)

Locations == {None, Here, Adopted} \cup Containers

Machine ==
  [here : BOOLEAN, up : BOOLEAN, address : 0..Addresses, project : Projects \cup {None},
   index : SUBSET Databases, keys : [Databases -> Locations],
   data : [Databases -> Nat], logins : [Databases -> [Containers -> Nat]],
   env : [Databases -> [at : {None} \cup Containers, login : Nat]], kept : SUBSET Nat]

IsMachine(x) == x \in Machine /\ IsFiniteSet(x.kept) /\ (x.here \/ x = Nothing)
================================================================================
