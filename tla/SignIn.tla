--------------------------------- MODULE SignIn ---------------------------------
(****************************************************************************)
(* Signing in, and how croft slows down guessing (internal/auth: attempts.go,    *)
(* session-open.go and the login handler). Wrong passwords are counted for the    *)
(* name they were given for and for where they came from, in memory. Every look   *)
(* at a count takes a mutex of its own: logins interleave between being let       *)
(* through, the comparison of the password, which takes long on purpose, and      *)
(* each of the two counts.                                                     *)
(*                                                                          *)
(* Time is in ticks. Of a moment in the past a record only needs how long ago it  *)
(* was, up to just over a window, and of the end of a lock-out how long it is to  *)
(* it. The session a login opens is a row nothing here reads.                    *)
(****************************************************************************)
EXTENDS Integers, Sequences, FiniteSets

CONSTANTS
  Users,    \* the names that are tried
  Sources,  \* where logins come from
  Requests, \* bound: logins under way at once
  Limit,    \* failures that lock out
  Window,   \* ticks failures add up for
  Lock      \* ticks a lock-out lasts

ASSUME SignInAssumption ==
  /\ Limit \in Nat \ {0, 1} /\ {Window, Lock} \subseteq Nat \ {0}
  /\ Lock > Window + 1
  /\ Users \cap Sources = {} /\ IsFiniteSet(Requests)

Keys == Users \cup Sources

VARIABLES
  byKey,    \* the records of Attempts
  login,    \* what each login under way has come to
  recent    \* observed only: how long ago each wrong password was counted for a key, newest first

vars == <<byKey, login, recent>>

NoRecord == [failures |-> 0, first |-> Window + 1, until |-> 0]
Idle == [at |-> "idle", keys |-> {}, slow |-> FALSE]

\* The guesses there may be in a window; more than that need not be told apart.
MostGuesses == 2 * Limit + Cardinality(Requests) - 3

Init ==
  /\ byKey = [k \in Keys |-> NoRecord]
  /\ login = [r \in Requests |-> Idle]
  /\ recent = [k \in Keys |-> <<>>]

----------------------------------------------------------------------------
(* Attempts. A key nothing is known of reads as one whose window is over.       *)

Blocked(k) == byKey[k].until > 0

Locked == [failures |-> 0, first |-> 0, until |-> Lock]

\* What one more failure makes of a record.
\* Mutant: the failure that reaches the limit is let pass.
CountedLate(x) ==
  IF x.first > Window THEN [failures |-> 1, first |-> 0, until |-> 0]
  ELSE IF x.failures + 1 > Limit THEN Locked
  ELSE [x EXCEPT !.failures = @ + 1]
Counted(x) ==
  IF x.first > Window THEN [failures |-> 1, first |-> 0, until |-> 0]
  ELSE IF x.failures + 1 >= Limit THEN Locked
  ELSE [x EXCEPT !.failures = @ + 1]

Failed(k) ==
  /\ byKey' = [byKey EXCEPT ![k] = Counted(@)]
  /\ recent' = [recent EXCEPT ![k] = IF Len(@) > MostGuesses THEN @ ELSE <<0>> \o @]

Succeeded(k) ==
  /\ byKey' = [byKey EXCEPT ![k] = NoRecord]
  /\ recent' = [recent EXCEPT ![k] = <<>>]

\* Mutant: who waits is forgotten too.
ForgottenAll(x) == IF x.first > 0 THEN NoRecord ELSE x
Forgotten(x) == IF x.until = 0 /\ x.first > Window THEN NoRecord ELSE x

----------------------------------------------------------------------------
(* A login: let through, compared, counted for its name and then its source.     *)

LetIn(r, u, s) == login' = [login EXCEPT ![r] = [at |-> "asked", keys |-> {u, s}, slow |-> FALSE]]

\* Mutant: to be turned away counts as one more failure.
LoginCounted(r, u, s) ==
  /\ login[r] = Idle
  /\ IF Blocked(u) THEN login' = [login EXCEPT ![r] = [at |-> "wrong", keys |-> {u, s}, slow |-> FALSE]]
     ELSE LetIn(r, u, s)
  /\ UNCHANGED <<byKey, recent>>

\* The name is looked up; whoever must wait is turned away and nothing changes.
Login(r, u, s) ==
  /\ login[r] = Idle
  /\ ~Blocked(u)
  /\ LetIn(r, u, s)
  /\ UNCHANGED <<byKey, recent>>

\* And then where it comes from.
LookAtSource(r) ==
  /\ login[r].at = "asked"
  /\ login' = [login EXCEPT ![r] = IF \E s \in @.keys \cap Sources : Blocked(s) THEN Idle
                                   ELSE [@ EXCEPT !.at = "compare"]]
  /\ UNCHANGED <<byKey, recent>>

\* The password is compared, or what is stored cannot be read or written: then the
\* login is neither a failure nor a success.
OpenSession(r) ==
  /\ login[r].at = "compare"
  /\ \E answer \in {"wrong", "right", "error"} :
       login' = [login EXCEPT ![r] = IF answer = "error" THEN Idle ELSE [@ EXCEPT !.at = answer]]
  /\ UNCHANGED <<byKey, recent>>

\* The name is counted before the source.
NextKey(keys) == CHOOSE k \in keys : keys \cap Users # {} => k \in Users
CountNext(r) ==
  LET k == NextKey(login[r].keys) IN
  /\ login[r].at \in {"wrong", "right"} /\ login[r].keys # {}
  /\ IF login[r].at = "wrong" THEN Failed(k) ELSE Succeeded(k)
  /\ login' = [login EXCEPT ![r] = IF @.at = "right" /\ @.keys = {k} THEN Idle
                                   ELSE [login[r] EXCEPT !.keys = login[r].keys \ {k}]]

Forget(r) ==
  /\ login[r].at = "wrong" /\ login[r].keys = {}
  /\ byKey' = [k \in Keys |-> Forgotten(byKey[k])]
  /\ login' = [login EXCEPT ![r] = Idle]
  /\ UNCHANGED recent

----------------------------------------------------------------------------
(* Time, and the panel starting again.                                        *)

Older(x) ==
  [failures |-> x.failures,
   first |-> IF x.first > Window THEN x.first ELSE x.first + 1,
   until |-> IF x.until = 0 THEN 0 ELSE x.until - 1]

\* A tick later; what is older than a window is not looked at any more.
Fresh(ages) == {i \in DOMAIN ages : ages[i] < Window}
Aged(ages) == [i \in 1..Cardinality(Fresh(ages)) |-> ages[i] + 1]

\* Comparing a password takes less than a tick: a login sees one end at most.
Tick ==
  /\ \A r \in Requests : ~login[r].slow
  /\ byKey' = [k \in Keys |-> Older(byKey[k])]
  /\ login' = [r \in Requests |-> IF login[r] = Idle THEN Idle ELSE [login[r] EXCEPT !.slow = TRUE]]
  /\ recent' = [k \in Keys |-> Aged(recent[k])]

\* What is in memory is forgiven.
Restart ==
  /\ byKey' = [k \in Keys |-> NoRecord]
  /\ login' = [r \in Requests |-> Idle]
  /\ recent' = [k \in Keys |-> <<>>]

GoOn(r) == LookAtSource(r) \/ OpenSession(r) \/ CountNext(r) \/ Forget(r)

Next ==
  \/ \E r \in Requests : (\E u \in Users, s \in Sources : Login(r, u, s)) \/ GoOn(r)
  \/ Tick \/ Restart

Spec == Init /\ [][Next]_vars

\* Time goes on, and whoever is under way comes to an end.
FairSpec == Spec /\ WF_vars(Tick) /\ \A r \in Requests : WF_vars(GoOn(r))

----------------------------------------------------------------------------
(* Properties.                                                              *)

Records == [failures : 0..(Limit - 1), first : 0..(Window + 1), until : 0..Lock]
Logins == [at : {"idle", "asked", "compare", "wrong", "right"}, keys : SUBSET Keys, slow : BOOLEAN]

TypeOK ==
  /\ byKey \in [Keys -> Records]
  /\ login \in [Requests -> Logins]
  /\ recent \in [Keys -> Seq(0..Window)]

\* However logins interleave, and although a window begins with its first failure and
\* not with every failure: in no stretch of a window's length is a key guessed at more
\* often than twice the limit, and once more by each login that was already let
\* through, unless somebody proved who they are in between.
GuessesAreBounded ==
  \A k \in Keys : Len(recent[k]) <= MostGuesses

\* The state is well typed, and guesses at a key are bounded.
SignInInv == TypeOK /\ GuessesAreBounded

\* Somebody who is locked out stays so until the time is up, whatever logins that were
\* under way come to, unless one of them had the right password; the panel starting
\* again forgives.
LockHolds ==
  [][\A k \in Keys :
       Blocked(k) /\ byKey'[k].until < byKey[k].until =>
         \/ byKey'[k].until = byKey[k].until - 1 /\ \A q \in Keys : byKey'[q] = Older(byKey[q])
         \/ Restart
         \/ \E r \in Requests : login[r].at = "right" /\ k \in login[r].keys]_vars

\* Nobody is locked out for good: the lock-out ends although others go on guessing.
LocksEnd == \A k \in Keys : Blocked(k) ~> ~Blocked(k)
================================================================================
