--------------------------------- MODULE Turns ---------------------------------
(****************************************************************************)
(* The agent's turns (internal/agent/turns.go): a channel of capacity one per  *)
(* container, taken by streamOn before a job's first step and given back after *)
(* its last. The module follows what each request does to the channel, with    *)
(* Go's rules for one: a receive from a full channel hands the freed place to   *)
(* the sender that has waited longest, and a select with two ready cases takes *)
(* either.                                                                   *)
(*                                                                          *)
(* A request is in one of the states                                         *)
(*   new      not asked                                                      *)
(*   trying   about to try the channel without waiting                        *)
(*   told     the channel was full; waiting() said so to the person           *)
(*   parked   blocked in the second select, in the channel's queue            *)
(*   running  its steps write to the containers                               *)
(*   over     finished, failed or turned away                                 *)
(****************************************************************************)
EXTENDS Naturals, Sequences, FiniteSets

CONSTANTS
  Jobs,        \* requests
  Containers,
  NoTurn,      \* what a handler that takes no turn waits for
  Kinds        \* the kinds of handler in play: see Handlers

ASSUME TurnsAssumption ==
  /\ NoTurn \notin Containers
  /\ Kinds \subseteq {"own", "host", "share", "inspect"}

VARIABLES
  pc,      \* where each request is
  work,    \* what each request takes a turn on, and writes to
  turn,    \* tokens in each container's channel: 0 or 1
  queue,   \* the requests parked on it, the one that waited longest first
  gone     \* the context of the request is cancelled

vars == <<pc, work, turn, queue, gone>>

----------------------------------------------------------------------------
(* Handlers by what they take and what they write. The turn of an "own" job  *)
(* is on the container it writes to: deploying, destroying a service, power, *)
(* adopting, configuring, environments, snapshots, databases. A "host" job   *)
(* works on the host alone: nginx, certificates, projects. Sharing a         *)
(* database takes the consumer's turn and creates the login in the provider  *)
(* as well; inspecting a checkout takes none and runs the opening steps of a *)
(* deployment, its snapshot first.                                           *)

NoWork == [turn |-> NoTurn, writes |-> {}]

Handlers ==
  UNION {IF "own" \in Kinds THEN {[turn |-> c, writes |-> {c}] : c \in Containers} ELSE {},
         IF "host" \in Kinds THEN {NoWork} ELSE {},
         IF "share" \in Kinds
         THEN {[turn |-> p[1], writes |-> {p[1], p[2]}] :
                 p \in {q \in Containers \X Containers : q[1] # q[2]}} ELSE {},
         IF "inspect" \in Kinds
         THEN {[turn |-> NoTurn, writes |-> {c}] : c \in Containers} ELSE {}}

Holders(c) == {j \in Jobs : pc[j] = "running" /\ work[j].turn = c}
Writers(c) == {j \in Jobs : pc[j] = "running" /\ c \in work[j].writes}

Init ==
  /\ pc = [j \in Jobs |-> "new"]
  /\ work = [j \in Jobs |-> NoWork]
  /\ turn = [c \in Containers |-> 0]
  /\ queue = [c \in Containers |-> <<>>]
  /\ gone = [j \in Jobs |-> FALSE]

----------------------------------------------------------------------------
Ask(j, w) ==
  /\ pc[j] = "new"
  /\ work' = [work EXCEPT ![j] = w]
  /\ pc' = [pc EXCEPT ![j] = IF w.turn = NoTurn THEN "running" ELSE "trying"]
  /\ UNCHANGED <<turn, queue, gone>>

\* A send that succeeds at once: from the first select, or from the second one
\* when the turn came free in between - also when the context is already done.
Take(j) ==
  LET c == work[j].turn IN
  /\ pc[j] \in {"trying", "told"}
  /\ turn[c] = 0
  /\ turn' = [turn EXCEPT ![c] = 1]
  /\ pc' = [pc EXCEPT ![j] = "running"]
  /\ UNCHANGED <<work, queue, gone>>

\* The default case: waiting() reports that another job is being waited for.
SayWaiting(j) ==
  /\ pc[j] = "trying"
  /\ turn[work[j].turn] = 1
  /\ pc' = [pc EXCEPT ![j] = "told"]
  /\ UNCHANGED <<work, turn, queue, gone>>

Park(j) ==
  LET c == work[j].turn IN
  /\ pc[j] = "told"
  /\ turn[c] = 1
  /\ ~gone[j]
  /\ queue' = [queue EXCEPT ![c] = Append(@, j)]
  /\ pc' = [pc EXCEPT ![j] = "parked"]
  /\ UNCHANGED <<work, turn, gone>>

\* case <-ctx.Done().
Unqueued(j, c) ==
  IF pc[j] = "parked"
  THEN LET n == CHOOSE n \in DOMAIN queue[c] : queue[c][n] = j
       IN  [m \in 1..Len(queue[c]) - 1 |-> queue[c][IF m < n THEN m ELSE m + 1]]
  ELSE queue[c]

\* Mutant: whoever gives up gives back a turn, too.
GiveUpAndRelease(j) ==
  LET c == work[j].turn IN
  /\ pc[j] \in {"told", "parked"}
  /\ gone[j]
  /\ pc' = [pc EXCEPT ![j] = "over"]
  /\ queue' = [queue EXCEPT ![c] = Unqueued(j, c)]
  /\ turn' = [turn EXCEPT ![c] = 0]
  /\ work' = [work EXCEPT ![j] = NoWork]
  /\ UNCHANGED gone

\* Mutant: whoever gives up stays in the queue.
GiveUpQueued(j) ==
  /\ pc[j] \in {"told", "parked"}
  /\ gone[j]
  /\ pc' = [pc EXCEPT ![j] = "over"]
  /\ work' = [work EXCEPT ![j] = NoWork]
  /\ UNCHANGED <<turn, queue, gone>>

GiveUp(j) ==
  LET c == work[j].turn IN
  /\ pc[j] \in {"told", "parked"}
  /\ gone[j]
  /\ pc' = [pc EXCEPT ![j] = "over"]
  /\ queue' = [queue EXCEPT ![c] = Unqueued(j, c)]
  /\ work' = [work EXCEPT ![j] = NoWork]
  /\ UNCHANGED <<turn, gone>>

\* The panel cancels the job, or its connection drops.
Disconnect(j) ==
  /\ pc[j] \in {"trying", "told", "parked", "running"}
  /\ ~gone[j]
  /\ gone' = [gone EXCEPT ![j] = TRUE]
  /\ UNCHANGED <<pc, work, turn, queue>>

\* Mutant: the turn goes to whoever came last.
PassToLatest(j, c) ==
  /\ queue' = [queue EXCEPT ![c] = SubSeq(@, 1, Len(@) - 1)]
  /\ pc' = [pc EXCEPT ![j] = "over", ![queue[c][Len(queue[c])]] = "running"]
  /\ UNCHANGED turn

\* Mutant: everybody who waits goes on at once.
PassToAll(j, c) ==
  /\ queue' = [queue EXCEPT ![c] = <<>>]
  /\ pc' = [i \in Jobs |-> IF i = j THEN "over"
                          ELSE IF \E n \in DOMAIN queue[c] : queue[c][n] = i
                          THEN "running" ELSE pc[i]]
  /\ UNCHANGED turn

\* Mutant: the token is taken out and nobody who waits is woken.
PassToNobody(j, c) ==
  /\ turn' = [turn EXCEPT ![c] = 0]
  /\ pc' = [pc EXCEPT ![j] = "over"]
  /\ UNCHANGED queue

\* The freed place in the channel goes to whoever waited longest.
PassOn(j, c) ==
  /\ queue' = [queue EXCEPT ![c] = Tail(@)]
  /\ pc' = [pc EXCEPT ![j] = "over", ![Head(queue[c])] = "running"]
  /\ UNCHANGED turn

\* run returns and the deferred release receives from the channel: the token
\* goes to the next in the queue, or the channel is left empty.
Finish(j) ==
  LET c == work[j].turn IN
  /\ pc[j] = "running"
  /\ work' = [work EXCEPT ![j] = NoWork]
  /\ \/ /\ c = NoTurn
        /\ pc' = [pc EXCEPT ![j] = "over"]
        /\ UNCHANGED <<turn, queue>>
     \/ /\ c # NoTurn /\ queue[c] = <<>>
        /\ turn' = [turn EXCEPT ![c] = 0]
        /\ pc' = [pc EXCEPT ![j] = "over"]
        /\ UNCHANGED queue
     \/ /\ c # NoTurn /\ queue[c] # <<>>
        /\ PassOn(j, c)
  /\ UNCHANGED gone

\* The agent restarts: its channels are gone, and so is every request.
Restart ==
  /\ pc' = [j \in Jobs |-> IF pc[j] = "new" THEN "new" ELSE "over"]
  /\ work' = [j \in Jobs |-> NoWork]
  /\ turn' = [c \in Containers |-> 0]
  /\ queue' = [c \in Containers |-> <<>>]
  /\ UNCHANGED gone

Request(j) == Take(j) \/ SayWaiting(j) \/ Park(j) \/ GiveUp(j)

Next ==
  \/ \E j \in Jobs : Request(j) \/ Finish(j) \/ Disconnect(j) \/ (\E w \in Handlers : Ask(j, w))
  \/ Restart

Spec == Init /\ [][Next]_vars

\* A goroutine that can go on does, and a job's steps end: each runs under the
\* request's context, which the panel bounds to thirty minutes.
FairSpec == Spec /\ \A j \in Jobs : WF_vars(Request(j)) /\ WF_vars(Finish(j))

----------------------------------------------------------------------------
(* Properties.                                                               *)

States == {"new", "trying", "told", "parked", "running", "over"}

TypeOK ==
  /\ pc \in [Jobs -> States]
  /\ work \in [Jobs -> [turn : Containers \cup {NoTurn}, writes : SUBSET Containers]]
  /\ turn \in [Containers -> {0, 1}]
  /\ queue \in [Containers -> Seq(Jobs)]
  /\ gone \in [Jobs -> BOOLEAN]

\* The token in the channel belongs to exactly one running job: a turn is never
\* held twice, and never lost - a lost one would block the container for good.
TurnIsHeldOnce ==
  \A c \in Containers :
    /\ turn[c] = 1 <=> Holders(c) # {}
    /\ \A i, j \in Holders(c) : i = j

\* The state is well typed, and every token has one holder.
TurnsInv == TypeOK /\ TurnIsHeldOnce

\* Nobody is queued on a container whose turn is free, whoever is queued is
\* parked there and whoever is parked is queued, and nobody is queued twice: a
\* request that gives up leaves no trace, and no wake-up is lost.
QueueIsSound ==
  \A c \in Containers :
    /\ queue[c] # <<>> => turn[c] = 1
    /\ \A n \in DOMAIN queue[c] : LET j == queue[c][n] IN
         /\ pc[j] = "parked" /\ work[j].turn = c
         /\ \A m \in DOMAIN queue[c] : queue[c][m] = j => m = n
    /\ \A j \in Jobs : pc[j] = "parked" /\ work[j].turn = c
                      => \E n \in DOMAIN queue[c] : queue[c][n] = j

\* Two jobs that wait for their turn get it in the order they began to wait.
FirstComeFirstServed ==
  [][\A c \in Containers : \A m, n \in DOMAIN queue[c] :
       m < n /\ pc'[queue[c][n]] = "running" => pc'[queue[c][m]] # "parked"]_vars

\* A job that waits runs in the end, unless whoever asked went away: one job
\* cannot keep another waiting for good, nor can a queue of others.
WaitingEnds ==
  \A j \in Jobs : pc[j] \in {"told", "parked"} ~> pc[j] \in {"running", "over"}

\* One job at a time writes to a container.
OneWriterPerContainer ==
  \A c \in Containers : \A i, j \in Writers(c) : i = j

\* The channels and their queues implement the abstract lock.
Abstract == INSTANCE OneWriter WITH writing <- [c \in Containers |-> Writers(c)]
ImplementsOneWriter == Abstract!Spec
================================================================================
