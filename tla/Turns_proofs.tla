------------------------------ MODULE Turns_proofs ------------------------------
(* What Turns promises for any number of requests and containers.              *)
EXTENDS Turns, TLAPS

\* Whoever waits, or is about to, does so for a container's turn.
WaitsForATurn ==
  \A j \in Jobs : pc[j] \in {"trying", "told", "parked"} => work[j].turn \in Containers

IInv == TypeOK /\ WaitsForATurn /\ QueueIsSound /\ TurnIsHeldOnce

\* Every handler takes a turn on a container or none, and writes to containers.
LEMMA HandlersType ==
  Handlers \subseteq [turn : Containers \cup {NoTurn}, writes : SUBSET Containers]
BY DEF Handlers, NoWork

\* TypeOK is inductive together with WaitsForATurn and QueueIsSound, which say
\* that whoever is taken from a queue is a job that waits there.
LEMMA TypeStep ==
  ASSUME TypeOK, WaitsForATurn, QueueIsSound, [Next]_vars
  PROVE  TypeOK' /\ WaitsForATurn'
<1> USE DEF TypeOK, WaitsForATurn, States
<1>1. ASSUME NEW j \in Jobs, Take(j) PROVE TypeOK' /\ WaitsForATurn'
  BY <1>1 DEF Take
<1>2. ASSUME NEW j \in Jobs, SayWaiting(j) PROVE TypeOK' /\ WaitsForATurn'
  BY <1>2 DEF SayWaiting
<1>3. ASSUME NEW j \in Jobs, Park(j) PROVE TypeOK' /\ WaitsForATurn'
  BY <1>3 DEF Park
<1>4. ASSUME NEW j \in Jobs, GiveUp(j) PROVE TypeOK' /\ WaitsForATurn'
  <2> DEFINE c == work[j].turn
  <2>1. c \in Containers
    BY <1>4 DEF GiveUp
  <2>2. Unqueued(j, c) \in Seq(Jobs)
    BY <2>1 DEF Unqueued
  <2> QED BY <1>4, <2>1, <2>2, TurnsAssumption DEF GiveUp, NoWork
<1>5. ASSUME NEW j \in Jobs, Finish(j) PROVE TypeOK' /\ WaitsForATurn'
  <2> DEFINE c == work[j].turn
  <2>1. CASE c = NoTurn
    BY <1>5, <2>1, TurnsAssumption DEF Finish, PassOn, NoWork
  <2>2. CASE c # NoTurn /\ queue[c] = <<>>
    BY <1>5, <2>2, TurnsAssumption DEF Finish, PassOn, NoWork
  <2>3. CASE c # NoTurn /\ queue[c] # <<>>
    <3>1. c \in Containers /\ Head(queue[c]) \in Jobs /\ Tail(queue[c]) \in Seq(Jobs)
      BY <2>3
    <3>2. /\ work' = [work EXCEPT ![j] = NoWork]
          /\ queue' = [queue EXCEPT ![c] = Tail(queue[c])]
          /\ pc' = [pc EXCEPT ![j] = "over", ![Head(queue[c])] = "running"]
          /\ UNCHANGED <<turn, gone>>
      BY <1>5, <2>3 DEF Finish, PassOn
    <3>3. NoWork \in [turn : Containers \cup {NoTurn}, writes : SUBSET Containers]
      BY DEF NoWork
    <3>4. TypeOK'
      BY <3>1, <3>2, <3>3
    <3>5. ASSUME NEW i \in Jobs, pc'[i] \in {"trying", "told", "parked"}
          PROVE  work'[i].turn \in Containers
      BY <3>1, <3>2, <3>5
    <3> QED BY <3>4, <3>5
  <2> QED BY <2>1, <2>2, <2>3
<1>6. ASSUME NEW j \in Jobs, Disconnect(j) PROVE TypeOK' /\ WaitsForATurn'
  BY <1>6 DEF Disconnect
<1>7. ASSUME NEW j \in Jobs, NEW w \in Handlers, Ask(j, w) PROVE TypeOK' /\ WaitsForATurn'
  BY <1>7, HandlersType DEF Ask
<1>8. CASE Restart
  BY <1>8, TurnsAssumption DEF Restart, NoWork
<1>9. CASE UNCHANGED vars
  BY <1>9 DEF vars
<1> QED BY <1>1, <1>2, <1>3, <1>4, <1>5, <1>6, <1>7, <1>8, <1>9 DEF Next, Request

----------------------------------------------------------------------------
\* QueueIsSound is inductive: a queue gains only a job that parks, at its end,
\* and loses only the job that gives up or the one that is handed the turn.
LEMMA QueueStep ==
  ASSUME TypeOK, WaitsForATurn, QueueIsSound, [Next]_vars
  PROVE  QueueIsSound'
<1> USE DEF TypeOK, WaitsForATurn, QueueIsSound, States
<1>1. ASSUME NEW j \in Jobs, Take(j) PROVE QueueIsSound'
  BY <1>1 DEF Take
<1>2. ASSUME NEW j \in Jobs, SayWaiting(j) PROVE QueueIsSound'
  BY <1>2 DEF SayWaiting
<1>3. ASSUME NEW j \in Jobs, Park(j) PROVE QueueIsSound'
  <2> DEFINE c == work[j].turn
  <2>1. /\ c \in Containers /\ turn[c] = 1 /\ pc[j] = "told"
        /\ queue' = [queue EXCEPT ![c] = Append(queue[c], j)]
        /\ pc' = [pc EXCEPT ![j] = "parked"]
        /\ UNCHANGED <<work, turn>>
    BY <1>3 DEF Park
  <2>2. \A n \in DOMAIN queue[c] : queue[c][n] # j /\ queue'[c][n] = queue[c][n]
    BY <2>1
  <2>3. /\ DOMAIN queue'[c] = DOMAIN queue[c] \cup {Len(queue[c]) + 1}
        /\ queue'[c][Len(queue[c]) + 1] = j
        /\ Len(queue[c]) + 1 \notin DOMAIN queue[c]
    BY <2>1
  <2> HIDE DEF c
  <2>4. \A d \in Containers : d # c => queue'[d] = queue[d]
    BY <2>1
  <2> QED BY <2>1, <2>2, <2>3, <2>4 DEF c
<1>4. ASSUME NEW j \in Jobs, GiveUp(j) PROVE QueueIsSound'
  <2> DEFINE c == work[j].turn
  <2>1. /\ c \in Containers /\ pc[j] \in {"told", "parked"}
        /\ pc' = [pc EXCEPT ![j] = "over"]
        /\ queue' = [queue EXCEPT ![c] = Unqueued(j, c)]
        /\ work' = [work EXCEPT ![j] = NoWork]
        /\ UNCHANGED turn
    BY <1>4 DEF GiveUp
  <2>2. CASE pc[j] = "told"
    <3>1. queue' = queue /\ \A d \in Containers : \A n \in DOMAIN queue[d] : queue[d][n] # j
      BY <2>1, <2>2 DEF Unqueued
    <3> QED BY <2>1, <3>1
  <2>3. CASE pc[j] = "parked"
    <3> DEFINE n == CHOOSE n \in DOMAIN queue[c] : queue[c][n] = j
               kept == [m \in 1..Len(queue[c]) - 1 |->
                          queue[c][IF m < n THEN m ELSE m + 1]]
    <3>1. n \in DOMAIN queue[c] /\ queue[c][n] = j
      <4>1. \A i \in Jobs : pc[i] = "parked" /\ work[i].turn = c
                            => \E k \in DOMAIN queue[c] : queue[c][k] = i
        BY <2>1
      <4>2. \E k \in DOMAIN queue[c] : queue[c][k] = j
        BY <2>3, <4>1
      <4> QED BY <4>2
    <3>queue. queue'[c] = kept
      <4>1. queue'[c] = Unqueued(j, c)
        BY <2>1
      <4>2. Unqueued(j, c) = kept
        BY <2>3 DEF Unqueued
      <4> QED BY <4>1, <4>2
    <3>bounds. n \in 1..Len(queue[c]) /\ Len(queue[c]) \in Nat /\ DOMAIN queue[c] = 1..Len(queue[c])
      BY <2>1, <3>1
    <3>2. /\ DOMAIN queue'[c] = 1..Len(queue[c]) - 1
          /\ \A m \in DOMAIN queue'[c] :
               \/ m < n /\ queue'[c][m] = queue[c][m] /\ m \in DOMAIN queue[c]
               \/ m >= n /\ queue'[c][m] = queue[c][m + 1] /\ m + 1 \in DOMAIN queue[c]
      <4> HIDE DEF n, c
      <4>1. DOMAIN kept = 1..Len(queue[c]) - 1
        OBVIOUS
      <4>2. \A m \in 1..Len(queue[c]) - 1 :
              kept[m] = queue[c][IF m < n THEN m ELSE m + 1]
        OBVIOUS
      <4> HIDE DEF kept
      <4> QED BY <3>queue, <3>bounds, <4>1, <4>2
    <3>once. \A a, b \in DOMAIN queue[c] : queue[c][a] = queue[c][b] => a = b
      BY <2>1
    <3> HIDE DEF n, kept
    <3>3. \A m \in DOMAIN queue[c] : m # n => \E k \in DOMAIN queue'[c] :
            queue'[c][k] = queue[c][m]
      <4> TAKE m \in DOMAIN queue[c]
      <4> HAVE m # n
      <4>1. CASE m < n
        <5>1. m \in DOMAIN queue'[c]
          BY <3>bounds, <3>2, <4>1
        <5> QED BY <3>bounds, <3>2, <4>1, <5>1
      <4>2. CASE m > n
        <5>1. m - 1 \in DOMAIN queue'[c] /\ m - 1 >= n
          BY <3>bounds, <3>2, <4>2
        <5> QED BY <3>bounds, <3>2, <4>2, <5>1
      <4> QED BY <3>bounds, <4>1, <4>2
    <3>4. \A d \in Containers \ {c} :
            queue'[d] = queue[d] /\ \A m \in DOMAIN queue[d] : queue[d][m] # j
      BY <2>1
    <3>5. ASSUME NEW d \in Containers PROVE queue'[d] # <<>> => turn'[d] = 1
      BY <2>1, <3>1, <3>4
    <3>6. ASSUME NEW d \in Containers, NEW m \in DOMAIN queue'[d]
          PROVE  /\ pc'[queue'[d][m]] = "parked" /\ work'[queue'[d][m]].turn = d
                 /\ \A k \in DOMAIN queue'[d] : queue'[d][k] = queue'[d][m] => k = m
      <4>1. CASE d = c
        <5>0. m \in DOMAIN queue'[c]
          BY <4>1
        <5>1. \E k \in DOMAIN queue[c] : k # n /\ queue'[c][m] = queue[c][k]
          <6>2. CASE m < n /\ queue'[c][m] = queue[c][m] /\ m \in DOMAIN queue[c]
            BY <3>bounds, <6>2
          <6>3. CASE m >= n /\ queue'[c][m] = queue[c][m + 1] /\ m + 1 \in DOMAIN queue[c]
            <7>1. m + 1 # n
              BY <3>bounds, <3>2, <5>0, <6>3
            <7> QED BY <6>3, <7>1
          <6> QED BY <3>2, <5>0, <6>2, <6>3
        <5>other. queue'[c][m] # j
          BY <3>1, <3>once, <5>1
        <5>2. pc'[queue'[d][m]] = "parked" /\ work'[queue'[d][m]].turn = d
          <6>1. PICK k \in DOMAIN queue[c] : queue'[c][m] = queue[c][k]
            BY <5>1
          <6>2. pc[queue[c][k]] = "parked" /\ work[queue[c][k]].turn = c
                /\ queue[c][k] \in Jobs
            BY <2>1, <6>1
          <6>3. pc'[queue[c][k]] = pc[queue[c][k]] /\ work'[queue[c][k]] = work[queue[c][k]]
            BY <2>1, <5>other, <6>1, <6>2
          <6> QED BY <4>1, <6>1, <6>2, <6>3
        <5>3. \A k \in DOMAIN queue'[d] : queue'[d][k] = queue'[d][m] => k = m
          <6>1. \A a, b \in DOMAIN queue'[c] : queue'[c][a] = queue'[c][b] => a = b
            <7> HIDE DEF TypeOK, WaitsForATurn, QueueIsSound, c
            <7> QED BY <3>bounds, <3>2, <3>once
          <6> QED BY <4>1, <6>1
        <5> QED BY <5>2, <5>3
      <4>2. CASE d # c
        BY <2>1, <3>4, <4>2
      <4> QED BY <4>1, <4>2
    <3>7. ASSUME NEW d \in Containers, NEW i \in Jobs, pc'[i] = "parked", work'[i].turn = d
          PROVE  \E m \in DOMAIN queue'[d] : queue'[d][m] = i
      <4>1. i # j /\ pc[i] = "parked" /\ work[i].turn = d
        BY <2>1, <3>7
      <4>2. PICK m \in DOMAIN queue[d] : queue[d][m] = i
        BY <4>1
      <4>3. CASE d = c
        <5>1. m # n
          BY <3>1, <4>1, <4>2, <4>3
        <5> QED BY <3>3, <4>2, <4>3, <5>1
      <4>4. CASE d # c
        BY <3>4, <4>2, <4>4
      <4> QED BY <4>3, <4>4
    <3> QED BY <3>5, <3>6, <3>7
  <2> QED BY <2>1, <2>2, <2>3
<1>5. ASSUME NEW j \in Jobs, Finish(j) PROVE QueueIsSound'
  <2> DEFINE c == work[j].turn
  <2>1. /\ pc[j] = "running" /\ work' = [work EXCEPT ![j] = NoWork]
        /\ \A d \in Containers : \A n \in DOMAIN queue[d] : queue[d][n] # j
    BY <1>5 DEF Finish, PassOn
  <2>2. CASE c = NoTurn
    <3>1. pc' = [pc EXCEPT ![j] = "over"] /\ UNCHANGED <<turn, queue>>
      BY <1>5, <2>2 DEF Finish, PassOn
    <3> QED BY <2>1, <3>1
  <2>3. CASE c # NoTurn /\ queue[c] = <<>>
    <3>1. /\ pc' = [pc EXCEPT ![j] = "over"]
          /\ turn' = [turn EXCEPT ![c] = 0]
          /\ UNCHANGED queue
      BY <1>5, <2>3 DEF Finish, PassOn
    <3> QED BY <2>1, <2>3, <3>1
  <2>4. CASE c # NoTurn /\ queue[c] # <<>>
    <3> DEFINE h == Head(queue[c])
    <3>1. /\ c \in Containers
          /\ queue' = [queue EXCEPT ![c] = Tail(queue[c])]
          /\ pc' = [pc EXCEPT ![j] = "over", ![h] = "running"]
          /\ UNCHANGED turn
      BY <1>5, <2>4 DEF Finish, PassOn
    <3>2. /\ 1 \in DOMAIN queue[c] /\ h = queue[c][1] /\ h \in Jobs
          /\ DOMAIN queue'[c] = 1..Len(queue[c]) - 1
          /\ \A m \in DOMAIN queue'[c] :
               m + 1 \in DOMAIN queue[c] /\ queue'[c][m] = queue[c][m + 1]
      BY <2>4, <3>1
    <3>3. /\ pc[h] = "parked" /\ work[h].turn = c /\ h # j
          /\ \A m \in DOMAIN queue'[c] : queue'[c][m] # h
      BY <2>1, <3>1, <3>2
    <3>4. \A d \in Containers \ {c} :
            queue'[d] = queue[d] /\ \A m \in DOMAIN queue[d] : queue[d][m] # h
      BY <3>1, <3>3
    <3>5. ASSUME NEW d \in Containers PROVE queue'[d] # <<>> => turn'[d] = 1
      BY <2>4, <3>1, <3>4
    <3>6. ASSUME NEW d \in Containers, NEW m \in DOMAIN queue'[d]
          PROVE  /\ pc'[queue'[d][m]] = "parked" /\ work'[queue'[d][m]].turn = d
                 /\ \A k \in DOMAIN queue'[d] : queue'[d][k] = queue'[d][m] => k = m
      <4>1. CASE d = c
        <5>1. queue'[c][m] \in Jobs \ {j, h} /\ pc[queue'[c][m]] = "parked"
              /\ work[queue'[c][m]].turn = c
          BY <2>1, <3>1, <3>2, <3>3, <4>1
        <5>2. \A k \in DOMAIN queue'[d] : queue'[d][k] = queue'[d][m] => k = m
          BY <3>2, <3>1, <4>1
        <5> QED BY <2>1, <3>1, <4>1, <5>1, <5>2
      <4>2. CASE d # c
        BY <2>1, <3>1, <3>4, <4>2
      <4> QED BY <4>1, <4>2
    <3>7. ASSUME NEW d \in Containers, NEW i \in Jobs, pc'[i] = "parked", work'[i].turn = d
          PROVE  \E m \in DOMAIN queue'[d] : queue'[d][m] = i
      <4>1. i \notin {j, h} /\ pc[i] = "parked" /\ work[i].turn = d
        BY <2>1, <3>1, <3>3, <3>7
      <4>2. PICK m \in DOMAIN queue[d] : queue[d][m] = i
        BY <4>1
      <4>3. CASE d = c
        <5>1. m # 1
          BY <3>2, <4>1, <4>2, <4>3
        <5>2. m - 1 \in DOMAIN queue'[c]
          BY <3>1, <3>2, <4>2, <4>3, <5>1
        <5> QED BY <3>2, <4>2, <4>3, <5>2
      <4>4. CASE d # c
        BY <3>4, <4>2, <4>4
      <4> QED BY <4>3, <4>4
    <3> QED BY <3>5, <3>6, <3>7
  <2> QED BY <2>2, <2>3, <2>4
<1>6. ASSUME NEW j \in Jobs, Disconnect(j) PROVE QueueIsSound'
  BY <1>6 DEF Disconnect
<1>7. ASSUME NEW j \in Jobs, NEW w \in Handlers, Ask(j, w) PROVE QueueIsSound'
  BY <1>7 DEF Ask
<1>8. CASE Restart
  BY <1>8 DEF Restart, NoWork
<1>9. CASE UNCHANGED vars
  BY <1>9 DEF vars
<1> QED BY <1>1, <1>2, <1>3, <1>4, <1>5, <1>6, <1>7, <1>8, <1>9 DEF Next, Request

----------------------------------------------------------------------------
\* TurnIsHeldOnce is inductive: the token is put in by a job that finds the
\* channel empty, and taken out by its one holder, or left to the first in line.
LEMMA TurnStep ==
  ASSUME TypeOK, WaitsForATurn, QueueIsSound, TurnIsHeldOnce, [Next]_vars
  PROVE  TurnIsHeldOnce'
<1> USE DEF TypeOK, WaitsForATurn, States, TurnIsHeldOnce, Holders
<1>1. ASSUME NEW j \in Jobs, Take(j) PROVE TurnIsHeldOnce'
  <2> DEFINE c == work[j].turn
  <2>1. /\ c \in Containers /\ turn[c] = 0 /\ pc[j] \in {"trying", "told"}
        /\ turn' = [turn EXCEPT ![c] = 1]
        /\ pc' = [pc EXCEPT ![j] = "running"]
        /\ UNCHANGED work
    BY <1>1 DEF Take
  <2>2. Holders(c)' = {j}
    BY <2>1
  <2>3. \A d \in Containers \ {c} : Holders(d)' = Holders(d) /\ turn'[d] = turn[d]
    BY <2>1
  <2> QED BY <2>1, <2>2, <2>3
<1>2. ASSUME NEW j \in Jobs, SayWaiting(j) PROVE TurnIsHeldOnce'
  BY <1>2 DEF SayWaiting
<1>3. ASSUME NEW j \in Jobs, Park(j) PROVE TurnIsHeldOnce'
  BY <1>3 DEF Park
<1>4. ASSUME NEW j \in Jobs, GiveUp(j) PROVE TurnIsHeldOnce'
  <2>1. /\ pc[j] # "running" /\ pc' = [pc EXCEPT ![j] = "over"]
        /\ work' = [work EXCEPT ![j] = NoWork] /\ turn' = turn
    BY <1>4 DEF GiveUp
  <2>2. \A d \in Containers : Holders(d)' = Holders(d)
    BY <2>1
  <2> QED BY <2>1, <2>2
<1>5. ASSUME NEW j \in Jobs, Finish(j) PROVE TurnIsHeldOnce'
  <2>1. pc[j] = "running" /\ work' = [work EXCEPT ![j] = NoWork] /\ NoWork.turn = NoTurn
    BY <1>5 DEF Finish, PassOn, NoWork
  <2>2. CASE work[j].turn = NoTurn
    <3>1. pc' = [pc EXCEPT ![j] = "over"] /\ turn' = turn
      BY <1>5, <2>2 DEF Finish, PassOn
    <3>2. \A d \in Containers : Holders(d)' = Holders(d)
      BY <2>1, <2>2, <3>1, TurnsAssumption
    <3> QED BY <3>1, <3>2
  <2>3. ASSUME NEW c \in Containers, work[j].turn = c, queue[c] = <<>>
        PROVE  TurnIsHeldOnce'
    <3>1. /\ pc' = [pc EXCEPT ![j] = "over"]
          /\ turn' = [turn EXCEPT ![c] = 0]
      BY <1>5, <2>3, TurnsAssumption DEF Finish, PassOn
    <3>2. Holders(c)' = {}
      BY <2>1, <2>3, <3>1, TurnsAssumption
    <3>3. \A d \in Containers \ {c} : Holders(d)' = Holders(d) /\ turn'[d] = turn[d]
      BY <2>1, <2>3, <3>1, TurnsAssumption
    <3> QED BY <3>1, <3>2, <3>3
  <2>4. ASSUME NEW c \in Containers, work[j].turn = c, queue[c] # <<>>
        PROVE  TurnIsHeldOnce'
    <3> DEFINE h == Head(queue[c])
    <3>1. /\ pc' = [pc EXCEPT ![j] = "over", ![h] = "running"]
          /\ turn' = turn
      BY <1>5, <2>4, TurnsAssumption DEF Finish, PassOn
    <3>2. h \in Jobs /\ pc[h] = "parked" /\ work[h].turn = c /\ h # j /\ turn[c] = 1
      <4>1. 1 \in DOMAIN queue[c] /\ h = queue[c][1]
        BY <2>4, <3>1
      <4>2. queue[c] # <<>> => turn[c] = 1
        BY <3>1 DEF QueueIsSound
      <4>3. pc[queue[c][1]] = "parked" /\ work[queue[c][1]].turn = c
        BY <3>1, <4>1 DEF QueueIsSound
      <4> QED BY <2>1, <2>4, <3>1, <4>1, <4>2, <4>3
    <3> HIDE DEF h
    <3>3. Holders(c)' = {h}
      BY <2>1, <2>4, <3>1, <3>2, TurnsAssumption
    <3>4. \A d \in Containers \ {c} : Holders(d)' = Holders(d)
      BY <2>1, <2>4, <3>1, <3>2, TurnsAssumption
    <3> HIDE DEF Holders
    <3>5. ASSUME NEW d \in Containers
          PROVE  /\ turn'[d] = 1 <=> Holders(d)' # {}
                 /\ \A a, b \in Holders(d)' : a = b
      <4>1. CASE d = c
        BY <2>4, <3>1, <3>2, <3>3, <4>1
      <4>2. CASE d # c
        BY <3>1, <3>4, <4>2
      <4> QED BY <4>1, <4>2
    <3> QED BY <3>5
  <2>5. work[j].turn \in Containers \cup {NoTurn}
    OBVIOUS
  <2> HIDE DEF TurnIsHeldOnce
  <2> QED BY <2>2, <2>3, <2>4, <2>5
<1>6. ASSUME NEW j \in Jobs, Disconnect(j) PROVE TurnIsHeldOnce'
  BY <1>6 DEF Disconnect
<1>7. ASSUME NEW j \in Jobs, NEW w \in Handlers, Ask(j, w) PROVE TurnIsHeldOnce'
  <2>1. /\ pc[j] = "new" /\ work' = [work EXCEPT ![j] = w] /\ turn' = turn
        /\ pc' = [pc EXCEPT ![j] = IF w.turn = NoTurn THEN "running" ELSE "trying"]
    BY <1>7 DEF Ask
  <2>2. \A d \in Containers : Holders(d)' = Holders(d)
    BY <2>1, HandlersType, TurnsAssumption
  <2> QED BY <2>1, <2>2
<1>8. CASE Restart
  BY <1>8, TurnsAssumption DEF Restart, NoWork
<1>9. CASE UNCHANGED vars
  BY <1>9 DEF vars
<1> QED BY <1>1, <1>2, <1>3, <1>4, <1>5, <1>6, <1>7, <1>8, <1>9 DEF Next, Request

\* Before the first request no turn is taken and nobody waits.
LEMMA InductiveInit == Init => IInv
BY TurnsAssumption DEF Init, IInv, TypeOK, WaitsForATurn, QueueIsSound, TurnIsHeldOnce,
                       Holders, NoWork, States

\* Every step, a request's, a release or a restart of the agent, preserves IInv.
LEMMA Inductive == IInv /\ [Next]_vars => IInv'
BY TypeStep, QueueStep, TurnStep DEF IInv

\* IInv holds in every reachable state.
LEMMA InductiveAlways == Spec => []IInv
BY InductiveInit, Inductive, PTL DEF Spec

\* Every variable keeps its type, whatever requests arrive.
THEOREM TypeCorrect == Spec => []TypeOK
BY InductiveAlways, PTL DEF IInv

\* The token of a container's channel belongs to exactly one running job: it is
\* never held twice and never lost, also when requests give up while they wait.
THEOREM TurnHeldOnce == Spec => []TurnIsHeldOnce
BY InductiveAlways, PTL DEF IInv

\* Both together, as they are model-checked.
THEOREM TurnsSound == Spec => []TurnsInv
BY TypeCorrect, TurnHeldOnce, PTL DEF TurnsInv

\* The queue of a container holds exactly the requests parked on it, once each,
\* and only while somebody has the turn.
THEOREM QueueSound == Spec => []QueueIsSound
BY InductiveAlways, PTL DEF IInv

\* Two requests that wait are served in the order they parked: the only step that
\* lets a parked one run takes it from the front of its queue.
THEOREM ServedInOrder == Spec => FirstComeFirstServed
<1>1. ASSUME IInv, [Next]_vars, NEW c \in Containers,
             NEW m \in DOMAIN queue[c], NEW n \in DOMAIN queue[c],
             m < n, pc'[queue[c][n]] = "running"
      PROVE  FALSE
  <2> DEFINE q == queue[c]
             i == q[n]
  <2>1. /\ q \in Seq(Jobs) /\ m \in 1..Len(q) /\ n \in 1..Len(q) /\ i \in Jobs
        /\ pc[i] = "parked" /\ work[i].turn = c
        /\ pc \in [Jobs -> States]
    BY <1>1 DEF IInv, TypeOK, QueueIsSound
  <2>2. \A j \in Jobs : ~Take(j) /\ ~SayWaiting(j) /\ ~Park(j) /\ ~GiveUp(j)
    BY <1>1, <2>1 DEF Take, SayWaiting, Park, GiveUp, States
  <2>3. \A j \in Jobs : ~Disconnect(j) /\ \A w \in Handlers : ~Ask(j, w)
    BY <1>1, <2>1 DEF Disconnect, Ask, States
  <2>4. ~Restart /\ ~UNCHANGED vars
    BY <1>1, <2>1 DEF Restart, vars
  <2>5. PICK j \in Jobs : Finish(j)
    BY <1>1, <2>2, <2>3, <2>4 DEF Next, Request
  <2>6. /\ work[j].turn \in Containers /\ queue[work[j].turn] # <<>>
        /\ i = Head(queue[work[j].turn])
    <3>1. pc[j] = "running" /\ j # i
      BY <2>1, <2>5 DEF Finish, PassOn
    <3>2. pc' # [pc EXCEPT ![j] = "over"]
      BY <1>1, <2>1, <3>1
    <3>3. /\ work[j].turn # NoTurn /\ queue[work[j].turn] # <<>>
          /\ pc' = [pc EXCEPT ![j] = "over", ![Head(queue[work[j].turn])] = "running"]
      BY <2>5, <3>2 DEF Finish, PassOn
    <3>4. work[j].turn \in Containers
      BY <1>1, <3>3 DEF IInv, TypeOK
    <3> QED BY <1>1, <2>1, <3>1, <3>3, <3>4
  <2>7. 1 \in DOMAIN queue[work[j].turn] /\ i = queue[work[j].turn][1]
    BY <1>1, <2>6 DEF IInv, TypeOK
  <2>8. work[j].turn = c
    BY <1>1, <2>1, <2>6, <2>7 DEF IInv, QueueIsSound
  <2>9. n = 1
    BY <1>1, <2>1, <2>7, <2>8 DEF IInv, QueueIsSound
  <2> QED BY <1>1, <2>1, <2>9
<1>2. IInv /\ [Next]_vars =>
        [\A c \in Containers : \A m, n \in DOMAIN queue[c] :
           m < n /\ pc'[queue[c][n]] = "running" => pc'[queue[c][m]] # "parked"]_vars
  BY <1>1
<1> QED BY <1>2, InductiveAlways, PTL DEF Spec, FirstComeFirstServed

----------------------------------------------------------------------------
(* Handlers that write only where they take their turn: all of them but the two *)
(* that the kinds "share" and "inspect" stand for.                              *)

OnlyOwnTurns == Kinds \subseteq {"own", "host"}

WritesItsTurn == \A j \in Jobs : work[j].writes = {work[j].turn} \cap Containers

\* A request is given its writes when it asks and loses them when it is over, so
\* a handler that writes where it takes its turn goes on doing so.
LEMMA WritesStep ==
  ASSUME OnlyOwnTurns, TypeOK, WritesItsTurn, [Next]_vars
  PROVE  WritesItsTurn'
<1>1. \A w \in Handlers \cup {NoWork} : w.writes = {w.turn} \cap Containers
  BY TurnsAssumption DEF OnlyOwnTurns, Handlers, NoWork
<1>2. CASE UNCHANGED work
  BY <1>2 DEF WritesItsTurn
<1>3. ASSUME NEW j \in Jobs, NEW w \in Handlers \cup {NoWork}, work' = [work EXCEPT ![j] = w]
      PROVE  WritesItsTurn'
  BY <1>1, <1>3 DEF WritesItsTurn, TypeOK
<1>4. CASE Restart
  BY <1>1, <1>4 DEF Restart, WritesItsTurn
<1> QED BY <1>2, <1>3, <1>4
        DEF Next, Request, Take, SayWaiting, Park, GiveUp, Finish, PassOn, Disconnect, Ask, vars

\* With such handlers only, a job always writes where it takes its turn.
LEMMA WritesAlways == OnlyOwnTurns => (Spec => []WritesItsTurn)
<1>1. Init => WritesItsTurn
  BY TurnsAssumption DEF Init, WritesItsTurn, NoWork
<1>2. OnlyOwnTurns /\ TypeOK /\ WritesItsTurn /\ [Next]_vars => WritesItsTurn'
  BY WritesStep
<1> SUFFICES ASSUME OnlyOwnTurns PROVE Spec => []WritesItsTurn
  OBVIOUS
<1> QED BY <1>1, <1>2, TypeCorrect, PTL DEF Spec

\* Whoever writes to a container holds its turn.
LEMMA WritersHold ==
  ASSUME WritesItsTurn, NEW c \in Containers
  PROVE  Writers(c) = Holders(c)
BY DEF WritesItsTurn, Writers, Holders

\* One job at a time writes to a container, as long as every handler writes
\* nowhere but where it takes its turn.
THEOREM OneWriterAtATime == OnlyOwnTurns => (Spec => []OneWriterPerContainer)
<1>1. IInv /\ WritesItsTurn => OneWriterPerContainer
  BY WritersHold DEF IInv, TurnIsHeldOnce, OneWriterPerContainer
<1> SUFFICES ASSUME OnlyOwnTurns PROVE Spec => []OneWriterPerContainer
  OBVIOUS
<1>2. Spec => []WritesItsTurn
  BY WritesAlways
<1> QED BY <1>1, <1>2, InductiveAlways, PTL

----------------------------------------------------------------------------
(* The refinement: who writes to each container follows the abstract lock.     *)

Writing == [c \in Containers |-> Writers(c)]

\* A step that changes pc and work of one job at most, and leaves it writing
\* nowhere before and after, is a stutter of the lock.
LEMMA StutterStep ==
  ASSUME NEW j \in Jobs,
         \A i \in Jobs \ {j} : (pc'[i] = "running") = (pc[i] = "running")
                               /\ work'[i] = work[i],
         pc[j] # "running" \/ work[j].writes = {},
         pc'[j] # "running" \/ work'[j].writes = {}
  PROVE  Writing' = Writing
BY DEF Writing, Writers

\* Every step of the channels is a step of the lock, or a stutter: a free channel
\* taken is Begin, a release is End, a release to the first in line is Handover.
LEMMA RefinementStep ==
  ASSUME OnlyOwnTurns, IInv, WritesItsTurn, IInv', WritesItsTurn', [Next]_vars
  PROVE  [Abstract!Next]_Writing
<1> USE DEF Writing
<1>writers. \A c \in Containers : Writers(c) = Holders(c) /\ Writers(c)' = Holders(c)'
  BY WritersHold DEF WritesItsTurn, Writers, Holders
<1>types. TypeOK /\ TypeOK'
  BY DEF IInv
<1>1. ASSUME NEW j \in Jobs, Take(j) PROVE [Abstract!Next]_Writing
  <2> DEFINE c == work[j].turn
  <2>1. /\ c \in Containers /\ turn[c] = 0 /\ pc[j] # "running"
        /\ pc' = [pc EXCEPT ![j] = "running"] /\ work' = work
    BY <1>1 DEF Take, IInv, WaitsForATurn
  <2>2. Writers(c) = {}
    BY <1>writers, <2>1 DEF IInv, TurnIsHeldOnce
  <2>3. work[j].writes = {c}
    BY <2>1 DEF WritesItsTurn
  <2>4. \A d \in Containers : Writers(d)' = IF d = c THEN {j} ELSE Writers(d)
    BY <1>types, <2>1, <2>2, <2>3 DEF Writers, TypeOK
  <2>5. Abstract!Begin(j, c)
    BY <2>1, <2>2, <2>4 DEF Abstract!Begin
  <2> QED BY <2>1, <2>5 DEF Abstract!Next
<1>2. ASSUME NEW j \in Jobs, SayWaiting(j) PROVE Writing' = Writing
  BY <1>2, <1>types, StutterStep DEF SayWaiting, TypeOK, States
<1>3. ASSUME NEW j \in Jobs, Park(j) PROVE Writing' = Writing
  BY <1>3, <1>types, StutterStep DEF Park, TypeOK, States
<1>4. ASSUME NEW j \in Jobs, GiveUp(j) PROVE Writing' = Writing
  BY <1>4, <1>types, StutterStep DEF GiveUp, TypeOK, States
<1>5. ASSUME NEW j \in Jobs, Disconnect(j) PROVE Writing' = Writing
  BY <1>5 DEF Disconnect, Writers
<1>6. ASSUME NEW j \in Jobs, NEW w \in Handlers, Ask(j, w) PROVE Writing' = Writing
  <2>1. /\ pc[j] = "new" /\ work' = [work EXCEPT ![j] = w]
        /\ pc' = [pc EXCEPT ![j] = IF w.turn = NoTurn THEN "running" ELSE "trying"]
    BY <1>6 DEF Ask
  <2>2. pc'[j] = "running" => work'[j].writes = {}
    BY <1>types, <2>1, TurnsAssumption DEF WritesItsTurn, TypeOK
  <2> QED BY <1>types, <2>1, <2>2, StutterStep DEF TypeOK
<1>7. ASSUME NEW j \in Jobs, Finish(j) PROVE [Abstract!Next]_Writing
  <2>1. pc[j] = "running" /\ work' = [work EXCEPT ![j] = NoWork]
    BY <1>7 DEF Finish, PassOn
  <2>2. CASE work[j].turn = NoTurn
    <3>1. pc' = [pc EXCEPT ![j] = "over"] /\ work[j].writes = {}
      BY <1>7, <2>2, TurnsAssumption DEF Finish, PassOn, WritesItsTurn
    <3> QED BY <1>types, <2>1, <3>1, StutterStep DEF TypeOK, States
  <2>3. ASSUME NEW c \in Containers, work[j].turn = c, queue[c] = <<>>
        PROVE  [Abstract!Next]_Writing
    <3>1. pc' = [pc EXCEPT ![j] = "over"] /\ work[j].writes = {c}
      BY <1>7, <2>3, TurnsAssumption DEF Finish, PassOn, WritesItsTurn
    <3>2. \A d \in Containers : Writers(d)' = IF d = c THEN Writers(d) \ {j} ELSE Writers(d)
      BY <1>types, <2>1, <3>1 DEF Writers, TypeOK
    <3>3. j \in Writers(c)
      BY <2>1, <3>1 DEF Writers
    <3>4. Abstract!End(j, c)
      BY <3>2, <3>3 DEF Abstract!End
    <3> QED BY <3>4 DEF Abstract!Next
  <2>4. ASSUME NEW c \in Containers, work[j].turn = c, queue[c] # <<>>
        PROVE  [Abstract!Next]_Writing
    <3> DEFINE h == Head(queue[c])
    <3>1. pc' = [pc EXCEPT ![j] = "over", ![h] = "running"] /\ work[j].writes = {c}
      BY <1>7, <2>4, TurnsAssumption DEF Finish, PassOn, WritesItsTurn
    <3>2. h \in Jobs /\ pc[h] = "parked" /\ work[h].turn = c /\ h # j
      <4>1. 1 \in DOMAIN queue[c] /\ h = queue[c][1]
        BY <1>types, <2>4 DEF TypeOK
      <4>2. pc[queue[c][1]] = "parked" /\ work[queue[c][1]].turn = c
        BY <4>1 DEF IInv, QueueIsSound
      <4> QED BY <1>types, <2>1, <2>4, <4>1, <4>2 DEF TypeOK
    <3>3. work[h].writes = {c}
      BY <3>2 DEF WritesItsTurn
    <3> HIDE DEF h
    <3>4. j \in Writers(c) /\ \A i \in Writers(c) : i = j
      BY <1>writers, <2>1, <2>4, <3>1 DEF Writers, IInv, TurnIsHeldOnce
    <3>5. \A d \in Containers : Writers(d)' = IF d = c THEN {h} ELSE Writers(d)
      BY <1>types, <2>1, <3>1, <3>2, <3>3, <3>4 DEF Writers, TypeOK, NoWork
    <3>6. Abstract!Handover(j, h, c)
      BY <3>4, <3>5 DEF Abstract!Handover
    <3> QED BY <3>2, <3>6 DEF Abstract!Next
  <2>5. work[j].turn \in Containers \cup {NoTurn}
    BY <1>types DEF TypeOK
  <2> QED BY <2>2, <2>3, <2>4, <2>5
<1>8. CASE Restart
  <2>1. \A c \in Containers : Writers(c)' = {}
    BY <1>8 DEF Restart, Writers
  <2> QED BY <2>1 DEF Abstract!Next, Abstract!Stop
<1>9. CASE UNCHANGED vars
  BY <1>9 DEF vars, Writers
<1> HIDE DEF Writing
<1> QED BY <1>1, <1>2, <1>3, <1>4, <1>5, <1>6, <1>7, <1>8, <1>9 DEF Next, Request

\* The channels and their queues implement the abstract lock of OneWriter, as
\* long as every handler writes nowhere but where it takes its turn.
THEOREM TurnsImplementOneWriter == OnlyOwnTurns => (Spec => ImplementsOneWriter)
<1> SUFFICES ASSUME OnlyOwnTurns PROVE Spec => ImplementsOneWriter
  OBVIOUS
<1>1. Init => Abstract!Init
  BY DEF Init, Abstract!Init, Writers
<1>2. IInv /\ WritesItsTurn /\ IInv' /\ WritesItsTurn' /\ [Next]_vars
        => [Abstract!Next]_[c \in Containers |-> Writers(c)]
  BY RefinementStep DEF Writing
<1>3. Spec => []WritesItsTurn
  BY WritesAlways
<1> QED BY <1>1, <1>2, <1>3, InductiveAlways, PTL
        DEF Spec, ImplementsOneWriter, Abstract!Spec

================================================================================
