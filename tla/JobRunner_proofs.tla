---------------------------- MODULE JobRunner_proofs ----------------------------
(* What the runner and its journal promise for any number of jobs, streams,      *)
(* failing writes and restarts of the daemon.                                  *)
EXTENDS JobRunner, FiniteSetTheorems, SequenceTheorems, TLAPS

Rowed == [status : {"none", "running", "interrupted"} \cup Finished, events : Nat]
Clientele == [job : Jobs \cup {NoJob}, queue : Seq(Nat), got : Seq(Nat),
              open : BOOLEAN, live : BOOLEAN, full : BOOLEAN]

Beginning == {"inserted", "recorded", "working"}

\* What the phase of a goroutine says of its job, and what the daemon holds of it:
\* nothing that ran is left to one that died.
Life ==
  /\ \A j \in Jobs :
       /\ phase[j] = "new" => status[j] = "none" /\ started[j] = 0 /\ journal[j] = NoRow
       /\ phase[j] \in Beginning => status[j] = "running" /\ j \in memory
       /\ phase[j] \in {"ended", "emitted", "written", "closed"} => status[j] \in Finished
       /\ j \in memory => phase[j] \notin {"new", "lost"}
  /\ ~up => memory = {} /\ \A j \in Jobs : phase[j] \notin Alive

\* Besides what the journal tells: until the last Record a row is none or running,
\* so that one which says more belongs to a goroutine that writes no more.
Told ==
  /\ JournalTellsTheTruth
  /\ \A j \in Jobs :
       /\ phase[j] \in Beginning \cup {"ended", "emitted"}
            => journal[j].status \in {"none", "running"}
       /\ journal[j].status = "running" => phase[j] # "new"

\* From the last Record on the whole row is there, or enough jobs started later.
Later(j) == {k \in Jobs : started[k] > started[j]}
Written ==
  \A j \in Jobs :
    phase[j] \in {"written", "closed"} /\ faults = 0 =>
      \/ journal[j] = [status |-> status[j], events |-> events[j]]
      \/ Cardinality(Later(j)) >= JournalKept

\* Whoever listened from the start of a job is registered as long as it emits.
Listening ==
  /\ NoOrphanListener
  /\ \A j \in Jobs : phase[j] = "new" => listeners[j] = {}
  /\ \A c \in Clients : client[c].live =>
       /\ client[c].job \in Jobs
       /\ c \in listeners[client[c].job] \/ phase[client[c].job] = "closed"
  /\ WholeStory

IInv == TypeOK /\ Life /\ Told /\ Written /\ Listening

----------------------------------------------------------------------------
(* What Record does to the rows, and to the rows of others.                    *)

LEMMA NewestOf ==
  ASSUME TypeOK, NEW rows \in SUBSET Jobs, NEW i \in rows, i \notin Newest(rows)
  PROVE  Cardinality(Later(i)) >= JournalKept
<1> DEFINE L == {k \in rows : started[k] > started[i]}
<1>1. IsFiniteSet(Later(i)) /\ L \subseteq Later(i)
  BY RunnerAssumption, FS_Subset DEF Later
<1>2. Cardinality(L) \in Nat /\ Cardinality(Later(i)) \in Nat
      /\ Cardinality(L) <= Cardinality(Later(i))
  BY <1>1, FS_Subset, FS_CardinalityType
<1>3. ~(Cardinality(L) < JournalKept)
  BY DEF Newest
<1> QED BY <1>2, <1>3, RunnerAssumption

LEMMA RecordRows ==
  ASSUME TypeOK, NEW j \in Jobs, Record(j)
  PROVE  /\ journal' \in [Jobs -> Rowed]
         /\ faults' \in Nat
         /\ \A i \in Jobs \ {j} : journal'[i] \in {journal[i], NoRow}
         /\ journal'[j] \in {journal[j], NoRow, [status |-> status[j], events |-> events[j]]}
<1> DEFINE row == [status |-> status[j], events |-> events[j]]
<1>t. /\ journal \in [Jobs -> Rowed] /\ faults \in Nat
      /\ NoRow \in Rowed /\ row \in Rowed
  BY DEF TypeOK, Rowed, NoRow
<1>u. Upserted(j) = [journal EXCEPT ![j] = row]
  BY DEF Upserted
<1> HIDE DEF row
<1>1. CASE journal' = Pruned(Upserted(j), Newest(Rows \cup {j})) /\ UNCHANGED faults
  <2>1. journal' = [i \in Jobs |-> IF i \in Newest(Rows \cup {j}) THEN Upserted(j)[i] ELSE NoRow]
    BY <1>1 DEF Pruned
  <2> QED BY <1>1, <2>1, <1>u, <1>t DEF row
<1>2. CASE faults' = faults + 1 /\ journal' = Upserted(j)
  BY <1>2, <1>u, <1>t DEF row
<1>3. CASE faults' = faults + 1 /\ journal' = journal
  BY <1>3, <1>t
<1> QED BY <1>1, <1>2, <1>3 DEF Record

\* With no failing write, the row is there unless enough jobs started later; and
\* a row that goes is one of those.
LEMMA RecordKeeps ==
  ASSUME TypeOK, NEW j \in Jobs, Record(j), faults' = 0
  PROVE  /\ faults = 0
         /\ \/ journal'[j] = [status |-> status[j], events |-> events[j]]
            \/ Cardinality(Later(j)) >= JournalKept
         /\ \A i \in Rows \ {j} :
              \/ journal'[i] = journal[i]
              \/ Cardinality(Later(i)) >= JournalKept
<1> DEFINE row == [status |-> status[j], events |-> events[j]]
<1> DEFINE rows == Rows \cup {j}
<1>t. journal \in [Jobs -> Rowed] /\ faults \in Nat /\ rows \in SUBSET Jobs
  BY DEF TypeOK, Rowed, Rows
<1>1. journal' = Pruned(Upserted(j), Newest(rows)) /\ faults' = faults
  BY <1>t DEF Record
<1>2. Upserted(j) = [journal EXCEPT ![j] = row]
  BY DEF Upserted
<1> HIDE DEF row
<1>3. /\ \A i \in Jobs : journal'[i] = IF i \in Newest(rows) THEN Upserted(j)[i] ELSE NoRow
      /\ Upserted(j)[j] = row
      /\ \A i \in Jobs \ {j} : Upserted(j)[i] = journal[i]
  BY <1>1, <1>2, <1>t DEF Pruned
<1>4. ASSUME NEW i \in Rows \ {j}
      PROVE  journal'[i] = journal[i] \/ Cardinality(Later(i)) >= JournalKept
  BY <1>3, <1>4, <1>t, NewestOf DEF Rows
<1>5. journal'[j] = row \/ Cardinality(Later(j)) >= JournalKept
  BY <1>3, <1>t, NewestOf
<1> QED BY <1>1, <1>4, <1>5 DEF row

----------------------------------------------------------------------------
(* Types.                                                                    *)

LEMMA InitTyped == Init => TypeOK
<1> SUFFICES ASSUME Init PROVE TypeOK
  OBVIOUS
<1>1. Idle \in Clientele /\ NoRow \in Rowed
  <2>1. <<>> \in Seq(Nat)
    OBVIOUS
  <2> QED BY <2>1 DEF Idle, NoRow, Clientele, Rowed
<1>2. client \in [Clients -> Clientele] /\ journal \in [Jobs -> Rowed]
  BY <1>1 DEF Init
<1>3. /\ phase \in [Jobs -> Phases] /\ status \in [Jobs -> {"none", "running"} \cup Finished]
      /\ events \in [Jobs -> Nat] /\ started \in [Jobs -> Nat] /\ ended \in [Jobs -> Nat]
  BY DEF Init, Phases
<1>4. stopped \in [Jobs -> BOOLEAN] /\ listeners \in [Jobs -> SUBSET Clients]
  BY DEF Init
<1>5. up \in BOOLEAN /\ memory \in SUBSET Jobs
  BY DEF Init
<1>6. clock \in Nat /\ faults \in Nat /\ crashes \in Nat
  BY DEF Init
<1> QED BY <1>2, <1>3, <1>4, <1>5, <1>6 DEF TypeOK, Clientele, Rowed

\* An offer leaves a client what it had taken, and adds at most one to its queue.
LEMMA OfferTo ==
  ASSUME NEW c \in Clients, client[c] \in Clientele, NEW n \in Nat
  PROVE  /\ Offer(c, n) \in Clientele
         /\ Offer(c, n).job = client[c].job /\ Offer(c, n).open = client[c].open
         /\ Offer(c, n).live = client[c].live /\ Offer(c, n).got = client[c].got
         /\ ~Offer(c, n).full =>
              ~client[c].full /\ Offer(c, n).queue = Append(client[c].queue, n)
<1>1. CASE Len(client[c].queue) < ChanCap
  <2>1. Offer(c, n) = [client[c] EXCEPT !.queue = Append(client[c].queue, n)]
    BY <1>1 DEF Offer
  <2>2. Append(client[c].queue, n) \in Seq(Nat)
    BY DEF Clientele
  <2> QED BY <2>1, <2>2 DEF Clientele
<1>2. CASE ~(Len(client[c].queue) < ChanCap)
  <2>1. Offer(c, n) = [client[c] EXCEPT !.full = TRUE]
    BY <1>2 DEF Offer
  <2> QED BY <2>1 DEF Clientele
<1> QED BY <1>1, <1>2

LEMMA EmitTyped ==
  ASSUME TypeOK, NEW j \in Jobs, Emit(j)
  PROVE  events' \in [Jobs -> Nat] /\ client' \in [Clients -> Clientele]
<1>1. /\ client \in [Clients -> Clientele] /\ events \in [Jobs -> Nat]
  BY DEF TypeOK, Clientele
<1>2. \A c \in Clients : Offer(c, events[j] + 1) \in Clientele
  BY <1>1, OfferTo
<1> QED BY <1>1, <1>2 DEF Emit

\* What Receive makes of a client.
Taken(r) == [r EXCEPT !.queue = Tail(r.queue), !.got = Append(r.got, Head(r.queue))]

LEMMA TakenFrom ==
  ASSUME NEW r \in Clientele, r.queue # <<>>
  PROVE  /\ Taken(r) \in Clientele /\ Taken(r).queue = Tail(r.queue)
         /\ Taken(r).got = Append(r.got, Head(r.queue)) /\ Taken(r).job = r.job
         /\ Taken(r).open = r.open /\ Taken(r).live = r.live /\ Taken(r).full = r.full
<1> DEFINE q == Tail(r.queue)
<1> DEFINE g == Append(r.got, Head(r.queue))
<1> DEFINE half == [r EXCEPT !.queue = q]
<1> DEFINE both == [half EXCEPT !.got = g]
<1>0. q \in Seq(Nat) /\ g \in Seq(Nat)
  BY DEF Clientele
<1> HIDE DEF q, g
<1>1. /\ half \in Clientele /\ half.queue = q /\ half.job = r.job /\ half.got = r.got
      /\ half.open = r.open /\ half.live = r.live /\ half.full = r.full
  BY <1>0 DEF Clientele
<1> HIDE DEF half
<1>2. /\ both \in Clientele /\ both.queue = q /\ both.job = r.job /\ both.got = g
      /\ both.open = r.open /\ both.live = r.live /\ both.full = r.full
  BY <1>0, <1>1 DEF Clientele
<1> HIDE DEF both
<1>3. both = Taken(r)
  BY DEF both, half, q, g, Taken
<1> QED BY <1>2, <1>3 DEF q, g

LEMMA ReceiveTakes ==
  ASSUME TypeOK, NEW c \in Clients, Receive(c)
  PROVE  /\ client[c] \in Clientele /\ client[c].queue # <<>>
         /\ client' = [client EXCEPT ![c] = Taken(client[c])]
         /\ client'[c] = Taken(client[c])
         /\ \A d \in Clients \ {c} : client'[d] = client[d]
<1>1. client \in [Clients -> Clientele]
  BY DEF TypeOK, Clientele
<1>2. client' = [client EXCEPT ![c] = Taken(client[c])]
  BY <1>1 DEF Receive, Taken, Clientele
<1> QED BY <1>1, <1>2 DEF Receive

LEMMA StepTyped == TypeOK /\ [Next]_vars => TypeOK'
<1> SUFFICES ASSUME TypeOK, [Next]_vars PROVE TypeOK'
  OBVIOUS
<1>t. /\ client \in [Clients -> Clientele] /\ journal \in [Jobs -> Rowed]
      /\ phase \in [Jobs -> Phases] /\ status \in [Jobs -> {"none", "running"} \cup Finished]
      /\ events \in [Jobs -> Nat] /\ started \in [Jobs -> Nat] /\ ended \in [Jobs -> Nat]
      /\ listeners \in [Jobs -> SUBSET Clients] /\ memory \in SUBSET Jobs
      /\ clock \in Nat /\ faults \in Nat /\ crashes \in Nat
  BY DEF TypeOK, Clientele, Rowed
<1>i. Idle \in Clientele
  <2>1. <<>> \in Seq(Nat)
    OBVIOUS
  <2> QED BY <2>1 DEF Idle, Clientele
<1>1. ASSUME NEW j \in Jobs, Start(j) PROVE TypeOK'
  <2>1. memory' \in SUBSET Jobs
    BY <1>1, <1>t DEF Start, Remembered
  <2>2. phase' \in [Jobs -> Phases] /\ status' \in [Jobs -> {"none", "running"} \cup Finished]
    BY <1>1, <1>t DEF Start, Phases
  <2>3. started' \in [Jobs -> Nat] /\ clock' \in Nat
    BY <1>1, <1>t DEF Start
  <2> QED BY <1>1, <2>1, <2>2, <2>3 DEF Start, TypeOK
<1>2. ASSUME NEW j \in Jobs, RecordStart(j) \/ RecordEnd(j) PROVE TypeOK'
  <2>1. phase' \in [Jobs -> Phases]
    BY <1>2, <1>t DEF RecordStart, RecordEnd, Phases
  <2>2. journal' \in [Jobs -> Rowed] /\ faults' \in Nat
    BY <1>2, RecordRows DEF RecordStart, RecordEnd
  <2> QED BY <1>2, <2>1, <2>2 DEF RecordStart, RecordEnd, TypeOK, Rowed
<1>3. ASSUME NEW j \in Jobs, Arm(j) PROVE TypeOK'
  <2>1. phase' \in [Jobs -> Phases]
    BY <1>3, <1>t DEF Arm, Phases
  <2> QED BY <1>3, <2>1 DEF Arm, TypeOK
<1>4. ASSUME NEW j \in Jobs, Step(j) \/ EmitEnd(j) PROVE TypeOK'
  <2>1. events' \in [Jobs -> Nat] /\ client' \in [Clients -> Clientele]
    BY <1>4, EmitTyped DEF Step, EmitEnd
  <2>2. phase' \in [Jobs -> Phases]
    BY <1>4, <1>t DEF Step, EmitEnd, Phases
  <2> QED BY <1>4, <2>1, <2>2 DEF Step, EmitEnd, TypeOK, Clientele
<1>5. ASSUME NEW j \in Jobs, Return(j, "done") \/ Return(j, "failed") PROVE TypeOK'
  <2>1. phase' \in [Jobs -> Phases] /\ status' \in [Jobs -> {"none", "running"} \cup Finished]
    BY <1>5, <1>t DEF Return, ReturnAs, Phases, Finished
  <2>2. ended' \in [Jobs -> Nat] /\ clock' \in Nat
    BY <1>5, <1>t DEF Return, ReturnAs
  <2> QED BY <1>5, <2>1, <2>2 DEF Return, ReturnAs, TypeOK
<1>6. ASSUME NEW j \in Jobs, CloseListeners(j) PROVE TypeOK'
  <2>1. phase' \in [Jobs -> Phases] /\ listeners' \in [Jobs -> SUBSET Clients]
    BY <1>6, <1>t DEF CloseListeners, Phases
  <2>2. client' \in [Clients -> Clientele]
    <3>1. \A c \in Clients : [client[c] EXCEPT !.open = FALSE] \in Clientele
      BY <1>t DEF Clientele
    <3> QED BY <1>6, <1>t, <3>1 DEF CloseListeners
  <2> QED BY <1>6, <2>1, <2>2 DEF CloseListeners, TypeOK, Clientele
<1>7. ASSUME NEW j \in Jobs, Cancel(j) PROVE TypeOK'
  <2>1. stopped' \in [Jobs -> BOOLEAN]
    BY <1>7 DEF Cancel, TypeOK
  <2> QED BY <1>7, <2>1 DEF Cancel, TypeOK
<1>8. ASSUME NEW c \in Clients, NEW j \in Jobs, Subscribe(c, j) PROVE TypeOK'
  <2> DEFINE replayed == IF events[j] <= ChanCap THEN events[j] ELSE ChanCap
  <2> DEFINE queue == [i \in 1..replayed |-> i]
  <2>1. replayed \in Nat
    BY <1>t, RunnerAssumption
  <2>2. queue \in Seq(Nat)
    BY <2>1
  <2>3. listeners' \in [Jobs -> SUBSET Clients]
    BY <1>8, <1>t DEF Subscribe, Replay
  <2>4. client' \in [Clients -> Clientele]
    <3> DEFINE new == [job |-> j, queue |-> queue, got |-> <<>>, open |-> status[j] = "running",
                       live |-> status[j] = "running", full |-> replayed < events[j]]
    <3>1. client' = [client EXCEPT ![c] = new]
      BY <1>8 DEF Subscribe, Replay
    <3>2. new \in Clientele
      BY <2>2 DEF Clientele
    <3> QED BY <3>1, <3>2, <1>t
  <2> QED BY <1>8, <2>3, <2>4 DEF Subscribe, Replay, TypeOK, Clientele, jobVars
<1>9. ASSUME NEW c \in Clients, Receive(c) PROVE TypeOK'
  <2>1. client' \in [Clients -> Clientele]
    <3>1. client[c] \in Clientele /\ client[c].queue # <<>>
      BY <1>9, ReceiveTakes
    <3>2. Taken(client[c]) \in Clientele
      BY <3>1, TakenFrom
    <3>3. client' = [client EXCEPT ![c] = Taken(client[c])]
      BY <1>9, ReceiveTakes
    <3> QED BY <3>2, <3>3, <1>t
  <2> QED BY <1>9, <2>1 DEF Receive, TypeOK, Clientele, jobVars
<1>10. ASSUME NEW c \in Clients, Leave(c) PROVE TypeOK'
  <2>1. listeners' \in [Jobs -> SUBSET Clients]
    BY <1>10, <1>t DEF Leave
  <2>2. client' \in [Clients -> Clientele]
    BY <1>10, <1>t, <1>i DEF Leave
  <2> QED BY <1>10, <2>1, <2>2 DEF Leave, TypeOK, Clientele, jobVars
<1>11. ASSUME Crash PROVE TypeOK'
  <2>1. phase' \in [Jobs -> Phases]
    BY <1>11, <1>t DEF Crash, Phases
  <2>2. listeners' \in [Jobs -> SUBSET Clients] /\ client' \in [Clients -> Clientele]
    BY <1>11, <1>i DEF Crash
  <2>3. memory' \in SUBSET Jobs /\ crashes' \in Nat
    BY <1>11, <1>t DEF Crash
  <2>4. up' \in BOOLEAN
    BY <1>11 DEF Crash
  <2> QED BY <1>11, <2>1, <2>2, <2>3, <2>4 DEF Crash, TypeOK, Clientele
<1>12. ASSUME Settle PROVE TypeOK'
  <2>1. journal' \in [Jobs -> Rowed]
    <3>1. \A j \in Jobs : [journal[j] EXCEPT !.status = "interrupted"] \in Rowed
      BY <1>t DEF Rowed
    <3> QED BY <1>12, <1>t, <3>1 DEF Settle, SettleRows
  <2>2. up' \in BOOLEAN
    BY <1>12 DEF Settle, SettleRows
  <2> QED BY <1>12, <2>1, <2>2 DEF Settle, SettleRows, TypeOK, Rowed, jobVars
<1>13. CASE UNCHANGED vars
  BY <1>13 DEF vars, jobVars, TypeOK
<1> QED
  BY <1>1, <1>2, <1>3, <1>4, <1>5, <1>6, <1>7, <1>8, <1>9, <1>10, <1>11, <1>12, <1>13
     DEF Next, Goroutine

----------------------------------------------------------------------------
(* Life: what a goroutine's phase says of its job.                             *)

LEMMA InitLife == Init => Life
BY DEF Init, Life, Beginning, Alive, NoRow

\* A step of a goroutine, or its start, is one job's.
LEMMA OthersLife ==
  ASSUME TypeOK, NEW j \in Jobs, Start(j) \/ Goroutine(j)
  PROVE  /\ up' = up
         /\ \A i \in Jobs \ {j} : /\ phase'[i] = phase[i] /\ status'[i] = status[i]
                                  /\ events'[i] = events[i] /\ started'[i] = started[i]
                                  /\ journal'[i] \in {journal[i], NoRow}
<1>t. /\ phase \in [Jobs -> Phases] /\ status \in [Jobs -> {"none", "running"} \cup Finished]
      /\ events \in [Jobs -> Nat] /\ started \in [Jobs -> Nat]
  BY DEF TypeOK
<1>1. CASE Start(j)
  BY <1>1, <1>t DEF Start
<1>2. CASE RecordStart(j) \/ RecordEnd(j)
  BY <1>2, <1>t, RecordRows DEF RecordStart, RecordEnd
<1>3. CASE Arm(j) \/ CloseListeners(j)
  BY <1>3, <1>t DEF Arm, CloseListeners
<1>4. CASE Step(j) \/ EmitEnd(j)
  BY <1>4, <1>t DEF Step, EmitEnd, Emit
<1>5. CASE Return(j, "done") \/ Return(j, "failed")
  BY <1>5, <1>t DEF Return, ReturnAs
<1> QED BY <1>1, <1>2, <1>3, <1>4, <1>5 DEF Goroutine

LEMMA StepLife == TypeOK /\ Life /\ [Next]_vars => Life'
<1> SUFFICES ASSUME TypeOK, Life, [Next]_vars PROVE Life'
  OBVIOUS
<1>t. /\ phase \in [Jobs -> Phases] /\ status \in [Jobs -> {"none", "running"} \cup Finished]
      /\ started \in [Jobs -> Nat] /\ memory \in SUBSET Jobs /\ clock \in Nat
  BY DEF TypeOK
<1>1. ASSUME NEW j \in Jobs, Start(j) PROVE Life'
  <2>1. /\ phase'[j] = "inserted" /\ status'[j] = "running" /\ started'[j] = clock + 1
        /\ up' = up /\ up
    BY <1>1, <1>t DEF Start
  <2>2. memory' \subseteq memory \cup {j}
    BY <1>1 DEF Start, Remembered
  <2>3. \A i \in memory \cup {j} : status[i] \notin Finished => i \in memory'
    BY <1>1 DEF Start, Remembered
  <2>4. j \in memory'
    BY <2>3, <1>1 DEF Life, Start, Finished
  <2>5. \A i \in Jobs : phase[i] \in Beginning => i \in memory'
    BY <2>3 DEF Life, Finished
  <2> QED BY <1>1, <2>1, <2>2, <2>4, <2>5, OthersLife DEF Life, Beginning, NoRow
<1>2. ASSUME NEW j \in Jobs, Goroutine(j) PROVE Life'
  <2>1. memory' = memory
    BY <1>2 DEF Goroutine, RecordStart, Arm, Step, Return, ReturnAs, EmitEnd, RecordEnd,
                CloseListeners
  <2>2. phase[j] \in Alive
    BY <1>2 DEF Goroutine, RecordStart, Arm, Step, Return, ReturnAs, EmitEnd, RecordEnd,
                CloseListeners, Alive
  <2>3. up /\ up' = up /\ phase[j] \notin {"new", "lost"}
    BY <2>2, <1>2, OthersLife DEF Life, Alive
  <2>4. \/ phase'[j] \in Beginning /\ status'[j] = "running" /\ j \in memory
        \/ phase'[j] \in {"ended", "emitted", "written", "closed"} /\ status'[j] \in Finished
    <3>1. CASE RecordStart(j) \/ Arm(j)
      BY <3>1, <1>t DEF RecordStart, Arm, Life, Beginning
    <3>2. CASE Step(j) \/ EmitEnd(j)
      BY <3>2, <1>t DEF Step, EmitEnd, Life, Beginning
    <3>3. CASE Return(j, "done") \/ Return(j, "failed")
      BY <3>3, <1>t DEF Return, ReturnAs, Finished
    <3>4. CASE RecordEnd(j) \/ CloseListeners(j)
      BY <3>4, <1>t DEF RecordEnd, CloseListeners, Life
    <3> QED BY <1>2, <3>1, <3>2, <3>3, <3>4 DEF Goroutine
  <2>5. \A i \in Jobs \ {j} :
          /\ phase'[i] = phase[i] /\ status'[i] = status[i] /\ started'[i] = started[i]
          /\ journal'[i] \in {journal[i], NoRow}
    BY <1>2, OthersLife
  <2> QED BY <2>1, <2>3, <2>4, <2>5 DEF Life, Beginning
<1>3. CASE UNCHANGED <<up, memory, phase, status, started, journal>>
  BY <1>3 DEF Life
<1>4. CASE Crash
  <2>1. up' = FALSE /\ memory' = {} /\ UNCHANGED <<status, started, journal>>
    BY <1>4 DEF Crash
  <2>2. \A i \in Jobs : phase'[i] = IF phase[i] \in Alive THEN "lost" ELSE phase[i]
    BY <1>4 DEF Crash
  <2> QED BY <2>1, <2>2 DEF Life, Beginning, Alive
<1>5. CASE Settle
  <2>1. up' = TRUE /\ UNCHANGED <<memory, phase, status, started>>
    BY <1>5 DEF Settle, SettleRows, jobVars
  <2>2. \A i \in Jobs : journal[i].status # "running" => journal'[i] = journal[i]
    BY <1>5 DEF Settle, SettleRows
  <2> QED BY <2>1, <2>2 DEF Life, NoRow
<1>6. ASSUME NEW c \in Clients, Receive(c) \/ Leave(c) \/ (\E j \in Jobs : Subscribe(c, j))
      PROVE  Life'
  BY <1>3, <1>6 DEF Receive, Leave, Subscribe, Replay, jobVars
<1>7. ASSUME NEW j \in Jobs, Cancel(j) PROVE Life'
  BY <1>3, <1>7 DEF Cancel
<1>8. CASE UNCHANGED vars
  BY <1>3, <1>8 DEF vars, jobVars
<1> QED BY <1>1, <1>2, <1>4, <1>5, <1>6, <1>7, <1>8 DEF Next

----------------------------------------------------------------------------
(* Told: what the journal claims.                                              *)

LEMMA InitTold == Init => Told
BY DEF Init, Told, JournalTellsTheTruth, Beginning, Finished, NoRow

LEMMA StepTold == TypeOK /\ Life /\ Told /\ [Next]_vars => Told'
<1> SUFFICES ASSUME TypeOK, Life, Told, [Next]_vars PROVE Told'
  OBVIOUS
<1>t. /\ phase \in [Jobs -> Phases] /\ status \in [Jobs -> {"none", "running"} \cup Finished]
      /\ journal \in [Jobs -> Rowed]
  BY DEF TypeOK, Rowed
<1>1. ASSUME NEW j \in Jobs, Start(j) PROVE Told'
  <2>1. journal' = journal /\ journal[j] = NoRow /\ phase'[j] = "inserted" /\ up' = up
    BY <1>1, <1>t DEF Start, Life
  <2>2. \A i \in Jobs \ {j} : phase'[i] = phase[i] /\ status'[i] = status[i]
    BY <1>1, OthersLife
  <2> QED BY <2>1, <2>2 DEF Told, JournalTellsTheTruth, NoRow, Finished
<1>2. ASSUME NEW j \in Jobs, Goroutine(j) PROVE Told'
  <2>1. \A i \in Jobs \ {j} :
          /\ phase'[i] = phase[i] /\ status'[i] = status[i]
          /\ journal'[i] \in {journal[i], NoRow}
    BY <1>2, OthersLife
  <2>2. up' = up /\ phase[j] \notin {"new", "lost"} /\ phase'[j] \notin {"new", "lost"}
    <3>1. up' = up
      BY <1>2, OthersLife
    <3>2. CASE RecordStart(j) \/ Arm(j) \/ RecordEnd(j) \/ CloseListeners(j)
      BY <3>1, <3>2, <1>t DEF RecordStart, Arm, RecordEnd, CloseListeners
    <3>3. CASE Step(j) \/ EmitEnd(j) \/ Return(j, "done") \/ Return(j, "failed")
      BY <3>1, <3>3, <1>t DEF Step, EmitEnd, Return, ReturnAs
    <3> QED BY <1>2, <3>2, <3>3 DEF Goroutine
  <2>3. /\ journal'[j].status \in Finished => journal'[j].status = status'[j]
        /\ phase'[j] \in Beginning \cup {"ended", "emitted"}
             => journal'[j].status \in {"none", "running"}
    <3>1. CASE RecordStart(j)
      <4>1. status[j] = "running" /\ journal[j].status \in {"none", "running"}
        BY <3>1 DEF RecordStart, Life, Told, Beginning
      <4> QED BY <4>1, <3>1, RecordRows DEF RecordStart, NoRow, Finished
    <3>2. CASE RecordEnd(j)
      <4>1. phase'[j] = "written" /\ journal[j].status \in {"none", "running"}
        BY <3>2, <1>t DEF RecordEnd, Told
      <4> QED BY <4>1, <3>2, RecordRows DEF RecordEnd, NoRow, Finished, Beginning
    <3>3. CASE Return(j, "done") \/ Return(j, "failed")
      <4>1. journal' = journal /\ journal[j].status \in {"none", "running"}
        BY <3>3 DEF Return, ReturnAs, Told, Beginning
      <4> QED BY <4>1 DEF Finished
    <3>4. CASE Arm(j) \/ Step(j) \/ EmitEnd(j)
      <4>1. journal' = journal /\ journal[j].status \in {"none", "running"}
        BY <3>4 DEF Arm, Step, EmitEnd, Told, Beginning
      <4> QED BY <4>1 DEF Finished
    <3>5. CASE CloseListeners(j)
      <4>1. journal' = journal /\ status' = status /\ phase'[j] = "closed"
        BY <3>5, <1>t DEF CloseListeners
      <4> QED BY <4>1 DEF Told, JournalTellsTheTruth, Beginning
    <3> QED BY <1>2, <3>1, <3>2, <3>3, <3>4, <3>5 DEF Goroutine
  <2> QED BY <2>1, <2>2, <2>3 DEF Told, JournalTellsTheTruth, NoRow, Finished
<1>3. CASE UNCHANGED <<up, phase, status, journal>>
  BY <1>3 DEF Told, JournalTellsTheTruth
<1>4. CASE Crash
  <2>1. up' = FALSE /\ UNCHANGED <<status, journal>>
    BY <1>4 DEF Crash
  <2>2. \A i \in Jobs : phase'[i] = IF phase[i] \in Alive THEN "lost" ELSE phase[i]
    BY <1>4 DEF Crash
  <2> QED BY <2>1, <2>2 DEF Told, JournalTellsTheTruth, Beginning, Alive
<1>5. CASE Settle
  <2>1. ~up /\ UNCHANGED <<phase, status>>
    BY <1>5 DEF Settle, SettleRows, jobVars
  <2>2. \A i \in Jobs : \/ journal[i].status # "running" /\ journal'[i] = journal[i]
                        \/ journal'[i].status = "interrupted"
    BY <1>5, <1>t DEF Settle, SettleRows, Rowed
  <2>3. \A i \in Jobs : phase[i] \notin Alive
    BY <2>1 DEF Life
  <2> QED BY <2>1, <2>2, <2>3 DEF Told, JournalTellsTheTruth, Beginning, Alive, Finished
<1>6. ASSUME NEW c \in Clients, Receive(c) \/ Leave(c) \/ (\E j \in Jobs : Subscribe(c, j))
      PROVE  Told'
  BY <1>3, <1>6 DEF Receive, Leave, Subscribe, Replay, jobVars
<1>7. ASSUME NEW j \in Jobs, Cancel(j) PROVE Told'
  BY <1>3, <1>7 DEF Cancel
<1>8. CASE UNCHANGED vars
  BY <1>3, <1>8 DEF vars, jobVars
<1> QED BY <1>1, <1>2, <1>4, <1>5, <1>6, <1>7, <1>8 DEF Next

----------------------------------------------------------------------------
(* Written: the last Record, and what prunes it.                               *)

LEMMA InitWritten == Init => Written
BY DEF Init, Written

\* A start never makes a row one of the older ones' again.
LEMMA LaterGrows ==
  ASSUME TypeOK, NEW i \in Jobs,
         \A k \in Jobs : started[k] > started[i] => started'[k] > started'[i],
         Cardinality(Later(i)) >= JournalKept
  PROVE  Cardinality(Later(i)') >= JournalKept
<1>1. Later(i) \subseteq Later(i)' /\ Later(i)' \subseteq Jobs
  BY DEF Later
<1>2. IsFiniteSet(Later(i)')
  BY <1>1, RunnerAssumption, FS_Subset
<1>3. /\ Cardinality(Later(i)) \in Nat /\ Cardinality(Later(i)') \in Nat
      /\ Cardinality(Later(i)) <= Cardinality(Later(i)')
  BY <1>1, <1>2, FS_Subset, FS_CardinalityType
<1> QED BY <1>3, RunnerAssumption

LEMMA StepWritten == TypeOK /\ Life /\ Written /\ [Next]_vars => Written'
<1> SUFFICES ASSUME TypeOK, Life, Written, [Next]_vars PROVE Written'
  OBVIOUS
<1>t. /\ phase \in [Jobs -> Phases] /\ status \in [Jobs -> {"none", "running"} \cup Finished]
      /\ journal \in [Jobs -> Rowed] /\ started \in [Jobs -> Nat] /\ clock \in Nat
      /\ faults \in Nat /\ events \in [Jobs -> Nat]
  BY DEF TypeOK, Rowed
<1>1. ASSUME NEW j \in Jobs, Start(j) PROVE Written'
  <2>1. /\ journal' = journal /\ phase'[j] = "inserted" /\ faults' = faults
        /\ started' = [started EXCEPT ![j] = clock + 1] /\ started[j] = 0
    BY <1>1, <1>t DEF Start, Life
  <2>2. \A i \in Jobs \ {j} : /\ phase'[i] = phase[i] /\ status'[i] = status[i]
                              /\ events'[i] = events[i] /\ started'[i] = started[i]
    BY <1>1, OthersLife
  <2>3. \A i \in Jobs \ {j} : \A k \in Jobs :
          started[k] > started[i] => started'[k] > started'[i]
    BY <2>1, <2>2, <1>t
  <2>4. \A i \in Jobs \ {j} :
          Cardinality(Later(i)) >= JournalKept => Cardinality(Later(i)') >= JournalKept
    BY <2>3, LaterGrows
  <2>5. ASSUME NEW i \in Jobs, phase'[i] \in {"written", "closed"} /\ faults' = 0
        PROVE  \/ journal'[i] = [status |-> status'[i], events |-> events'[i]]
               \/ Cardinality(Later(i)') >= JournalKept
    BY <2>1, <2>2, <2>4, <2>5 DEF Written
  <2> QED BY <2>5 DEF Written
<1>2. ASSUME NEW j \in Jobs, Goroutine(j) PROVE Written'
  <2>1. \A i \in Jobs \ {j} : /\ phase'[i] = phase[i] /\ status'[i] = status[i]
                              /\ events'[i] = events[i]
    BY <1>2, OthersLife
  <2>2. started' = started
    BY <1>2 DEF Goroutine, RecordStart, Arm, Step, Return, ReturnAs, EmitEnd, RecordEnd,
                CloseListeners
  <2>3. \A i \in Jobs : Later(i)' = Later(i)
    BY <2>2 DEF Later
  <2>4. CASE RecordStart(j) \/ RecordEnd(j)
    <3>1. Record(j) /\ UNCHANGED <<status, events>>
      BY <2>4 DEF RecordStart, RecordEnd
    <3>2. ASSUME NEW i \in Jobs, phase'[i] \in {"written", "closed"} /\ faults' = 0
          PROVE  \/ journal'[i] = [status |-> status[i], events |-> events[i]]
                 \/ Cardinality(Later(i)) >= JournalKept
      <4>1. CASE i = j
        BY <3>1, <3>2, <4>1, RecordKeeps
      <4>2. CASE i # j
        <5>1. phase[i] \in {"written", "closed"} /\ faults = 0
          BY <2>1, <3>1, <3>2, <4>2, RecordKeeps
        <5>2. CASE journal[i] = [status |-> status[i], events |-> events[i]]
          <6>1. journal[i].status \in Finished
            BY <5>1, <5>2 DEF Life
          <6>2. i \in Rows \ {j}
            BY <6>1, <4>2 DEF Rows, Finished
          <6> QED BY <3>1, <3>2, <6>2, <5>2, RecordKeeps
        <5> QED BY <5>1, <5>2 DEF Written
      <4> QED BY <4>1, <4>2
    <3> QED BY <3>1, <3>2, <2>3 DEF Written
  <2>5. CASE Arm(j) \/ Step(j) \/ EmitEnd(j) \/ Return(j, "done") \/ Return(j, "failed")
    <3>1. journal' = journal /\ faults' = faults /\ phase'[j] \notin {"written", "closed"}
      BY <2>5, <1>t DEF Arm, Step, EmitEnd, Return, ReturnAs
    <3> QED BY <3>1, <2>1, <2>3 DEF Written
  <2>6. CASE CloseListeners(j)
    <3>1. /\ UNCHANGED <<journal, faults, status, events>> /\ phase[j] = "written"
      BY <2>6 DEF CloseListeners
    <3> QED BY <3>1, <2>1, <2>3 DEF Written
  <2> QED BY <1>2, <2>4, <2>5, <2>6 DEF Goroutine
<1>3. CASE UNCHANGED <<phase, status, events, started, journal, faults>>
  BY <1>3 DEF Written, Later
<1>4. CASE Crash
  <2>1. /\ UNCHANGED <<status, events, started, journal, faults>>
        /\ \A i \in Jobs : phase'[i] = IF phase[i] \in Alive THEN "lost" ELSE phase[i]
    BY <1>4 DEF Crash
  <2>2. \A i \in Jobs : Later(i)' = Later(i)
    BY <2>1 DEF Later
  <2> QED BY <2>1, <2>2 DEF Written
<1>5. CASE Settle
  <2>1. /\ UNCHANGED <<phase, status, events, started, faults>>
        /\ \A i \in Jobs : journal[i].status # "running" => journal'[i] = journal[i]
    BY <1>5 DEF Settle, SettleRows, jobVars
  <2>2. \A i \in Jobs : Later(i)' = Later(i)
    BY <2>1 DEF Later
  <2>3. \A i \in Jobs : phase[i] \in {"written", "closed"} => status[i] # "running"
    BY DEF Life, Finished
  <2> QED BY <2>1, <2>2, <2>3 DEF Written
<1>6. ASSUME NEW c \in Clients, Receive(c) \/ Leave(c) \/ (\E j \in Jobs : Subscribe(c, j))
      PROVE  Written'
  BY <1>3, <1>6 DEF Receive, Leave, Subscribe, Replay, jobVars
<1>7. ASSUME NEW j \in Jobs, Cancel(j) PROVE Written'
  BY <1>3, <1>7 DEF Cancel
<1>8. CASE UNCHANGED vars
  BY <1>3, <1>8 DEF vars, jobVars
<1> QED BY <1>1, <1>2, <1>4, <1>5, <1>6, <1>7, <1>8 DEF Next

----------------------------------------------------------------------------
(* Listening: what a stream has been handed. First, of sequences.              *)

LEMMA CountGrows ==
  ASSUME NEW n \in Nat
  PROVE  Append([k \in 1..n |-> k], n + 1) = [k \in 1..(n + 1) |-> k]
<1> DEFINE s == [k \in 1..n |-> k]
<1>1. s \in Seq(Nat) /\ Len(s) = n
  OBVIOUS
<1>2. /\ Append(s, n + 1) \in Seq(Nat) /\ Len(Append(s, n + 1)) = n + 1
      /\ \A k \in 1..n : Append(s, n + 1)[k] = k
      /\ Append(s, n + 1)[n + 1] = n + 1
  BY <1>1
<1>3. Append(s, n + 1) = [k \in 1..(n + 1) |-> Append(s, n + 1)[k]]
  BY <1>2
<1> QED BY <1>2, <1>3

LEMMA ConcatAppend ==
  ASSUME NEW s \in Seq(Nat), NEW q \in Seq(Nat), NEW n \in Nat
  PROVE  s \o Append(q, n) = Append(s \o q, n)
<1>1. /\ s \o Append(q, n) \in Seq(Nat) /\ Append(s \o q, n) \in Seq(Nat)
      /\ Len(s \o Append(q, n)) = Len(Append(s \o q, n))
  OBVIOUS
<1>2. \A k \in 1..Len(Append(s \o q, n)) : (s \o Append(q, n))[k] = Append(s \o q, n)[k]
  OBVIOUS
<1> QED BY <1>1, <1>2, SeqEqual

LEMMA TakeOne ==
  ASSUME NEW s \in Seq(Nat), NEW q \in Seq(Nat), q # <<>>
  PROVE  Append(s, Head(q)) \o Tail(q) = s \o q
<1>1. /\ Append(s, Head(q)) \o Tail(q) \in Seq(Nat) /\ s \o q \in Seq(Nat)
      /\ Len(Append(s, Head(q)) \o Tail(q)) = Len(s \o q)
  OBVIOUS
<1>2. \A k \in 1..Len(s \o q) : (Append(s, Head(q)) \o Tail(q))[k] = (s \o q)[k]
  OBVIOUS
<1> QED BY <1>1, <1>2, SeqEqual

LEMMA InitListening == Init => Listening
<1> SUFFICES ASSUME Init PROVE Listening
  OBVIOUS
<1>1. \A c \in Clients : ~client[c].live
  BY DEF Init, Idle
<1>2. \A j \in Jobs : listeners[j] = {} /\ phase[j] = "new"
  BY DEF Init
<1> QED BY <1>1, <1>2 DEF Listening, NoOrphanListener, WholeStory

\* Emit hands the event to whoever listens, and to nobody else.
LEMMA EmitListening ==
  ASSUME TypeOK, Listening, NEW j \in Jobs, Emit(j), UNCHANGED listeners,
         phase[j] \in Beginning \cup {"ended"},
         phase'[j] \in Beginning \cup {"ended", "emitted"},
         \A i \in Jobs \ {j} : phase'[i] = phase[i]
  PROVE  Listening'
<1>t. /\ client \in [Clients -> Clientele] /\ events \in [Jobs -> Nat]
      /\ listeners \in [Jobs -> SUBSET Clients]
  BY DEF TypeOK, Clientele
<1>1. /\ \A c \in listeners[j] : client'[c] = Offer(c, events[j] + 1)
      /\ \A c \in Clients \ listeners[j] : client'[c] = client[c]
  BY <1>t DEF Emit
<1>2. events'[j] = events[j] + 1 /\ \A i \in Jobs \ {j} : events'[i] = events[i]
  BY <1>t DEF Emit
<1>3. /\ phase[j] \notin {"new", "closed", "lost"}
      /\ phase'[j] \notin {"new", "closed", "lost"}
  BY DEF Beginning
<1>4. \A c \in Clients : /\ client'[c].job = client[c].job /\ client'[c].open = client[c].open
                         /\ client'[c].live = client[c].live
  BY <1>1, <1>t, OfferTo
<1>5. NoOrphanListener' /\ \A i \in Jobs : phase'[i] = "new" => listeners'[i] = {}
  BY <1>3, <1>4, <1>t DEF Listening, NoOrphanListener
<1>6. \A c \in Clients : client'[c].live =>
        /\ client'[c].job \in Jobs
        /\ c \in listeners'[client'[c].job] \/ phase'[client'[c].job] = "closed"
  BY <1>3, <1>4 DEF Listening
<1>7. ASSUME NEW c \in Clients, client'[c].live, ~client'[c].full
      PROVE  Caught(c)' = Story(client[c].job)'
  <2>1. client[c].live /\ client[c].job \in Jobs
    BY <1>4, <1>7 DEF Listening
  <2>2. CASE c \in listeners[j]
    <3>1. client[c].job = j
      BY <2>2 DEF Listening, NoOrphanListener
    <3>2. /\ ~client[c].full /\ client'[c].got = client[c].got
          /\ client'[c].queue = Append(client[c].queue, events[j] + 1)
      BY <1>1, <1>7, <1>t, <2>2, OfferTo
    <3>3. client[c].got \o client[c].queue = [n \in 1..events[j] |-> n]
      BY <2>1, <3>1, <3>2 DEF Listening, WholeStory, Caught, Story
    <3>4. client[c].got \in Seq(Nat) /\ client[c].queue \in Seq(Nat) /\ events[j] + 1 \in Nat
      BY <1>t DEF Clientele
    <3>5. Caught(c)' = Append(client[c].got \o client[c].queue, events[j] + 1)
      BY <3>2, <3>4, ConcatAppend DEF Caught
    <3>6. events[j] \in Nat
      BY <1>t
    <3>7. Append([n \in 1..events[j] |-> n], events[j] + 1) = [n \in 1..(events[j] + 1) |-> n]
      BY <3>6, CountGrows
    <3>8. Story(client[c].job)' = [n \in 1..(events[j] + 1) |-> n]
      BY <3>1, <1>2, <1>4 DEF Story
    <3> QED BY <3>3, <3>5, <3>7, <3>8
  <2>3. CASE c \notin listeners[j]
    <3>1. client'[c] = client[c] /\ client[c].job \in Jobs \ {j}
      BY <1>1, <1>3, <2>1, <2>3 DEF Listening
    <3>2. Caught(c)' = Caught(c) /\ Story(client[c].job)' = Story(client[c].job)
      BY <3>1, <1>2 DEF Caught, Story
    <3> QED BY <3>1, <3>2, <2>1, <1>7 DEF Listening, WholeStory
  <2> QED BY <2>2, <2>3
<1> QED BY <1>4, <1>5, <1>6, <1>7 DEF Listening, WholeStory

\* Nothing of the streams moves while a goroutine goes from one phase to the next.
LEMMA SameListening ==
  ASSUME Listening, UNCHANGED <<listeners, client, events>>,
         \A j \in Jobs : \/ phase'[j] = phase[j]
                         \/ /\ phase'[j] \notin {"new", "closed", "lost"}
                            /\ phase[j] # "closed"
  PROVE  Listening'
BY DEF Listening, NoOrphanListener, WholeStory, Caught, Story

LEMMA StepListening == TypeOK /\ Life /\ Listening /\ [Next]_vars => Listening'
<1> SUFFICES ASSUME TypeOK, Life, Listening, [Next]_vars PROVE Listening'
  OBVIOUS
<1>t. /\ client \in [Clients -> Clientele] /\ phase \in [Jobs -> Phases]
      /\ events \in [Jobs -> Nat] /\ listeners \in [Jobs -> SUBSET Clients]
      /\ memory \in SUBSET Jobs
      /\ status \in [Jobs -> {"none", "running"} \cup Finished]
  BY DEF TypeOK, Clientele
<1>1. ASSUME NEW j \in Jobs,
             Start(j) \/ RecordStart(j) \/ Arm(j) \/ Return(j, "done")
               \/ Return(j, "failed") \/ RecordEnd(j)
      PROVE  Listening'
  <2>1. /\ UNCHANGED <<listeners, client, events>>
        /\ phase[j] # "closed" /\ phase'[j] \notin {"new", "closed", "lost"}
        /\ \A i \in Jobs \ {j} : phase'[i] = phase[i]
    BY <1>1, <1>t DEF Start, RecordStart, Arm, Return, ReturnAs, RecordEnd
  <2> QED BY <2>1, SameListening
<1>2. ASSUME NEW j \in Jobs, Step(j) \/ EmitEnd(j) PROVE Listening'
  <2>1. /\ Emit(j) /\ UNCHANGED listeners
        /\ phase[j] \in Beginning \cup {"ended"}
        /\ phase'[j] \in Beginning \cup {"ended", "emitted"}
        /\ \A i \in Jobs \ {j} : phase'[i] = phase[i]
    BY <1>2, <1>t DEF Step, EmitEnd, Beginning
  <2> QED BY <2>1, EmitListening
<1>3. ASSUME NEW j \in Jobs, CloseListeners(j) PROVE Listening'
  <2>1. /\ listeners'[j] = {} /\ \A i \in Jobs \ {j} : listeners'[i] = listeners[i]
        /\ phase'[j] = "closed" /\ \A i \in Jobs \ {j} : phase'[i] = phase[i]
        /\ phase[j] = "written" /\ events' = events
    BY <1>3, <1>t DEF CloseListeners
  <2>2. \A c \in Clients : c \notin listeners[j] => client'[c] = client[c]
    BY <1>3, <1>t DEF CloseListeners
  <2>3. \A c \in Clients :
          /\ client'[c].job = client[c].job /\ client'[c].got = client[c].got
          /\ client'[c].queue = client[c].queue /\ client'[c].live = client[c].live
          /\ client'[c].full = client[c].full
    BY <1>3, <1>t DEF CloseListeners, Clientele
  <2>4. \A i \in Jobs : \A c \in listeners'[i] : client'[c].job = i /\ client'[c].open
    BY <2>1, <2>2, <1>t DEF Listening, NoOrphanListener
  <2>5. \A c \in Clients : Caught(c)' = Caught(c)
                           /\ Story(client[c].job)' = Story(client[c].job)
    BY <2>1, <2>3 DEF Caught, Story
  <2>6. NoOrphanListener' /\ \A i \in Jobs : phase'[i] = "new" => listeners'[i] = {}
    BY <2>1, <2>4 DEF Listening, NoOrphanListener
  <2> QED BY <2>1, <2>3, <2>5, <2>6 DEF Listening, WholeStory
<1>4. ASSUME NEW c \in Clients, NEW j \in Jobs, Subscribe(c, j) PROVE Listening'
  <2> DEFINE replayed == IF events[j] <= ChanCap THEN events[j] ELSE ChanCap
  <2> DEFINE new == [job |-> j, queue |-> [i \in 1..replayed |-> i], got |-> <<>>,
                     open |-> status[j] = "running", live |-> status[j] = "running",
                     full |-> replayed < events[j]]
  <2>1. /\ client' = [client EXCEPT ![c] = new] /\ client[c].job = NoJob
        /\ UNCHANGED <<phase, events, status>>
        /\ listeners' = [listeners EXCEPT ![j] = IF status[j] = "running" THEN @ \cup {c} ELSE @]
    BY <1>4 DEF Subscribe, Replay, jobVars
  <2>2. phase[j] \notin {"new", "lost"} /\ (status[j] = "running" => phase[j] # "closed")
    BY <1>4 DEF Subscribe, Replay, Life, Finished
  <2>3. /\ new.job = j /\ new.open = (status[j] = "running") /\ new.got = <<>>
        /\ new.live = (status[j] = "running") /\ new.queue = [i \in 1..replayed |-> i]
        /\ new.full = (replayed < events[j])
    OBVIOUS
  <2> HIDE DEF new
  <2>4. /\ client'[c] = new /\ \A d \in Clients \ {c} : client'[d] = client[d]
    BY <2>1, <1>t
  <2>5. /\ \A i \in Jobs \ {j} : listeners'[i] = listeners[i]
        /\ status[j] = "running" => listeners'[j] = listeners[j] \cup {c}
        /\ status[j] # "running" => listeners'[j] = listeners[j]
    BY <2>1, <1>t
  <2>6. \A i \in Jobs : c \notin listeners[i]
    BY <2>1, RunnerAssumption DEF Listening, NoOrphanListener
  <2>7. NoOrphanListener' /\ \A i \in Jobs : phase'[i] = "new" => listeners'[i] = {}
    <3>1. \A i \in Jobs : phase'[i] \in {"closed", "lost", "new"} => listeners'[i] = {}
      BY <2>1, <2>2, <2>5 DEF Listening, NoOrphanListener
    <3>2. \A i \in Jobs : \A d \in listeners'[i] : client'[d].job = i /\ client'[d].open
      <4>1. ASSUME NEW i \in Jobs, c \in listeners'[i] PROVE i = j /\ status[j] = "running"
        BY <2>5, <2>6, <4>1
      <4>2. ASSUME NEW i \in Jobs, NEW d \in listeners'[i], d # c
            PROVE  d \in listeners[i] /\ d \in Clients
        BY <2>5, <4>2, <1>t
      <4>3. ASSUME NEW i \in Jobs, NEW d \in listeners'[i], d # c
            PROVE  client'[d].job = i /\ client'[d].open
        <5>1. client[d].job = i /\ client[d].open /\ client'[d] = client[d]
          BY <2>4, <4>2, <4>3 DEF Listening, NoOrphanListener
        <5> QED BY <5>1, Zenon
      <4>4. ASSUME NEW i \in Jobs, c \in listeners'[i]
            PROVE  client'[c].job = i /\ client'[c].open
        BY <2>3, <2>4, <4>1, <4>4, Zenon
      <4> QED BY <4>3, <4>4
    <3> QED BY <3>1, <3>2 DEF NoOrphanListener
  <2>8. \A d \in Clients : client'[d].live =>
          /\ client'[d].job \in Jobs
          /\ d \in listeners'[client'[d].job] \/ phase'[client'[d].job] = "closed"
    <3>1. new.live => status[j] = "running"
      BY <2>3, Zenon
    <3>2. ASSUME client'[c].live
          PROVE  client'[c].job = j /\ c \in listeners'[j]
      BY <2>3, <2>4, <2>5, <3>1, <3>2
    <3>3. ASSUME NEW d \in Clients \ {c}, client'[d].live
          PROVE  /\ client'[d].job \in Jobs
                 /\ d \in listeners'[client'[d].job] \/ phase'[client'[d].job] = "closed"
      BY <2>1, <2>4, <2>5, <3>3 DEF Listening
    <3> QED BY <3>2, <3>3
  <2>9. ASSUME client'[c].live, ~client'[c].full PROVE Caught(c)' = Story(client[c].job)'
    <3>1. replayed = events[j]
      <4>1. ~(replayed < events[j])
        BY <2>3, <2>4, <2>9, Zenon
      <4> QED BY <4>1, <1>t, RunnerAssumption
    <3>2. client'[c].got = <<>> /\ client'[c].queue = [i \in 1..events[j] |-> i]
      BY <2>3, <2>4, <3>1
    <3>3. [i \in 1..events[j] |-> i] \in Seq(Nat)
      BY <1>t
    <3>4. Caught(c)' = [i \in 1..events[j] |-> i]
      BY <3>2, <3>3, ConcatEmptySeq DEF Caught
    <3> QED BY <3>4, <2>1, <2>3, <2>4 DEF Story
  <2>10. \A d \in Clients \ {c} : /\ Caught(d)' = Caught(d)
                                  /\ Story(client[d].job)' = Story(client[d].job)
    BY <2>1, <2>4 DEF Caught, Story
  <2>11. WholeStory'
    BY <2>4, <2>9, <2>10 DEF Listening, WholeStory
  <2> QED BY <2>7, <2>8, <2>11 DEF Listening
<1>5. ASSUME NEW c \in Clients, Receive(c) PROVE Listening'
  <2>1. UNCHANGED <<listeners, phase, events>>
    BY <1>5 DEF Receive, jobVars
  <2>2. client'[c] = Taken(client[c]) /\ \A d \in Clients \ {c} : client'[d] = client[d]
    BY <1>5, ReceiveTakes
  <2>3. /\ client[c] \in Clientele /\ client[c].queue # <<>>
        /\ client[c].queue \in Seq(Nat) /\ client[c].got \in Seq(Nat)
    BY <1>5, ReceiveTakes DEF Clientele
  <2>4. \A d \in Clients : /\ client'[d].job = client[d].job /\ client'[d].open = client[d].open
                           /\ client'[d].live = client[d].live /\ client'[d].full = client[d].full
    BY <2>2, <2>3, TakenFrom
  <2>5. Caught(c)' = Caught(c)
    <3>1. /\ client'[c].got = Append(client[c].got, Head(client[c].queue))
          /\ client'[c].queue = Tail(client[c].queue)
      BY <2>2, <2>3, TakenFrom
    <3> QED BY <2>3, <3>1, TakeOne DEF Caught
  <2>6. \A d \in Clients : Caught(d)' = Caught(d) /\ Story(client[d].job)' = Story(client[d].job)
    BY <2>1, <2>2, <2>4, <2>5 DEF Caught, Story
  <2>7. NoOrphanListener' /\ \A i \in Jobs : phase'[i] = "new" => listeners'[i] = {}
    BY <2>1, <2>4, <1>t DEF Listening, NoOrphanListener
  <2> QED BY <2>1, <2>4, <2>6, <2>7 DEF Listening, WholeStory
<1>6. ASSUME NEW c \in Clients, Leave(c) PROVE Listening'
  <2> DEFINE k == client[c].job
  <2>1. /\ k \in Jobs /\ UNCHANGED <<phase, events>>
        /\ listeners' = [listeners EXCEPT ![k] = @ \ {c}]
        /\ client' = [client EXCEPT ![c] = Idle]
    BY <1>6, <1>t DEF Leave, Clientele, jobVars
  <2>2. client'[c] = Idle /\ \A d \in Clients \ {c} : client'[d] = client[d]
    BY <2>1, <1>t
  <2>3. \A i \in Jobs : listeners'[i] = listeners[i] \ {c}
    BY <2>1, <1>t DEF Listening, NoOrphanListener
  <2>4. ~Idle.live
    BY DEF Idle
  <2>5. NoOrphanListener' /\ \A i \in Jobs : phase'[i] = "new" => listeners'[i] = {}
    BY <2>1, <2>2, <2>3, <1>t DEF Listening, NoOrphanListener
  <2>6. \A d \in Clients \ {c} : /\ Caught(d)' = Caught(d)
                                 /\ Story(client[d].job)' = Story(client[d].job)
    BY <2>1, <2>2 DEF Caught, Story
  <2>7. \A d \in Clients : client'[d].live =>
          /\ client'[d].job \in Jobs
          /\ d \in listeners'[client'[d].job] \/ phase'[client'[d].job] = "closed"
    BY <2>1, <2>2, <2>3, <2>4 DEF Listening
  <2>8. WholeStory'
    BY <2>2, <2>4, <2>6 DEF Listening, WholeStory
  <2> QED BY <2>5, <2>7, <2>8 DEF Listening
<1>7. CASE Crash
  <2>1. \A c \in Clients : ~client'[c].live
    BY <1>7 DEF Crash, Idle
  <2>2. \A j \in Jobs : listeners'[j] = {}
    BY <1>7 DEF Crash
  <2> QED BY <2>1, <2>2 DEF Listening, NoOrphanListener, WholeStory
<1>8. ASSUME UNCHANGED <<listeners, client, events, phase>> PROVE Listening'
  BY <1>8, SameListening
<1>9. CASE Settle
  BY <1>8, <1>9 DEF Settle, SettleRows, jobVars
<1>10. ASSUME NEW j \in Jobs, Cancel(j) PROVE Listening'
  BY <1>8, <1>10 DEF Cancel
<1>11. CASE UNCHANGED vars
  BY <1>8, <1>11 DEF vars, jobVars
<1> QED
  BY <1>1, <1>2, <1>3, <1>4, <1>5, <1>6, <1>7, <1>9, <1>10, <1>11 DEF Next, Goroutine

----------------------------------------------------------------------------
(* The theorems.                                                             *)

\* The inductive invariant holds in every state.
LEMMA AlwaysIInv == Spec => []IInv
<1>1. Init => IInv
  BY InitTyped, InitLife, InitTold, InitWritten, InitListening DEF IInv
<1>2. IInv /\ [Next]_vars => IInv'
  BY StepTyped, StepLife, StepTold, StepWritten, StepListening DEF IInv
<1> QED BY <1>1, <1>2, PTL DEF Spec

\* Whatever is started, forgotten and restarted, what the runner keeps is of the
\* right type and every running job stays in Runner.jobs: forget drops none.
THEOREM RunningJobsStay == Spec => []JobRunnerInv
<1>1. IInv => JobRunnerInv
  <2> SUFFICES ASSUME IInv PROVE RunningIsRemembered
    BY DEF IInv, JobRunnerInv
  <2>1. ASSUME NEW j \in Jobs, phase[j] \in Alive, status[j] = "running"
        PROVE  j \in memory
    BY <2>1 DEF IInv, Life, Alive, Beginning, Finished
  <2> QED BY <2>1 DEF RunningIsRemembered
<1> QED BY <1>1, AlwaysIInv, PTL

\* No row of the journal holds an outcome its job did not have, or says "running"
\* of a job of an earlier life of the daemon once Settle has run.
THEOREM TheJournalIsTrue == Spec => []JournalTellsTheTruth
<1>1. IInv => JournalTellsTheTruth
  BY DEF IInv, Told
<1> QED BY <1>1, AlwaysIInv, PTL

\* A job that is over is found with its outcome and its events - in memory or, after
\* forget or a restart, in the journal - unless JournalKept jobs started later.
THEOREM WhatIsOverIsFound == Spec => []FinishedIsFound
<1>1. IInv => FinishedIsFound
  <2> SUFFICES ASSUME IInv, NEW j \in Jobs, phase[j] = "closed", faults = 0,
                      ~(Cardinality({k \in Jobs : started[k] > started[j]}) >= JournalKept)
               PROVE  /\ Find(j) = status[j]
                      /\ journal[j] = [status |-> status[j], events |-> events[j]]
    BY DEF FinishedIsFound
  <2>1. journal[j] = [status |-> status[j], events |-> events[j]]
    BY DEF IInv, Written, Later
  <2> QED BY <2>1 DEF Find
<1> QED BY <1>1, AlwaysIInv, PTL

\* closeListeners and unsubscribe leave no channel behind: none is registered with a
\* job that is over, and none that is closed is registered at all.
THEOREM NobodyListensInVain == Spec => []NoOrphanListener
<1>1. IInv => NoOrphanListener
  BY DEF IInv, Listening
<1> QED BY <1>1, AlwaysIInv, PTL

\* Between the replay of Subscribe and the offers of emit no event is lost, doubled
\* or swapped for a client that came before the end and whose channel never filled.
THEOREM StreamsAreWhole == Spec => []WholeStory
<1>1. IInv => WholeStory
  BY DEF IInv, Listening
<1> QED BY <1>1, AlwaysIInv, PTL

\* No write of the journal, of its own job or of another, and no Settle, turns an
\* outcome into another one.
THEOREM OutcomesStay == Spec => OutcomesAreFinal
<1> DEFINE Stay == \A j \in Jobs : journal[j].status \in Finished \cup {"interrupted"}
                                     => journal'[j] \in {journal[j], NoRow}
<1>1. ASSUME IInv, [Next]_vars, journal' # journal PROVE Stay
  <2>t. journal \in [Jobs -> Rowed] /\ TypeOK
    BY <1>1 DEF IInv, TypeOK, Rowed
  <2>1. CASE Settle
    BY <2>1 DEF Settle, SettleRows, Finished
  <2>2. ASSUME NEW j \in Jobs, RecordStart(j) \/ RecordEnd(j) PROVE Stay
    <3>1. journal[j].status \in {"none", "running"}
      BY <1>1, <2>2 DEF RecordStart, RecordEnd, IInv, Told, Beginning
    <3>2. \A i \in Jobs \ {j} : journal'[i] \in {journal[i], NoRow}
      BY <2>t, <2>2, RecordRows DEF RecordStart, RecordEnd
    <3> QED BY <3>1, <3>2 DEF Finished
  <2>3. Settle \/ \E j \in Jobs : RecordStart(j) \/ RecordEnd(j)
    <3>1. CASE UNCHANGED vars \/ Crash
      BY <3>1, <1>1 DEF vars, Crash
    <3>2. ASSUME NEW c \in Clients, Receive(c) \/ Leave(c) \/ (\E j \in Jobs : Subscribe(c, j))
          PROVE  FALSE
      BY <3>2, <1>1 DEF Receive, Leave, Subscribe, Replay
    <3>3. ASSUME NEW j \in Jobs, Start(j) \/ Cancel(j) PROVE FALSE
      BY <3>3, <1>1 DEF Start, Cancel
    <3>4. ASSUME NEW j \in Jobs, Goroutine(j) PROVE RecordStart(j) \/ RecordEnd(j)
      BY <3>4, <1>1 DEF Goroutine, Arm, Step, Return, ReturnAs, EmitEnd, CloseListeners
    <3> QED BY <1>1, <3>1, <3>2, <3>3, <3>4 DEF Next
  <2> QED BY <2>1, <2>2, <2>3
<1>2. IInv /\ [Next]_vars => [Stay]_journal
  BY <1>1
<1>3. Spec => [][Stay]_journal
  <2> HIDE DEF Stay
  <2> QED BY <1>2, AlwaysIInv, PTL DEF Spec
<1> QED BY <1>3 DEF OutcomesAreFinal
================================================================================
