------------------------------- MODULE JobRunner -------------------------------
(****************************************************************************)
(* The background runner of the panel (internal/shared/job/job.go) and the   *)
(* journal it writes jobs down in (internal/auth/infrastructure/sqlite/      *)
(* job.repository.go), across restarts of the daemon.                        *)
(*                                                                          *)
(* One goroutine per job goes through the phases below, in the order of the  *)
(* code of Runner.Start:                                                     *)
(*   new       not started                                                   *)
(*   inserted  in r.jobs, the first Record not yet done                      *)
(*   recorded  first Record over, the goroutine has not set j.stop           *)
(*   working   j.stop is set, the work runs                                  *)
(*   ended     Status and Ended are set                                      *)
(*   emitted   the End event is appended and offered to the listeners        *)
(*   written   the last Record is over                                       *)
(*   closed    closeListeners ran: the goroutine is over                     *)
(*   lost      the daemon died with the goroutine                            *)
(* An event is its position in j.Events; the End event is the one appended   *)
(* when the phase becomes emitted.                                           *)
(****************************************************************************)
EXTENDS Naturals, Sequences, FiniteSets

CONSTANTS
  Jobs,          \* job ids, each started at most once
  Clients,       \* streams opened by GET /api/jobs/{id}/events
  Keep,          \* finished jobs the runner remembers (50 in the code)
  JournalKept,   \* rows the journal holds (1000 in the code)
  ChanCap,       \* buffer of a subscriber's channel (64 in the code)
  MaxSteps,      \* bound: steps a plan reports
  MaxFaults,     \* bound: writes of the journal that fail
  MaxCrashes,    \* bound: times the daemon dies
  NoJob          \* the job of a client that watches none

ASSUME RunnerAssumption ==
  /\ Keep \in Nat \ {0} /\ JournalKept \in Nat \ {0} /\ ChanCap \in Nat \ {0}
  /\ MaxSteps \in Nat /\ MaxFaults \in Nat /\ MaxCrashes \in Nat
  /\ NoJob \notin Jobs
  /\ IsFiniteSet(Jobs)

VARIABLES
  up,        \* the daemon serves: Settle succeeded, requests are answered
  memory,    \* the ids in Runner.jobs
  phase,     \* where the goroutine of each job is
  status,    \* Job.Status, as memory holds it
  events,    \* len(Job.Events)
  started,   \* Job.Started, as an order: 0 before Start
  ended,     \* Job.Ended, as an order: 0 before the work returned
  stopped,   \* the context of the job is cancelled
  journal,   \* the row of each job: its status column and its events
  listeners, \* Job.listeners: the clients whose channel is registered
  client,    \* each client's channel and what it took from it
  clock, faults, crashes

jobVars == <<phase, status, events, started, ended, stopped>>
vars == <<up, memory, jobVars, journal, listeners, client, clock, faults, crashes>>

----------------------------------------------------------------------------
Finished == {"done", "failed"}
Phases == {"new", "inserted", "recorded", "working", "ended", "emitted",
           "written", "closed", "lost"}
Alive == {"inserted", "recorded", "working", "ended", "emitted", "written"}

NoRow == [status |-> "none", events |-> 0]
Idle == [job |-> NoJob, queue |-> <<>>, got |-> <<>>, open |-> FALSE, live |-> FALSE,
         full |-> FALSE]

Rows == {j \in Jobs : journal[j].status # "none"}

Init ==
  /\ up = TRUE
  /\ memory = {}
  /\ phase = [j \in Jobs |-> "new"]
  /\ status = [j \in Jobs |-> "none"]
  /\ events = [j \in Jobs |-> 0]
  /\ started = [j \in Jobs |-> 0]
  /\ ended = [j \in Jobs |-> 0]
  /\ stopped = [j \in Jobs |-> FALSE]
  /\ journal = [j \in Jobs |-> NoRow]
  /\ listeners = [j \in Jobs |-> {}]
  /\ client = [c \in Clients |-> Idle]
  /\ clock = 0 /\ faults = 0 /\ crashes = 0

----------------------------------------------------------------------------
(* Starting: r.jobs[j.Id] = j; r.forget(), under r.mu.                       *)

\* Mutant: running jobs count as the oldest ones.
RememberedByAge(ids) ==
  {i \in ids : Cardinality({k \in ids : ended[k] > ended[i]}) < Keep}

\* forget: the jobs left after dropping the oldest finished ones beyond Keep.
Remembered(ids) ==
  LET finished == {i \in ids : status[i] \in Finished}
      later(i) == {k \in finished : ended[k] > ended[i]}
  IN  {i \in ids : i \in finished => Cardinality(later(i)) < Keep}

Start(j) ==
  /\ up
  /\ phase[j] = "new"
  /\ phase' = [phase EXCEPT ![j] = "inserted"]
  /\ status' = [status EXCEPT ![j] = "running"]
  /\ started' = [started EXCEPT ![j] = clock + 1]
  /\ clock' = clock + 1
  /\ memory' = Remembered(memory \cup {j})
  /\ UNCHANGED <<up, events, ended, stopped, journal, listeners, client, faults, crashes>>

----------------------------------------------------------------------------
(* Journal.Record: an upsert, then a DELETE of every row but the newest      *)
(* JournalKept. Either statement can fail; record logs it and goes on.       *)

Newest(rows) ==
  {i \in rows : Cardinality({k \in rows : started[k] > started[i]}) < JournalKept}

\* Mutant: ON CONFLICT DO NOTHING.
InsertedOnce(j) ==
  IF j \in Rows THEN journal
  ELSE [journal EXCEPT ![j] = [status |-> status[j], events |-> events[j]]]

Upserted(j) == [journal EXCEPT ![j] = [status |-> status[j], events |-> events[j]]]

Pruned(rows, kept) == [i \in Jobs |-> IF i \in kept THEN rows[i] ELSE NoRow]

Record(j) ==
  \/ /\ journal' = Pruned(Upserted(j), Newest(Rows \cup {j}))
     /\ UNCHANGED faults
  \/ /\ faults < MaxFaults                        \* the DELETE fails
     /\ journal' = Upserted(j)
     /\ faults' = faults + 1
  \/ /\ faults < MaxFaults                        \* the upsert fails
     /\ faults' = faults + 1
     /\ UNCHANGED journal

RecordStart(j) ==
  /\ phase[j] = "inserted"
  /\ phase' = [phase EXCEPT ![j] = "recorded"]
  /\ Record(j)
  /\ UNCHANGED <<up, memory, status, events, started, ended, stopped, listeners,
                 client, clock, crashes>>

----------------------------------------------------------------------------
(* The goroutine.                                                            *)

Arm(j) ==
  /\ phase[j] = "recorded"
  /\ phase' = [phase EXCEPT ![j] = "working"]
  /\ UNCHANGED <<up, memory, status, events, started, ended, stopped, journal,
                 listeners, client, clock, faults, crashes>>

\* emit appends an event and offers it to every listener without waiting.
Offer(c, n) ==
  IF Len(client[c].queue) < ChanCap
  THEN [client[c] EXCEPT !.queue = Append(@, n)]
  ELSE [client[c] EXCEPT !.full = TRUE]

Emit(j) ==
  /\ events' = [events EXCEPT ![j] = @ + 1]
  /\ client' = [c \in Clients |-> IF c \in listeners[j] THEN Offer(c, events[j] + 1)
                                  ELSE client[c]]

Step(j) ==
  /\ phase[j] = "working"
  /\ events[j] < MaxSteps
  /\ Emit(j)
  /\ UNCHANGED <<up, memory, phase, status, started, ended, stopped, journal,
                 listeners, clock, faults, crashes>>

ReturnAs(j, s) ==
  /\ phase[j] = "working"
  /\ phase' = [phase EXCEPT ![j] = "ended"]
  /\ status' = [status EXCEPT ![j] = s]
  /\ ended' = [ended EXCEPT ![j] = clock + 1]
  /\ clock' = clock + 1
  /\ UNCHANGED <<up, memory, events, started, stopped, journal, listeners, client,
                 faults, crashes>>

\* The work returns, with an error or without: cancelled work may do either.
Return(j, result) == ReturnAs(j, result)

\* Mutant: the End event is appended and offered to nobody.
AppendEnd(j) ==
  /\ phase[j] = "ended"
  /\ phase' = [phase EXCEPT ![j] = "emitted"]
  /\ events' = [events EXCEPT ![j] = @ + 1]
  /\ UNCHANGED <<up, memory, status, started, ended, stopped, journal, listeners,
                 client, clock, faults, crashes>>

EmitEnd(j) ==
  /\ phase[j] = "ended"
  /\ phase' = [phase EXCEPT ![j] = "emitted"]
  /\ Emit(j)
  /\ UNCHANGED <<up, memory, status, started, ended, stopped, journal, listeners,
                 clock, faults, crashes>>

RecordEnd(j) ==
  /\ phase[j] = "emitted"
  /\ phase' = [phase EXCEPT ![j] = "written"]
  /\ Record(j)
  /\ UNCHANGED <<up, memory, status, events, started, ended, stopped, listeners,
                 client, clock, crashes>>

\* Mutant: the listeners are dropped with their channels open.
DropListeners(j) ==
  /\ phase[j] = "written"
  /\ phase' = [phase EXCEPT ![j] = "closed"]
  /\ listeners' = [listeners EXCEPT ![j] = {}]
  /\ UNCHANGED <<up, memory, status, events, started, ended, stopped, journal,
                 client, clock, faults, crashes>>

CloseListeners(j) ==
  /\ phase[j] = "written"
  /\ phase' = [phase EXCEPT ![j] = "closed"]
  /\ listeners' = [listeners EXCEPT ![j] = {}]
  /\ client' = [c \in Clients |-> IF c \in listeners[j]
                                  THEN [client[c] EXCEPT !.open = FALSE] ELSE client[c]]
  /\ UNCHANGED <<up, memory, status, events, started, ended, stopped, journal,
                 clock, faults, crashes>>

----------------------------------------------------------------------------
(* The requests: subscribing, reading the stream, leaving it, cancelling.    *)

\* The replay under j.mu stops at a full channel; a finished job closes it.
Replay(c, j, registered) ==
  LET replayed == IF events[j] <= ChanCap THEN events[j] ELSE ChanCap IN
  /\ up
  /\ client[c].job = NoJob
  /\ j \in memory
  /\ client' = [client EXCEPT ![c] =
       [job |-> j, queue |-> [i \in 1..replayed |-> i], got |-> <<>>,
        open |-> status[j] = "running", live |-> status[j] = "running",
        full |-> replayed < events[j]]]
  /\ listeners' = [listeners EXCEPT ![j] = IF registered THEN @ \cup {c} ELSE @]
  /\ UNCHANGED <<up, memory, jobVars, journal, clock, faults, crashes>>

\* Mutant: the channel is registered whether the job runs or not.
SubscribeAlways(c, j) == Replay(c, j, TRUE)

Subscribe(c, j) == Replay(c, j, status[j] = "running")

Receive(c) ==
  /\ client[c].queue # <<>>
  /\ client' = [client EXCEPT ![c].queue = Tail(@),
                              ![c].got = Append(@, Head(client[c].queue))]
  /\ UNCHANGED <<up, memory, jobVars, journal, listeners, clock, faults, crashes>>

\* The browser goes away, or the stream was read to its end.
Leave(c) ==
  /\ client[c].job # NoJob
  /\ listeners' = [listeners EXCEPT ![client[c].job] = @ \ {c}]
  /\ client' = [client EXCEPT ![c] = Idle]
  /\ UNCHANGED <<up, memory, jobVars, journal, clock, faults, crashes>>

\* Cancel's answer: FALSE is reported as "no such job, or it had already
\* finished".
CancelAnswer(j) == j \in memory /\ status[j] = "running" /\ phase[j] = "working"

Cancel(j) ==
  /\ up
  /\ CancelAnswer(j)
  /\ stopped' = [stopped EXCEPT ![j] = TRUE]
  /\ UNCHANGED <<up, memory, phase, status, events, started, ended, journal,
                 listeners, client, clock, faults, crashes>>

\* Runner.Find: memory first, then the journal.
Find(j) == IF j \in memory THEN status[j] ELSE journal[j].status

----------------------------------------------------------------------------
(* The daemon dies, and starts again: Settle runs before anything else.      *)

Crash ==
  /\ up
  /\ crashes < MaxCrashes
  /\ crashes' = crashes + 1
  /\ up' = FALSE
  /\ memory' = {}
  /\ phase' = [j \in Jobs |-> IF phase[j] \in Alive THEN "lost" ELSE phase[j]]
  /\ listeners' = [j \in Jobs |-> {}]
  /\ client' = [c \in Clients |-> Idle]
  /\ UNCHANGED <<status, events, started, ended, stopped, journal, clock, faults>>

SettleRows(rows) ==
  /\ ~up
  /\ up' = TRUE
  /\ journal' = [j \in Jobs |-> IF j \in rows
                                THEN [journal[j] EXCEPT !.status = "interrupted"]
                                ELSE journal[j]]
  /\ UNCHANGED <<memory, jobVars, listeners, client, clock, faults, crashes>>

\* Mutants: the UPDATE has no WHERE; the daemon serves without settling anything.
SettleEveryRow == SettleRows(Rows)
SettleNothing == SettleRows({})

Settle == SettleRows({j \in Jobs : journal[j].status = "running"})

----------------------------------------------------------------------------
Goroutine(j) ==
  \/ RecordStart(j) \/ Arm(j) \/ Step(j) \/ Return(j, "done") \/ Return(j, "failed")
  \/ EmitEnd(j) \/ RecordEnd(j) \/ CloseListeners(j)

Next ==
  \/ \E j \in Jobs : Start(j) \/ Goroutine(j) \/ Cancel(j)
  \/ \E c \in Clients : Receive(c) \/ Leave(c) \/ (\E j \in Jobs : Subscribe(c, j))
  \/ Crash
  \/ Settle

Spec == Init /\ [][Next]_vars

\* Each goroutine runs on, the work returns within its 30 minutes at the
\* latest, a stream that has events is read, and a daemon that died is started
\* again. Nothing obliges anyone to start, watch, cancel or leave.
Fairness ==
  /\ \A j \in Jobs : WF_vars(Goroutine(j))
  /\ \A c \in Clients : WF_vars(Receive(c))
  /\ WF_vars(Settle)

FairSpec == Spec /\ Fairness

----------------------------------------------------------------------------
(* Properties.                                                               *)

TypeOK ==
  /\ up \in BOOLEAN
  /\ memory \in SUBSET Jobs
  /\ phase \in [Jobs -> Phases]
  /\ status \in [Jobs -> {"none", "running"} \cup Finished]
  /\ events \in [Jobs -> Nat]
  /\ started \in [Jobs -> Nat]
  /\ ended \in [Jobs -> Nat]
  /\ stopped \in [Jobs -> BOOLEAN]
  /\ journal \in [Jobs -> [status : {"none", "running", "interrupted"} \cup Finished,
                           events : Nat]]
  /\ listeners \in [Jobs -> SUBSET Clients]
  /\ client \in [Clients -> [job : Jobs \cup {NoJob}, queue : Seq(Nat), got : Seq(Nat),
                             open : BOOLEAN, live : BOOLEAN, full : BOOLEAN]]
  /\ clock \in Nat /\ faults \in Nat /\ crashes \in Nat

\* The journal never claims an outcome the job did not have, and while the
\* daemon serves, a row says "running" only for a job of this very process:
\* what a restart walked away from was settled (job.repository.go, Settle).
JournalTellsTheTruth ==
  \A j \in Jobs :
    /\ journal[j].status \in Finished => journal[j].status = status[j]
    /\ up /\ journal[j].status = "running" => phase[j] \notin {"new", "lost"}

\* What is over stays over in the journal: no later write, of this job or of
\* another, turns a finished or interrupted row into another outcome. A row can
\* only go, dropped as one of the oldest.
OutcomesAreFinal ==
  [][\A j \in Jobs :
       journal[j].status \in Finished \cup {"interrupted"}
         => journal'[j] \in {journal[j], NoRow}]_journal

\* A job whose goroutine is over and that was written down is found with its
\* outcome and its whole story - in memory, or in the journal after Keep or a
\* restart let go of it - unless JournalKept jobs started later.
FinishedIsFound ==
  \A j \in Jobs :
    phase[j] = "closed" /\ faults = 0 =>
      \/ /\ Find(j) = status[j]
         /\ journal[j] = [status |-> status[j], events |-> events[j]]
      \/ Cardinality({k \in Jobs : started[k] > started[j]}) >= JournalKept

\* forget never lets go of a job that runs: it stays cancellable and watchable.
RunningIsRemembered ==
  \A j \in Jobs : phase[j] \in Alive /\ status[j] = "running" => j \in memory

\* What the runner keeps in memory is sound, and holds every job that runs.
JobRunnerInv == TypeOK /\ RunningIsRemembered

\* Nobody is left listening to a job that is over, and a channel that was
\* closed is registered nowhere: emit would panic sending on it.
NoOrphanListener ==
  \A j \in Jobs :
    /\ phase[j] \in {"closed", "lost"} => listeners[j] = {}
    /\ \A c \in listeners[j] : client[c].job = j /\ client[c].open

\* A client that was listening before the job finished, and whose channel never
\* filled up, has been handed every event, each once and in the order they
\* happened, when its channel closes - the End event included.
Caught(c) == client[c].got \o client[c].queue
Story(j) == [n \in 1..events[j] |-> n]
WholeStory ==
  \A c \in Clients : client[c].live /\ ~client[c].full => Caught(c) = Story(client[c].job)

\* The same for every client whose stream was closed, also one that subscribes
\* between the change of Status and the End event.
LateClientSeesTheWholeStory ==
  \A c \in Clients :
    client[c].job # NoJob /\ ~client[c].open /\ ~client[c].full
      => Caught(c) = Story(client[c].job)

\* Cancel answers that a job "had already finished" only when it had.
RefusedCancelMeansFinished ==
  \A j \in Jobs : up /\ phase[j] \in Alive /\ ~CancelAnswer(j) => status[j] \in Finished

\* Every stream ends: a channel that is registered is eventually closed or left.
StreamsEnd ==
  \A c \in Clients : client[c].open ~> ~client[c].open

\* Every job that is recorded as running gets an outcome, in this life of the
\* daemon or at the next start - while the journal can be written.
RowsSettle ==
  \A j \in Jobs : journal[j].status = "running" ~> journal[j].status # "running" \/ faults > 0
================================================================================
