---------------------------- MODULE DaemonRuntime ----------------------------
(***************************************************************************)
(* The daemon process (daemon/runtime, daemon/worker) and the run history  *)
(* it keeps in the state database, beside `dnsync job run` commands that   *)
(* write the same tables from a process of their own.                      *)
(*                                                                         *)
(*   scheduler --try_send--> queue --> workers --send--> channel --> writer *)
(*                                                                         *)
(* Time is left out: a trigger may come at any moment while the scheduling *)
(* loop runs, and the shutdown timeout may pass at any moment of the       *)
(* shutdown.  What a job does is RecordSync's subject; here it ends with   *)
(* an outcome.                                                             *)
(***************************************************************************)
EXTENDS Naturals, Sequences, FiniteSets

CONSTANTS Workers,    \* worker tasks
          Jobs,       \* enabled jobs of the configuration
          DryJobs,    \* those configured with dry_run
          QueueCap,   \* capacity of the job queue
          ChannelCap, \* capacity of the channel to the database writer
          MaxRuns, MaxManual, MaxStarts, MaxFaults, MaxCrashes \* bounds

ASSUME DaemonAssumption ==
  /\ Workers # {} /\ Jobs # {} /\ DryJobs \subseteq Jobs
  /\ {QueueCap, ChannelCap} \subseteq Nat \ {0}
  /\ {MaxRuns, MaxManual, MaxStarts, MaxFaults, MaxCrashes} \subseteq Nat

VARIABLES main,     \* where daemon::runtime::run is
          queue,    \* accepted triggers, oldest first
          worker,   \* the state of each worker task
          channel,  \* rows on their way to the database writer
          manual,   \* the `job run` command, if one is running
          table,    \* the state database
          serial,   \* the last run identity given out
          accepted, \* history: runs whose trigger a daemon accepted
          lost,     \* history: rows a failed write or a crash lost
          beside,   \* history: pairs of runs that were under way together
          budget    \* how many events of each kind are left

vars == <<main, queue, worker, channel, manual, table, serial, accepted, lost,
          beside, budget>>

RunIds == 1..(MaxRuns + MaxManual)

NoRun == 0

Outcomes == {"success", "failure", "dry_run"}

OutcomesOf(j) == {"failure", IF j \in DryJobs THEN "dry_run" ELSE "success"}

Trigger == [id : RunIds, job : Jobs]

Resting == [pc |-> "idle", id |-> NoRun, job |-> CHOOSE j \in Jobs : TRUE,
            outcome |-> "success", fails |-> [j \in Jobs |-> 0]]

NoStatus == [run |-> NoRun, state |-> "unknown", error |-> NoRun, fails |-> 0]

Init ==
  /\ main = "down"
  /\ queue = <<>>
  /\ worker = [w \in Workers |-> Resting]
  /\ channel = <<>>
  /\ manual = Resting
  /\ table = [runs |-> <<>>, status |-> [j \in Jobs |-> NoStatus], health |-> "none"]
  /\ serial = 0
  /\ accepted = {}
  /\ lost = {}
  /\ beside = {}
  /\ budget = [runs |-> MaxRuns, manual |-> MaxManual, starts |-> MaxStarts,
               faults |-> MaxFaults, crashes |-> MaxCrashes]

AtWork == {"busy", "run", "status"}

\* Runs that were taken up and whose status row is not yet in the table.
UnderWay ==
  {worker[w].id : w \in {v \in Workers : worker[v].pc \in AtWork}}
    \cup {channel[n].id : n \in DOMAIN channel}
    \cup {i \in {manual.id} : manual.pc \in AtWork}

\* A run that is taken up is beside all of these, and beside itself.
Beside(i) == {{i, k} : k \in UnderWay \cup {i}}

Spend(what) == budget[what] > 0 /\ budget' = [budget EXCEPT ![what] = @ - 1]

-----------------------------------------------------------------------------
(* The tables *)

RunRow(w)    == [table |-> "runs", id |-> w.id, job |-> w.job, outcome |-> w.outcome]
StatusRow(w) == [table |-> "status", id |-> w.id, job |-> w.job, outcome |-> w.outcome,
                 fails |-> w.fails[w.job]]

\* Slip: a status row that is there keeps the run it shows.
InsertedOnce(old, row) ==
  [run   |-> IF old.run = NoRun THEN row.id ELSE old.run,
   state |-> IF row.outcome = "failure" THEN "degraded" ELSE "healthy",
   error |-> IF row.outcome = "failure" THEN row.id ELSE old.error,
   fails |-> row.fails]

\* An upsert of a status row sets the columns the row gives a value, and a
\* run that did not fail gives none for the error.
Upserted(old, row) ==
  [run   |-> row.id,
   state |-> IF row.outcome = "failure" THEN "degraded" ELSE "healthy",
   error |-> IF row.outcome = "failure" THEN row.id ELSE old.error,
   fails |-> row.fails]

Written(row) ==
  IF row.table = "runs"
    THEN [table EXCEPT !.runs = Append(@, [id |-> row.id, job |-> row.job,
                                           outcome |-> row.outcome])]
    ELSE [table EXCEPT !.status[row.job] = Upserted(@, row)]

-----------------------------------------------------------------------------
(* The main task *)

StartDaemon ==
  /\ main = "down"
  /\ Spend("starts")
  /\ main' = "live"
  /\ queue' = <<>>
  /\ channel' = <<>>
  /\ worker' = [w \in Workers |-> Resting]
  /\ table' = [table EXCEPT !.health = "live"]
  /\ UNCHANGED <<manual, serial, accepted, lost, beside>>

\* The database is opened four times and the health row written between the
\* last two: the daemon does not start if one of these fails, and after the
\* last the row says that it did.
StartFails ==
  /\ main = "down"
  /\ budget.starts > 0 /\ budget.faults > 0
  /\ budget' = [budget EXCEPT !.starts = @ - 1, !.faults = @ - 1]
  /\ table' \in {table, [table EXCEPT !.health = "live"]}
  /\ UNCHANGED <<main, queue, worker, channel, manual, serial, accepted, lost,
                 beside>>

\* Slip: the queue's capacity is not looked at.
FireBlind(j) ==
  /\ main = "live"
  /\ Spend("runs")
  /\ serial' = serial + 1
  /\ queue' = Append(queue, [id |-> serial + 1, job |-> j])
  /\ accepted' = accepted \cup {serial + 1}
  /\ UNCHANGED <<main, worker, channel, manual, table, lost, beside>>

\* A due job, or one with run_immediately: try_send drops the trigger of a
\* full queue.
Fire(j) ==
  /\ main = "live"
  /\ Spend("runs")
  /\ IF Len(queue) < QueueCap
       THEN /\ serial' = serial + 1
            /\ queue' = Append(queue, [id |-> serial + 1, job |-> j])
            /\ accepted' = accepted \cup {serial + 1}
       ELSE UNCHANGED <<serial, queue, accepted>>
  /\ UNCHANGED <<main, worker, channel, manual, table, lost, beside>>

Cancel ==
  /\ main = "live"
  /\ main' = "draining"
  /\ UNCHANGED <<queue, worker, channel, manual, table, serial, accepted, lost,
                 beside, budget>>

WorkersExited == \A w \in Workers : worker[w].pc = "exited"

\* The wait for the workers ends when the last one has dropped its sender,
\* or at the shutdown timeout, which may pass at any moment.
EndDrain ==
  /\ main = "draining"
  /\ main' = "closing"
  /\ UNCHANGED <<queue, worker, channel, manual, table, serial, accepted, lost,
                 beside, budget>>

\* Slip: main does not wait for the workers' senders.
StopRegardless(health) ==
  /\ main = "closing"
  /\ channel = <<>>
  /\ main' = "down"
  /\ table' = [table EXCEPT !.health = health]
  /\ UNCHANGED <<queue, worker, channel, manual, serial, accepted, lost,
                 beside>>

\* Only then does main drop its own sender and wait for the writer, which
\* ends when every sender is gone and the channel is empty.
Stop(health) ==
  /\ main = "closing"
  /\ WorkersExited
  /\ channel = <<>>
  /\ main' = "down"
  /\ table' = [table EXCEPT !.health = health]
  /\ UNCHANGED <<queue, worker, channel, manual, serial, accepted, lost,
                 beside>>

StopGracefully == Stop("stopped") /\ UNCHANGED budget

StopUnrecorded == Stop(table.health) /\ Spend("faults")

Queued == {queue[n].id : n \in DOMAIN queue}

Held == {worker[w].id : w \in {v \in Workers : worker[v].pc \in {"busy", "run"}}}

Sent == {channel[n].id : n \in {m \in DOMAIN channel : channel[m].table = "runs"}}

\* The runs that a crash would lose.
Unsettled == Queued \cup Held \cup Sent

Crash ==
  /\ main # "down"
  /\ Spend("crashes")
  /\ main' = "down"
  /\ lost' = lost \cup Unsettled
  /\ queue' = <<>>
  /\ channel' = <<>>
  /\ worker' = [w \in Workers |-> Resting]
  /\ UNCHANGED <<manual, table, serial, accepted, beside>>

-----------------------------------------------------------------------------
(* The workers and the database writer *)

Up == main # "down"

\* Slip: workers take no trigger once the shutdown has begun.
TakeWhileLive(w) ==
  /\ main = "live"
  /\ worker[w].pc = "idle"
  /\ queue # <<>>
  /\ worker' = [worker EXCEPT ![w].pc = "busy", ![w].id = Head(queue).id,
                              ![w].job = Head(queue).job]
  /\ queue' = Tail(queue)
  /\ beside' = beside \cup Beside(Head(queue).id)
  /\ UNCHANGED <<main, channel, manual, table, serial, accepted, lost, budget>>

\* The worker that holds the receiver takes the oldest trigger.
Take(w) ==
  /\ Up
  /\ worker[w].pc = "idle"
  /\ queue # <<>>
  /\ worker' = [worker EXCEPT ![w].pc = "busy", ![w].id = Head(queue).id,
                              ![w].job = Head(queue).job]
  /\ queue' = Tail(queue)
  /\ beside' = beside \cup Beside(Head(queue).id)
  /\ UNCHANGED <<main, channel, manual, table, serial, accepted, lost, budget>>

\* Slip: a run that does not fail leaves the count.
CountedOn(fails, j, outcome) ==
  [fails EXCEPT ![j] = IF outcome = "failure" THEN @ + 1 ELSE @]

Counted(fails, j, outcome) ==
  [fails EXCEPT ![j] = IF outcome = "failure" THEN @ + 1 ELSE 0]

\* The job ends; failures in a row are counted by each worker for itself.
EndJob(w, outcome) ==
  /\ worker[w].pc = "busy"
  /\ outcome \in OutcomesOf(worker[w].job)
  /\ worker' = [worker EXCEPT ![w].pc = "run", ![w].outcome = outcome,
                              ![w].fails = Counted(@, worker[w].job, outcome)]
  /\ UNCHANGED <<main, queue, channel, manual, table, serial, accepted, lost,
                 beside, budget>>

\* Slip: the status is sent before the run.
SendSwapped(w, row, from, next) ==
  /\ worker[w].pc = from
  /\ Len(channel) < ChannelCap
  /\ channel' = Append(channel, IF from = "run" THEN StatusRow(worker[w])
                                               ELSE RunRow(worker[w]))
  /\ worker' = [worker EXCEPT ![w] = next]
  /\ UNCHANGED <<main, queue, manual, table, serial, accepted, lost, beside,
                 budget>>

\* The two sends wait while the channel is full.
Send(w, row, from, next) ==
  /\ worker[w].pc = from
  /\ Len(channel) < ChannelCap
  /\ channel' = Append(channel, row)
  /\ worker' = [worker EXCEPT ![w] = next]
  /\ UNCHANGED <<main, queue, manual, table, serial, accepted, lost, beside,
                 budget>>

SendRun(w) ==
  Send(w, RunRow(worker[w]), "run", [worker[w] EXCEPT !.pc = "status"])

SendStatus(w) ==
  Send(w, StatusRow(worker[w]), "status", [Resting EXCEPT !.fails = worker[w].fails])

\* Slip: a worker exits as soon as the job queue is closed.
ExitAtOnce(w) ==
  /\ main \in {"draining", "closing"}
  /\ worker[w].pc = "idle"
  /\ worker' = [worker EXCEPT ![w].pc = "exited"]
  /\ UNCHANGED <<main, queue, channel, manual, table, serial, accepted, lost,
                 beside, budget>>

\* Slip: a worker exits only while main still waits for it.
ExitInTime(w) ==
  /\ main = "draining"
  /\ worker[w].pc = "idle"
  /\ queue = <<>>
  /\ worker' = [worker EXCEPT ![w].pc = "exited"]
  /\ UNCHANGED <<main, queue, channel, manual, table, serial, accepted, lost,
                 beside, budget>>

\* The job queue is closed and drained.
Exit(w) ==
  /\ main \in {"draining", "closing"}
  /\ worker[w].pc = "idle"
  /\ queue = <<>>
  /\ worker' = [worker EXCEPT ![w].pc = "exited"]
  /\ UNCHANGED <<main, queue, channel, manual, table, serial, accepted, lost,
                 beside, budget>>

WriteRow ==
  /\ channel # <<>>
  /\ table' = Written(Head(channel))
  /\ channel' = Tail(channel)
  /\ UNCHANGED <<main, queue, worker, manual, serial, accepted, lost, beside,
                 budget>>

\* A failed write is logged and its row dropped.
WriteFails ==
  /\ channel # <<>>
  /\ Spend("faults")
  /\ channel' = Tail(channel)
  /\ lost' = IF Head(channel).table = "runs" THEN lost \cup {Head(channel).id} ELSE lost
  /\ UNCHANGED <<main, queue, worker, manual, table, serial, accepted, beside>>

-----------------------------------------------------------------------------
(* `dnsync job run`: one run, written straight to the tables *)

RunJob(j) ==
  /\ manual.pc = "idle"
  /\ Spend("manual")
  /\ serial' = serial + 1
  /\ manual' = [Resting EXCEPT !.pc = "busy", !.id = serial + 1, !.job = j]
  /\ beside' = beside \cup Beside(serial + 1)
  /\ UNCHANGED <<main, queue, worker, channel, table, accepted, lost>>

\* The command knows of no earlier failure.
EndManual(outcome) ==
  /\ manual.pc = "busy"
  /\ outcome \in OutcomesOf(manual.job)
  /\ manual' = [manual EXCEPT !.pc = "run", !.outcome = outcome,
                              !.fails = Counted(@, manual.job, outcome)]
  /\ UNCHANGED <<main, queue, worker, channel, table, serial, accepted, lost,
                 beside, budget>>

\* Slip: the status is saved before the run.
SaveStatusFirst ==
  /\ manual.pc \in {"run", "status"}
  /\ table' = Written(IF manual.pc = "run" THEN StatusRow(manual) ELSE RunRow(manual))
  /\ manual' = IF manual.pc = "run" THEN [manual EXCEPT !.pc = "status"] ELSE Resting
  /\ UNCHANGED <<main, queue, worker, channel, serial, accepted, lost, beside,
                 budget>>

SaveManual ==
  /\ manual.pc \in {"run", "status"}
  /\ table' = Written(IF manual.pc = "run" THEN RunRow(manual) ELSE StatusRow(manual))
  /\ manual' = IF manual.pc = "run" THEN [manual EXCEPT !.pc = "status"] ELSE Resting
  /\ UNCHANGED <<main, queue, worker, channel, serial, accepted, lost, beside,
                 budget>>

\* A failed write ends the command, before the status if it was the run's;
\* so does a signal, at any point.
EndEarly ==
  /\ manual.pc # "idle"
  /\ Spend("faults")
  /\ manual' = Resting
  /\ UNCHANGED <<main, queue, worker, channel, table, serial, accepted, lost,
                 beside>>

-----------------------------------------------------------------------------

WorkerStep(w) ==
  \/ Take(w) \/ SendRun(w) \/ SendStatus(w) \/ Exit(w)
  \/ \E outcome \in Outcomes : EndJob(w, outcome)

MainStep == EndDrain \/ StopGracefully

ManualStep == SaveManual \/ \E outcome \in Outcomes : EndManual(outcome)

Next ==
  \/ StartDaemon \/ StartFails \/ MainStep \/ Cancel \/ StopUnrecorded \/ Crash
  \/ WriteRow \/ WriteFails \/ EndEarly \/ ManualStep
  \/ \E w \in Workers : WorkerStep(w)
  \/ \E j \in Jobs : Fire(j) \/ RunJob(j)

Spec == Init /\ [][Next]_vars

\* Tasks of the runtime are scheduled, and a job ends: its requests carry
\* timeouts.  Nothing makes a trigger, a shutdown or a restart come.
FairSpec ==
  /\ Spec
  /\ \A w \in Workers : WF_vars(WorkerStep(w))
  /\ WF_vars(WriteRow) /\ WF_vars(MainStep) /\ WF_vars(ManualStep)

-----------------------------------------------------------------------------
(* Properties *)

WorkerState ==
  [pc : {"idle", "busy", "run", "status", "exited"}, id : RunIds \cup {NoRun},
   job : Jobs, outcome : Outcomes, fails : [Jobs -> Nat]]

Row ==
  [table : {"runs"}, id : RunIds, job : Jobs, outcome : Outcomes]
    \cup [table : {"status"}, id : RunIds, job : Jobs, outcome : Outcomes, fails : Nat]

StatusColumns ==
  [run : RunIds \cup {NoRun}, state : {"unknown", "healthy", "degraded"},
   error : RunIds \cup {NoRun}, fails : Nat]

\* The type invariant; both queues stay within their capacity.
TypeOK ==
  /\ main \in {"down", "live", "draining", "closing"}
  /\ queue \in Seq(Trigger) /\ Len(queue) <= QueueCap
  /\ worker \in [Workers -> WorkerState]
  /\ channel \in Seq(Row) /\ Len(channel) <= ChannelCap
  /\ manual \in WorkerState
  /\ table \in [runs : Seq([id : RunIds, job : Jobs, outcome : Outcomes]),
                status : [Jobs -> StatusColumns], health : {"none", "live", "stopped"}]
  /\ serial \in RunIds \cup {0}
  /\ {accepted, lost} \subseteq SUBSET RunIds
  /\ beside \subseteq SUBSET RunIds
  /\ budget \in [runs : 0..MaxRuns, manual : 0..MaxManual, starts : 0..MaxStarts,
                 faults : 0..MaxFaults, crashes : 0..MaxCrashes]

Recorded == {table.runs[n].id : n \in DOMAIN table.runs}

\* A daemon that says it stopped has run and recorded every trigger it had
\* accepted, even past the shutdown timeout; only failed writes are missing.
StoppedIsSettled ==
  table.health = "stopped" => accepted \subseteq Recorded \cup lost

\* A status row shows a run of its job that is in the history, as it ended
\* there, whichever worker or command wrote it and whatever writes failed.
StatusFromHistory ==
  \A j \in Jobs :
    LET status == table.status[j]
    IN \/ status.run \in lost \cup {NoRun}
       \/ \E n \in DOMAIN table.runs :
            /\ table.runs[n].id = status.run /\ table.runs[n].job = j
            /\ table.runs[n].outcome = "failure" <=> status.state = "degraded"

\* The runs of a job, by their places in the history.
RunsOf(j) == {n \in DOMAIN table.runs : table.runs[n].job = j}

\* The runs of a job that failed, by their identities.
FailedRuns(j) ==
  {table.runs[n].id : n \in {m \in RunsOf(j) : table.runs[m].outcome = "failure"}}

\* Those at its end that failed in a row.
TrailingFailures(j) ==
  {n \in RunsOf(j) : \A m \in RunsOf(j) : m >= n => table.runs[m].outcome = "failure"}

\* The status of a job agrees with its run history: once the status row of
\* the latest run is in, it counts that history's failures in a row.
StatusCountsHistory ==
  \A j \in Jobs : \A last \in RunsOf(j) :
    (\A n \in RunsOf(j) : n <= last) /\ table.status[j].run = table.runs[last].id =>
      table.status[j].fails = Cardinality(TrailingFailures(j))

\* Whichever workers and commands run a job and however often the daemon
\* starts over: the status row counts no failure that the history does not
\* have or a failed write or a crash took from it, and none once a run did
\* not fail.
StatusNeverOvercounts ==
  \A j \in Jobs :
    /\ table.status[j].fails <= Cardinality(FailedRuns(j) \cup lost)
    /\ table.status[j].fails > 0 <=> table.status[j].state = "degraded"

\* Nothing is on its way to the tables, and nothing failed or was killed.
Quiet ==
  /\ channel = <<>> /\ manual.pc = "idle"
  /\ \A w \in Workers : worker[w].pc \in {"idle", "busy", "exited"}
  /\ budget.faults = MaxFaults /\ budget.crashes = MaxCrashes

\* Several workers and a command may run one job at once, and each writes its
\* status row when it gets to it.  Once all rows are in, the status row of a
\* job shows the last run of its history, or one that was under way together
\* with it: a run that began after another had written its rows never hides
\* behind it.
StaleOnlyBeside ==
  \A j \in Jobs : \A last \in RunsOf(j) :
    Quiet /\ (\A n \in RunsOf(j) : n <= last) =>
      {table.status[j].run, table.runs[last].id} \in beside

\* Every accepted trigger is run and recorded, unless the daemon crashes.
AcceptedIsRecorded ==
  \A i \in RunIds : i \in accepted ~> i \in Recorded \cup lost

\* A shutdown completes, and with the health row saying so.
ShutdownCompletes == main = "draining" ~> table.health = "stopped"

-----------------------------------------------------------------------------
(* What the daemon promises: RunLifecycle *)

Stage(i) ==
  IF i \notin accepted THEN "new"
  ELSE IF i \in Recorded THEN "recorded"
  ELSE IF i \in lost THEN "lost"
  ELSE IF i \in Queued THEN "queued"
  ELSE IF \E w \in Workers : worker[w].id = i /\ worker[w].pc = "busy" THEN "running"
  ELSE "ended"

\* The triggers of the daemon; a run of the command never leaves "new".
Lifecycle ==
  INSTANCE RunLifecycle WITH
    Ids <- RunIds, serving <- Up, stage <- [i \in RunIds |-> Stage(i)]

PromisesKept == Lifecycle!Spec
=============================================================================
