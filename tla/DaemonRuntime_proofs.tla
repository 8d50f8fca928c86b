------------------------ MODULE DaemonRuntime_proofs ------------------------
(* Proofs about DaemonRuntime, for every number of workers, jobs and runs   *)
(* and every capacity of its two queues.                                    *)
EXTENDS DaemonRuntime, SequenceTheorems, TLAPS

Kinds == {"runs", "manual", "starts", "faults", "crashes"}

Budget == [runs : 0..MaxRuns, manual : 0..MaxManual, starts : 0..MaxStarts,
           faults : 0..MaxFaults, crashes : 0..MaxCrashes]

\* Identities do not run out before the budget of runs does.
IdsLeft == serial + budget.runs + budget.manual <= MaxRuns + MaxManual

\* Whatever works on a run has the run's identity.
Identified(s) == s.pc \in {"busy", "run", "status"} => s.id # NoRun

TypeInv ==
  TypeOK /\ IdsLeft /\ Identified(manual) /\ \A w \in Workers : Identified(worker[w])

-----------------------------------------------------------------------------
(* Types of the operators the actions are built from *)

LEMMA Bounds ==
  /\ {QueueCap, ChannelCap, MaxRuns, MaxManual, MaxStarts, MaxFaults, MaxCrashes}
       \subseteq Nat
  /\ \A i \in RunIds : i \in Nat /\ i # NoRun
BY DaemonAssumption DEF DaemonAssumption, RunIds, NoRun

LEMMA RestingType == Resting \in WorkerState /\ Resting.pc = "idle"
BY DaemonAssumption
DEF DaemonAssumption, Resting, WorkerState, Outcomes, NoRun

LEMMA SpendType ==
  ASSUME budget \in Budget, NEW what \in Kinds, Spend(what)
  PROVE  /\ budget' \in Budget
         /\ what \notin {"runs", "manual"} =>
              budget'.runs = budget.runs /\ budget'.manual = budget.manual
         /\ what = "runs" =>
              budget'.runs + 1 = budget.runs /\ budget'.manual = budget.manual
         /\ what = "manual" =>
              budget'.runs = budget.runs /\ budget'.manual + 1 = budget.manual
BY DaemonAssumption DEF DaemonAssumption, Spend, Budget, Kinds

LEMMA CountedType ==
  ASSUME NEW fails \in [Jobs -> Nat], NEW j \in Jobs, NEW outcome
  PROVE  Counted(fails, j, outcome) \in [Jobs -> Nat]
BY DEF Counted

LEMMA OutcomesType == \A j : OutcomesOf(j) \subseteq Outcomes
BY DEF OutcomesOf, Outcomes

\* The rows of a run that has an identity are rows of the tables.
LEMMA RowType ==
  ASSUME NEW s \in WorkerState, s.id # NoRun
  PROVE  RunRow(s) \in Row /\ StatusRow(s) \in Row
BY DEF RunRow, StatusRow, Row, WorkerState, NoRun, RunIds

Tables ==
  [runs : Seq([id : RunIds, job : Jobs, outcome : Outcomes]),
   status : [Jobs -> StatusColumns], health : {"none", "live", "stopped"}]

LEMMA WrittenType ==
  ASSUME table \in Tables, NEW row \in Row PROVE Written(row) \in Tables
<1>1. CASE row.table = "runs"
  <2> DEFINE new == [id |-> row.id, job |-> row.job, outcome |-> row.outcome]
  <2>1. new \in [id : RunIds, job : Jobs, outcome : Outcomes]
    BY DEF Row
  <2>2. Append(table.runs, new) \in Seq([id : RunIds, job : Jobs, outcome : Outcomes])
    BY <2>1, AppendProperties DEF Tables
  <2> QED
    BY <1>1, <2>2 DEF Written, Tables
<1>2. CASE row.table # "runs"
  <2>1. row \in [table : {"status"}, id : RunIds, job : Jobs, outcome : Outcomes,
                 fails : Nat]
    BY <1>2 DEF Row
  <2>2. Upserted(table.status[row.job], row) \in StatusColumns
    BY <2>1 DEF Upserted, Tables, StatusColumns
  <2> QED
    BY <1>2, <2>1, <2>2 DEF Written, Tables
<1> QED
  BY <1>1, <1>2

-----------------------------------------------------------------------------
(* Type correctness *)

LEMMA QueueTypes ==
  ASSUME NEW S, NEW q \in Seq(S), q # << >>
  PROVE  Head(q) \in S /\ Tail(q) \in Seq(S) /\ Len(Tail(q)) = Len(q) - 1
BY HeadTailProperties

LEMMA IdType ==
  ASSUME TypeInv, budget.runs > 0 \/ budget.manual > 0
  PROVE  serial + 1 \in RunIds
<1>1. serial \in Nat /\ budget.runs \in Nat /\ budget.manual \in Nat
  BY DaemonAssumption DEF DaemonAssumption, TypeInv, TypeOK, RunIds
<1>2. serial + 1 <= MaxRuns + MaxManual
  BY <1>1, DaemonAssumption DEF DaemonAssumption, TypeInv, IdsLeft
<1> QED
  BY <1>1, <1>2, DaemonAssumption DEF DaemonAssumption, RunIds

LEMMA MainTypes ==
  ASSUME TypeInv,
         StartDaemon \/ StartFails \/ MainStep \/ Cancel \/ StopUnrecorded \/ Crash
  PROVE  TypeInv'
<1>1. /\ << >> \in Seq(Trigger) /\ << >> \in Seq(Row)
      /\ Len(<< >>) <= QueueCap /\ Len(<< >>) <= ChannelCap
  BY EmptySeq, DaemonAssumption DEF DaemonAssumption
<1>2. /\ [w \in Workers |-> Resting] \in [Workers -> WorkerState]
      /\ \A w \in Workers : Identified([v \in Workers |-> Resting][w])
  BY RestingType DEF Identified
<1>3. \A h \in {"none", "live", "stopped"} :
        /\ table \in Tables
        /\ [table EXCEPT !.health = h] \in Tables
  BY DEF TypeInv, TypeOK, Tables
<1>4. CASE StartDaemon
  <2>1. budget' \in Budget /\ IdsLeft'
    BY <1>4, SpendType DEF StartDaemon, TypeInv, TypeOK, Budget, Kinds, IdsLeft
  <2> QED
    BY <1>1, <1>2, <1>3, <1>4, <2>1
    DEF StartDaemon, TypeInv, TypeOK, Budget, Tables, Identified
<1>5. CASE StartFails
  <2>1. budget' \in Budget /\ IdsLeft'
    <3>1. /\ budget \in Budget
          /\ budget' = [budget EXCEPT !.starts = @ - 1, !.faults = @ - 1]
          /\ budget.starts > 0 /\ budget.faults > 0 /\ serial' = serial
      BY <1>5 DEF StartFails, TypeInv, TypeOK, Budget
    <3>2. /\ budget.starts \in 0..MaxStarts /\ budget.faults \in 0..MaxFaults
          /\ budget'.runs = budget.runs /\ budget'.manual = budget.manual
      BY <3>1 DEF Budget
    <3>3. budget.starts - 1 \in 0..MaxStarts /\ budget.faults - 1 \in 0..MaxFaults
      BY <3>1, <3>2, Bounds
    <3>4. budget' \in Budget
      BY <3>1, <3>3 DEF Budget
    <3> QED
      BY <3>1, <3>2, <3>4 DEF TypeInv, IdsLeft
  <2> QED
    BY <1>5, <2>1 DEF StartFails, TypeInv, TypeOK, Budget, Identified
<1>6. CASE MainStep \/ Cancel
  BY <1>3, <1>6
  DEF MainStep, Cancel, EndDrain, StopGracefully, Stop, TypeInv, TypeOK, Tables,
      IdsLeft, Identified
<1>7. CASE StopUnrecorded
  <2>1. budget' \in Budget /\ IdsLeft'
    BY <1>7, SpendType
    DEF StopUnrecorded, Stop, TypeInv, TypeOK, Budget, Kinds, IdsLeft
  <2>2. table' \in Tables
    BY <1>3, <1>7 DEF StopUnrecorded, Stop, Tables
  <2> QED
    BY <1>7, <2>1, <2>2
    DEF StopUnrecorded, Stop, TypeInv, TypeOK, Budget, Tables, Identified
<1>8. CASE Crash
  <2>1. budget' \in Budget /\ IdsLeft'
    BY <1>8, SpendType DEF Crash, TypeInv, TypeOK, Budget, Kinds, IdsLeft
  <2>2. Queued \subseteq RunIds
    <3>1. \A n \in DOMAIN queue : queue[n] \in Trigger
      BY ElementOfSeq DEF TypeInv, TypeOK
    <3> QED
      BY <3>1 DEF Queued, Trigger
  <2>3. Held \subseteq RunIds
    BY DEF TypeInv, TypeOK, Held, Identified, WorkerState
  <2>4. Sent \subseteq RunIds
    <3>1. \A n \in DOMAIN channel : channel[n] \in Row
      BY ElementOfSeq DEF TypeInv, TypeOK
    <3> QED
      BY <3>1 DEF Sent, Row
  <2>5. lost' \subseteq RunIds
    BY <1>8, <2>2, <2>3, <2>4 DEF Crash, Unsettled, TypeInv, TypeOK
  <2> QED
    BY <1>1, <1>2, <1>8, <2>1, <2>5
    DEF Crash, TypeInv, TypeOK, Budget, Identified
<1> QED
  BY <1>4, <1>5, <1>6, <1>7, <1>8

\* Whoever is under way has an identity, and so has what it is beside.
LEMMA UnderWayTypes ==
  ASSUME TypeInv PROVE UnderWay \subseteq RunIds /\ \A i \in RunIds : Beside(i) \subseteq SUBSET RunIds
<1>1. \A s \in WorkerState : Identified(s) /\ s.pc \in AtWork => s.id \in RunIds
  BY Bounds DEF Identified, WorkerState, AtWork
<1>2. \A w \in Workers : worker[w].pc \in AtWork => worker[w].id \in RunIds
  BY <1>1 DEF TypeInv, TypeOK
<1>3. \A n \in DOMAIN channel : channel[n].id \in RunIds
  <2>1. \A n \in DOMAIN channel : channel[n] \in Row
    BY ElementOfSeq DEF TypeInv, TypeOK
  <2> QED
    BY <2>1 DEF Row
<1>4. \A i \in {manual.id} : manual.pc \in AtWork => i \in RunIds
  BY <1>1 DEF TypeInv, TypeOK
<1>5. UnderWay \subseteq RunIds
  BY <1>2, <1>3, <1>4 DEF UnderWay
<1> QED
  BY <1>5 DEF Beside

LEMMA FireTypes ==
  ASSUME TypeInv, NEW j \in Jobs, Fire(j) PROVE TypeInv'
<1>1. budget' \in Budget /\ budget'.runs + 1 = budget.runs /\ budget'.manual = budget.manual
  BY SpendType DEF Fire, TypeInv, TypeOK, Budget, Kinds
<1>2. budget \in Budget /\ budget.runs > 0 /\ serial \in Nat
  BY DEF Fire, Spend, TypeInv, TypeOK, Budget, RunIds
<1>3. serial + 1 \in RunIds
  BY <1>2, IdType
<1>4. CASE Len(queue) < QueueCap
  <2> DEFINE t == [id |-> serial + 1, job |-> j]
  <2>1. t \in Trigger /\ queue \in Seq(Trigger)
    BY <1>3 DEF Trigger, TypeInv, TypeOK
  <2>2. Append(queue, t) \in Seq(Trigger) /\ Len(Append(queue, t)) = Len(queue) + 1
    BY <2>1, AppendProperties
  <2>3. queue' \in Seq(Trigger) /\ Len(queue') <= QueueCap
    BY <1>4, <2>1, <2>2, LenProperties, DaemonAssumption DEF Fire, DaemonAssumption
  <2>4. IdsLeft'
    <3>1. serial' = serial + 1
      BY <1>4 DEF Fire
    <3>2. budget.runs \in Nat /\ budget.manual \in Nat
      BY <1>2, Bounds DEF Budget
    <3>3. serial + budget.runs + budget.manual <= MaxRuns + MaxManual
      BY DEF TypeInv, IdsLeft
    <3>4. budget'.runs = budget.runs - 1 /\ budget'.manual = budget.manual
      <4>1. budget'.runs \in Nat
        BY <1>1, Bounds DEF Budget
      <4> QED
        BY <1>1, <3>2, <4>1
    <3>5. serial' + budget'.runs + budget'.manual = serial + budget.runs + budget.manual
      BY <1>2, <3>1, <3>2, <3>4
    <3> QED
      BY <3>3, <3>5 DEF IdsLeft
  <2> QED
    BY <1>1, <1>3, <1>4, <2>3, <2>4
    DEF Fire, TypeInv, TypeOK, Budget, Identified
<1>5. CASE ~(Len(queue) < QueueCap)
  <2>1. IdsLeft'
    <3>1. serial' = serial /\ budget.runs \in Nat /\ budget.manual \in Nat
      BY <1>2, <1>5, Bounds DEF Fire, Budget
    <3>2. serial + budget.runs + budget.manual <= MaxRuns + MaxManual
      BY DEF TypeInv, IdsLeft
    <3>3. budget'.runs \in Nat /\ budget'.runs + 1 = budget.runs
      BY <1>1, Bounds DEF Budget
    <3> QED
      BY <1>1, <1>2, <3>1, <3>2, <3>3, Bounds DEF IdsLeft
  <2> QED
    BY <1>1, <1>5, <2>1 DEF Fire, TypeInv, TypeOK, Budget, Identified
<1> QED
  BY <1>4, <1>5

LEMMA WorkerTypes ==
  ASSUME TypeInv, NEW w \in Workers, WorkerStep(w) PROVE TypeInv'
<1> DEFINE old == worker[w]
<1>0. old \in WorkerState /\ Identified(old)
  BY DEF TypeInv, TypeOK
<1>1. CASE Take(w)
  <2>1. /\ Head(queue) \in Trigger /\ Tail(queue) \in Seq(Trigger)
        /\ Len(Tail(queue)) = Len(queue) - 1
    BY <1>1, QueueTypes DEF Take, TypeInv, TypeOK
  <2>2. /\ Head(queue).id \in RunIds /\ Head(queue).job \in Jobs
        /\ Len(queue) \in Nat /\ QueueCap \in Nat
    BY <2>1, LenProperties, DaemonAssumption
    DEF Trigger, DaemonAssumption, TypeInv, TypeOK
  <2> DEFINE new == [old EXCEPT !.pc = "busy", !.id = Head(queue).id,
                                !.job = Head(queue).job]
  <2>3. new \in WorkerState /\ Identified(new)
    BY <1>0, <2>2, Bounds DEF WorkerState, Identified
  <2>4. worker' = [worker EXCEPT ![w] = new]
    BY <1>1, <1>0 DEF Take, TypeInv, TypeOK, WorkerState
  <2>5. worker' \in [Workers -> WorkerState] /\ \A v \in Workers : Identified(worker'[v])
    BY <2>3, <2>4 DEF TypeInv, TypeOK
  <2>6. queue' \in Seq(Trigger) /\ Len(queue') <= QueueCap
    BY <1>1, <2>1, <2>2 DEF Take, TypeInv, TypeOK
  <2>7. beside' \subseteq SUBSET RunIds
    BY <1>1, <2>2, UnderWayTypes DEF Take, TypeInv, TypeOK
  <2> QED
    BY <1>1, <2>5, <2>6, <2>7 DEF Take, TypeInv, TypeOK, IdsLeft, Identified
<1>2. ASSUME NEW outcome \in Outcomes, EndJob(w, outcome) PROVE TypeInv'
  <2> DEFINE new == [old EXCEPT !.pc = "run", !.outcome = outcome,
                                !.fails = Counted(@, old.job, outcome)]
  <2>1. Counted(old.fails, old.job, outcome) \in [Jobs -> Nat]
    BY <1>0, CountedType DEF WorkerState
  <2>2. new \in WorkerState /\ Identified(new)
    BY <1>0, <1>2, <2>1 DEF EndJob, WorkerState, Identified
  <2>3. worker' = [worker EXCEPT ![w] = new]
    BY <1>0, <1>2 DEF EndJob, TypeInv, TypeOK, WorkerState
  <2>4. worker' \in [Workers -> WorkerState] /\ \A v \in Workers : Identified(worker'[v])
    BY <2>2, <2>3 DEF TypeInv, TypeOK
  <2> QED
    BY <1>2, <2>4 DEF EndJob, TypeInv, TypeOK, IdsLeft, Identified
<1>3. ASSUME NEW row \in Row, NEW from, NEW new \in WorkerState, Identified(new),
             Send(w, row, from, new)
      PROVE  TypeInv'
  <2>1. /\ Append(channel, row) \in Seq(Row)
        /\ Len(Append(channel, row)) = Len(channel) + 1
    BY AppendProperties DEF TypeInv, TypeOK
  <2>2. channel' \in Seq(Row) /\ Len(channel') <= ChannelCap
    BY <1>3, <2>1, LenProperties, DaemonAssumption
    DEF Send, DaemonAssumption, TypeInv, TypeOK
  <2>3. worker' \in [Workers -> WorkerState] /\ \A v \in Workers : Identified(worker'[v])
    BY <1>3 DEF Send, TypeInv, TypeOK
  <2> QED
    BY <1>3, <2>2, <2>3 DEF Send, TypeInv, TypeOK, IdsLeft, Identified
<1>4. CASE SendRun(w)
  <2>1. old.id # NoRun
    BY <1>0, <1>4 DEF SendRun, Send, Identified
  <2>2. [old EXCEPT !.pc = "status"] \in WorkerState
        /\ Identified([old EXCEPT !.pc = "status"])
    BY <1>0, <2>1 DEF WorkerState, Identified
  <2> QED
    BY <1>0, <1>3, <1>4, <2>1, <2>2, RowType DEF SendRun
<1>5. CASE SendStatus(w)
  <2>1. old.id # NoRun
    BY <1>0, <1>5 DEF SendStatus, Send, Identified
  <2>2. [Resting EXCEPT !.fails = old.fails] \in WorkerState
        /\ Identified([Resting EXCEPT !.fails = old.fails])
    BY <1>0, RestingType DEF WorkerState, Identified
  <2> QED
    BY <1>0, <1>3, <1>5, <2>1, <2>2, RowType DEF SendStatus
<1>6. CASE Exit(w)
  <2>1. [old EXCEPT !.pc = "exited"] \in WorkerState
        /\ Identified([old EXCEPT !.pc = "exited"])
    BY <1>0 DEF WorkerState, Identified
  <2>2. worker' \in [Workers -> WorkerState] /\ \A v \in Workers : Identified(worker'[v])
    BY <1>6, <2>1 DEF Exit, TypeInv, TypeOK
  <2> QED
    BY <1>6, <2>2 DEF Exit, TypeInv, TypeOK, IdsLeft, Identified
<1> QED
  BY <1>1, <1>2, <1>4, <1>5, <1>6 DEF WorkerStep

LEMMA WriterTypes ==
  ASSUME TypeInv, WriteRow \/ WriteFails PROVE TypeInv'
<1>1. /\ Head(channel) \in Row /\ Tail(channel) \in Seq(Row)
      /\ Len(Tail(channel)) = Len(channel) - 1
  BY QueueTypes DEF WriteRow, WriteFails, TypeInv, TypeOK
<1>2. channel' \in Seq(Row) /\ Len(channel') <= ChannelCap
  <2>1. channel' = Tail(channel)
    BY DEF WriteRow, WriteFails
  <2>2. Len(channel) \in Nat /\ Len(channel) <= ChannelCap
    BY LenProperties DEF TypeInv, TypeOK
  <2> QED
    BY <1>1, <2>1, <2>2, Bounds
<1>3. CASE WriteRow
  <2>1. table' \in Tables
    BY <1>1, <1>3, WrittenType DEF WriteRow, TypeInv, TypeOK, Tables
  <2> QED
    BY <1>2, <1>3, <2>1 DEF WriteRow, TypeInv, TypeOK, Tables, IdsLeft, Identified
<1>4. CASE WriteFails
  <2>1. budget' \in Budget /\ IdsLeft'
    BY <1>4, SpendType DEF WriteFails, TypeInv, TypeOK, Budget, Kinds, IdsLeft
  <2>2. Head(channel).id \in RunIds
    BY <1>1 DEF Row
  <2>3. lost' \subseteq RunIds
    BY <1>4, <2>2 DEF WriteFails, TypeInv, TypeOK
  <2> QED
    BY <1>2, <1>4, <2>1, <2>3 DEF WriteFails, TypeInv, TypeOK, Budget, Identified
<1> QED
  BY <1>3, <1>4

LEMMA ManualTypes ==
  ASSUME TypeInv, ManualStep \/ EndEarly \/ \E j \in Jobs : RunJob(j)
  PROVE  TypeInv'
<1>0. manual \in WorkerState /\ Identified(manual)
  BY DEF TypeInv, TypeOK
<1>1. CASE EndEarly
  <2>1. budget' \in Budget /\ IdsLeft'
    BY <1>1, SpendType DEF EndEarly, TypeInv, TypeOK, Budget, Kinds, IdsLeft
  <2> QED
    BY <1>1, <2>1, RestingType DEF EndEarly, TypeInv, TypeOK, Budget, Identified
<1>2. ASSUME NEW j \in Jobs, RunJob(j) PROVE TypeInv'
  <2>1. /\ budget' \in Budget
        /\ budget'.runs = budget.runs /\ budget'.manual + 1 = budget.manual
    BY <1>2, SpendType DEF RunJob, TypeInv, TypeOK, Budget, Kinds
  <2>2. budget \in Budget /\ budget.manual > 0 /\ serial \in Nat
    <3>1. budget.manual > 0
      BY <1>2 DEF RunJob, Spend
    <3> QED
      BY <3>1, Bounds DEF TypeInv, TypeOK, Budget, NoRun
  <2>3. serial + 1 \in RunIds
    BY <2>2, IdType
  <2>4. IdsLeft'
    <3>1. serial' = serial + 1 /\ budget.runs \in Nat /\ budget.manual \in Nat
      <4>1. serial' = serial + 1
        BY <1>2 DEF RunJob
      <4> QED
        BY <2>2, <4>1, Bounds DEF Budget
    <3>2. serial + budget.runs + budget.manual <= MaxRuns + MaxManual
      BY DEF TypeInv, IdsLeft
    <3>3. budget'.manual \in Nat
      BY <2>1, Bounds DEF Budget
    <3> QED
      BY <2>1, <2>2, <3>1, <3>2, <3>3, Bounds DEF IdsLeft
  <2>5. manual' \in WorkerState /\ Identified(manual')
    <3>1. manual' = [Resting EXCEPT !.pc = "busy", !.id = serial + 1, !.job = j]
      BY <1>2 DEF RunJob
    <3> QED
      BY <2>3, <3>1, RestingType, Bounds DEF WorkerState, Identified
  <2>6. beside' \subseteq SUBSET RunIds
    BY <1>2, <2>3, UnderWayTypes DEF RunJob, TypeInv, TypeOK
  <2> QED
    BY <1>2, <2>1, <2>3, <2>4, <2>5, <2>6 DEF RunJob, TypeInv, TypeOK, Budget, Identified
<1>3. ASSUME NEW outcome \in Outcomes, EndManual(outcome) PROVE TypeInv'
  <2>1. Counted(manual.fails, manual.job, outcome) \in [Jobs -> Nat]
    BY <1>0, CountedType DEF WorkerState
  <2>2. manual' \in WorkerState /\ Identified(manual')
    BY <1>0, <1>3, <2>1 DEF EndManual, WorkerState, Identified
  <2> QED
    BY <1>3, <2>2 DEF EndManual, TypeInv, TypeOK, IdsLeft, Identified
<1>4. CASE SaveManual
  <2>1. manual.id # NoRun
    BY <1>0, <1>4 DEF SaveManual, Identified
  <2>2. table' \in Tables
    BY <1>0, <1>4, <2>1, RowType, WrittenType DEF SaveManual, TypeInv, TypeOK, Tables
  <2>3. manual' \in WorkerState /\ Identified(manual')
    BY <1>0, <1>4, <2>1, RestingType DEF SaveManual, WorkerState, Identified
  <2> QED
    BY <1>4, <2>2, <2>3 DEF SaveManual, TypeInv, TypeOK, Tables, IdsLeft, Identified
<1> QED
  BY <1>1, <1>2, <1>3, <1>4 DEF ManualStep

LEMMA InitTyped == Init => TypeInv
<1>1. << >> \in Seq(Trigger) /\ << >> \in Seq(Row) /\ Len(<< >>) = 0
      /\ << >> \in Seq([id : RunIds, job : Jobs, outcome : Outcomes])
  BY EmptySeq
<1>2. NoStatus \in StatusColumns
  BY DEF NoStatus, StatusColumns
<1> QED
  BY <1>1, <1>2, RestingType, DaemonAssumption
  DEF Init, TypeInv, TypeOK, IdsLeft, Identified, DaemonAssumption

LEMMA NextTyped == TypeInv /\ [Next]_vars => TypeInv'
<1> SUFFICES ASSUME TypeInv, [Next]_vars PROVE TypeInv'
  OBVIOUS
<1>1. CASE Next
  BY <1>1, MainTypes, FireTypes, WorkerTypes, WriterTypes, ManualTypes DEF Next
<1>2. CASE UNCHANGED vars
  BY <1>2 DEF vars, TypeInv, TypeOK, IdsLeft, Identified
<1> QED
  BY <1>1, <1>2

\* Every state of the daemon is well typed: neither queue ever exceeds its
\* capacity, and identities last as long as the budget of runs.
THEOREM TypeCorrect == Spec => []TypeOK
<1>1. TypeInv => TypeOK
  BY DEF TypeInv
<1> QED
  BY <1>1, InitTyped, NextTyped, PTL DEF Spec

-----------------------------------------------------------------------------
(* Nothing accepted is forgotten *)

\* An accepted run is settled, or a queue, a worker or the channel holds it;
\* workers exit only behind an empty queue; a daemon that is down holds
\* nothing, and the health row says "stopped" of no other.
SettledInv ==
  /\ accepted \subseteq Recorded \cup lost \cup Unsettled
  /\ main = "down" => /\ queue = << >> /\ channel = << >>
                      /\ \A w \in Workers : worker[w].pc \in {"idle", "exited"}
  /\ \A w \in Workers : worker[w].pc = "exited" => main # "live" /\ queue = << >>
  /\ table.health = "stopped" => main = "down"

\* What a sequence holds after an element joins or leaves it.
LEMMA AppendHolds ==
  ASSUME NEW S, NEW q \in Seq(S), NEW x \in S
  PROVE  {Append(q, x)[n] : n \in DOMAIN Append(q, x)} = {q[n] : n \in DOMAIN q} \cup {x}
<1> DEFINE a == Append(q, x)
<1>1. /\ a \in Seq(S) /\ Len(a) = Len(q) + 1 /\ a[Len(q) + 1] = x
      /\ \A n \in 1..Len(q) : a[n] = q[n]
  BY AppendProperties
<1>2. DOMAIN q = 1..Len(q) /\ DOMAIN a = 1..Len(a) /\ Len(q) \in Nat
  BY <1>1, LenProperties
<1>3. DOMAIN a = DOMAIN q \cup {Len(q) + 1}
  BY <1>1, <1>2
<1> HIDE DEF a
<1> QED
  BY <1>1, <1>2, <1>3 DEF a

LEMMA TailHolds ==
  ASSUME NEW S, NEW q \in Seq(S), q # << >>
  PROVE  {q[n] : n \in DOMAIN q} = {Head(q)} \cup {Tail(q)[n] : n \in DOMAIN Tail(q)}
<1> DEFINE t == Tail(q)
<1>1. /\ t \in Seq(S) /\ Len(t) = Len(q) - 1
      /\ \A n \in 1..Len(t) : t[n] = q[n + 1]
  BY HeadTailProperties
<1>2. DOMAIN q = 1..Len(q) /\ DOMAIN t = 1..Len(t) /\ Len(q) \in Nat
  BY <1>1, LenProperties
<1>3. Head(q) = q[1] /\ Len(q) > 0
  BY EmptySeq, <1>2
<1> HIDE DEF t
<1>4. \A n \in DOMAIN q : q[n] \in {Head(q)} \cup {t[m] : m \in DOMAIN t}
  <2> TAKE n \in DOMAIN q
  <2>1. CASE n = 1
    BY <1>3, <2>1
  <2>2. CASE n # 1
    <3>1. n - 1 \in 1..Len(t) /\ t[n - 1] = q[n]
      BY <1>1, <1>2, <1>3, <2>2
    <3> QED
      BY <1>2, <3>1
  <2> QED
    BY <2>1, <2>2
<1>5. \A m \in DOMAIN t : t[m] \in {q[n] : n \in DOMAIN q}
  BY <1>1, <1>2
<1>6. Head(q) \in {q[n] : n \in DOMAIN q}
  BY <1>2, <1>3
<1> QED
  BY <1>4, <1>5, <1>6 DEF t

In(q) == {q[n] : n \in DOMAIN q}

LEMMA HeldByQueues ==
  /\ Queued = {t.id : t \in In(queue)}
  /\ Sent = {x.id : x \in {y \in In(channel) : y.table = "runs"}}
BY DEF Queued, Sent, In

\* What is in no other place than it was stays unsettled.
LEMMA SettledStep ==
  ASSUME SettledInv, Recorded \subseteq Recorded', lost \subseteq lost',
         accepted' = accepted,
         Unsettled \subseteq Unsettled' \cup Recorded' \cup lost'
  PROVE  accepted' \subseteq Recorded' \cup lost' \cup Unsettled'
BY DEF SettledInv

LEMMA WrittenRecords ==
  ASSUME table \in Tables, NEW row \in Row, table' = Written(row)
  PROVE  /\ Recorded \subseteq Recorded'
         /\ row.table = "runs" => row.id \in Recorded'
         /\ table'.health = table.health
<1>1. CASE row.table = "runs"
  <2> DEFINE new == [id |-> row.id, job |-> row.job, outcome |-> row.outcome]
  <2>1. new \in [id : RunIds, job : Jobs, outcome : Outcomes]
    BY DEF Row
  <2>2. table.runs \in Seq([id : RunIds, job : Jobs, outcome : Outcomes])
    BY DEF Tables
  <2>3. table'.runs = Append(table.runs, new) /\ table'.health = table.health
    BY <1>1 DEF Written, Tables
  <2>4. In(table'.runs) = In(table.runs) \cup {new}
    BY <2>1, <2>2, <2>3, AppendHolds DEF In
  <2>5. Recorded = {x.id : x \in In(table.runs)} /\ Recorded' = {x.id : x \in In(table'.runs)}
    BY DEF Recorded, In
  <2>6. new.id = row.id
    OBVIOUS
  <2> QED
    BY <2>3, <2>4, <2>5, <2>6
<1>2. CASE row.table # "runs"
  <2>1. table'.runs = table.runs /\ table'.health = table.health
    BY <1>2 DEF Written, Tables
  <2> QED
    BY <1>2, <2>1 DEF Recorded
<1> QED
  BY <1>1, <1>2

LEMMA MainSettles ==
  ASSUME TypeInv, SettledInv,
         StartDaemon \/ StartFails \/ MainStep \/ Cancel \/ StopUnrecorded \/ Crash
  PROVE  SettledInv'
<1>1. CASE StartDaemon
  <2>1. Queued = {} /\ Sent = {} /\ Held = {}
    BY <1>1 DEF StartDaemon, SettledInv, Queued, Sent, Held
  <2>2. accepted \subseteq Recorded \cup lost
    BY <2>1 DEF SettledInv, Unsettled
  <2>3. Recorded' = Recorded /\ table'.health = "live"
    BY <1>1 DEF StartDaemon, Recorded, TypeInv, TypeOK
  <2>4. \A w \in Workers : worker'[w].pc = "idle"
    BY <1>1, RestingType DEF StartDaemon
  <2>5. accepted' = accepted /\ lost' = lost /\ main' = "live"
    BY <1>1 DEF StartDaemon
  <2> QED
    BY <2>2, <2>3, <2>4, <2>5 DEF SettledInv
<1>2. CASE StartFails
  <2>1. table'.runs = table.runs /\ table'.health \in {table.health, "live"}
    BY <1>2 DEF StartFails, TypeInv, TypeOK
  <2>2. UNCHANGED <<main, queue, worker, channel, accepted, lost>>
    BY <1>2 DEF StartFails
  <2> QED
    BY <2>1, <2>2 DEF SettledInv, Recorded, Unsettled, Queued, Sent, Held
<1>3. CASE EndDrain \/ Cancel
  BY <1>3 DEF EndDrain, Cancel, SettledInv, Recorded, Unsettled, Queued, Sent, Held
<1>4. ASSUME NEW health, Stop(health), main' = "down",
             health = "stopped" \/ health = table.health
      PROVE  SettledInv'
  <2>1. queue = << >> /\ channel = << >> /\ \A w \in Workers : worker[w].pc = "exited"
    <3>1. \A w \in Workers : worker[w].pc = "exited"
      BY <1>4 DEF Stop, WorkersExited
    <3>2. PICK w \in Workers : TRUE
      BY DaemonAssumption DEF DaemonAssumption
    <3> QED
      BY <1>4, <3>1, <3>2 DEF Stop, SettledInv
  <2>2. Recorded' = Recorded /\ Unsettled' = Unsettled
    BY <1>4 DEF Stop, Recorded, Unsettled, Queued, Sent, Held, TypeInv, TypeOK
  <2>3. accepted' \subseteq Recorded' \cup lost' \cup Unsettled'
    BY <1>4, <2>2 DEF Stop, SettledInv
  <2> QED
    BY <1>4, <2>1, <2>3 DEF Stop, SettledInv
<1>5. CASE StopGracefully
  BY <1>4, <1>5 DEF StopGracefully, Stop
<1>6. CASE StopUnrecorded
  BY <1>4, <1>6 DEF StopUnrecorded, Stop
<1>7. CASE Crash
  <2>1. Recorded' = Recorded /\ lost' = lost \cup Unsettled /\ accepted' = accepted
    BY <1>7 DEF Crash, Recorded
  <2>2. \A w \in Workers : worker'[w].pc = "idle"
    BY <1>7, RestingType DEF Crash
  <2>3. main' = "down" /\ queue' = << >> /\ channel' = << >>
    BY <1>7 DEF Crash
  <2> QED
    BY <2>1, <2>2, <2>3 DEF SettledInv
<1> QED
  BY <1>1, <1>2, <1>3, <1>5, <1>6, <1>7 DEF MainStep

LEMMA FireSettles ==
  ASSUME TypeInv, SettledInv, NEW j \in Jobs, Fire(j) PROVE SettledInv'
<1>1. main = "live" /\ main' = "live" /\ table' = table /\ worker' = worker
      /\ channel' = channel /\ lost' = lost
  BY DEF Fire
<1>2. Recorded' = Recorded /\ Held' = Held /\ Sent' = Sent
  BY <1>1 DEF Recorded, Held, Sent
<1>3. CASE Len(queue) < QueueCap
  <2> DEFINE t == [id |-> serial + 1, job |-> j]
  <2>1. budget.runs > 0
    BY DEF Fire, Spend
  <2>2. t \in Trigger /\ queue \in Seq(Trigger)
    BY <2>1, IdType DEF Trigger, TypeInv, TypeOK
  <2>3. queue' = Append(queue, t) /\ accepted' = accepted \cup {t.id}
    BY <1>3 DEF Fire
  <2>4. In(queue') = In(queue) \cup {t}
    BY <2>2, <2>3, AppendHolds DEF In
  <2>5. Queued' = Queued \cup {t.id}
    <3>1. Queued' = {x.id : x \in In(queue')}
      BY DEF Queued, In
    <3> QED
      BY <2>4, <3>1, HeldByQueues
  <2> QED
    BY <1>1, <1>2, <2>3, <2>5 DEF SettledInv, Unsettled
<1>4. CASE ~(Len(queue) < QueueCap)
  <2>1. queue' = queue /\ accepted' = accepted
    BY <1>4 DEF Fire
  <2> QED
    BY <1>1, <1>2, <2>1 DEF SettledInv, Unsettled, Queued
<1> QED
  BY <1>3, <1>4

LEMMA WorkerSettles ==
  ASSUME TypeInv, SettledInv, NEW w \in Workers, WorkerStep(w) PROVE SettledInv'
<1>0. worker \in [Workers -> WorkerState]
  BY DEF TypeInv, TypeOK
<1>a. main' = main /\ table' = table /\ accepted' = accepted /\ lost' = lost
  BY DEF WorkerStep, Take, SendRun, SendStatus, Send, Exit, EndJob
<1>b. Recorded' = Recorded
  BY <1>a DEF Recorded
<1>1. CASE Take(w)
  <2>1. queue # << >> /\ queue' = Tail(queue) /\ queue \in Seq(Trigger) /\ main # "down"
    BY <1>1 DEF Take, Up, TypeInv, TypeOK
  <2>2. In(queue) = {Head(queue)} \cup In(queue')
    BY <2>1, TailHolds DEF In
  <2>3. Queued = {Head(queue).id} \cup Queued'
    <3>1. Queued' = {x.id : x \in In(queue')}
      BY DEF Queued, In
    <3> QED
      BY <2>2, <3>1, HeldByQueues
  <2>4. /\ worker'[w].pc = "busy" /\ worker'[w].id = Head(queue).id
        /\ worker[w].pc = "idle"
        /\ \A v \in Workers \ {w} : worker'[v] = worker[v]
    BY <1>0, <1>1 DEF Take, WorkerState
  <2>5. Held' = Held \cup {Head(queue).id}
    BY <2>4 DEF Held
  <2>6. Sent' = Sent
    BY <1>1 DEF Take, Sent
  <2>7. Unsettled' = Unsettled
    BY <2>3, <2>5, <2>6 DEF Unsettled
  <2>8. \A v \in Workers : worker'[v].pc # "exited"
    BY <2>1, <2>4 DEF SettledInv
  <2> QED
    BY <1>a, <1>b, <2>1, <2>7, <2>8 DEF SettledInv
<1>2. ASSUME NEW outcome \in Outcomes, EndJob(w, outcome) PROVE SettledInv'
  <2>1. /\ worker[w].pc = "busy" /\ worker'[w].pc = "run" /\ worker'[w].id = worker[w].id
        /\ \A v \in Workers \ {w} : worker'[v] = worker[v]
    BY <1>0, <1>2 DEF EndJob, WorkerState
  <2>2. Held' = Held
    BY <2>1 DEF Held
  <2>3. queue' = queue /\ channel' = channel
    BY <1>2 DEF EndJob
  <2>4. Unsettled' = Unsettled
    BY <2>2, <2>3 DEF Unsettled, Queued, Sent
  <2> QED
    BY <1>a, <1>b, <2>1, <2>3, <2>4 DEF SettledInv
<1>3. ASSUME NEW row \in Row, NEW from \in {"run", "status"}, NEW new,
             Send(w, row, from, new), new.pc \in {"idle", "status"},
             from = "run" => row.table = "runs" /\ row.id = worker[w].id
      PROVE  SettledInv'
  <2>1. /\ worker[w].pc = from /\ worker'[w] = new
        /\ \A v \in Workers \ {w} : worker'[v] = worker[v]
    BY <1>0, <1>3 DEF Send
  <2>2. In(channel') = In(channel) \cup {row}
    <3>1. channel \in Seq(Row) /\ channel' = Append(channel, row)
      BY <1>3 DEF Send, TypeInv, TypeOK
    <3> QED
      BY <3>1, AppendHolds DEF In
  <2>3. Sent \subseteq Sent' /\ (row.table = "runs" => row.id \in Sent')
    <3>1. Sent' = {x.id : x \in {y \in In(channel') : y.table = "runs"}}
      BY DEF Sent, In
    <3> QED
      BY <2>2, <3>1, HeldByQueues
  <2>4. queue' = queue
    BY <1>3 DEF Send
  <2>5. Held \subseteq Held' \cup Sent'
    <3>1. CASE from = "run"
      <4>1. Held \subseteq Held' \cup {worker[w].id}
        BY <2>1 DEF Held
      <4>2. worker[w].id \in Sent'
        BY <1>3, <3>1, <2>3
      <4> QED
        BY <4>1, <4>2
    <3>2. CASE from = "status"
      BY <3>2, <2>1 DEF Held
    <3> QED
      BY <1>3, <3>1, <3>2
  <2>6. Unsettled \subseteq Unsettled'
    <3>1. Queued' = Queued
      BY <2>4 DEF Queued
    <3> QED
      BY <2>3, <2>5, <3>1 DEF Unsettled
  <2>7. main # "down"
    BY <2>1, <1>3 DEF SettledInv
  <2> QED
    BY <1>3, <1>a, <1>b, <2>1, <2>4, <2>6, <2>7 DEF SettledInv
<1>4. CASE SendRun(w)
  <2>1. worker[w] \in WorkerState /\ worker[w].id # NoRun
    BY <1>0, <1>4 DEF SendRun, Send, TypeInv, Identified
  <2>2. RunRow(worker[w]) \in Row
    BY <2>1, RowType
  <2>3. RunRow(worker[w]).table = "runs" /\ RunRow(worker[w]).id = worker[w].id
    BY DEF RunRow
  <2>4. [worker[w] EXCEPT !.pc = "status"].pc = "status"
    BY <2>1 DEF WorkerState
  <2> QED
    BY <1>3, <1>4, <2>2, <2>3, <2>4 DEF SendRun
<1>5. CASE SendStatus(w)
  <2>1. worker[w] \in WorkerState /\ worker[w].id # NoRun
    BY <1>0, <1>5 DEF SendStatus, Send, TypeInv, Identified
  <2>2. StatusRow(worker[w]) \in Row
    BY <2>1, RowType
  <2>3. [Resting EXCEPT !.fails = worker[w].fails].pc = "idle"
    BY RestingType DEF WorkerState
  <2> QED
    BY <1>3, <1>5, <2>2, <2>3 DEF SendStatus
<1>6. CASE Exit(w)
  <2>1. /\ worker[w].pc = "idle" /\ worker'[w].pc = "exited"
        /\ \A v \in Workers \ {w} : worker'[v] = worker[v]
    BY <1>0, <1>6 DEF Exit, WorkerState
  <2>2. /\ main \in {"draining", "closing"} /\ queue = << >>
        /\ queue' = queue /\ channel' = channel
    BY <1>6 DEF Exit
  <2>3. Held' = Held
    BY <2>1 DEF Held
  <2>4. Unsettled' = Unsettled
    BY <2>2, <2>3 DEF Unsettled, Queued, Sent
  <2> QED
    BY <1>a, <1>b, <2>1, <2>2, <2>4 DEF SettledInv
<1> QED
  BY <1>1, <1>2, <1>4, <1>5, <1>6 DEF WorkerStep

LEMMA WriterSettles ==
  ASSUME TypeInv, SettledInv, WriteRow \/ WriteFails PROVE SettledInv'
<1> DEFINE head == Head(channel)
<1>1. channel # << >> /\ channel' = Tail(channel) /\ channel \in Seq(Row)
  BY DEF WriteRow, WriteFails, TypeInv, TypeOK
<1>2. In(channel) = {head} \cup In(channel') /\ head \in Row
  BY <1>1, TailHolds, QueueTypes DEF In
<1>3. Sent \subseteq Sent' \cup {x.id : x \in {y \in {head} : y.table = "runs"}}
  <2>1. Sent' = {x.id : x \in {y \in In(channel') : y.table = "runs"}}
    BY DEF Sent, In
  <2> QED
    BY <1>2, <2>1, HeldByQueues
<1>4. main' = main /\ queue' = queue /\ worker' = worker /\ accepted' = accepted
  BY DEF WriteRow, WriteFails
<1>5. Queued' = Queued /\ Held' = Held /\ main # "down"
  BY <1>1, <1>4 DEF Queued, Held, SettledInv
<1>6. CASE WriteRow
  <2>1. /\ Recorded \subseteq Recorded' /\ table'.health = table.health
        /\ head.table = "runs" => head.id \in Recorded'
    BY <1>2, <1>6, WrittenRecords DEF WriteRow, TypeInv, TypeOK, Tables
  <2>2. lost' = lost
    BY <1>6 DEF WriteRow
  <2>3. accepted' \subseteq Recorded' \cup lost' \cup Unsettled'
    BY <1>3, <1>4, <1>5, <2>1, <2>2, SettledStep DEF Unsettled
  <2> QED
    BY <1>4, <1>5, <2>1, <2>3 DEF SettledInv
<1>7. CASE WriteFails
  <2>1. table' = table /\ Recorded' = Recorded
    BY <1>7 DEF WriteFails, Recorded
  <2>2. lost \subseteq lost' /\ (head.table = "runs" => head.id \in lost')
    BY <1>7 DEF WriteFails
  <2>3. accepted' \subseteq Recorded' \cup lost' \cup Unsettled'
    BY <1>3, <1>4, <1>5, <2>1, <2>2, SettledStep DEF Unsettled
  <2> QED
    BY <1>4, <1>5, <2>1, <2>3 DEF SettledInv
<1> QED
  BY <1>6, <1>7

LEMMA ManualSettles ==
  ASSUME TypeInv, SettledInv, ManualStep \/ EndEarly \/ \E j \in Jobs : RunJob(j)
  PROVE  SettledInv'
<1>1. /\ main' = main /\ queue' = queue /\ channel' = channel /\ worker' = worker
      /\ accepted' = accepted /\ lost' = lost
  BY DEF ManualStep, SaveManual, EndManual, EndEarly, RunJob
<1>2. Recorded \subseteq Recorded' /\ table'.health = table.health
  <2>1. CASE SaveManual
    <3>1. manual \in WorkerState /\ manual.id # NoRun
      BY <2>1 DEF SaveManual, TypeInv, TypeOK, Identified
    <3>2. RunRow(manual) \in Row /\ StatusRow(manual) \in Row
      BY <3>1, RowType
    <3>3. table' = Written(RunRow(manual)) \/ table' = Written(StatusRow(manual))
      BY <2>1 DEF SaveManual
    <3> QED
      BY <3>2, <3>3, WrittenRecords DEF TypeInv, TypeOK, Tables
  <2>2. CASE ~SaveManual
    BY <2>2 DEF ManualStep, EndManual, EndEarly, RunJob, Recorded
  <2> QED
    BY <2>1, <2>2
<1>3. Unsettled' = Unsettled
  BY <1>1 DEF Unsettled, Queued, Sent, Held
<1> QED
  BY <1>1, <1>2, <1>3 DEF SettledInv

\* Whatever is accepted is on its way, recorded or known to be lost, and a
\* daemon that is down holds none of it.
THEOREM NothingForgotten == Spec => [](TypeInv /\ SettledInv)
<1>1. Init => TypeInv /\ SettledInv
  <2>1. Init => TypeInv
    BY InitTyped
  <2>2. Init => SettledInv
    BY RestingType DEF Init, SettledInv
  <2> QED
    BY <2>1, <2>2
<1>2. TypeInv /\ SettledInv /\ [Next]_vars => (TypeInv /\ SettledInv)'
  <2> SUFFICES ASSUME TypeInv, SettledInv, [Next]_vars PROVE TypeInv' /\ SettledInv'
    OBVIOUS
  <2>1. TypeInv'
    BY NextTyped
  <2>2. CASE Next
    BY <2>1, <2>2, MainSettles, FireSettles, WorkerSettles, WriterSettles, ManualSettles
    DEF Next
  <2>3. CASE UNCHANGED vars
    BY <2>1, <2>3 DEF vars, SettledInv, Recorded, Unsettled, Queued, Sent, Held
  <2> QED
    BY <2>1, <2>2, <2>3
<1> QED
  BY <1>1, <1>2, PTL DEF Spec

\* A daemon whose health row says "stopped" has settled all it accepted,
\* however its shutdown, its timeout and its writer took turns.
THEOREM StoppedHasSettled == Spec => []StoppedIsSettled
<1>1. SettledInv => StoppedIsSettled
  BY DEF SettledInv, StoppedIsSettled, Unsettled, Queued, Sent, Held
<1> QED
  BY <1>1, NothingForgotten, PTL
=============================================================================
