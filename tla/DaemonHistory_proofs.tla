------------------------ MODULE DaemonHistory_proofs ------------------------
(* The daemon keeps the promises of RunLifecycle, and the status of a job   *)
(* shows a run of its history, counts no failure too many and is behind it  *)
(* only by runs that overlapped: proofs about DaemonRuntime, for every      *)
(* number of workers, jobs, runs, failed writes and crashes and every       *)
(* capacity.                                                                *)
EXTENDS DaemonRuntime_proofs, FiniteSetTheorems

Working == {w \in Workers : worker[w].pc \in {"busy", "run"}}

Running == {worker[w].id : w \in {v \in Workers : worker[v].pc = "busy"}}

RunRows == [table : {"runs"}, id : RunIds, job : Jobs, outcome : Outcomes]

\* No two elements of the kind are about the same run.
Distinct(q, kind) ==
  \A m, n \in DOMAIN q : q[m] \in kind /\ q[n] \in kind /\ q[m].id = q[n].id => m = n

\* An identity is given out once, to the daemon or to the command.
Identities ==
  /\ accepted \cup Recorded \subseteq 1..serial
  /\ lost \subseteq accepted
  /\ manual.pc # "idle" => manual.id \in 1..serial /\ manual.id \notin accepted

\* A run is in one place at a time, and settled once it is in none.
Apart ==
  /\ Unsettled \subseteq accepted
  /\ Unsettled \cap (Recorded \cup lost) = {}
  /\ Queued \cap Held = {} /\ Queued \cap Sent = {} /\ Held \cap Sent = {}

\* A place holds a run once.
Once ==
  /\ Distinct(queue, Trigger)
  /\ Distinct(channel, RunRows)
  /\ \A v, w \in Working : worker[v].id = worker[w].id => v = w

PlaceInv == Identities /\ Apart /\ Once

-----------------------------------------------------------------------------
(* Sequences of elements about runs *)

\* An element about a run that is not in the sequence may join it.
LEMMA AppendDistinct ==
  ASSUME NEW S, NEW q \in Seq(S), NEW x \in S, NEW kind, Distinct(q, kind),
         x \in kind => \A y \in In(q) : y \in kind => y.id # x.id
  PROVE  Distinct(Append(q, x), kind)
<1> DEFINE a == Append(q, x)
<1>1. /\ a \in Seq(S) /\ Len(a) = Len(q) + 1 /\ a[Len(q) + 1] = x
      /\ \A n \in 1..Len(q) : a[n] = q[n]
  BY AppendProperties
<1>2. DOMAIN q = 1..Len(q) /\ DOMAIN a = 1..Len(a) /\ Len(q) \in Nat
  BY <1>1, LenProperties
<1>3. DOMAIN a = DOMAIN q \cup {Len(q) + 1}
  BY <1>1, <1>2
<1>4. \A n \in DOMAIN q : a[n] = q[n] /\ q[n] \in In(q)
  BY <1>1, <1>2 DEF In
<1> HIDE DEF a
<1> SUFFICES ASSUME NEW m \in DOMAIN a, NEW n \in DOMAIN a,
                    a[m] \in kind, a[n] \in kind, a[m].id = a[n].id
             PROVE  m = n
  BY DEF Distinct, a
<1>5. CASE m \in DOMAIN q /\ n \in DOMAIN q
  BY <1>4, <1>5 DEF Distinct
<1>6. CASE m \notin DOMAIN q /\ n \notin DOMAIN q
  BY <1>3, <1>6
<1>7. CASE m \in DOMAIN q /\ n \notin DOMAIN q
  BY <1>1, <1>3, <1>4, <1>7
<1>8. CASE m \notin DOMAIN q /\ n \in DOMAIN q
  BY <1>1, <1>3, <1>4, <1>8
<1> QED
  BY <1>5, <1>6, <1>7, <1>8

\* The oldest element leaves, and nothing that stays is about its run.
LEMMA TailDistinct ==
  ASSUME NEW S, NEW q \in Seq(S), q # << >>, NEW kind, Distinct(q, kind)
  PROVE  /\ Distinct(Tail(q), kind)
         /\ Head(q) \in kind => \A y \in In(Tail(q)) : y \in kind => y.id # Head(q).id
<1> DEFINE t == Tail(q)
<1>1. /\ t \in Seq(S) /\ Len(t) = Len(q) - 1
      /\ \A n \in 1..Len(t) : t[n] = q[n + 1]
  BY HeadTailProperties
<1>2. DOMAIN q = 1..Len(q) /\ DOMAIN t = 1..Len(t) /\ Len(q) \in Nat
  BY <1>1, LenProperties
<1>3. Head(q) = q[1] /\ 1 \in DOMAIN q
  BY EmptySeq, <1>2
<1>4. \A n \in DOMAIN t : t[n] = q[n + 1] /\ n + 1 \in DOMAIN q /\ n \in Nat /\ n # 0
  BY <1>1, <1>2
<1> HIDE DEF t
<1>5. Distinct(t, kind)
  <2> SUFFICES ASSUME NEW m \in DOMAIN t, NEW n \in DOMAIN t,
                      t[m] \in kind, t[n] \in kind, t[m].id = t[n].id
               PROVE  m = n
    BY DEF Distinct
  <2>1. m + 1 = n + 1
    BY <1>4 DEF Distinct
  <2> QED
    BY <1>4, <2>1
<1>6. ASSUME NEW n \in DOMAIN t, q[1] \in kind, t[n] \in kind, t[n].id = q[1].id
      PROVE  FALSE
  <2>1. n + 1 = 1
    BY <1>3, <1>4, <1>6 DEF Distinct
  <2> QED
    BY <1>4, <2>1
<1> QED
  BY <1>3, <1>5, <1>6 DEF t, In

\* The rows of runs are told by their table.
LEMMA RunRowsOf ==
  /\ \A x \in Row : x \in RunRows <=> x.table = "runs"
  /\ \A x \in Row : x.id \in RunIds
BY DEF Row, RunRows

\* What the sets of runs become when their sequences gain or lose a row.
LEMMA SentAppended ==
  ASSUME channel \in Seq(Row), NEW row \in Row, channel' = Append(channel, row)
  PROVE  Sent' = IF row.table = "runs" THEN Sent \cup {row.id} ELSE Sent
<1>1. In(channel') = In(channel) \cup {row}
  BY AppendHolds DEF In
<1>2. Sent' = {x.id : x \in {y \in In(channel') : y.table = "runs"}}
  BY DEF Sent, In
<1> QED
  BY <1>1, <1>2, HeldByQueues

LEMMA SentTaken ==
  ASSUME channel \in Seq(Row), channel # << >>, channel' = Tail(channel),
         Distinct(channel, RunRows)
  PROVE  /\ Sent = IF Head(channel).table = "runs" THEN Sent' \cup {Head(channel).id}
                                                   ELSE Sent'
         /\ Head(channel).table = "runs" => Head(channel).id \notin Sent'
         /\ Distinct(channel', RunRows)
<1> DEFINE head == Head(channel)
<1>1. In(channel) = {head} \cup In(channel')
  <2>1. In(channel) = {head} \cup In(Tail(channel))
    BY TailHolds, Zenon DEF In
  <2> QED
    BY <2>1
<1>2. Sent' = {x.id : x \in {y \in In(channel') : y.table = "runs"}}
  BY DEF Sent, In
<1>3. head \in Row /\ channel' \in Seq(Row)
  BY QueueTypes
<1>4. In(channel') \subseteq Row
  BY <1>3, ElementOfSeq DEF In
<1>5. /\ Distinct(channel', RunRows)
      /\ head \in RunRows => \A y \in In(channel') : y \in RunRows => y.id # head.id
  BY TailDistinct
<1> HIDE DEF head
<1>6. Sent = IF head.table = "runs" THEN Sent' \cup {head.id} ELSE Sent'
  <2> DEFINE old == {y \in In(channel) : y.table = "runs"}
             new == {y \in In(channel') : y.table = "runs"}
  <2>1. CASE head.table = "runs"
    <3>1. old = new \cup {head}
      BY <1>1, <2>1
    <3> HIDE DEF old, new
    <3>2. {x.id : x \in old} = {x.id : x \in new} \cup {head.id}
      BY <3>1
    <3> QED
      BY <1>2, <2>1, <3>2, HeldByQueues DEF old, new
  <2>2. CASE head.table # "runs"
    <3>1. old = new
      BY <1>1, <2>2
    <3> QED
      BY <1>2, <2>2, <3>1, HeldByQueues
  <2> QED
    BY <2>1, <2>2
<1>7. head.table = "runs" => head.id \notin Sent'
  BY <1>2, <1>3, <1>4, <1>5, RunRowsOf
<1> QED
  BY <1>5, <1>6, <1>7 DEF head

LEMMA RecordedWritten ==
  ASSUME table \in Tables, NEW row \in Row, table' = Written(row)
  PROVE  Recorded' = IF row.table = "runs" THEN Recorded \cup {row.id} ELSE Recorded
<1>1. CASE row.table = "runs"
  <2> DEFINE new == [id |-> row.id, job |-> row.job, outcome |-> row.outcome]
  <2>1. new \in [id : RunIds, job : Jobs, outcome : Outcomes]
    BY DEF Row
  <2>2. table.runs \in Seq([id : RunIds, job : Jobs, outcome : Outcomes])
    BY DEF Tables
  <2>3. table'.runs = Append(table.runs, new)
    BY <1>1 DEF Written, Tables
  <2>4. In(table'.runs) = In(table.runs) \cup {new}
    BY <2>1, <2>2, <2>3, AppendHolds DEF In
  <2>5. Recorded = {x.id : x \in In(table.runs)} /\ Recorded' = {x.id : x \in In(table'.runs)}
    BY DEF Recorded, In
  <2>6. new.id = row.id
    OBVIOUS
  <2> HIDE DEF new
  <2>7. {x.id : x \in In(table'.runs)} = {x.id : x \in In(table.runs)} \cup {new.id}
    BY <2>4
  <2> QED
    BY <1>1, <2>5, <2>6, <2>7
<1>2. CASE row.table # "runs"
  <2>1. table'.runs = table.runs
    BY <1>2 DEF Written, Tables
  <2> QED
    BY <1>2, <2>1 DEF Recorded
<1> QED
  BY <1>1, <1>2

-----------------------------------------------------------------------------
(* A run is in one place at a time *)

\* A daemon that holds no run.
LEMMA EmptyHolds ==
  ASSUME queue' = << >>, channel' = << >>, worker' = [w \in Workers |-> Resting]
  PROVE  Queued' = {} /\ Held' = {} /\ Sent' = {} /\ Once'
<1>1. \A w \in Workers : worker'[w].pc = "idle"
  BY RestingType
<1> QED
  BY <1>1 DEF Queued, Held, Sent, Once, Working, Distinct

LEMMA StillPlaced ==
  ASSUME PlaceInv, Recorded' = Recorded,
         UNCHANGED <<queue, worker, channel, manual, serial, accepted, lost>>
  PROVE  PlaceInv'
<1>1. Queued' = Queued /\ Held' = Held /\ Sent' = Sent /\ Working' = Working
  BY DEF Queued, Held, Sent, Working
<1> QED
  BY <1>1 DEF PlaceInv, Identities, Apart, Once, Unsettled, Distinct

LEMMA MainPlaced ==
  ASSUME TypeInv, SettledInv, PlaceInv,
         StartDaemon \/ StartFails \/ MainStep \/ Cancel \/ StopUnrecorded \/ Crash
  PROVE  PlaceInv'
<1>1. CASE StartDaemon
  <2>1. Queued' = {} /\ Held' = {} /\ Sent' = {} /\ Once'
    BY <1>1, EmptyHolds DEF StartDaemon
  <2>2. Recorded' = Recorded
    BY <1>1 DEF StartDaemon, Recorded, TypeInv, TypeOK
  <2>3. manual' = manual /\ serial' = serial /\ accepted' = accepted /\ lost' = lost
    BY <1>1 DEF StartDaemon
  <2> QED
    BY <2>1, <2>2, <2>3 DEF PlaceInv, Identities, Apart, Unsettled
<1>2. CASE StartFails \/ MainStep \/ Cancel \/ StopUnrecorded
  <2>1. Recorded' = Recorded
    BY <1>2
    DEF StartFails, MainStep, Cancel, StopUnrecorded, EndDrain, StopGracefully, Stop,
        Recorded, TypeInv, TypeOK
  <2>2. UNCHANGED <<queue, worker, channel, manual, serial, accepted, lost>>
    BY <1>2
    DEF StartFails, MainStep, Cancel, StopUnrecorded, EndDrain, StopGracefully, Stop
  <2> QED
    BY <2>1, <2>2, StillPlaced
<1>3. CASE Crash
  <2>1. Queued' = {} /\ Held' = {} /\ Sent' = {} /\ Once'
    BY <1>3, EmptyHolds DEF Crash
  <2>2. Recorded' = Recorded
    BY <1>3 DEF Crash, Recorded
  <2>3. /\ manual' = manual /\ serial' = serial /\ accepted' = accepted
        /\ lost' = lost \cup Unsettled
    BY <1>3 DEF Crash
  <2> QED
    BY <2>1, <2>2, <2>3 DEF PlaceInv, Identities, Apart, Unsettled
<1> QED
  BY <1>1, <1>2, <1>3

\* The identity of a new run is nobody's yet.
LEMMA NextIdentity ==
  ASSUME TypeInv, PlaceInv
  PROVE  /\ serial \in Nat
         /\ 1..serial \subseteq 1..(serial + 1)
         /\ serial + 1 \in 1..(serial + 1) /\ serial + 1 \notin 1..serial
         /\ serial + 1 \notin accepted \cup Recorded \cup lost \cup Unsettled
<1>1. serial \in Nat
  BY Bounds DEF TypeInv, TypeOK
<1>2. 1..serial \subseteq 1..(serial + 1) /\ serial + 1 \in 1..(serial + 1)
      /\ serial + 1 \notin 1..serial
  BY <1>1
<1>3. accepted \cup Recorded \cup lost \cup Unsettled \subseteq 1..serial
  BY DEF PlaceInv, Identities, Apart
<1> QED
  BY <1>1, <1>2, <1>3

\* An accepted trigger joins the queue.
LEMMA TriggerQueued ==
  ASSUME TypeInv, NEW j \in Jobs, Fire(j), Len(queue) < QueueCap
  PROVE  /\ queue' = Append(queue, [id |-> serial + 1, job |-> j])
         /\ [id |-> serial + 1, job |-> j] \in Trigger
         /\ Queued' = Queued \cup {serial + 1}
<1> DEFINE t == [id |-> serial + 1, job |-> j]
<1>1. budget.runs > 0
  BY DEF Fire, Spend
<1>2. t \in Trigger /\ queue \in Seq(Trigger)
  BY <1>1, IdType DEF Trigger, TypeInv, TypeOK
<1>3. queue' = Append(queue, t)
  BY DEF Fire
<1>4. In(queue') = In(queue) \cup {t}
  BY <1>2, <1>3, AppendHolds DEF In
<1>5. Queued' = {x.id : x \in In(queue')}
  BY DEF Queued, In
<1> QED
  BY <1>2, <1>3, <1>4, <1>5, HeldByQueues

LEMMA FirePlaced ==
  ASSUME TypeInv, PlaceInv, NEW j \in Jobs, Fire(j) PROVE PlaceInv'
<1>1. table' = table /\ worker' = worker /\ channel' = channel /\ lost' = lost
      /\ manual' = manual
  BY DEF Fire
<1>2. Recorded' = Recorded /\ Held' = Held /\ Sent' = Sent /\ Working' = Working
  BY <1>1 DEF Recorded, Held, Sent, Working
<1>3. CASE Len(queue) < QueueCap
  <2> DEFINE new == serial + 1
             t == [id |-> new, job |-> j]
  <2>1. /\ new \in 1..new /\ 1..serial \subseteq 1..new /\ new \notin 1..serial
        /\ new \notin accepted \cup Recorded \cup lost \cup Unsettled
    BY NextIdentity
  <2>2. queue' = Append(queue, t) /\ t \in Trigger /\ Queued' = Queued \cup {new}
    BY <1>3, TriggerQueued
  <2>3. serial' = new /\ accepted' = accepted \cup {new}
    BY <1>3 DEF Fire
  <2>4. \A y \in In(queue) : y.id # t.id
    BY <2>1, HeldByQueues DEF Unsettled
  <2>5. queue \in Seq(Trigger) /\ Distinct(queue, Trigger)
    BY DEF TypeInv, TypeOK, PlaceInv, Once
  <2>6. Distinct(queue', Trigger)
    BY <2>2, <2>4, <2>5, AppendDistinct
  <2> HIDE DEF new, t
  <2>7. Identities'
    BY <1>1, <1>2, <2>1, <2>3 DEF PlaceInv, Identities
  <2>8. Apart'
    BY <1>1, <1>2, <2>1, <2>2, <2>3 DEF PlaceInv, Apart, Unsettled
  <2>9. Once'
    BY <1>1, <1>2, <2>6 DEF PlaceInv, Once
  <2> QED
    BY <2>7, <2>8, <2>9 DEF PlaceInv
<1>4. CASE ~(Len(queue) < QueueCap)
  BY <1>1, <1>2, <1>4, StillPlaced DEF Fire
<1> QED
  BY <1>3, <1>4

\* What Take does to the places of its run.
LEMMA TakenFromQueue ==
  ASSUME TypeInv, PlaceInv, NEW w \in Workers, Take(w)
  PROVE  /\ Queued = Queued' \cup {Head(queue).id} /\ Head(queue).id \notin Queued'
         /\ Distinct(queue', Trigger)
         /\ worker[w].pc = "idle"
         /\ worker'[w].pc = "busy" /\ worker'[w].id = Head(queue).id
         /\ \A v \in Workers \ {w} : worker'[v] = worker[v]
<1>1. queue # << >> /\ queue' = Tail(queue) /\ queue \in Seq(Trigger)
      /\ Distinct(queue, Trigger)
  BY DEF Take, TypeInv, TypeOK, PlaceInv, Once
<1>2. Head(queue) \in Trigger /\ In(queue') \subseteq Trigger
  <2>1. Head(queue) \in Trigger /\ queue' \in Seq(Trigger)
    BY <1>1, QueueTypes
  <2> QED
    BY <2>1, ElementOfSeq DEF In
<1>3. In(queue) = {Head(queue)} \cup In(queue')
  BY <1>1, TailHolds DEF In
<1>4. Queued' = {x.id : x \in In(queue')}
  BY DEF Queued, In
<1>5. /\ Distinct(queue', Trigger)
      /\ Head(queue) \in Trigger =>
           \A y \in In(queue') : y \in Trigger => y.id # Head(queue).id
  BY <1>1, TailDistinct
<1>6. Head(queue).id \notin Queued'
  BY <1>2, <1>4, <1>5
<1>7. Queued = Queued' \cup {Head(queue).id}
  BY <1>3, <1>4, HeldByQueues
<1>8. /\ worker[w].pc = "idle"
      /\ worker'[w].pc = "busy" /\ worker'[w].id = Head(queue).id
      /\ \A v \in Workers \ {w} : worker'[v] = worker[v]
  BY DEF Take, WorkerState, TypeInv, TypeOK
<1> QED
  BY <1>5, <1>6, <1>7, <1>8

LEMMA TakePlaced ==
  ASSUME TypeInv, PlaceInv, NEW w \in Workers, Take(w) PROVE PlaceInv'
<1> DEFINE i == Head(queue).id
<1>1. /\ Queued = Queued' \cup {i} /\ i \notin Queued'
      /\ Distinct(queue', Trigger)
      /\ worker[w].pc = "idle"
      /\ worker'[w].pc = "busy" /\ worker'[w].id = i
      /\ \A v \in Workers \ {w} : worker'[v] = worker[v]
  BY TakenFromQueue
<1>2. /\ channel' = channel /\ manual' = manual /\ table' = table /\ serial' = serial
      /\ accepted' = accepted /\ lost' = lost
  BY DEF Take
<1> HIDE DEF i
<1>3. Recorded' = Recorded /\ Sent' = Sent
  BY <1>2 DEF Recorded, Sent
<1>4. Held' = Held \cup {i} /\ Working' = Working \cup {w} /\ w \notin Working
  BY <1>1 DEF Held, Working
<1>5. i \notin Held /\ i \notin Sent
  BY <1>1 DEF PlaceInv, Apart
<1>6. Unsettled' = Unsettled
  BY <1>1, <1>3, <1>4 DEF Unsettled
<1>7. Apart'
  BY <1>1, <1>2, <1>3, <1>4, <1>5, <1>6 DEF PlaceInv, Apart
<1>8. \A u, v \in Working' : worker'[u].id = worker'[v].id => u = v
  <2>1. \A v \in Working : worker'[v] = worker[v] /\ worker[v].id # i
    BY <1>1, <1>4, <1>5 DEF Working, Held
  <2> QED
    BY <1>1, <1>4, <2>1 DEF PlaceInv, Once
<1>9. Once'
  BY <1>1, <1>2, <1>8 DEF PlaceInv, Once
<1>10. Identities'
  BY <1>2, <1>3 DEF PlaceInv, Identities
<1> QED
  BY <1>7, <1>9, <1>10 DEF PlaceInv

\* A worker that changes nothing but how far it is with its run.
LEMMA WorkerStays ==
  ASSUME PlaceInv, NEW w \in Workers,
         UNCHANGED <<queue, channel, manual, table, serial, accepted, lost>>,
         worker'[w].id = worker[w].id,
         worker[w].pc \in {"busy", "run"} <=> worker'[w].pc \in {"busy", "run"},
         \A v \in Workers \ {w} : worker'[v] = worker[v]
  PROVE  PlaceInv'
<1>1. Working' = Working /\ \A v \in Workers : worker'[v].id = worker[v].id
  BY DEF Working
<1>2. Held' = Held
  BY <1>1 DEF Held, Working
<1>3. Queued' = Queued /\ Sent' = Sent /\ Recorded' = Recorded
  BY DEF Queued, Sent, Recorded
<1>4. \A u, v \in Working' : worker'[u].id = worker'[v].id => u = v
  BY <1>1 DEF PlaceInv, Once, Working
<1>5. Once'
  BY <1>4 DEF PlaceInv, Once
<1> QED
  BY <1>2, <1>3, <1>5 DEF PlaceInv, Identities, Apart, Unsettled

\* What a send does to the places of its run.
LEMMA RunSent ==
  ASSUME TypeInv, NEW w \in Workers, SendRun(w)
  PROVE  /\ RunRow(worker[w]) \in Row
         /\ worker[w].pc = "run" /\ worker'[w].pc = "status"
         /\ worker'[w] = [worker[w] EXCEPT !.pc = "status"]
         /\ \A v \in Workers \ {w} : worker'[v] = worker[v]
         /\ channel' = Append(channel, RunRow(worker[w]))
         /\ Sent' = Sent \cup {worker[w].id}
<1>1. worker[w] \in WorkerState /\ worker[w].id # NoRun
  BY DEF SendRun, Send, TypeInv, TypeOK, Identified
<1>2. RunRow(worker[w]) \in Row
  BY <1>1, RowType
<1>3. RunRow(worker[w]).table = "runs" /\ RunRow(worker[w]).id = worker[w].id
  BY DEF RunRow
<1>4. channel \in Seq(Row) /\ channel' = Append(channel, RunRow(worker[w]))
  BY DEF SendRun, Send, TypeInv, TypeOK
<1>5. Sent' = Sent \cup {worker[w].id}
  BY <1>2, <1>3, <1>4, SentAppended
<1>6. /\ worker[w].pc = "run" /\ worker'[w] = [worker[w] EXCEPT !.pc = "status"]
      /\ \A v \in Workers \ {w} : worker'[v] = worker[v]
  BY DEF SendRun, Send, TypeInv, TypeOK
<1>7. worker'[w].pc = "status"
  BY <1>1, <1>6 DEF WorkerState
<1> QED
  BY <1>2, <1>4, <1>5, <1>6, <1>7

LEMMA StatusSent ==
  ASSUME TypeInv, NEW w \in Workers, SendStatus(w)
  PROVE  /\ StatusRow(worker[w]) \in Row
         /\ worker[w].pc = "status" /\ worker'[w].pc = "idle"
         /\ \A v \in Workers \ {w} : worker'[v] = worker[v]
         /\ channel' = Append(channel, StatusRow(worker[w]))
         /\ Sent' = Sent
<1>1. worker[w] \in WorkerState /\ worker[w].id # NoRun
  BY DEF SendStatus, Send, TypeInv, TypeOK, Identified
<1>2. StatusRow(worker[w]) \in Row
  BY <1>1, RowType
<1>3. StatusRow(worker[w]).table # "runs"
  BY DEF StatusRow
<1>4. channel \in Seq(Row) /\ channel' = Append(channel, StatusRow(worker[w]))
  BY DEF SendStatus, Send, TypeInv, TypeOK
<1>5. Sent' = Sent
  BY <1>2, <1>3, <1>4, SentAppended
<1>6. /\ worker[w].pc = "status" /\ worker'[w] = [Resting EXCEPT !.fails = worker[w].fails]
      /\ \A v \in Workers \ {w} : worker'[v] = worker[v]
  BY DEF SendStatus, Send, TypeInv, TypeOK
<1>7. worker'[w].pc = "idle"
  BY <1>6, RestingType DEF WorkerState
<1> QED
  BY <1>2, <1>4, <1>5, <1>6, <1>7

LEMMA SendPlaced ==
  ASSUME TypeInv, PlaceInv, NEW w \in Workers, SendRun(w) \/ SendStatus(w)
  PROVE  PlaceInv'
<1>1. /\ queue' = queue /\ manual' = manual /\ table' = table /\ serial' = serial
      /\ accepted' = accepted /\ lost' = lost
  BY DEF SendRun, SendStatus, Send
<1>2. Recorded' = Recorded /\ Queued' = Queued
  BY <1>1 DEF Recorded, Queued
<1>3. Identities'
  BY <1>1, <1>2 DEF PlaceInv, Identities
<1>4. channel \in Seq(Row) /\ Distinct(channel, RunRows)
  BY DEF TypeInv, TypeOK, PlaceInv, Once
<1>5. CASE SendRun(w)
  <2> DEFINE i == worker[w].id
             row == RunRow(worker[w])
  <2>1. /\ row \in Row
        /\ worker[w].pc = "run" /\ worker'[w].pc = "status"
        /\ \A v \in Workers \ {w} : worker'[v] = worker[v]
        /\ channel' = Append(channel, row)
        /\ Sent' = Sent \cup {i}
    BY <1>5, RunSent
  <2>2. row.id = i
    BY DEF RunRow
  <2> HIDE DEF i, row
  <2>3. Working = Working' \cup {w} /\ w \notin Working' /\ w \in Working
    BY <2>1 DEF Working
  <2>4. \A v \in Working' : worker'[v] = worker[v] /\ worker[v].id # i
    BY <2>1, <2>3 DEF PlaceInv, Once, Working, i
  <2>5. Held = Held' \cup {i} /\ i \notin Held'
    BY <2>1, <2>3, <2>4 DEF Held, Working, i
  <2>6. i \notin Sent /\ i \notin Queued
    BY <2>5 DEF PlaceInv, Apart
  <2>7. Unsettled' = Unsettled
    BY <1>2, <2>1, <2>5 DEF Unsettled
  <2>8. Apart'
    BY <1>1, <1>2, <2>1, <2>5, <2>6, <2>7 DEF PlaceInv, Apart
  <2>9. \A y \in In(channel) : y \in RunRows => y.id # row.id
    <3>1. \A y \in In(channel) : y \in RunRows => y.table = "runs"
      BY DEF RunRows
    <3> QED
      BY <2>2, <2>6, <3>1, HeldByQueues
  <2>10. Distinct(channel', RunRows)
    BY <1>4, <2>1, <2>9, AppendDistinct
  <2>11. \A u, v \in Working' : worker'[u].id = worker'[v].id => u = v
    BY <2>3, <2>4 DEF PlaceInv, Once
  <2>12. Once'
    BY <1>1, <2>10, <2>11 DEF PlaceInv, Once
  <2> QED
    BY <1>3, <2>8, <2>12 DEF PlaceInv
<1>6. CASE SendStatus(w)
  <2> DEFINE row == StatusRow(worker[w])
  <2>1. /\ row \in Row
        /\ worker[w].pc = "status" /\ worker'[w].pc = "idle"
        /\ \A v \in Workers \ {w} : worker'[v] = worker[v]
        /\ channel' = Append(channel, row)
        /\ Sent' = Sent
    BY <1>6, StatusSent
  <2>2. row \notin RunRows
    BY DEF StatusRow, RunRows
  <2> HIDE DEF row
  <2>3. Distinct(channel', RunRows)
    BY <1>4, <2>1, <2>2, AppendDistinct
  <2>4. Working' = Working /\ \A v \in Working : worker'[v] = worker[v]
    BY <2>1 DEF Working
  <2>5. Held' = Held
    BY <2>1 DEF Held
  <2>6. Once'
    BY <1>1, <2>3, <2>4 DEF PlaceInv, Once
  <2>7. Apart'
    BY <1>1, <1>2, <2>1, <2>5 DEF PlaceInv, Apart, Unsettled
  <2> QED
    BY <1>3, <2>6, <2>7 DEF PlaceInv
<1> QED
  BY <1>5, <1>6

\* A job that ends keeps its worker and its run.
LEMMA JobEnds ==
  ASSUME TypeInv, NEW w \in Workers, NEW outcome, EndJob(w, outcome)
  PROVE  /\ worker[w].pc = "busy" /\ worker'[w].pc = "run"
         /\ worker'[w].id = worker[w].id
         /\ \A v \in Workers \ {w} : worker'[v] = worker[v]
BY DEF EndJob, TypeInv, TypeOK, WorkerState

LEMMA WorkerPlaced ==
  ASSUME TypeInv, PlaceInv, NEW w \in Workers, WorkerStep(w) PROVE PlaceInv'
<1>1. ASSUME NEW outcome \in Outcomes, EndJob(w, outcome) PROVE PlaceInv'
  <2>1. UNCHANGED <<queue, channel, manual, table, serial, accepted, lost>>
    BY <1>1 DEF EndJob
  <2> QED
    BY <1>1, <2>1, JobEnds, WorkerStays
<1>2. CASE Exit(w)
  <2>1. /\ worker[w].pc = "idle" /\ worker'[w].pc = "exited"
        /\ worker'[w].id = worker[w].id
        /\ \A v \in Workers \ {w} : worker'[v] = worker[v]
    BY <1>2 DEF Exit, TypeInv, TypeOK, WorkerState
  <2>2. UNCHANGED <<queue, channel, manual, table, serial, accepted, lost>>
    BY <1>2 DEF Exit
  <2> QED
    BY <2>1, <2>2, WorkerStays
<1> QED
  BY <1>1, <1>2, TakePlaced, SendPlaced DEF WorkerStep

LEMMA WriterPlaced ==
  ASSUME TypeInv, PlaceInv, WriteRow \/ WriteFails PROVE PlaceInv'
<1> DEFINE head == Head(channel)
<1>1. channel # << >> /\ channel' = Tail(channel) /\ channel \in Seq(Row)
      /\ Distinct(channel, RunRows)
  BY DEF WriteRow, WriteFails, TypeInv, TypeOK, PlaceInv, Once
<1>2. /\ head \in Row
      /\ Sent = IF head.table = "runs" THEN Sent' \cup {head.id} ELSE Sent'
      /\ head.table = "runs" => head.id \notin Sent'
      /\ Distinct(channel', RunRows)
  BY <1>1, QueueTypes, SentTaken
<1>3. /\ queue' = queue /\ worker' = worker /\ manual' = manual /\ serial' = serial
      /\ accepted' = accepted
  BY DEF WriteRow, WriteFails
<1>4. Queued' = Queued /\ Held' = Held /\ Working' = Working
  BY <1>3 DEF Queued, Held, Working
<1>5. Once'
  BY <1>2, <1>3, <1>4 DEF PlaceInv, Once
<1>6. Recorded' \cup lost' = IF head.table = "runs" THEN Recorded \cup lost \cup {head.id}
                                                   ELSE Recorded \cup lost
  <2>1. CASE WriteRow
    <3>1. lost' = lost /\ table' = Written(head) /\ table \in Tables
      BY <2>1 DEF WriteRow, TypeInv, TypeOK, Tables
    <3> QED
      BY <1>2, <3>1, RecordedWritten
  <2>2. CASE WriteFails
    BY <2>2 DEF WriteFails, Recorded
  <2> QED
    BY <2>1, <2>2
<1>7. lost' \subseteq IF head.table = "runs" THEN lost \cup {head.id} ELSE lost
  BY DEF WriteRow, WriteFails
<1> HIDE DEF head
<1>8. head.table = "runs" => /\ head.id \in accepted /\ head.id \notin Queued
                             /\ head.id \notin Held
  BY <1>2 DEF PlaceInv, Apart, Unsettled
<1>9. Identities'
  BY <1>3, <1>6, <1>7, <1>8 DEF PlaceInv, Identities
<1>10. Apart'
  BY <1>2, <1>3, <1>4, <1>6, <1>8 DEF PlaceInv, Apart, Unsettled
<1> QED
  BY <1>5, <1>9, <1>10 DEF PlaceInv

\* The command records a run of its own, or nothing.
LEMMA ManualRecords ==
  ASSUME TypeInv, SaveManual
  PROVE  Recorded' = IF manual.pc = "run" THEN Recorded \cup {manual.id} ELSE Recorded
<1>1. manual \in WorkerState /\ manual.id # NoRun /\ table \in Tables
  BY DEF SaveManual, TypeInv, TypeOK, Identified, Tables
<1>2. RunRow(manual) \in Row /\ StatusRow(manual) \in Row
  BY <1>1, RowType
<1>3. /\ RunRow(manual).table = "runs" /\ RunRow(manual).id = manual.id
      /\ StatusRow(manual).table # "runs"
  BY DEF RunRow, StatusRow
<1>4. CASE manual.pc = "run"
  <2>1. table' = Written(RunRow(manual))
    BY <1>4 DEF SaveManual
  <2> QED
    BY <1>1, <1>2, <1>3, <1>4, <2>1, RecordedWritten
<1>5. CASE manual.pc # "run"
  <2>1. table' = Written(StatusRow(manual))
    BY <1>5 DEF SaveManual
  <2> QED
    BY <1>1, <1>2, <1>3, <1>5, <2>1, RecordedWritten
<1> QED
  BY <1>4, <1>5

LEMMA ManualPlaced ==
  ASSUME TypeInv, PlaceInv, ManualStep \/ EndEarly \/ \E j \in Jobs : RunJob(j)
  PROVE  PlaceInv'
<1>1. /\ queue' = queue /\ worker' = worker /\ channel' = channel
      /\ accepted' = accepted /\ lost' = lost
  BY DEF ManualStep, SaveManual, EndManual, EndEarly, RunJob
<1>2. Queued' = Queued /\ Held' = Held /\ Sent' = Sent /\ Working' = Working
  BY <1>1 DEF Queued, Held, Sent, Working
<1>3. Once'
  BY <1>1, <1>2 DEF PlaceInv, Once
<1>4. ASSUME Recorded' = Recorded PROVE Apart'
  BY <1>1, <1>2, <1>4 DEF PlaceInv, Apart, Unsettled
<1>5. ASSUME NEW j \in Jobs, RunJob(j) PROVE PlaceInv'
  <2> DEFINE new == serial + 1
  <2>1. /\ new \in 1..new /\ 1..serial \subseteq 1..new /\ new \notin accepted
    BY NextIdentity
  <2>2. Recorded' = Recorded /\ serial' = new /\ manual'.id = new
    <3>1. manual' = [Resting EXCEPT !.pc = "busy", !.id = serial + 1, !.job = j]
      BY <1>5 DEF RunJob
    <3>2. manual'.id = new
      BY <3>1, RestingType DEF WorkerState
    <3>3. table' = table /\ serial' = new
      BY <1>5 DEF RunJob
    <3> QED
      BY <3>2, <3>3 DEF Recorded
  <2> HIDE DEF new
  <2>3. Identities'
    BY <1>1, <2>1, <2>2 DEF PlaceInv, Identities
  <2> QED
    BY <1>3, <1>4, <2>2, <2>3 DEF PlaceInv
<1>6. CASE EndEarly \/ \E outcome \in Outcomes : EndManual(outcome)
  <2>1. table' = table /\ serial' = serial
    BY <1>6 DEF EndEarly, EndManual
  <2>2. manual'.pc # "idle" => manual.pc # "idle" /\ manual'.id = manual.id
    BY <1>6, RestingType DEF EndEarly, EndManual, TypeInv, TypeOK, WorkerState
  <2>3. Recorded' = Recorded
    BY <2>1 DEF Recorded
  <2>4. Identities'
    BY <1>1, <2>1, <2>2, <2>3 DEF PlaceInv, Identities
  <2> QED
    BY <1>3, <1>4, <2>3, <2>4 DEF PlaceInv
<1>7. CASE SaveManual
  <2>1. Recorded' = IF manual.pc = "run" THEN Recorded \cup {manual.id} ELSE Recorded
    BY <1>7, ManualRecords
  <2>2. serial' = serial /\ manual.pc # "idle"
    BY <1>7 DEF SaveManual
  <2>3. manual'.pc # "idle" => manual'.id = manual.id
    BY <1>7, RestingType DEF SaveManual, TypeInv, TypeOK, WorkerState
  <2>4. manual.id \in 1..serial /\ manual.id \notin accepted
    BY <2>2 DEF PlaceInv, Identities
  <2>5. Identities'
    BY <1>1, <2>1, <2>2, <2>3, <2>4 DEF PlaceInv, Identities
  <2>6. manual.id \notin Unsettled
    BY <2>4 DEF PlaceInv, Apart
  <2>7. Apart'
    BY <1>1, <1>2, <2>1, <2>6 DEF PlaceInv, Apart, Unsettled
  <2> QED
    BY <1>3, <2>5, <2>7 DEF PlaceInv
<1> QED
  BY <1>5, <1>6, <1>7 DEF ManualStep

DaemonInv == TypeInv /\ SettledInv /\ PlaceInv

LEMMA NextPlaced ==
  ASSUME TypeInv, SettledInv, PlaceInv, [Next]_vars PROVE PlaceInv'
<1>1. CASE Next
  BY <1>1, MainPlaced, FirePlaced, WorkerPlaced, WriterPlaced, ManualPlaced DEF Next
<1>2. CASE UNCHANGED vars
  BY <1>2, StillPlaced DEF vars, Recorded
<1> QED
  BY <1>1, <1>2

\* A run that a daemon accepted is in one place at a time, is in none once
\* it is recorded or lost, and is never confused with a run of the command.
THEOREM OnePlaceAtATime == Spec => []DaemonInv
<1>1. Init => PlaceInv
  BY RestingType
  DEF Init, PlaceInv, Identities, Apart, Once, Distinct, Working, Recorded, Unsettled,
      Queued, Held, Sent
<1>2. TypeInv /\ SettledInv /\ PlaceInv /\ [Next]_vars => PlaceInv'
  BY NextPlaced
<1> QED
  BY <1>1, <1>2, NothingForgotten, PTL DEF Spec, DaemonInv

-----------------------------------------------------------------------------
(* The refinement of RunLifecycle *)

Stages == [i \in RunIds |-> Stage(i)]

\* A run that is on its way is accepted and not settled.
OnItsWay == {"queued", "running", "ended"}

LEMMA StageOf ==
  ASSUME DaemonInv, NEW i
  PROVE  /\ Stage(i) = "new" <=> i \notin accepted
         /\ i \in Queued => Stage(i) = "queued"
         /\ i \in Running => Stage(i) = "running"
         /\ i \in accepted \ (Recorded \cup lost \cup Queued \cup Running) =>
              Stage(i) = "ended"
         /\ Stage(i) \in OnItsWay <=> i \in Unsettled
<1>1. i \in Running <=> \E w \in Workers : worker[w].id = i /\ worker[w].pc = "busy"
  BY DEF Running
<1>2. Running \subseteq Held
  BY DEF Running, Held
<1>3. /\ Unsettled \subseteq accepted /\ Unsettled \cap (Recorded \cup lost) = {}
      /\ accepted \subseteq Recorded \cup lost \cup Unsettled
      /\ Queued \cap Held = {} /\ Queued \cup Held \subseteq Unsettled
  BY DEF DaemonInv, SettledInv, PlaceInv, Apart, Unsettled
<1> QED
  BY <1>1, <1>2, <1>3 DEF Stage, OnItsWay

\* The stage of a run depends on where it is.
LEMMA SameStage ==
  ASSUME NEW i, i \in accepted <=> i \in accepted',
         i \in accepted => /\ i \in Recorded <=> i \in Recorded'
                           /\ i \in lost <=> i \in lost'
                           /\ i \in Queued <=> i \in Queued'
                           /\ i \in Running <=> i \in Running'
  PROVE  Stage(i)' = Stage(i)
<1>1. i \in Running <=> \E w \in Workers : worker[w].id = i /\ worker[w].pc = "busy"
  BY DEF Running
<1>2. i \in Running' <=> \E w \in Workers : worker'[w].id = i /\ worker'[w].pc = "busy"
  BY DEF Running
<1> QED
  BY <1>1, <1>2 DEF Stage

\* A step of one run.
LEMMA OneMoves ==
  ASSUME Up, Up', NEW i \in RunIds, NEW from, NEW to,
         <<from, to>> \in {<<"new", "queued">>, <<"queued", "running">>,
                           <<"running", "ended">>, <<"ended", "recorded">>,
                           <<"ended", "lost">>},
         Stage(i) = from, Stage(i)' = to,
         \A k \in RunIds : k # i => Stage(k)' = Stage(k)
  PROVE  Lifecycle!Next
<1>1. Stages' = [Stages EXCEPT ![i] = to] /\ Stages[i] = from
  BY DEF Stages
<1>2. Lifecycle!Move(i, from, to)
  BY <1>1 DEF Lifecycle!Move, Stages
<1> QED
  BY <1>2 DEF Lifecycle!Next

\* A step that one run, or none, takes part in leaves the others alone.
LEMMA OthersStay ==
  ASSUME NEW i, accepted' \ {i} = accepted \ {i}, Recorded' \ {i} = Recorded \ {i},
         lost' \ {i} = lost \ {i}, Queued' \ {i} = Queued \ {i},
         Running' \ {i} = Running \ {i}
  PROVE  \A k \in RunIds : k # i => Stage(k)' = Stage(k)
<1> SUFFICES ASSUME NEW k \in RunIds, k # i PROVE Stage(k)' = Stage(k)
  OBVIOUS
<1>1. /\ k \in accepted <=> k \in accepted'
      /\ k \in Recorded <=> k \in Recorded'
      /\ k \in lost <=> k \in lost'
      /\ k \in Queued <=> k \in Queued'
      /\ k \in Running <=> k \in Running'
  OBVIOUS
<1> QED
  BY <1>1, SameStage

LEMMA NoneMoves ==
  ASSUME Up' = Up, accepted' = accepted, Recorded' = Recorded, lost' = lost,
         Queued' = Queued, Running' = Running
  PROVE  UNCHANGED <<Stages, Up>>
<1>1. \A i \in RunIds : Stage(i)' = Stage(i)
  <2> TAKE i \in RunIds
  <2> QED
    BY SameStage
<1> QED
  BY <1>1 DEF Stages

LEMMA FireRefines ==
  ASSUME DaemonInv, NEW j \in Jobs, Fire(j)
  PROVE  Lifecycle!Next \/ UNCHANGED <<Stages, Up>>
<1>1. Up /\ Up' /\ Recorded' = Recorded /\ lost' = lost /\ Running' = Running
  BY DEF Fire, Up, Recorded, Running
<1>2. CASE Len(queue) < QueueCap
  <2>0. PICK new : new = serial + 1
    OBVIOUS
  <2>1. new \in RunIds /\ new \notin accepted \cup Recorded \cup lost
    BY <2>0, NextIdentity, IdType DEF Fire, Spend, DaemonInv
  <2>2. Queued' = Queued \cup {new} /\ accepted' = accepted \cup {new}
    BY <1>2, <2>0, TriggerQueued DEF Fire, DaemonInv
  <2>3. Stage(new) = "new" /\ Stage(new)' = "queued"
    BY <1>1, <2>1, <2>2 DEF Stage
  <2>4. \A k \in RunIds : k # new => Stage(k)' = Stage(k)
    BY <1>1, <2>2, OthersStay
  <2> QED
    BY <1>1, <2>1, <2>3, <2>4, OneMoves
<1>3. CASE ~(Len(queue) < QueueCap)
  <2>1. Queued' = Queued /\ accepted' = accepted
    BY <1>3 DEF Fire, Queued
  <2> QED
    BY <1>1, <2>1, NoneMoves
<1> QED
  BY <1>2, <1>3

LEMMA TakeRefines ==
  ASSUME DaemonInv, DaemonInv', NEW w \in Workers, Take(w)
  PROVE  Lifecycle!Next
<1>0. PICK i : i = Head(queue).id
  OBVIOUS
<1>1. /\ Queued = Queued' \cup {i} /\ i \notin Queued'
      /\ worker[w].pc = "idle"
      /\ worker'[w].pc = "busy" /\ worker'[w].id = i
      /\ \A v \in Workers \ {w} : worker'[v] = worker[v]
  BY <1>0, TakenFromQueue DEF DaemonInv
<1>2. /\ Up /\ Up' /\ accepted' = accepted /\ lost' = lost /\ Recorded' = Recorded
      /\ i \in RunIds
  <2>1. Queued \subseteq accepted /\ accepted \subseteq RunIds
    BY DEF DaemonInv, TypeInv, TypeOK, PlaceInv, Apart, Unsettled
  <2> QED
    BY <1>1, <2>1 DEF Take, Up, Recorded
<1>3. Running' = Running \cup {i}
  BY <1>1 DEF Running
<1>4. Stage(i) = "queued"
  BY <1>1, StageOf
<1>5. Stage(i)' = "running"
  <2>1. i \in accepted /\ i \notin Recorded \cup lost
    BY <1>1 DEF DaemonInv, PlaceInv, Apart, Unsettled
  <2>2. \E v \in Workers : worker'[v].id = i /\ worker'[v].pc = "busy"
    BY <1>1
  <2> QED
    BY <1>1, <1>2, <2>1, <2>2 DEF Stage
<1>6. \A k \in RunIds : k # i => Stage(k)' = Stage(k)
  BY <1>1, <1>2, <1>3, OthersStay
<1> QED
  BY <1>2, <1>4, <1>5, <1>6, OneMoves

LEMMA EndJobRefines ==
  ASSUME DaemonInv, NEW w \in Workers, NEW outcome, EndJob(w, outcome)
  PROVE  Lifecycle!Next
<1>0. PICK i : i = worker[w].id
  OBVIOUS
<1>1. /\ worker[w].pc = "busy" /\ worker'[w].pc = "run" /\ worker'[w].id = i
      /\ \A v \in Workers \ {w} : worker'[v] = worker[v]
  BY <1>0, JobEnds DEF DaemonInv
<1>2. i \in Running /\ i \in Held
  BY <1>0, <1>1 DEF Running, Held
<1>3. /\ Up /\ Up'
      /\ accepted' = accepted /\ lost' = lost /\ Recorded' = Recorded /\ Queued' = Queued
  BY <1>1 DEF EndJob, Recorded, Queued, DaemonInv, SettledInv, Up
<1>4. i \in accepted \ (Recorded \cup lost \cup Queued) /\ i \in RunIds
  BY <1>2 DEF DaemonInv, PlaceInv, Apart, Unsettled, TypeInv, TypeOK
<1>5. \A v \in Workers : worker[v].pc = "busy" /\ worker[v].id = i => v = w
  BY <1>0, <1>1 DEF DaemonInv, PlaceInv, Once, Working
<1>6. Running' = Running \ {i}
  BY <1>0, <1>1, <1>5 DEF Running
<1>7. Stage(i) = "running"
  BY <1>2, StageOf
<1>8. Stage(i)' = "ended"
  <2>1. ~ \E v \in Workers : worker'[v].id = i /\ worker'[v].pc = "busy"
    BY <1>1, <1>5
  <2> QED
    BY <1>3, <1>4, <2>1 DEF Stage
<1>9. \A k \in RunIds : k # i => Stage(k)' = Stage(k)
  BY <1>3, <1>6, OthersStay
<1> QED
  BY <1>3, <1>4, <1>7, <1>8, <1>9, OneMoves

LEMMA WorkerRefines ==
  ASSUME DaemonInv, DaemonInv', NEW w \in Workers, WorkerStep(w)
  PROVE  Lifecycle!Next \/ UNCHANGED <<Stages, Up>>
<1>1. ASSUME UNCHANGED <<main, queue, table, accepted, lost>>,
             worker[w].pc # "busy", worker'[w].pc # "busy",
             \A v \in Workers \ {w} : worker'[v] = worker[v]
      PROVE  UNCHANGED <<Stages, Up>>
  <2>1. Running' = Running
    BY <1>1 DEF Running
  <2>2. Recorded' = Recorded /\ Queued' = Queued /\ Up' = Up
    BY <1>1 DEF Recorded, Queued, Up
  <2>3. accepted' = accepted /\ lost' = lost
    BY <1>1
  <2> QED
    BY <2>1, <2>2, <2>3, NoneMoves
<1>2. CASE SendRun(w)
  <2>1. UNCHANGED <<main, queue, table, accepted, lost>>
    BY <1>2 DEF SendRun, Send
  <2> QED
    BY <1>1, <1>2, <2>1, RunSent DEF DaemonInv
<1>3. CASE SendStatus(w)
  <2>1. UNCHANGED <<main, queue, table, accepted, lost>>
    BY <1>3 DEF SendStatus, Send
  <2> QED
    BY <1>1, <1>3, <2>1, StatusSent DEF DaemonInv
<1>4. CASE Exit(w)
  <2>1. UNCHANGED <<main, queue, table, accepted, lost>>
    BY <1>4 DEF Exit
  <2>2. /\ worker[w].pc = "idle" /\ worker'[w].pc = "exited"
        /\ \A v \in Workers \ {w} : worker'[v] = worker[v]
    BY <1>4 DEF Exit, DaemonInv, TypeInv, TypeOK, WorkerState
  <2> QED
    BY <1>1, <2>1, <2>2
<1> QED
  BY <1>2, <1>3, <1>4, TakeRefines, EndJobRefines DEF WorkerStep

LEMMA WriterRefines ==
  ASSUME DaemonInv, WriteRow \/ WriteFails
  PROVE  Lifecycle!Next \/ UNCHANGED <<Stages, Up>>
<1> DEFINE head == Head(channel)
<1>1. channel # << >> /\ channel' = Tail(channel) /\ channel \in Seq(Row)
      /\ Distinct(channel, RunRows)
  BY DEF WriteRow, WriteFails, DaemonInv, TypeInv, TypeOK, PlaceInv, Once
<1>2. head \in Row /\ (head.table = "runs" => head.id \in Sent)
  BY <1>1, QueueTypes, SentTaken
<1>3. /\ Up /\ Up' /\ accepted' = accepted /\ Queued' = Queued /\ Running' = Running
  BY <1>1 DEF WriteRow, WriteFails, Up, Queued, Running, DaemonInv, SettledInv
<1>4. CASE head.table = "runs"
  <2>0. PICK i : i = head.id
    OBVIOUS
  <2>1. /\ i \in RunIds
        /\ i \in accepted \ (Recorded \cup lost \cup Queued \cup Running)
    <3>1. Running \subseteq Held
      BY DEF Running, Held
    <3> QED
      BY <1>2, <1>4, <2>0, <3>1, RunRowsOf DEF DaemonInv, PlaceInv, Apart, Unsettled
  <2>2. Stage(i) = "ended"
    BY <2>1, StageOf
  <2>3. CASE WriteRow
    <3>1. lost' = lost /\ Recorded' = Recorded \cup {i}
      <4>1. lost' = lost /\ table' = Written(head) /\ table \in Tables
        BY <2>3 DEF WriteRow, DaemonInv, TypeInv, TypeOK, Tables
      <4> QED
        BY <1>2, <1>4, <2>0, <4>1, RecordedWritten
    <3>2. Stage(i)' = "recorded"
      BY <1>3, <2>1, <3>1 DEF Stage
    <3>3. \A k \in RunIds : k # i => Stage(k)' = Stage(k)
      BY <1>3, <3>1, OthersStay
    <3> QED
      BY <1>3, <2>1, <2>2, <3>2, <3>3, OneMoves
  <2>4. CASE WriteFails
    <3>1. lost' = lost \cup {i} /\ Recorded' = Recorded
      BY <1>4, <2>0, <2>4 DEF WriteFails, Recorded
    <3>2. Stage(i)' = "lost"
      BY <1>3, <2>1, <3>1 DEF Stage
    <3>3. \A k \in RunIds : k # i => Stage(k)' = Stage(k)
      BY <1>3, <3>1, OthersStay
    <3> QED
      BY <1>3, <2>1, <2>2, <3>2, <3>3, OneMoves
  <2> QED
    BY <2>3, <2>4
<1>5. CASE head.table # "runs"
  <2>1. lost' = lost /\ Recorded' = Recorded
    <3>1. CASE WriteRow
      <4>1. lost' = lost /\ table' = Written(head) /\ table \in Tables
        BY <3>1 DEF WriteRow, DaemonInv, TypeInv, TypeOK, Tables
      <4> QED
        BY <1>2, <1>5, <4>1, RecordedWritten
    <3>2. CASE WriteFails
      BY <1>5, <3>2 DEF WriteFails, Recorded
    <3> QED
      BY <3>1, <3>2
  <2>2. Up' = Up
    BY <1>3
  <2> QED
    BY <1>3, <2>1, <2>2, NoneMoves
<1> QED
  BY <1>4, <1>5

LEMMA MainRefines ==
  ASSUME DaemonInv,
         StartDaemon \/ StartFails \/ MainStep \/ Cancel \/ StopUnrecorded \/ Crash
  PROVE  Lifecycle!Next \/ UNCHANGED <<Stages, Up>>
<1>1. CASE StartDaemon
  <2>1. ~Up /\ Up' /\ accepted' = accepted /\ lost' = lost /\ Recorded' = Recorded
    BY <1>1 DEF StartDaemon, Up, Recorded, DaemonInv, TypeInv, TypeOK
  <2>2. Queued = {} /\ Running = {}
    BY <2>1 DEF Up, DaemonInv, SettledInv, Queued, Running
  <2>3. Queued' = {} /\ Running' = {}
    BY <1>1, RestingType DEF StartDaemon, Queued, Running
  <2>4. \A i \in RunIds : Stage(i)' = Stage(i)
    <3> TAKE i \in RunIds
    <3> QED
      BY <2>1, <2>2, <2>3, SameStage
  <2> QED
    BY <2>1, <2>4 DEF Lifecycle!Next, Lifecycle!Boot
<1>2. CASE StartFails \/ EndDrain \/ Cancel
  <2>1. UNCHANGED <<queue, worker, accepted, lost>> /\ table'.runs = table.runs
    BY <1>2 DEF StartFails, EndDrain, Cancel, DaemonInv, TypeInv, TypeOK
  <2>2. Up' = Up
    BY <1>2 DEF StartFails, EndDrain, Cancel, Up
  <2>3. Recorded' = Recorded /\ Queued' = Queued /\ Running' = Running
    BY <2>1 DEF Recorded, Queued, Running
  <2> QED
    BY <2>1, <2>2, <2>3, NoneMoves
<1>3. CASE StopGracefully \/ StopUnrecorded
  <2>1. /\ UNCHANGED <<queue, worker, accepted, lost>>
        /\ WorkersExited /\ channel = << >> /\ Up /\ ~Up'
    BY <1>3 DEF StopGracefully, StopUnrecorded, Stop, Up
  <2>2. Recorded' = Recorded
    BY <1>3 DEF StopGracefully, StopUnrecorded, Stop, Recorded, DaemonInv, TypeInv, TypeOK
  <2>3. Queued' = Queued /\ Running' = Running
    BY <2>1 DEF Queued, Running
  <2>4. \A i \in RunIds : Stage(i)' = Stage(i)
    <3> TAKE i \in RunIds
    <3> QED
      BY <2>1, <2>2, <2>3, SameStage
  <2>5. Unsettled = {}
    <3>1. \A w \in Workers : worker[w].pc = "exited"
      BY <2>1 DEF WorkersExited
    <3>2. PICK w \in Workers : TRUE
      BY DaemonAssumption DEF DaemonAssumption
    <3>3. queue = << >>
      BY <3>1, <3>2 DEF DaemonInv, SettledInv
    <3> QED
      BY <2>1, <3>1, <3>3 DEF Unsettled, Queued, Held, Sent
  <2>6. \A i \in RunIds : Stage(i) \notin OnItsWay
    BY <2>5, StageOf
  <2>7. Lifecycle!Open = {}
    BY <2>6 DEF Lifecycle!Open, OnItsWay
  <2>8. Up /\ Up' = FALSE /\ Stages' = Stages
    BY <2>1, <2>4 DEF Up, Stages
  <2>9. Lifecycle!Halt
    BY <2>7, <2>8 DEF Lifecycle!Halt, Stages
  <2> QED
    BY <2>9 DEF Lifecycle!Next
<1>4. CASE Crash
  <2>1. /\ Up /\ ~Up' /\ accepted' = accepted /\ lost' = lost \cup Unsettled
        /\ Recorded' = Recorded /\ Queued' = {} /\ Running' = {}
    BY <1>4, RestingType DEF Crash, Up, Recorded, Queued, Running
  <2>2. ASSUME NEW i \in RunIds, i \in Unsettled PROVE Stage(i)' = "lost"
    BY <2>1, <2>2 DEF Stage, DaemonInv, PlaceInv, Apart
  <2>3. ASSUME NEW i \in RunIds, i \notin Unsettled PROVE Stage(i)' = Stage(i)
    <3>1. Running \subseteq Held
      BY DEF Running, Held
    <3>2. i \notin Queued /\ i \notin Running
      BY <2>3, <3>1 DEF Unsettled
    <3> QED
      BY <2>1, <2>3, <3>2, SameStage
  <2>4. Lifecycle!Open = {i \in RunIds : i \in Unsettled}
    BY StageOf DEF Lifecycle!Open, OnItsWay
  <2>5. Stages' = [i \in RunIds |-> IF i \in Lifecycle!Open THEN "lost" ELSE Stages[i]]
    BY <2>2, <2>3, <2>4 DEF Stages
  <2>6. Up /\ Up' = FALSE
    BY <2>1 DEF Up
  <2>7. Lifecycle!Die
    BY <2>5, <2>6 DEF Lifecycle!Die, Stages
  <2> QED
    BY <2>7 DEF Lifecycle!Next
<1> QED
  BY <1>1, <1>2, <1>3, <1>4 DEF MainStep

LEMMA ManualRefines ==
  ASSUME DaemonInv, ManualStep \/ EndEarly \/ \E j \in Jobs : RunJob(j)
  PROVE  UNCHANGED <<Stages, Up>>
<1>1. UNCHANGED <<main, queue, worker, accepted, lost>>
  BY DEF ManualStep, SaveManual, EndManual, EndEarly, RunJob
<1>2. Up' = Up /\ Queued' = Queued /\ Running' = Running
  BY <1>1 DEF Up, Queued, Running
<1>3. CASE SaveManual
  <2>1. Recorded' = IF manual.pc = "run" THEN Recorded \cup {manual.id} ELSE Recorded
    BY <1>3, ManualRecords DEF DaemonInv
  <2>2. manual.id \notin accepted
    BY <1>3 DEF SaveManual, DaemonInv, PlaceInv, Identities
  <2>3. \A i \in RunIds : Stage(i)' = Stage(i)
    <3> TAKE i \in RunIds
    <3>1. i \in accepted => (i \in Recorded <=> i \in Recorded')
      BY <2>1, <2>2
    <3> QED
      BY <1>1, <1>2, <3>1, SameStage
  <2> QED
    BY <1>2, <2>3 DEF Stages
<1>4. CASE ~SaveManual
  <2>1. table' = table
    BY <1>4 DEF ManualStep, EndManual, EndEarly, RunJob
  <2>2. Recorded' = Recorded
    BY <2>1 DEF Recorded
  <2> QED
    BY <1>1, <1>2, <2>2, NoneMoves
<1> QED
  BY <1>3, <1>4

\* The daemon keeps what RunLifecycle promises of every trigger it accepts:
\* its queue, its workers, its writer, its shutdown and its crashes take a
\* trigger through the stages in order, at most once.
THEOREM KeepsItsPromises == Spec => PromisesKept
<1>1. Init => Lifecycle!Init
  BY DEF Init, Lifecycle!Init, Stage, Up
<1>2. DaemonInv /\ DaemonInv' /\ [Next]_vars => [Lifecycle!Next]_<<Stages, Up>>
  <2> SUFFICES ASSUME DaemonInv, DaemonInv', [Next]_vars
               PROVE  Lifecycle!Next \/ UNCHANGED <<Stages, Up>>
    OBVIOUS
  <2>1. CASE Next
    BY <2>1, MainRefines, FireRefines, WorkerRefines, WriterRefines, ManualRefines DEF Next
  <2>2. CASE UNCHANGED vars
    <3>1. UNCHANGED <<accepted, lost>> /\ Recorded' = Recorded /\ Queued' = Queued
          /\ Running' = Running /\ Up' = Up
      BY <2>2 DEF vars, Recorded, Queued, Running, Up
    <3> QED
      BY <3>1, NoneMoves
  <2> QED
    BY <2>1, <2>2
<1> QED
  BY <1>1, <1>2, OnePlaceAtATime, PTL DEF Spec, PromisesKept, Lifecycle!Spec, Stages

-----------------------------------------------------------------------------
(* The status of a job shows a run of its history *)

\* How a run ended, as the history keeps it.
EndOf(r) == [id |-> r.id, job |-> r.job, outcome |-> r.outcome]

History == In(table.runs)

\* A status row in the channel comes behind the row of its run, unless that
\* one is written or lost.
BehindItsRun ==
  \A n \in DOMAIN channel :
    channel[n].table = "status" =>
      \/ channel[n].id \in lost \/ EndOf(channel[n]) \in History
      \/ \E m \in DOMAIN channel : m < n /\ channel[m] = RunRow(channel[n])

\* So does a worker that has yet to send it.
RunWasSent ==
  \A w \in Workers :
    worker[w].pc = "status" =>
      \/ worker[w].id \in lost \/ EndOf(worker[w]) \in History
      \/ RunRow(worker[w]) \in In(channel)

RunWasSaved == manual.pc = "status" => EndOf(manual) \in History

StatusInv == StatusFromHistory /\ BehindItsRun /\ RunWasSent /\ RunWasSaved

\* StatusFromHistory, said of the set of runs.
LEMMA StatusOf ==
  StatusFromHistory <=>
    \A j \in Jobs : \/ table.status[j].run \in lost \cup {NoRun}
                    \/ \E r \in History : /\ r.id = table.status[j].run /\ r.job = j
                                          /\ r.outcome = "failure" <=>
                                               table.status[j].state = "degraded"
BY DEF StatusFromHistory, History, In

\* The history and the losses only grow.
LEMMA StatusGrows ==
  ASSUME StatusFromHistory, History \subseteq History', lost \subseteq lost',
         table'.status = table.status
  PROVE  StatusFromHistory'
<1> SUFFICES ASSUME NEW j \in Jobs
             PROVE  \/ table'.status[j].run \in lost' \cup {NoRun}
                    \/ \E r \in History' : /\ r.id = table'.status[j].run /\ r.job = j
                                           /\ r.outcome = "failure" <=>
                                                table'.status[j].state = "degraded"
  BY DEF StatusFromHistory, History, In
<1>1. \/ table.status[j].run \in lost \cup {NoRun}
      \/ \E r \in History : /\ r.id = table.status[j].run /\ r.job = j
                            /\ r.outcome = "failure" <=>
                                 table.status[j].state = "degraded"
  BY StatusOf
<1> QED
  BY <1>1

\* The row of a run joins the history.
LEMMA HistoryWritten ==
  ASSUME table \in Tables, NEW row \in Row, row.table = "runs", table' = Written(row)
  PROVE  History' = History \cup {EndOf(row)} /\ table'.status = table.status
<1>1. EndOf(row) \in [id : RunIds, job : Jobs, outcome : Outcomes]
  BY DEF Row, EndOf
<1>2. table.runs \in Seq([id : RunIds, job : Jobs, outcome : Outcomes])
  BY DEF Tables
<1>3. table'.runs = Append(table.runs, EndOf(row)) /\ table'.status = table.status
  BY DEF Written, Tables, EndOf
<1>4. In(table'.runs) = In(table.runs) \cup {EndOf(row)}
  BY <1>1, <1>2, <1>3, AppendHolds DEF In
<1> QED
  BY <1>3, <1>4 DEF History, In

\* A status row whose run is in the history, or lost, replaces the job's.
LEMMA StatusWritten ==
  ASSUME table \in Tables, StatusFromHistory, NEW row \in Row, row.table = "status",
         row.id \in lost \/ EndOf(row) \in History, table' = Written(row), lost' = lost
  PROVE  StatusFromHistory' /\ History' = History
<1>1. /\ table'.runs = table.runs
      /\ table'.status = [table.status EXCEPT ![row.job] = Upserted(@, row)]
      /\ table.status \in [Jobs -> StatusColumns]
  BY DEF Written, Tables
<1>2. History' = History
  BY <1>1 DEF History, In
<1>3. /\ table'.status[row.job].run = row.id /\ row.job \in Jobs
      /\ row.outcome = "failure" <=> table'.status[row.job].state = "degraded"
      /\ \A j \in Jobs : j # row.job => table'.status[j] = table.status[j]
  BY <1>1 DEF Row, Upserted
<1>4. EndOf(row).id = row.id /\ EndOf(row).job = row.job /\ EndOf(row).outcome = row.outcome
  BY DEF EndOf
<1> SUFFICES ASSUME NEW j \in Jobs
             PROVE  \/ table'.status[j].run \in lost' \cup {NoRun}
                    \/ \E r \in History' : /\ r.id = table'.status[j].run /\ r.job = j
                                           /\ r.outcome = "failure" <=>
                                                table'.status[j].state = "degraded"
  BY <1>2 DEF StatusFromHistory, History, In
<1>5. CASE j = row.job
  BY <1>2, <1>3, <1>4, <1>5
<1>6. CASE j # row.job
  <2>1. \/ table.status[j].run \in lost \cup {NoRun}
        \/ \E r \in History : /\ r.id = table.status[j].run /\ r.job = j
                              /\ r.outcome = "failure" <=>
                                   table.status[j].state = "degraded"
    BY StatusOf
  <2> QED
    BY <1>2, <1>3, <1>6, <2>1
<1> QED
  BY <1>5, <1>6

\* A row joins the channel.
LEMMA BehindWhenSent ==
  ASSUME channel \in Seq(Row), BehindItsRun, NEW row \in Row,
         channel' = Append(channel, row), table' = table, lost' = lost,
         row.table = "status" => \/ row.id \in lost \/ EndOf(row) \in History
                                 \/ RunRow(row) \in In(channel)
  PROVE  BehindItsRun'
<1> DEFINE a == Append(channel, row)
<1>1. /\ a \in Seq(Row) /\ Len(a) = Len(channel) + 1 /\ a[Len(channel) + 1] = row
      /\ \A n \in 1..Len(channel) : a[n] = channel[n]
  BY AppendProperties
<1>2. DOMAIN channel = 1..Len(channel) /\ DOMAIN a = 1..Len(a) /\ Len(channel) \in Nat
  BY <1>1, LenProperties
<1>3. /\ DOMAIN a = DOMAIN channel \cup {Len(channel) + 1}
      /\ \A n \in DOMAIN channel : a[n] = channel[n] /\ n < Len(channel) + 1
  BY <1>1, <1>2
<1>4. channel' = a /\ History' = History
  BY DEF History
<1> HIDE DEF a
<1> SUFFICES ASSUME NEW n \in DOMAIN a, a[n].table = "status"
             PROVE  \/ a[n].id \in lost \/ EndOf(a[n]) \in History
                    \/ \E m \in DOMAIN a : m < n /\ a[m] = RunRow(a[n])
  BY <1>4 DEF BehindItsRun
<1>5. CASE n \in DOMAIN channel
  <2>1. a[n] = channel[n]
    BY <1>3, <1>5
  <2>2. \/ channel[n].id \in lost \/ EndOf(channel[n]) \in History
        \/ \E m \in DOMAIN channel : m < n /\ channel[m] = RunRow(channel[n])
    BY <1>5, <2>1 DEF BehindItsRun
  <2>3. ASSUME NEW m \in DOMAIN channel, m < n, channel[m] = RunRow(channel[n])
        PROVE  m \in DOMAIN a /\ m < n /\ a[m] = RunRow(a[n])
    BY <1>3, <2>1, <2>3
  <2> QED
    BY <2>1, <2>2, <2>3
<1>6. CASE n \notin DOMAIN channel
  <2>1. n = Len(channel) + 1 /\ a[n] = row
    BY <1>1, <1>3, <1>6
  <2>2. CASE row.id \in lost \/ EndOf(row) \in History
    BY <2>1, <2>2
  <2>3. CASE RunRow(row) \in In(channel)
    <3>1. PICK m \in DOMAIN channel : channel[m] = RunRow(row)
      BY <2>3 DEF In
    <3> QED
      BY <1>3, <2>1, <3>1
  <2> QED
    BY <2>1, <2>2, <2>3
<1> QED
  BY <1>5, <1>6

\* The oldest row leaves the channel; what it told is kept, or known as lost.
LEMMA BehindWhenTaken ==
  ASSUME channel \in Seq(Row), channel # << >>, BehindItsRun, channel' = Tail(channel),
         History \subseteq History', lost \subseteq lost',
         Head(channel).table = "runs" => \/ Head(channel).id \in lost'
                                         \/ EndOf(Head(channel)) \in History'
  PROVE  BehindItsRun'
<1> DEFINE t == Tail(channel)
           head == Head(channel)
<1>1. /\ t \in Seq(Row) /\ Len(t) = Len(channel) - 1
      /\ \A n \in 1..Len(t) : t[n] = channel[n + 1]
  BY HeadTailProperties
<1>2. DOMAIN channel = 1..Len(channel) /\ DOMAIN t = 1..Len(t) /\ Len(channel) \in Nat
  BY <1>1, LenProperties
<1>3. head = channel[1]
  BY EmptySeq, <1>2
<1>4. \A n \in DOMAIN t : t[n] = channel[n + 1] /\ n + 1 \in DOMAIN channel /\ n \in Nat
  BY <1>1, <1>2
<1>5. \A m \in DOMAIN channel : m # 1 => m - 1 \in DOMAIN t /\ t[m - 1] = channel[m]
                                         /\ m \in Nat
  BY <1>1, <1>2
<1>6. channel' = t
  OBVIOUS
<1> HIDE DEF t
<1> SUFFICES ASSUME NEW n \in DOMAIN t, t[n].table = "status"
             PROVE  \/ t[n].id \in lost' \/ EndOf(t[n]) \in History'
                    \/ \E m \in DOMAIN t : m < n /\ t[m] = RunRow(t[n])
  BY <1>6 DEF BehindItsRun
<1>7. \/ t[n].id \in lost \/ EndOf(t[n]) \in History
      \/ \E m \in DOMAIN channel : m < n + 1 /\ channel[m] = RunRow(t[n])
  <2>1. n + 1 \in DOMAIN channel /\ channel[n + 1] = t[n]
    BY <1>4
  <2> QED
    BY <2>1 DEF BehindItsRun
<1>8. ASSUME NEW m \in DOMAIN channel, m < n + 1, channel[m] = RunRow(t[n])
      PROVE  \/ t[n].id \in lost' \/ EndOf(t[n]) \in History'
             \/ \E k \in DOMAIN t : k < n /\ t[k] = RunRow(t[n])
  <2>1. CASE m = 1
    <3>1. head = RunRow(t[n])
      BY <1>3, <1>8, <2>1
    <3>2. /\ head.table = "runs" /\ head.id = t[n].id /\ head.job = t[n].job
          /\ head.outcome = t[n].outcome
      BY <3>1 DEF RunRow
    <3> HIDE DEF head
    <3>3. EndOf(head) = EndOf(t[n])
      BY <3>2 DEF EndOf
    <3> QED
      BY <3>2, <3>3 DEF head
  <2>2. CASE m # 1
    <3>1. m - 1 \in DOMAIN t /\ t[m - 1] = RunRow(t[n]) /\ m \in Nat /\ n \in Nat
      BY <1>4, <1>5, <1>8, <2>2
    <3>2. m - 1 < n
      BY <1>8, <3>1
    <3> QED
      BY <3>1, <3>2
  <2> QED
    BY <2>1, <2>2
<1> QED
  BY <1>7, <1>8

\* A step that writes no row, sends none and ends no run.
LEMMA StatusStays ==
  ASSUME StatusInv, lost \subseteq lost', History' = History,
         table'.status = table.status,
         \/ channel' = channel
         \/ channel' = << >> /\ \A w \in Workers : worker'[w].pc # "status",
         \A w \in Workers : worker'[w].pc = "status" => worker'[w] = worker[w],
         manual'.pc = "status" => manual' = manual
  PROVE  StatusInv'
<1>1. StatusFromHistory'
  BY StatusGrows DEF StatusInv
<1>2. BehindItsRun'
  BY DEF StatusInv, BehindItsRun
<1>3. RunWasSent'
  BY DEF StatusInv, RunWasSent
<1>4. RunWasSaved'
  BY DEF StatusInv, RunWasSaved
<1> QED
  BY <1>1, <1>2, <1>3, <1>4 DEF StatusInv

\* The main task writes the health row and no other.
LEMMA MainWritesNoRow ==
  ASSUME TypeInv,
         StartDaemon \/ StartFails \/ MainStep \/ Cancel \/ StopUnrecorded \/ Crash
  PROVE  History' = History /\ table'.status = table.status
BY DEF StartDaemon, StartFails, MainStep, Cancel, StopUnrecorded, EndDrain,
   StopGracefully, Stop, Crash, History, In, TypeInv, TypeOK

LEMMA MainKeepsStatus ==
  ASSUME TypeInv, StatusInv,
         StartDaemon \/ StartFails \/ MainStep \/ Cancel \/ StopUnrecorded \/ Crash
  PROVE  StatusInv'
<1>1. History' = History /\ table'.status = table.status
  BY MainWritesNoRow
<1>2. lost \subseteq lost' /\ manual' = manual
  BY DEF StartDaemon, StartFails, MainStep, Cancel, StopUnrecorded, EndDrain,
     StopGracefully, Stop, Crash
<1>3. CASE StartDaemon \/ Crash
  <2>1. channel' = << >> /\ \A w \in Workers : worker'[w].pc = "idle"
    BY <1>3, RestingType DEF StartDaemon, Crash
  <2> QED
    BY <1>1, <1>2, <2>1, StatusStays
<1>4. CASE StartFails \/ MainStep \/ Cancel \/ StopUnrecorded
  <2>1. channel' = channel /\ worker' = worker
    BY <1>4 DEF StartFails, MainStep, Cancel, StopUnrecorded, EndDrain, StopGracefully, Stop
  <2> QED
    BY <1>1, <1>2, <2>1, StatusStays
<1> QED
  BY <1>3, <1>4

LEMMA WorkerKeepsStatus ==
  ASSUME TypeInv, StatusInv, NEW w \in Workers, WorkerStep(w) PROVE StatusInv'
<1>1. table' = table /\ lost' = lost /\ manual' = manual
  BY DEF WorkerStep, Take, SendRun, SendStatus, Send, Exit, EndJob
<1>2. History' = History
  BY <1>1 DEF History, In
<1>3. StatusFromHistory' /\ RunWasSaved'
  <2>1. StatusFromHistory'
    BY <1>1, <1>2, StatusGrows DEF StatusInv
  <2> QED
    BY <1>1, <1>2, <2>1 DEF StatusInv, RunWasSaved
<1>4. ASSUME channel' = channel, worker'[w].pc # "status",
             \A v \in Workers \ {w} : worker'[v] = worker[v]
      PROVE  StatusInv'
  BY <1>1, <1>2, <1>4, StatusStays
<1>5. CASE Take(w) \/ Exit(w) \/ \E outcome \in Outcomes : EndJob(w, outcome)
  <2>1. /\ channel' = channel /\ worker'[w].pc # "status"
        /\ \A v \in Workers \ {w} : worker'[v] = worker[v]
    <3>0. worker \in [Workers -> WorkerState]
      BY DEF TypeInv, TypeOK
    <3>1. CASE Take(w)
      BY <3>0, <3>1 DEF Take, WorkerState
    <3>2. CASE Exit(w)
      BY <3>0, <3>2 DEF Exit, WorkerState
    <3>3. ASSUME NEW outcome \in Outcomes, EndJob(w, outcome)
          PROVE  /\ channel' = channel /\ worker'[w].pc # "status"
                 /\ \A v \in Workers \ {w} : worker'[v] = worker[v]
      BY <3>3, JobEnds DEF EndJob
    <3> QED
      BY <1>5, <3>1, <3>2, <3>3
  <2> QED
    BY <1>4, <2>1
<1>6. CASE SendRun(w)
  <2> DEFINE row == RunRow(worker[w])
  <2>1. /\ row \in Row /\ channel' = Append(channel, row) /\ channel \in Seq(Row)
        /\ worker'[w] = [worker[w] EXCEPT !.pc = "status"]
        /\ \A v \in Workers \ {w} : worker'[v] = worker[v]
    BY <1>6, RunSent DEF TypeInv, TypeOK
  <2>2. row.table # "status"
    BY DEF RunRow
  <2>3. In(channel') = In(channel) \cup {row}
    BY <2>1, AppendHolds DEF In
  <2>4. RunRow(worker'[w]) = row
    BY <2>1 DEF RunRow, TypeInv, TypeOK, WorkerState
  <2> HIDE DEF row
  <2>5. BehindItsRun'
    BY <1>1, <2>1, <2>2, BehindWhenSent DEF StatusInv
  <2>6. RunWasSent'
    BY <1>1, <1>2, <2>1, <2>3, <2>4 DEF StatusInv, RunWasSent
  <2> QED
    BY <1>3, <2>5, <2>6 DEF StatusInv
<1>7. CASE SendStatus(w)
  <2> DEFINE row == StatusRow(worker[w])
  <2>1. /\ row \in Row /\ channel' = Append(channel, row) /\ channel \in Seq(Row)
        /\ worker[w].pc = "status" /\ worker'[w].pc = "idle"
        /\ \A v \in Workers \ {w} : worker'[v] = worker[v]
    BY <1>7, StatusSent DEF TypeInv, TypeOK
  <2>2. row.id = worker[w].id /\ EndOf(row) = EndOf(worker[w])
        /\ RunRow(row) = RunRow(worker[w])
    BY DEF StatusRow, EndOf, RunRow
  <2>3. In(channel') = In(channel) \cup {row}
    BY <2>1, AppendHolds DEF In
  <2> HIDE DEF row
  <2>4. \/ row.id \in lost \/ EndOf(row) \in History \/ RunRow(row) \in In(channel)
    BY <2>1, <2>2 DEF StatusInv, RunWasSent
  <2>5. BehindItsRun'
    BY <1>1, <2>1, <2>4, BehindWhenSent DEF StatusInv
  <2>6. RunWasSent'
    BY <1>1, <1>2, <2>1, <2>3 DEF StatusInv, RunWasSent
  <2> QED
    BY <1>3, <2>5, <2>6 DEF StatusInv
<1> QED
  BY <1>5, <1>6, <1>7 DEF WorkerStep

\* A status row that has become the oldest tells of a settled run.
LEMMA OldestStatus ==
  ASSUME channel \in Seq(Row), channel # << >>, BehindItsRun, Head(channel).table = "status"
  PROVE  Head(channel).id \in lost \/ EndOf(Head(channel)) \in History
<1>1. 1 \in DOMAIN channel /\ channel[1] = Head(channel) /\ DOMAIN channel = 1..Len(channel)
      /\ Len(channel) \in Nat
  BY LenProperties, EmptySeq
<1>2. ~ \E m \in DOMAIN channel : m < 1
  BY <1>1
<1> QED
  BY <1>1, <1>2 DEF BehindItsRun

LEMMA WriterKeepsStatus ==
  ASSUME TypeInv, StatusInv, WriteRow \/ WriteFails PROVE StatusInv'
<1> DEFINE head == Head(channel)
<1>1. channel # << >> /\ channel' = Tail(channel) /\ channel \in Seq(Row) /\ head \in Row
  BY QueueTypes DEF WriteRow, WriteFails, TypeInv, TypeOK
<1>2. In(channel) = {head} \cup In(channel')
  BY <1>1, TailHolds DEF In
<1>3. worker' = worker /\ manual' = manual /\ table \in Tables
  BY DEF WriteRow, WriteFails, TypeInv, TypeOK, Tables
<1>4. head.table = "status" => head.id \in lost \/ EndOf(head) \in History
  BY <1>1, OldestStatus DEF StatusInv
<1> HIDE DEF head
<1>5. /\ History \subseteq History' /\ lost \subseteq lost' /\ StatusFromHistory'
      /\ head.table = "runs" => head.id \in lost' \/ EndOf(head) \in History'
  <2>1. CASE WriteRow
    <3>1. table' = Written(head) /\ lost' = lost
      BY <2>1 DEF WriteRow, head
    <3>2. CASE head.table = "runs"
      <4>1. History' = History \cup {EndOf(head)} /\ table'.status = table.status
        BY <1>1, <1>3, <3>1, <3>2, HistoryWritten
      <4> QED
        BY <3>1, <4>1, StatusGrows DEF StatusInv
    <3>3. CASE head.table # "runs"
      <4>1. head.table = "status"
        BY <1>1, <3>3 DEF Row
      <4> QED
        BY <1>1, <1>3, <1>4, <3>1, <3>3, <4>1, StatusWritten DEF StatusInv
    <3> QED
      BY <3>2, <3>3
  <2>2. CASE WriteFails
    <3>1. table' = table /\ lost \subseteq lost' /\ (head.table = "runs" => head.id \in lost')
      BY <2>2 DEF WriteFails, head
    <3>2. History' = History
      BY <3>1 DEF History, In
    <3> QED
      BY <3>1, <3>2, StatusGrows DEF StatusInv
  <2> QED
    BY <2>1, <2>2
<1>6. BehindItsRun'
  BY <1>1, <1>5, BehindWhenTaken DEF StatusInv, head
<1>7. RunWasSent'
  <2> SUFFICES ASSUME NEW w \in Workers, worker[w].pc = "status"
               PROVE  \/ worker[w].id \in lost' \/ EndOf(worker[w]) \in History'
                      \/ RunRow(worker[w]) \in In(channel')
    BY <1>3 DEF RunWasSent
  <2>1. \/ worker[w].id \in lost \/ EndOf(worker[w]) \in History
        \/ RunRow(worker[w]) \in In(channel)
    BY DEF StatusInv, RunWasSent
  <2>2. CASE RunRow(worker[w]) = head
    <3>1. head.table = "runs" /\ head.id = worker[w].id /\ EndOf(head) = EndOf(worker[w])
      BY <2>2 DEF RunRow, EndOf
    <3> QED
      BY <1>5, <3>1
  <2> QED
    BY <1>2, <1>5, <2>1, <2>2
<1>8. RunWasSaved'
  BY <1>3, <1>5 DEF StatusInv, RunWasSaved
<1> QED
  BY <1>5, <1>6, <1>7, <1>8 DEF StatusInv

LEMMA ManualKeepsStatus ==
  ASSUME TypeInv, StatusInv, ManualStep \/ EndEarly \/ \E j \in Jobs : RunJob(j)
  PROVE  StatusInv'
<1>1. worker' = worker /\ channel' = channel /\ lost' = lost
  BY DEF ManualStep, SaveManual, EndManual, EndEarly, RunJob
<1>2. CASE EndEarly \/ (\E j \in Jobs : RunJob(j)) \/ \E o \in Outcomes : EndManual(o)
  <2>1. table' = table
    BY <1>2 DEF EndEarly, RunJob, EndManual
  <2>2. manual'.pc # "status"
    BY <1>2, RestingType DEF EndEarly, RunJob, EndManual, TypeInv, TypeOK, WorkerState
  <2>3. History' = History
    BY <2>1 DEF History, In
  <2> QED
    BY <1>1, <2>1, <2>2, <2>3, StatusStays
<1>3. CASE SaveManual
  <2>1. manual \in WorkerState /\ manual.id # NoRun /\ table \in Tables
    BY <1>3 DEF SaveManual, TypeInv, TypeOK, Identified, Tables
  <2>2. RunRow(manual) \in Row /\ StatusRow(manual) \in Row
    BY <2>1, RowType
  <2>3. /\ RunRow(manual).table = "runs" /\ EndOf(RunRow(manual)) = EndOf(manual)
        /\ StatusRow(manual).table = "status" /\ EndOf(StatusRow(manual)) = EndOf(manual)
    BY DEF RunRow, StatusRow, EndOf
  <2>4. /\ History \subseteq History' /\ StatusFromHistory'
        /\ manual'.pc = "status" => EndOf(manual') \in History'
    <3>1. CASE manual.pc = "run"
      <4>1. table' = Written(RunRow(manual)) /\ manual' = [manual EXCEPT !.pc = "status"]
        BY <1>3, <3>1 DEF SaveManual
      <4>2. History' = History \cup {EndOf(manual)} /\ table'.status = table.status
        BY <2>1, <2>2, <2>3, <4>1, HistoryWritten
      <4>3. EndOf(manual') = EndOf(manual)
        BY <2>1, <4>1 DEF EndOf, WorkerState
      <4> QED
        BY <1>1, <4>2, <4>3, StatusGrows DEF StatusInv
    <3>2. CASE manual.pc # "run"
      <4>1. table' = Written(StatusRow(manual)) /\ manual' = Resting /\ manual.pc = "status"
        BY <1>3, <3>2 DEF SaveManual
      <4>2. EndOf(StatusRow(manual)) \in History
        BY <2>3, <4>1 DEF StatusInv, RunWasSaved
      <4>3. StatusFromHistory' /\ History' = History
        BY <1>1, <2>1, <2>2, <2>3, <4>1, <4>2, StatusWritten DEF StatusInv
      <4> QED
        BY <4>1, <4>3, RestingType
    <3> QED
      BY <3>1, <3>2
  <2>5. BehindItsRun'
    BY <1>1, <2>4 DEF StatusInv, BehindItsRun
  <2>6. RunWasSent'
    BY <1>1, <2>4 DEF StatusInv, RunWasSent
  <2> QED
    BY <2>4, <2>5, <2>6 DEF StatusInv, RunWasSaved
<1> QED
  BY <1>2, <1>3 DEF ManualStep

LEMMA NextKeepsStatus ==
  ASSUME TypeInv, StatusInv, [Next]_vars PROVE StatusInv'
<1>1. ASSUME NEW j \in Jobs, Fire(j) PROVE StatusInv'
  <2>1. table' = table /\ worker' = worker /\ channel' = channel /\ lost' = lost
        /\ manual' = manual
    BY <1>1 DEF Fire
  <2>2. History' = History
    BY <2>1 DEF History, In
  <2> QED
    BY <2>1, <2>2, StatusStays
<1>2. CASE UNCHANGED vars
  <2>1. table' = table /\ worker' = worker /\ channel' = channel /\ lost' = lost
        /\ manual' = manual
    BY <1>2 DEF vars
  <2>2. History' = History
    BY <2>1 DEF History, In
  <2> QED
    BY <2>1, <2>2, StatusStays
<1>3. CASE Next
  BY <1>1, <1>3, MainKeepsStatus, WorkerKeepsStatus, WriterKeepsStatus, ManualKeepsStatus
  DEF Next
<1> QED
  BY <1>2, <1>3

\* The status of a job shows a run of that job as its history tells it,
\* whichever worker or command wrote it, in whatever order the writes came,
\* failed or were cut off by a crash.
THEOREM StatusTellsHistory == Spec => []StatusFromHistory
<1>1. Init => StatusInv
  BY RestingType
  DEF Init, StatusInv, StatusFromHistory, NoStatus, BehindItsRun, RunWasSent, RunWasSaved
<1>2. TypeInv /\ StatusInv /\ [Next]_vars => StatusInv'
  BY NextKeepsStatus
<1>3. StatusInv => StatusFromHistory
  BY DEF StatusInv
<1> QED
  BY <1>1, <1>2, <1>3, NothingForgotten, PTL DEF Spec

-----------------------------------------------------------------------------
(* The status of a job counts no failure that did not happen *)

\* The runs of a job that failed, among some rows about runs.
FailuresAmong(j, rows) ==
  {x.id : x \in {y \in rows : y.job = j /\ y.outcome = "failure"}}

\* What accounts for a count: failures of the history, of rows that come
\* before the count, and runs whose rows were lost.
Account(j, rows) == FailuresAmong(j, History \cup rows) \cup lost

Backed(fails, j, rows) == fails <= Cardinality(Account(j, rows))

\* A count is there exactly where the run it belongs to failed.
Honest(fails, outcome) == fails > 0 <=> outcome = "failure"

RunRowsSent == {x \in In(channel) : x.table = "runs"}

RunRowsBefore(n) ==
  {channel[m] : m \in {k \in DOMAIN channel : k < n /\ channel[k].table = "runs"}}

JustEnded(s) == IF s.pc = "run" THEN {RunRow(s)} ELSE {}

StatusCount ==
  \A j \in Jobs :
    /\ Backed(table.status[j].fails, j, {})
    /\ table.status[j].fails > 0 <=> table.status[j].state = "degraded"

ChannelCount ==
  \A n \in DOMAIN channel :
    channel[n].table = "status" =>
      /\ Backed(channel[n].fails, channel[n].job, RunRowsBefore(n))
      /\ Honest(channel[n].fails, channel[n].outcome)

WorkerCount ==
  \A w \in Workers :
    /\ \A j \in Jobs :
         Backed(worker[w].fails[j], j, RunRowsSent \cup JustEnded(worker[w]))
    /\ worker[w].pc \in {"run", "status"} =>
         Honest(worker[w].fails[worker[w].job], worker[w].outcome)

ManualCount ==
  /\ manual.pc = "busy" => manual.fails[manual.job] = 0
  /\ manual.pc \in {"run", "status"} =>
       /\ manual.fails[manual.job] <= 1
       /\ Honest(manual.fails[manual.job], manual.outcome)
  /\ manual.pc = "status" => Backed(manual.fails[manual.job], manual.job, {})

CountInv == StatusCount /\ ChannelCount /\ WorkerCount /\ ManualCount

LEMMA RunIdsFinite ==
  /\ IsFiniteSet(RunIds)
  /\ \A S \in SUBSET RunIds : IsFiniteSet(S) /\ Cardinality(S) \in Nat
<1>1. IsFiniteSet(RunIds)
  BY FS_Interval, DaemonAssumption DEF DaemonAssumption, RunIds
<1> QED
  BY <1>1, FS_Subset, FS_CardinalityType

\* Rows about runs, whatever more they say.
RowLike(rows) == \A x \in rows : x.id \in RunIds

LEMMA HistoryRows ==
  ASSUME NEW R, NEW runs \in Seq(R) PROVE In(runs) \subseteq R
BY ElementOfSeq DEF In

LEMMA AccountType ==
  ASSUME TypeInv, NEW j, NEW rows, RowLike(rows)
  PROVE  /\ Account(j, rows) \subseteq RunIds
         /\ IsFiniteSet(Account(j, rows))
         /\ Cardinality(Account(j, rows)) \in Nat
<1>1. \A x \in History : x.id \in RunIds
  <2>1. table.runs \in Seq([id : RunIds, job : Jobs, outcome : Outcomes])
    BY DEF TypeInv, TypeOK
  <2>2. History \subseteq [id : RunIds, job : Jobs, outcome : Outcomes]
    BY <2>1, HistoryRows DEF History
  <2> QED
    BY <2>2
<1>2. lost \subseteq RunIds
  BY DEF TypeInv, TypeOK
<1>3. Account(j, rows) \subseteq RunIds
  BY <1>1, <1>2 DEF Account, FailuresAmong, RowLike
<1> QED
  BY <1>3, RunIdsFinite

\* A count stays backed while what accounts for it grows.
LEMMA BackedStill ==
  ASSUME TypeInv, TypeInv', NEW j, NEW rows, NEW more, RowLike(rows), RowLike(more),
         History \subseteq History', lost \subseteq lost',
         NEW fails \in Nat, Backed(fails, j, rows),
         FailuresAmong(j, rows) \subseteq FailuresAmong(j, History' \cup more) \cup lost'
  PROVE  fails <= Cardinality(FailuresAmong(j, History' \cup more) \cup lost')
<1> DEFINE new == FailuresAmong(j, History' \cup more) \cup lost'
<1>1. Account(j, rows) \subseteq new
  BY DEF Account, FailuresAmong
<1>2. new \subseteq RunIds
  <2>1. \A x \in History' : x.id \in RunIds
    <3>1. table'.runs \in Seq([id : RunIds, job : Jobs, outcome : Outcomes])
      BY DEF TypeInv, TypeOK
    <3>2. History' \subseteq [id : RunIds, job : Jobs, outcome : Outcomes]
      BY <3>1, HistoryRows DEF History
    <3> QED
      BY <3>2
  <2>2. lost' \subseteq RunIds
    BY DEF TypeInv, TypeOK
  <2> QED
    BY <2>1, <2>2 DEF FailuresAmong, RowLike
<1>3. IsFiniteSet(new) /\ Cardinality(new) \in Nat
  BY <1>2, RunIdsFinite
<1>4. Cardinality(Account(j, rows)) \in Nat
  BY AccountType
<1> HIDE DEF new
<1>5. Cardinality(Account(j, rows)) <= Cardinality(new)
  BY <1>1, <1>3, FS_Subset
<1>6. fails <= Cardinality(Account(j, rows))
  BY DEF Backed
<1> QED
  BY <1>3, <1>4, <1>5, <1>6 DEF new

\* A failed run that nothing accounted for yet allows a count of one more.
LEMMA OneMoreBacked ==
  ASSUME TypeInv, NEW j, NEW rows, RowLike(rows), NEW fails \in Nat,
         Backed(fails, j, rows), NEW run, run.id \in RunIds, run.job = j,
         run.outcome = "failure", run.id \notin Account(j, rows)
  PROVE  Backed(fails + 1, j, rows \cup {run})
<1>1. Account(j, rows \cup {run}) = Account(j, rows) \cup {run.id}
  BY DEF Account, FailuresAmong
<1>2. IsFiniteSet(Account(j, rows)) /\ Cardinality(Account(j, rows)) \in Nat
  BY AccountType
<1>3. Cardinality(Account(j, rows) \cup {run.id}) = Cardinality(Account(j, rows)) + 1
  BY <1>2, FS_AddElement
<1>4. Cardinality(Account(j, rows \cup {run})) = Cardinality(Account(j, rows)) + 1
  BY <1>1, <1>3, Zenon
<1>5. fails <= Cardinality(Account(j, rows))
  BY DEF Backed
<1>6. fails + 1 <= Cardinality(Account(j, rows \cup {run}))
  BY <1>2, <1>4, <1>5
<1> QED
  BY <1>6 DEF Backed

\* Rows of the channel and of a worker are about runs.
LEMMA CountTypes ==
  ASSUME TypeInv
  PROVE  /\ RowLike({}) /\ RowLike(RunRowsSent)
         /\ \A n : RowLike(RunRowsBefore(n)) /\ RunRowsBefore(n) \subseteq RunRowsSent
         /\ \A w \in Workers :
              /\ RowLike(JustEnded(worker[w]))
              /\ worker[w].fails \in [Jobs -> Nat] /\ worker[w].job \in Jobs
         /\ \A j \in Jobs : table.status[j].fails \in Nat
         /\ manual.fails \in [Jobs -> Nat] /\ manual.job \in Jobs
         /\ \A n \in DOMAIN channel :
              channel[n].table = "status" => channel[n].fails \in Nat /\ channel[n].job \in Jobs
<1>1. channel \in Seq(Row) /\ worker \in [Workers -> WorkerState] /\ manual \in WorkerState
  BY DEF TypeInv, TypeOK
<1>2. \A n \in DOMAIN channel : channel[n] \in Row
  BY <1>1, ElementOfSeq
<1>3. RowLike({}) /\ RowLike(RunRowsSent)
  BY <1>2, RunRowsOf DEF RowLike, RunRowsSent, In
<1>4. \A n : RunRowsBefore(n) \subseteq RunRowsSent
  BY DEF RunRowsBefore, RunRowsSent, In
<1>5. ASSUME NEW w \in Workers
      PROVE  /\ RowLike(JustEnded(worker[w]))
             /\ worker[w].fails \in [Jobs -> Nat] /\ worker[w].job \in Jobs
  <2>1. worker[w] \in WorkerState
    BY <1>1
  <2>2. worker[w].pc = "run" => worker[w].id \in RunIds
    BY <2>1 DEF TypeInv, Identified, WorkerState
  <2> QED
    BY <2>1, <2>2 DEF RowLike, JustEnded, RunRow, WorkerState
<1>6. ASSUME NEW j \in Jobs PROVE table.status[j].fails \in Nat
  BY DEF TypeInv, TypeOK, StatusColumns
<1>7. manual.fails \in [Jobs -> Nat] /\ manual.job \in Jobs
  BY <1>1 DEF WorkerState
<1>8. ASSUME NEW n \in DOMAIN channel, channel[n].table = "status"
      PROVE  channel[n].fails \in Nat /\ channel[n].job \in Jobs
  BY <1>2, <1>8 DEF Row
<1> QED
  BY <1>3, <1>4, <1>5, <1>6, <1>7, <1>8 DEF RowLike

\* The history and the losses only grow.
LEMMA StatusStaysCounted ==
  ASSUME TypeInv, TypeInv', StatusCount, History \subseteq History', lost \subseteq lost',
         table'.status = table.status
  PROVE  StatusCount'
<1> SUFFICES ASSUME NEW j \in Jobs
             PROVE  /\ table'.status[j].fails
                         <= Cardinality(FailuresAmong(j, History' \cup {}) \cup lost')
                    /\ table'.status[j].fails > 0 <=> table'.status[j].state = "degraded"
  BY DEF StatusCount, Backed, Account
<1>1. /\ Backed(table.status[j].fails, j, {})
      /\ table.status[j].fails > 0 <=> table.status[j].state = "degraded"
  BY DEF StatusCount
<1>2. FailuresAmong(j, {}) \subseteq FailuresAmong(j, History' \cup {}) \cup lost'
  BY DEF FailuresAmong
<1> QED
  BY <1>1, <1>2, CountTypes, BackedStill

\* A step that writes no status, sends nothing and ends no worker's run, or all
\* is lost.
LEMMA CountsStay ==
  ASSUME TypeInv, TypeInv', CountInv, History \subseteq History', lost \subseteq lost',
         table'.status = table.status, ManualCount',
         \/ channel' = channel /\ \A w \in Workers : /\ worker'[w].fails = worker[w].fails
                                                     /\ \/ worker'[w].pc \in {"idle", "busy", "exited"}
                                                           /\ worker[w].pc # "run"
                                                        \/ worker'[w] = worker[w]
         \/ channel' = << >> /\ \A w \in Workers : worker'[w] = Resting
  PROVE  CountInv'
<1>1. StatusCount'
  BY StatusStaysCounted DEF CountInv
<1>2. CASE /\ channel' = channel
           /\ \A w \in Workers : /\ worker'[w].fails = worker[w].fails
                                 /\ \/ worker'[w].pc \in {"idle", "busy", "exited"}
                                       /\ worker[w].pc # "run"
                                    \/ worker'[w] = worker[w]
  <2>1. RunRowsSent' = RunRowsSent /\ \A n : RunRowsBefore(n)' = RunRowsBefore(n)
    BY <1>2 DEF RunRowsSent, RunRowsBefore, In
  <2>2. ChannelCount'
    <3> SUFFICES ASSUME NEW n \in DOMAIN channel, channel[n].table = "status"
                 PROVE  /\ channel[n].fails <= Cardinality(
                             FailuresAmong(channel[n].job, History' \cup RunRowsBefore(n))
                               \cup lost')
                        /\ Honest(channel[n].fails, channel[n].outcome)
      BY <1>2, <2>1 DEF ChannelCount, Backed, Account
    <3>1. /\ Backed(channel[n].fails, channel[n].job, RunRowsBefore(n))
          /\ Honest(channel[n].fails, channel[n].outcome)
      BY DEF CountInv, ChannelCount
    <3>2. FailuresAmong(channel[n].job, RunRowsBefore(n))
            \subseteq FailuresAmong(channel[n].job, History' \cup RunRowsBefore(n)) \cup lost'
      BY DEF FailuresAmong
    <3> QED
      BY <3>1, <3>2, CountTypes, BackedStill
  <2>3. WorkerCount'
    <3>1. ASSUME NEW w \in Workers, NEW j \in Jobs
          PROVE  worker'[w].fails[j] <= Cardinality(
                   FailuresAmong(j, History' \cup (RunRowsSent \cup JustEnded(worker'[w])))
                     \cup lost')
      <4> DEFINE rows == RunRowsSent \cup JustEnded(worker[w])
      <4>1. worker'[w].fails[j] = worker[w].fails[j] /\ worker[w].fails[j] \in Nat
        BY <1>2, CountTypes
      <4>2. JustEnded(worker'[w]) = JustEnded(worker[w])
        BY <1>2 DEF JustEnded
      <4>3. Backed(worker[w].fails[j], j, rows)
        BY DEF CountInv, WorkerCount
      <4>4. RowLike(rows)
        BY CountTypes DEF RowLike
      <4>5. FailuresAmong(j, rows) \subseteq FailuresAmong(j, History' \cup rows) \cup lost'
        BY DEF FailuresAmong
      <4> HIDE DEF rows
      <4>6. worker[w].fails[j]
              <= Cardinality(FailuresAmong(j, History' \cup rows) \cup lost')
        BY <4>1, <4>3, <4>4, <4>5, BackedStill
      <4> QED
        BY <4>1, <4>2, <4>6 DEF rows
    <3>2. ASSUME NEW w \in Workers, worker'[w].pc \in {"run", "status"}
          PROVE  Honest(worker'[w].fails[worker'[w].job], worker'[w].outcome)
      <4>1. worker'[w] = worker[w]
        BY <1>2, <3>2
      <4> QED
        BY <3>2, <4>1 DEF CountInv, WorkerCount
    <3> QED
      BY <2>1, <3>1, <3>2 DEF WorkerCount, Backed, Account
  <2> QED
    BY <1>1, <2>2, <2>3 DEF CountInv
<1>3. CASE channel' = << >> /\ \A w \in Workers : worker'[w] = Resting
  <2>1. ChannelCount'
    BY <1>3 DEF ChannelCount
  <2>2. WorkerCount'
    <3>1. ASSUME NEW w \in Workers, NEW j \in Jobs
          PROVE  Backed(worker[w].fails[j], j, RunRowsSent \cup JustEnded(worker[w]))'
      <4> DEFINE rows == (RunRowsSent \cup JustEnded(worker[w]))'
                 new == FailuresAmong(j, History' \cup rows) \cup lost'
      <4>1. worker'[w].fails[j] = 0
        <5>1. Resting.fails = [k \in Jobs |-> 0]
          BY DEF Resting
        <5> QED
          BY <1>3, <5>1
      <4>2. rows = {}
        BY <1>3, RestingType DEF RunRowsSent, JustEnded, In
      <4>3. new \subseteq RunIds
        <5>1. table'.runs \in Seq([id : RunIds, job : Jobs, outcome : Outcomes])
          BY DEF TypeInv, TypeOK
        <5>2. History' \subseteq [id : RunIds, job : Jobs, outcome : Outcomes]
          BY <5>1, HistoryRows DEF History
        <5>3. lost' \subseteq RunIds
          BY DEF TypeInv, TypeOK
        <5> QED
          BY <4>2, <5>2, <5>3 DEF FailuresAmong
      <4>4. Cardinality(new) \in Nat
        BY <4>3, RunIdsFinite
      <4> HIDE DEF rows, new
      <4>5. worker'[w].fails[j] <= Cardinality(new)
        BY <4>1, <4>4
      <4> QED
        BY <4>5 DEF Backed, Account, rows, new
    <3>2. \A w \in Workers : worker'[w].pc = "idle"
      BY <1>3, RestingType
    <3> QED
      BY <3>1, <3>2 DEF WorkerCount
  <2> QED
    BY <1>1, <2>1, <2>2 DEF CountInv
<1> QED
  BY <1>2, <1>3

LEMMA MainKeepsCount ==
  ASSUME TypeInv, TypeInv', CountInv,
         StartDaemon \/ StartFails \/ MainStep \/ Cancel \/ StopUnrecorded \/ Crash
  PROVE  CountInv'
<1>1. History' = History /\ table'.status = table.status
  BY MainWritesNoRow
<1>2. lost \subseteq lost' /\ manual' = manual
  BY DEF StartDaemon, StartFails, MainStep, Cancel, StopUnrecorded, EndDrain,
     StopGracefully, Stop, Crash
<1>3. ManualCount'
  <2>1. manual.pc = "status" => Backed(manual.fails[manual.job], manual.job, {})'
    <3> SUFFICES ASSUME manual.pc = "status"
                 PROVE  manual.fails[manual.job] <= Cardinality(
                          FailuresAmong(manual.job, History' \cup {}) \cup lost')
      BY <1>2 DEF Backed, Account
    <3>1. /\ Backed(manual.fails[manual.job], manual.job, {})
          /\ FailuresAmong(manual.job, {})
               \subseteq FailuresAmong(manual.job, History' \cup {}) \cup lost'
      BY DEF CountInv, ManualCount, FailuresAmong
    <3> QED
      BY <1>1, <1>2, <3>1, CountTypes, BackedStill
  <2> QED
    BY <1>2, <2>1 DEF CountInv, ManualCount
<1>4. CASE StartDaemon \/ Crash
  <2>1. channel' = << >> /\ \A w \in Workers : worker'[w] = Resting
    BY <1>4 DEF StartDaemon, Crash
  <2> QED
    BY <1>1, <1>2, <1>3, <2>1, CountsStay
<1>5. CASE StartFails \/ MainStep \/ Cancel \/ StopUnrecorded
  <2>1. channel' = channel /\ worker' = worker
    BY <1>5 DEF StartFails, MainStep, Cancel, StopUnrecorded, EndDrain, StopGracefully, Stop
  <2> QED
    BY <1>1, <1>2, <1>3, <2>1, CountsStay
<1> QED
  BY <1>4, <1>5

\* A worker that touches neither table nor channel.
LEMMA StillCounted ==
  ASSUME TypeInv, TypeInv', CountInv, table' = table, lost' = lost, manual' = manual,
         channel' = channel, NEW w \in Workers,
         \A v \in Workers \ {w} : worker'[v] = worker[v],
         worker'[w].fails = worker[w].fails, worker[w].pc # "run",
         worker'[w].pc \in {"idle", "busy", "exited"}
  PROVE  CountInv'
<1>1. History' = History /\ table'.status = table.status
  BY DEF History, In
<1>2. ManualCount'
  BY <1>1 DEF CountInv, ManualCount, Backed, Account
<1> QED
  BY <1>1, <1>2, CountsStay

\* The job ends: its run is nowhere else, so one failure more is accounted for.
LEMMA EndJobCounts ==
  ASSUME TypeInv, TypeInv', PlaceInv, CountInv, NEW w \in Workers,
         NEW outcome \in Outcomes, EndJob(w, outcome)
  PROVE  CountInv'
<1> DEFINE job == worker[w].job
           run == RunRow(worker'[w])
<1>1. /\ table' = table /\ lost' = lost /\ manual' = manual /\ channel' = channel
      /\ \A v \in Workers \ {w} : worker'[v] = worker[v]
      /\ worker[w].pc = "busy" /\ worker'[w].pc = "run" /\ worker'[w].id = worker[w].id
  BY JobEnds DEF EndJob
<1>2. /\ worker'[w].job = job /\ worker'[w].outcome = outcome
      /\ worker'[w].fails = Counted(worker[w].fails, job, outcome)
      /\ worker[w] \in WorkerState /\ worker[w].id \in RunIds
  <2>1. worker[w] \in WorkerState
    BY DEF TypeInv, TypeOK
  <2>2. worker'[w] = [worker[w] EXCEPT !.pc = "run", !.outcome = outcome,
                                       !.fails = Counted(@, worker[w].job, outcome)]
    BY DEF EndJob, TypeInv, TypeOK
  <2>3. worker[w].id \in RunIds
    BY <1>1, <2>1 DEF TypeInv, Identified, WorkerState
  <2> QED
    BY <2>1, <2>2, <2>3 DEF WorkerState
<1>3. /\ run.id = worker[w].id /\ run.job = job /\ run.outcome = outcome
      /\ JustEnded(worker'[w]) = {run} /\ JustEnded(worker[w]) = {}
  BY <1>1, <1>2 DEF RunRow, JustEnded
<1>4. /\ History' = History /\ RunRowsSent' = RunRowsSent
      /\ \A n : RunRowsBefore(n)' = RunRowsBefore(n)
  BY <1>1 DEF History, RunRowsSent, RunRowsBefore, In
<1>5. StatusCount' /\ ChannelCount' /\ ManualCount'
  BY <1>1, <1>4
  DEF CountInv, StatusCount, ChannelCount, ManualCount, Backed, Account
<1>6. run.id \notin Account(job, RunRowsSent)
  <2>1. run.id \in Held
    BY <1>1, <1>3 DEF Held
  <2>2. run.id \notin Recorded \cup lost \cup Sent
    BY <2>1 DEF PlaceInv, Apart, Unsettled
  <2>3. \A x \in History : x.id \in Recorded
    BY DEF History, In, Recorded
  <2>4. \A x \in RunRowsSent : x.id \in Sent
    BY HeldByQueues DEF RunRowsSent
  <2> QED
    BY <2>2, <2>3, <2>4 DEF Account, FailuresAmong
<1>7. job \in Jobs /\ worker[w].fails \in [Jobs -> Nat]
  BY CountTypes
<1>8. RowLike(RunRowsSent) /\ RowLike({run}) /\ RowLike(RunRowsSent \cup {run})
  BY <1>2, <1>3, CountTypes DEF RowLike
<1>9. \A j \in Jobs : Backed(worker[w].fails[j], j, RunRowsSent)
  BY <1>3 DEF CountInv, WorkerCount
<1> HIDE DEF job, run
<1>10. ASSUME NEW j \in Jobs
       PROVE  worker'[w].fails[j] <= Cardinality(Account(j, RunRowsSent \cup {run}))
  <2>1. CASE j = job /\ outcome = "failure"
    <3>1. worker'[w].fails[j] = worker[w].fails[j] + 1
      BY <1>2, <1>7, <2>1 DEF Counted
    <3>2. Backed(worker[w].fails[j] + 1, j, RunRowsSent \cup {run})
      BY <1>2, <1>3, <1>6, <1>7, <1>8, <1>9, <2>1, OneMoreBacked
    <3> QED
      BY <3>1, <3>2 DEF Backed
  <2>2. CASE j = job /\ outcome # "failure"
    <3>1. worker'[w].fails[j] = 0
      BY <1>2, <1>7, <2>2 DEF Counted
    <3>2. Cardinality(Account(j, RunRowsSent \cup {run})) \in Nat
      BY <1>8, AccountType
    <3> QED
      BY <3>1, <3>2
  <2>3. CASE j # job
    <3>1. worker'[w].fails[j] = worker[w].fails[j] /\ worker[w].fails[j] \in Nat
      BY <1>2, <1>7, <2>3 DEF Counted
    <3>2. Account(j, RunRowsSent) \subseteq Account(j, RunRowsSent \cup {run})
      BY DEF Account, FailuresAmong
    <3>3. /\ Cardinality(Account(j, RunRowsSent)) \in Nat
          /\ Cardinality(Account(j, RunRowsSent \cup {run})) \in Nat
          /\ Cardinality(Account(j, RunRowsSent))
               <= Cardinality(Account(j, RunRowsSent \cup {run}))
      BY <1>8, <3>2, AccountType, FS_Subset
    <3>4. worker[w].fails[j] <= Cardinality(Account(j, RunRowsSent))
      BY <1>9 DEF Backed
    <3> QED
      BY <3>1, <3>3, <3>4
  <2> QED
    BY <2>1, <2>2, <2>3
<1>11. Honest(worker'[w].fails[worker'[w].job], worker'[w].outcome)
  <2>1. worker'[w].fails[job] = IF outcome = "failure" THEN worker[w].fails[job] + 1 ELSE 0
    BY <1>2, <1>7 DEF Counted
  <2> QED
    BY <1>2, <1>7, <2>1 DEF Honest
<1>12. WorkerCount'
  <2>1. ASSUME NEW v \in Workers, v # w
        PROVE  /\ \A j \in Jobs :
                    Backed(worker[v].fails[j], j, RunRowsSent \cup JustEnded(worker[v]))'
               /\ worker'[v].pc \in {"run", "status"} =>
                    Honest(worker'[v].fails[worker'[v].job], worker'[v].outcome)
    BY <1>1, <1>4, <2>1 DEF CountInv, WorkerCount, Backed, Account
  <2>2. \A j \in Jobs :
          Backed(worker[w].fails[j], j, RunRowsSent \cup JustEnded(worker[w]))'
    BY <1>1, <1>3, <1>4, <1>10 DEF Backed, Account
  <2> QED
    BY <1>11, <2>1, <2>2 DEF WorkerCount
<1> QED
  BY <1>5, <1>12 DEF CountInv

\* A row joins the channel: the row of a worker's run, or a status backed by
\* the rows sent before it.
LEMMA SentCounts ==
  ASSUME TypeInv, TypeInv', CountInv, NEW w \in Workers, NEW row \in Row,
         channel' = Append(channel, row), table' = table, lost' = lost, manual' = manual,
         \A v \in Workers \ {w} : worker'[v] = worker[v],
         worker'[w].fails = worker[w].fails, worker'[w].pc # "run",
         JustEnded(worker[w]) = IF row.table = "runs" THEN {row} ELSE {},
         row.table = "status" => /\ Backed(row.fails, row.job, RunRowsSent)
                                 /\ Honest(row.fails, row.outcome),
         worker'[w].pc = "status" => Honest(worker'[w].fails[worker'[w].job],
                                            worker'[w].outcome)
  PROVE  CountInv'
<1>1. /\ DOMAIN channel' = DOMAIN channel \cup {Len(channel) + 1}
      /\ channel'[Len(channel) + 1] = row
      /\ \A n \in DOMAIN channel : channel'[n] = channel[n] /\ n < Len(channel) + 1 /\ n \in Nat
      /\ Len(channel) \in Nat
  <2>1. channel \in Seq(Row)
    BY DEF TypeInv, TypeOK
  <2>2. /\ channel' \in Seq(Row) /\ Len(channel') = Len(channel) + 1
        /\ channel'[Len(channel) + 1] = row
        /\ \A n \in 1..Len(channel) : channel'[n] = channel[n]
    BY <2>1, AppendProperties
  <2>3. DOMAIN channel = 1..Len(channel) /\ DOMAIN channel' = 1..Len(channel')
        /\ Len(channel) \in Nat
    BY <2>1, <2>2, LenProperties
  <2> QED
    BY <2>2, <2>3
<1>2. In(channel') = In(channel) \cup {row}
  <2>1. channel \in Seq(Row)
    BY DEF TypeInv, TypeOK
  <2> QED
    BY <2>1, AppendHolds DEF In
<1>3. /\ RunRowsSent' = RunRowsSent \cup (IF row.table = "runs" THEN {row} ELSE {})
      /\ History' = History
  BY <1>2 DEF RunRowsSent, History
<1>4. /\ \A n \in DOMAIN channel : RunRowsBefore(n)' = RunRowsBefore(n)
      /\ \A n : n = Len(channel) + 1 => RunRowsBefore(n)' = RunRowsSent
  <2>1. ASSUME NEW n \in DOMAIN channel PROVE RunRowsBefore(n)' = RunRowsBefore(n)
    <3>1. \A m : m \in DOMAIN channel' /\ m < n <=> m \in DOMAIN channel /\ m < n
      BY <1>1
    <3> QED
      BY <1>1, <3>1 DEF RunRowsBefore
  <2>2. \A m : m \in DOMAIN channel' /\ m < Len(channel) + 1 <=> m \in DOMAIN channel
    BY <1>1
  <2>3. ASSUME NEW n, n = Len(channel) + 1
        PROVE  RunRowsBefore(n)'
                 = {channel[m] : m \in {k \in DOMAIN channel : channel[k].table = "runs"}}
    BY <1>1, <2>2, <2>3 DEF RunRowsBefore
  <2>4. {channel[m] : m \in {k \in DOMAIN channel : channel[k].table = "runs"}}
          = RunRowsSent
    BY DEF RunRowsSent, In
  <2> QED
    BY <2>1, <2>3, <2>4
<1>5. StatusCount' /\ ManualCount'
  BY <1>3 DEF CountInv, StatusCount, ManualCount, Backed, Account
<1>6. ChannelCount'
  <2> SUFFICES ASSUME NEW n \in DOMAIN channel', channel'[n].table = "status"
               PROVE  /\ Backed(channel[n].fails, channel[n].job, RunRowsBefore(n))'
                      /\ Honest(channel'[n].fails, channel'[n].outcome)
    BY DEF ChannelCount, Honest
  <2>1. CASE n \in DOMAIN channel
    <3>1. channel'[n] = channel[n] /\ RunRowsBefore(n)' = RunRowsBefore(n)
      BY <1>1, <1>4, <2>1
    <3>2. /\ Backed(channel[n].fails, channel[n].job, RunRowsBefore(n))
          /\ Honest(channel[n].fails, channel[n].outcome)
      BY <2>1, <3>1 DEF CountInv, ChannelCount
    <3> QED
      BY <1>3, <3>1, <3>2 DEF Backed, Account
  <2>2. CASE n \notin DOMAIN channel
    <3>1. n = Len(channel) + 1 /\ channel'[n] = row
      BY <1>1, <2>2
    <3>2. RunRowsBefore(n)' = RunRowsSent
      BY <1>4, <3>1
    <3>3. Backed(row.fails, row.job, RunRowsSent) /\ Honest(row.fails, row.outcome)
      BY <3>1
    <3> QED
      BY <1>3, <3>1, <3>2, <3>3 DEF Backed, Account
  <2> QED
    BY <2>1, <2>2
<1>7. WorkerCount'
  <2>1. ASSUME NEW v \in Workers, NEW j \in Jobs
        PROVE  Backed(worker[v].fails[j], j, RunRowsSent \cup JustEnded(worker[v]))'
    <3> DEFINE rows == RunRowsSent \cup JustEnded(worker[v])
               more == (RunRowsSent \cup JustEnded(worker[v]))'
    <3>1. worker'[v].fails[j] = worker[v].fails[j] /\ worker[v].fails[j] \in Nat
      BY CountTypes
    <3>2. rows \subseteq more
      BY <1>3 DEF JustEnded
    <3>3. RowLike(rows) /\ RowLike(more)
      <4>1. RowLike(RunRowsSent) /\ RowLike(JustEnded(worker[v]))
        BY CountTypes
      <4>2. RowLike(RunRowsSent') /\ RowLike(JustEnded(worker'[v]))
        <5>1. row.id \in RunIds
          BY DEF Row
        <5>2. RowLike(RunRowsSent')
          BY <1>3, <4>1, <5>1 DEF RowLike
        <5>3. RowLike(JustEnded(worker'[v]))
          BY <4>1 DEF JustEnded, RowLike
        <5> QED
          BY <5>2, <5>3
      <4> QED
        BY <4>1, <4>2 DEF RowLike
    <3>4. Backed(worker[v].fails[j], j, rows)
      BY DEF CountInv, WorkerCount
    <3>5. FailuresAmong(j, rows) \subseteq FailuresAmong(j, History' \cup more) \cup lost'
      BY <3>2 DEF FailuresAmong
    <3> HIDE DEF rows, more
    <3>6. worker[v].fails[j]
            <= Cardinality(FailuresAmong(j, History' \cup more) \cup lost')
      BY <1>3, <3>1, <3>3, <3>4, <3>5, BackedStill
    <3> QED
      BY <3>1, <3>6 DEF Backed, Account, more
  <2>2. ASSUME NEW v \in Workers, worker'[v].pc \in {"run", "status"}
        PROVE  Honest(worker'[v].fails[worker'[v].job], worker'[v].outcome)
    <3>1. CASE v = w
      BY <2>2, <3>1
    <3>2. CASE v # w
      <4>1. worker'[v] = worker[v]
        BY <3>2
      <4> QED
        BY <2>2, <4>1 DEF CountInv, WorkerCount
    <3> QED
      BY <3>1, <3>2
  <2> QED
    BY <2>1, <2>2 DEF WorkerCount, Honest
<1> QED
  BY <1>5, <1>6, <1>7 DEF CountInv

LEMMA WorkerKeepsCount ==
  ASSUME TypeInv, TypeInv', PlaceInv, CountInv, NEW w \in Workers, WorkerStep(w)
  PROVE  CountInv'
<1>0. worker \in [Workers -> WorkerState]
  BY DEF TypeInv, TypeOK
<1>1. table' = table /\ lost' = lost /\ manual' = manual
  BY DEF WorkerStep, Take, SendRun, SendStatus, Send, Exit, EndJob
<1>2. CASE Take(w) \/ Exit(w)
  <2>1. /\ channel' = channel /\ worker'[w].fails = worker[w].fails /\ worker[w].pc # "run"
        /\ worker'[w].pc \in {"idle", "busy", "exited"}
        /\ \A v \in Workers \ {w} : worker'[v] = worker[v]
    BY <1>0, <1>2 DEF Take, Exit, WorkerState
  <2> QED
    BY <1>1, <2>1, StillCounted
<1>3. CASE SendRun(w)
  <2> DEFINE row == RunRow(worker[w])
  <2>1. /\ row \in Row /\ channel' = Append(channel, row) /\ worker[w].pc = "run"
        /\ worker'[w] = [worker[w] EXCEPT !.pc = "status"]
        /\ \A v \in Workers \ {w} : worker'[v] = worker[v]
    BY <1>3, RunSent DEF TypeInv, TypeOK, SendRun, Send
  <2>2. row.table = "runs" /\ JustEnded(worker[w]) = {row}
    BY <2>1 DEF RunRow, JustEnded
  <2>3. /\ worker'[w].fails = worker[w].fails /\ worker'[w].pc = "status"
        /\ worker'[w].job = worker[w].job /\ worker'[w].outcome = worker[w].outcome
    BY <1>0, <2>1 DEF WorkerState
  <2>4. Honest(worker'[w].fails[worker'[w].job], worker'[w].outcome)
    BY <2>1, <2>3 DEF CountInv, WorkerCount
  <2> HIDE DEF row
  <2> QED
    BY <1>1, <2>1, <2>2, <2>3, <2>4, SentCounts
<1>4. CASE SendStatus(w)
  <2> DEFINE row == StatusRow(worker[w])
  <2>1. /\ row \in Row /\ channel' = Append(channel, row)
        /\ worker[w].pc = "status" /\ worker'[w].pc = "idle"
        /\ \A v \in Workers \ {w} : worker'[v] = worker[v]
    BY <1>4, StatusSent DEF TypeInv, TypeOK
  <2>2. worker'[w].fails = worker[w].fails
    BY <1>0, <1>4 DEF SendStatus, Send, Resting, WorkerState
  <2>3. /\ row.table = "status" /\ row.fails = worker[w].fails[worker[w].job]
        /\ row.job = worker[w].job /\ row.outcome = worker[w].outcome
        /\ JustEnded(worker[w]) = {}
    BY <2>1 DEF StatusRow, JustEnded
  <2>4. Backed(worker[w].fails[worker[w].job], worker[w].job, RunRowsSent \cup {})
    BY <2>3, CountTypes DEF CountInv, WorkerCount
  <2>5. RunRowsSent \cup {} = RunRowsSent
    OBVIOUS
  <2>6. Honest(worker[w].fails[worker[w].job], worker[w].outcome)
    BY <2>1 DEF CountInv, WorkerCount
  <2> HIDE DEF row
  <2>7. Backed(row.fails, row.job, RunRowsSent) /\ Honest(row.fails, row.outcome)
    BY <2>3, <2>4, <2>5, <2>6
  <2> QED
    BY <1>1, <2>1, <2>2, <2>3, <2>7, SentCounts
<1> QED
  BY <1>2, <1>3, <1>4, EndJobCounts DEF WorkerStep

\* A backed count is written.
LEMMA StatusCountWritten ==
  ASSUME table \in Tables, StatusCount, NEW row \in Row, row.table = "status",
         Backed(row.fails, row.job, {}), Honest(row.fails, row.outcome),
         table' = Written(row), lost' = lost
  PROVE  StatusCount' /\ History' = History
<1>1. /\ table'.runs = table.runs
      /\ table'.status = [table.status EXCEPT ![row.job] = Upserted(@, row)]
      /\ table.status \in [Jobs -> StatusColumns]
  BY DEF Written, Tables
<1>2. History' = History
  BY <1>1 DEF History, In
<1>3. /\ table'.status[row.job].fails = row.fails /\ row.job \in Jobs
      /\ row.outcome = "failure" <=> table'.status[row.job].state = "degraded"
      /\ \A j \in Jobs : j # row.job => table'.status[j] = table.status[j]
  BY <1>1 DEF Row, Upserted
<1> QED
  BY <1>2, <1>3 DEF StatusCount, Backed, Account, Honest

\* The oldest row has left the channel for the history or the losses.
LEMMA HeadAccounted ==
  ASSUME NEW j, NEW head, NEW rows, NEW more,
         rows \subseteq more \cup (IF head.table = "runs" THEN {head} ELSE {}),
         head.table = "runs" => head.id \in lost' \/ EndOf(head) \in History'
  PROVE  FailuresAmong(j, rows) \subseteq FailuresAmong(j, History' \cup more) \cup lost'
<1> SUFFICES ASSUME NEW x \in rows, x.job = j, x.outcome = "failure"
             PROVE  x.id \in FailuresAmong(j, History' \cup more) \cup lost'
  BY DEF FailuresAmong
<1>1. CASE x \in more
  BY <1>1 DEF FailuresAmong
<1>2. CASE x \notin more
  <2>1. x = head /\ head.table = "runs"
    BY <1>2
  <2>2. EndOf(head).id = x.id /\ EndOf(head).job = j /\ EndOf(head).outcome = "failure"
    BY <2>1 DEF EndOf
  <2>3. EndOf(head) \in History' => x.id \in FailuresAmong(j, History' \cup more)
    BY <2>2 DEF FailuresAmong
  <2> QED
    BY <2>1, <2>3
<1> QED
  BY <1>1, <1>2

LEMMA WriterKeepsCount ==
  ASSUME TypeInv, TypeInv', CountInv, WriteRow \/ WriteFails PROVE CountInv'
<1> DEFINE head == Head(channel)
           headRun == IF head.table = "runs" THEN {head} ELSE {}
<1>1. channel # << >> /\ channel' = Tail(channel) /\ channel \in Seq(Row) /\ head \in Row
  BY QueueTypes DEF WriteRow, WriteFails, TypeInv, TypeOK
<1>2. worker' = worker /\ manual' = manual /\ table \in Tables
  BY DEF WriteRow, WriteFails, TypeInv, TypeOK, Tables
<1>3. /\ 1 \in DOMAIN channel /\ channel[1] = head
      /\ \A n \in DOMAIN channel : n \in Nat /\ n >= 1
      /\ \A n \in DOMAIN channel' : /\ n \in Nat /\ n + 1 \in DOMAIN channel
                                    /\ channel'[n] = channel[n + 1]
      /\ \A m \in DOMAIN channel : m # 1 => /\ m - 1 \in DOMAIN channel'
                                            /\ channel'[m - 1] = channel[m]
  <2>1. /\ channel' \in Seq(Row) /\ Len(channel') = Len(channel) - 1
        /\ \A n \in 1..Len(channel') : channel'[n] = channel[n + 1]
    BY <1>1, HeadTailProperties
  <2>2. DOMAIN channel = 1..Len(channel) /\ DOMAIN channel' = 1..Len(channel')
        /\ Len(channel) \in Nat
    BY <1>1, <2>1, LenProperties
  <2>3. Len(channel) >= 1 /\ channel[1] = head
    BY <1>1, <2>2, EmptySeq
  <2> HIDE DEF head
  <2> QED
    BY <2>1, <2>2, <2>3
<1>4. RunRowsSent \subseteq RunRowsSent' \cup headRun
  <2>1. In(channel) = {Head(channel)} \cup In(Tail(channel))
    BY <1>1, TailHolds, Zenon DEF In
  <2>2. In(channel) = {head} \cup In(channel')
    BY <1>1, <2>1
  <2> HIDE DEF head
  <2> QED
    BY <2>2 DEF RunRowsSent
<1>5. \A n \in DOMAIN channel' : \A k : k = n + 1 =>
        RunRowsBefore(k) \subseteq RunRowsBefore(n)' \cup headRun
  <2> SUFFICES ASSUME NEW n \in DOMAIN channel', NEW m \in DOMAIN channel, m < n + 1,
                      channel[m].table = "runs"
               PROVE  channel[m] \in RunRowsBefore(n)' \cup headRun
    BY DEF RunRowsBefore
  <2>1. CASE m = 1
    BY <1>3, <2>1
  <2>2. CASE m # 1
    <3>1. m - 1 \in DOMAIN channel' /\ channel'[m - 1] = channel[m] /\ m - 1 < n
      BY <1>3, <2>2
    <3> QED
      BY <3>1 DEF RunRowsBefore
  <2> QED
    BY <2>1, <2>2
<1>6. head.table = "status" =>
        Backed(head.fails, head.job, {}) /\ Honest(head.fails, head.outcome)
  <2>1. RunRowsBefore(1) = {}
    BY <1>3 DEF RunRowsBefore
  <2> QED
    BY <1>3, <2>1 DEF CountInv, ChannelCount
<1> HIDE DEF head
<1>7. /\ History \subseteq History' /\ lost \subseteq lost' /\ StatusCount'
      /\ head.table = "runs" => head.id \in lost' \/ EndOf(head) \in History'
  <2>1. CASE WriteRow
    <3>1. table' = Written(head) /\ lost' = lost
      BY <2>1 DEF WriteRow, head
    <3>2. CASE head.table = "runs"
      <4>1. History' = History \cup {EndOf(head)} /\ table'.status = table.status
        BY <1>1, <1>2, <3>1, <3>2, HistoryWritten
      <4> QED
        BY <3>1, <4>1, StatusStaysCounted DEF CountInv
    <3>3. CASE head.table # "runs"
      <4>1. head.table = "status"
        BY <1>1, <3>3 DEF Row
      <4> QED
        BY <1>1, <1>2, <1>6, <3>1, <3>3, <4>1, StatusCountWritten DEF CountInv
    <3> QED
      BY <3>2, <3>3
  <2>2. CASE WriteFails
    <3>1. table' = table /\ lost \subseteq lost' /\ (head.table = "runs" => head.id \in lost')
      BY <2>2 DEF WriteFails, head
    <3>2. History' = History
      BY <3>1 DEF History, In
    <3> QED
      BY <3>1, <3>2, StatusStaysCounted DEF CountInv
  <2> QED
    BY <2>1, <2>2
\* What was backed is backed by what is left of the rows.
<1>8. ASSUME NEW j, NEW fails \in Nat, NEW rows, NEW more, RowLike(rows), RowLike(more),
             Backed(fails, j, rows), rows \subseteq more \cup headRun
      PROVE  fails <= Cardinality(FailuresAmong(j, History' \cup more) \cup lost')
  <2>1. FailuresAmong(j, rows) \subseteq FailuresAmong(j, History' \cup more) \cup lost'
    BY <1>7, <1>8, HeadAccounted
  <2> HIDE DEF headRun
  <2> QED
    BY <1>7, <1>8, <2>1, BackedStill
<1> HIDE DEF headRun
<1>9. RowLike(RunRowsSent') /\ \A n : RowLike(RunRowsBefore(n)')
  <2>1. In(channel') \subseteq In(channel)
    BY <1>3 DEF In
  <2>2. RunRowsSent' \subseteq RunRowsSent /\ \A n : RunRowsBefore(n)' \subseteq RunRowsSent'
    BY <2>1 DEF RunRowsSent, RunRowsBefore, In
  <2> QED
    BY <2>2, CountTypes DEF RowLike
<1>10. ChannelCount'
  <2> SUFFICES ASSUME NEW n \in DOMAIN channel', channel'[n].table = "status"
               PROVE  /\ Backed(channel[n].fails, channel[n].job, RunRowsBefore(n))'
                      /\ Honest(channel'[n].fails, channel'[n].outcome)
    BY DEF ChannelCount, Honest
  <2> DEFINE row == channel'[n]
             rows == RunRowsBefore(n + 1)
             more == RunRowsBefore(n)'
  <2>1. n + 1 \in DOMAIN channel /\ row = channel[n + 1]
    BY <1>3
  <2>2. Backed(row.fails, row.job, rows) /\ Honest(row.fails, row.outcome)
    BY <2>1 DEF CountInv, ChannelCount
  <2>3. row.fails \in Nat
    BY <2>1, CountTypes
  <2>4. RowLike(rows) /\ RowLike(more) /\ rows \subseteq more \cup headRun
    BY <1>5, <1>9, CountTypes
  <2>5. Backed(channel[n].fails, channel[n].job, RunRowsBefore(n))'
          <=> row.fails <= Cardinality(FailuresAmong(row.job, History' \cup more) \cup lost')
    BY DEF Backed, Account
  <2> HIDE DEF row, rows, more
  <2>6. row.fails <= Cardinality(FailuresAmong(row.job, History' \cup more) \cup lost')
    BY <1>8, <2>2, <2>3, <2>4
  <2> QED
    BY <2>2, <2>5, <2>6 DEF row
<1>11. WorkerCount'
  <2>1. ASSUME NEW w \in Workers, NEW j \in Jobs
        PROVE  Backed(worker[w].fails[j], j, RunRowsSent \cup JustEnded(worker[w]))'
    <3> DEFINE fails == worker[w].fails[j]
               rows == RunRowsSent \cup JustEnded(worker[w])
               more == RunRowsSent' \cup JustEnded(worker[w])
    <3>1. Backed(fails, j, rows) /\ fails \in Nat
      BY CountTypes DEF CountInv, WorkerCount
    <3>2. RowLike(rows) /\ RowLike(more) /\ rows \subseteq more \cup headRun
      BY <1>4, <1>9, CountTypes DEF RowLike
    <3>3. Backed(worker[w].fails[j], j, RunRowsSent \cup JustEnded(worker[w]))'
            <=> fails <= Cardinality(FailuresAmong(j, History' \cup more) \cup lost')
      BY <1>2 DEF Backed, Account
    <3> HIDE DEF fails, rows, more
    <3>4. fails <= Cardinality(FailuresAmong(j, History' \cup more) \cup lost')
      BY <1>8, <3>1, <3>2
    <3> QED
      BY <3>3, <3>4
  <2> QED
    BY <1>2, <2>1 DEF CountInv, WorkerCount
<1>12. ManualCount'
  <2>1. ASSUME manual.pc = "status"
        PROVE  Backed(manual.fails[manual.job], manual.job, {})'
    <3>1. /\ Backed(manual.fails[manual.job], manual.job, {})
          /\ manual.fails[manual.job] \in Nat /\ RowLike({})
      BY <2>1, CountTypes DEF CountInv, ManualCount
    <3>2. manual.fails[manual.job] <= Cardinality(
            FailuresAmong(manual.job, History' \cup {}) \cup lost')
      BY <1>8, <3>1
    <3> QED
      BY <1>2, <3>2 DEF Backed, Account
  <2> QED
    BY <1>2, <2>1 DEF CountInv, ManualCount
<1> QED
  BY <1>7, <1>10, <1>11, <1>12 DEF CountInv

LEMMA ManualKeepsCount ==
  ASSUME TypeInv, TypeInv', CountInv, ManualStep \/ EndEarly \/ \E j \in Jobs : RunJob(j)
  PROVE  CountInv'
<1>1. worker' = worker /\ channel' = channel /\ lost' = lost
  BY DEF ManualStep, SaveManual, EndManual, EndEarly, RunJob
<1>2. CASE EndEarly \/ (\E j \in Jobs : RunJob(j)) \/ \E o \in Outcomes : EndManual(o)
  <2>1. table' = table
    BY <1>2 DEF EndEarly, RunJob, EndManual
  <2>2. History' = History
    BY <2>1 DEF History, In
  <2>3. ManualCount'
    <3>1. CASE EndEarly
      BY <3>1, RestingType DEF EndEarly, ManualCount
    <3>2. ASSUME NEW j \in Jobs, RunJob(j) PROVE ManualCount'
      <4>1. manual'.pc = "busy" /\ manual'.job = j /\ manual'.fails = [k \in Jobs |-> 0]
        BY <3>2 DEF RunJob, Resting
      <4> QED
        BY <4>1 DEF ManualCount
    <3>3. ASSUME NEW o \in Outcomes, EndManual(o) PROVE ManualCount'
      <4>1. /\ manual'.pc = "run" /\ manual'.job = manual.job /\ manual'.outcome = o
            /\ manual'.fails = Counted(manual.fails, manual.job, o) /\ manual.pc = "busy"
        BY <3>3 DEF EndManual, TypeInv, TypeOK, WorkerState
      <4>2. manual.fails[manual.job] = 0 /\ manual.fails \in [Jobs -> Nat] /\ manual.job \in Jobs
        BY <4>1, CountTypes DEF CountInv, ManualCount
      <4>3. manual'.fails[manual'.job] = IF o = "failure" THEN 1 ELSE 0
        BY <4>1, <4>2 DEF Counted
      <4> QED
        BY <4>1, <4>3 DEF ManualCount, Honest
    <3> QED
      BY <1>2, <3>1, <3>2, <3>3
  <2> QED
    BY <1>1, <2>1, <2>2, <2>3, CountsStay
<1>3. CASE SaveManual
  <2>1. /\ manual \in WorkerState /\ manual.id # NoRun /\ table \in Tables
        /\ RunRow(manual) \in Row /\ StatusRow(manual) \in Row
    BY <1>3, RowType DEF SaveManual, TypeInv, TypeOK, Identified, Tables
  <2>2. CASE manual.pc = "run"
    <3>1. table' = Written(RunRow(manual)) /\ manual' = [manual EXCEPT !.pc = "status"]
      BY <1>3, <2>2 DEF SaveManual
    <3>2. RunRow(manual).table = "runs" /\ EndOf(RunRow(manual)) = EndOf(manual)
      BY DEF RunRow, EndOf
    <3>3. History' = History \cup {EndOf(manual)} /\ table'.status = table.status
      BY <2>1, <3>1, <3>2, HistoryWritten
    <3>4. /\ manual'.pc = "status" /\ manual'.fails = manual.fails
          /\ manual'.job = manual.job /\ manual'.outcome = manual.outcome
      BY <2>1, <3>1 DEF WorkerState
    <3>5. /\ manual.fails[manual.job] <= 1 /\ manual.fails[manual.job] \in Nat
          /\ Honest(manual.fails[manual.job], manual.outcome)
      BY <2>2, CountTypes DEF CountInv, ManualCount
    <3>6. manual.fails[manual.job]
            <= Cardinality(FailuresAmong(manual.job, History' \cup {}) \cup lost')
      <4> DEFINE new == FailuresAmong(manual.job, History' \cup {}) \cup lost'
      <4>1. new \subseteq RunIds
        <5>1. table'.runs \in Seq([id : RunIds, job : Jobs, outcome : Outcomes])
          BY DEF TypeInv, TypeOK
        <5>2. History' \subseteq [id : RunIds, job : Jobs, outcome : Outcomes]
          BY <5>1, HistoryRows DEF History
        <5>3. lost' \subseteq RunIds
          BY DEF TypeInv, TypeOK
        <5> QED
          BY <5>2, <5>3 DEF FailuresAmong
      <4>2. IsFiniteSet(new) /\ Cardinality(new) \in Nat
        BY <4>1, RunIdsFinite
      <4>3. CASE manual.outcome = "failure"
        <5>1. manual.id \in new
          <6>1. /\ EndOf(manual).id = manual.id /\ EndOf(manual).job = manual.job
                /\ EndOf(manual).outcome = "failure"
            BY <4>3 DEF EndOf
          <6>2. EndOf(manual) \in History' \cup {}
            BY <3>3
          <6> QED
            BY <6>1, <6>2 DEF FailuresAmong
        <5> HIDE DEF new
        <5>2. Cardinality(new) # 0
          BY <4>2, <5>1, FS_EmptySet
        <5>3. manual.fails[manual.job] <= Cardinality(new)
          BY <3>5, <4>2, <5>2
        <5> QED
          BY <5>3 DEF new
      <4>4. CASE manual.outcome # "failure"
        <5> HIDE DEF new
        <5>1. manual.fails[manual.job] = 0
          BY <3>5, <4>4 DEF Honest
        <5>2. manual.fails[manual.job] <= Cardinality(new)
          BY <4>2, <5>1
        <5> QED
          BY <5>2 DEF new
      <4> QED
        BY <4>3, <4>4
    <3>7. ManualCount'
      BY <3>4, <3>5, <3>6 DEF ManualCount, Backed, Account
    <3> QED
      BY <1>1, <3>3, <3>7, CountsStay
  <2>3. CASE manual.pc # "run"
    <3>1. table' = Written(StatusRow(manual)) /\ manual' = Resting /\ manual.pc = "status"
      BY <1>3, <2>3 DEF SaveManual
    <3>2. /\ StatusRow(manual).table = "status" /\ StatusRow(manual).job = manual.job
          /\ StatusRow(manual).fails = manual.fails[manual.job]
          /\ StatusRow(manual).outcome = manual.outcome
      BY DEF StatusRow
    <3>3. /\ Backed(manual.fails[manual.job], manual.job, {})
          /\ Honest(manual.fails[manual.job], manual.outcome)
      BY <3>1 DEF CountInv, ManualCount
    <3>4. StatusCount' /\ History' = History
      BY <1>1, <2>1, <3>1, <3>2, <3>3, StatusCountWritten DEF CountInv
    <3>5. /\ RunRowsSent' = RunRowsSent
          /\ \A n : RunRowsBefore(n)' = RunRowsBefore(n)
      BY <1>1 DEF RunRowsSent, RunRowsBefore, In
    <3>6. ChannelCount' /\ WorkerCount'
      BY <1>1, <3>4, <3>5 DEF CountInv, ChannelCount, WorkerCount, Backed, Account
    <3>7. ManualCount'
      BY <3>1, RestingType DEF ManualCount
    <3> QED
      BY <3>4, <3>6, <3>7 DEF CountInv
  <2> QED
    BY <2>2, <2>3
<1> QED
  BY <1>2, <1>3 DEF ManualStep

LEMMA NextKeepsCount ==
  ASSUME TypeInv, TypeInv', PlaceInv, CountInv, [Next]_vars PROVE CountInv'
<1>1. ASSUME UNCHANGED <<worker, channel, manual, table, lost>> PROVE CountInv'
  <2>1. History' = History
    BY <1>1 DEF History, In
  <2>2. ManualCount'
    BY <1>1, <2>1 DEF CountInv, ManualCount, Backed, Account
  <2> QED
    BY <1>1, <2>1, <2>2, CountsStay
<1>2. CASE UNCHANGED vars
  BY <1>1, <1>2 DEF vars
<1>3. ASSUME NEW j \in Jobs, Fire(j) PROVE CountInv'
  BY <1>1, <1>3 DEF Fire
<1>4. CASE Next
  BY <1>3, <1>4, MainKeepsCount, WorkerKeepsCount, WriterKeepsCount, ManualKeepsCount
  DEF Next
<1> QED
  BY <1>2, <1>4

\* Whatever workers and commands run a job, and however often the daemon starts
\* over: the status row counts no failure that is neither in the history nor
\* lost to a failed write or a crash, and none once a run did not fail.
THEOREM StatusCountsNoMore == Spec => []StatusNeverOvercounts
<1>1. Init => CountInv
  <2> SUFFICES ASSUME Init PROVE CountInv
    OBVIOUS
  <2>0. /\ History = {} /\ lost = {} /\ channel = << >> /\ manual = Resting
        /\ \A w \in Workers : worker[w] = Resting
        /\ \A j \in Jobs : table.status[j] = NoStatus
    BY DEF Init, History, In
  <2>1. /\ History = {} /\ lost = {} /\ channel = << >> /\ manual = Resting
        /\ \A w \in Workers : worker[w] = Resting
    BY <2>0
  <2>2. ASSUME NEW j PROVE Backed(0, j, {})
    <3>1. Account(j, {}) = {}
      BY <2>1 DEF Account, FailuresAmong
    <3>2. Cardinality({}) = 0
      BY FS_EmptySet
    <3> QED
      BY <3>1, <3>2 DEF Backed
  <2>3. StatusCount
    <3> SUFFICES ASSUME NEW j \in Jobs
                 PROVE  /\ Backed(table.status[j].fails, j, {})
                        /\ table.status[j].fails > 0 <=> table.status[j].state = "degraded"
      BY DEF StatusCount
    <3>1. table.status[j].fails = 0 /\ table.status[j].state # "degraded"
      <4>1. NoStatus.fails = 0 /\ NoStatus.state # "degraded"
        BY DEF NoStatus
      <4>2. table.status[j] = NoStatus
        BY <2>0
      <4> QED
        BY <4>1, <4>2
    <3> QED
      BY <2>2, <3>1
  <2>4. ChannelCount /\ RunRowsSent = {}
    BY <2>1 DEF ChannelCount, RunRowsSent, In
  <2>5. Resting.pc = "idle" /\ \A j \in Jobs : Resting.fails[j] = 0
    BY DEF Resting
  <2>6. JustEnded(Resting) = {}
    BY <2>5 DEF JustEnded
  <2>7. WorkerCount
    <3> SUFFICES ASSUME NEW w \in Workers, NEW j \in Jobs
                 PROVE  Backed(worker[w].fails[j], j, RunRowsSent \cup JustEnded(worker[w]))
      BY <2>1, <2>5 DEF WorkerCount
    <3>1. worker[w] = Resting /\ RunRowsSent \cup JustEnded(worker[w]) = {}
      BY <2>1, <2>4, <2>6
    <3> QED
      BY <2>2, <2>5, <3>1
  <2> QED
    BY <2>1, <2>3, <2>4, <2>5, <2>7 DEF CountInv, ManualCount
<1>2. DaemonInv /\ DaemonInv' /\ CountInv /\ [Next]_vars => CountInv'
  BY NextKeepsCount DEF DaemonInv
<1>3. CountInv => StatusNeverOvercounts
  <2> SUFFICES ASSUME CountInv, NEW j \in Jobs
               PROVE  /\ table.status[j].fails <= Cardinality(FailedRuns(j) \cup lost)
                      /\ table.status[j].fails > 0 <=> table.status[j].state = "degraded"
    BY DEF StatusNeverOvercounts
  <2>1. FailuresAmong(j, History) = FailedRuns(j)
    BY DEF FailuresAmong, History, In, FailedRuns, RunsOf
  <2>2. Account(j, {}) = FailedRuns(j) \cup lost
    BY <2>1 DEF Account
  <2> QED
    BY <2>2 DEF CountInv, StatusCount, Backed
<1> QED
  BY <1>1, <1>2, <1>3, OnePlaceAtATime, PTL DEF Spec
-----------------------------------------------------------------------------
(* The status of a job is behind its history only by runs that overlapped *)

\* Where a run is under way: held before or behind its run's row, in one of the
\* two kinds of row, or with the command.
StatusHeld == {worker[w].id : w \in {v \in Workers : worker[v].pc = "status"}}

StatusRows == {x.id : x \in {y \in In(channel) : y.table # "runs"}}

ManualAt == {i \in {manual.id} : manual.pc \in AtWork}

LEMMA UnderWayIs ==
  /\ UnderWay = Held \cup StatusHeld \cup Sent \cup StatusRows \cup ManualAt
  /\ UnderWay' = Held' \cup StatusHeld' \cup Sent' \cup StatusRows' \cup ManualAt'
BY DEF UnderWay, AtWork, Held, StatusHeld, Sent, StatusRows, In, ManualAt

\* The row of a run is never on its way without the one of its status to come.
Followed == Sent \subseteq StatusHeld \cup StatusRows

\* The command has not recorded the run it is about to record.
ManualUnrecorded == manual.pc \in {"busy", "run"} => manual.id \notin Recorded

NoneFailed == budget.faults = MaxFaults /\ budget.crashes = MaxCrashes

OrderInv == Followed /\ ManualUnrecorded /\ (NoneFailed => lost = {})

\* Runs that are under way now were so together.
Together == \A i, k \in UnderWay : {i, k} \in beside

\* A run that is under way was so together with all that were recorded after it.
LaterBeside ==
  \A n, m \in DOMAIN table.runs :
    n < m /\ table.runs[n].id \in UnderWay =>
      {table.runs[n].id, table.runs[m].id} \in beside

OnceRecorded ==
  \A n, m \in DOMAIN table.runs : table.runs[n].id = table.runs[m].id => n = m

\* The last run of a job is still to be shown, or what is shown was beside it.
LastShown ==
  \A j \in Jobs : \A last \in RunsOf(j) :
    (\A n \in RunsOf(j) : n <= last) =>
      \/ table.runs[last].id \in UnderWay
      \/ {table.status[j].run, table.runs[last].id} \in beside

ShownInv == Together /\ LaterBeside /\ OnceRecorded /\ (NoneFailed => LastShown)

-----------------------------------------------------------------------------
(* What the status rows on their way become *)

LEMMA StatusAppended ==
  ASSUME channel \in Seq(Row), NEW row \in Row, channel' = Append(channel, row)
  PROVE  StatusRows' = IF row.table # "runs" THEN StatusRows \cup {row.id} ELSE StatusRows
<1>1. In(channel') = In(channel) \cup {row}
  BY AppendHolds DEF In
<1>2. StatusRows' = {x.id : x \in {y \in In(channel') : y.table # "runs"}}
  BY DEF StatusRows, In
<1> QED
  BY <1>1, <1>2 DEF StatusRows

LEMMA StatusTaken ==
  ASSUME channel \in Seq(Row), channel # << >>, channel' = Tail(channel)
  PROVE  StatusRows = IF Head(channel).table # "runs" THEN StatusRows' \cup {Head(channel).id}
                                                      ELSE StatusRows'
<1> DEFINE head == Head(channel)
<1>1. In(channel) = {head} \cup In(channel')
  <2>1. In(channel) = {head} \cup In(Tail(channel))
    BY TailHolds, Zenon DEF In
  <2> QED
    BY <2>1
<1>2. StatusRows' = {x.id : x \in {y \in In(channel') : y.table # "runs"}}
  BY DEF StatusRows, In
<1> HIDE DEF head
<1>3. StatusRows = IF head.table # "runs" THEN StatusRows' \cup {head.id} ELSE StatusRows'
  BY <1>1, <1>2 DEF StatusRows
<1> QED
  BY <1>3 DEF head

LEMMA InHistory ==
  ASSUME NEW r, EndOf(r) \in History
  PROVE  r.id \in Recorded
<1>1. EndOf(r).id = r.id
  BY DEF EndOf
<1> QED
  BY <1>1 DEF History, In, Recorded

LEMMA OnlySpent ==
  ASSUME TypeInv, [Next]_vars, NoneFailed'
  PROVE  NoneFailed /\ ~StartFails /\ ~StopUnrecorded /\ ~Crash /\ ~WriteFails /\ ~EndEarly
<1>1. budget \in Budget
  BY DEF TypeInv, TypeOK, Budget
<1>2. {MaxFaults, MaxCrashes} \subseteq Nat
  BY Bounds
<1>3. ASSUME NEW what \in Kinds, Spend(what)
      PROVE  /\ NoneFailed /\ what \notin {"faults", "crashes"}
  BY <1>1, <1>2, <1>3 DEF Spend, Kinds, Budget, NoneFailed
<1>4. ASSUME UNCHANGED budget PROVE NoneFailed
  BY <1>4 DEF NoneFailed
<1>5. ASSUME StartFails PROVE FALSE
  <2>1. budget' = [budget EXCEPT !.starts = @ - 1, !.faults = @ - 1]
    BY <1>5 DEF StartFails
  <2>2. budget'.faults = budget.faults - 1
    BY <1>1, <2>1 DEF Budget
  <2>3. budget.faults \in 0..MaxFaults /\ budget'.faults = MaxFaults
    BY <1>1 DEF Budget, NoneFailed
  <2> QED
    BY <1>2, <2>2, <2>3
<1>6. ~StopUnrecorded /\ ~Crash /\ ~WriteFails /\ ~EndEarly
  <2>1. ~Spend("faults") /\ ~Spend("crashes")
    BY <1>3 DEF Kinds
  <2> QED
    BY <2>1 DEF StopUnrecorded, Crash, WriteFails, EndEarly
<1>7. ASSUME StartDaemon \/ (\E j \in Jobs : Fire(j) \/ RunJob(j)) PROVE NoneFailed
  <2>1. Spend("starts") \/ Spend("runs") \/ Spend("manual")
    BY <1>7 DEF StartDaemon, Fire, RunJob
  <2> QED
    BY <1>3, <2>1 DEF Kinds
<1>8. ASSUME MainStep \/ Cancel \/ WriteRow \/ ManualStep \/ \E w \in Workers : WorkerStep(w)
      PROVE  NoneFailed
  <2>1. ASSUME MainStep \/ Cancel \/ WriteRow \/ ManualStep PROVE NoneFailed
    BY <1>4, <2>1
    DEF MainStep, EndDrain, StopGracefully, Cancel, WriteRow, ManualStep, SaveManual,
        EndManual
  <2>2. ASSUME NEW w \in Workers, WorkerStep(w) PROVE NoneFailed
    BY <1>4, <2>2 DEF WorkerStep, Take, EndJob, SendRun, SendStatus, Send, Exit
  <2> QED
    BY <1>8, <2>1, <2>2
<1>9. ASSUME UNCHANGED vars PROVE NoneFailed
  BY <1>4, <1>9 DEF vars
<1> QED
  BY <1>5, <1>6, <1>7, <1>8, <1>9 DEF Next

-----------------------------------------------------------------------------
(* What each kind of step does to the runs under way *)

LEMMA StaysShown ==
  ASSUME ShownInv, table'.runs = table.runs, table'.status = table.status,
         beside' = beside, UnderWay' \subseteq UnderWay,
         NoneFailed' => NoneFailed /\ UnderWay' = UnderWay
  PROVE  ShownInv'
<1>1. Together'
  BY DEF ShownInv, Together
<1>2. LaterBeside' /\ OnceRecorded'
  BY DEF ShownInv, LaterBeside, OnceRecorded
<1>3. NoneFailed' => LastShown'
  BY DEF ShownInv, LastShown, RunsOf
<1> QED
  BY <1>1, <1>2, <1>3 DEF ShownInv

\* A run that is taken up is beside all that are under way.
LEMMA JoinsShown ==
  ASSUME ShownInv, table' = table, NEW i, i \notin Recorded,
         beside' = beside \cup Beside(i), UnderWay' = UnderWay \cup {i},
         NoneFailed' => NoneFailed
  PROVE  ShownInv'
<1>1. /\ beside \subseteq beside' /\ {i, i} \in beside'
      /\ \A k \in UnderWay : {i, k} \in beside' /\ {k, i} \in beside'
  BY DEF Beside
<1>2. Together'
  BY <1>1 DEF ShownInv, Together
<1>3. LaterBeside'
  <2>1. \A n \in DOMAIN table.runs : table.runs[n].id # i
    BY DEF Recorded
  <2> QED
    BY <1>1, <2>1 DEF ShownInv, LaterBeside
<1>4. OnceRecorded'
  BY DEF ShownInv, OnceRecorded
<1>5. NoneFailed' => LastShown'
  BY <1>1 DEF ShownInv, LastShown, RunsOf
<1> QED
  BY <1>2, <1>3, <1>4, <1>5 DEF ShownInv

\* The row of a run that is under way joins the history.
LEMMA RunShown ==
  ASSUME ShownInv, table \in Tables, NEW row \in Row, row.table = "runs",
         table' = Written(row), row.id \in UnderWay, row.id \notin Recorded,
         beside' = beside, UnderWay' = UnderWay, NoneFailed' => NoneFailed
  PROVE  ShownInv'
<1> DEFINE Ends == [id : RunIds, job : Jobs, outcome : Outcomes]
           e == EndOf(row)
           new == Append(table.runs, e)
           k == Len(table.runs) + 1
<1>1. /\ e \in Ends /\ e.id = row.id /\ table.runs \in Seq(Ends)
      /\ table'.runs = new /\ table'.status = table.status
  BY DEF Row, EndOf, Written, Tables
<1>2. /\ new \in Seq(Ends) /\ Len(new) = k /\ new[k] = e
      /\ \A n \in 1..Len(table.runs) : new[n] = table.runs[n]
  BY <1>1, AppendProperties
<1>3. /\ DOMAIN table.runs = 1..Len(table.runs) /\ DOMAIN new = 1..k
      /\ Len(table.runs) \in Nat
  BY <1>1, <1>2, LenProperties
<1>4. /\ DOMAIN new = DOMAIN table.runs \cup {k} /\ k \in Nat
      /\ \A n \in DOMAIN table.runs : n \in Nat /\ n < k /\ new[n] = table.runs[n]
      /\ \A n \in DOMAIN table.runs : new[n].id # new[k].id
  <2>1. \A n \in DOMAIN table.runs : table.runs[n].id # row.id
    BY DEF Recorded
  <2> QED
    BY <1>1, <1>2, <1>3, <2>1
<1>5. new[k].id \in UnderWay
  BY <1>1, <1>2
<1> HIDE DEF new, k, e
<1>6. Together'
  BY DEF ShownInv, Together
<1>7. LaterBeside'
  <2> SUFFICES ASSUME NEW n \in DOMAIN new, NEW m \in DOMAIN new, n < m,
                      new[n].id \in UnderWay
               PROVE  {new[n].id, new[m].id} \in beside
    BY <1>1 DEF LaterBeside
  <2>1. n \in DOMAIN table.runs
    BY <1>4
  <2>2. CASE m = k
    BY <1>5, <2>2 DEF ShownInv, Together
  <2>3. CASE m # k
    BY <1>4, <2>1, <2>3 DEF ShownInv, LaterBeside
  <2> QED
    BY <2>2, <2>3
<1>8. OnceRecorded'
  <2> SUFFICES ASSUME NEW n \in DOMAIN new, NEW m \in DOMAIN new, new[n].id = new[m].id
               PROVE  n = m
    BY <1>1 DEF OnceRecorded
  <2> QED
    BY <1>4 DEF ShownInv, OnceRecorded
<1>9. NoneFailed' => LastShown'
  <2> SUFFICES ASSUME LastShown, NEW j \in Jobs, NEW last \in DOMAIN new,
                      new[last].job = j,
                      \A n \in DOMAIN new : new[n].job = j => n <= last,
                      new[last].id \notin UnderWay
               PROVE  {table.status[j].run, new[last].id} \in beside
    BY <1>1 DEF ShownInv, LastShown, RunsOf
  <2>1. last \in DOMAIN table.runs /\ new[last] = table.runs[last]
    BY <1>4, <1>5
  <2>2. last \in RunsOf(j) /\ \A n \in RunsOf(j) : n <= last
    BY <1>4, <2>1 DEF RunsOf
  <2> QED
    BY <2>1, <2>2 DEF LastShown
<1> QED
  BY <1>6, <1>7, <1>8, <1>9 DEF ShownInv

\* The status row of a run that is under way, and in the history, is written.
LEMMA StatusShown ==
  ASSUME ShownInv, table \in Tables, NEW row \in Row, row.table = "status",
         table' = Written(row), row.id \in UnderWay, beside' = beside,
         UnderWay' \subseteq UnderWay, UnderWay \ {row.id} \subseteq UnderWay',
         NoneFailed' => NoneFailed /\ EndOf(row) \in History
  PROVE  ShownInv'
<1>1. /\ table'.runs = table.runs
      /\ table'.status = [table.status EXCEPT ![row.job] = Upserted(@, row)]
      /\ table.status \in [Jobs -> StatusColumns]
  BY DEF Written, Tables
<1>2. /\ row.job \in Jobs /\ table'.status[row.job].run = row.id
      /\ \A j \in Jobs : j # row.job => table'.status[j] = table.status[j]
  BY <1>1 DEF Row, Upserted
<1>3. Together'
  BY DEF ShownInv, Together
<1>4. LaterBeside' /\ OnceRecorded'
  BY <1>1 DEF ShownInv, LaterBeside, OnceRecorded
<1>5. NoneFailed' => LastShown'
  <2> SUFFICES ASSUME LastShown, EndOf(row) \in History, NEW j \in Jobs,
                      NEW last \in RunsOf(j), \A n \in RunsOf(j) : n <= last,
                      table.runs[last].id \notin UnderWay'
               PROVE  {table'.status[j].run, table.runs[last].id} \in beside
    BY <1>1 DEF ShownInv, LastShown, RunsOf
  <2>1. PICK p \in DOMAIN table.runs : table.runs[p] = EndOf(row)
    BY DEF History, In
  <2>2. table.runs[p].id = row.id /\ table.runs[p].job = row.job /\ last \in DOMAIN table.runs
    BY <2>1 DEF EndOf, RunsOf
  <2>3. \A n \in DOMAIN table.runs : n \in Nat
    BY LenProperties DEF Tables
  <2>4. CASE j = row.job
    <3>1. p <= last
      BY <2>2, <2>4 DEF RunsOf
    <3>2. CASE p = last
      <4>1. {row.id, row.id} \in beside
        BY DEF ShownInv, Together
      <4> QED
        BY <1>2, <2>2, <2>4, <3>2, <4>1
    <3>3. CASE p # last
      <4>1. p < last
        BY <2>2, <2>3, <3>1, <3>3
      <4>2. {table.runs[p].id, table.runs[last].id} \in beside
        BY <2>2, <4>1 DEF ShownInv, LaterBeside
      <4> QED
        BY <1>2, <2>2, <2>4, <4>2
    <3> QED
      BY <3>2, <3>3
  <2>5. CASE j # row.job
    <3>1. table.runs[last].id # row.id
      <4>1. last # p
        BY <2>2, <2>5 DEF RunsOf
      <4> QED
        BY <2>2, <4>1 DEF ShownInv, OnceRecorded
    <3>2. table.runs[last].id \notin UnderWay
      BY <3>1
    <3>3. {table.status[j].run, table.runs[last].id} \in beside
      BY <3>2 DEF LastShown
    <3> QED
      BY <1>2, <2>5, <3>3
  <2> QED
    BY <2>4, <2>5
<1> QED
  BY <1>3, <1>4, <1>5 DEF ShownInv

-----------------------------------------------------------------------------
(* The steps *)

OverlapInv == OrderInv /\ ShownInv

\* OrderInv looks at these alone.
LEMMA OrderStays ==
  ASSUME OrderInv, Sent' \subseteq StatusHeld' \cup StatusRows', Recorded' = Recorded,
         manual'.pc \in {"busy", "run"} =>
           manual.pc \in {"busy", "run"} /\ manual'.id = manual.id,
         NoneFailed' => NoneFailed /\ lost' = lost
  PROVE  OrderInv'
BY DEF OrderInv, Followed, ManualUnrecorded

LEMMA MainOverlaps ==
  ASSUME TypeInv, SettledInv, OverlapInv, NoneFailed' => NoneFailed /\ ~Crash,
         StartDaemon \/ StartFails \/ MainStep \/ Cancel \/ StopUnrecorded \/ Crash
  PROVE  OverlapInv'
<1>1. /\ table'.runs = table.runs /\ table'.status = table.status
      /\ beside' = beside /\ manual' = manual
  BY DEF StartDaemon, StartFails, MainStep, Cancel, StopUnrecorded, EndDrain,
     StopGracefully, Stop, Crash, TypeInv, TypeOK
<1>2. Recorded' = Recorded /\ ManualAt' = ManualAt
  BY <1>1 DEF Recorded, ManualAt
<1>3. NoneFailed' => lost' = lost
  BY DEF StartDaemon, StartFails, MainStep, Cancel, StopUnrecorded, EndDrain,
     StopGracefully, Stop
<1>4. CASE StartDaemon \/ Crash
  <2>1. channel' = << >> /\ \A w \in Workers : worker'[w].pc = "idle"
    BY <1>4, RestingType DEF StartDaemon, Crash
  <2>2. Held' = {} /\ Sent' = {} /\ StatusHeld' = {} /\ StatusRows' = {}
    BY <2>1 DEF Held, Sent, StatusHeld, StatusRows, In
  <2>3. UnderWay' = ManualAt /\ ManualAt \subseteq UnderWay
    BY <1>2, <2>2, UnderWayIs
  <2>4. StartDaemon => UnderWay' = UnderWay
    <3> SUFFICES ASSUME StartDaemon PROVE UnderWay \subseteq ManualAt
      BY <2>3
    <3>1. channel = << >> /\ \A w \in Workers : worker[w].pc \in {"idle", "exited"}
      BY DEF StartDaemon, SettledInv
    <3>2. Held = {} /\ Sent = {} /\ StatusHeld = {} /\ StatusRows = {}
      BY <3>1 DEF Held, Sent, StatusHeld, StatusRows, In
    <3> QED
      BY <3>2, UnderWayIs
  <2>5. NoneFailed' => NoneFailed /\ UnderWay' = UnderWay
    BY <1>4, <2>4
  <2>6. UnderWay' \subseteq UnderWay
    BY <2>3
  <2>7. ShownInv'
    BY <1>1, <2>5, <2>6, StaysShown DEF OverlapInv
  <2>8. OrderInv'
    BY <1>1, <1>2, <1>3, <2>2, OrderStays DEF OverlapInv
  <2> QED
    BY <2>7, <2>8 DEF OverlapInv
<1>5. CASE StartFails \/ MainStep \/ Cancel \/ StopUnrecorded
  <2>1. channel' = channel /\ worker' = worker
    BY <1>5 DEF StartFails, MainStep, Cancel, StopUnrecorded, EndDrain, StopGracefully, Stop
  <2>2. Held' = Held /\ Sent' = Sent /\ StatusHeld' = StatusHeld /\ StatusRows' = StatusRows
    BY <2>1 DEF Held, Sent, StatusHeld, StatusRows, In
  <2>3. UnderWay' = UnderWay
    BY <1>2, <2>2, UnderWayIs
  <2>4. ShownInv'
    BY <1>1, <2>3, StaysShown DEF OverlapInv
  <2>5. Sent' \subseteq StatusHeld' \cup StatusRows'
    BY <2>2 DEF OverlapInv, OrderInv, Followed
  <2>6. OrderInv'
    BY <1>1, <1>2, <1>3, <2>5, OrderStays DEF OverlapInv
  <2> QED
    BY <2>4, <2>6 DEF OverlapInv
<1> QED
  BY <1>4, <1>5

\* Steps that touch neither tables nor the command leave to show what they do
\* to the runs under way.
LEMMA ElsewhereOverlaps ==
  ASSUME OverlapInv, UNCHANGED <<table, manual, lost, beside>>, NoneFailed' => NoneFailed,
         Sent' \subseteq StatusHeld' \cup StatusRows', UnderWay' = UnderWay
  PROVE  OverlapInv'
<1>1. Recorded' = Recorded
  BY DEF Recorded
<1>2. OrderInv'
  BY <1>1, OrderStays DEF OverlapInv
<1>3. ShownInv'
  BY StaysShown DEF OverlapInv
<1> QED
  BY <1>2, <1>3 DEF OverlapInv

LEMMA TakeOverlaps ==
  ASSUME TypeInv, PlaceInv, OverlapInv, NoneFailed' => NoneFailed,
         NEW w \in Workers, Take(w)
  PROVE  OverlapInv'
<1>0. PICK i : i = Head(queue).id
  OBVIOUS
<1>1. /\ i \in Queued /\ worker[w].pc = "idle"
      /\ worker'[w].pc = "busy" /\ worker'[w].id = i
      /\ \A v \in Workers \ {w} : worker'[v] = worker[v]
  BY <1>0, TakenFromQueue
<1>2. /\ channel' = channel /\ manual' = manual /\ table' = table /\ lost' = lost
      /\ beside' = beside \cup Beside(i)
  BY <1>0 DEF Take
<1>3. Held' = Held \cup {i} /\ StatusHeld' = StatusHeld
  BY <1>1 DEF Held, StatusHeld
<1>4. Sent' = Sent /\ StatusRows' = StatusRows /\ ManualAt' = ManualAt /\ Recorded' = Recorded
  BY <1>2 DEF Sent, StatusRows, In, ManualAt, Recorded
<1>5. UnderWay' = UnderWay \cup {i}
  BY <1>3, <1>4, UnderWayIs
<1>6. i \notin Recorded
  BY <1>1 DEF PlaceInv, Apart, Unsettled
<1>7. ShownInv'
  BY <1>2, <1>5, <1>6, JoinsShown DEF OverlapInv
<1>8. Sent' \subseteq StatusHeld' \cup StatusRows'
  BY <1>3, <1>4 DEF OverlapInv, OrderInv, Followed
<1>9. OrderInv'
  BY <1>2, <1>4, <1>8, OrderStays DEF OverlapInv
<1> QED
  BY <1>7, <1>9 DEF OverlapInv

LEMMA SendOverlaps ==
  ASSUME TypeInv, OverlapInv, NoneFailed' => NoneFailed,
         NEW w \in Workers, SendRun(w) \/ SendStatus(w)
  PROVE  OverlapInv'
<1>0. PICK i : i = worker[w].id
  OBVIOUS
<1>1. UNCHANGED <<table, manual, lost, beside>> /\ ManualAt' = ManualAt
      /\ channel \in Seq(Row)
  BY DEF SendRun, SendStatus, Send, ManualAt, TypeInv, TypeOK
<1>2. CASE SendRun(w)
  <2>1. /\ RunRow(worker[w]) \in Row /\ channel' = Append(channel, RunRow(worker[w]))
        /\ worker[w].pc = "run" /\ worker'[w].pc = "status"
        /\ worker'[w] = [worker[w] EXCEPT !.pc = "status"]
        /\ \A v \in Workers \ {w} : worker'[v] = worker[v]
        /\ Sent' = Sent \cup {i}
    BY <1>0, <1>2, RunSent
  <2>2. /\ worker[w].pc = "run" /\ worker'[w].pc = "status" /\ worker'[w].id = i
        /\ \A v \in Workers \ {w} : worker'[v] = worker[v]
    BY <1>0, <2>1 DEF TypeInv, TypeOK, WorkerState
  <2>3. StatusHeld' = StatusHeld \cup {i}
    BY <2>2 DEF StatusHeld
  <2>4. Held \subseteq Held' \cup {i} /\ Held' \subseteq Held /\ i \in Held
    BY <1>0, <2>2 DEF Held
  <2>5. StatusRows' = StatusRows
    <3>1. RunRow(worker[w]).table = "runs"
      BY DEF RunRow
    <3> QED
      BY <1>1, <2>1, <3>1, StatusAppended
  <2>6. UnderWay' = UnderWay
    BY <1>1, <2>1, <2>3, <2>4, <2>5, UnderWayIs
  <2>7. Sent' \subseteq StatusHeld' \cup StatusRows'
    BY <2>1, <2>3, <2>5 DEF OverlapInv, OrderInv, Followed
  <2> QED
    BY <1>1, <2>6, <2>7, ElsewhereOverlaps
<1>3. CASE SendStatus(w)
  <2>1. /\ StatusRow(worker[w]) \in Row /\ channel' = Append(channel, StatusRow(worker[w]))
        /\ worker[w].pc = "status" /\ worker'[w].pc = "idle"
        /\ \A v \in Workers \ {w} : worker'[v] = worker[v]
        /\ Sent' = Sent
    BY <1>3, StatusSent
  <2>2. StatusHeld \subseteq StatusHeld' \cup {i} /\ StatusHeld' \subseteq StatusHeld
        /\ i \in StatusHeld
    BY <1>0, <2>1 DEF StatusHeld
  <2>3. Held' = Held
    BY <2>1 DEF Held
  <2>4. StatusRows' = StatusRows \cup {i}
    <3>1. StatusRow(worker[w]).table # "runs" /\ StatusRow(worker[w]).id = i
      BY <1>0 DEF StatusRow
    <3> QED
      BY <1>1, <2>1, <3>1, StatusAppended
  <2>5. UnderWay' = UnderWay
    BY <1>1, <2>1, <2>2, <2>3, <2>4, UnderWayIs
  <2>6. Sent' \subseteq StatusHeld' \cup StatusRows'
    BY <2>1, <2>2, <2>4 DEF OverlapInv, OrderInv, Followed
  <2> QED
    BY <1>1, <2>5, <2>6, ElsewhereOverlaps
<1> QED
  BY <1>2, <1>3

LEMMA WorkerOverlaps ==
  ASSUME TypeInv, PlaceInv, OverlapInv, NoneFailed' => NoneFailed,
         NEW w \in Workers, WorkerStep(w)
  PROVE  OverlapInv'
<1>1. ASSUME UNCHANGED <<channel, table, manual, lost, beside>>,
             worker'[w].id = worker[w].id,
             worker[w].pc # "status", worker'[w].pc # "status",
             worker[w].pc \in {"busy", "run"} <=> worker'[w].pc \in {"busy", "run"},
             \A v \in Workers \ {w} : worker'[v] = worker[v]
      PROVE  OverlapInv'
  <2>1. Held' = Held /\ StatusHeld' = StatusHeld
    BY <1>1 DEF Held, StatusHeld
  <2>2. Sent' = Sent /\ StatusRows' = StatusRows /\ ManualAt' = ManualAt
    BY <1>1 DEF Sent, StatusRows, In, ManualAt
  <2>3. UnderWay' = UnderWay
    BY <2>1, <2>2, UnderWayIs
  <2>4. Sent' \subseteq StatusHeld' \cup StatusRows'
    BY <2>1, <2>2 DEF OverlapInv, OrderInv, Followed
  <2> QED
    BY <1>1, <2>3, <2>4, ElsewhereOverlaps
<1>2. ASSUME NEW outcome \in Outcomes, EndJob(w, outcome) PROVE OverlapInv'
  <2>1. UNCHANGED <<channel, table, manual, lost, beside>>
    BY <1>2 DEF EndJob
  <2>2. /\ worker[w].pc = "busy" /\ worker'[w].pc = "run"
        /\ worker'[w].id = worker[w].id
        /\ \A v \in Workers \ {w} : worker'[v] = worker[v]
    BY <1>2, JobEnds
  <2> QED
    BY <1>1, <2>1, <2>2
<1>3. CASE Exit(w)
  <2>1. UNCHANGED <<channel, table, manual, lost, beside>>
    BY <1>3 DEF Exit
  <2>2. /\ worker[w].pc = "idle" /\ worker'[w].pc = "exited"
        /\ worker'[w].id = worker[w].id
        /\ \A v \in Workers \ {w} : worker'[v] = worker[v]
    BY <1>3 DEF Exit, TypeInv, TypeOK, WorkerState
  <2> QED
    BY <1>1, <2>1, <2>2
<1> QED
  BY <1>2, <1>3, TakeOverlaps, SendOverlaps DEF WorkerStep

LEMMA WriterOverlaps ==
  ASSUME TypeInv, PlaceInv, StatusInv, OverlapInv, NoneFailed' => NoneFailed /\ ~WriteFails,
         WriteRow \/ WriteFails
  PROVE  OverlapInv'
<1> DEFINE head == Head(channel)
<1>1. /\ channel # << >> /\ channel' = Tail(channel) /\ channel \in Seq(Row)
      /\ Distinct(channel, RunRows) /\ BehindItsRun
  BY DEF WriteRow, WriteFails, TypeInv, TypeOK, PlaceInv, Once, StatusInv
<1>2. /\ head \in Row
      /\ Sent = IF head.table = "runs" THEN Sent' \cup {head.id} ELSE Sent'
      /\ StatusRows = IF head.table # "runs" THEN StatusRows' \cup {head.id} ELSE StatusRows'
  BY <1>1, QueueTypes, SentTaken, StatusTaken
<1>3. head.table # "runs" => head.table = "status"
  BY <1>2 DEF Row
<1>4. head.table # "runs" => head.id \in lost \/ EndOf(head) \in History
  BY <1>1, <1>3, OldestStatus
<1>5. /\ worker' = worker /\ manual' = manual /\ beside' = beside /\ table \in Tables
      /\ WriteRow => table' = Written(head) /\ lost' = lost
      /\ WriteFails => table' = table
      /\ WriteRow \/ WriteFails
  BY DEF WriteRow, WriteFails, TypeInv, TypeOK, Tables
<1> HIDE DEF head
<1>6. Held' = Held /\ StatusHeld' = StatusHeld /\ ManualAt' = ManualAt
  BY <1>5 DEF Held, StatusHeld, ManualAt
<1>7. Sent' \subseteq StatusHeld' \cup StatusRows'
  <2>1. Sent \subseteq StatusHeld \cup StatusRows
    BY DEF OverlapInv, OrderInv, Followed
  <2>2. CASE head.table = "runs"
    BY <1>2, <1>6, <2>1, <2>2
  <2>3. CASE head.table # "runs"
    <3>1. head.id \notin Sent
      <4>1. head.id \in lost \cup Recorded
        BY <1>4, <2>3, InHistory
      <4> QED
        BY <4>1 DEF PlaceInv, Apart, Unsettled
    <3> QED
      BY <1>2, <1>6, <2>1, <2>3, <3>1
  <2> QED
    BY <2>2, <2>3
<1>8. /\ UnderWay' \subseteq UnderWay /\ UnderWay \ {head.id} \subseteq UnderWay'
      /\ head.id \in UnderWay /\ (head.table = "runs" => UnderWay' = UnderWay)
  <2>1. Sent \subseteq StatusHeld \cup StatusRows
    BY DEF OverlapInv, OrderInv, Followed
  <2>2. CASE head.table = "runs"
    BY <1>2, <1>6, <2>1, <2>2, UnderWayIs
  <2>3. CASE head.table # "runs"
    BY <1>2, <1>6, <2>3, UnderWayIs
  <2> QED
    BY <2>2, <2>3
<1>9. ManualUnrecorded'
  <2>1. Recorded' \subseteq Recorded \cup Sent
    <3>1. CASE WriteRow
      BY <1>2, <1>5, <3>1, RecordedWritten
    <3>2. CASE WriteFails
      BY <1>5, <3>2 DEF Recorded
    <3> QED
      BY <1>5, <3>1, <3>2
  <2>2. manual.pc \in {"busy", "run"} => manual.id \notin Sent
    BY DEF PlaceInv, Identities, Apart, Unsettled
  <2> QED
    BY <1>5, <2>1, <2>2 DEF OverlapInv, OrderInv, ManualUnrecorded
<1>10. OrderInv'
  <2>1. NoneFailed' => lost' = {}
    BY <1>5 DEF OverlapInv, OrderInv
  <2> QED
    BY <1>7, <1>9, <2>1 DEF OrderInv, Followed
<1>11. ShownInv'
  <2>1. CASE WriteFails
    <3>1. table'.runs = table.runs /\ table'.status = table.status /\ ~NoneFailed'
      BY <1>5, <2>1
    <3> QED
      BY <1>5, <1>8, <3>1, StaysShown DEF OverlapInv
  <2>2. CASE WriteRow /\ head.table = "runs"
    <3>1. head.id \notin Recorded
      BY <1>2, <2>2 DEF PlaceInv, Apart, Unsettled
    <3> QED
      BY <1>2, <1>5, <1>8, <2>2, <3>1, RunShown DEF OverlapInv
  <2>3. CASE WriteRow /\ head.table # "runs"
    <3>1. NoneFailed' => EndOf(head) \in History
      BY <1>4, <2>3 DEF OverlapInv, OrderInv
    <3>2. head.table = "status" /\ table' = Written(head)
      BY <1>3, <1>5, <2>3
    <3> QED
      BY <1>2, <1>5, <1>8, <3>1, <3>2, StatusShown DEF OverlapInv
  <2> QED
    BY <1>5, <2>1, <2>2, <2>3
<1> QED
  BY <1>10, <1>11 DEF OverlapInv

LEMMA ManualOverlaps ==
  ASSUME TypeInv, PlaceInv, StatusInv, OverlapInv, NoneFailed' => NoneFailed /\ ~EndEarly,
         ManualStep \/ EndEarly \/ \E j \in Jobs : RunJob(j)
  PROVE  OverlapInv'
<1>1. worker' = worker /\ channel' = channel /\ lost' = lost
  BY DEF ManualStep, SaveManual, EndManual, EndEarly, RunJob
<1>2. Held' = Held /\ StatusHeld' = StatusHeld /\ Sent' = Sent /\ StatusRows' = StatusRows
  BY <1>1 DEF Held, StatusHeld, Sent, StatusRows, In
<1>3. Sent' \subseteq StatusHeld' \cup StatusRows'
  BY <1>2 DEF OverlapInv, OrderInv, Followed
<1>4. ASSUME NEW j \in Jobs, RunJob(j) PROVE OverlapInv'
  <2>0. PICK i : i = serial + 1
    OBVIOUS
  <2>1. /\ table' = table /\ beside' = beside \cup Beside(i) /\ manual.pc = "idle"
        /\ manual' = [Resting EXCEPT !.pc = "busy", !.id = i, !.job = j]
    BY <1>4, <2>0 DEF RunJob
  <2>2. manual'.pc = "busy" /\ manual'.id = i
    BY <2>1, RestingType DEF WorkerState
  <2>3. i \notin Recorded
    BY <2>0, NextIdentity
  <2>4. ManualAt = {} /\ ManualAt' = {i} /\ Recorded' = Recorded
    BY <2>1, <2>2 DEF ManualAt, AtWork, Recorded
  <2>5. UnderWay' = UnderWay \cup {i}
    BY <1>2, <2>4, UnderWayIs
  <2>6. ShownInv'
    BY <2>1, <2>3, <2>5, JoinsShown DEF OverlapInv
  <2>7. OrderInv'
    BY <1>1, <1>3, <2>2, <2>3, <2>4 DEF OverlapInv, OrderInv, Followed, ManualUnrecorded
  <2> QED
    BY <2>6, <2>7 DEF OverlapInv
<1>5. CASE EndEarly \/ \E outcome \in Outcomes : EndManual(outcome)
  <2>1. table' = table /\ beside' = beside
    BY <1>5 DEF EndEarly, EndManual
  <2>2. \/ EndEarly /\ manual'.pc = "idle"
        \/ manual.pc = "busy" /\ manual'.pc = "run" /\ manual'.id = manual.id
    BY <1>5, RestingType DEF EndEarly, EndManual, TypeInv, TypeOK, WorkerState
  <2>3. /\ ManualAt' \subseteq ManualAt
        /\ ManualAt' = ManualAt \/ EndEarly
    BY <2>2 DEF ManualAt, AtWork
  <2>4. Recorded' = Recorded
    BY <2>1 DEF Recorded
  <2>5. UnderWay' \subseteq UnderWay /\ (NoneFailed' => UnderWay' = UnderWay)
    BY <1>2, <2>3, UnderWayIs
  <2>6. ShownInv'
    BY <2>1, <2>5, StaysShown DEF OverlapInv
  <2>7. OrderInv'
    BY <1>1, <1>3, <2>2, <2>4, OrderStays DEF OverlapInv
  <2> QED
    BY <2>6, <2>7 DEF OverlapInv
<1>6. CASE SaveManual
  <2>1. manual \in WorkerState /\ manual.id # NoRun /\ table \in Tables
    BY <1>6 DEF SaveManual, TypeInv, TypeOK, Identified, Tables
  <2>2. RunRow(manual) \in Row /\ StatusRow(manual) \in Row
    BY <2>1, RowType
  <2>3. /\ RunRow(manual).table = "runs" /\ RunRow(manual).id = manual.id
        /\ StatusRow(manual).table = "status" /\ StatusRow(manual).id = manual.id
        /\ EndOf(StatusRow(manual)) = EndOf(manual)
    BY DEF RunRow, StatusRow, EndOf
  <2>4. ManualAt = {manual.id} /\ manual.id \in UnderWay
    BY <1>6, UnderWayIs DEF SaveManual, ManualAt, AtWork
  <2>5. beside' = beside
    BY <1>6 DEF SaveManual
  <2>6. CASE manual.pc = "run"
    <3>1. /\ table' = Written(RunRow(manual)) /\ manual'.pc = "status"
          /\ manual'.id = manual.id
      BY <1>6, <2>1, <2>6 DEF SaveManual, WorkerState
    <3>2. ManualAt' = ManualAt
      BY <2>4, <3>1 DEF ManualAt, AtWork
    <3>3. UnderWay' = UnderWay
      BY <1>2, <3>2, UnderWayIs
    <3>4. manual.id \notin Recorded
      BY <2>6 DEF OverlapInv, OrderInv, ManualUnrecorded
    <3>5. ShownInv'
      BY <2>1, <2>2, <2>3, <2>4, <2>5, <3>1, <3>3, <3>4, RunShown DEF OverlapInv
    <3>6. OrderInv'
      BY <1>1, <1>3, <3>1 DEF OverlapInv, OrderInv, Followed, ManualUnrecorded
    <3> QED
      BY <3>5, <3>6 DEF OverlapInv
  <2>7. CASE manual.pc # "run"
    <3>1. /\ table' = Written(StatusRow(manual)) /\ manual.pc = "status"
          /\ manual'.pc = "idle"
      BY <1>6, <2>7, RestingType DEF SaveManual
    <3>2. ManualAt' = {}
      BY <3>1 DEF ManualAt, AtWork
    <3>3. UnderWay' \subseteq UnderWay /\ UnderWay \ {manual.id} \subseteq UnderWay'
      BY <1>2, <2>4, <3>2, UnderWayIs
    <3>4. EndOf(StatusRow(manual)) \in History
      BY <2>3, <3>1 DEF StatusInv, RunWasSaved
    <3>5. ShownInv'
      BY <2>1, <2>2, <2>3, <2>4, <2>5, <3>1, <3>3, <3>4, StatusShown DEF OverlapInv
    <3>6. OrderInv'
      BY <1>1, <1>3, <3>1 DEF OverlapInv, OrderInv, Followed, ManualUnrecorded
    <3> QED
      BY <3>5, <3>6 DEF OverlapInv
  <2> QED
    BY <2>6, <2>7
<1> QED
  BY <1>4, <1>5, <1>6 DEF ManualStep

LEMMA NextOverlaps ==
  ASSUME DaemonInv, StatusInv, OverlapInv, [Next]_vars PROVE OverlapInv'
<1>1. NoneFailed' => NoneFailed /\ ~Crash /\ ~WriteFails /\ ~EndEarly
  BY OnlySpent DEF DaemonInv
<1>2. ASSUME UNCHANGED <<worker, channel, manual, table, lost, beside>>, NoneFailed' => NoneFailed
      PROVE  OverlapInv'
  <2>1. /\ Held' = Held /\ StatusHeld' = StatusHeld /\ Sent' = Sent
        /\ StatusRows' = StatusRows /\ ManualAt' = ManualAt
    BY <1>2 DEF Held, StatusHeld, Sent, StatusRows, In, ManualAt
  <2>2. UnderWay' = UnderWay
    BY <2>1, UnderWayIs
  <2>3. Sent' \subseteq StatusHeld' \cup StatusRows'
    BY <2>1 DEF OverlapInv, OrderInv, Followed
  <2> QED
    BY <1>2, <2>2, <2>3, ElsewhereOverlaps
<1>3. ASSUME NEW j \in Jobs, Fire(j) PROVE OverlapInv'
  BY <1>1, <1>2, <1>3 DEF Fire
<1>4. CASE UNCHANGED vars
  BY <1>1, <1>2, <1>4 DEF vars
<1>5. CASE Next
  BY <1>1, <1>3, <1>5, MainOverlaps, WorkerOverlaps, WriterOverlaps, ManualOverlaps
  DEF Next, DaemonInv
<1> QED
  BY <1>4, <1>5

\* Whatever workers and commands run a job: once all rows are in and none was
\* lost, its status row shows the last run of its history, or one that was
\* under way together with it.
THEOREM StatusIsLastOrBeside == Spec => []StaleOnlyBeside
<1>1. Init => StatusInv
  BY RestingType
  DEF Init, StatusInv, StatusFromHistory, NoStatus, BehindItsRun, RunWasSent, RunWasSaved
<1>2. Init => OverlapInv
  <2> SUFFICES ASSUME Init PROVE OverlapInv
    OBVIOUS
  <2>1. /\ table.runs = << >> /\ channel = << >> /\ lost = {}
        /\ manual.pc = "idle" /\ \A w \in Workers : worker[w].pc = "idle"
    BY RestingType DEF Init
  <2>2. Held = {} /\ Sent = {} /\ StatusHeld = {} /\ StatusRows = {} /\ ManualAt = {}
    BY <2>1 DEF Held, Sent, StatusHeld, StatusRows, In, ManualAt, AtWork
  <2>3. UnderWay = {} /\ DOMAIN table.runs = {}
    BY <2>1, <2>2, UnderWayIs
  <2>4. OrderInv
    BY <2>1, <2>2 DEF OrderInv, Followed, ManualUnrecorded
  <2>5. ShownInv
    BY <2>3 DEF ShownInv, Together, LaterBeside, OnceRecorded, LastShown, RunsOf
  <2> QED
    BY <2>4, <2>5 DEF OverlapInv
<1>3. DaemonInv /\ StatusInv /\ OverlapInv /\ [Next]_vars => (StatusInv /\ OverlapInv)'
  BY NextKeepsStatus, NextOverlaps DEF DaemonInv
<1>4. DaemonInv /\ OverlapInv => StaleOnlyBeside
  <2> SUFFICES ASSUME PlaceInv, ShownInv, Quiet, NEW j \in Jobs, NEW last \in RunsOf(j),
                      \A n \in RunsOf(j) : n <= last
               PROVE  {table.status[j].run, table.runs[last].id} \in beside
    BY DEF StaleOnlyBeside, DaemonInv, OverlapInv
  <2>1. StatusHeld = {} /\ Sent = {} /\ StatusRows = {} /\ ManualAt = {}
    BY DEF Quiet, StatusHeld, Sent, StatusRows, In, ManualAt, AtWork
  <2>2. table.runs[last].id \in Recorded
    BY DEF RunsOf, Recorded
  <2>3. table.runs[last].id \notin UnderWay
    BY <2>1, <2>2, UnderWayIs DEF PlaceInv, Apart, Unsettled
  <2>4. LastShown
    BY DEF Quiet, NoneFailed, ShownInv
  <2> QED
    BY <2>3, <2>4 DEF LastShown
<1> QED
  BY <1>1, <1>2, <1>3, <1>4, OnePlaceAtATime, PTL DEF Spec
=============================================================================
