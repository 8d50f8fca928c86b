------------------------- MODULE RecordSync_proofs -------------------------
(* Proofs about RecordSync, for every number of slots, zones and records. *)
EXTENDS RecordSync, TLAPS

Pcs == Idle \cup {"source", "dest", "apply", "load", "prune", "pruning",
                  "record", "forget"}

-----------------------------------------------------------------------------
(* Types of the operators the actions are built from *)

LEMMA EndedType == ASSUME NEW how \in Pcs PROVE Ended(how) \in RunState
<1>1. AnyZone \in Zones
  BY PlanAssumption DEF PlanAssumption, AnyZone
<1> QED
  BY <1>1 DEF Ended, RunState, Pcs

LEMMA KeysType ==
  ASSUME NEW S \in SUBSET Planned PROVE KeysOf(S) \in SUBSET Key
BY DEF KeysOf, KeyOf, Planned, Key

\* Collecting a listing yields planned records, under any total value map.
LEMMA CollectType ==
  ASSUME NEW L \in SUBSET Listed, NEW m \in [Values -> Values]
  PROVE  CollectRecords(L, m) \in SUBSET Planned
<1>1. ASSUME NEW l \in Listed PROVE Collected(l, m) \in Planned
  BY PlanAssumption DEF PlanAssumption, Collected, Listed, Planned
<1> QED
  BY <1>1 DEF CollectRecords

LEMMA PlanType ==
  ASSUME NEW src \in SUBSET Planned, NEW dst \in SUBSET Planned, NEW opts
  PROVE  /\ PlanAdds(src, dst, opts) \in SUBSET src
         /\ PlanDeletes(src, dst, opts) \in SUBSET dst
BY DEF PlanAdds, PlanDeletes, MissingAdds, UpdateAdds, UpdateDeletes,
       DestinationOnly, NotIgnored

LEMMA PruneNextType ==
  ASSUME NEW new \in RunState PROVE PruneNext(new) \in RunState
BY DEF PruneNext, RunState

LEMMA DestType ==
  ASSUME NEW d \in SUBSET Listed
  PROVE  /\ \A p \in Planned : AfterAdd(d, p) \in SUBSET Listed
         /\ \A k : \A e \in AfterDelete(d, k) : e \in SUBSET d
         /\ \A x \in Listed : Edited(d, x) \in SUBSET Listed
<1>1. ASSUME NEW p \in Planned PROVE Stored(p) \in Listed
  BY PlanAssumption, RecordSyncAssumption
  DEF PlanAssumption, RecordSyncAssumption, Stored, Listed, Planned
<1> QED
  BY <1>1 DEF AfterAdd, Put, AfterDelete, DeleteMatches, Edited

\* Replacing one slot's state by another run state keeps the function typed.
LEMMA RunUpdate ==
  ASSUME run \in [Runs -> RunState], NEW r \in Runs, NEW new \in RunState,
         run' = [run EXCEPT ![r] = new]
  PROVE  run' \in [Runs -> RunState]
OBVIOUS

LEMMA SpendType ==
  ASSUME budget \in Budget,
         NEW what \in {"source", "foreign", "faults", "crashes"}, Spend(what)
  PROVE  budget' \in Budget
BY RecordSyncAssumption DEF RecordSyncAssumption, Spend, Budget

\* A change that fails may have been made all the same.
LEMMA FailedAdd ==
  ASSUME NEW r, NEW p, AddFails(r, p)
  PROVE  /\ dest' = dest \/ dest' = AfterAdd(dest, p)
         /\ budget' = budget \/ Spend("faults")
         /\ (\A l \in dest : ~SameRecord(l, p)) => Spend("faults")
BY DEF AddFails, FailsMaybeMade

LEMMA FailedDelete ==
  ASSUME NEW k, DeleteFailed(k)
  PROVE  /\ dest' = dest \/ dest' \in AfterDelete(dest, k)
         /\ budget' = budget \/ Spend("faults")
         /\ DeleteMatches(dest, k) # {} => Spend("faults")
BY DEF DeleteFailed, FailsMaybeMade

LEMMA FailedDeleteTypes ==
  ASSUME TypeOK, NEW k, DeleteFailed(k)
  PROVE  budget' \in Budget /\ dest' \in SUBSET Listed
<1>1. budget' \in Budget
  <2>1. budget \in Budget
    BY DEF TypeOK
  <2> QED
    BY <2>1, FailedDelete, SpendType
<1>2. dest' \in SUBSET Listed
  <2>1. dest \in SUBSET Listed
    BY DEF TypeOK
  <2>2. \A e \in AfterDelete(dest, k) : e \in SUBSET dest
    BY <2>1, DestType
  <2> QED
    BY <2>1, <2>2, FailedDelete
<1> QED
  BY <1>1, <1>2

-----------------------------------------------------------------------------
(* Type correctness *)

\* A step of a slot keeps that slot's state, and so the whole, typed.
LEMMA StartTypes ==
  ASSUME TypeOK, NEW r \in Runs, Start(r) PROVE TypeOK'
<1>1. PICK apply \in BOOLEAN : StartSync(r, apply) \/ StartTeardown(r, apply)
  BY DEF Start
<1>2. /\ Ended("source") \in RunState
      /\ Ended("load") \in RunState
  BY EndedType DEF Pcs
<1>3. CASE StartSync(r, apply)
  <2>1. [Ended("source") EXCEPT !.apply = apply, !.todo = Zones] \in RunState
    BY <1>2 DEF RunState
  <2> QED
    BY <1>3, <2>1 DEF StartSync, Become, TypeOK
<1>4. CASE StartTeardown(r, apply)
  <2>1. [Ended("load") EXCEPT !.apply = apply, !.teardown = TRUE] \in RunState
    BY <1>2 DEF RunState
  <2> QED
    BY <1>4, <2>1 DEF StartTeardown, Become, TypeOK
<1> QED
  BY <1>1, <1>3, <1>4

LEMMA FaultTypes ==
  ASSUME TypeOK, NEW r \in Runs, Fault(r) PROVE TypeOK'
<1> DEFINE old == run[r]
<1>0. old \in RunState
  BY DEF TypeOK
<1>1. ASSUME Abort(r) \/ Crash(r) PROVE TypeOK'
  <2>1. Ended("err") \in RunState /\ Ended("idle") \in RunState
    BY EndedType DEF Pcs, Idle
  <2>2. budget' \in Budget
    BY <1>1, SpendType DEF Abort, Crash, TypeOK
  <2> QED
    BY <1>1, <2>1, <2>2 DEF Abort, Crash, Finish, Become, TypeOK
<1>2. ASSUME NEW p \in old.adds, AddFails(r, p) PROVE TypeOK'
  <2>1. [old EXCEPT !.tried = @ \cup {p}] \in RunState
    BY <1>0 DEF RunState
  <2>2. budget' \in Budget
    BY <1>2, FailedAdd, SpendType DEF TypeOK
  <2>3. p \in Planned
    BY <1>0, <1>2 DEF RunState
  <2>4. dest' \in SUBSET Listed
    <3>1. dest \in SUBSET Listed
      BY DEF TypeOK
    <3>2. AfterAdd(dest, p) \in SUBSET Listed
      BY <2>3, <3>1, DestType
    <3> QED
      BY <1>2, <3>1, <3>2, FailedAdd
  <2> QED
    BY <1>2, <2>1, <2>2, <2>4 DEF AddFails, Become, TypeOK
<1>3. ASSUME NEW d \in old.deletes, DeleteFails(r, d) PROVE TypeOK'
  <2>1. [old EXCEPT !.gone = @ \cup {d}, !.failed = TRUE] \in RunState
    BY <1>0 DEF RunState
  <2>2. budget' \in Budget /\ dest' \in SUBSET Listed
    BY <1>3, FailedDeleteTypes DEF DeleteFails
  <2> QED
    BY <1>3, <2>1, <2>2 DEF DeleteFails, Become, TypeOK
<1>4. ASSUME NEW z \in Zones, ListLiveFails(r, z) PROVE TypeOK'
  <2> DEFINE new == [old EXCEPT !.zone = z, !.pruneFailed = TRUE,
                                !.pending = @ \ InZone(@, z)]
  <2>1. new \in RunState
    BY <1>0 DEF RunState
  <2>2. PruneNext(new) \in RunState
    BY <2>1, PruneNextType
  <2>3. budget' \in Budget
    BY <1>4, SpendType DEF ListLiveFails, TypeOK
  <2> QED
    BY <1>4, <2>2, <2>3 DEF ListLiveFails, Become, TypeOK
<1>5. ASSUME NEW k \in old.pending, PruneFails(r, k) PROVE TypeOK'
  <2> DEFINE new == [old EXCEPT !.pending = @ \ {k}, !.pruneFailed = TRUE]
  <2>1. new \in RunState
    BY <1>0 DEF RunState
  <2>2. PruneNext(new) \in RunState
    BY <2>1, PruneNextType
  <2>3. budget' \in Budget /\ dest' \in SUBSET Listed
    BY <1>5, FailedDeleteTypes DEF PruneFails
  <2> QED
    BY <1>5, <2>2, <2>3 DEF PruneFails, Become, TypeOK
<1> QED
  BY <1>1, <1>2, <1>3, <1>4, <1>5 DEF Fault

LEMMA PlanStepTypes ==
  ASSUME TypeOK, NEW r \in Runs,
         (\E z \in Zones : ListSource(r, z)) \/ ListDest(r)
  PROVE  TypeOK'
<1> DEFINE old == run[r]
<1>0. old \in RunState
  BY DEF TypeOK
<1>1. ASSUME NEW z \in Zones, ListSource(r, z) PROVE TypeOK'
  <2> DEFINE L == CollectRecords(InZone(source, z), IpMap)
             src == NotIgnored(L, Job[r].options)
  <2>1. L \in SUBSET Planned
    <3>1. InZone(source, z) \in SUBSET Listed
      BY DEF InZone, TypeOK
    <3> QED
      BY <3>1, CollectType, PlanAssumption DEF PlanAssumption
  <2>2. src \in SUBSET Planned
    BY <2>1 DEF NotIgnored
  <2> HIDE DEF src
  <2>3. [old EXCEPT !.pc = "dest", !.zone = z, !.todo = @ \ {z},
                    !.src = src] \in RunState
    BY <1>0, <2>2 DEF RunState
  <2> QED
    BY <1>1, <2>3 DEF ListSource, Become, TypeOK, src
<1>2. ASSUME ListDest(r) PROVE TypeOK'
  <2> DEFINE dst == CollectRecords(InZone(dest, old.zone), NoMap)
             new == [old EXCEPT
                       !.src = {},
                       !.owned = @ \cup KeysOf(old.src),
                       !.adds = @ \cup PlanAdds(old.src, dst, Job[r].options),
                       !.deletes = @ \cup PlanDeletes(old.src, dst, Job[r].options)]
  <2>1. old.src \in SUBSET Planned
    BY <1>0 DEF RunState
  <2>2. dst \in SUBSET Planned
    <3>1. InZone(dest, old.zone) \in SUBSET Listed
      BY DEF InZone, TypeOK
    <3>2. NoMap \in [Values -> Values]
      BY DEF NoMap
    <3> QED
      BY <3>1, <3>2, CollectType
  <2>3. KeysOf(old.src) \in SUBSET Key
    BY <2>1, KeysType
  <2>4. /\ PlanAdds(old.src, dst, Job[r].options) \in SUBSET Planned
        /\ PlanDeletes(old.src, dst, Job[r].options) \in SUBSET Planned
    BY <2>1, <2>2, PlanType
  <2>5. new \in RunState
    <3> HIDE DEF dst
    <3> QED
      BY <1>0, <2>3, <2>4 DEF RunState
  <2>6. Ended("ok") \in RunState
    BY EndedType DEF Pcs, Idle
  <2> DEFINE next == IF new.todo # {} THEN [new EXCEPT !.pc = "source"]
                                      ELSE AfterPlan(r, new)
  <2>7. run' = [run EXCEPT ![r] = next]
    BY <1>2 DEF ListDest, Become
  <2>8. next \in RunState
    <3> HIDE DEF new
    <3> QED
      BY <2>5, <2>6 DEF AfterPlan, RunState
  <2> QED
    <3> HIDE DEF next
    <3> QED
      BY <1>2, <2>7, <2>8 DEF ListDest, TypeOK
<1> QED
  BY <1>1, <1>2

LEMMA ApplyStepTypes ==
  ASSUME TypeOK, NEW r \in Runs,
         \/ \E p \in run[r].adds : AddRecord(r, p)
         \/ \E d \in run[r].deletes : DeleteRecord(r, d)
         \/ EndApply(r)
  PROVE  TypeOK'
<1> DEFINE old == run[r]
<1>0. old \in RunState
  BY DEF TypeOK
<1>1. ASSUME NEW p \in old.adds, AddRecord(r, p) PROVE TypeOK'
  <2>1. p \in Planned
    BY <1>0 DEF RunState
  <2>2. AfterAdd(dest, p) \in SUBSET Listed
    BY <2>1, DestType DEF TypeOK
  <2>3. KeyOf(p) \in Key
    BY <2>1 DEF KeyOf, Key, Planned
  <2>4. [old EXCEPT !.tried = @ \cup {p}, !.added = @ \cup {p}] \in RunState
    BY <1>0, <2>1 DEF RunState
  <2>5. written' \in [LedgerKeys -> SUBSET Key]
    BY <1>1, <2>3 DEF AddRecord, TypeOK
  <2> QED
    BY <1>1, <2>2, <2>4, <2>5 DEF AddRecord, Become, TypeOK
<1>2. ASSUME NEW d \in old.deletes, DeleteRecord(r, d) PROVE TypeOK'
  <2>1. dest' \in SUBSET Listed
    BY <1>2, DestType DEF DeleteRecord, TypeOK
  <2>2. [old EXCEPT !.gone = @ \cup {d}] \in RunState
    BY <1>0 DEF RunState
  <2> QED
    BY <1>2, <2>1, <2>2 DEF DeleteRecord, Become, TypeOK
<1>3. ASSUME EndApply(r) PROVE TypeOK'
  <2>1. Ended("err") \in RunState /\ Ended("ok") \in RunState
    BY EndedType DEF Pcs, Idle
  <2>2. [old EXCEPT !.pc = "load"] \in RunState
    BY <1>0 DEF RunState
  <2> QED
    BY <1>3, <2>1, <2>2 DEF EndApply, Finish, Become, TypeOK
<1> QED
  BY <1>1, <1>2, <1>3

LEMMA PruneStepTypes ==
  ASSUME TypeOK, NEW r \in Runs,
         \/ LoadOwned(r)
         \/ \E z \in Zones : ListLive(r, z)
         \/ \E k \in run[r].pending : PruneRecord(r, k) \/ SkipDrifted(r, k)
         \/ RecordOwned(r) \/ ForgetOwned(r)
  PROVE  TypeOK'
<1> DEFINE old == run[r]
<1>0. /\ old \in RunState
      /\ KeyFor(r) \in LedgerKeys
  BY RecordSyncAssumption DEF TypeOK, KeyFor, RecordSyncAssumption, JobConfig
<1>e. Ended("err") \in RunState /\ Ended("ok") \in RunState
  BY EndedType DEF Pcs, Idle
<1>1. ASSUME LoadOwned(r) PROVE TypeOK'
  <2> DEFINE previous == ledger[KeyFor(r)]
             kept == IF old.teardown THEN {} ELSE previous \cap old.owned
             new == [old EXCEPT !.pc = "prune",
                                !.newOwned = KeysOf(old.adds) \cup kept,
                                !.pending = previous \ kept]
  <2>1. previous \in SUBSET Key
    BY <1>0 DEF TypeOK
  <2>2. KeysOf(old.adds) \in SUBSET Key
    BY <1>0, KeysType DEF RunState
  <2>3. new \in RunState
    <3> HIDE DEF previous
    <3> QED
      BY <1>0, <2>1, <2>2 DEF RunState
  <2>4. PruneNext(new) \in RunState
    BY <2>3, PruneNextType
  <2> QED
    BY <1>1, <1>e, <2>4 DEF LoadOwned, Become, TypeOK
<1>2. ASSUME NEW z \in Zones, ListLive(r, z) PROVE TypeOK'
  <2> DEFINE L == CollectRecords(InZone(dest, z), NoMap)
  <2>1. L \in SUBSET Planned
    <3>1. InZone(dest, z) \in SUBSET Listed
      BY DEF InZone, TypeOK
    <3>2. NoMap \in [Values -> Values]
      BY DEF NoMap
    <3> QED
      BY <3>1, <3>2, CollectType
  <2>2. KeysOf(L) \in SUBSET Key
    BY <2>1, KeysType
  <2>3. [old EXCEPT !.pc = "pruning", !.zone = z, !.live = KeysOf(L)] \in RunState
    <3> HIDE DEF L
    <3> QED
      BY <1>0, <2>2 DEF RunState
  <2> QED
    BY <1>2, <2>3 DEF ListLive, Become, TypeOK
<1>3. ASSUME NEW k \in old.pending, PruneRecord(r, k) \/ SkipDrifted(r, k)
      PROVE  TypeOK'
  <2> DEFINE new == [old EXCEPT !.pending = @ \ {k}, !.forget = @ \cup {k}]
  <2>1. new \in RunState
    BY <1>0 DEF RunState
  <2>2. PruneNext(new) \in RunState
    BY <2>1, PruneNextType
  <2>3. dest' \in SUBSET Listed
    BY <1>3, DestType DEF PruneRecord, SkipDrifted, TypeOK
  <2> QED
    BY <1>3, <2>2, <2>3 DEF PruneRecord, SkipDrifted, Become, TypeOK
<1>4. ASSUME RecordOwned(r) \/ ForgetOwned(r) PROVE TypeOK'
  <2>1. ledger' \in [LedgerKeys -> SUBSET Key]
    BY <1>0, <1>4 DEF RecordOwned, ForgetOwned, TypeOK, RunState
  <2>2. [old EXCEPT !.pc = "forget"] \in RunState
    BY <1>0 DEF RunState
  <2> QED
    BY <1>4, <1>e, <2>1, <2>2
    DEF RecordOwned, ForgetOwned, EndPrune, Finish, Become, TypeOK
<1> QED
  BY <1>1, <1>2, <1>3, <1>4

\* Any step, of a run or of somebody who edits a server, keeps the types.
LEMMA TypeStep == TypeOK /\ [Next]_vars => TypeOK'
<1> SUFFICES ASSUME TypeOK, [Next]_vars PROVE TypeOK'
  OBVIOUS
<1>1. CASE Edit
  <2>1. budget' \in Budget
    BY <1>1, SpendType DEF Edit, EditSource, EditForeign, TypeOK
  <2>2. /\ SourceRecords \subseteq Listed
        /\ ForeignRecords \subseteq Listed
    BY RecordSyncAssumption DEF RecordSyncAssumption
  <2>3. source' \in SUBSET Listed /\ dest' \in SUBSET Listed
    BY <1>1, <2>2, DestType DEF Edit, EditSource, EditForeign, TypeOK
  <2> QED
    BY <1>1, <2>1, <2>3 DEF Edit, EditSource, EditForeign, TypeOK
<1>2. ASSUME NEW r \in Runs, Start(r) PROVE TypeOK'
  BY <1>2, StartTypes
<1>3. ASSUME NEW r \in Runs, Fault(r) PROVE TypeOK'
  BY <1>3, FaultTypes
<1>4. ASSUME NEW r \in Runs, Progress(r) PROVE TypeOK'
  BY <1>4, PlanStepTypes, ApplyStepTypes, PruneStepTypes DEF Progress
<1>5. CASE UNCHANGED vars
  BY <1>5 DEF vars, TypeOK
<1> QED
  BY <1>1, <1>2, <1>3, <1>4, <1>5 DEF Next

LEMMA TypeInit == Init => TypeOK
<1> SUFFICES ASSUME Init PROVE TypeOK
  OBVIOUS
<1>1. Ended("idle") \in RunState
  BY EndedType DEF Pcs, Idle
<1>2. budget \in Budget
  BY RecordSyncAssumption DEF RecordSyncAssumption, Init, Budget
<1> QED
  BY <1>1, <1>2, RecordSyncAssumption DEF RecordSyncAssumption, Init, TypeOK

\* Type correctness of the whole model: no interleaving of runs, edits,
\* faults and crashes takes a variable out of its type.
THEOREM TypeCorrect == Spec => []TypeOK
BY TypeInit, TypeStep, PTL DEF Spec

-----------------------------------------------------------------------------
(* The ledger is backed by acknowledged writes *)

Grows == \A k \in LedgerKeys : written[k] \subseteq written'[k]

\* What a run says of itself survives any step that leaves the run alone.
LEMMA OthersBacked ==
  ASSUME TypeOK, NEW q \in Runs, RunBacked(q), run'[q] = run[q], Grows
  PROVE  RunBacked(q)'
<1>1. KeyFor(q)' = KeyFor(q)
  BY DEF KeyFor
<1>2. KeyFor(q) \in LedgerKeys
  BY RecordSyncAssumption DEF KeyFor, RecordSyncAssumption, JobConfig
<1>3. written[KeyFor(q)] \subseteq written'[KeyFor(q)]
  BY <1>2 DEF Grows
<1> QED
  BY <1>1, <1>3 DEF RunBacked

\* A run that has ended, or that has planned nothing yet, claims nothing.
LEMMA FreshBacked ==
  ASSUME NEW q \in Runs,
         \/ run'[q].pc \in Idle \cup {"source", "dest"}
         \/ run'[q].pc = "load",
         run'[q].tried = {}, run'[q].added = {}, run'[q].adds = {}, run'[q].forget = {}
  PROVE  RunBacked(q)'
BY DEF RunBacked, Idle, KeysOf

LEMMA StepElsewhere ==
  ASSUME TypeOK, NEW r \in Runs, NEW new, Become(r, new)
  PROVE  /\ run'[r] = new
         /\ \A q \in Runs \ {r} : run'[q] = run[q]
BY DEF TypeOK, Become

\* One step of slot r keeps the inductive invariant: it is enough that the
\* acknowledged writes only grow, the ledger stays within them, and the new
\* state of r is backed.
LEMMA BackedStep ==
  ASSUME OwnershipInv, TypeOK', NEW r \in Runs, NEW new, Become(r, new),
         Grows, LedgerBacked', RunBacked(r)'
  PROVE  OwnershipInv'
<1>1. ASSUME NEW q \in Runs \ {r} PROVE RunBacked(q)'
  BY <1>1, StepElsewhere, OthersBacked DEF OwnershipInv
<1> QED
  BY <1>1 DEF OwnershipInv

\* Ending a run, however it ends, keeps the invariant.
LEMMA FinishBacked ==
  ASSUME OwnershipInv, TypeOK', NEW r \in Runs, NEW how \in Idle,
         Finish(r, how), Grows, LedgerBacked'
  PROVE  OwnershipInv'
<1>1. run'[r] = Ended(how)
  BY StepElsewhere DEF Finish, OwnershipInv
<1>2. RunBacked(r)'
  BY <1>1, FreshBacked DEF Ended
<1> QED
  BY <1>2, BackedStep DEF Finish

\* A step that writes neither ledger nor history keeps both conditions.
LEMMA SameLedger ==
  ASSUME LedgerBacked, UNCHANGED <<ledger, written>>
  PROVE  Grows /\ LedgerBacked'
BY DEF Grows, LedgerBacked

LEMMA PruneNextFields ==
  ASSUME NEW new \in RunState
  PROVE  LET s == PruneNext(new) IN
         /\ s.tried = new.tried /\ s.added = new.added /\ s.adds = new.adds
         /\ s.newOwned = new.newOwned /\ s.pending = new.pending
         /\ s.forget = new.forget /\ s.teardown = new.teardown
         /\ s.pc = new.pc \/ s.pc \in {"prune", "record", "forget"}
BY DEF PruneNext, RunState

\* While a run prunes, its claims may shrink and what it forgets comes from
\* what it was to prune.
LEMMA PruningBacked ==
  ASSUME OwnershipInv, TypeOK', NEW r \in Runs, NEW new \in RunState,
         Become(r, PruneNext(new)),
         run[r].pc \in {"prune", "pruning"}, new.pc \in {"prune", "pruning"},
         new.tried = run[r].tried, new.added = run[r].added,
         new.adds = run[r].adds, new.newOwned = run[r].newOwned,
         new.teardown = run[r].teardown,
         new.pending \subseteq run[r].pending,
         new.forget \subseteq run[r].forget \cup run[r].pending,
         UNCHANGED <<ledger, written>>
  PROVE  OwnershipInv'
<1>1. run'[r] = PruneNext(new)
  BY StepElsewhere DEF OwnershipInv
<1>2. KeyFor(r)' = KeyFor(r)
  BY <1>1, PruneNextFields DEF KeyFor
<1>3. RunBacked(r)
  BY DEF OwnershipInv
<1>4. RunBacked(r)'
  <2> DEFINE s == PruneNext(new)
  <2>1. /\ s.tried = run[r].tried /\ s.added = run[r].added
        /\ s.adds = run[r].adds /\ s.newOwned = run[r].newOwned
        /\ s.pending \subseteq run[r].pending
        /\ s.forget \subseteq run[r].forget \cup run[r].pending
        /\ s.pc \in {"prune", "pruning", "record", "forget"}
    BY PruneNextFields
  <2> HIDE DEF s
  <2>2. run'[r] = s
    BY <1>1 DEF s
  <2> QED
    BY <1>2, <1>3, <2>1, <2>2 DEF RunBacked
<1> QED
  BY <1>4, SameLedger, BackedStep DEF OwnershipInv

\* The steps that plan: nothing has been added yet.
LEMMA PlanningBacked ==
  ASSUME OwnershipInv, TypeOK', NEW r \in Runs,
         Start(r) \/ (\E z \in Zones : ListSource(r, z)) \/ ListDest(r)
  PROVE  OwnershipInv'
<1>0. /\ run[r] \in RunState
      /\ RunBacked(r)
      /\ UNCHANGED <<ledger, written>>
  BY DEF OwnershipInv, TypeOK, Start, StartSync, StartTeardown, ListSource, ListDest
<1>1. Grows /\ LedgerBacked'
  BY <1>0, SameLedger DEF OwnershipInv
<1>2. ASSUME NEW apply \in BOOLEAN, StartSync(r, apply) PROVE OwnershipInv'
  <2> DEFINE new == [Ended("source") EXCEPT !.apply = apply, !.todo = Zones]
  <2>1. Become(r, new)
    BY <1>2 DEF StartSync
  <2>2. run'[r] = new
    BY <2>1, StepElsewhere DEF OwnershipInv
  <2>3. RunBacked(r)'
    BY <2>2, FreshBacked DEF Ended
  <2> QED
    BY <1>1, <2>1, <2>3, BackedStep
<1>3. ASSUME NEW apply \in BOOLEAN, StartTeardown(r, apply) PROVE OwnershipInv'
  <2> DEFINE new == [Ended("load") EXCEPT !.apply = apply, !.teardown = TRUE]
  <2>1. Become(r, new)
    BY <1>3 DEF StartTeardown
  <2>2. run'[r] = new
    BY <2>1, StepElsewhere DEF OwnershipInv
  <2>3. RunBacked(r)'
    BY <2>2, FreshBacked DEF Ended
  <2> QED
    BY <1>1, <2>1, <2>3, BackedStep
<1>4. ASSUME NEW z \in Zones, ListSource(r, z) PROVE OwnershipInv'
  <2> DEFINE src == NotIgnored(CollectRecords(InZone(source, z), IpMap), Job[r].options)
             new == [run[r] EXCEPT !.pc = "dest", !.zone = z,
                                   !.todo = @ \ {z}, !.src = src]
  <2>1. Become(r, new)
    BY <1>4 DEF ListSource
  <2>2. run'[r] = new
    BY <2>1, StepElsewhere DEF OwnershipInv
  <2>3. /\ new.pc = "dest" /\ new.tried = run[r].tried
        /\ new.added = run[r].added /\ new.adds = run[r].adds
        /\ new.forget = run[r].forget
    <3> HIDE DEF src
    <3> QED
      BY <1>0 DEF RunState
  <2>4. run[r].pc = "source"
    BY <1>4 DEF ListSource
  <2>5. RunBacked(r)'
    <3> HIDE DEF new
    <3> QED
      BY <1>0, <2>2, <2>3, <2>4 DEF RunBacked
  <2> QED
    BY <1>1, <2>1, <2>5, BackedStep
<1>5. ASSUME ListDest(r) PROVE OwnershipInv'
  <2> DEFINE dst == CollectRecords(InZone(dest, run[r].zone), NoMap)
             plus == PlanAdds(run[r].src, dst, Job[r].options)
             minus == PlanDeletes(run[r].src, dst, Job[r].options)
             new == [run[r] EXCEPT !.src = {},
                                   !.owned = @ \cup KeysOf(run[r].src),
                                   !.adds = @ \cup plus,
                                   !.deletes = @ \cup minus]
             next == IF new.todo # {} THEN [new EXCEPT !.pc = "source"]
                                      ELSE AfterPlan(r, new)
  <2>1. Become(r, next)
    BY <1>5 DEF ListDest
  <2>2. run'[r] = next
    BY <2>1, StepElsewhere DEF OwnershipInv
  <2>3. run[r].tried = {} /\ run[r].added = {} /\ run[r].forget = {}
    BY <1>0, <1>5 DEF ListDest, RunBacked
  <2>4. /\ new.tried = {} /\ new.added = {} /\ new.forget = {}
        /\ DOMAIN new = DOMAIN run[r]
    <3> HIDE DEF plus, minus
    <3> QED
      BY <1>0, <2>3 DEF RunState
  <2>5. \/ next = Ended("ok")
        \/ /\ next.tried = {} /\ next.added = {} /\ next.forget = {}
           /\ \/ next.pc \in {"source", "apply"}
              \/ next.pc = "load" /\ (next.apply => next.adds = {})
    <3>1. DOMAIN new = DOMAIN Ended("ok")
      BY <1>0, <2>4 DEF RunState, Ended
    <3> HIDE DEF new
    <3> QED
      BY <2>4, <3>1 DEF AfterPlan, Ended
  <2>6. RunBacked(r)'
    <3> HIDE DEF next
    <3>1. CASE next = Ended("ok")
      BY <2>2, <3>1, FreshBacked DEF Ended, Idle
    <3>2. CASE next # Ended("ok")
      BY <2>2, <2>5, <3>2 DEF RunBacked, KeysOf
    <3> QED
      BY <3>1, <3>2
  <2> QED
    <3> HIDE DEF next
    <3> QED
      BY <1>1, <2>1, <2>6, BackedStep
<1> QED
  BY <1>2, <1>3, <1>4, <1>5 DEF Start

\* The steps that apply: an acknowledged add enters the history, and the run
\* goes on to the ledger only when every planned add was acknowledged.
LEMMA ApplyingBacked ==
  ASSUME OwnershipInv, TypeOK', NEW r \in Runs,
         \/ \E p \in run[r].adds : AddRecord(r, p) \/ AddFails(r, p)
         \/ \E d \in run[r].deletes : DeleteRecord(r, d) \/ DeleteFails(r, d)
         \/ EndApply(r)
  PROVE  OwnershipInv'
<1>0. /\ run[r] \in RunState
      /\ RunBacked(r)
      /\ run[r].pc = "apply"
      /\ KeyFor(r) \in LedgerKeys
  BY RecordSyncAssumption
  DEF OwnershipInv, TypeOK, AddRecord, AddFails, DeleteRecord, DeleteFails,
      CanDelete, EndApply, KeyFor, RecordSyncAssumption, JobConfig
<1>1. ASSUME NEW p \in run[r].adds, AddRecord(r, p) PROVE OwnershipInv'
  <2> DEFINE new == [run[r] EXCEPT !.tried = @ \cup {p}, !.added = @ \cup {p}]
  <2>1. Become(r, new)
    BY <1>1 DEF AddRecord
  <2>2. run'[r] = new
    BY <2>1, StepElsewhere DEF OwnershipInv
  <2>3. Grows /\ LedgerBacked'
    BY <1>1 DEF AddRecord, Grows, LedgerBacked, OwnershipInv, TypeOK
  <2>4. KeyFor(r)' = KeyFor(r)
    BY <1>0, <2>2 DEF KeyFor, RunState
  <2>5. written'[KeyFor(r)] = written[KeyFor(r)] \cup {KeyOf(p)}
    BY <1>0, <1>1 DEF AddRecord, OwnershipInv, TypeOK
  <2>6. KeysOf(run[r].added \cup {p}) \subseteq written'[KeyFor(r)]
    BY <1>0, <2>5 DEF RunBacked, KeysOf
  <2>7. /\ run'[r].pc = "apply" /\ run'[r].adds = run[r].adds
        /\ run'[r].forget = run[r].forget
        /\ run'[r].tried = run[r].tried \cup {p}
        /\ run'[r].added = run[r].added \cup {p}
    BY <1>0, <2>2 DEF RunState
  <2>8. RunBacked(r)'
    BY <1>0, <2>4, <2>6, <2>7 DEF RunBacked
  <2> QED
    BY <2>1, <2>3, <2>8, BackedStep
<1>2. ASSUME NEW p \in run[r].adds, AddFails(r, p) PROVE OwnershipInv'
  <2> DEFINE new == [run[r] EXCEPT !.tried = @ \cup {p}]
  <2>1. Become(r, new)
    BY <1>2 DEF AddFails
  <2>2. run'[r] = new
    BY <2>1, StepElsewhere DEF OwnershipInv
  <2>3. Grows /\ LedgerBacked'
    BY <1>2, SameLedger DEF AddFails, OwnershipInv
  <2>4. /\ run'[r].pc = "apply" /\ run'[r].adds = run[r].adds
        /\ run'[r].forget = run[r].forget /\ run'[r].added = run[r].added
        /\ run'[r].tried = run[r].tried \cup {p}
        /\ run'[r].teardown = run[r].teardown
    BY <1>0, <2>2 DEF RunState
  <2>5. RunBacked(r)'
    <3>1. KeyFor(r)' = KeyFor(r) /\ written' = written
      BY <1>2, <2>4 DEF AddFails, KeyFor
    <3> QED
      BY <1>0, <2>4, <3>1 DEF RunBacked
  <2> QED
    BY <2>1, <2>3, <2>5, BackedStep
<1>3. ASSUME NEW d \in run[r].deletes, DeleteRecord(r, d) \/ DeleteFails(r, d)
      PROVE  OwnershipInv'
  <2>1. PICK new : /\ Become(r, new)
                   /\ \/ new = [run[r] EXCEPT !.gone = @ \cup {d}]
                      \/ new = [run[r] EXCEPT !.gone = @ \cup {d}, !.failed = TRUE]
    BY <1>3 DEF DeleteRecord, DeleteFails
  <2>2. run'[r] = new
    BY <2>1, StepElsewhere DEF OwnershipInv
  <2>3. Grows /\ LedgerBacked'
    BY <1>3, SameLedger DEF DeleteRecord, DeleteFails, OwnershipInv
  <2>4. /\ run'[r].pc = "apply" /\ run'[r].adds = run[r].adds
        /\ run'[r].forget = run[r].forget /\ run'[r].added = run[r].added
        /\ run'[r].tried = run[r].tried /\ run'[r].teardown = run[r].teardown
    BY <1>0, <2>1, <2>2 DEF RunState
  <2>5. KeyFor(r)' = KeyFor(r) /\ written' = written
    BY <1>3, <2>4 DEF DeleteRecord, DeleteFails, KeyFor
  <2>6. RunBacked(r)'
    BY <1>0, <2>4, <2>5 DEF RunBacked
  <2> QED
    BY <2>1, <2>3, <2>6, BackedStep
<1>4. ASSUME EndApply(r) PROVE OwnershipInv'
  <2>1. Grows /\ LedgerBacked'
    BY <1>4, SameLedger DEF EndApply, OwnershipInv
  <2>2. CASE Finish(r, "err") \/ Finish(r, "ok")
    BY <2>1, <2>2, FinishBacked DEF Idle
  <2>3. CASE ~(Finish(r, "err") \/ Finish(r, "ok"))
    <3> DEFINE new == [run[r] EXCEPT !.pc = "load"]
    <3>1. Become(r, new) /\ run[r].tried = run[r].added
      BY <1>4, <2>3 DEF EndApply
    <3>2. run'[r] = new
      BY <3>1, StepElsewhere DEF OwnershipInv
    <3>3. run[r].adds \subseteq run[r].tried
      <4> SUFFICES ASSUME NEW p \in run[r].adds, p \notin run[r].tried PROVE FALSE
        OBVIOUS
      <4>1. ZoneOf[p.name] \in Zones
        BY <1>0, PlanAssumption DEF PlanAssumption, RunState, Planned
      <4>2. AddsLeft(r, ZoneOf[p.name]) = {}
        BY <1>4, <4>1 DEF EndApply, ZoneDone
      <4> QED
        BY <4>2 DEF AddsLeft, InZone
    <3>4. KeysOf(run[r].adds) \subseteq written[KeyFor(r)]
      BY <1>0, <3>1, <3>3 DEF RunBacked, KeysOf
    <3>5. /\ run'[r].pc = "load" /\ run'[r].adds = run[r].adds
          /\ run'[r].forget = run[r].forget /\ run'[r].added = run[r].added
          /\ run'[r].tried = run[r].tried /\ run'[r].teardown = run[r].teardown
      BY <1>0, <3>2 DEF RunState
    <3>6. KeyFor(r)' = KeyFor(r) /\ written' = written
      BY <1>4, <3>5 DEF EndApply, KeyFor
    <3>7. RunBacked(r)'
      BY <1>0, <3>4, <3>5, <3>6 DEF RunBacked
    <3> QED
      BY <2>1, <3>1, <3>7, BackedStep
  <2> QED
    BY <2>2, <2>3
<1> QED
  BY <1>1, <1>2, <1>3, <1>4

\* The steps that prune and write the ledger: candidates come from the
\* ledger, which is backed, and new rows from acknowledged adds.
LEMMA PruneAndRecordBacked ==
  ASSUME OwnershipInv, TypeOK', NEW r \in Runs,
         \/ LoadOwned(r)
         \/ \E z \in Zones : ListLive(r, z) \/ ListLiveFails(r, z)
         \/ \E k \in run[r].pending :
              PruneRecord(r, k) \/ PruneFails(r, k) \/ SkipDrifted(r, k)
         \/ RecordOwned(r) \/ ForgetOwned(r)
  PROVE  OwnershipInv'
<1> DEFINE old == run[r]
<1>0. /\ old \in RunState
      /\ RunBacked(r)
      /\ KeyFor(r) \in LedgerKeys
  BY RecordSyncAssumption
  DEF OwnershipInv, TypeOK, KeyFor, RecordSyncAssumption, JobConfig
<1>1. ASSUME LoadOwned(r) PROVE OwnershipInv'
  <2>1. Grows /\ LedgerBacked'
    BY <1>1, SameLedger DEF LoadOwned, OwnershipInv
  <2>2. CASE ~old.apply
    <3>1. Finish(r, "ok")
      BY <1>1, <2>2 DEF LoadOwned, Finish
    <3> QED
      BY <2>1, <3>1, FinishBacked DEF Idle
  <2>3. CASE old.apply
    <3> DEFINE previous == ledger[KeyFor(r)]
               kept == IF old.teardown THEN {} ELSE previous \cap old.owned
               new == [old EXCEPT !.pc = "prune",
                                  !.newOwned = KeysOf(old.adds) \cup kept,
                                  !.pending = previous \ kept]
    <3>1. Become(r, PruneNext(new))
      BY <1>1, <2>3 DEF LoadOwned
    <3>2. run'[r] = PruneNext(new)
      BY <3>1, StepElsewhere DEF OwnershipInv
    <3>3. /\ previous \subseteq written[KeyFor(r)]
          /\ previous \in SUBSET Key
      BY <1>0 DEF OwnershipInv, LedgerBacked, TypeOK
    <3>4. KeysOf(old.adds) \subseteq written[KeyFor(r)] /\ old.forget = {}
      BY <1>0, <1>1, <2>3 DEF RunBacked, LoadOwned
    <3>5. KeysOf(old.adds) \in SUBSET Key
      BY <1>0, KeysType DEF RunState
    <3>6. /\ new \in RunState
          /\ new.pc = "prune" /\ new.adds = old.adds /\ new.tried = old.tried
          /\ new.added = old.added /\ new.forget = {}
          /\ new.teardown = old.teardown
          /\ new.newOwned \subseteq written[KeyFor(r)]
          /\ new.pending \subseteq written[KeyFor(r)]
      <4> HIDE DEF previous
      <4> QED
        BY <1>0, <3>3, <3>4, <3>5 DEF RunState
    <3>7. /\ run'[r].pc \in {"prune", "record", "forget"}
          /\ run'[r].adds = old.adds /\ run'[r].tried = old.tried
          /\ run'[r].added = old.added /\ run'[r].forget = {}
          /\ run'[r].teardown = old.teardown
          /\ run'[r].newOwned \cup run'[r].pending \subseteq written[KeyFor(r)]
      <4> HIDE DEF new
      <4> QED
        BY <3>2, <3>6, PruneNextFields
    <3>8. KeyFor(r)' = KeyFor(r) /\ written' = written
      BY <1>1, <3>7 DEF LoadOwned, KeyFor
    <3>9. RunBacked(r)'
      BY <1>0, <3>7, <3>8 DEF RunBacked
    <3> QED
      <4> HIDE DEF new
      <4> QED
        BY <2>1, <3>1, <3>9, BackedStep
  <2> QED
    BY <2>2, <2>3
<1>2. ASSUME NEW z \in Zones, ListLive(r, z) PROVE OwnershipInv'
  <2> DEFINE live == KeysOf(CollectRecords(InZone(dest, z), NoMap))
             new == [old EXCEPT !.pc = "pruning", !.zone = z, !.live = live]
  <2>1. Become(r, new)
    BY <1>2 DEF ListLive
  <2>2. run'[r] = new
    BY <2>1, StepElsewhere DEF OwnershipInv
  <2>3. /\ run'[r].pc = "pruning" /\ run'[r].adds = old.adds
        /\ run'[r].tried = old.tried /\ run'[r].added = old.added
        /\ run'[r].newOwned = old.newOwned /\ run'[r].pending = old.pending
        /\ run'[r].forget = old.forget /\ run'[r].teardown = old.teardown
    <3> HIDE DEF live
    <3> QED
      BY <1>0, <2>2 DEF RunState
  <2>4. KeyFor(r)' = KeyFor(r) /\ written' = written
    BY <1>2, <2>3 DEF ListLive, KeyFor
  <2>5. old.pc = "prune"
    BY <1>2 DEF ListLive
  <2>6. RunBacked(r)'
    BY <1>0, <2>3, <2>4, <2>5 DEF RunBacked
  <2>7. Grows /\ LedgerBacked'
    BY <1>2, SameLedger DEF ListLive, OwnershipInv
  <2> QED
    BY <2>1, <2>6, <2>7, BackedStep
<1>3. ASSUME NEW z \in Zones, ListLiveFails(r, z) PROVE OwnershipInv'
  <2> DEFINE new == [old EXCEPT !.zone = z, !.pruneFailed = TRUE,
                                !.pending = @ \ InZone(@, z)]
  <2>1. Become(r, PruneNext(new)) /\ old.pc = "prune" /\ UNCHANGED <<ledger, written>>
    BY <1>3 DEF ListLiveFails
  <2>2. /\ new \in RunState /\ new.pc = "prune"
        /\ new.adds = old.adds /\ new.tried = old.tried /\ new.added = old.added
        /\ new.newOwned = old.newOwned /\ new.pending \subseteq old.pending
        /\ new.forget = old.forget /\ new.teardown = old.teardown
    BY <1>0, <2>1 DEF RunState
  <2> QED
    <3> HIDE DEF new
    <3> QED
      BY <2>1, <2>2, PruningBacked
<1>4. ASSUME NEW k \in old.pending, PruneRecord(r, k) \/ SkipDrifted(r, k)
      PROVE  OwnershipInv'
  <2> DEFINE new == [old EXCEPT !.pending = @ \ {k}, !.forget = @ \cup {k}]
  <2>1. /\ Become(r, PruneNext(new)) /\ old.pc = "pruning"
        /\ UNCHANGED <<ledger, written>>
    BY <1>4 DEF PruneRecord, SkipDrifted, Candidate
  <2>2. /\ new \in RunState /\ new.pc = "pruning"
        /\ new.adds = old.adds /\ new.tried = old.tried /\ new.added = old.added
        /\ new.newOwned = old.newOwned /\ new.pending \subseteq old.pending
        /\ new.forget \subseteq old.forget \cup old.pending
        /\ new.teardown = old.teardown
    BY <1>0, <2>1 DEF RunState
  <2> QED
    <3> HIDE DEF new
    <3> QED
      BY <2>1, <2>2, PruningBacked
<1>5. ASSUME NEW k \in old.pending, PruneFails(r, k) PROVE OwnershipInv'
  <2> DEFINE new == [old EXCEPT !.pending = @ \ {k}, !.pruneFailed = TRUE]
  <2>1. /\ Become(r, PruneNext(new)) /\ old.pc = "pruning"
        /\ UNCHANGED <<ledger, written>>
    BY <1>5 DEF PruneFails, Candidate
  <2>2. /\ new \in RunState /\ new.pc = "pruning"
        /\ new.adds = old.adds /\ new.tried = old.tried /\ new.added = old.added
        /\ new.newOwned = old.newOwned /\ new.pending \subseteq old.pending
        /\ new.forget = old.forget /\ new.teardown = old.teardown
    BY <1>0, <2>1 DEF RunState
  <2> QED
    <3> HIDE DEF new
    <3> QED
      BY <2>1, <2>2, PruningBacked
<1>6. ASSUME RecordOwned(r) \/ ForgetOwned(r) PROVE OwnershipInv'
  <2>1. old.newOwned \cup old.forget \subseteq written[KeyFor(r)]
    BY <1>0, <1>6 DEF RecordOwned, ForgetOwned, RunBacked
  <2>2. written' = written
    BY <1>6 DEF RecordOwned, ForgetOwned
  <2>3. LedgerBacked'
    BY <1>0, <1>6, <2>1, <2>2
    DEF RecordOwned, ForgetOwned, LedgerBacked, OwnershipInv, TypeOK
  <2>4. Grows
    BY <2>2 DEF Grows
  <2>5. CASE Finish(r, "err") \/ Finish(r, "ok")
    BY <2>3, <2>4, <2>5, FinishBacked DEF Idle
  <2>6. CASE ~(Finish(r, "err") \/ Finish(r, "ok"))
    <3> DEFINE new == [old EXCEPT !.pc = "forget"]
    <3>1. Become(r, new) /\ old.pc = "record"
      BY <1>6, <2>6 DEF RecordOwned, ForgetOwned, EndPrune
    <3>2. run'[r] = new
      BY <3>1, StepElsewhere DEF OwnershipInv
    <3>3. /\ run'[r].pc = "forget" /\ run'[r].adds = old.adds
          /\ run'[r].tried = old.tried /\ run'[r].added = old.added
          /\ run'[r].newOwned = old.newOwned /\ run'[r].pending = old.pending
          /\ run'[r].forget = old.forget /\ run'[r].teardown = old.teardown
      BY <1>0, <3>2 DEF RunState
    <3>4. KeyFor(r)' = KeyFor(r)
      BY <3>3 DEF KeyFor
    <3>5. RunBacked(r)'
      BY <1>0, <2>2, <3>1, <3>3, <3>4 DEF RunBacked
    <3> QED
      BY <2>3, <2>4, <3>1, <3>5, BackedStep
  <2> QED
    BY <2>5, <2>6
<1> QED
  BY <1>1, <1>2, <1>3, <1>4, <1>5, <1>6

LEMMA FailureBacked ==
  ASSUME OwnershipInv, TypeOK', NEW r \in Runs, Abort(r) \/ Crash(r)
  PROVE  OwnershipInv'
<1>1. Grows /\ LedgerBacked'
  BY SameLedger DEF Abort, Crash, OwnershipInv
<1> QED
  BY <1>1, FinishBacked DEF Abort, Crash, Idle

LEMMA OwnershipInit == Init => OwnershipInv
<1> SUFFICES ASSUME Init PROVE OwnershipInv
  OBVIOUS
<1>1. ASSUME NEW r \in Runs PROVE RunBacked(r)
  <2>1. run[r] = Ended("idle")
    BY DEF Init
  <2> QED
    BY <2>1 DEF RunBacked, Ended
<1>2. LedgerBacked
  BY DEF Init, LedgerBacked
<1> QED
  BY <1>1, <1>2, TypeInit DEF OwnershipInv

LEMMA OwnershipStep == OwnershipInv /\ [Next]_vars => OwnershipInv'
<1> SUFFICES ASSUME OwnershipInv, [Next]_vars PROVE OwnershipInv'
  OBVIOUS
<1>0. TypeOK'
  BY TypeStep DEF OwnershipInv
<1>1. CASE Edit \/ UNCHANGED vars
  <2>1. UNCHANGED <<ledger, run, written>>
    BY <1>1 DEF Edit, EditSource, EditForeign, vars
  <2>2. Grows /\ LedgerBacked'
    BY <2>1, SameLedger DEF OwnershipInv
  <2>3. ASSUME NEW q \in Runs PROVE RunBacked(q)'
    BY <2>1, <2>2, <2>3, OthersBacked DEF OwnershipInv
  <2> QED
    BY <1>0, <2>2, <2>3 DEF OwnershipInv
<1>2. ASSUME NEW r \in Runs, Start(r) PROVE OwnershipInv'
  BY <1>0, <1>2, PlanningBacked
<1>3. ASSUME NEW r \in Runs, Fault(r) PROVE OwnershipInv'
  BY <1>0, <1>3, FailureBacked, ApplyingBacked, PruneAndRecordBacked DEF Fault
<1>4. ASSUME NEW r \in Runs, Progress(r) PROVE OwnershipInv'
  BY <1>0, <1>4, PlanningBacked, ApplyingBacked, PruneAndRecordBacked DEF Progress
<1> QED
  BY <1>1, <1>2, <1>3, <1>4 DEF Next

\* The inductive invariant holds throughout.
THEOREM OwnershipInvariant == Spec => []OwnershipInv
BY OwnershipInit, OwnershipStep, PTL DEF Spec

\* Whatever fails, crashes or interleaves, the ledger of a job claims only
\* records whose add the destination acknowledged to that job.
THEOREM LedgerIsBacked == Spec => []LedgerBacked
<1>1. OwnershipInv => LedgerBacked
  BY DEF OwnershipInv
<1> QED
  BY <1>1, OwnershipInvariant, PTL

-----------------------------------------------------------------------------
(* What a step of a run may do to the destination *)

\* A step of slot r leaves the other slots alone, and only applying and
\* pruning touch the destination.
LEMMA StepOfSlot ==
  ASSUME TypeOK, NEW r \in Runs, Start(r) \/ Progress(r) \/ Fault(r)
  PROVE  /\ \A q \in Runs \ {r} : run'[q] = run[q]
         /\ \/ dest' = dest
            \/ run[r].pc = "apply"
            \/ \E k \in run[r].pending : dest' \in AfterDelete(dest, k)
<1>1. CASE Start(r)
  BY <1>1, StepElsewhere DEF Start, StartSync, StartTeardown
<1>2. CASE Fault(r)
  <2>1. \E new : Become(r, new)
    BY <1>2 DEF Fault, Abort, Crash, AddFails, DeleteFails, ListLiveFails,
                PruneFails, Finish
  <2>2. ASSUME NEW k \in run[r].pending, PruneFails(r, k)
        PROVE  dest' = dest \/ dest' \in AfterDelete(dest, k)
    BY <2>2, FailedDelete DEF PruneFails
  <2>3. \/ dest' = dest
        \/ run[r].pc = "apply"
        \/ \E k \in run[r].pending : dest' \in AfterDelete(dest, k)
    BY <1>2, <2>2 DEF Fault, Abort, Crash, AddFails, DeleteFails, CanDelete, ListLiveFails
  <2> QED
    BY <2>1, <2>3, StepElsewhere
<1>3. CASE Progress(r)
  <2>1. \E new : Become(r, new)
    BY <1>3 DEF Progress, ListSource, ListLive, ListDest, EndApply, LoadOwned,
                RecordOwned, ForgetOwned, AddRecord, DeleteRecord, PruneRecord,
                SkipDrifted, EndPrune, Finish
  <2>2. \/ dest' = dest
        \/ run[r].pc = "apply"
        \/ \E k \in run[r].pending : dest' \in AfterDelete(dest, k)
    BY <1>3 DEF Progress, ListSource, ListLive, ListDest, EndApply, LoadOwned,
                RecordOwned, ForgetOwned, AddRecord, DeleteRecord, CanDelete,
                PruneRecord, SkipDrifted
  <2> QED
    BY <2>1, <2>2, StepElsewhere
<1> QED
  BY <1>1, <1>2, <1>3

\* Except on Cloudflare, a delete takes no record but those of its key.
LEMMA DeleteTakesKey ==
  ASSUME Vendor # "cloudflare" \/ Structured = {},
         dest \in SUBSET Listed, NEW k \in Key, NEW e \in AfterDelete(dest, k)
  PROVE  KeysOf(dest \ e) \subseteq {k}
<1> SUFFICES ASSUME NEW x \in dest \ e PROVE KeyOf(x) = k
  BY DEF KeysOf
<1>1. x \in DeleteMatches(dest, k)
  BY DEF AfterDelete, DeleteMatches
<1>2. SameRecord(x, k)
  BY <1>1 DEF DeleteMatches
<1> QED
  BY <1>2 DEF SameRecord, KeyOf, Key

\* Pruning removes only what the job itself wrote, whatever else happens to
\* either server meanwhile, on every vendor that deletes by value.
THEOREM PruneIsOwn ==
  ASSUME Vendor # "cloudflare" \/ Structured = {}
  PROVE  Spec => PruneRemovesOnlyWritten
<1> DEFINE Own == \A r \in Runs : run[r].pc = "pruning" /\ Steps(r) =>
                    KeysOf(dest \ dest') \subseteq written[KeyFor(r)]
<1>1. OwnershipInv /\ [Next]_vars => [Own]_vars
  <2> SUFFICES ASSUME OwnershipInv, Next, NEW r \in Runs,
                      run[r].pc = "pruning", Steps(r)
               PROVE  KeysOf(dest \ dest') \subseteq written[KeyFor(r)]
    OBVIOUS
  <2>1. Start(r) \/ Progress(r) \/ Fault(r)
    <3>1. ~Edit
      BY DEF Edit, EditSource, EditForeign, Steps
    <3>2. PICK q \in Runs : Start(q) \/ Progress(q) \/ Fault(q)
      BY <3>1 DEF Next
    <3>3. q = r
      BY <3>2, StepOfSlot DEF Steps, OwnershipInv
    <3> QED
      BY <3>2, <3>3
  <2>2. CASE dest' = dest
    BY <2>2 DEF KeysOf
  <2>3. ASSUME NEW k \in run[r].pending, dest' \in AfterDelete(dest, k)
        PROVE  KeysOf(dest \ dest') \subseteq written[KeyFor(r)]
    <3>1. k \in Key /\ dest \in SUBSET Listed
      BY DEF OwnershipInv, TypeOK, RunState
    <3>2. k \in written[KeyFor(r)]
      BY DEF OwnershipInv, RunBacked
    <3>3. KeysOf(dest \ dest') \subseteq {k}
      BY <2>3, <3>1, DeleteTakesKey
    <3> QED
      BY <3>2, <3>3
  <2> QED
    BY <2>1, <2>2, <2>3, StepOfSlot DEF OwnershipInv
<1> QED
  BY <1>1, OwnershipInvariant, PTL DEF Spec, PruneRemovesOnlyWritten

-----------------------------------------------------------------------------
(* Dry runs *)

\* A dry run gets no further than its plan and the loading of the ledger.
DryStops(s) == s.apply \/ s.pc \in Idle \cup {"source", "dest", "load"}
DryInv == \A r \in Runs : DryStops(run[r])

LEMMA EndedDry == \A how \in Idle \cup {"source", "load"} : DryStops(Ended(how))
BY DEF DryStops, Ended

\* A slot past the ledger's loading is not a dry run, and stays none.
LEMMA DryStep ==
  ASSUME TypeOK, DryInv, NEW r \in Runs, Start(r) \/ Progress(r) \/ Fault(r)
  PROVE  DryStops(run'[r])
<1> DEFINE old == run[r]
<1>0. old \in RunState /\ DryStops(old)
  BY DEF TypeOK, DryInv
<1>n. \A new \in RunState : new.apply => DryStops(PruneNext(new))
  BY DEF PruneNext, DryStops, RunState
<1>1. CASE Start(r)
  <2>1. PICK apply, how, new :
          /\ apply \in BOOLEAN /\ how \in {"source", "load"}
          /\ Become(r, new)
          /\ \/ new = [Ended(how) EXCEPT !.apply = apply, !.todo = Zones]
             \/ new = [Ended(how) EXCEPT !.apply = apply, !.teardown = TRUE]
    BY <1>1 DEF Start, StartSync, StartTeardown
  <2>2. run'[r] = new
    BY <2>1, StepElsewhere
  <2>3. DryStops(new)
    BY <2>1 DEF DryStops, Ended
  <2> QED
    BY <2>2, <2>3
<1>2. ASSUME NEW how \in Idle, Finish(r, how) PROVE DryStops(run'[r])
  BY <1>2, EndedDry, StepElsewhere DEF Finish
<1>3. ASSUME NEW z \in Zones, ListSource(r, z) PROVE DryStops(run'[r])
  <2>1. PICK src : Become(r, [old EXCEPT !.pc = "dest", !.zone = z,
                                         !.todo = @ \ {z}, !.src = src])
    BY <1>3 DEF ListSource
  <2> DEFINE new == [old EXCEPT !.pc = "dest", !.zone = z,
                                !.todo = @ \ {z}, !.src = src]
  <2>2. run'[r] = new
    BY <2>1, StepElsewhere
  <2>3. DryStops(new)
    BY <1>0 DEF DryStops, RunState
  <2> QED
    BY <2>2, <2>3
<1>4. CASE ListDest(r)
  <2>1. PICK owned, adds, deletes :
          LET new == [old EXCEPT !.src = {}, !.owned = owned, !.adds = adds,
                                 !.deletes = deletes]
          IN Become(r, IF new.todo # {} THEN [new EXCEPT !.pc = "source"]
                                        ELSE AfterPlan(r, new))
    BY <1>4 DEF ListDest
  <2> DEFINE new == [old EXCEPT !.src = {}, !.owned = owned, !.adds = adds,
                                !.deletes = deletes]
  <2>2. DryStops([new EXCEPT !.pc = "source"])
    BY <1>0 DEF DryStops, RunState
  <2>3. DryStops(AfterPlan(r, new))
    <3>1. DryStops(Ended("ok"))
      BY EndedDry DEF Idle
    <3> QED
      BY <1>0, <3>1 DEF AfterPlan, DryStops, RunState
  <2> QED
    BY <2>1, <2>2, <2>3, StepElsewhere
<1>5. CASE LoadOwned(r)
  <2>1. CASE ~old.apply
    BY <1>5, <2>1, <1>2 DEF LoadOwned, Finish, Idle
  <2>2. CASE old.apply
    <3>1. PICK newOwned, pending :
            Become(r, PruneNext([old EXCEPT !.pc = "prune",
                                   !.newOwned = newOwned, !.pending = pending]))
      BY <1>5, <2>2 DEF LoadOwned
    <3> DEFINE new == [old EXCEPT !.pc = "prune",
                                  !.newOwned = newOwned, !.pending = pending]
    <3>2. run'[r] = PruneNext(new)
      BY <3>1, StepElsewhere
    <3>3. new.apply /\ DOMAIN new = DOMAIN old
      BY <1>0, <2>2 DEF RunState
    <3>4. PruneNext(new).apply
      <4> HIDE DEF new
      <4> QED
        BY <1>0, <3>3 DEF PruneNext, RunState
    <3> QED
      BY <3>2, <3>4 DEF DryStops
  <2> QED
    BY <2>1, <2>2
<1>6. ASSUME old.apply, run'[r].apply = old.apply PROVE DryStops(run'[r])
  BY <1>6 DEF DryStops
<1>7. ASSUME \/ EndApply(r) \/ RecordOwned(r) \/ ForgetOwned(r)
             \/ Abort(r) \/ Crash(r)
      PROVE  DryStops(run'[r])
  <2>1. CASE \E how \in Idle : Finish(r, how)
    BY <1>2, <2>1
  <2>2. CASE ~(\E how \in Idle : Finish(r, how))
    <3>1. /\ old.pc \in {"apply", "record"}
          /\ \E pc : Become(r, [old EXCEPT !.pc = pc])
      BY <1>7, <2>2 DEF EndApply, RecordOwned, ForgetOwned, Abort, Crash,
                        EndPrune, Idle
    <3>2. old.apply
      BY <1>0, <3>1 DEF DryStops, Idle
    <3>3. run'[r].apply = old.apply
      BY <1>0, <3>1, StepElsewhere DEF RunState
    <3> QED
      BY <1>6, <3>2, <3>3
  <2> QED
    BY <2>1, <2>2
<1>8. ASSUME \/ \E p \in old.adds : AddRecord(r, p) \/ AddFails(r, p)
             \/ \E d \in old.deletes : DeleteRecord(r, d) \/ DeleteFails(r, d)
             \/ \E z \in Zones : ListLive(r, z) \/ ListLiveFails(r, z)
             \/ \E k \in old.pending :
                  PruneRecord(r, k) \/ PruneFails(r, k) \/ SkipDrifted(r, k)
      PROVE  DryStops(run'[r])
  <2>1. old.pc \in {"apply", "prune", "pruning"}
    BY <1>8 DEF AddRecord, AddFails, DeleteRecord, DeleteFails, CanDelete, ListLive,
                ListLiveFails, PruneRecord, PruneFails, SkipDrifted, Candidate
  <2>2. old.apply
    BY <1>0, <2>1 DEF DryStops, Idle
  <2>3. run'[r].apply = old.apply
    <3>1. PICK new : /\ Become(r, new) \/ Become(r, PruneNext(new))
                     /\ new.apply = old.apply /\ DOMAIN new = DOMAIN old
      <4>1. CASE \E p \in old.adds : AddRecord(r, p) \/ AddFails(r, p)
        <5>1. PICK p, new :
                /\ p \in old.adds
                /\ Become(r, new)
                /\ \/ new = [old EXCEPT !.tried = @ \cup {p},
                                         !.added = @ \cup {p}]
                   \/ new = [old EXCEPT !.tried = @ \cup {p}]
          BY <4>1 DEF AddRecord, AddFails
        <5>2. new.apply = old.apply /\ DOMAIN new = DOMAIN old
          BY <1>0, <5>1 DEF RunState
        <5> QED
          BY <5>1, <5>2
      <4>2. CASE \E d \in old.deletes : DeleteRecord(r, d) \/ DeleteFails(r, d)
        <5>1. PICK d, new :
                /\ d \in old.deletes
                /\ Become(r, new)
                /\ \/ new = [old EXCEPT !.gone = @ \cup {d}]
                   \/ new = [old EXCEPT !.gone = @ \cup {d}, !.failed = TRUE]
          BY <4>2 DEF DeleteRecord, DeleteFails
        <5>2. new.apply = old.apply /\ DOMAIN new = DOMAIN old
          BY <1>0, <5>1 DEF RunState
        <5> QED
          BY <5>1, <5>2
      <4>3. CASE \E z \in Zones : ListLive(r, z) \/ ListLiveFails(r, z)
        <5>1. PICK z, live, pending, new :
                /\ z \in Zones
                /\ Become(r, new) \/ Become(r, PruneNext(new))
                /\ \/ new = [old EXCEPT !.pc = "pruning", !.zone = z,
                                         !.live = live]
                   \/ new = [old EXCEPT !.zone = z, !.pruneFailed = TRUE,
                                         !.pending = pending]
          BY <4>3 DEF ListLive, ListLiveFails
        <5>2. new.apply = old.apply /\ DOMAIN new = DOMAIN old
          BY <1>0, <5>1 DEF RunState
        <5> QED
          BY <5>1, <5>2
      <4>4. CASE \E k \in old.pending :
                  PruneRecord(r, k) \/ PruneFails(r, k) \/ SkipDrifted(r, k)
        <5>1. PICK k, new :
                /\ k \in old.pending
                /\ Become(r, PruneNext(new))
                /\ \/ new = [old EXCEPT !.pending = @ \ {k},
                                         !.forget = @ \cup {k}]
                   \/ new = [old EXCEPT !.pending = @ \ {k},
                                         !.pruneFailed = TRUE]
          BY <4>4 DEF PruneRecord, PruneFails, SkipDrifted
        <5>2. new.apply = old.apply /\ DOMAIN new = DOMAIN old
          BY <1>0, <5>1 DEF RunState
        <5> QED
          BY <5>1, <5>2
      <4> QED
        BY <1>8, <4>1, <4>2, <4>3, <4>4
    <3>2. PruneNext(new).apply = new.apply
      BY <1>0, <3>1 DEF PruneNext, RunState
    <3> QED
      BY <3>1, <3>2, StepElsewhere
  <2> QED
    BY <1>6, <2>2, <2>3
<1> QED
  BY <1>1, <1>3, <1>4, <1>5, <1>7, <1>8 DEF Progress, Fault

LEMMA DryInit == Init => DryInv
BY DEF Init, DryInv, DryStops, Ended, Idle

LEMMA DryKept == TypeOK /\ DryInv /\ [Next]_vars => DryInv'
<1> SUFFICES ASSUME TypeOK, DryInv, [Next]_vars PROVE DryInv'
  OBVIOUS
<1>1. CASE Edit \/ UNCHANGED vars
  BY <1>1 DEF Edit, EditSource, EditForeign, vars, DryInv
<1>2. ASSUME NEW r \in Runs, Start(r) \/ Progress(r) \/ Fault(r) PROVE DryInv'
  BY <1>2, DryStep, StepOfSlot DEF DryInv
<1> QED
  BY <1>1, <1>2 DEF Next

\* A dry run changes neither the destination nor the ledger.
THEOREM DryRunIsDry == Spec => DryRunWritesNothing
<1> DEFINE Dry == \A r \in Runs :
                    run[r].pc \notin Idle /\ ~run[r].apply /\ Steps(r) =>
                      UNCHANGED <<dest, ledger>>
<1>1. TypeOK /\ DryInv /\ [Next]_vars => [Dry]_vars
  <2> SUFFICES ASSUME TypeOK, DryInv, Next, NEW r \in Runs,
                      run[r].pc \notin Idle, ~run[r].apply, Steps(r)
               PROVE  UNCHANGED <<dest, ledger>>
    OBVIOUS
  <2>1. run[r].pc \in {"source", "dest", "load"}
    BY DEF DryInv, DryStops
  <2>2. Progress(r) \/ Fault(r)
    <3>1. ~Edit
      BY DEF Edit, EditSource, EditForeign, Steps
    <3>2. PICK q \in Runs : Start(q) \/ Progress(q) \/ Fault(q)
      BY <3>1 DEF Next
    <3>3. q = r
      BY <3>2, StepOfSlot DEF Steps
    <3> QED
      BY <3>2, <3>3 DEF Start, StartSync, StartTeardown
  <2> QED
    BY <2>1, <2>2
    DEF Progress, Fault, ListSource, ListLive, ListDest, EndApply, LoadOwned,
        RecordOwned, ForgetOwned, AddRecord, DeleteRecord, PruneRecord,
        SkipDrifted, Abort, Crash, AddFails, DeleteFails, CanDelete,
        ListLiveFails, PruneFails, Candidate
<1> QED
  BY <1>1, DryInit, DryKept, TypeCorrect, PTL DEF Spec, DryRunWritesNothing

-----------------------------------------------------------------------------
(* One run at a time *)

Reported(t) == IF t = 0 THEN DefaultTtl ELSE t

\* All records of a name have one TTL, on both servers and after every edit;
\* on Pi-hole, which keeps none, it is the one its records are read with.
OneTtl ==
  \A x, y \in SourceRecords \cup ForeignRecords :
    /\ x.name = y.name => Reported(x.ttl) = Reported(y.ttl)
    /\ Vendor = "pihole" => Reported(x.ttl) = DefaultTtl

\* One slot, a destination that nobody else edits and whose deletes compare
\* values, and no change of TTLs.
Solo ==
  /\ \A r, q \in Runs : r = q
  /\ MaxForeignEdits = 0
  /\ OneTtl
  /\ \A x \in ForeignRecords : ~x.disabled
  /\ Vendor # "cloudflare" \/ Structured = {}

\* The TTL of the records of a name.
Nominal(n) ==
  CHOOSE t \in Ttls \ {0} :
    /\ \A x \in SourceRecords \cup ForeignRecords : x.name = n => Reported(x.ttl) = t
    /\ Vendor = "pihole" => t = DefaultTtl

Even(d) == \A l \in d : ~l.disabled /\ Reported(l.ttl) = Nominal(l.name)
EvenPlan(S) == \A p \in S : p.ttl = Nominal(p.name) /\ p.name \notin Unwritable

\* Both servers hold records of those TTLs only, the destination each value
\* once, and what was written can be listed.
EvenServers ==
  /\ budget.foreign = 0
  /\ source \subseteq SourceRecords
  /\ Even(dest) /\ OnePerKey(dest)
  /\ \A k \in LedgerKeys : \A x \in written[k] : x.name \notin Unwritable

Planning == {"source", "dest"}
Reconciling == {"prune", "pruning", "record", "forget"}

\* What is planned lies in the zones that were listed.
Apart(s) ==
  /\ s.pc \in Planning =>
       \A x \in s.owned \cup s.adds \cup s.deletes :
         ZoneOf[x.name] \notin s.todo /\ (s.pc = "dest" => ZoneOf[x.name] # s.zone)
  /\ s.pc = "dest" => s.zone \notin s.todo /\ \A p \in s.src : ZoneOf[p.name] = s.zone

\* The plan is still true of the destination: what is to be added is not
\* there, what is to be deleted is, and the source has the one and not the
\* other.
Fresh(s, d) ==
  /\ s.pc \in Planning \cup {"apply"} =>
       /\ \A p \in s.adds \ s.tried : \A l \in d : SameRecord(l, p) => l = Stored(p)
       /\ KeysOf(s.adds) \subseteq s.owned
       /\ \A x \in s.deletes : x.orig = x.value /\ KeyOf(x) \notin s.owned
       /\ \A x \in s.deletes \ s.gone : KeyOf(x) \in KeysOf(d)
  /\ s.pc \in {"load"} \cup Reconciling /\ s.apply => s.adds \subseteq s.added

\* A record of the source answers for the name, or is still to be added.
Kept(s, d, n) ==
  \E k \in s.owned : k.name = n /\ (k \in KeysOf(d) \/ k \in KeysOf(s.adds \ s.added))

\* Whether the run may take records of a name from the destination.
MayTake(j, s, n) ==
  \/ Job[j].options.overwrite_existing
  \/ \E x \in s.deletes : x.name = n

Answering(j, s, d) ==
  s.pc \in Planning \cup {"apply"} \/ (s.pc \in {"load"} \cup Reconciling /\ s.apply) =>
    \A o \in s.owned :
      MayTake(j, s, o.name) /\ (\E l \in d : l.name = o.name) => Kept(s, d, o.name)

\* What pruning has seen is still so, and what it will forget is gone.
Sees(s, d) ==
  /\ s.teardown =>
       /\ s.pc \in {"load"} \cup Reconciling
       /\ s.owned = {} /\ s.adds = {} /\ s.deletes = {} /\ s.newOwned = {}
  /\ s.pc \in Reconciling =>
       s.apply /\ s.pending \cap s.owned = {} /\ s.forget \cap KeysOf(d) = {}
  /\ s.pc = "pruning" =>
       \A k \in s.pending : ZoneOf[k.name] = s.zone => (k \in s.live <=> k \in KeysOf(d))
  /\ s.pc \in {"record", "forget"} => s.pending = {}
  /\ s.pc = "record" => ~s.teardown

\* Only a job that prunes reconciles, and a teardown.
Prunes(j, s) ==
  s.pc \in {"load"} \cup Reconciling => s.teardown \/ Job[j].prune

\* A teardown that has failed nowhere has taken or will take all that is owned.
TakesAll(j, s, L) ==
  s.teardown /\ s.pc \in Reconciling /\ ~s.pruneFailed =>
    L[Job[j].teardownKey] \subseteq s.forget \cup s.pending

SteadySlot(j, s, d) ==
  /\ EvenPlan(s.src \cup s.adds \cup s.deletes)
  /\ Apart(s) /\ Fresh(s, d) /\ Answering(j, s, d) /\ Sees(s, d) /\ Prunes(j, s)

Steady ==
  EvenServers /\ \A r \in Runs : SteadySlot(r, run[r], dest) /\ TakesAll(r, run[r], ledger)

LEMMA NominalTtl ==
  ASSUME Solo, NEW n
  PROVE  /\ Nominal(n) \in Ttls \ {0}
         /\ \A x \in SourceRecords \cup ForeignRecords :
              x.name = n => Reported(x.ttl) = Nominal(n)
         /\ Vendor = "pihole" => Nominal(n) = DefaultTtl
<1> DEFINE All == SourceRecords \cup ForeignRecords
           Fits(t) == /\ \A x \in All : x.name = n => Reported(x.ttl) = t
                      /\ Vendor = "pihole" => t = DefaultTtl
<1>1. \E t \in Ttls \ {0} : Fits(t)
  <2>1. CASE \E x \in All : x.name = n
    <3>1. PICK x \in All : x.name = n
      BY <2>1
    <3>2. x.ttl \in Ttls
      BY RecordSyncAssumption DEF RecordSyncAssumption, Listed
    <3>3. Reported(x.ttl) \in Ttls \ {0}
      BY <3>2, PlanAssumption DEF PlanAssumption, Reported
    <3>4. Fits(Reported(x.ttl))
      BY <3>1 DEF Solo, OneTtl
    <3> QED
      BY <3>3, <3>4
  <2>2. CASE ~\E x \in All : x.name = n
    <3>1. Fits(DefaultTtl)
      BY <2>2
    <3> QED
      BY <3>1, PlanAssumption DEF PlanAssumption
  <2> QED
    BY <2>1, <2>2
<1>2. Nominal(n) = CHOOSE t \in Ttls \ {0} : Fits(t)
  BY DEF Nominal
<1> HIDE DEF Fits
<1>3. Nominal(n) \in Ttls \ {0} /\ Fits(Nominal(n))
  BY <1>1, <1>2
<1> QED
  BY <1>3 DEF Fits

\* What a plan says of a record of the source.
LEMMA SourceEven ==
  ASSUME Solo, NEW S \in SUBSET SourceRecords
  PROVE  EvenPlan(CollectRecords(S, IpMap))
<1> SUFFICES ASSUME NEW l \in S, Syncable(l)
             PROVE  /\ Collected(l, IpMap).ttl = Nominal(Collected(l, IpMap).name)
                    /\ Collected(l, IpMap).name \notin Unwritable
  BY DEF EvenPlan, CollectRecords
<1>1. Reported(l.ttl) = Nominal(l.name)
  BY NominalTtl
<1> QED
  BY <1>1 DEF Collected, Reported, Syncable

\* A listing of the destination shows the keys that can be written.
LEMMA DestListed ==
  ASSUME NEW d \in SUBSET Listed, Even(d), NEW z
  PROVE  /\ EvenPlan(CollectRecords(InZone(d, z), NoMap))
         /\ \A l \in d : ZoneOf[l.name] = z /\ l.name \notin Unwritable =>
              \E p \in CollectRecords(InZone(d, z), NoMap) :
                p.name = l.name /\ p.value = l.value
         /\ \A p \in CollectRecords(InZone(d, z), NoMap) :
              /\ ZoneOf[p.name] = z /\ p.orig = p.value
              /\ \E l \in d : p.name = l.name /\ p.value = l.value
<1> DEFINE C == CollectRecords(InZone(d, z), NoMap)
<1>1. ASSUME NEW l \in d
      PROVE  /\ Collected(l, NoMap).name = l.name /\ Collected(l, NoMap).value = l.value
             /\ Collected(l, NoMap).ttl = Nominal(l.name) /\ Collected(l, NoMap).orig = l.value
             /\ ~l.disabled
  BY <1>1 DEF Collected, NoMap, Listed, Even, Reported
<1>2. ASSUME NEW p \in C
      PROVE  \E l \in d : /\ p = Collected(l, NoMap) /\ ZoneOf[l.name] = z
                          /\ l.name \notin Unwritable
  BY <1>2 DEF CollectRecords, InZone, Syncable
<1>3. ASSUME NEW l \in d, ZoneOf[l.name] = z, l.name \notin Unwritable
      PROVE  Collected(l, NoMap) \in C
  BY <1>1, <1>3 DEF CollectRecords, InZone, Syncable
<1> HIDE DEF C
<1>4. EvenPlan(C)
  BY <1>1, <1>2 DEF EvenPlan
<1> QED
  BY <1>1, <1>2, <1>3, <1>4 DEF C

LEMMA InKeys ==
  ASSUME NEW S, NEW n, NEW v
  PROVE  (\E l \in S : l.name = n /\ l.value = v) <=> [name |-> n, value |-> v] \in KeysOf(S)
BY DEF KeysOf, KeyOf

\* The plan of one zone, against the destination it was made from.
LEMMA ZonePlanned ==
  ASSUME NEW d \in SUBSET Listed, Even(d), NEW z, NEW src, EvenPlan(src), NEW opts
  PROVE  LET dst     == CollectRecords(InZone(d, z), NoMap)
             adds    == PlanAdds(src, dst, opts)
             deletes == PlanDeletes(src, dst, opts) IN
         (\A p \in src : ZoneOf[p.name] = z) =>
           /\ \A p \in adds : \A l \in d : ~SameRecord(l, p)
           /\ \A x \in deletes : /\ KeyOf(x) \notin KeysOf(src)
                                 /\ KeyOf(x) \in KeysOf(d)
                                 /\ ZoneOf[x.name] = z
           /\ \A o \in KeysOf(src) :
                /\ opts.overwrite_existing \/ \E x \in deletes : x.name = o.name
                /\ \E l \in d : l.name = o.name
                => \E k \in KeysOf(src) : /\ k.name = o.name
                                          /\ k \in KeysOf(d) \/ k \in KeysOf(adds)
<1> DEFINE dst     == CollectRecords(InZone(d, z), NoMap)
           adds    == PlanAdds(src, dst, opts)
           deletes == PlanDeletes(src, dst, opts)
<1> SUFFICES ASSUME \A p \in src : ZoneOf[p.name] = z
             PROVE  /\ \A p \in adds : \A l \in d : ~SameRecord(l, p)
                    /\ \A x \in deletes : /\ KeyOf(x) \notin KeysOf(src)
                                          /\ KeyOf(x) \in KeysOf(d)
                                          /\ ZoneOf[x.name] = z
                    /\ \A o \in KeysOf(src) :
                         /\ opts.overwrite_existing \/ \E x \in deletes : x.name = o.name
                         /\ \E l \in d : l.name = o.name
                         => \E k \in KeysOf(src) : /\ k.name = o.name
                                                   /\ k \in KeysOf(d) \/ k \in KeysOf(adds)
  OBVIOUS
<1>1. EvenPlan(dst)
  BY DestListed
<1>2. \A l \in d : ZoneOf[l.name] = z /\ l.name \notin Unwritable =>
        \E p \in dst : p.name = l.name /\ p.value = l.value
  BY DestListed
<1>3. \A p \in dst : ZoneOf[p.name] = z /\ \E l \in d : p.name = l.name /\ p.value = l.value
  BY DestListed
<1>4. adds \subseteq src /\ deletes \subseteq dst
  BY DEF PlanAdds, PlanDeletes, MissingAdds, UpdateAdds, UpdateDeletes, DestinationOnly, NotIgnored
<1>5. \A p \in adds : \A q \in dst : ~(q.name = p.name /\ q.value = p.value)
  <2> SUFFICES ASSUME NEW p \in adds, NEW q \in dst, q.name = p.name, q.value = p.value
               PROVE  FALSE
    OBVIOUS
  <2>1. q.ttl = p.ttl
    BY <1>1, <1>4 DEF EvenPlan
  <2>2. Matched(p, dst) /\ Group(dst, p.name) # {}
    BY <2>1 DEF Matched, Group, MatchKey
  <2> QED
    BY <2>2 DEF PlanAdds, MissingAdds, UpdateAdds
<1>6. \A x \in deletes : \A p \in src : ~(x.name = p.name /\ x.value = p.value)
  <2> SUFFICES ASSUME NEW x \in deletes, NEW p \in src, x.name = p.name, x.value = p.value
               PROVE  FALSE
    OBVIOUS
  <2>1. x.ttl = p.ttl
    BY <1>1, <1>4 DEF EvenPlan
  <2>2. Matched(x, src) /\ Group(src, x.name) # {}
    BY <2>1 DEF Matched, Group, MatchKey
  <2> QED
    BY <2>2 DEF PlanDeletes, UpdateDeletes, DestinationOnly, NotIgnored
<1>7. ASSUME NEW p \in src, NEW l \in d, l.name = p.name
      PROVE  \E q \in dst : q.name = l.name /\ q.value = l.value
  BY <1>2, <1>7 DEF EvenPlan
<1>8. \A p \in adds : \A l \in d : ~SameRecord(l, p)
  BY <1>4, <1>5, <1>7 DEF SameRecord
<1>9. \A x \in deletes : KeyOf(x) \notin KeysOf(src)
  BY <1>6 DEF KeyOf, KeysOf
<1>10. \A x \in deletes : KeyOf(x) \in KeysOf(d) /\ ZoneOf[x.name] = z
  BY <1>3, <1>4 DEF KeyOf, KeysOf
<1>11. ASSUME NEW o \in src,
              opts.overwrite_existing \/ \E x \in deletes : x.name = o.name,
              NEW l \in d, l.name = o.name
       PROVE  KeyOf(o) \in KeysOf(d) \/ o \in adds
  <2>1. PICK q \in dst : q.name = l.name /\ q.value = l.value
    BY <1>7, <1>11
  <2>2. Group(dst, o.name) # {}
    BY <1>11, <2>1 DEF Group
  <2>3. opts.overwrite_existing
    BY <1>11 DEF PlanDeletes, DestinationOnly, NotIgnored, Group
  <2>4. CASE Matched(o, dst)
    <3>1. PICK p \in dst : p.name = o.name /\ p.value = o.value
      BY <2>4 DEF Matched, Group, MatchKey
    <3> QED
      BY <1>3, <3>1 DEF KeyOf, KeysOf
  <2>5. CASE ~Matched(o, dst)
    BY <2>2, <2>3, <2>5 DEF PlanAdds, UpdateAdds
  <2> QED
    BY <2>4, <2>5
<1>12. ASSUME NEW o \in KeysOf(src),
              opts.overwrite_existing \/ \E x \in deletes : x.name = o.name,
              NEW l \in d, l.name = o.name
       PROVE  \E k \in KeysOf(src) : k.name = o.name /\ (k \in KeysOf(d) \/ k \in KeysOf(adds))
  <2>1. PICK p \in src : o = KeyOf(p)
    BY DEF KeysOf
  <2>2. p.name = o.name
    BY <2>1 DEF KeyOf
  <2>3. KeyOf(p) \in KeysOf(d) \/ p \in adds
    BY <1>11, <1>12, <2>2
  <2> QED
    BY <2>1, <2>3 DEF KeysOf
<1> HIDE DEF dst, adds, deletes
<1> QED
  BY <1>8, <1>9, <1>10, <1>12

\* What a server holds after an addition that is fresh.
LEMMA AddedEven ==
  ASSUME Solo, NEW d \in SUBSET Listed, Even(d), OnePerKey(d),
         NEW p \in Planned, p.ttl = Nominal(p.name),
         \A l \in d : SameRecord(l, p) => l = Stored(p)
  PROVE  /\ AfterAdd(d, p) = d \cup {Stored(p)}
         /\ Even(AfterAdd(d, p)) /\ OnePerKey(AfterAdd(d, p))
         /\ KeysOf(AfterAdd(d, p)) = KeysOf(d) \cup {KeyOf(p)}
         /\ Stored(p).name = p.name /\ Stored(p).value = p.value
<1> DEFINE x == Stored(p)
<1>1. x.name = p.name /\ x.value = p.value /\ ~x.disabled
  BY DEF Stored
<1>2. Reported(x.ttl) = Nominal(x.name)
  BY <1>1, NominalTtl DEF Stored, Reported
<1> HIDE DEF x
<1>3. \A l \in d : SameRecord(l, x) => l = x
  BY <1>1 DEF SameRecord, x
<1>4. AfterAdd(d, p) = d \cup {x}
  BY <1>3 DEF AfterAdd, Put, x
<1>5. Even(d \cup {x})
  BY <1>1, <1>2 DEF Even
<1>6. OnePerKey(d \cup {x})
  BY <1>3 DEF OnePerKey, KeyOf, SameRecord
<1>7. KeysOf(d \cup {x}) = KeysOf(d) \cup {KeyOf(p)}
  BY <1>1 DEF KeysOf, KeyOf
<1> QED
  BY <1>1, <1>4, <1>5, <1>6, <1>7 DEF x

\* What it holds after a delete: the one record of the key is gone.
LEMMA DeletedEven ==
  ASSUME Solo, NEW d, Even(d), OnePerKey(d), NEW k, NEW e \in AfterDelete(d, k)
  PROVE  /\ e \subseteq d /\ Even(e) /\ OnePerKey(e)
         /\ KeysOf(e) = KeysOf(d) \ {KeyOf(k)}
         /\ \A l \in d : KeyOf(l) # KeyOf(k) => l \in e
<1>1. \A l \in d : l \in DeleteMatches(d, k) <=> KeyOf(l) = KeyOf(k)
  BY DEF Solo, DeleteMatches, SameRecord, KeyOf
<1>2. DeleteMatches(d, k) \subseteq d
  BY DEF DeleteMatches
<1>3. e \subseteq d /\ \A l \in d : l \in e <=> KeyOf(l) # KeyOf(k)
  BY <1>1, <1>2 DEF AfterDelete, OnePerKey
<1>4. KeysOf(e) = KeysOf(d) \ {KeyOf(k)}
  BY <1>3 DEF KeysOf
<1> QED
  BY <1>3, <1>4 DEF Even, OnePerKey

-----------------------------------------------------------------------------
(* The steps that plan and apply *)

\* A step of the one slot keeps the invariant if what it makes of the slot
\* and of the servers has it.
LEMMA SteadyStep ==
  ASSUME Solo, TypeOK, NEW r \in Runs, NEW new, Become(r, new), EvenServers',
         SteadySlot(r, new, dest'), TakesAll(r, new, ledger')
  PROVE  Steady'
<1>1. run'[r] = new
  BY StepElsewhere
<1>2. \A q \in Runs : q = r
  BY DEF Solo
<1> QED
  BY <1>1, <1>2 DEF Steady

LEMMA SameServers ==
  ASSUME EvenServers, UNCHANGED <<source, dest, written>>, budget'.foreign = budget.foreign
  PROVE  EvenServers'
BY DEF EvenServers

\* A fault or a crash leaves the other bounds alone.
LEMMA Spent ==
  ASSUME TypeOK, NEW what \in {"faults", "crashes", "source"}, Spend(what)
  PROVE  budget'.foreign = budget.foreign
BY DEF TypeOK, Budget, Spend

\* A run that has planned nothing.
LEMMA BlankSteady ==
  ASSUME NEW j, NEW d, NEW L, NEW s,
         s.pc \in Idle \cup {"source", "load"}, s.src = {}, s.owned = {}, s.adds = {},
         s.deletes = {}, s.newOwned = {}, s.teardown <=> s.pc = "load"
  PROVE  SteadySlot(j, s, d) /\ TakesAll(j, s, L)
<1>1. /\ Apart(s) /\ Fresh(s, d) /\ Answering(j, s, d) /\ Sees(s, d)
      /\ Prunes(j, s) /\ TakesAll(j, s, L)
  BY DEF Prunes, Apart, Fresh, Answering, Sees, TakesAll, Idle, Planning, Reconciling, KeysOf
<1> QED
  BY <1>1 DEF SteadySlot, EvenPlan

LEMMA FinishSteady ==
  ASSUME Solo, TypeOK, NEW r \in Runs, NEW how \in Idle, Finish(r, how), EvenServers'
  PROVE  Steady'
<1>1. /\ Ended(how).pc = how /\ Ended(how).src = {} /\ Ended(how).owned = {}
      /\ Ended(how).adds = {} /\ Ended(how).deletes = {} /\ Ended(how).newOwned = {}
      /\ ~Ended(how).teardown
  BY DEF Ended
<1>2. SteadySlot(r, Ended(how), dest') /\ TakesAll(r, Ended(how), ledger')
  BY <1>1, BlankSteady DEF Idle
<1> QED
  BY <1>2, SteadyStep DEF Finish

LEMMA StartSteady ==
  ASSUME Solo, TypeOK, Steady, NEW r \in Runs, Start(r)
  PROVE  Steady'
<1>1. PICK apply \in BOOLEAN : StartSync(r, apply) \/ StartTeardown(r, apply)
  BY DEF Start
<1>2. EvenServers'
  BY <1>1, SameServers DEF StartSync, StartTeardown, Steady
<1>3. CASE StartSync(r, apply)
  <2> DEFINE s == [Ended("source") EXCEPT !.apply = apply, !.todo = Zones]
  <2>1. /\ s.pc = "source" /\ s.src = {} /\ s.owned = {} /\ s.adds = {}
        /\ s.deletes = {} /\ s.newOwned = {} /\ ~s.teardown
    BY DEF Ended
  <2>2. Become(r, s)
    BY <1>3 DEF StartSync
  <2> HIDE DEF s
  <2>3. SteadySlot(r, s, dest') /\ TakesAll(r, s, ledger')
    BY <2>1, BlankSteady
  <2> QED
    BY <1>2, <2>2, <2>3, SteadyStep
<1>4. CASE StartTeardown(r, apply)
  <2> DEFINE s == [Ended("load") EXCEPT !.apply = apply, !.teardown = TRUE]
  <2>1. /\ s.pc = "load" /\ s.src = {} /\ s.owned = {} /\ s.adds = {}
        /\ s.deletes = {} /\ s.newOwned = {} /\ s.teardown
    BY DEF Ended
  <2>2. Become(r, s)
    BY <1>4 DEF StartTeardown
  <2> HIDE DEF s
  <2>3. SteadySlot(r, s, dest') /\ TakesAll(r, s, ledger')
    BY <2>1, BlankSteady
  <2> QED
    BY <1>2, <2>2, <2>3, SteadyStep
<1> QED
  BY <1>1, <1>3, <1>4

LEMMA EndSteady ==
  ASSUME Solo, TypeOK, Steady, NEW r \in Runs, Abort(r) \/ Crash(r)
  PROVE  Steady'
<1>1. EvenServers'
  BY SameServers, Spent DEF Abort, Crash, Steady
<1> QED
  BY <1>1, FinishSteady DEF Abort, Crash, Idle

LEMMA ListSourceSteady ==
  ASSUME Solo, TypeOK, Steady, NEW r \in Runs, NEW z \in Zones, ListSource(r, z)
  PROVE  Steady'
<1> DEFINE s   == run[r]
           src == NotIgnored(CollectRecords(InZone(source, z), IpMap), Job[r].options)
           t   == [s EXCEPT !.pc = "dest", !.zone = z, !.todo = @ \ {z}, !.src = src]
<1>1. s \in RunState /\ SteadySlot(r, s, dest)
  BY DEF TypeOK, Steady
<1>2. Become(r, t) /\ s.pc = "source" /\ z \in s.todo
  BY DEF ListSource
<1>3. EvenServers' /\ dest' = dest
  BY SameServers DEF ListSource, Steady
<1>4. EvenPlan(src) /\ \A p \in src : ZoneOf[p.name] = z
  <2>1. InZone(source, z) \in SUBSET SourceRecords
    BY DEF Steady, EvenServers, InZone
  <2>2. EvenPlan(CollectRecords(InZone(source, z), IpMap))
    BY <2>1, SourceEven
  <2>3. \A p \in CollectRecords(InZone(source, z), IpMap) : ZoneOf[p.name] = z
    BY DEF CollectRecords, Collected, InZone
  <2> QED
    BY <2>2, <2>3 DEF NotIgnored, EvenPlan
<1> HIDE DEF src
<1>5. /\ t.pc = "dest" /\ t.zone = z /\ t.todo = s.todo \ {z} /\ t.src = src
      /\ t.owned = s.owned /\ t.adds = s.adds /\ t.deletes = s.deletes /\ t.tried = s.tried
      /\ t.added = s.added /\ t.gone = s.gone /\ t.teardown = s.teardown
      /\ t.newOwned = s.newOwned
  BY <1>1 DEF RunState
<1> HIDE DEF s, t
<1>6. EvenPlan(t.src \cup t.adds \cup t.deletes)
  BY <1>1, <1>4, <1>5 DEF SteadySlot, EvenPlan
<1>7. Apart(t)
  BY <1>1, <1>2, <1>4, <1>5 DEF SteadySlot, Apart, Planning
<1>8. Fresh(t, dest)
  BY <1>1, <1>2, <1>5 DEF SteadySlot, Fresh, Planning, Reconciling
<1>9. Answering(r, t, dest)
  BY <1>1, <1>2, <1>5 DEF SteadySlot, Answering, MayTake, Kept, Planning, Reconciling
<1>10. Sees(t, dest) /\ Prunes(r, t) /\ TakesAll(r, t, ledger')
  BY <1>1, <1>2, <1>5 DEF SteadySlot, Sees, Prunes, TakesAll, Planning, Reconciling
<1> QED
  BY <1>2, <1>3, <1>6, <1>7, <1>8, <1>9, <1>10, SteadyStep DEF SteadySlot

\* What the listing of the destination adds to the plan.
LEMMA PlannedSteady ==
  ASSUME Solo, TypeOK, Steady, NEW r \in Runs, run[r].pc = "dest", ~run[r].teardown,
         run[r].tried = {}, run[r].added = {},
         NEW t,
         t.src = {}, t.owned = run[r].owned \cup KeysOf(run[r].src),
         LET dst == CollectRecords(InZone(dest, run[r].zone), NoMap) IN
         /\ t.adds = run[r].adds \cup PlanAdds(run[r].src, dst, Job[r].options)
         /\ t.deletes = run[r].deletes \cup PlanDeletes(run[r].src, dst, Job[r].options),
         t.tried = {}, t.added = {}, t.gone = run[r].gone, ~t.teardown, t.todo = run[r].todo,
         \/ t.pc = "source" \/ t.pc = "apply"
         \/ t.pc = "load" /\ (t.apply => t.adds = {}) /\ Job[r].prune
  PROVE  SteadySlot(r, t, dest) /\ TakesAll(r, t, ledger)
<1> DEFINE s    == run[r]
           z    == s.zone
           opts == Job[r].options
           dst  == CollectRecords(InZone(dest, z), NoMap)
           adds == PlanAdds(s.src, dst, opts)
           dels == PlanDeletes(s.src, dst, opts)
<1>1. /\ SteadySlot(r, s, dest) /\ dest \in SUBSET Listed /\ Even(dest)
      /\ \A p \in s.src : ZoneOf[p.name] = z
      /\ EvenPlan(s.src) /\ EvenPlan(s.adds) /\ EvenPlan(s.deletes)
  BY DEF TypeOK, Steady, EvenServers, SteadySlot, Apart, EvenPlan
<1>2. /\ \A x \in s.owned \cup s.adds \cup s.deletes :
           ZoneOf[x.name] \notin s.todo /\ ZoneOf[x.name] # z
      /\ z \notin s.todo
  BY <1>1 DEF SteadySlot, Apart, Planning
<1>3. /\ \A p \in s.adds : \A l \in dest : SameRecord(l, p) => l = Stored(p)
      /\ KeysOf(s.adds) \subseteq s.owned
      /\ \A x \in s.deletes : x.orig = x.value /\ KeyOf(x) \notin s.owned
      /\ \A x \in s.deletes \ s.gone : KeyOf(x) \in KeysOf(dest)
  BY <1>1 DEF SteadySlot, Fresh, Planning
<1>4. \A o \in s.owned :
        MayTake(r, s, o.name) /\ (\E l \in dest : l.name = o.name) => Kept(s, dest, o.name)
  BY <1>1 DEF SteadySlot, Answering, Planning
<1>5. adds \subseteq s.src /\ dels \subseteq dst
  BY DEF PlanAdds, PlanDeletes, MissingAdds, UpdateAdds, UpdateDeletes, DestinationOnly, NotIgnored
<1>6. EvenPlan(dst)
  BY <1>1, DestListed
<1>7. /\ \A p \in adds : \A l \in dest : ~SameRecord(l, p)
      /\ \A x \in dels : /\ KeyOf(x) \notin KeysOf(s.src)
                         /\ KeyOf(x) \in KeysOf(dest)
                         /\ ZoneOf[x.name] = z
      /\ \A o \in KeysOf(s.src) :
           /\ opts.overwrite_existing \/ \E x \in dels : x.name = o.name
           /\ \E l \in dest : l.name = o.name
           => \E k \in KeysOf(s.src) : /\ k.name = o.name
                                       /\ k \in KeysOf(dest) \/ k \in KeysOf(adds)
  BY <1>1, ZonePlanned
<1>8. /\ \A k \in KeysOf(s.src) : ZoneOf[k.name] = z
      /\ \A p \in adds : ZoneOf[p.name] = z
  BY <1>1, <1>5 DEF KeysOf, KeyOf
<1>9. /\ t.owned = s.owned \cup KeysOf(s.src) /\ t.adds = s.adds \cup adds
      /\ t.deletes = s.deletes \cup dels /\ s.added = {} /\ s.tried = {}
      /\ t.todo = s.todo /\ t.gone = s.gone
  OBVIOUS
<1> HIDE DEF s, z, opts, dst, adds, dels
<1>10. EvenPlan(t.src \cup t.adds \cup t.deletes)
  BY <1>1, <1>5, <1>6, <1>9 DEF EvenPlan
<1>11. Apart(t)
  BY <1>2, <1>7, <1>8, <1>9 DEF Apart, Planning
<1>12. \A x \in t.deletes : x.orig = x.value /\ KeyOf(x) \notin t.owned
  <2>1. \A x \in s.deletes : KeyOf(x) \notin KeysOf(s.src)
    BY <1>2, <1>8 DEF KeyOf
  <2>2. ASSUME NEW x \in dels PROVE KeyOf(x) \notin s.owned
    <3>1. ZoneOf[KeyOf(x).name] = z
      BY <1>7 DEF KeyOf
    <3> QED
      BY <1>2, <3>1
  <2>3. \A x \in dels : x.orig = x.value
    BY <1>1, <1>5, DestListed DEF dst
  <2> QED
    BY <1>3, <1>7, <1>9, <2>1, <2>2, <2>3
<1>13. Fresh(t, dest)
  <2>1. KeysOf(t.adds) \subseteq t.owned
    BY <1>3, <1>5, <1>9 DEF KeysOf
  <2> QED
    BY <1>3, <1>7, <1>9, <1>12, <2>1 DEF Fresh, Planning, Reconciling
<1>14. Answering(r, t, dest)
  <2> SUFFICES ASSUME t.pc # "load" \/ t.adds = {},
                      NEW o \in t.owned, MayTake(r, t, o.name),
                      \E l \in dest : l.name = o.name
               PROVE  Kept(t, dest, o.name)
    BY DEF Answering, Planning, Reconciling
  <2>1. KeysOf(s.adds) \subseteq KeysOf(t.adds) /\ KeysOf(adds) \subseteq KeysOf(t.adds)
    BY <1>9 DEF KeysOf
  <2>2. CASE o \in s.owned
    <3>1. \A x \in dels : x.name # o.name
      BY <1>2, <1>7, <2>2
    <3>2. MayTake(r, s, o.name)
      BY <1>9, <3>1 DEF MayTake
    <3>3. Kept(s, dest, o.name)
      BY <1>4, <2>2, <3>2
    <3> QED
      BY <1>9, <2>1, <3>3 DEF Kept
  <2>3. CASE o \in KeysOf(s.src)
    <3>1. \A x \in s.deletes : x.name # o.name
      BY <1>2, <1>8, <2>3
    <3>2. opts.overwrite_existing \/ \E x \in dels : x.name = o.name
      BY <1>9, <3>1 DEF MayTake, opts
    <3>3. PICK k \in KeysOf(s.src) : k.name = o.name /\ (k \in KeysOf(dest) \/ k \in KeysOf(adds))
      BY <1>7, <2>3, <3>2
    <3> QED
      BY <1>9, <2>1, <3>3 DEF Kept
  <2> QED
    BY <1>9, <2>2, <2>3
<1>15. Sees(t, dest) /\ Prunes(r, t) /\ TakesAll(r, t, ledger)
  BY DEF Sees, Prunes, TakesAll, Planning, Reconciling
<1> QED
  BY <1>10, <1>11, <1>13, <1>14, <1>15 DEF SteadySlot

LEMMA ListDestSteady ==
  ASSUME Solo, OwnershipInv, Steady, NEW r \in Runs, ListDest(r)
  PROVE  Steady'
<1> DEFINE s    == run[r]
           dst  == CollectRecords(InZone(dest, s.zone), NoMap)
           opts == Job[r].options
           new  == [s EXCEPT !.src = {}, !.owned = @ \cup KeysOf(s.src),
                             !.adds = @ \cup PlanAdds(s.src, dst, opts),
                             !.deletes = @ \cup PlanDeletes(s.src, dst, opts)]
           t    == IF new.todo # {} THEN [new EXCEPT !.pc = "source"] ELSE AfterPlan(r, new)
<1>1. s \in RunState /\ TypeOK /\ SteadySlot(r, s, dest)
  BY DEF TypeOK, Steady, OwnershipInv
<1>2. Become(r, t) /\ s.pc = "dest"
  BY DEF ListDest
<1>3. EvenServers' /\ dest' = dest /\ ledger' = ledger
  BY SameServers DEF ListDest, Steady
<1>4. s.tried = {} /\ s.added = {}
  BY <1>2 DEF OwnershipInv, RunBacked
<1>5. CASE ~s.teardown
  <2>1. /\ new.src = {} /\ new.owned = s.owned \cup KeysOf(s.src)
        /\ new.adds = s.adds \cup PlanAdds(s.src, dst, opts)
        /\ new.deletes = s.deletes \cup PlanDeletes(s.src, dst, opts)
        /\ new.tried = {} /\ new.added = {} /\ new.gone = s.gone
        /\ ~new.teardown /\ new.todo = s.todo /\ DOMAIN new = DOMAIN s
    BY <1>1, <1>4, <1>5 DEF RunState
  <2>2. "pc" \in DOMAIN s /\ "apply" \in DOMAIN s
    BY <1>1 DEF RunState
  <2> HIDE DEF new
  <2>3. ASSUME NEW pc \in {"source", "apply", "load"},
               pc = "load" => (new.apply => new.adds = {}) /\ Job[r].prune
        PROVE  LET u == [new EXCEPT !.pc = pc] IN
               SteadySlot(r, u, dest) /\ TakesAll(r, u, ledger)
    <3> DEFINE u == [new EXCEPT !.pc = pc]
    <3>1. /\ u.src = {} /\ u.owned = s.owned \cup KeysOf(s.src)
          /\ u.adds = s.adds \cup PlanAdds(s.src, dst, opts)
          /\ u.deletes = s.deletes \cup PlanDeletes(s.src, dst, opts)
          /\ u.tried = {} /\ u.added = {} /\ u.gone = s.gone
          /\ ~u.teardown /\ u.todo = s.todo
          /\ \/ u.pc = "source" \/ u.pc = "apply"
             \/ u.pc = "load" /\ (u.apply => u.adds = {}) /\ Job[r].prune
      BY <2>1, <2>2, <2>3
    <3> HIDE DEF u
    <3> QED
      BY <1>1, <1>2, <1>4, <1>5, <3>1, PlannedSteady DEF u
  <2>4. CASE t = Ended("ok")
    BY <1>1, <1>2, <1>3, <2>4, FinishSteady DEF Finish, Idle
  <2>5. CASE t # Ended("ok")
    <3>1. \E pc \in {"source", "apply", "load"} :
            /\ t = [new EXCEPT !.pc = pc]
            /\ pc = "load" => (new.apply => new.adds = {}) /\ Job[r].prune
      BY <2>5 DEF AfterPlan
    <3>2. SteadySlot(r, t, dest) /\ TakesAll(r, t, ledger)
      BY <2>3, <3>1
    <3> HIDE DEF t
    <3> QED
      BY <1>1, <1>2, <1>3, <3>2, SteadyStep
  <2> QED
    BY <2>4, <2>5
<1>6. CASE s.teardown
  \* A teardown does not plan.
  BY <1>1, <1>2, <1>6 DEF SteadySlot, Sees, Reconciling
<1> QED
  BY <1>5, <1>6

LEMMA KeysGrow ==
  ASSUME NEW S, NEW T, S \subseteq T
  PROVE  KeysOf(S) \subseteq KeysOf(T)
BY DEF KeysOf

\* What a step of applying leaves as it is.
SamePlan(s, t) ==
  /\ t.pc = s.pc /\ t.src = s.src /\ t.owned = s.owned /\ t.adds = s.adds
  /\ t.deletes = s.deletes /\ t.teardown = s.teardown /\ t.newOwned = s.newOwned
  /\ t.apply = s.apply

\* Applying keeps the slot steady if it keeps the plan fresh and the names
\* answered.
LEMMA ApplySteady ==
  ASSUME NEW j, NEW s, NEW t, NEW d, NEW e, NEW L,
         SteadySlot(j, s, d), s.pc = "apply", SamePlan(s, t),
         \A p \in t.adds \ t.tried : \A l \in e : SameRecord(l, p) => l = Stored(p),
         \A x \in t.deletes \ t.gone : KeyOf(x) \in KeysOf(e),
         \A o \in t.owned :
           /\ MayTake(j, t, o.name)
           /\ \E l \in e : l.name = o.name
           => Kept(t, e, o.name)
  PROVE  SteadySlot(j, t, e) /\ TakesAll(j, t, L)
<1>1. EvenPlan(t.src \cup t.adds \cup t.deletes) /\ Apart(t) /\ Sees(t, e) /\ Prunes(j, t)
      /\ TakesAll(j, t, L)
  BY DEF SteadySlot, SamePlan, Apart, Sees, Prunes, TakesAll, Planning, Reconciling
<1>2. Fresh(t, e)
  BY DEF SteadySlot, SamePlan, Fresh, Planning, Reconciling
<1>3. Answering(j, t, e)
  BY DEF Answering
<1> QED
  BY <1>1, <1>2, <1>3 DEF SteadySlot

\* What applying p does to the slot, whether the run learns of it (Q = {p})
\* or its answer was lost (Q = {}).
LEMMA AddMadeSteady ==
  ASSUME Solo, OwnershipInv, Steady, NEW r \in Runs, NEW p \in run[r].adds,
         NEW Q \in SUBSET {p}, run[r].pc = "apply", p \notin run[r].tried,
         dest' = AfterAdd(dest, p), UNCHANGED source, budget'.foreign = budget.foreign,
         \A k \in LedgerKeys : written'[k] \subseteq written[k] \cup {KeyOf(p)},
         Become(r, [run[r] EXCEPT !.tried = @ \cup {p}, !.added = @ \cup Q])
  PROVE  Steady'
<1> DEFINE s == run[r]
           t == [s EXCEPT !.tried = @ \cup {p}, !.added = @ \cup Q]
<1>1. s \in RunState /\ TypeOK /\ SteadySlot(r, s, dest) /\ dest \in SUBSET Listed /\ p \in Planned
  BY DEF TypeOK, Steady, OwnershipInv, RunState
<1>2. Become(r, t) /\ s.pc = "apply" /\ p \in s.adds \ s.tried /\ dest' = AfterAdd(dest, p)
  OBVIOUS
<1>3. /\ \A l \in dest : SameRecord(l, p) => l = Stored(p)
      /\ p.ttl = Nominal(p.name) /\ p.name \notin Unwritable
  BY <1>1, <1>2 DEF SteadySlot, Fresh, EvenPlan
<1>4. /\ dest' = dest \cup {Stored(p)} /\ Even(dest') /\ OnePerKey(dest')
      /\ KeysOf(dest') = KeysOf(dest) \cup {KeyOf(p)}
      /\ Stored(p).name = p.name /\ Stored(p).value = p.value
  BY <1>1, <1>2, <1>3, AddedEven DEF Steady, EvenServers
<1>5. EvenServers'
  <2>1. KeyOf(p).name \notin Unwritable
    BY <1>3 DEF KeyOf
  <2> QED
    BY <1>4, <2>1 DEF Steady, EvenServers
<1>6. SamePlan(s, t) /\ t.tried = s.tried \cup {p} /\ t.added = s.added \cup Q /\ t.gone = s.gone
  BY <1>1 DEF RunState, SamePlan
<1> HIDE DEF s, t
<1>7. ASSUME NEW q \in t.adds \ t.tried, NEW l \in dest', SameRecord(l, q)
      PROVE  l = Stored(q)
  <2>1. q \in s.adds \ s.tried
    BY <1>6, <1>7 DEF SamePlan
  <2>2. CASE l \in dest
    BY <1>1, <1>2, <1>7, <2>1, <2>2 DEF SteadySlot, Fresh
  <2>3. CASE l = Stored(p)
    <3>1. q.name = p.name /\ q.value = p.value
      BY <1>4, <1>7, <2>3 DEF SameRecord
    <3>2. q.ttl = p.ttl
      BY <1>1, <1>3, <2>1, <3>1 DEF SteadySlot, EvenPlan
    <3> QED
      BY <2>3, <3>1, <3>2 DEF Stored
  <2> QED
    BY <1>4, <1>7, <2>2, <2>3
<1>8. \A x \in t.deletes \ t.gone : KeyOf(x) \in KeysOf(dest')
  BY <1>1, <1>2, <1>4, <1>6 DEF SteadySlot, Fresh, SamePlan
<1>9. ASSUME NEW o \in t.owned, MayTake(r, t, o.name), NEW l \in dest', l.name = o.name
      PROVE  Kept(t, dest', o.name)
  <2>1. MayTake(r, s, o.name) /\ o \in s.owned
    BY <1>6, <1>9 DEF MayTake, SamePlan
  <2>2. CASE l \in dest
    <3>1. Kept(s, dest, o.name)
      BY <1>1, <1>2, <1>9, <2>1, <2>2 DEF SteadySlot, Answering
    <3>2. PICK k \in s.owned : /\ k.name = o.name
                               /\ k \in KeysOf(dest) \/ k \in KeysOf(s.adds \ s.added)
      BY <3>1 DEF Kept
    <3>3. KeysOf(s.adds \ s.added) \subseteq KeysOf(t.adds \ t.added) \cup {KeyOf(p)}
      BY <1>6 DEF KeysOf, SamePlan
    <3> QED
      BY <1>4, <1>6, <3>2, <3>3 DEF Kept, SamePlan
  <2>3. CASE l = Stored(p)
    <3>1. KeyOf(p) \in s.owned /\ KeyOf(p).name = o.name
      BY <1>1, <1>2, <1>4, <1>9, <2>3 DEF SteadySlot, Fresh, KeysOf, KeyOf
    <3> QED
      BY <1>4, <1>6, <3>1 DEF Kept, SamePlan
  <2> QED
    BY <1>4, <1>9, <2>2, <2>3
<1>10. SteadySlot(r, t, dest') /\ TakesAll(r, t, ledger')
  BY <1>1, <1>2, <1>6, <1>7, <1>8, <1>9, ApplySteady
<1> QED
  BY <1>1, <1>2, <1>5, <1>10, SteadyStep

LEMMA AddSteady ==
  ASSUME Solo, OwnershipInv, Steady, NEW r \in Runs, NEW p \in run[r].adds, AddRecord(r, p)
  PROVE  Steady'
<1>1. \A k \in LedgerKeys : written'[k] \subseteq written[k] \cup {KeyOf(p)}
  BY DEF AddRecord, OwnershipInv, TypeOK
<1>2. run[r].pc = "apply" /\ p \notin run[r].tried
  BY DEF AddRecord, AddsLeft, InZone
<1> QED
  BY <1>1, <1>2, AddMadeSteady DEF AddRecord

LEMMA AddFailsSteady ==
  ASSUME Solo, OwnershipInv, Steady, NEW r \in Runs, NEW p \in run[r].adds, AddFails(r, p)
  PROVE  Steady'
<1> DEFINE s == run[r]
           t == [s EXCEPT !.tried = @ \cup {p}]
<1>1. s \in RunState /\ TypeOK /\ SteadySlot(r, s, dest)
  BY DEF TypeOK, Steady, OwnershipInv
<1>2. Become(r, t) /\ s.pc = "apply"
  BY DEF AddFails
<1>3. UNCHANGED <<source, written>> /\ p \notin s.tried /\ budget'.foreign = budget.foreign
  BY <1>1, FailedAdd, Spent DEF AddFails, AddsLeft, InZone
<1>4. SamePlan(s, t) /\ t.tried = s.tried \cup {p} /\ t.added = s.added /\ t.gone = s.gone
  BY <1>1 DEF RunState, SamePlan
<1> HIDE DEF s, t
<1>5. \A q \in t.adds \ t.tried : \A l \in dest : SameRecord(l, q) => l = Stored(q)
  BY <1>1, <1>2, <1>4 DEF SteadySlot, Fresh, SamePlan
<1>6. \A x \in t.deletes \ t.gone : KeyOf(x) \in KeysOf(dest)
  BY <1>1, <1>2, <1>4 DEF SteadySlot, Fresh, SamePlan
<1>7. \A o \in t.owned :
        MayTake(r, t, o.name) /\ (\E l \in dest : l.name = o.name) => Kept(t, dest, o.name)
  BY <1>1, <1>2, <1>4 DEF SteadySlot, Answering, MayTake, Kept, SamePlan
<1>8. SteadySlot(r, t, dest) /\ TakesAll(r, t, ledger')
  BY <1>1, <1>2, <1>4, <1>5, <1>6, <1>7, ApplySteady
<1>9. CASE dest' = dest
  BY <1>1, <1>2, <1>3, <1>8, <1>9, SameServers, SteadyStep DEF Steady
<1>10. CASE dest' = AfterAdd(dest, p)
  <2>1. t = [s EXCEPT !.tried = @ \cup {p}, !.added = @ \cup {}]
    BY <1>1 DEF RunState, t
  <2>2. Become(r, [run[r] EXCEPT !.tried = @ \cup {p}, !.added = @ \cup {}])
    BY <1>2, <2>1 DEF s
  <2>3. run[r].pc = "apply" /\ p \notin run[r].tried
    BY <1>2, <1>3 DEF s
  <2>4. \A k \in LedgerKeys : written'[k] \subseteq written[k] \cup {KeyOf(p)}
    BY <1>3
  <2>5. {} \in SUBSET {p}
    OBVIOUS
  <2> QED
    BY <1>3, <1>10, <2>2, <2>3, <2>4, <2>5, AddMadeSteady
<1> QED
  BY <1>9, <1>10, FailedAdd

\* Deletes that differ take records that differ.
LEMMA DeletesDiffer ==
  ASSUME OwnershipInv, Steady, NEW r \in Runs, run[r].pc = "apply",
         NEW x \in run[r].deletes, NEW y \in run[r].deletes, KeyOf(x) = KeyOf(y)
  PROVE  x = y
<1>1. SteadySlot(r, run[r], dest) /\ x \in Planned /\ y \in Planned
  BY DEF TypeOK, Steady, OwnershipInv, RunState
<1>2. x.name = y.name /\ x.value = y.value /\ x.orig = y.orig /\ x.ttl = y.ttl
  BY <1>1 DEF SteadySlot, Fresh, EvenPlan, KeyOf
<1> QED
  BY <1>1, <1>2 DEF Planned

LEMMA DeleteSteady ==
  ASSUME Solo, OwnershipInv, Steady, NEW r \in Runs, NEW x \in run[r].deletes,
         DeleteRecord(r, x) \/ DeleteFails(r, x)
  PROVE  Steady'
<1> DEFINE s == run[r]
<1>1. s \in RunState /\ TypeOK /\ SteadySlot(r, s, dest)
  BY DEF TypeOK, Steady, OwnershipInv
<1>2. PICK f \in BOOLEAN :
        LET t == [s EXCEPT !.gone = @ \cup {x}, !.failed = f] IN Become(r, t)
  <2>1. CASE DeleteRecord(r, x)
    <3>1. [s EXCEPT !.gone = @ \cup {x}] = [s EXCEPT !.gone = @ \cup {x}, !.failed = s.failed]
      BY <1>1 DEF RunState
    <3> QED
      BY <1>1, <2>1, <3>1 DEF DeleteRecord, RunState
  <2>2. CASE DeleteFails(r, x)
    BY <2>2 DEF DeleteFails
  <2> QED
    BY <2>1, <2>2
<1> DEFINE t == [s EXCEPT !.gone = @ \cup {x}, !.failed = f]
<1>3. s.pc = "apply"
  BY DEF DeleteRecord, DeleteFails, CanDelete
<1>4. /\ Even(dest') /\ OnePerKey(dest') /\ dest' \subseteq dest
      /\ KeysOf(dest) \ {KeyOf(x)} \subseteq KeysOf(dest')
  <2>1. dest' = dest \/ dest' \in AfterDelete(dest, x)
    BY FailedDelete DEF DeleteRecord, DeleteFails
  <2> QED
    BY <2>1, DeletedEven DEF Steady, EvenServers
<1>5. EvenServers'
  <2>1. budget'.foreign = budget.foreign
    BY <1>1, FailedDelete, Spent DEF DeleteRecord, DeleteFails
  <2> QED
    BY <1>4, <2>1 DEF DeleteRecord, DeleteFails, Steady, EvenServers
<1>6. SamePlan(s, t) /\ t.tried = s.tried /\ t.added = s.added /\ t.gone = s.gone \cup {x}
  BY <1>1 DEF RunState, SamePlan
<1>7. \A y \in s.deletes : y # x => KeyOf(y) # KeyOf(x)
  BY <1>3, DeletesDiffer
<1> HIDE DEF s, t
<1>8. \A q \in t.adds \ t.tried : \A l \in dest' : SameRecord(l, q) => l = Stored(q)
  BY <1>1, <1>3, <1>4, <1>6 DEF SteadySlot, Fresh, SamePlan
<1>9. \A y \in t.deletes \ t.gone : KeyOf(y) \in KeysOf(dest')
  BY <1>1, <1>3, <1>4, <1>6, <1>7 DEF SteadySlot, Fresh, SamePlan
<1>10. ASSUME NEW o \in t.owned, MayTake(r, t, o.name), NEW l \in dest', l.name = o.name
       PROVE  Kept(t, dest', o.name)
  <2>1. MayTake(r, s, o.name) /\ o \in s.owned /\ l \in dest
    BY <1>4, <1>6, <1>10 DEF MayTake, SamePlan
  <2>2. Kept(s, dest, o.name)
    BY <1>1, <1>3, <1>10, <2>1 DEF SteadySlot, Answering
  <2>3. KeyOf(x) \notin s.owned
    BY <1>1, <1>3 DEF SteadySlot, Fresh, s
  <2> QED
    BY <1>4, <1>6, <2>2, <2>3 DEF Kept, SamePlan
<1>11. SteadySlot(r, t, dest') /\ TakesAll(r, t, ledger')
  BY <1>1, <1>3, <1>6, <1>8, <1>9, <1>10, ApplySteady
<1>12. Become(r, t)
  BY <1>2 DEF t
<1> QED
  BY <1>1, <1>5, <1>11, <1>12, SteadyStep

LEMMA EndApplySteady ==
  ASSUME Solo, OwnershipInv, Steady, NEW r \in Runs, EndApply(r)
  PROVE  Steady'
<1> DEFINE s == run[r]
           t == [s EXCEPT !.pc = "load"]
<1>1. s \in RunState /\ TypeOK /\ SteadySlot(r, s, dest)
  BY DEF TypeOK, Steady, OwnershipInv
<1>2. EvenServers' /\ dest' = dest /\ ledger' = ledger /\ s.pc = "apply"
  BY SameServers DEF EndApply, Steady
<1>3. CASE \E how \in Idle : Finish(r, how)
  BY <1>1, <1>2, <1>3, FinishSteady
<1>4. CASE ~\E how \in Idle : Finish(r, how)
  <2>1. Become(r, t) /\ Job[r].prune /\ s.tried = s.added /\ \A z \in Zones : AddsLeft(r, z) = {}
    BY <1>4 DEF EndApply, Idle, ZoneDone
  <2>2. s.adds \subseteq s.added
    <3> SUFFICES ASSUME NEW p \in s.adds, p \notin s.added PROVE FALSE
      OBVIOUS
    <3>1. ZoneOf[p.name] \in Zones
      BY <1>1, PlanAssumption DEF PlanAssumption, RunState, Planned
    <3>2. p \in AddsLeft(r, ZoneOf[p.name])
      BY <2>1 DEF AddsLeft, InZone
    <3> QED
      BY <2>1, <3>1, <3>2
  <2>3. /\ t.pc = "load" /\ t.src = s.src /\ t.owned = s.owned /\ t.adds = s.adds
        /\ t.deletes = s.deletes /\ t.tried = s.tried /\ t.added = s.added
        /\ t.newOwned = s.newOwned /\ t.teardown = s.teardown
    BY <1>1 DEF RunState
  <2> HIDE DEF s, t
  <2>4. EvenPlan(t.src \cup t.adds \cup t.deletes) /\ Apart(t) /\ TakesAll(r, t, ledger)
    BY <1>1, <2>3 DEF SteadySlot, Apart, TakesAll, Planning, Reconciling
  <2>5. Fresh(t, dest) /\ Sees(t, dest) /\ Prunes(r, t)
    BY <1>1, <1>2, <2>1, <2>2, <2>3 DEF SteadySlot, Fresh, Sees, Prunes, Planning, Reconciling
  <2>6. Answering(r, t, dest)
    BY <1>1, <1>2, <2>3 DEF SteadySlot, Answering, MayTake, Kept
  <2> QED
    BY <1>1, <1>2, <2>1, <2>4, <2>5, <2>6, SteadyStep DEF SteadySlot
<1> QED
  BY <1>3, <1>4

-----------------------------------------------------------------------------
(* The steps that reconcile *)

\* What a step of reconciling leaves as it is.
SameRun(s, t) ==
  /\ t.src = s.src /\ t.owned = s.owned /\ t.adds = s.adds /\ t.added = s.added
  /\ t.deletes = s.deletes /\ t.teardown = s.teardown /\ t.newOwned = s.newOwned
  /\ t.apply = s.apply

\* Reconciling keeps the slot steady if it takes none of the source's records.
LEMMA ReconcileSteady ==
  ASSUME NEW j, NEW s, NEW t, NEW d, NEW e,
         SteadySlot(j, s, d), s.pc \in {"load"} \cup Reconciling, s.apply,
         t.pc \in Reconciling, SameRun(s, t), e \subseteq d,
         \A k \in s.owned : k \in KeysOf(d) => k \in KeysOf(e),
         Sees(t, e)
  PROVE  SteadySlot(j, t, e)
<1>1. EvenPlan(t.src \cup t.adds \cup t.deletes) /\ Apart(t) /\ Fresh(t, e) /\ Prunes(j, t)
  BY DEF SteadySlot, SameRun, Apart, Fresh, Prunes, Planning, Reconciling
<1>2. s.adds \subseteq s.added
  BY DEF SteadySlot, Fresh
<1>3. ASSUME NEW o \in t.owned, MayTake(j, t, o.name), NEW l \in e, l.name = o.name
      PROVE  Kept(t, e, o.name)
  <2>1. MayTake(j, s, o.name) /\ o \in s.owned /\ l \in d
    BY <1>3 DEF MayTake, SameRun
  <2>2. Kept(s, d, o.name)
    BY <1>3, <2>1 DEF SteadySlot, Answering
  <2> QED
    BY <1>2, <2>2 DEF Kept, SameRun, KeysOf
<1>4. Answering(j, t, e)
  BY <1>3 DEF Answering
<1> QED
  BY <1>1, <1>4 DEF SteadySlot

\* Whether more candidates of the zone are left makes no difference.
LEMMA PruneNextSteady ==
  ASSUME NEW j, NEW new \in RunState, NEW d, NEW L, new.pc \in {"prune", "pruning"},
         SteadySlot(j, new, d), TakesAll(j, new, L), new.apply
  PROVE  SteadySlot(j, PruneNext(new), d) /\ TakesAll(j, PruneNext(new), L)
<1> DEFINE t == PruneNext(new)
<1>1. \/ t.pc = new.pc /\ t.live = new.live
      \/ t.pc = "prune"
      \/ /\ t.pc \in {"record", "forget"} /\ new.pending = {}
         /\ t.pc = "record" => ~new.teardown
  BY DEF PruneNext, RunState, InZone
<1>2. /\ SameRun(new, t) /\ t.forget = new.forget /\ t.pruneFailed = new.pruneFailed
      /\ t.zone = new.zone /\ t.pending = new.pending
  BY DEF PruneNext, RunState, SameRun
<1> HIDE DEF t
<1>3. t.pc \in Reconciling
  BY <1>1 DEF Reconciling
<1>4. Sees(t, d)
  BY <1>1, <1>2 DEF SteadySlot, Sees, SameRun, Reconciling, Planning
<1>5. TakesAll(j, t, L)
  BY <1>2 DEF TakesAll, SameRun, Reconciling
<1>6. new.pc \in {"load"} \cup Reconciling
  BY DEF Reconciling
<1>7. SteadySlot(j, t, d)
  BY <1>2, <1>3, <1>4, <1>6, ReconcileSteady
<1> QED
  BY <1>5, <1>7 DEF t

LEMMA LoadSteady ==
  ASSUME Solo, OwnershipInv, Steady, NEW r \in Runs, LoadOwned(r)
  PROVE  Steady'
<1> DEFINE s        == run[r]
           previous == ledger[KeyFor(r)]
           kept     == IF s.teardown THEN {} ELSE previous \cap s.owned
           new      == [s EXCEPT !.pc = "prune", !.newOwned = KeysOf(s.adds) \cup kept,
                                 !.pending = previous \ kept]
<1>1. s \in RunState /\ TypeOK /\ SteadySlot(r, s, dest)
  BY DEF TypeOK, Steady, OwnershipInv
<1>2. EvenServers' /\ dest' = dest /\ ledger' = ledger /\ s.pc = "load"
  BY SameServers DEF LoadOwned, Steady
<1>3. CASE ~s.apply
  BY <1>1, <1>2, <1>3, FinishSteady DEF LoadOwned, Finish, Idle
<1>4. CASE s.apply
  <2>1. Become(r, PruneNext(new))
    BY <1>4 DEF LoadOwned
  <2>2. previous \in SUBSET Key /\ KeysOf(s.adds) \in SUBSET Key
    BY <1>1, KeysType, RecordSyncAssumption
    DEF RecordSyncAssumption, TypeOK, KeyFor, JobConfig, RunState
  <2>3. s.forget = {}
    BY <1>2 DEF OwnershipInv, RunBacked
  <2>4. /\ new.pc = "prune" /\ new.newOwned = KeysOf(s.adds) \cup kept
        /\ new.pending = previous \ kept /\ new.forget = {} /\ new.apply
        /\ new.src = s.src /\ new.owned = s.owned /\ new.adds = s.adds /\ new.added = s.added
        /\ new.deletes = s.deletes /\ new.teardown = s.teardown
    BY <1>1, <1>4, <2>3 DEF RunState
  <2>5. new \in RunState
    BY <1>1, <2>2 DEF RunState
  <2>6. s.teardown => previous = ledger[Job[r].teardownKey]
    BY DEF KeyFor
  <2>7. s.teardown => s.owned = {} /\ s.adds = {} /\ s.deletes = {}
    BY <1>1 DEF SteadySlot, Sees
  <2>8. kept \subseteq s.owned /\ previous \cap s.owned \subseteq kept
    BY <2>7
  <2>9. s.teardown => kept = {} /\ KeysOf(s.adds) = {}
    BY <2>7 DEF KeysOf
  <2> HIDE DEF s, previous, kept, new
  <2>10. Sees(new, dest)
    BY <2>4, <2>7, <2>8, <2>9 DEF Sees, Planning, Reconciling
  <2>11. TakesAll(r, new, ledger)
    BY <2>4, <2>6, <2>9 DEF TakesAll
  <2>12. SteadySlot(r, new, dest)
    <3>1. EvenPlan(new.src \cup new.adds \cup new.deletes) /\ Apart(new) /\ Fresh(new, dest)
          /\ Prunes(r, new)
      BY <1>1, <1>2, <1>4, <2>4 DEF SteadySlot, Apart, Fresh, Prunes, Planning, Reconciling
    <3>2. Answering(r, new, dest)
      BY <1>1, <1>2, <1>4, <2>4 DEF SteadySlot, Answering, MayTake, Kept, Reconciling
    <3> QED
      BY <2>10, <3>1, <3>2 DEF SteadySlot
  <2>13. SteadySlot(r, PruneNext(new), dest) /\ TakesAll(r, PruneNext(new), ledger)
    BY <2>4, <2>5, <2>11, <2>12, PruneNextSteady
  <2> QED
    BY <1>1, <1>2, <2>1, <2>13, SteadyStep
<1> QED
  BY <1>3, <1>4

\* What is to be pruned or forgotten can be listed.
LEMMA PendingListed ==
  ASSUME OwnershipInv, Steady, NEW r \in Runs, run[r].pc \in Reconciling,
         NEW k \in run[r].pending
  PROVE  k.name \notin Unwritable /\ k \in Key /\ KeyOf(k) = k
<1>1. k \in written[KeyFor(r)]
  BY DEF OwnershipInv, RunBacked, Reconciling
<1>2. KeyFor(r) \in LedgerKeys
  BY RecordSyncAssumption DEF KeyFor, RecordSyncAssumption, JobConfig
<1>3. k \in Key
  BY <1>1, <1>2 DEF OwnershipInv, TypeOK
<1> QED
  BY <1>1, <1>2, <1>3 DEF Steady, EvenServers, Key, KeyOf

LEMMA ListLiveSteady ==
  ASSUME Solo, OwnershipInv, Steady, NEW r \in Runs, NEW z \in Zones, ListLive(r, z)
  PROVE  Steady'
<1> DEFINE s    == run[r]
           live == KeysOf(CollectRecords(InZone(dest, z), NoMap))
           t    == [s EXCEPT !.pc = "pruning", !.zone = z, !.live = live]
<1>1. /\ s \in RunState /\ TypeOK /\ SteadySlot(r, s, dest) /\ TakesAll(r, s, ledger)
      /\ dest \in SUBSET Listed /\ Even(dest)
  BY DEF TypeOK, Steady, EvenServers, OwnershipInv
<1>2. EvenServers' /\ dest' = dest /\ ledger' = ledger /\ s.pc = "prune" /\ Become(r, t)
  BY SameServers DEF ListLive, Steady
<1>3. ASSUME NEW k \in s.pending, ZoneOf[k.name] = z
      PROVE  k \in live <=> k \in KeysOf(dest)
  <2>1. k.name \notin Unwritable /\ k \in Key /\ KeyOf(k) = k
    BY <1>2, PendingListed DEF Reconciling
  <2>2. k \in live => \E p \in CollectRecords(InZone(dest, z), NoMap) :
                        p.name = k.name /\ p.value = k.value
    BY DEF KeysOf, KeyOf
  <2>3. k \in live => k \in KeysOf(dest)
    BY <1>1, <2>1, <2>2, DestListed DEF KeysOf, KeyOf
  <2>4. k \in KeysOf(dest) => \E l \in dest : l.name = k.name /\ l.value = k.value
    BY DEF KeysOf, KeyOf
  <2>5. k \in KeysOf(dest) => \E p \in CollectRecords(InZone(dest, z), NoMap) :
                                p.name = k.name /\ p.value = k.value
    BY <1>1, <1>3, <2>1, <2>4, DestListed
  <2>6. k \in KeysOf(dest) => k \in live
    BY <2>1, <2>5 DEF KeysOf, KeyOf
  <2> QED
    BY <2>3, <2>6
<1> HIDE DEF live
<1>4. /\ SameRun(s, t) /\ t.pc = "pruning" /\ t.zone = z /\ t.live = live
      /\ t.pending = s.pending /\ t.forget = s.forget /\ t.pruneFailed = s.pruneFailed
  BY <1>1 DEF RunState, SameRun
<1> HIDE DEF s, t
<1>5. s.apply /\ s.pc \in Reconciling /\ t.pc \in Reconciling
  BY <1>1, <1>2, <1>4 DEF SteadySlot, Sees, Reconciling
<1>6. Sees(t, dest)
  BY <1>1, <1>2, <1>3, <1>4, <1>5 DEF SteadySlot, Sees, SameRun, Planning
<1>7. TakesAll(r, t, ledger)
  BY <1>1, <1>4, <1>5 DEF TakesAll, SameRun
<1>8. SteadySlot(r, t, dest)
  BY <1>1, <1>4, <1>5, <1>6, ReconcileSteady
<1> QED
  BY <1>1, <1>2, <1>7, <1>8, SteadyStep

\* What a step of pruning makes of the slot before it looks for the next
\* candidate: some candidates were dropped, and are gone or have failed.
LEMMA PruneStepSteady ==
  ASSUME Solo, OwnershipInv, Steady, EvenServers', NEW r \in Runs,
         NEW new \in RunState, Become(r, PruneNext(new)),
         run[r].pc \in {"prune", "pruning"}, new.pc = run[r].pc, SameRun(run[r], new),
         new.live = run[r].live, new.pc = "pruning" => new.zone = run[r].zone,
         new.pending \subseteq run[r].pending, run[r].forget \subseteq new.forget,
         run[r].pruneFailed => new.pruneFailed,
         new.pruneFailed \/ run[r].pending \subseteq new.pending \cup new.forget,
         dest' \subseteq dest, ledger' = ledger,
         new.forget \cap KeysOf(dest') = {},
         \A k \in new.pending \cup run[r].owned : k \in KeysOf(dest) => k \in KeysOf(dest')
  PROVE  Steady'
<1> DEFINE s == run[r]
<1>1. /\ s \in RunState /\ TypeOK /\ SteadySlot(r, s, dest) /\ TakesAll(r, s, ledger)
  BY DEF TypeOK, Steady, OwnershipInv
<1>2. s.pc \in Reconciling /\ new.pc \in Reconciling /\ s.apply /\ new.apply
  BY <1>1 DEF SteadySlot, Sees, SameRun, Reconciling
<1>3. KeysOf(dest') \subseteq KeysOf(dest)
  BY KeysGrow
<1> HIDE DEF s
<1>4. Sees(new, dest')
  BY <1>1, <1>2, <1>3 DEF SteadySlot, Sees, SameRun, Reconciling, Planning, s
<1>5. TakesAll(r, new, ledger')
  BY <1>1, <1>2 DEF TakesAll, SameRun, s
<1>6. SteadySlot(r, new, dest')
  BY <1>1, <1>2, <1>4, ReconcileSteady DEF s
<1>7. SteadySlot(r, PruneNext(new), dest') /\ TakesAll(r, PruneNext(new), ledger')
  BY <1>2, <1>5, <1>6, PruneNextSteady
<1> QED
  BY <1>1, <1>7, SteadyStep

LEMMA ListLiveFailsSteady ==
  ASSUME Solo, OwnershipInv, Steady, NEW r \in Runs, NEW z \in Zones, ListLiveFails(r, z)
  PROVE  Steady'
<1> DEFINE s   == run[r]
           new == [s EXCEPT !.zone = z, !.pruneFailed = TRUE,
                            !.pending = @ \ InZone(@, z)]
<1>1. s \in RunState /\ TypeOK /\ SteadySlot(r, s, dest)
  BY DEF TypeOK, Steady, OwnershipInv
<1>2. EvenServers' /\ dest' = dest /\ ledger' = ledger /\ s.pc = "prune"
  BY <1>1, SameServers, Spent DEF ListLiveFails, Steady
<1>3. Become(r, PruneNext(new))
  BY DEF ListLiveFails
<1>4. new \in RunState
  BY <1>1 DEF RunState
<1>5. /\ new.pc = s.pc /\ SameRun(s, new) /\ new.live = s.live /\ new.pending \subseteq s.pending
      /\ new.forget = s.forget /\ new.pruneFailed
  BY <1>1 DEF RunState, SameRun
<1>6. s.forget \cap KeysOf(dest) = {}
  BY <1>1, <1>2 DEF SteadySlot, Sees, Reconciling
<1> HIDE DEF new
<1> QED
  BY <1>2, <1>3, <1>4, <1>5, <1>6, PruneStepSteady

LEMMA PruneSteady ==
  ASSUME Solo, OwnershipInv, Steady, NEW r \in Runs, NEW k \in run[r].pending,
         PruneRecord(r, k) \/ SkipDrifted(r, k) \/ PruneFails(r, k)
  PROVE  Steady'
<1> DEFINE s == run[r]
<1>1. s \in RunState /\ TypeOK /\ SteadySlot(r, s, dest)
  BY DEF TypeOK, Steady, OwnershipInv
<1>2. s.pc = "pruning" /\ ZoneOf[k.name] = s.zone /\ ledger' = ledger
  BY DEF PruneRecord, SkipDrifted, PruneFails, Candidate, InZone
<1>3. k \in Key /\ KeyOf(k) = k
  BY <1>2, PendingListed DEF Reconciling
<1>4. k \notin s.owned /\ s.forget \cap KeysOf(dest) = {} /\ (k \in s.live <=> k \in KeysOf(dest))
  BY <1>1, <1>2 DEF SteadySlot, Sees, Reconciling
<1>5. CASE PruneRecord(r, k) \/ SkipDrifted(r, k)
  <2> DEFINE new == [s EXCEPT !.pending = @ \ {k}, !.forget = @ \cup {k}]
  <2>1. Become(r, PruneNext(new))
    BY <1>5 DEF PruneRecord, SkipDrifted
  <2>2. new \in RunState
    BY <1>1, <1>3 DEF RunState
  <2>3. /\ new.pc = s.pc /\ SameRun(s, new) /\ new.live = s.live /\ new.zone = s.zone
        /\ new.pending = s.pending \ {k} /\ new.forget = s.forget \cup {k}
        /\ new.pruneFailed = s.pruneFailed
    BY <1>1 DEF RunState, SameRun
  <2> HIDE DEF new
  <2>4. CASE PruneRecord(r, k)
    <3>1. /\ Even(dest') /\ OnePerKey(dest') /\ dest' \subseteq dest
          /\ KeysOf(dest') = KeysOf(dest) \ {k}
      BY <1>3, <2>4, DeletedEven DEF PruneRecord, Steady, EvenServers
    <3>2. EvenServers'
      BY <2>4, <3>1 DEF PruneRecord, Steady, EvenServers
    <3>3. new.forget \cap KeysOf(dest') = {}
      BY <1>4, <2>3, <3>1
    <3>4. \A x \in new.pending \cup s.owned : x \in KeysOf(dest) => x \in KeysOf(dest')
      BY <1>4, <2>3, <3>1
    <3> QED
      BY <1>2, <2>1, <2>2, <2>3, <3>1, <3>2, <3>3, <3>4, PruneStepSteady
  <2>5. CASE SkipDrifted(r, k)
    <3>1. EvenServers' /\ dest' = dest /\ k \notin KeysOf(dest)
      BY <1>4, <2>5, SameServers DEF SkipDrifted, Steady
    <3>2. new.forget \cap KeysOf(dest') = {}
      BY <1>4, <2>3, <3>1
    <3> QED
      BY <1>2, <2>1, <2>2, <2>3, <3>1, <3>2, PruneStepSteady
  <2> QED
    BY <1>5, <2>4, <2>5
<1>6. CASE PruneFails(r, k)
  <2> DEFINE new == [s EXCEPT !.pending = @ \ {k}, !.pruneFailed = TRUE]
  <2>1. Become(r, PruneNext(new))
    BY <1>6 DEF PruneFails
  <2>2. new \in RunState
    BY <1>1 DEF RunState
  <2>3. /\ new.pc = s.pc /\ SameRun(s, new) /\ new.live = s.live /\ new.zone = s.zone
        /\ new.pending = s.pending \ {k} /\ new.forget = s.forget /\ new.pruneFailed
    BY <1>1 DEF RunState, SameRun
  <2> HIDE DEF new
  <2>4. /\ dest' = dest \/ dest' \in AfterDelete(dest, k)
        /\ UNCHANGED <<source, written>> /\ budget'.foreign = budget.foreign
    BY <1>1, <1>6, FailedDelete, Spent DEF PruneFails
  <2>5. /\ Even(dest') /\ OnePerKey(dest') /\ dest' \subseteq dest
        /\ KeysOf(dest) \ {k} \subseteq KeysOf(dest')
    BY <1>3, <2>4, DeletedEven DEF Steady, EvenServers
  <2>6. EvenServers'
    BY <2>4, <2>5 DEF Steady, EvenServers
  <2>7. new.forget \cap KeysOf(dest') = {}
    BY <1>4, <2>3, <2>5, KeysGrow
  <2>8. \A x \in new.pending \cup s.owned : x \in KeysOf(dest) => x \in KeysOf(dest')
    BY <1>4, <2>3, <2>5
  <2> QED
    BY <1>2, <2>1, <2>2, <2>3, <2>5, <2>6, <2>7, <2>8, PruneStepSteady
<1> QED
  BY <1>5, <1>6

LEMMA LedgerSteady ==
  ASSUME Solo, OwnershipInv, Steady, NEW r \in Runs, RecordOwned(r) \/ ForgetOwned(r)
  PROVE  Steady'
<1> DEFINE s == run[r]
           t == [s EXCEPT !.pc = "forget"]
<1>1. s \in RunState /\ TypeOK /\ SteadySlot(r, s, dest)
  BY DEF TypeOK, Steady, OwnershipInv
<1>2. EvenServers' /\ dest' = dest
  BY SameServers DEF RecordOwned, ForgetOwned, Steady
<1>3. CASE EndPrune(r)
  BY <1>1, <1>2, <1>3, FinishSteady DEF EndPrune, Idle
<1>4. CASE ~EndPrune(r)
  <2>1. Become(r, t) /\ s.pc = "record"
    BY <1>4 DEF RecordOwned, ForgetOwned
  <2>2. /\ SameRun(s, t) /\ t.pc = "forget" /\ t.pending = s.pending /\ t.forget = s.forget
    BY <1>1 DEF RunState, SameRun
  <2> HIDE DEF s, t
  <2>3. ~s.teardown /\ s.apply
    BY <1>1, <2>1 DEF SteadySlot, Sees, Reconciling
  <2>4. Sees(t, dest)
    BY <1>1, <2>1, <2>2 DEF SteadySlot, Sees, SameRun, Planning, Reconciling
  <2>5. TakesAll(r, t, ledger')
    BY <2>2, <2>3 DEF TakesAll, SameRun
  <2>6. SteadySlot(r, t, dest)
    BY <1>1, <2>1, <2>2, <2>3, <2>4, ReconcileSteady DEF Reconciling
  <2> QED
    BY <1>1, <1>2, <2>1, <2>5, <2>6, SteadyStep
<1> QED
  BY <1>3, <1>4

LEMMA EditSteady ==
  ASSUME Solo, TypeOK, Steady, Edit
  PROVE  Steady'
<1>1. PICK x \in SourceRecords : EditSource(x)
  BY DEF Edit, EditForeign, Spend, Steady, EvenServers
<1>2. EvenServers'
  BY <1>1, Spent DEF EditSource, Edited, Put, Steady, EvenServers
<1> QED
  BY <1>1, <1>2 DEF EditSource, Steady

LEMMA SteadyInit == Solo /\ Init => Steady
<1> SUFFICES ASSUME Solo, Init PROVE Steady
  OBVIOUS
<1>1. Even(dest)
  BY NominalTtl DEF Init, Even, Solo
<1>2. EvenServers
  BY <1>1 DEF Init, EvenServers, Solo
<1>3. /\ Ended("idle").pc = "idle" /\ Ended("idle").src = {} /\ Ended("idle").owned = {}
      /\ Ended("idle").adds = {} /\ Ended("idle").deletes = {} /\ Ended("idle").newOwned = {}
      /\ ~Ended("idle").teardown
  BY DEF Ended
<1>4. \A r \in Runs : SteadySlot(r, run[r], dest) /\ TakesAll(r, run[r], ledger)
  BY <1>3, BlankSteady DEF Init, Idle
<1> QED
  BY <1>2, <1>4 DEF Steady

LEMMA SteadyNext == Solo /\ OwnershipInv /\ Steady /\ [Next]_vars => Steady'
<1> SUFFICES ASSUME Solo, OwnershipInv, Steady, [Next]_vars PROVE Steady'
  OBVIOUS
<1>0. TypeOK
  BY DEF OwnershipInv
<1>1. CASE Edit
  BY <1>0, <1>1, EditSteady
<1>2. ASSUME NEW r \in Runs, Start(r) PROVE Steady'
  BY <1>0, <1>2, StartSteady
<1>3. ASSUME NEW r \in Runs, Progress(r) PROVE Steady'
  BY <1>0, <1>3, ListSourceSteady, ListLiveSteady, ListDestSteady, EndApplySteady, LoadSteady,
     LedgerSteady, AddSteady, DeleteSteady, PruneSteady DEF Progress
<1>4. ASSUME NEW r \in Runs, Fault(r) PROVE Steady'
  BY <1>0, <1>4, EndSteady, AddFailsSteady, DeleteSteady, ListLiveFailsSteady, PruneSteady
  DEF Fault
<1>5. CASE UNCHANGED vars
  BY <1>5 DEF vars, Steady, EvenServers
<1> QED
  BY <1>1, <1>2, <1>3, <1>4, <1>5 DEF Next

-----------------------------------------------------------------------------
(* What one run at a time can promise *)

\* The ledger shrinks only by what a run has pruned or seen to be gone.
LEMMA ShrinksBy ==
  ASSUME OwnershipInv, Next, NEW k \in LedgerKeys, NEW x \in ledger[k] \ ledger'[k]
  PROVE  \E r \in Runs : ForgetOwned(r) /\ x \in run[r].forget
<1>1. ~Edit
  BY DEF Edit, EditSource, EditForeign
<1>2. PICK r \in Runs : Start(r) \/ Progress(r) \/ Fault(r)
  BY <1>1 DEF Next
<1>3. ledger \in [LedgerKeys -> SUBSET Key]
  BY DEF OwnershipInv, TypeOK
<1>4. ~Start(r) /\ ~Fault(r)
  BY DEF Start, StartSync, StartTeardown, Fault, Abort, Crash, AddFails, DeleteFails,
         ListLiveFails, PruneFails
<1>5. RecordOwned(r) \/ ForgetOwned(r)
  BY <1>2, <1>4 DEF Progress, ListSource, ListLive, ListDest, EndApply, LoadOwned, AddRecord,
                    DeleteRecord, PruneRecord, SkipDrifted
<1>6. ~RecordOwned(r)
  BY <1>3 DEF RecordOwned
<1>7. x \in run[r].forget
  BY <1>3, <1>5, <1>6 DEF ForgetOwned
<1> QED
  BY <1>5, <1>6, <1>7

\* One run at a time, whatever of it fails or dies, never forgets a record
\* that is still on the destination: a delete that failed is tried again by a
\* later run (sync/reconcile.rs and the executors that call it).
THEOREM ForgottenIsGone ==
  ASSUME Solo
  PROVE  Spec => ForgottenOnlyWhenGone
<1> DEFINE Gone == \A k \in LedgerKeys : \A x \in ledger[k] \ ledger'[k] : x \notin KeysOf(dest)
<1>1. OwnershipInv /\ Steady /\ [Next]_vars => [Gone]_vars
  <2> SUFFICES ASSUME OwnershipInv, Steady, Next,
                      NEW k \in LedgerKeys, NEW x \in ledger[k] \ ledger'[k]
               PROVE  x \notin KeysOf(dest)
    OBVIOUS
  <2>1. PICK r \in Runs : ForgetOwned(r) /\ x \in run[r].forget
    BY ShrinksBy
  <2>2. run[r].forget \cap KeysOf(dest) = {}
    BY <2>1 DEF Steady, SteadySlot, Sees, ForgetOwned, Reconciling
  <2> QED
    BY <2>1, <2>2
<1>2. Init => Steady
  BY SteadyInit
<1>3. OwnershipInv /\ Steady /\ [Next]_vars => Steady'
  BY SteadyNext
<1> QED
  BY <1>1, <1>2, <1>3, OwnershipInvariant, PTL DEF Spec, ForgottenOnlyWhenGone

\* The step with which a teardown ends well.
LEMMA EndsTeardown ==
  ASSUME OwnershipInv, Steady, Next, NEW r \in Runs, TornDown(r)
  PROVE  ForgetOwned(r)
<1>1. SteadySlot(r, run[r], dest) /\ run[r] \in RunState /\ TypeOK
  BY DEF Steady, OwnershipInv, TypeOK
<1>2. run[r].teardown /\ run[r].apply /\ run'[r].pc = "ok"
  BY DEF TornDown
<1>3. run[r].pc \in {"load"} \cup Reconciling /\ run[r].pc # "record"
  BY <1>1, <1>2 DEF SteadySlot, Sees
<1>4. run'[r] # run[r]
  BY <1>2, <1>3 DEF Reconciling
<1>5. Start(r) \/ Progress(r) \/ Fault(r)
  BY <1>1, <1>4, StepOfSlot DEF Next, Edit, EditSource, EditForeign
<1>6. ~Start(r)
  BY <1>3 DEF Start, StartSync, StartTeardown, Idle, Reconciling
<1>7. \A new \in RunState : new.pc # "ok" => PruneNext(new).pc # "ok"
  BY DEF PruneNext, RunState
<1>8. ~Fault(r)
  <2> SUFFICES ASSUME Fault(r) PROVE FALSE
    OBVIOUS
  <2>1. ASSUME NEW how, Finish(r, how), how # "ok" PROVE FALSE
    <3>1. run'[r] = Ended(how)
      BY <1>1, <2>1, StepElsewhere DEF Finish
    <3> QED
      BY <1>2, <2>1, <3>1 DEF Ended
  <2>2. ~Abort(r) /\ ~Crash(r)
    BY <2>1 DEF Abort, Crash
  <2>3. ASSUME NEW z \in Zones, ListLiveFails(r, z) PROVE FALSE
    <3> DEFINE new == [run[r] EXCEPT !.zone = z, !.pruneFailed = TRUE,
                                     !.pending = @ \ InZone(@, z)]
    <3>1. new \in RunState /\ new.pc # "ok"
      BY <1>1, <1>3 DEF RunState, Reconciling
    <3>2. run'[r] = PruneNext(new)
      BY <1>1, <2>3, StepElsewhere DEF ListLiveFails
    <3> QED
      BY <1>2, <1>7, <3>1, <3>2
  <2>4. ASSUME NEW k \in run[r].pending, PruneFails(r, k) PROVE FALSE
    <3> DEFINE new == [run[r] EXCEPT !.pending = @ \ {k}, !.pruneFailed = TRUE]
    <3>1. new \in RunState /\ new.pc # "ok"
      BY <1>1, <1>3 DEF RunState, Reconciling
    <3>2. run'[r] = PruneNext(new)
      BY <1>1, <2>4, StepElsewhere DEF PruneFails
    <3> QED
      BY <1>2, <1>7, <3>1, <3>2
  <2> QED
    BY <1>3, <2>2, <2>3, <2>4 DEF Fault, AddFails, DeleteFails, CanDelete, Reconciling
<1>9. ~LoadOwned(r)
  <2> SUFFICES ASSUME LoadOwned(r) PROVE FALSE
    OBVIOUS
  <2> DEFINE kept == IF run[r].teardown THEN {} ELSE ledger[KeyFor(r)] \cap run[r].owned
             new  == [run[r] EXCEPT !.pc = "prune", !.newOwned = KeysOf(run[r].adds) \cup kept,
                                    !.pending = ledger[KeyFor(r)] \ kept]
  <2>1. run'[r] = PruneNext(new)
    BY <1>1, <1>2, StepElsewhere DEF LoadOwned
  <2>2. ledger[KeyFor(r)] \in SUBSET Key /\ KeysOf(run[r].adds) \in SUBSET Key
    BY <1>1, KeysType, RecordSyncAssumption
    DEF RecordSyncAssumption, TypeOK, KeyFor, JobConfig, RunState
  <2>3. new \in RunState /\ new.pc # "ok"
    BY <1>1, <2>2 DEF RunState
  <2> QED
    BY <1>2, <1>7, <2>1, <2>3
<1>10. ASSUME NEW z \in Zones, ListLive(r, z) PROVE FALSE
  <2> DEFINE live == KeysOf(CollectRecords(InZone(dest, z), NoMap))
             new  == [run[r] EXCEPT !.pc = "pruning", !.zone = z, !.live = live]
  <2>1. run'[r] = new /\ new.pc = "pruning"
    BY <1>1, <1>10, StepElsewhere DEF ListLive, RunState
  <2> QED
    BY <1>2, <2>1
<1>11. ASSUME NEW k \in run[r].pending, PruneRecord(r, k) \/ SkipDrifted(r, k) PROVE FALSE
  <2> DEFINE new == [run[r] EXCEPT !.pending = @ \ {k}, !.forget = @ \cup {k}]
  <2>1. run'[r] = PruneNext(new)
    BY <1>1, <1>11, StepElsewhere DEF PruneRecord, SkipDrifted
  <2>2. new \in RunState /\ new.pc # "ok"
    BY <1>1, <1>3 DEF RunState, Reconciling
  <2> QED
    BY <1>2, <1>7, <2>1, <2>2
<1> QED
  BY <1>3, <1>5, <1>6, <1>8, <1>9, <1>10, <1>11
  DEF Progress, ListSource, ListDest, EndApply, RecordOwned, AddRecord, DeleteRecord, CanDelete,
      Reconciling

\* A teardown none of whose deletes failed has taken all that its key owned,
\* and clears the ledger, while no other run uses the key or the destination
\* (teardown in sync/run.rs).
THEOREM TeardownIsComplete ==
  ASSUME Solo, NEW key, LedgerKeys = {key}
  PROVE  Spec => TeardownRollsBack
<1> DEFINE Clear == \A r \in Runs : TornDown(r) =>
                      \A k \in LedgerKeys : ledger'[k] = {} /\ ledger[k] \cap KeysOf(dest) = {}
<1>1. OwnershipInv /\ Steady /\ [Next]_vars => [Clear]_vars
  <2> SUFFICES ASSUME OwnershipInv, Steady, Next, NEW r \in Runs, TornDown(r),
                      NEW k \in LedgerKeys
               PROVE  ledger'[k] = {} /\ ledger[k] \cap KeysOf(dest) = {}
    OBVIOUS
  <2>1. ForgetOwned(r)
    BY EndsTeardown
  <2>2. KeyFor(r) = k /\ Job[r].teardownKey = k
    BY RecordSyncAssumption DEF KeyFor, RecordSyncAssumption, JobConfig, TornDown
  <2>3. ledger[k] \subseteq run[r].forget /\ run[r].forget \cap KeysOf(dest) = {}
    BY <2>1, <2>2 DEF Steady, SteadySlot, Sees, TakesAll, ForgetOwned, TornDown, Reconciling
  <2>4. ledger'[k] = ledger[k] \ run[r].forget
    BY <2>1, <2>2 DEF ForgetOwned, OwnershipInv, TypeOK
  <2> QED
    BY <2>3, <2>4
<1>2. Init => Steady
  BY SteadyInit
<1>3. OwnershipInv /\ Steady /\ [Next]_vars => Steady'
  BY SteadyNext
<1> QED
  BY <1>1, <1>2, <1>3, OwnershipInvariant, PTL DEF Spec, TeardownRollsBack

\* Whatever the run takes leaves a record of the name, if the source has one.
LEMMA TakenLeaves ==
  ASSUME Solo, OwnershipInv, Steady, NEW r \in Runs, NEW n, NEW k,
         NEW e \in AfterDelete(dest, k), KeyOf(k) \notin run[r].owned,
         KeyOf(k).name = n => \E o \in run[r].owned : o.name = n /\ o \in KeysOf(dest),
         Answers(dest, n)
  PROVE  Answers(e, n)
<1>1. /\ Even(e)
      /\ \A l \in dest : KeyOf(l) # KeyOf(k) => l \in e
  BY DeletedEven DEF Steady, EvenServers
<1>2. PICK l \in dest : l.name = n /\ KeyOf(l) # KeyOf(k)
  <2>1. CASE KeyOf(k).name = n
    <3>1. PICK o \in run[r].owned : o.name = n /\ o \in KeysOf(dest)
      BY <2>1
    <3>2. PICK l \in dest : o = KeyOf(l)
      BY <3>1 DEF KeysOf
    <3>3. l.name = n
      BY <3>1, <3>2 DEF KeyOf
    <3> QED
      BY <3>2, <3>3
  <2>2. CASE KeyOf(k).name # n
    <3>1. PICK l \in dest : l.name = n
      BY DEF Answers
    <3> QED
      BY <2>2, <3>1 DEF KeyOf
  <2> QED
    BY <2>1, <2>2
<1> QED
  BY <1>1, <1>2 DEF Answers, Even

\* One run at a time never leaves a name without an answer that the source
\* has and the destination answered, if a job that prunes may overwrite and
\* TTLs do not change: additions come before removals, and a removal never
\* takes what the source has (sync/apply.rs, sync/reconcile.rs).
THEOREM NamesStayAnswered ==
  ASSUME Solo, \A r \in Runs : Job[r].prune => Job[r].options.overwrite_existing
  PROVE  Spec => NameNeverDark
<1> DEFINE Bright == \A r \in Runs : run[r].pc \in {"apply", "pruning"} /\ Steps(r) =>
                       \A o \in run[r].owned :
                         Answers(dest, o.name) => Answers(dest', o.name)
<1>1. OwnershipInv /\ Steady /\ [Next]_vars => [Bright]_vars
  <2> SUFFICES ASSUME OwnershipInv, Steady, Next, NEW r \in Runs,
                      run[r].pc \in {"apply", "pruning"}, Steps(r),
                      NEW o \in run[r].owned, Answers(dest, o.name)
               PROVE  Answers(dest', o.name)
    OBVIOUS
  <2>1. /\ SteadySlot(r, run[r], dest) /\ run[r] \in RunState /\ dest \in SUBSET Listed
        /\ Even(dest) /\ OnePerKey(dest) /\ TypeOK
    BY DEF Steady, EvenServers, OwnershipInv, TypeOK
  <2>2. Start(r) \/ Progress(r) \/ Fault(r)
    BY <2>1, StepOfSlot DEF Next, Edit, EditSource, EditForeign, Steps
  <2>3. CASE dest' = dest
    BY <2>3
  <2>4. \E l \in dest : l.name = o.name
    BY DEF Answers
  <2>5. ASSUME NEW p \in run[r].adds, AddRecord(r, p) \/ AddFails(r, p), dest' = AfterAdd(dest, p)
        PROVE  Answers(dest', o.name)
    <3>1. p \in Planned /\ p.ttl = Nominal(p.name)
      BY <2>1 DEF SteadySlot, EvenPlan, RunState
    <3>2. \A l \in dest : SameRecord(l, p) => l = Stored(p)
      BY <2>1, <2>5 DEF SteadySlot, Fresh, AddRecord, AddFails, AddsLeft, InZone
    <3>3. dest' = dest \cup {Stored(p)}
      BY <2>1, <2>5, <3>1, <3>2, AddedEven
    <3> QED
      BY <3>3 DEF Answers
  <2>6. ASSUME NEW x \in run[r].deletes, CanDelete(r, x), dest' \in AfterDelete(dest, x)
        PROVE  Answers(dest', o.name)
    <3>1. run[r].pc = "apply" /\ dest' \in AfterDelete(dest, x)
      BY <2>6 DEF CanDelete
    <3>2. KeyOf(x) \notin run[r].owned
      BY <2>1, <3>1 DEF SteadySlot, Fresh
    <3>3. ASSUME x.name = o.name
          PROVE  \E k \in run[r].owned : k.name = o.name /\ k \in KeysOf(dest)
      <4>1. MayTake(r, run[r], o.name)
        BY <3>3 DEF MayTake
      <4>2. Kept(run[r], dest, o.name)
        BY <2>1, <2>4, <3>1, <4>1 DEF SteadySlot, Answering
      <4>3. ASSUME NEW p \in run[r].adds, p.name = o.name PROVE p \in run[r].added
        BY <2>6, <3>3, <4>3
        DEF CanDelete, AddsLeft, DeletesLeft, ZoneAddFailed, InZone
      <4>4. ASSUME NEW k, k \in KeysOf(run[r].adds \ run[r].added), k.name = o.name PROVE FALSE
        BY <4>3, <4>4 DEF KeysOf, KeyOf
      <4> QED
        BY <4>2, <4>4 DEF Kept
    <3>4. KeyOf(x).name = x.name
      BY DEF KeyOf
    <3> QED
      BY <3>1, <3>2, <3>3, <3>4, TakenLeaves
  <2>7. ASSUME NEW k \in run[r].pending, Candidate(r, k), dest' \in AfterDelete(dest, k)
        PROVE  Answers(dest', o.name)
    <3>1. run[r].pc = "pruning" /\ dest' \in AfterDelete(dest, k)
      BY <2>7 DEF Candidate
    <3>2. KeyOf(k) = k
      BY <3>1, PendingListed DEF Reconciling
    <3>3. k \notin run[r].owned /\ run[r].apply /\ ~run[r].teardown
      BY <2>1, <3>1 DEF SteadySlot, Sees, Reconciling
    <3>4. MayTake(r, run[r], o.name)
      BY <2>1, <3>1, <3>3 DEF SteadySlot, Prunes, MayTake, Reconciling
    <3>5. Kept(run[r], dest, o.name) /\ run[r].adds \subseteq run[r].added
      BY <2>1, <2>4, <3>1, <3>3, <3>4 DEF SteadySlot, Answering, Fresh, Reconciling
    <3>6. \E x \in run[r].owned : x.name = o.name /\ x \in KeysOf(dest)
      BY <3>5 DEF Kept, KeysOf
    <3> QED
      BY <3>1, <3>2, <3>3, <3>6, TakenLeaves
  <2>8. CASE Start(r)
    BY <2>3, <2>8 DEF Start, StartSync, StartTeardown
  <2>9. CASE Progress(r)
    BY <2>3, <2>5, <2>6, <2>7, <2>9
    DEF Progress, ListSource, ListLive, ListDest, EndApply, LoadOwned, RecordOwned, ForgetOwned,
        SkipDrifted, AddRecord, DeleteRecord, PruneRecord
  <2>10. CASE Fault(r)
    <3>1. ASSUME NEW p \in run[r].adds, AddFails(r, p) PROVE Answers(dest', o.name)
      BY <2>3, <2>5, <3>1, FailedAdd
    <3>2. ASSUME NEW x \in run[r].deletes, DeleteFails(r, x) PROVE Answers(dest', o.name)
      BY <2>3, <2>6, <3>2, FailedDelete DEF DeleteFails
    <3>3. ASSUME NEW k \in run[r].pending, PruneFails(r, k) PROVE Answers(dest', o.name)
      BY <2>3, <2>7, <3>3, FailedDelete DEF PruneFails
    <3> QED
      BY <2>3, <2>10, <3>1, <3>2, <3>3 DEF Fault, Abort, Crash, ListLiveFails
  <2> QED
    BY <2>2, <2>8, <2>9, <2>10
<1>2. Init => Steady
  BY SteadyInit
<1>3. OwnershipInv /\ Steady /\ [Next]_vars => Steady'
  BY SteadyNext
<1> QED
  BY <1>1, <1>2, <1>3, OwnershipInvariant, PTL DEF Spec, NameNeverDark

-----------------------------------------------------------------------------
(* What one job can promise that is never interrupted *)

\* One slot that executes one job which prunes, and an IP map that makes no
\* two values of a name equal.
Sole(slot, key) ==
  /\ Solo /\ Runs = {slot} /\ LedgerKeys = {key} /\ Job[slot].prune
  /\ \A x, y \in SourceRecords :
       x.name = y.name /\ IpMap[x.value] = IpMap[y.value] => x.value = y.value

Calm == budget.faults = MaxFaults /\ budget.crashes = MaxCrashes

\* What is to be added comes from the source and is not there yet.
Lone(s, d) ==
  /\ s.pc \in Planning \cup {"apply"} =>
       /\ \A p \in s.src \cup s.adds :
            \E x \in SourceRecords :
              x.name = p.name /\ x.value = p.orig /\ IpMap[x.value] = p.value
       /\ \A p \in s.adds \ s.tried : KeyOf(p) \notin KeysOf(d)
  /\ s.pc = "apply" => s.apply

\* Of the keys H that were written and are still there, the ledger has all
\* but what the run has yet to record.
Covered(s, H, L) ==
  /\ ~s.failed /\ s.tried = s.added /\ ~s.pruneFailed
  /\ s.pc \in Idle \cup Planning \cup {"forget"} => H \subseteq L
  /\ s.pc = "apply" => H \subseteq L \cup KeysOf(s.added)
  /\ s.pc = "load" => H \subseteq IF s.apply THEN L \cup KeysOf(s.adds) ELSE L
  /\ s.pc \in {"prune", "pruning", "record"} => H \subseteq s.newOwned \cup s.pending

CalmInv(slot, key) ==
  /\ Lone(run[slot], dest)
  /\ Calm => Covered(run[slot], written[key] \cap KeysOf(dest), ledger[key])

LEMMA CalmStep ==
  ASSUME NEW slot, NEW key, Sole(slot, key), TypeOK, NEW t, Become(slot, t), Lone(t, dest'),
         Calm' => Covered(t, written'[key] \cap KeysOf(dest'), ledger'[key])
  PROVE  CalmInv(slot, key)'
<1>1. run'[slot] = t
  BY StepElsewhere DEF Sole
<1> QED
  BY <1>1 DEF CalmInv

\* What is spent is not got back.
LEMMA CalmBefore ==
  ASSUME TypeOK, Next, Calm'
  PROVE  Calm /\ ~Spend("faults") /\ ~Spend("crashes")
<1>1. budget \in Budget
  BY DEF TypeOK
<1>2. ASSUME NEW what \in {"source", "foreign", "faults", "crashes"}, Spend(what)
      PROVE  /\ budget'.faults <= budget.faults /\ budget'.crashes <= budget.crashes
             /\ what = "faults" => budget'.faults < budget.faults
             /\ what = "crashes" => budget'.crashes < budget.crashes
  BY <1>1, <1>2, RecordSyncAssumption DEF RecordSyncAssumption, Budget, Spend
<1>3. budget' = budget \/ \E what \in {"source", "foreign", "faults", "crashes"} : Spend(what)
  <2>1. CASE Edit
    BY <2>1 DEF Edit, EditSource, EditForeign
  <2>2. ASSUME NEW r \in Runs, Start(r)
        PROVE  budget' = budget
    BY <2>2 DEF Start, StartSync, StartTeardown
  <2>3. ASSUME NEW r \in Runs, Progress(r)
        PROVE  budget' = budget
    BY <2>3 DEF Progress, ListSource, ListLive, ListDest, EndApply, LoadOwned, RecordOwned,
                ForgetOwned, AddRecord, DeleteRecord, PruneRecord, SkipDrifted
  <2>4. ASSUME NEW r \in Runs, Fault(r)
        PROVE  budget' = budget \/ Spend("faults") \/ Spend("crashes")
    <3>1. Abort(r) => Spend("faults")
      BY DEF Abort
    <3>2. Crash(r) => Spend("crashes")
      BY DEF Crash
    <3>3. \A p \in run[r].adds : AddFails(r, p) => budget' = budget \/ Spend("faults")
      BY FailedAdd
    <3>4. \A d \in run[r].deletes : DeleteFails(r, d) => budget' = budget \/ Spend("faults")
      BY FailedDelete DEF DeleteFails
    <3>5. \A z \in Zones : ListLiveFails(r, z) => Spend("faults")
      BY DEF ListLiveFails
    <3>6. \A k \in run[r].pending : PruneFails(r, k) => budget' = budget \/ Spend("faults")
      BY FailedDelete DEF PruneFails
    <3> QED
      BY <2>4, <3>1, <3>2, <3>3, <3>4, <3>5, <3>6 DEF Fault
  <2> QED
    BY <2>1, <2>2, <2>3, <2>4 DEF Next
<1>4. /\ budget.faults \in 0..MaxFaults /\ budget.crashes \in 0..MaxCrashes
      /\ MaxFaults \in Nat /\ MaxCrashes \in Nat
  BY <1>1, RecordSyncAssumption DEF RecordSyncAssumption, Budget
<1> QED
  BY <1>2, <1>3, <1>4 DEF Calm

\* A run that ends leaves the ledger as complete as it is.
LEMMA FinishCalm ==
  ASSUME NEW slot, NEW key, Sole(slot, key), TypeOK, NEW how \in Idle, Finish(slot, how),
         Calm' => written'[key] \cap KeysOf(dest') \subseteq ledger'[key]
  PROVE  CalmInv(slot, key)'
<1>1. /\ Ended(how).pc = how /\ Ended(how).src = {} /\ Ended(how).adds = {}
      /\ Ended(how).tried = {} /\ Ended(how).added = {} /\ ~Ended(how).failed
      /\ ~Ended(how).pruneFailed
  BY DEF Ended
<1>2. Lone(Ended(how), dest')
  BY <1>1 DEF Lone, Idle
<1>3. Calm' => Covered(Ended(how), written'[key] \cap KeysOf(dest'), ledger'[key])
  BY <1>1 DEF Covered, Idle
<1> QED
  BY <1>2, <1>3, CalmStep DEF Finish

LEMMA StartCalm ==
  ASSUME NEW slot, NEW key, Sole(slot, key), TypeOK, CalmInv(slot, key), Next, Start(slot)
  PROVE  CalmInv(slot, key)'
<1>1. PICK apply \in BOOLEAN : StartSync(slot, apply) \/ StartTeardown(slot, apply)
  BY DEF Start
<1>2. UNCHANGED <<dest, ledger, written>> /\ run[slot].pc \in Idle
  BY <1>1 DEF StartSync, StartTeardown
<1>3. Calm' => written[key] \cap KeysOf(dest) \subseteq ledger[key]
  BY <1>2, CalmBefore DEF CalmInv, Covered
<1>4. PICK t : /\ Become(slot, t)
               /\ t.pc \in {"source", "load"} /\ t.src = {} /\ t.adds = {} /\ t.tried = {}
               /\ t.added = {} /\ ~t.failed /\ ~t.pruneFailed
  <2>1. CASE StartSync(slot, apply)
    <3> DEFINE t == [Ended("source") EXCEPT !.apply = apply, !.todo = Zones]
    <3>1. /\ t.pc = "source" /\ t.src = {} /\ t.adds = {} /\ t.tried = {} /\ t.added = {}
          /\ ~t.failed /\ ~t.pruneFailed
      BY DEF Ended
    <3>2. Become(slot, t)
      BY <2>1 DEF StartSync
    <3> QED
      BY <3>1, <3>2
  <2>2. CASE StartTeardown(slot, apply)
    <3> DEFINE t == [Ended("load") EXCEPT !.apply = apply, !.teardown = TRUE]
    <3>1. /\ t.pc = "load" /\ t.src = {} /\ t.adds = {} /\ t.tried = {} /\ t.added = {}
          /\ ~t.failed /\ ~t.pruneFailed
      BY DEF Ended
    <3>2. Become(slot, t)
      BY <2>2 DEF StartTeardown
    <3> QED
      BY <3>1, <3>2
  <2> QED
    BY <1>1, <2>1, <2>2
<1>5. Lone(t, dest')
  BY <1>4 DEF Lone
<1>6. Calm' => Covered(t, written'[key] \cap KeysOf(dest'), ledger'[key])
  BY <1>2, <1>3, <1>4 DEF Covered, Idle, Planning
<1> QED
  BY <1>4, <1>5, <1>6, CalmStep

LEMMA EndCalm ==
  ASSUME NEW slot, NEW key, Sole(slot, key), TypeOK, CalmInv(slot, key), Next,
         Abort(slot) \/ Crash(slot)
  PROVE  CalmInv(slot, key)'
<1>1. ~Calm'
  BY CalmBefore DEF Abort, Crash
<1> QED
  BY <1>1, FinishCalm DEF Abort, Crash, Idle

LEMMA ListSourceCalm ==
  ASSUME NEW slot, NEW key, Sole(slot, key), TypeOK, Steady, CalmInv(slot, key), Next,
         NEW z \in Zones, ListSource(slot, z)
  PROVE  CalmInv(slot, key)'
<1> DEFINE s   == run[slot]
           src == NotIgnored(CollectRecords(InZone(source, z), IpMap), Job[slot].options)
           t   == [s EXCEPT !.pc = "dest", !.zone = z, !.todo = @ \ {z}, !.src = src]
<1>1. s \in RunState /\ s.pc = "source" /\ UNCHANGED <<dest, ledger, written>> /\ Become(slot, t)
  BY DEF TypeOK, ListSource, Sole
<1>2. ASSUME NEW p \in src
      PROVE  \E x \in SourceRecords :
               x.name = p.name /\ x.value = p.orig /\ IpMap[x.value] = p.value
  BY DEF NotIgnored, CollectRecords, Collected, InZone, Steady, EvenServers
<1> HIDE DEF src
<1>3. /\ t.pc = "dest" /\ t.src = src /\ t.adds = s.adds /\ t.tried = s.tried
      /\ t.added = s.added /\ t.failed = s.failed /\ t.pruneFailed = s.pruneFailed
  BY <1>1 DEF RunState
<1>4. Lone(s, dest) /\ (Calm' => Covered(s, written[key] \cap KeysOf(dest), ledger[key]))
  BY CalmBefore DEF CalmInv
<1> HIDE DEF s, t
<1>5. Lone(t, dest')
  BY <1>1, <1>2, <1>3, <1>4 DEF Lone, Planning
<1>6. Calm' => Covered(t, written'[key] \cap KeysOf(dest'), ledger'[key])
  BY <1>1, <1>3, <1>4 DEF Covered, Idle, Planning
<1> QED
  BY <1>1, <1>5, <1>6, CalmStep

LEMMA ListDestCalm ==
  ASSUME NEW slot, NEW key, Sole(slot, key), OwnershipInv, Steady, CalmInv(slot, key), Next,
         ListDest(slot)
  PROVE  CalmInv(slot, key)'
<1> DEFINE s    == run[slot]
           dst  == CollectRecords(InZone(dest, s.zone), NoMap)
           opts == Job[slot].options
           new  == [s EXCEPT !.src = {}, !.owned = @ \cup KeysOf(s.src),
                             !.adds = @ \cup PlanAdds(s.src, dst, opts),
                             !.deletes = @ \cup PlanDeletes(s.src, dst, opts)]
           t    == IF new.todo # {} THEN [new EXCEPT !.pc = "source"] ELSE AfterPlan(slot, new)
<1>1. /\ s \in RunState /\ TypeOK /\ dest \in SUBSET Listed /\ Even(dest)
      /\ SteadySlot(slot, s, dest)
  BY DEF TypeOK, OwnershipInv, Steady, EvenServers, Sole
<1>2. s.pc = "dest" /\ UNCHANGED <<dest, ledger, written>> /\ Become(slot, t)
  BY DEF ListDest
<1>3. s.tried = {} /\ s.added = {}
  BY <1>2 DEF OwnershipInv, RunBacked, Sole
<1>4. Lone(s, dest) /\ (Calm' => Covered(s, written[key] \cap KeysOf(dest), ledger[key]))
  BY CalmBefore, <1>1 DEF CalmInv
<1>5. /\ PlanAdds(s.src, dst, opts) \subseteq s.src
      /\ \A p \in PlanAdds(s.src, dst, opts) : \A l \in dest : ~SameRecord(l, p)
  <2>1. EvenPlan(s.src) /\ \A p \in s.src : ZoneOf[p.name] = s.zone
    BY <1>1, <1>2 DEF SteadySlot, EvenPlan, Apart
  <2>2. PlanAdds(s.src, dst, opts) \subseteq s.src
    BY DEF PlanAdds, MissingAdds, UpdateAdds
  <2> QED
    BY <1>1, <2>1, <2>2, ZonePlanned
<1>6. /\ new.src = {} /\ new.adds = s.adds \cup PlanAdds(s.src, dst, opts)
      /\ new.tried = {} /\ new.added = {} /\ new.failed = s.failed
      /\ new.pruneFailed = s.pruneFailed
      /\ DOMAIN new = DOMAIN s
      /\ {"pc", "src", "adds", "tried", "added", "failed", "pruneFailed", "apply"}
           \subseteq DOMAIN s
  BY <1>1, <1>3 DEF RunState
<1>7. \A p \in new.adds : KeyOf(p) \notin KeysOf(dest)
  <2>1. \A p \in s.adds : KeyOf(p) \notin KeysOf(dest)
    BY <1>2, <1>3, <1>4 DEF Lone, Planning
  <2>2. \A p : (\A l \in dest : ~SameRecord(l, p)) => KeyOf(p) \notin KeysOf(dest)
    BY DEF KeysOf, KeyOf, SameRecord
  <2> QED
    BY <1>5, <1>6, <2>1, <2>2
<1>8. \A p \in new.adds :
        \E x \in SourceRecords : x.name = p.name /\ x.value = p.orig /\ IpMap[x.value] = p.value
  BY <1>2, <1>4, <1>5, <1>6 DEF Lone, Planning
<1> HIDE DEF new, s
<1>9. CASE t = Ended("ok")
  BY <1>1, <1>2, <1>4, <1>9, FinishCalm DEF Finish, Idle, Covered, Planning
<1>10. CASE t # Ended("ok")
  <2>1. PICK pc \in {"source", "apply", "load"} :
          t = [new EXCEPT !.pc = pc] /\ (pc = "apply" => new.apply)
    BY <1>10 DEF AfterPlan
  <2>2. /\ t.pc = pc /\ t.src = {} /\ t.adds = new.adds /\ t.tried = {} /\ t.added = {}
        /\ t.failed = s.failed /\ t.pruneFailed = s.pruneFailed /\ t.apply = new.apply
    BY <1>6, <2>1
  <2> HIDE DEF t
  <2>3. Lone(t, dest')
    BY <1>2, <1>7, <1>8, <2>1, <2>2 DEF Lone
  <2>4. Calm' => Covered(t, written'[key] \cap KeysOf(dest'), ledger'[key])
    BY <1>2, <1>3, <1>4, <2>1, <2>2 DEF Covered, Idle, Planning
  <2> QED
    BY <1>1, <1>2, <2>3, <2>4, CalmStep
<1> QED
  BY <1>9, <1>10

\* What two planned records that come from the source have in common if they
\* have their key.
LEMMA LoneKey ==
  ASSUME NEW slot, NEW key, Sole(slot, key), OwnershipInv, Steady, CalmInv(slot, key),
         run[slot].pc = "apply", NEW p \in run[slot].adds, NEW q \in run[slot].adds,
         KeyOf(p) = KeyOf(q)
  PROVE  p = q
<1>1. SteadySlot(slot, run[slot], dest) /\ p \in Planned /\ q \in Planned
  BY DEF TypeOK, OwnershipInv, Steady, RunState, Sole
<1>2. p.name = q.name /\ p.value = q.value /\ p.ttl = q.ttl
  BY <1>1 DEF SteadySlot, EvenPlan, KeyOf
<1>3. /\ \E x \in SourceRecords : x.name = p.name /\ x.value = p.orig /\ IpMap[x.value] = p.value
      /\ \E x \in SourceRecords : x.name = q.name /\ x.value = q.orig /\ IpMap[x.value] = q.value
  BY DEF CalmInv, Lone
<1>4. p.orig = q.orig
  BY <1>2, <1>3 DEF Sole
<1> QED
  BY <1>1, <1>2, <1>4 DEF Planned

LEMMA AddCalm ==
  ASSUME NEW slot, NEW key, Sole(slot, key), OwnershipInv, Steady, CalmInv(slot, key), Next,
         NEW p \in run[slot].adds, AddRecord(slot, p)
  PROVE  CalmInv(slot, key)'
<1> DEFINE s == run[slot]
           t == [s EXCEPT !.tried = @ \cup {p}, !.added = @ \cup {p}]
<1>1. /\ s \in RunState /\ TypeOK /\ SteadySlot(slot, s, dest) /\ dest \in SUBSET Listed
      /\ p \in Planned /\ slot \in Runs /\ key \in LedgerKeys
  BY DEF TypeOK, Steady, OwnershipInv, RunState, Sole
<1>2. /\ Become(slot, t) /\ s.pc = "apply" /\ p \in s.adds \ s.tried
      /\ dest' = AfterAdd(dest, p) /\ ledger' = ledger
  BY DEF AddRecord, AddsLeft, InZone
<1>3. (\A l \in dest : SameRecord(l, p) => l = Stored(p)) /\ p.ttl = Nominal(p.name)
  BY <1>1, <1>2 DEF SteadySlot, Fresh, EvenPlan
<1>4. KeysOf(dest') = KeysOf(dest) \cup {KeyOf(p)}
  BY <1>1, <1>2, <1>3, AddedEven DEF Steady, EvenServers, Sole
<1>5. written'[key] \cap KeysOf(dest') \subseteq (written[key] \cap KeysOf(dest)) \cup {KeyOf(p)}
  BY <1>1, <1>4 DEF AddRecord, TypeOK
<1>6. \A q \in s.adds : q # p => KeyOf(q) # KeyOf(p)
  BY <1>2, LoneKey
<1>7. /\ t.pc = s.pc /\ t.src = s.src /\ t.adds = s.adds /\ t.tried = s.tried \cup {p}
      /\ t.added = s.added \cup {p} /\ t.failed = s.failed /\ t.pruneFailed = s.pruneFailed
      /\ t.apply = s.apply
  BY <1>1 DEF RunState
<1>8. Lone(s, dest) /\ (Calm' => Covered(s, written[key] \cap KeysOf(dest), ledger[key]))
  BY CalmBefore, <1>1 DEF CalmInv
<1> HIDE DEF s, t
<1>9. Lone(t, dest')
  BY <1>2, <1>4, <1>6, <1>7, <1>8 DEF Lone
<1>10. KeysOf(t.added) = KeysOf(s.added) \cup {KeyOf(p)}
  BY <1>7 DEF KeysOf
<1>11. Calm' => Covered(t, written'[key] \cap KeysOf(dest'), ledger'[key])
  BY <1>2, <1>5, <1>7, <1>8, <1>10 DEF Covered, Idle, Planning
<1> QED
  BY <1>1, <1>2, <1>9, <1>11, CalmStep

LEMMA AddFailsCalm ==
  ASSUME NEW slot, NEW key, Sole(slot, key), OwnershipInv, Steady, CalmInv(slot, key), Next,
         NEW p \in run[slot].adds, AddFails(slot, p)
  PROVE  CalmInv(slot, key)'
<1> DEFINE s == run[slot]
           t == [s EXCEPT !.tried = @ \cup {p}]
<1>1. /\ s \in RunState /\ TypeOK /\ SteadySlot(slot, s, dest) /\ dest \in SUBSET Listed
      /\ p \in Planned
  BY DEF TypeOK, Steady, OwnershipInv, RunState, Sole
<1>2. /\ Become(slot, t) /\ s.pc = "apply" /\ p \in s.adds \ s.tried
  BY DEF AddFails, AddsLeft, InZone
<1>3. Lone(s, dest)
  BY DEF CalmInv
<1>4. KeyOf(p) \notin KeysOf(dest)
  BY <1>2, <1>3 DEF Lone
<1>5. \A l \in dest : ~SameRecord(l, p)
  BY <1>4 DEF KeysOf, KeyOf, SameRecord
<1>6. ~Calm'
  BY <1>1, <1>5, CalmBefore, FailedAdd
<1>7. /\ t.pc = s.pc /\ t.src = s.src /\ t.adds = s.adds /\ t.tried = s.tried \cup {p}
      /\ t.apply = s.apply
  BY <1>1 DEF RunState
<1>8. KeysOf(dest') \subseteq KeysOf(dest) \cup {KeyOf(p)}
  <2>1. CASE dest' = dest
    BY <2>1
  <2>2. CASE dest' = AfterAdd(dest, p)
    <3>1. p.ttl = Nominal(p.name)
      BY <1>1, <1>2 DEF SteadySlot, EvenPlan
    <3> QED
      BY <1>1, <1>5, <2>2, <3>1, AddedEven DEF Steady, EvenServers, Sole
  <2> QED
    BY <2>1, <2>2, FailedAdd
<1>9. \A q \in s.adds : q # p => KeyOf(q) # KeyOf(p)
  BY <1>2, LoneKey
<1> HIDE DEF s, t
<1>10. Lone(t, dest')
  BY <1>2, <1>3, <1>7, <1>8, <1>9 DEF Lone
<1> QED
  BY <1>1, <1>2, <1>6, <1>10, CalmStep

LEMMA DeleteCalm ==
  ASSUME NEW slot, NEW key, Sole(slot, key), OwnershipInv, Steady, CalmInv(slot, key), Next,
         NEW x \in run[slot].deletes, DeleteRecord(slot, x) \/ DeleteFails(slot, x)
  PROVE  CalmInv(slot, key)'
<1> DEFINE s == run[slot]
<1>1. s \in RunState /\ TypeOK /\ SteadySlot(slot, s, dest)
  BY DEF TypeOK, OwnershipInv, Steady, Sole
<1>2. /\ s.pc = "apply" /\ x \in s.deletes \ s.gone
      /\ UNCHANGED <<ledger, written>>
  BY DEF DeleteRecord, DeleteFails, CanDelete, DeletesLeft, InZone
<1>3. Lone(s, dest) /\ (Calm' => Covered(s, written[key] \cap KeysOf(dest), ledger[key]))
  BY CalmBefore, <1>1 DEF CalmInv
<1>4. CASE DeleteRecord(slot, x)
  <2> DEFINE t == [s EXCEPT !.gone = @ \cup {x}]
  <2>1. Become(slot, t) /\ KeysOf(dest') \subseteq KeysOf(dest)
    BY <1>4, DeletedEven DEF DeleteRecord, Steady, EvenServers, Sole
  <2>2. /\ t.pc = s.pc /\ t.src = s.src /\ t.adds = s.adds /\ t.tried = s.tried
        /\ t.added = s.added /\ t.failed = s.failed /\ t.pruneFailed = s.pruneFailed
        /\ t.apply = s.apply
    BY <1>1 DEF RunState
  <2> HIDE DEF s, t
  <2>3. Lone(t, dest')
    BY <1>3, <2>1, <2>2 DEF Lone
  <2>4. Calm' => Covered(t, written'[key] \cap KeysOf(dest'), ledger'[key])
    BY <1>2, <1>3, <2>1, <2>2 DEF Covered, Idle, Planning
  <2> QED
    BY <1>1, <2>1, <2>3, <2>4, CalmStep
<1>5. CASE DeleteFails(slot, x)
  <2> DEFINE t == [s EXCEPT !.gone = @ \cup {x}, !.failed = TRUE]
  <2>1. Become(slot, t) /\ KeysOf(dest') \subseteq KeysOf(dest)
    BY <1>5, FailedDelete, DeletedEven DEF DeleteFails, Steady, EvenServers, Sole
  <2>2. KeyOf(x) \in KeysOf(dest)
    BY <1>1, <1>2 DEF SteadySlot, Fresh
  <2>3. DeleteMatches(dest, x) # {}
    BY <2>2 DEF KeysOf, KeyOf, DeleteMatches, SameRecord
  <2>4. ~Calm'
    BY <1>1, <1>5, <2>3, CalmBefore, FailedDelete DEF DeleteFails
  <2>5. /\ t.pc = s.pc /\ t.src = s.src /\ t.adds = s.adds /\ t.tried = s.tried
        /\ t.apply = s.apply
    BY <1>1 DEF RunState
  <2> HIDE DEF s, t
  <2>6. Lone(t, dest')
    BY <1>3, <2>1, <2>5 DEF Lone
  <2> QED
    BY <1>1, <2>1, <2>4, <2>6, CalmStep
<1> QED
  BY <1>4, <1>5

LEMMA EndApplyCalm ==
  ASSUME NEW slot, NEW key, Sole(slot, key), OwnershipInv, Steady, CalmInv(slot, key), Next,
         EndApply(slot)
  PROVE  CalmInv(slot, key)'
<1> DEFINE s == run[slot]
           t == [s EXCEPT !.pc = "load"]
<1>1. s \in RunState /\ TypeOK /\ RunBacked(slot)
  BY DEF TypeOK, OwnershipInv, Sole
<1>2. s.pc = "apply" /\ UNCHANGED <<dest, ledger, written>>
  BY DEF EndApply
<1>3. Lone(s, dest) /\ (Calm' => Covered(s, written[key] \cap KeysOf(dest), ledger[key]))
  BY CalmBefore, <1>1 DEF CalmInv
<1>4. CASE s.failed \/ s.tried # s.added
  <2>1. ~Calm'
    BY <1>3, <1>4 DEF Covered
  <2> QED
    BY <1>1, <1>4, <2>1, FinishCalm DEF EndApply, Idle
<1>5. CASE ~(s.failed \/ s.tried # s.added)
  <2>1. Become(slot, t)
    BY <1>5 DEF EndApply, Sole
  <2>2. /\ t.pc = "load" /\ t.adds = s.adds /\ t.tried = s.tried /\ t.added = s.added
        /\ t.failed = s.failed /\ t.pruneFailed = s.pruneFailed /\ t.apply = s.apply
    BY <1>1 DEF RunState
  <2>3. KeysOf(s.added) \subseteq KeysOf(s.adds)
    BY <1>1 DEF RunBacked, KeysOf
  <2> HIDE DEF s, t
  <2>4. Lone(t, dest')
    BY <2>2 DEF Lone, Planning
  <2>5. Calm' => Covered(t, written'[key] \cap KeysOf(dest'), ledger'[key])
    BY <1>2, <1>3, <2>2, <2>3 DEF Covered, Lone, Idle, Planning
  <2> QED
    BY <1>1, <2>1, <2>4, <2>5, CalmStep
<1> QED
  BY <1>4, <1>5

\* A slot that reconciles has nothing to add.
LEMMA PruneNextCalm ==
  ASSUME NEW new \in RunState, NEW H, NEW L, NEW d, new.pc \in {"prune", "pruning"},
         new.teardown => new.newOwned = {}
  PROVE  /\ Lone(PruneNext(new), d)
         /\ Covered(new, H, L) => Covered(PruneNext(new), H, L)
<1> DEFINE t == PruneNext(new)
<1>1. \/ t.pc \in {"prune", "pruning", "record"}
      \/ t.pc = "forget" /\ new.pending = {} /\ new.teardown
  BY DEF PruneNext, RunState, InZone
<1>2. /\ t.tried = new.tried /\ t.added = new.added /\ t.failed = new.failed
      /\ t.pruneFailed = new.pruneFailed /\ t.newOwned = new.newOwned /\ t.pending = new.pending
  BY DEF PruneNext, RunState
<1> HIDE DEF t
<1>3. Lone(t, d)
  BY <1>1 DEF Lone, Planning
<1>4. Covered(new, H, L) => Covered(t, H, L)
  BY <1>1, <1>2 DEF Covered, Idle, Planning
<1> QED
  BY <1>3, <1>4 DEF t

LEMMA LoadCalm ==
  ASSUME NEW slot, NEW key, Sole(slot, key), OwnershipInv, Steady, CalmInv(slot, key), Next,
         LoadOwned(slot)
  PROVE  CalmInv(slot, key)'
<1> DEFINE s        == run[slot]
           previous == ledger[KeyFor(slot)]
           kept     == IF s.teardown THEN {} ELSE previous \cap s.owned
           new      == [s EXCEPT !.pc = "prune", !.newOwned = KeysOf(s.adds) \cup kept,
                                 !.pending = previous \ kept]
<1>1. s \in RunState /\ TypeOK /\ SteadySlot(slot, s, dest)
  BY DEF TypeOK, OwnershipInv, Steady, Sole
<1>2. s.pc = "load" /\ UNCHANGED <<dest, ledger, written>>
  BY DEF LoadOwned
<1>3. Lone(s, dest) /\ (Calm' => Covered(s, written[key] \cap KeysOf(dest), ledger[key]))
  BY CalmBefore, <1>1 DEF CalmInv
<1>4. CASE ~s.apply
  <2>1. Calm' => written'[key] \cap KeysOf(dest') \subseteq ledger'[key]
    BY <1>2, <1>3, <1>4 DEF Covered
  <2> QED
    BY <1>1, <1>4, <2>1, FinishCalm DEF LoadOwned, Finish, Idle
<1>5. CASE s.apply
  <2>1. Become(slot, PruneNext(new))
    BY <1>5 DEF LoadOwned
  <2>2. KeyFor(slot) = key
    BY RecordSyncAssumption DEF RecordSyncAssumption, Sole, KeyFor, JobConfig
  <2>3. previous = ledger[key] /\ previous \in SUBSET Key /\ KeysOf(s.adds) \in SUBSET Key
    BY <1>1, <2>2, KeysType DEF TypeOK, RunState, Sole
  <2>4. new \in RunState
    BY <1>1, <2>3 DEF RunState
  <2>5. /\ new.pc = "prune" /\ new.newOwned = KeysOf(s.adds) \cup kept
        /\ new.pending = previous \ kept /\ new.tried = s.tried /\ new.added = s.added
        /\ new.failed = s.failed /\ new.pruneFailed = s.pruneFailed /\ new.teardown = s.teardown
    BY <1>1 DEF RunState
  <2>6. s.teardown => kept = {} /\ KeysOf(s.adds) = {}
    BY <1>1 DEF SteadySlot, Sees, KeysOf
  <2> HIDE DEF s, previous, kept, new
  <2>7. Calm' => Covered(new, written'[key] \cap KeysOf(dest'), ledger'[key])
    BY <1>2, <1>3, <1>5, <2>3, <2>5 DEF Covered, Idle, Planning
  <2>8. /\ Lone(PruneNext(new), dest')
        /\ Calm' => Covered(PruneNext(new), written'[key] \cap KeysOf(dest'), ledger'[key])
    BY <2>4, <2>5, <2>6, <2>7, PruneNextCalm
  <2> QED
    BY <1>1, <2>1, <2>8, CalmStep
<1> QED
  BY <1>4, <1>5

LEMMA PruneCalm ==
  ASSUME NEW slot, NEW key, Sole(slot, key), OwnershipInv, Steady, CalmInv(slot, key), Next,
         NEW k \in run[slot].pending,
         PruneRecord(slot, k) \/ SkipDrifted(slot, k) \/ PruneFails(slot, k)
  PROVE  CalmInv(slot, key)'
<1> DEFINE s == run[slot]
<1>1. s \in RunState /\ TypeOK /\ SteadySlot(slot, s, dest) /\ slot \in Runs
  BY DEF TypeOK, OwnershipInv, Steady, Sole
<1>2. s.pc = "pruning" /\ ZoneOf[k.name] = s.zone /\ UNCHANGED <<ledger, written>>
  BY DEF PruneRecord, SkipDrifted, PruneFails, Candidate, InZone
<1>3. k \in Key /\ KeyOf(k) = k
  BY <1>1, <1>2, PendingListed DEF Reconciling
<1>4. k \in s.live <=> k \in KeysOf(dest)
  BY <1>1, <1>2 DEF SteadySlot, Sees
<1>5. /\ Calm' => Covered(s, written[key] \cap KeysOf(dest), ledger[key])
      /\ s.teardown => s.newOwned = {}
  BY CalmBefore, <1>1 DEF CalmInv, SteadySlot, Sees
<1>6. CASE PruneRecord(slot, k) \/ SkipDrifted(slot, k)
  <2> DEFINE new == [s EXCEPT !.pending = @ \ {k}, !.forget = @ \cup {k}]
  <2>1. Become(slot, PruneNext(new))
    BY <1>6 DEF PruneRecord, SkipDrifted
  <2>2. new \in RunState
    BY <1>1, <1>3 DEF RunState
  <2>3. KeysOf(dest') \subseteq KeysOf(dest) \ {k}
    <3>1. CASE PruneRecord(slot, k)
      BY <1>3, <3>1, DeletedEven DEF PruneRecord, Steady, EvenServers, Sole
    <3>2. CASE SkipDrifted(slot, k)
      BY <1>4, <3>2 DEF SkipDrifted
    <3> QED
      BY <1>6, <3>1, <3>2
  <2>4. /\ new.pc = "pruning" /\ new.newOwned = s.newOwned /\ new.pending = s.pending \ {k}
        /\ new.tried = s.tried /\ new.added = s.added /\ new.failed = s.failed
        /\ new.pruneFailed = s.pruneFailed /\ new.teardown = s.teardown
    BY <1>1, <1>2 DEF RunState
  <2> HIDE DEF s, new
  <2>5. Calm' => Covered(new, written'[key] \cap KeysOf(dest'), ledger'[key])
    BY <1>2, <1>5, <2>3, <2>4 DEF Covered, Idle, Planning
  <2>6. /\ Lone(PruneNext(new), dest')
        /\ Calm' => Covered(PruneNext(new), written'[key] \cap KeysOf(dest'), ledger'[key])
    BY <1>5, <2>2, <2>4, <2>5, PruneNextCalm
  <2> QED
    BY <1>1, <2>1, <2>6, CalmStep
<1>7. CASE PruneFails(slot, k)
  <2> DEFINE new == [s EXCEPT !.pending = @ \ {k}, !.pruneFailed = TRUE]
  <2>1. Become(slot, PruneNext(new)) /\ new \in RunState
    BY <1>1, <1>7 DEF PruneFails, RunState
  <2>2. k \in KeysOf(dest)
    BY <1>4, <1>7 DEF PruneFails
  <2>3. DeleteMatches(dest, k) # {}
    BY <1>3, <2>2 DEF KeysOf, KeyOf, DeleteMatches, SameRecord
  <2>4. ~Calm'
    BY <1>1, <1>7, <2>3, CalmBefore, FailedDelete DEF PruneFails
  <2>5. new.pc = "pruning" /\ new.newOwned = s.newOwned /\ new.teardown = s.teardown
    BY <1>1, <1>2 DEF RunState
  <2> HIDE DEF s, new
  <2>6. Lone(PruneNext(new), dest')
    BY <1>5, <2>1, <2>5, PruneNextCalm
  <2> QED
    BY <1>1, <2>1, <2>4, <2>6, CalmStep
<1> QED
  BY <1>6, <1>7

LEMMA ListLiveCalm ==
  ASSUME NEW slot, NEW key, Sole(slot, key), OwnershipInv, Steady, CalmInv(slot, key), Next,
         NEW z \in Zones, ListLive(slot, z) \/ ListLiveFails(slot, z)
  PROVE  CalmInv(slot, key)'
<1> DEFINE s == run[slot]
<1>1. s \in RunState /\ TypeOK /\ SteadySlot(slot, s, dest)
  BY DEF TypeOK, OwnershipInv, Steady, Sole
<1>2. s.pc = "prune" /\ UNCHANGED <<dest, ledger, written>>
  BY DEF ListLive, ListLiveFails
<1>3. /\ Calm' => Covered(s, written[key] \cap KeysOf(dest), ledger[key])
      /\ s.teardown => s.newOwned = {}
  BY CalmBefore, <1>1 DEF CalmInv, SteadySlot, Sees
<1>4. CASE ListLive(slot, z)
  <2> DEFINE live == KeysOf(CollectRecords(InZone(dest, z), NoMap))
             t    == [s EXCEPT !.pc = "pruning", !.zone = z, !.live = live]
  <2>1. Become(slot, t)
    BY <1>4 DEF ListLive
  <2> HIDE DEF live
  <2>2. /\ t.pc = "pruning" /\ t.newOwned = s.newOwned /\ t.pending = s.pending
        /\ t.tried = s.tried /\ t.added = s.added /\ t.failed = s.failed
        /\ t.pruneFailed = s.pruneFailed
    BY <1>1 DEF RunState
  <2> HIDE DEF s, t
  <2>3. Lone(t, dest')
    BY <2>2 DEF Lone, Planning
  <2>4. Calm' => Covered(t, written'[key] \cap KeysOf(dest'), ledger'[key])
    BY <1>2, <1>3, <2>2 DEF Covered, Idle, Planning
  <2> QED
    BY <1>1, <2>1, <2>3, <2>4, CalmStep
<1>5. CASE ListLiveFails(slot, z)
  <2> DEFINE new == [s EXCEPT !.zone = z, !.pruneFailed = TRUE, !.pending = @ \ InZone(@, z)]
  <2>1. Become(slot, PruneNext(new)) /\ new \in RunState
    BY <1>1, <1>5 DEF ListLiveFails, RunState
  <2>2. ~Calm'
    BY <1>1, <1>5, CalmBefore DEF ListLiveFails
  <2>3. new.pc = "prune" /\ new.newOwned = s.newOwned /\ new.teardown = s.teardown
    BY <1>1, <1>2 DEF RunState
  <2> HIDE DEF s, new
  <2>4. Lone(PruneNext(new), dest')
    BY <1>3, <2>1, <2>3, PruneNextCalm
  <2> QED
    BY <1>1, <2>1, <2>2, <2>4, CalmStep
<1> QED
  BY <1>4, <1>5

LEMMA LedgerCalm ==
  ASSUME NEW slot, NEW key, Sole(slot, key), OwnershipInv, Steady, CalmInv(slot, key), Next,
         RecordOwned(slot) \/ ForgetOwned(slot)
  PROVE  CalmInv(slot, key)'
<1> DEFINE s == run[slot]
           t == [s EXCEPT !.pc = "forget"]
<1>1. s \in RunState /\ TypeOK /\ SteadySlot(slot, s, dest) /\ KeyFor(slot) = key
  BY RecordSyncAssumption
  DEF RecordSyncAssumption, JobConfig, KeyFor, TypeOK, OwnershipInv, Steady, Sole
<1>2. /\ s.pc \in {"record", "forget"} /\ UNCHANGED <<dest, written>>
      /\ s.pc = "record" => ledger'[key] = ledger[key] \cup s.newOwned
      /\ s.pc = "forget" => ledger'[key] = ledger[key] \ s.forget
  BY <1>1 DEF RecordOwned, ForgetOwned, TypeOK, Sole
<1>3. s.pending = {} /\ s.forget \cap KeysOf(dest) = {}
  BY <1>1, <1>2 DEF SteadySlot, Sees, Reconciling
<1>4. Calm' => Covered(s, written[key] \cap KeysOf(dest), ledger[key])
  BY CalmBefore, <1>1 DEF CalmInv
<1>5. Calm' => written'[key] \cap KeysOf(dest') \subseteq ledger'[key]
  BY <1>2, <1>3, <1>4 DEF Covered
<1>6. CASE EndPrune(slot)
  BY <1>1, <1>5, <1>6, FinishCalm DEF EndPrune, Idle
<1>7. CASE ~EndPrune(slot)
  <2>1. Become(slot, t)
    BY <1>7 DEF RecordOwned, ForgetOwned
  <2>2. /\ t.pc = "forget" /\ t.tried = s.tried /\ t.added = s.added /\ t.failed = s.failed
        /\ t.pruneFailed = s.pruneFailed
    BY <1>1 DEF RunState
  <2> HIDE DEF s, t
  <2>3. Lone(t, dest')
    BY <2>2 DEF Lone, Planning
  <2>4. Calm' => Covered(t, written'[key] \cap KeysOf(dest'), ledger'[key])
    BY <1>4, <1>5, <2>2 DEF Covered, Idle, Planning
  <2> QED
    BY <1>1, <2>1, <2>3, <2>4, CalmStep
<1> QED
  BY <1>6, <1>7

LEMMA CalmInit ==
  ASSUME NEW slot, NEW key, Sole(slot, key), Init
  PROVE  CalmInv(slot, key)
<1>1. run[slot] = Ended("idle") /\ written[key] = {}
  BY DEF Init, Sole
<1> QED
  BY <1>1 DEF CalmInv, Lone, Covered, Ended, Idle, Planning

LEMMA CalmNext ==
  ASSUME NEW slot, NEW key, Sole(slot, key), OwnershipInv, Steady, CalmInv(slot, key),
         [Next]_vars
  PROVE  CalmInv(slot, key)'
<1>0. TypeOK /\ slot \in Runs
  BY DEF OwnershipInv, Sole
<1>1. CASE UNCHANGED vars
  BY <1>1 DEF vars, CalmInv, Calm
<1>2. ASSUME Next PROVE CalmInv(slot, key)'
  <2>1. CASE Edit
    <3>1. UNCHANGED <<dest, ledger, written, run>>
      BY <2>1 DEF Edit, EditSource, EditForeign, Spend, Steady, EvenServers
    <3> QED
      BY <1>0, <1>2, <3>1, CalmBefore DEF CalmInv
  <2>2. CASE Start(slot)
    BY <1>0, <1>2, <2>2, StartCalm
  <2>3. CASE Progress(slot)
    BY <1>0, <1>2, <2>3, ListSourceCalm, ListLiveCalm, ListDestCalm, EndApplyCalm, LoadCalm,
       LedgerCalm, AddCalm, DeleteCalm, PruneCalm DEF Progress
  <2>4. CASE Fault(slot)
    BY <1>0, <1>2, <2>4, EndCalm, AddFailsCalm, DeleteCalm, ListLiveCalm, PruneCalm DEF Fault
  <2> QED
    BY <1>2, <2>1, <2>2, <2>3, <2>4 DEF Next, Sole
<1> QED
  BY <1>1, <1>2

\* While no request fails and no run is killed, the ledger of the one job has
\* between its runs every record that the job put on the destination and that
\* is still there: each of them can be pruned later (sync/run.rs, which reads
\* the ledger only after its changes, and reconcile.rs).
THEOREM AddedIsOwned ==
  ASSUME NEW slot, NEW key, Sole(slot, key)
  PROVE  Spec => []OwnedUnlessInterrupted
<1>1. Init => Steady /\ CalmInv(slot, key)
  BY SteadyInit, CalmInit DEF Sole
<1>2. OwnershipInv /\ Steady /\ CalmInv(slot, key) /\ [Next]_vars =>
        Steady' /\ CalmInv(slot, key)'
  BY SteadyNext, CalmNext DEF Sole
<1>3. CalmInv(slot, key) => OwnedUnlessInterrupted
  BY DEF CalmInv, Covered, OwnedUnlessInterrupted, CreatedIsOwned, Quiet, Calm, Sole
<1> QED
  BY <1>1, <1>2, <1>3, OwnershipInvariant, PTL DEF Spec
=============================================================================
