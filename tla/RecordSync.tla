----------------------------- MODULE RecordSync -----------------------------
(***************************************************************************)
(* Runs of record-sync jobs against one destination server, with the       *)
(* ownership ledger of prune_synced (control_plane/sync and the ledger     *)
(* half of daemon/db/store).                                               *)
(*                                                                         *)
(* A run slot is a process executing one job: a daemon worker, a           *)
(* `dns sync` command or an MCP call.  Slots of the same ledger key may be *)
(* active at once, since nothing locks a job.  Every await of the code is  *)
(* a step of its own: two slots, and the people who edit either server,    *)
(* interleave between any two of them.                                     *)
(*                                                                         *)
(* The order in which the code walks zones and records (user order, hash   *)
(* order or sort order) is left open: the model takes them in any order.   *)
(***************************************************************************)
EXTENDS SyncPlan

CONSTANTS Runs,          \* run slots
          LedgerKeys,    \* job keys of the ownership ledger
          Job,           \* what each slot executes
          Vendor,        \* the kind of destination server
          Structured,    \* names of types (MX, SRV, NS, PTR, ...) Cloudflare
                         \* deletes without comparing the value
          SourceRecords, \* records that can appear on the source
          ForeignRecords,\* records others can put on the destination
          MaxSourceEdits, MaxForeignEdits, MaxFaults, MaxCrashes \* bounds

Vendors == {"technitium", "pihole", "unifi", "cloudflare"}

JobConfig == [key : LedgerKeys, teardownKey : LedgerKeys,
              options : SyncDiffOptions, prune : BOOLEAN,
              teardown : SUBSET BOOLEAN, apply : SUBSET BOOLEAN]

ASSUME RecordSyncAssumption ==
  /\ Job \in [Runs -> JobConfig]
  /\ Vendor \in Vendors
  /\ Vendor = "pihole" => 0 \in Ttls
  /\ Structured \subseteq Names
  /\ SourceRecords \subseteq Listed
  /\ ForeignRecords \subseteq Listed
  /\ {MaxSourceEdits, MaxForeignEdits, MaxFaults, MaxCrashes} \subseteq Nat

VARIABLES source,  \* records on the source server
          dest,    \* records on the destination server
          ledger,  \* the synced_records table: keys each job key owns
          run,     \* the state of each slot
          written, \* history: keys whose add was acknowledged to a job key
          budget   \* how many edits, faults and crashes are left

vars == <<source, dest, ledger, run, written, budget>>

\* The key under which each surface keeps its ledger.  A command-line
\* teardown need not name the source server: "?" stands in for it.
DaemonKey(id)              == <<"daemon", id>>
PairKey(surface, from, to) == <<surface, from, to>>

KeyFor(r) == IF run[r].teardown THEN Job[r].teardownKey ELSE Job[r].key

AnyZone == CHOOSE z \in Zones : TRUE

\* A slot that executes nothing; pc keeps how the last run ended.
Ended(how) ==
  [pc |-> how, teardown |-> FALSE, apply |-> FALSE, todo |-> {},
   zone |-> AnyZone, src |-> {}, owned |-> {}, adds |-> {}, deletes |-> {},
   tried |-> {}, added |-> {}, gone |-> {}, failed |-> FALSE,
   newOwned |-> {}, pending |-> {}, live |-> {}, forget |-> {},
   pruneFailed |-> FALSE]

Idle == {"idle", "ok", "err"}

Budget == [source : 0..MaxSourceEdits, foreign : 0..MaxForeignEdits,
           faults : 0..MaxFaults, crashes : 0..MaxCrashes]

\* At most one record of each name and value.
OnePerKey(S) == \A a, b \in S : KeyOf(a) = KeyOf(b) => a = b

Init ==
  /\ source \in {S \in SUBSET SourceRecords : OnePerKey(S)}
  /\ dest \in {S \in SUBSET ForeignRecords : OnePerKey(S)}
  /\ ledger = [k \in LedgerKeys |-> {}]
  /\ run = [r \in Runs |-> Ended("idle")]
  /\ written = [k \in LedgerKeys |-> {}]
  /\ budget = [source |-> MaxSourceEdits, foreign |-> MaxForeignEdits,
               faults |-> MaxFaults, crashes |-> MaxCrashes]

Spend(what) == budget[what] > 0 /\ budget' = [budget EXCEPT ![what] = @ - 1]

-----------------------------------------------------------------------------
(* The destination server, as the vendor clients in src/ use it *)

SameRecord(l, k) == l.name = k.name /\ l.value = k.value

\* Pi-hole stores no TTL and its listing reports 0.
Stored(p) == [name |-> p.name, value |-> p.value, disabled |-> FALSE,
              ttl |-> IF Vendor = "pihole" THEN 0 ELSE p.ttl]

\* Technitium and Pi-hole hold a value of a record set once; UniFi and
\* Cloudflare store each created record under an id of its own.
ById == Vendor \in {"unifi", "cloudflare"}

Put(S, x) == {l \in S : ~SameRecord(l, x)} \cup {x}

AfterAdd(d, p) == IF ById THEN d \cup {Stored(p)} ELSE Put(d, Stored(p))

DeleteMatches(d, k) ==
  {l \in d : \/ SameRecord(l, k)
             \/ Vendor = "cloudflare" /\ k.name \in Structured /\ l.name = k.name}

\* The contents a successful delete of key k may leave.  By id, the first
\* match goes, and no match is an error.
AfterDelete(d, k) ==
  IF ById THEN {d \ {l} : l \in DeleteMatches(d, k)}
          ELSE {d \ DeleteMatches(d, k)}

-----------------------------------------------------------------------------
(* Starting, failing and ending a run *)

Become(r, new) == run' = [run EXCEPT ![r] = new]

Finish(r, how) == Become(r, Ended(how))

StartSync(r, apply) ==
  /\ run[r].pc \in Idle
  /\ FALSE \in Job[r].teardown
  /\ apply \in Job[r].apply
  /\ Become(r, [Ended("source") EXCEPT !.apply = apply,
                                       !.todo = Zones])
  /\ UNCHANGED <<source, dest, ledger, written, budget>>

StartTeardown(r, apply) ==
  /\ run[r].pc \in Idle
  /\ TRUE \in Job[r].teardown
  /\ apply \in Job[r].apply
  /\ Become(r, [Ended("load") EXCEPT !.apply = apply,
                                     !.teardown = TRUE])
  /\ UNCHANGED <<source, dest, ledger, written, budget>>

\* A listing of the plan, or a ledger call, fails: `?` ends the run.  A
\* ledger write of no rows touches no database and cannot fail.
Abort(r) ==
  /\ run[r].pc = "record" => run[r].newOwned # {}
  /\ run[r].pc = "forget" => run[r].forget # {}
  /\ run[r].pc \in {"source", "dest", "load", "record", "forget"}
  /\ Spend("faults")
  /\ Finish(r, "err")
  /\ UNCHANGED <<source, dest, ledger, written>>

\* The process dies; what it wrote to the servers and the ledger stays.
Crash(r) ==
  /\ run[r].pc \notin Idle
  /\ Spend("crashes")
  /\ Finish(r, "idle")
  /\ UNCHANGED <<source, dest, ledger, written>>

-----------------------------------------------------------------------------
(* Planning: list each zone on the source, then on the destination *)

ListSource(r, z) ==
  /\ run[r].pc = "source"
  /\ z \in run[r].todo
  /\ LET listed == CollectRecords(InZone(source, z), IpMap)
     IN Become(r, [run[r] EXCEPT !.pc = "dest", !.zone = z, !.todo = @ \ {z},
                                 !.src = NotIgnored(listed, Job[r].options)])
  /\ UNCHANGED <<source, dest, ledger, written, budget>>

\* A slip the checks must catch: changes are applied only if the plan both
\* adds and removes.
AfterPlanNeedsBoth(r, new) ==
  IF new.apply /\ (new.adds # {} /\ new.deletes # {})
    THEN [new EXCEPT !.pc = "apply"]
  ELSE IF Job[r].prune THEN [new EXCEPT !.pc = "load"]
  ELSE Ended("ok")

\* Where a run goes once every zone is planned: it needs a destination
\* client to apply changes or to reconcile ownership, and else ends.
AfterPlan(r, new) ==
  IF new.apply /\ (new.adds # {} \/ new.deletes # {})
    THEN [new EXCEPT !.pc = "apply"]
  ELSE IF Job[r].prune THEN [new EXCEPT !.pc = "load"]
  ELSE Ended("ok")

ListDest(r) ==
  LET z    == run[r].zone
      src  == run[r].src
      dst  == CollectRecords(InZone(dest, z), NoMap)
      opts == Job[r].options
      new  == [run[r] EXCEPT !.src = {},
                             !.owned = @ \cup KeysOf(src),
                             !.adds = @ \cup PlanAdds(src, dst, opts),
                             !.deletes = @ \cup PlanDeletes(src, dst, opts)]
  IN /\ run[r].pc = "dest"
     /\ Become(r, IF new.todo # {} THEN [new EXCEPT !.pc = "source"]
                                   ELSE AfterPlan(r, new))
     /\ UNCHANGED <<source, dest, ledger, written, budget>>

-----------------------------------------------------------------------------
(* Applying: zone by zone, additions before removals *)

ZoneAddFailed(r, z) == InZone(run[r].tried \ run[r].added, z) # {}

AddsLeft(r, z) == InZone(run[r].adds \ run[r].tried, z)

\* A slip the checks must catch: removals go on after a failed addition.
DeletesLeftAnyway(r, z) == InZone(run[r].deletes \ run[r].gone, z)

DeletesLeft(r, z) ==
  IF ZoneAddFailed(r, z) THEN {} ELSE InZone(run[r].deletes \ run[r].gone, z)

ZoneDone(r, z) == AddsLeft(r, z) = {} /\ DeletesLeft(r, z) = {}

ZoneBegun(r, z) == InZone(run[r].tried \cup run[r].gone, z) # {}

\* Zones are applied one after the other.
InTurn(r, z) ==
  \A other \in Zones \ {z} : ZoneBegun(r, other) => ZoneDone(r, other)

AddRecord(r, p) ==
  /\ run[r].pc = "apply"
  /\ InTurn(r, ZoneOf[p.name])
  /\ p \in AddsLeft(r, ZoneOf[p.name])
  /\ dest' = AfterAdd(dest, p)
  /\ Become(r, [run[r] EXCEPT !.tried = @ \cup {p},
                              !.added = @ \cup {p}])
  /\ written' = [written EXCEPT ![KeyFor(r)] = @ \cup {KeyOf(p)}]
  /\ UNCHANGED <<source, ledger, budget>>

\* A change fails: it was not made, or it was and its answer was lost.
FailsMaybeMade(after) ==
  /\ Spend("faults")
  /\ dest' \in {dest} \cup after

\* A server may also refuse a value it already holds; the code cannot tell.
AddFails(r, p) ==
  /\ run[r].pc = "apply"
  /\ InTurn(r, ZoneOf[p.name])
  /\ p \in AddsLeft(r, ZoneOf[p.name])
  /\ \/ FailsMaybeMade({AfterAdd(dest, p)})
     \/ (\E l \in dest : SameRecord(l, p)) /\ UNCHANGED <<dest, budget>>
  /\ Become(r, [run[r] EXCEPT !.tried = @ \cup {p}])
  /\ UNCHANGED <<source, ledger, written>>

CanDelete(r, d) ==
  /\ run[r].pc = "apply"
  /\ InTurn(r, ZoneOf[d.name])
  /\ AddsLeft(r, ZoneOf[d.name]) = {}
  /\ d \in DeletesLeft(r, ZoneOf[d.name])

DeleteRecord(r, d) ==
  /\ CanDelete(r, d)
  /\ dest' \in AfterDelete(dest, d)
  /\ Become(r, [run[r] EXCEPT !.gone = @ \cup {d}])
  /\ UNCHANGED <<source, ledger, written, budget>>

\* So it is with a delete; one of a record that is gone fails by itself.
DeleteFailed(k) ==
  IF DeleteMatches(dest, k) = {} THEN UNCHANGED <<dest, budget>>
                                 ELSE FailsMaybeMade(AfterDelete(dest, k))

DeleteFails(r, d) ==
  /\ CanDelete(r, d)
  /\ DeleteFailed(d)
  /\ Become(r, [run[r] EXCEPT !.gone = @ \cup {d}, !.failed = TRUE])
  /\ UNCHANGED <<source, ledger, written>>

\* Slips the checks must catch: failed changes do not end the run, and
\* ownership is reconciled only by a plan that removed something.
EndApplyAnyway(r) ==
  /\ run[r].pc = "apply"
  /\ \A z \in Zones : ZoneDone(r, z)
  /\ Become(r, [run[r] EXCEPT !.pc = "load"])
  /\ UNCHANGED <<source, dest, ledger, written, budget>>

EndApplyIfRemoved(r) ==
  /\ run[r].pc = "apply"
  /\ \A z \in Zones : ZoneDone(r, z)
  /\ IF run[r].failed \/ run[r].tried # run[r].added THEN Finish(r, "err")
     ELSE IF Job[r].prune /\ run[r].deletes # {}
       THEN Become(r, [run[r] EXCEPT !.pc = "load"])
     ELSE Finish(r, "ok")
  /\ UNCHANGED <<source, dest, ledger, written, budget>>

\* Any failed change ends the run with an error, before the ledger is read.
EndApply(r) ==
  /\ run[r].pc = "apply"
  /\ \A z \in Zones : ZoneDone(r, z)
  /\ IF run[r].failed \/ run[r].tried # run[r].added THEN Finish(r, "err")
     ELSE IF Job[r].prune
       THEN Become(r, [run[r] EXCEPT !.pc = "load"])
     ELSE Finish(r, "ok")
  /\ UNCHANGED <<source, dest, ledger, written, budget>>

-----------------------------------------------------------------------------
(* Reconciling ownership, and teardown *)

\* Where pruning goes once the candidates of the current zone are handled.
PruneNext(new) ==
  IF InZone(new.pending, new.zone) # {} THEN new
  ELSE IF new.pending # {} THEN [new EXCEPT !.pc = "prune", !.live = {}]
  ELSE [new EXCEPT !.pc = IF new.teardown THEN "forget" ELSE "record",
                   !.live = {}]

\* Slips the checks must catch: a run adopts every record in the source, and
\* a dry run goes on to prune.
LoadOwnedAdopting(r) ==
  LET previous == ledger[KeyFor(r)]
      kept     == IF run[r].teardown THEN {} ELSE previous \cap run[r].owned
  IN /\ run[r].pc = "load"
     /\ Become(r,
          IF run[r].apply
            THEN PruneNext([run[r] EXCEPT !.pc = "prune", !.newOwned = run[r].owned,
                                          !.pending = previous \ kept])
            ELSE Ended("ok"))
     /\ UNCHANGED <<source, dest, ledger, written, budget>>

LoadOwnedDryToo(r) ==
  LET previous == ledger[KeyFor(r)]
      kept     == IF run[r].teardown THEN {} ELSE previous \cap run[r].owned
  IN /\ run[r].pc = "load"
     /\ Become(r, PruneNext([run[r] EXCEPT !.pc = "prune",
                                           !.newOwned = KeysOf(run[r].adds) \cup kept,
                                           !.pending = previous \ kept]))
     /\ UNCHANGED <<source, dest, ledger, written, budget>>

\* Previously owned keys the source no longer has are candidates; a
\* teardown takes every owned key.  A dry run stops at the preview.
LoadOwned(r) ==
  LET previous == ledger[KeyFor(r)]
      kept     == IF run[r].teardown THEN {} ELSE previous \cap run[r].owned
  IN /\ run[r].pc = "load"
     /\ Become(r,
          IF run[r].apply
            THEN PruneNext([run[r] EXCEPT !.pc = "prune",
                                          !.newOwned = KeysOf(run[r].adds) \cup kept,
                                          !.pending = previous \ kept])
            ELSE Ended("ok"))
     /\ UNCHANGED <<source, dest, ledger, written, budget>>

\* Each zone with candidates is listed again, so that drift is seen.
ListLive(r, z) ==
  /\ run[r].pc = "prune"
  /\ InZone(run[r].pending, z) # {}
  /\ Become(r, [run[r] EXCEPT !.pc = "pruning", !.zone = z,
                              !.live = KeysOf(CollectRecords(InZone(dest, z), NoMap))])
  /\ UNCHANGED <<source, dest, ledger, written, budget>>

ListLiveFails(r, z) ==
  /\ run[r].pc = "prune"
  /\ InZone(run[r].pending, z) # {}
  /\ Spend("faults")
  /\ Become(r, PruneNext([run[r] EXCEPT !.zone = z, !.pruneFailed = TRUE,
                                        !.pending = @ \ InZone(@, z)]))
  /\ UNCHANGED <<source, dest, ledger, written>>

Candidate(r, k) == run[r].pc = "pruning" /\ k \in InZone(run[r].pending, run[r].zone)

PruneRecord(r, k) ==
  /\ Candidate(r, k)
  /\ k \in run[r].live
  /\ dest' \in AfterDelete(dest, k)
  /\ Become(r, PruneNext([run[r] EXCEPT !.pending = @ \ {k},
                                        !.forget = @ \cup {k}]))
  /\ UNCHANGED <<source, ledger, written, budget>>

\* A slip the checks must catch: a record whose delete failed is forgotten.
PruneFailsForgetting(r, k) ==
  /\ Candidate(r, k)
  /\ k \in run[r].live
  /\ DeleteFailed(k)
  /\ Become(r, PruneNext([run[r] EXCEPT !.pending = @ \ {k}, !.forget = @ \cup {k},
                                        !.pruneFailed = TRUE]))
  /\ UNCHANGED <<source, ledger, written>>

PruneFails(r, k) ==
  /\ Candidate(r, k)
  /\ k \in run[r].live
  /\ DeleteFailed(k)
  /\ Become(r, PruneNext([run[r] EXCEPT !.pending = @ \ {k},
                                        !.pruneFailed = TRUE]))
  /\ UNCHANGED <<source, ledger, written>>

\* A slip the checks must catch: a drifted record stays owned.
SkipStillOwned(r, k) ==
  /\ Candidate(r, k)
  /\ k \notin run[r].live
  /\ Become(r, PruneNext([run[r] EXCEPT !.pending = @ \ {k}]))
  /\ UNCHANGED <<source, dest, ledger, written, budget>>

\* The live value is gone or differs: leave it, and give up ownership.
SkipDrifted(r, k) ==
  /\ Candidate(r, k)
  /\ k \notin run[r].live
  /\ Become(r, PruneNext([run[r] EXCEPT !.pending = @ \ {k},
                                        !.forget = @ \cup {k}]))
  /\ UNCHANGED <<source, dest, ledger, written, budget>>

\* A sync reports failed prunes as an error, a teardown only counts them.
EndPrune(r) ==
  Finish(r, IF run[r].pruneFailed /\ ~run[r].teardown THEN "err" ELSE "ok")

RecordOwned(r) ==
  /\ run[r].pc = "record"
  /\ ledger' = [ledger EXCEPT ![KeyFor(r)] = @ \cup run[r].newOwned]
  /\ IF run[r].forget # {}
       THEN Become(r, [run[r] EXCEPT !.pc = "forget"])
       ELSE EndPrune(r)
  /\ UNCHANGED <<source, dest, written, budget>>

ForgetOwned(r) ==
  /\ run[r].pc = "forget"
  /\ ledger' = [ledger EXCEPT ![KeyFor(r)] = @ \ run[r].forget]
  /\ EndPrune(r)
  /\ UNCHANGED <<source, dest, written, budget>>

-----------------------------------------------------------------------------
(* The people who edit the two servers *)

\* Someone removes x, or puts it in place of the record with its value.
Edited(S, x) == IF x \in S THEN S \ {x} ELSE Put(S, x)

EditSource(x) ==
  /\ Spend("source")
  /\ source' = Edited(source, x)
  /\ UNCHANGED <<dest, ledger, run, written>>

EditForeign(x) ==
  /\ Spend("foreign")
  /\ dest' = Edited(dest, x)
  /\ UNCHANGED <<source, ledger, run, written>>

-----------------------------------------------------------------------------

Progress(r) ==
  \/ \E z \in Zones : ListSource(r, z) \/ ListLive(r, z)
  \/ ListDest(r) \/ EndApply(r) \/ LoadOwned(r)
  \/ RecordOwned(r) \/ ForgetOwned(r)
  \/ \E p \in run[r].adds : AddRecord(r, p)
  \/ \E d \in run[r].deletes : DeleteRecord(r, d)
  \/ \E k \in run[r].pending : PruneRecord(r, k) \/ SkipDrifted(r, k)

Fault(r) ==
  \/ Abort(r) \/ Crash(r)
  \/ \E p \in run[r].adds : AddFails(r, p)
  \/ \E d \in run[r].deletes : DeleteFails(r, d)
  \/ \E z \in Zones : ListLiveFails(r, z)
  \/ \E k \in run[r].pending : PruneFails(r, k)

Start(r) == \E apply \in BOOLEAN : StartSync(r, apply) \/ StartTeardown(r, apply)

Edit ==
  \/ \E x \in SourceRecords : EditSource(x)
  \/ \E x \in ForeignRecords : EditForeign(x)

Next == Edit \/ \E r \in Runs : Start(r) \/ Progress(r) \/ Fault(r)

Spec == Init /\ [][Next]_vars

\* The scheduler starts every job again and again, and an await of a run
\* returns: requests carry a timeout, ledger calls are local.
FairSpec == Spec /\ \A r \in Runs : /\ WF_vars(Start(r))
                                    /\ WF_vars(Progress(r))

-----------------------------------------------------------------------------
(* Properties *)

RunState ==
  [pc : Idle \cup {"source", "dest", "apply", "load", "prune", "pruning",
                   "record", "forget"},
   teardown : BOOLEAN, apply : BOOLEAN, todo : SUBSET Zones, zone : Zones,
   src : SUBSET Planned, owned : SUBSET Key, adds : SUBSET Planned,
   deletes : SUBSET Planned, tried : SUBSET Planned, added : SUBSET Planned,
   gone : SUBSET Planned, failed : BOOLEAN, newOwned : SUBSET Key,
   pending : SUBSET Key, live : SUBSET Key, forget : SUBSET Key,
   pruneFailed : BOOLEAN]

\* The type invariant: every variable holds a value of its type.
TypeOK ==
  /\ source \in SUBSET Listed
  /\ dest \in SUBSET Listed
  /\ ledger \in [LedgerKeys -> SUBSET Key]
  /\ run \in [Runs -> RunState]
  /\ written \in [LedgerKeys -> SUBSET Key]
  /\ budget \in Budget

\* The ledger never claims a record that no run of its job wrote: whatever
\* failed or crashed, an owned key had its add acknowledged by the server.
LedgerBacked == \A k \in LedgerKeys : ledger[k] \subseteq written[k]

\* Why the ledger is backed: what a run is about to record or to prune was
\* acknowledged before the run could get that far.
RunBacked(r) ==
  LET s == run[r]
      w == written[KeyFor(r)]
  IN /\ s.tried \subseteq s.adds
     /\ s.added \subseteq s.tried
     /\ s.pc \in {"source", "dest"} => s.tried = {}
     /\ s.pc \in {"source", "dest", "apply", "load"} => s.forget = {}
     /\ s.pc = "apply" => KeysOf(s.added) \subseteq w
     /\ s.pc = "load" /\ s.apply => KeysOf(s.adds) \subseteq w
     /\ s.pc \in {"prune", "pruning", "record", "forget"} =>
          s.newOwned \cup s.pending \cup s.forget \subseteq w

\* The inductive form of LedgerBacked.
OwnershipInv == TypeOK /\ LedgerBacked /\ \A r \in Runs : RunBacked(r)

Steps(r) == run'[r] # run[r]

\* Pruning and teardown take from the destination only records the job
\* itself wrote ("Everything else on the destination is left alone").
PruneRemovesOnlyWritten ==
  [][\A r \in Runs : run[r].pc = "pruning" /\ Steps(r) =>
        KeysOf(dest \ dest') \subseteq written[KeyFor(r)]]_vars

\* A record leaves the ledger only once it has left the destination, so a
\* failed prune is retried by a later run instead of being orphaned.
ForgottenOnlyWhenGone ==
  [][\A k \in LedgerKeys : \A x \in ledger[k] \ ledger'[k] :
        x \notin KeysOf(dest)]_vars

\* A dry run, however far its plan and preview go, changes neither the
\* destination nor the ledger.
DryRunWritesNothing ==
  [][\A r \in Runs : run[r].pc \notin Idle /\ ~run[r].apply /\ Steps(r) =>
        UNCHANGED <<dest, ledger>>]_vars

Answers(d, n) == \E l \in d : l.name = n /\ ~l.disabled

\* A run never leaves a name without an answer that the source still has
\* and the destination answered: additions come before removals, and a
\* failed addition keeps the stale records.
NameNeverDark ==
  [][\A r \in Runs : run[r].pc \in {"apply", "pruning"} /\ Steps(r) =>
        \A o \in run[r].owned :
           Answers(dest, o.name) => Answers(dest', o.name)]_vars

Quiet == \A r \in Runs : run[r].pc \in Idle

\* Between runs the ledger of a job covers every record the job put on the
\* destination and that is still there, so that it can still be pruned.
CreatedIsOwned ==
  Quiet => \A k \in LedgerKeys : written[k] \cap KeysOf(dest) \subseteq ledger[k]

\* So it does as long as no request has failed and no run was killed.
OwnedUnlessInterrupted ==
  budget.faults = MaxFaults /\ budget.crashes = MaxCrashes => CreatedIsOwned

\* A teardown none of whose deletes failed leaves nothing that any job owned
\* on the destination, and clears the ledger.
TornDown(r) ==
  run[r].teardown /\ run[r].apply /\ ~run[r].pruneFailed /\ run'[r].pc = "ok"

TeardownRollsBack ==
  [][\A r \in Runs : TornDown(r) =>
        \A k \in LedgerKeys : ledger'[k] = {} /\ ledger[k] \cap KeysOf(dest) = {}]_vars

Wanted == UNION {NotIgnored(CollectRecords(source, IpMap), Job[r].options) : r \in Runs}

Held == CollectRecords(dest, NoMap)

\* The destination has every source record with its TTL, no other value
\* under the source's names, and the ledger nothing the source lacks.
Mirrored ==
  /\ \A p \in Wanted : Matched(p, Held)
  /\ \A h \in Held : Group(Wanted, h.name) # {} => Matched(h, Wanted)
  /\ \A k \in LedgerKeys : ledger[k] \subseteq KeysOf(Wanted)

\* Once nobody edits and nothing fails any more, runs bring the destination
\* in line with the source, and it stays so.
Converges == <>[]Mirrored
=============================================================================
