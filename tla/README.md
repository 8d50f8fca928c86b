# dnsync in TLA+

dnsync manages records on DNS servers of five vendors, from a command line, from
an MCP server and from a daemon that runs jobs on a schedule. The part of it
that destroys data when it is wrong is the sync: it copies records from one
server to another, remembers in a small SQLite ledger which ones it created, and
later removes exactly those. The part that is hard to test is the daemon around
it: a scheduler, a bounded queue, a pool of workers, a bounded channel and a
database writer, with a shutdown that must settle all of them. Both read a
configuration file that other commands rewrite in place. And under all of it lie
five clients that turn one set of operations into the requests of five servers,
behind a policy that says what the tools of the MCP server may do. This project
models these four.

Line references are to the repository; its code is under `src/src/` here.

## Modules

| module | what it is |
|---|---|
| `SyncPlan` | the pure part of a sync: which records are collected, how source and destination are compared, which additions and deletions a plan holds |
| `RecordSync` | state machine of sync, prune and teardown runs against a destination server, the ownership ledger and people who edit both servers |
| `RecordSync_proofs` | theorems about `RecordSync`, checked by TLAPS |
| `MCRecordSync` | names, values, jobs and record sets that make `RecordSync` small |
| `RunLifecycle` | abstract specification: what becomes of each trigger the daemon accepts |
| `DaemonRuntime` | state machine of the daemon process, its workers, its tables and a `job run` command beside it; refines `RunLifecycle` |
| `DaemonRuntime_proofs` | theorems about `DaemonRuntime`, checked by TLAPS |
| `DaemonHistory_proofs` | theorems about what `DaemonRuntime` promises and what its tables show, checked by TLAPS |
| `MCDaemonRuntime` | model values and symmetry for `DaemonRuntime` |
| `ConfigText` | what a configuration says: defaults, validation, and the edits of `dns config` as functions from text to text |
| `ConfigFile` | state machine of the file and of the commands that read, check, truncate and write it |
| `ConfigFile_proofs` | theorems about `ConfigFile`, checked by TLAPS |
| `Scheduler` | schedules as sets of ticks, the choice of the next job, jitter and the scheduling loop |
| `Scheduler_proofs` | theorems about `Scheduler`, checked by TLAPS |
| `MCScheduler` | lists of jobs that make `Scheduler` small |
| `MCConfigFile` | servers, commands and edits that make `ConfigFile` small |
| `VendorService` | the operations, trait by trait, what a client can declare, and the kinds of request and answer |
| `RecordData` | record types with their required, defaulted and optional parameters, selectors, and typed or untyped answers |
| `Technitium`, `Cloudflare`, `Unifi`, `Pihole`, `Pangolin` | one client each: its requests for every operation, the answers it takes for success, what a record becomes on the way to the server and back, what a delete picks, what a listing returns |
| `Vendors` | the five behind one interface |
| `Access` | rules and zones of a configured server, narrowed by options, and what each tool checks |
| `Operations` | state machine of calls through MCP and on the command line, request by request, against servers that others change |
| `Operations_proofs` | what the access policy grants and what a call may change at all: theorems about `Access` and `Operations`, checked by TLAPS |
| `Outcomes_proofs` | what calls report, copy and take: theorems about `Operations`, checked by TLAPS |
| `Listings_proofs` | what listings miss and repeat: theorem about `Operations`, checked by TLAPS |
| `MCOperations` | servers, records and calls that make `Operations` small |

`DaemonRuntime` treats a job as a step with an outcome; what that step does is
the run of `RecordSync`. The two meet in the outcomes: a run of `RecordSync`
that ends `err` is a `failure`, one that does not apply a `dry_run`, and the
rest a `success`.

Definitions marked *slip* in the modules are plausible mistakes in the code.
Nothing uses them in the specification; each is there to show that a property
notices when it takes the place of the definition after it.

## The system and its parts

| part | code | state | hard behaviour |
|---|---|---|---|
| planning | `control_plane/sync/plan.rs` | none | value and TTL comparison, diff buckets, options |
| applying | `control_plane/sync/apply.rs` | destination records | one change of several fails; adds before deletes |
| reconciling ownership | `control_plane/sync/reconcile.rs`, `ledger.rs`, `run.rs` | ledger rows by key | stale listings, crashes between ledger writes, two runs at once |
| vendors | `vendors/*/service` | records on a server | deletes that match more, or other, than was added |
| executors | `daemon/executor/*` | none | dry runs; errors become outcomes |
| runtime | `daemon/runtime` | queue, health row | full queue, shutdown timeout |
| workers, writer | `daemon/worker.rs` | failure counts, channel | interleaved rows, full channel, dropped rows |
| state store | `daemon/db/*` | three tables and the ledger | partial upserts, failed writes |
| commands | `daemon/commands` | none | a second process on the same tables |
| scheduler | `daemon/scheduler.rs`, `schedule.rs` | the job it sleeps for | jobs due together, ticks that pass during jitter |
| health | `daemon/health.rs` | none | not called by the running daemon yet |
| configuration | `control_plane/config`, `cli/dispatch/config_cmd.rs` | one TOML file | several readings before one write in place, without a lock |
| vendor clients | `vendors/*`, `vendors/runtime.rs` | none | answers read as success that are none, paging, lookups before deletes, two forms of each record |
| operations and listings | `core/dns/*` | none | searches and listings across zones that change meanwhile |
| policy and MCP tools | `control_plane/policy`, `mcp/*` | none | rules and zones from two places, two servers in one call |
| transfer | `control_plane/transfer.rs` | none | two calls at two servers |
| query command, resolver, validation, formatting | see `PROJECT.json` | none | mostly pure or plain I/O |

Calls go one way: a command, an MCP tool or a worker builds two vendor clients
and calls `run_sync_json`, which lists both servers zone by zone, computes a
plan, applies it, and then reconciles the ledger. Everything shared lives in
the destination server and in the SQLite file; the processes share no lock.

## `SyncPlan` and `RecordSync`

A record is a name, a value, a TTL and whether it is disabled. A name stands
for one (FQDN, type) pair and a value for one canonical record data, which is
all the diff (`plan.rs` 346-422) and the ledger key (`ledger.rs` 14-50) look at.
The IP map is a constant function on values.

State:

| variable | code |
|---|---|
| `source`, `dest` | what the two servers hold |
| `ledger` | rows of `synced_records`, by `job_key` |
| `run` | the local variables of each run: where it is, its plan, what it has tried, added and deleted, what it owns, what is left to prune |
| `written` | history: the keys each ledger key ever added to the destination |
| `budget` | how many edits, faults and crashes are left |

A run goes through `source` and `listing` (plan), `apply`, `load`, `list`,
`pruning`, and at last `record` or `forget`, its ledger write: one request or one database call a
step, so that everybody else's steps can come between any two of them:

| actions | code |
|---|---|
| `StartSync`, `StartTeardown` | executor 57-117, `cli/dispatch` 238-254 |
| `ListSource`, `ListDest`, `Abort` | `plan.rs` 107-227, an error of either listing ends the run |
| `AddRecord`, `AddFails`, `DeleteRecord`, `DeleteFails`, `EndApply` | `apply.rs` 28-78, adds of a zone before its deletes, no deletes after a failed add, an error at the end if any change failed |
| `LoadOwned`, `ListLive`, `ListLiveFails`, `PruneRecord`, `PruneFails`, `SkipDrifted`, `EndPrune` | `reconcile.rs` 29-150 |
| `RecordOwned`, `ForgetOwned` | `db/store/ledger.rs` 38-115, one transaction each |
| `EditSource`, `EditForeign` | other people and programs |
| `Crash` | the process is killed; what servers and ledger hold stays |

A request that fails may have been carried out: when its answer is lost
(`vendors/http.rs` 77) the run counts a failure, and the record is on the
destination or gone from it all the same (`FailsMaybeMade`). What was added that
way is no run's own (`written` leaves it out), for the next run finds it
unchanged.

Vendors differ in what an addition and a deletion leave behind (`Stored`,
`AfterAdd`, `AfterDelete`, `DeleteMatches`): Technitium and Pi-hole hold one
record per name and value, UniFi and Cloudflare keep every created record under
an id; Pi-hole keeps no TTL; Cloudflare deletes the first record of a structured
type whatever its value.

### What the runs show

| run | instance | result |
|---|---|---|
| `ownership` | Technitium, two zones, fair runs of a pruning daemon job, a disabled and a zero-TTL source record, two source edits, one foreign edit, one fault, one crash | types; the ledger is backed by what was written (`LedgerBacked`, `OwnershipInv`); pruning removes only that; the destination ends up mirroring the source and stays so (`Converges`) |
| `rollback` | UniFi, two zones, one command alternating syncs and teardowns, dry or not, three source edits, one fault, one crash | a teardown that counts no failure leaves nothing owned; the ledger forgets only what is gone; a name that stays in the source is never left without an answer; everything created is owned as long as nothing fails; a dry run writes nothing |
| `ttl_update` | as above, two TTLs of one value | `NameNeverDark` fails: the delete for the old TTL takes the new record with it |
| `partial_apply` | one fault | `CreatedIsOwned` fails: a run with a failed change writes no ledger |

Bounds: two names, two values and two or three TTLs are enough for every diff
bucket (new, changed, unchanged, destination only) to meet every other one in
one plan; one fault and one crash can come at any step; two zones let a failed
zone stand beside a good one. Edits are bounded by `MaxSourceEdits` and
`MaxForeignEdits`, and each run starts over as often as it likes.

Fairness: `ownership` assumes that a job is started again and again
(`WF(Start)`: the schedule fires) and that a started run goes on (`WF(Progress)`:
a task of the runtime whose requests time out). Nothing fair is assumed of
edits, faults and crashes; they are bounded, which is what "once nobody edits
and nothing fails any more" means.

## `RunLifecycle` and `DaemonRuntime`

`RunLifecycle` gives each trigger a stage: `new`, `queued`, `running`, `ended`,
then `recorded`, or `lost` to a failed write or a crash. A daemon halts
gracefully only when no trigger is open.

| variable | code |
|---|---|
| `main` | where `daemon::runtime::run` is: `live` (scheduling loop), `draining` (the wait of lines 366-372), `closing` (the await of 376), `down` |
| `queue` | the job channel, capacity 64 in the code |
| `worker` | each task of `spawn_workers` with its own failure counts |
| `channel` | the channel to `spawn_db_writer`, capacity 256 in the code |
| `manual` | one `job run` command |
| `table` | `job_runs`, `job_status` and the state column of `daemon_health` |

`Fire` is the scheduled trigger and the one of `run_immediately`; a full queue
drops it. `Take`, `EndJob`, `SendRun`, `SendStatus` and `Exit` are a worker's
loop; `WriteRow` and `WriteFails` the writer. `Cancel`, `EndDrain` and `Stop`
are the shutdown: the shutdown timeout may pass at any moment, so `EndDrain` has
no guard on the workers, while `Stop` must wait for the writer, which ends only
once every worker has dropped its sender. A consequence worth knowing: the
timeout does not bound the shutdown, since triggers still queued are run after
it. `Crash` loses the queue, the channel and everything the workers hold.

| run | instance | result |
|---|---|---|
| `daemon` | two workers, capacities 1, two triggers, one manual run, a fault, a crash and a restart; workers are symmetric, and the run checks safety only | types and capacities; a daemon that says `stopped` has settled all it accepted; a status row shows a run of the history as it ended and counts no failure that did not happen; it shows an earlier run than the last of the history only if the two were under way together; `RunLifecycle` is implemented |
| `daemon_live` | one worker, two jobs of which one is dry, a queue and a channel of two, four triggers | every accepted trigger is run and recorded; a shutdown that began completes; the status row counts the failures at the end of the history |

With capacity one, every send meets a full channel and every second trigger a
full queue, which the code's 64 and 256 would need far longer runs for.

The code starts four workers unless told otherwise (`types.rs` 299), and each
counts the failures of a job for itself (`worker.rs` 81). So with two of them, or
across a restart, the count is not that of the history, and two runs of one job
may write their status in either order, so that the earlier one is shown for
good. What holds of any number of workers is in `daemon`: the row tells of a run
that took place (`StatusFromHistory`), the count is never more than the history
and the rows that were lost account for (`StatusNeverOvercounts`), and a row never
falls behind a run that began after its own was over. The last is
`StaleOnlyBeside`, which reads a history variable, `beside`: the pairs of runs that
were under way together, from the moment a worker or the command takes one up
until its status row is in the table. That the count is exactly the failures in a
row at the end of the history is checked for one worker (`daemon_live`), where a
wrong reset would show.

Fairness: worker tasks, the writer, main's shutdown and the command go on; no
trigger, shutdown, restart, fault or crash is ever forced. A job ends because
every request of the vendor clients carries a timeout (`vendors/http.rs` 30,
`vendors/pihole/client.rs` 24).

The daemon may stop for good and the budgets run out, so the runs of this module
do not check for deadlock; `ShutdownCompletes` and `AcceptedIsRecorded` say what
deadlock freedom would mean here.

## `Scheduler`

`DaemonRuntime` lets a trigger come at any time; `Scheduler` says when it comes.

| variable | code |
|---|---|
| `jobs` | the `[[jobs]]` of the configuration |
| `clock` | `Utc::now()`, in minutes around one cycle of months |
| `pc`, `wait` | the loop of `runtime/mod.rs` 278-361: the job it chose, the minutes to its tick (`fire_time`) and to its timer |
| `scheduled` | `scheduled_jobs`, by position |
| `triggered` | the triggers of the last step |

`Start` registers the jobs (198-270), `Select` is `next_job_to_fire` and
`apply_jitter`, `Pass` a minute of sleep, `Fire` the timer, `Park` a loop with
nothing to wait for, `Cancel` the shutdown. `parse_schedule`,
`try_parse_interval` and `next_after` are operators; `*/n` stands for the set of
readings of a clock it names.

Occurrences are sought in the local time of the job (`scheduler.rs` 62-72). A time
zone is a constant of the model: what its clock reads at each moment of UTC
(`reads`), any function, and at which moments the search finds that reading
(`found`). Where a clock is turned forward some readings do not come, and a tick
among them never does (`Occurrences`); where it is turned back they come twice.
Which of the two the cron crate takes, if any, is not in the code, so `found` is
left open; the instances have zones where it takes none and one where it takes
both. What happens to the trigger afterwards is `Fire` of
`DaemonRuntime`.

| run | instance | result |
|---|---|---|
| `schedule` | every interval alone; lists of jobs that share ticks, are jittered, disabled or unparsable; intervals and single ticks in three zones whose clocks are turned by an hour at midnight, by an hour, and by part of one, ticks that a turn takes away among them; start at four moments | a sleep exceeds the interval of an enabled job only where the clock of its zone is turned within it; a tick is missed only behind the trigger of an earlier or simultaneous one; without jitter every job with a tick of its own keeps running |
| `starved_job` | two jobs, one interval | `EveryJobRuns` fails: the second job is never triggered |

An hour of 6 minutes, a day of 4 hours and a month of 3 days hold every relation
of an interval to the unit it steps through: divisors, others, the longest that
is accepted and the first that is not. Two months let a clock be turned forward
and back, with a month's end between. A calendar that repeats keeps the states
finite and liveness meaningful. Fairness: the loop is a task of its own and its
timer fires; the shutdown is never forced, and the liveness properties hold for
daemons that are not shut down.

## `ConfigText` and `ConfigFile`

`ConfigText` gives the parts of a configuration that validation and defaults
tell apart: server tables with what they leave unset, and the references of
clusters and jobs. `Resolved` is what the program works with, `Valid` the checks
of a loaded file, `Appended`, `FilledIn` and `WithEndpoint` the three edits.

| variable | code |
|---|---|
| `file` | the file: whether it exists, is readable by its owner only and is whole, and what it says |
| `client` | the command each process is in and its local variables: the loaded configuration, the merged endpoint, the text to write |
| `clean` | history: no two commands overlapped and no write broke off |
| `added` | history: servers whose addition was reported, until a hand edit or `init --force` drops them |
| `budget` | commands, edits and faults that are left |

A command reads the file up to three times, checks what it would become, then
opens it with truncation and writes: `Begin`, `CheckExists`, `CreateStarter`,
`Load`, `Merge`, `Validate`, `ReadRaw`, `Open`, `Write` (or `WriteFails`) are
those steps in order, and every other process, `HandEdit` or `Kill` can come
between any two of them.

| run | instance | result |
|---|---|---|
| `config` | two processes, three commands, one edit, one fault; processes are symmetric, safety only | commands that do not overlap leave a valid file with every added server; `config update` changes no meaning, and writes nothing invalid even when commands overlap |

Two processes and three commands let each of the three edits follow, or overlap
with, every other one; the files and edits hold the combinations of unset
fields, of a shared id in two spellings, of a local base URL and of a job
reference that validation and defaults tell apart. No fairness is assumed. The
commands may be used up, so deadlock is not checked.

## `VendorService`, the clients, `Access` and `Operations`

A call is a record (`op`, `server`, `zone`, `name`, `data`, ...). Each client
module says, trait by trait as the code does, which requests the call takes:
Cloudflare looks up the zone first, UniFi the site, a delete at either lists
what there is and then deletes by id, UniFi lists page by page, Pi-hole keeps
two lists. The empty sequence is an operation the client refuses.

| variable | code |
|---|---|
| `held`, `zid`, `marks` | the servers: records, zones with their ids, and everything else they remember (caches, access lists, settings, zone options) |
| `load` | what the callers may ask for and the options the MCP server runs with |
| `call` | the local variables of each call: the requests left, the zone it is at, what it has collected or found, and how it ended |
| `nextId`, `others` | ids the servers give; steps of other users |

| actions | code |
|---|---|
| `StartTool`, `StartCommand` | `resolve_server` and the checks of `mcp/tools/*`; `client_cmd.rs` |
| `LookUpZone`, `LookUpSite`, `LookUpLogFile`, `LookUpDomain`, `FindRecord` | the lookups of the clients |
| `FetchZones`, `FetchPage`, `FetchHosts`, `FetchAliases`, `ReadRecords` | listings: `core/dns/records/query/mod.rs` over the clients' `list_records` |
| `CreateZone`, `DeleteZone`, `AddRecord`, `DeleteRecord`, `ChangeMarks`, `ImportZone`, `ExportZone`, `Read` | the request that does the work |
| `Fail`, `Refuse` | a request without an answer; a server that says no |
| `OtherAdds`, `OtherRemoves`, `OtherEdits`, `OtherRecreates` | other users of a server |

One request is one step, so calls of two clients and other users interleave
between any two. A change may be applied and its answer lost (`Applied`);
nothing is retried. A server refuses with an HTTP status and a body
(`Refusals`), and whether the client takes that for a success is read from its
own `parse_response`, definition by definition. A transfer is an export and,
with the requests of another client, an import.

Records go through `Kept`, which is the body a client writes, composed with the
mapping of its listings; the fields of a body and the numbers Cloudflare has for
enumerated parameters are in two tables each, one to write and one to read, as in
the code, so `ReadsBack` compares them. A listing is asked
for by domain, by a label searched in every zone, or without a domain, with or
without the names under it (`Args`, `Kept1`), and `ListingIsComplete` says what
each may miss or report twice, and when. Names of zones are collected page by
page and not compared, so a zone that is created between two pages makes the next
page begin with a zone already listed, and its records are reported twice
(`grown`).

| run | instance | result |
|---|---|---|
| `operations` | a server of each vendor and a second Technitium, two zones, five names of which one is deeper; through MCP every operation at every server under no or narrowing options, on the command line payloads, imports, deletes with and without a value and seven types of data, transfers between three vendors; then two callers at one Cloudflare or UniFi server, a caller who lists while zones are deleted and created, or a caller and another user | an outcome tells the truth; listings miss or repeat only what paging can; records read back; a delete takes what was asked, by id exactly one; a transfer copies; changes through MCP are granted by the configuration and, but at Pi-hole, lie in its zones; every call ends |
| `cloudflare_ns` | the same | `NamedValueOnly` fails: an NS delete compares nothing |
| `list_all` | the same | `AllMeansAll` fails: without a domain Technitium is asked for apex records only |

Bounds: a page of two with three policies gives a full page, a short one and a
moved one; a page of zones of one makes every list of zones take two; `OnePage`
is the number of records Cloudflare returns unasked, and one more exists. One
step of another user can fall between any two requests. `MaxId` is never what
stops a call.

Fairness: `WF(Advance(c))`: a request is answered unless it fails, for all
clients have a timeout. Refusals, failures and other users are never forced. A
call ends for good, so deadlock is not checked; `EveryCallEnds` is what it
would mean.

A tool is given a zone and a domain, checks the zone, and passes both on. What
becomes of a domain outside the zone differs, and the workloads ask for one at
each vendor (`Outside`): UniFi's `resolve_fqdn` appends the zone to it, Pi-hole
drops the zone and sends the domain (`pihole/service/mod.rs` 150, 176), the others
send both, and a server that has zones refuses a name that is not in the one
named (`Belongs`). So `OnlyPermitted` asks for the zones of the configuration at all vendors but
Pi-hole, where a tool kept to one zone does add and delete records of
another. A delete without a value goes to the
server as it is at Technitium and takes all of the type; Cloudflare and UniFi
delete the one record they find, so `DeleteTakesAsked` says "exactly one" only of
a delete that names a value.

Cloudflare takes no overwrite flag: the client warns that "existing records will
still be updated by the import" (`cloudflare/service/mod.rs` 357-362). `Spared`
lets its import take away any of the records of a name and type in the file,
an update being a removal and an addition, so that `TransferCopies` promises there
only that other records stay. An answer that arrives and does not decode
(`unifi/client/mod.rs` 309) ends a call as a lost one does: in an error, after
the change.

External, and so assumed: how servers refuse and grant, in which order they
list, that an id is not given twice, that a server with zones keeps a record only
in the zone of its name, and that a text that is no zone file is
refused by the server that gets it. `OperationsAssumption` says that the
name and the zone a call is given make, taken together as `resolve_fqdn` does, a name of that zone; that a
zone's own name lies in it, that a domain given together with a zone lies in it or is a
label of it, that a server lists its zones in an order of its own
(`ZonePlace`), and that the zones it has at first are finitely many and hold what
it holds.

Not modelled: the checks of the sync tool (`mcp/tools/sync.rs` 30-60 and
86-99). A teardown through it asks for `write` alone and ignores `zones`; no
theorem here says what zones such a call may reach.

## What is proved

TLC checks the instances above; the theorems hold for every number of runs,
zones, names, values, workers, jobs, capacities and budgets, of clients, servers,
policies and pages, and for every calendar and list of jobs.

| theorem | says |
|---|---|
| `RecordSync_proofs!TypeCorrect` | every reachable state is well typed |
| `RecordSync_proofs!OwnershipInvariant` | what each run believes to own is backed by what its ledger key wrote |
| `RecordSync_proofs!LedgerIsBacked` | the ledger names no record that no run of its key added |
| `RecordSync_proofs!PruneIsOwn` | pruning removes only what its own key wrote |
| `RecordSync_proofs!DryRunIsDry` | a dry run changes neither destination nor ledger |
| `RecordSync_proofs!ForgottenIsGone` | one run at a time, failing or dying anywhere, forgets no record that is still on the destination |
| `RecordSync_proofs!TeardownIsComplete` | a teardown of the only key in use, none of whose deletes failed, so that it counts no failure, has removed all it owned and clears the ledger; one that counts some may report success too (`run.rs` 132-140) and is not meant |
| `RecordSync_proofs!NamesStayAnswered` | one run at a time leaves no name without an answer that the source has and the destination answered |
| `RecordSync_proofs!AddedIsOwned` | while no request fails and nothing is killed, the ledger of the only job has every record the job put on the destination and that is still there |
| `DaemonRuntime_proofs!TypeCorrect` | every reachable state is well typed, both queues within capacity |
| `DaemonRuntime_proofs!NothingForgotten` | an accepted trigger is held somewhere, recorded, or known to be lost |
| `DaemonRuntime_proofs!StoppedHasSettled` | a daemon whose health row says `stopped` has settled all it accepted |
| `DaemonHistory_proofs!OnePlaceAtATime` | a run is in one place at a time, a place holds it once, and no identity is given twice |
| `DaemonHistory_proofs!KeepsItsPromises` | `DaemonRuntime` implements `RunLifecycle` |
| `DaemonHistory_proofs!StatusTellsHistory` | a status row shows a run of the history as it ended, unless the row of that run was lost |
| `DaemonHistory_proofs!StatusCountsNoMore` | however many workers, commands, restarts, crashes and lost writes, a status row counts no more failures than the history and what was lost account for, and none once a run did not fail |
| `DaemonHistory_proofs!StatusIsLastOrBeside` | however many workers and commands, once all rows are in and none was lost, the status row shows the last run of the history or one that was under way together with it |
| `ConfigFile_proofs!FillKeepsMeaning` | a server table with its defaults written down resolves to what it resolved to before |
| `ConfigFile_proofs!TypeCorrect` | every reachable state is well typed; no edit looks for a server that is not there |
| `ConfigFile_proofs!UpdateIsValid` | `config update` writes nothing that a load would refuse, however commands overlap |
| `ConfigFile_proofs!UpdateIsSilent` | `config update` changes no setting while commands do not overlap |
| `ConfigFile_proofs!CommandsLeaveValid` | commands that do not overlap leave a valid file, if the files they found were |
| `ConfigFile_proofs!AdditionsStay` | a server whose addition was reported stays through every later command, if they do not overlap |
| `Scheduler_proofs!LoopTypes` | every reachable state is well typed: triggers are for enabled jobs, and no timer fires before its tick |
| `Scheduler_proofs!IntervalsAreKept` | however clocks are turned, the loop sleeps past the interval of an enabled job only if its zone's clock is turned within every stretch of the sleep as long as the interval |
| `Scheduler_proofs!TicksAreNotSleptThrough` | a tick of an enabled job is slept through only once the tick the loop waits for has come |
| `Operations_proofs!OptionsOnlyNarrow` | what a tool may do with options that resolve, it may do by the configuration alone, and the options do not exclude it |
| `Operations_proofs!TransferIsGranted` | a transfer that passes its checks is granted by the configurations of both servers |
| `Operations_proofs!OnlyPermittedChanges` | a change made through MCP is one that the server's configuration grants and the options do not exclude, at no other server and, but at Pi-hole, in zones of both, although the name it is given need not lie in the zone it checks |
| `Outcomes_proofs!OutcomesAreTrue` | a call reports success only if its change was made exactly once, an error only if it was not made or the answer to it was lost, and what was denied or is unsupported was never sent |
| `Outcomes_proofs!TransfersCopy` | a transfer leaves the destination with every record the source held when it was exported, takes away only records of a name and type it brings, at Technitium none unless told to overwrite, and leaves nothing else when it replaces the zone |
| `Outcomes_proofs!DeletesTakeWhatWasAsked` | a delete takes only records of the name, type and value asked for, or edited since they were found, and exactly one where records have ids and the value is given; no other server changes |
| `Listings_proofs!ListingsAreComplete` | a listing that succeeds reports nothing that was not there or asked for, and misses or repeats no more than what others removed and created between its requests accounts for |
| `Listings_proofs!OperationsTypes` | every reachable state is well typed: servers hold and listings report only records in a form the servers can hold, and a call has requests left just while it is under way |
| `Outcomes_proofs!RecordsReadBack` | a record added at a vendor that has a form for its type reads back, from the next listing, with the type and parameters it was added with |

**Ownership.** `LedgerBacked` alone is not inductive: the ledger is written from
the local variables of a run (`newOwned`, its adds, what is left to prune), so
`OwnershipInv` adds `RunBacked`: at each point of a run those variables hold only
keys in `written` of the run's ledger key (while the ledger is loaded, its adds if it
applies its plan; from pruning to its last ledger write, the rows it will add,
check and forget). `written` only grows, so no step of anybody else disturbs it;
each step of the run itself has a lemma. `PruneIsOwn` and `DryRunIsDry` are
action properties that follow from it step by step. `PruneIsOwn` assumes
`Vendor # "cloudflare" \/ Structured = {}`: there a delete takes the first record
of the name and type, which somebody else may have written; for NS and PTR,
which the code means to compare, `cloudflare_ns` shows it.

**One run at a time.** Four properties that `rollback` checks hold under `Solo`:
one slot, a destination nobody else edits, deletes that compare values, and one
TTL for all records of a name (`OneTtl`; on Pi-hole the one its records are read
with), none of the foreign ones disabled. Each part is needed. Two slots that
overlap forget each other's records. A foreign edit between the listing and
the delete makes what a run has seen untrue. A delete on Cloudflare may take
another value of the name. A TTL that changes makes the plan delete and add one
value, and the delete takes the new record with the old one, which `ttl_update`
shows. `NamesStayAnswered` also needs that a job which prunes may overwrite:
without, a changed value is pruned and its successor is not added (a hazard
listed without a property). Source edits, failed requests and crashes between any
two steps are allowed.

`Steady` is the invariant. It says of a run that its plan is still true of the
destination (`Fresh`): what is to be added is not there, what is to be
deleted is, and the source has the one and not the other. Every name the
run owns and may take from is answered by a record of the source or is still
to be added (`Answering`, `Kept`). What pruning has listed is still listed and
what it will forget is gone (`Sees`), and a teardown that has failed nowhere has
all that is owned among what it has taken or will take (`TakesAll`). The zones not
yet listed hold nothing planned (`Apart`), which is why a plan stays true while the
next zone is read. `AddedIsOwned` is about one job that prunes, under its only key
(`Sole`), with an IP map that makes no two values of a name equal: two records
that become one are both planned, the second is refused, and the run fails before
it writes the ledger. A failed addition has the same effect, so `partial_apply`
shows records that no ledger knows; `CalmInv` therefore says what the ledger
still lacks at each point of a run (`Covered`) only while no fault or crash has been
spent. The constants of `rollback` satisfy all of these hypotheses.

**The daemon.** `TypeInv` strengthens `TypeOK` by `IdsLeft` (identities last as
long as the budget that bounds the model) and `Identified` (whoever works on a
run has its identity), which the rows that are sent need. `SettledInv` follows a
run from the queue to a worker, to the channel, to the table: each action moves
it to the next place before it leaves the last. A worker exits only behind an
empty queue, which is why an empty channel and exited workers at the end of the
shutdown mean that nothing is left.

That nothing is forgotten still allows a run to be in two places, and then a
step of one of them would move it twice in `RunLifecycle`. `PlaceInv` excludes
it: identities come from `serial`, which only grows, the places are
disjoint, and each holds a run once. With it every action is one step of
`RunLifecycle` or a stutter. `StatusInv` follows the second row of a
run behind the first: in the channel, in the worker that has yet to send it and
in the command that has yet to write it, its run is written, lost, or ahead of
it.

The count of failures passes through four hands: a worker counts when a job ends,
the channel carries the count, the writer puts it in the table, and the history it
is compared with is written by other rows. `CountInv` says of each that its
count is `Backed`: at most as many as the runs of the job that failed and are in
the history, among the run rows ahead of it in the channel, the row about to be
sent, or lost (`Account`). What a worker has counted stays accounted for wherever
its rows go, since a run row that leaves the channel is written or lost, a
crash puts all that was under way among the lost, and a run is in one place at a
time, so that the run which a count adds is a new one (`OneMoreBacked`). Nothing is
asked of the number of workers, and commands and restarts start counting from zero,
which only makes a count smaller.

How far a status row may be behind is `StatusIsLastOrBeside`. `OverlapInv` says of the
runs under way that they were so together, and that each was so together with
every run the history got after its own (`LaterBeside`): a run that joins is not
in the history yet and is beside all that are under way, and one that enters the
history is under way itself. It says too that the row of a run is never on its way
without its status to come (`Followed`), so that the last run of the history is
either still to be shown or what is shown was beside it (`LastShown`). When a
status row is written, its run is in the history (`StatusInv`, nothing being
lost), and what came after it there was beside it.

**The configuration file.** `FillKeepsMeaning` is a case analysis of one table:
which of the nested permissions, the flat list and the read-only flag it leaves
out decides what is written and what that resolves to. `FilledInMeaning` carries
it to a whole text: in a valid one ids are unique, so the first server with an
id, which `At` picks and `NatMin` shows to exist, is the table itself.
`UpdateKeepsMeaning` is not inductive: `Undisturbed` adds that before the first
overlap at most one command is under way, and that what it validated is what
the file still says. `UpdateWritesValid` needs none of that, since the text is
validated after the defaults were filled in.

`config add` and the endpoint commands validate a typed configuration and write an
edited text, so that the file is valid has to be carried from the one to the
other: `SoundInv` says at each point of a command what follows for the text it
is going to write (the loaded file would be valid with the addition or the
endpoint, the text read again is still the loaded one, the document is valid and
holds all that was added). `AppendedIsValid` and its siblings then show that each
edit of the text has the effect of the edit that was validated. The hypothesis
`SoundFiles` is that files found at the start or saved by hand are valid, and
the starter file too: an editor can save anything, and after that no command
makes the file valid. `MCConfigFile` has TLC evaluate it.

**The scheduler.** A cron step of n starts over at the end of its field. From
any moment, either the next multiple of n comes within n, or the field ends
within n and its 0 is in the set (`FieldStep`); `UnitStep` and
`StepWithinInterval` carry that to minutes, hours and days, with the smaller
units fixed at 0. While the clock of a zone runs on, its reading moves on as time
does (`RunningClock`, from the least moment at which it would not), so in a
stretch as long as the interval a tick is found (`TickInStretch`). The loop takes
the soonest tick of all active jobs (`ChosenIsSoonest`), and a sleep through such a stretch would
be one past a tick. `ZonesAssumption` says of the zones no more than that a
clock reads something at each moment. `QuietInv` adds what the loop knows while it sleeps: no enabled job has
a tick before the one it sleeps for. Both rest on plain arithmetic of division
and remainder by a variable, which the solver does not have and the module
therefore proves.

**Access.** A zone of the options lies in a configured one (`Resolvable`), and
what lies in a zone lies in whatever that zone lies in (`DomainAssumption`), so
a name the narrowed policy lets through is one the configured policy lets through.

**Calls.** A tool checks once, before its first request, and changes a server
several requests later. `Inv` says what must survive until then: the call under
way still passes its checks (`Cleared`; the options and configurations are fixed
while the server runs), what an export put into its file lies in the zone the
import was checked for, and an id a delete found still belongs to a record of
the name it was asked about, or to none (`Known`). The last needs that every id
is one record's and was given before (`HeldOK`), and that whatever others do
brings records under new ids or edits one under its name (`Moves`). Steps that
change no server are `Quiet`, and `QuietKeeps` treats them alike; the six that
do have a lemma each, which shows that the change lies at the call's server
and in its zone (`Acting`). `ClearedOp` then turns the checks of the tool, and
for the second half of a transfer those at the destination, into the rule and
zone of the change, and the theorems about `Access` take them from the
effective policy to the configuration.

Two more invariants say what calls do. `Settled` is about what a call reports.
While it is under way (`Working`) it has changed nothing, and of the requests left
only the last is one that can. That is a matter of five tables of requests, so
`RequestsFit` goes through them client by client and method by method. `Watches`
says that what stood all through a call is still there and what is there has been
seen, and that the file of a transfer is what its source held at one moment
between. `ActsChanges` shows the converse: what a call has changed, one step of its
own changed, which was not refused.

`Listings` is about what listings miss. That what was missed is accounted for is
true at the end only: in between, `Followed` relates what a listing has collected,
what it still owes of the records that stood (`Owed`), and what lies ahead of it,
while the server it reads changes under it. While the zones of a server are
paged (`ZonesPaged`), the zones behind the next page and on no page before are at
most as many as were removed, and those twice on pages, or on one and yet ahead,
as were created: a zone's place on the pages is the number of zones before it, and
one zone removed or created moves at most one other across the border of a page.
While they are read one by one (`ZonesRead`), what is missing beyond that lies in
zones ahead, and what repeats is a zone ahead twice. `PoliciesPaged` says the same of
the policies of a UniFi site, whose ids give the order and of which others can
remove any and add only at the end; `ListsRead` stands between Pi-hole's two lists, `DomainsRead`
between Pangolin's domains, and everything else is one answer (`AnswerTo`).
Before that, `Rooted` says that a server has finitely many zones and that records
lie in zones it has, so that who reads all its zones reads all its records.

`Guide` is about what a delete takes. Between the request that finds a record and the
one that deletes it, others add, edit and delete. `Aimed` says that the record
under the id found is still the one that was meant or has been edited since, and
that each policy on a page read earlier is still what it was, or has been edited or
removed; `OldOrEdited` and `Arrives` show that nothing others do escapes
this. That what a client picks from an answer is what was meant
(`PickedIsMeant`) rests on how Cloudflare, UniFi and Pi-hole compare what they hold
with the selector. For that what they hold must be comparable (`Formed`): it was
given to them as typed data, and the form each keeps it in has the parameters that
are compared (`KeptForm`).

`OperationsTypes` comes last because the types depend on the rest. What a call has
left to ask follows from the tables of requests (`ClientSends`), which also
say that what a call under way adds is something its vendor can store; `Shaped`
carries that to the step that stores it, and a record that is stored is `Filed`.
`Listings` is needed where Pangolin's next domain is taken from those ahead
(`NextDomain`) and a page of zones from the offset reached.

`RecordsReadBack` needs no invariant but `Inv`: the record is stored by the step that
applies the addition. What it rests on is that the mapping a client writes with and
the one it reads with are inverse to each other for every value. `SamePlaces`
shows that each parameter is read from the field it is written to,
`NumbersReadBack` that the number of each name is read as that name, `FieldsDiffer`
that no body uses a field twice and has one for every parameter that is not lossy,
`CloudflareReads` and its siblings that the listing then says what
was written, and `FaithfulReads` that such a listing reads as the record.

Assumptions on the constants are `PlanAssumption`, `RecordSyncAssumption`,
`DaemonAssumption`, `ConfigTextAssumption`, `ConfigFileAssumption` (the files,
edits and commands are ones the schema can express), `DomainAssumption` and
`OperationsAssumption`, with `DataAssumption` (what is added and imported is
typed, a selector names parameters of its type, and what a server holds at first
was given to it, as all else is) and `FormsAssumption` (the forms records are held
in are closed under what a vendor makes of what it is given, and one that imports
zone files of what another exported), and for `Scheduler` `CalendarAssumption` (an hour, a day and
a month have more than one part), `ZonesAssumption` (each zone has a reading for each
moment), `ScheduleAssumption` (jobs have the fields
of a `[[jobs]]` table, and the daemon starts at some moment) and
`JobListsAssumption` (each job passed the check of a loaded file); TLC evaluates
them in every run of their modules. `DaemonAssumption` asks for a worker because without one the
code's job channel is closed from the start.

Only model-checked: liveness (`Converges`, `AcceptedIsRecorded`,
`ShutdownCompletes`, `RunsUnlessShadowed`, `EveryCallEnds`), which is beyond this prover together with `ENABLED`.
No recursion over data is proved about, and no module here declares a RECURSIVE operator.

## Observed, and not kept as a run

- On Cloudflare a delete of a structured type (MX, SRV, ...) takes the first record
  of the name and type, as its comment says, so a sync that prunes one may take
  another owner's.
- The tool that deletes records says that without value fields it deletes all of
  the type (`mcp/params.rs` 153, the repository's README 333); Cloudflare and UniFi
  delete one, and Pi-hole refuses.
- `allowed_zones` restricts tools to zones (the repository's README 211); at Pi-hole
  it restricts what the caller says the zone is (`pihole/service/mod.rs` 150, 176).
- Of two runs of one job on two workers the earlier may write its status row last
  (`worker.rs` 170), and the "current status snapshot" (`db/models.rs` 26) stays
  with it, though nothing failed.
- Two failures of a job on two workers leave its status row at one failure in a row
  (`worker.rs` 81), which `health.rs` 28-30 takes for the job's own count.
- A tick at a reading that a clock skips when it is turned, a midnight in some
  zones, does not come that day: a daily job runs two days apart.
- A listing across zones reports the records of a zone twice when another zone is
  created between two pages of the list of zones.
- A zone given without a domain is ignored by a listing, and Pangolin without a
  zone returns the records of every domain.
- Technitium's zone file and log are any body of a 2xx answer, an error's too.
- Pi-hole sessions are opened by each client and closed by none.
- On Pi-hole a record has no TTL of its own, and a source record with a TTL other
  than 3600 differs again on each run.
- A daemon that is killed leaves `live` in its health row, and `healthcheck`
  does not look at the heartbeat.
- A teardown whose deletes failed reports success and counts the failures
  (`run.rs` 132-140).
- The documented `dns sync --to S --teardown` without `--from` looks up the ledger
  key with `?` for the source, which no sync writes, and removes nothing.
- With servers written as an inline array, `config add` reports success and writes
  the old text; `AddedUnlessOverlapped` leaves that form out.
- Validation takes a blank `schedule` for absent while the runtime prefers it to
  `interval` and then skips the job; a cron expression that ends in `Wed` is taken
  for an interval and refused.
- Two runs of one job that overlap forget each other's records; the ledger of a
  key is only as good as one run at a time.
- A status row keeps the error of an earlier failure beside the state `healthy`:
  the upsert skips columns without a value.
- A reader that comes between truncation and write finds an empty file, which
  is a valid configuration without servers.
- Health is never refreshed between the start and the stop of the daemon.

## Plan

1. `SyncPlan`, `RecordSync` and their theorems: done.
2. `DaemonRuntime` refining `RunLifecycle`, and its theorems: done.
3. `ConfigText`, `ConfigFile` and their theorems: done.
4. `Scheduler` and its theorems: done; a wall clock that can be set back, and the aggregation of
   job states in `health.rs`, are open.
5. `Access`, the five clients and `Operations`: done; session renewal at Pi-hole
   and the tools over clusters are open.
6. `Query`: the query command's fan-out to servers and clusters and the merge of
   answers, and the comparison of live answers with expected ones.
7. Two jobs with one destination, and zone sync without ownership, as instances
   of `RecordSync`; an abstract ownership specification it refines.
8. Theorems about `Operations`: every safety property and `TypeOK` are done. For `RecordSync`, two slots whose jobs write zones that do not
   overlap are open.

Not planned: parsing and rendering (TOML, record data, tables, JSON), HTTP and
authentication, interactive prompts, logging and redaction. They keep no state
that the properties above are about.
