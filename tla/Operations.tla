---------------------------- MODULE Operations ----------------------------
(***************************************************************************)
(* Calls of the MCP tools and of the command line against configured       *)
(* servers of the five vendors, request by request.  Calls of several      *)
(* clients interleave, and other users of a server change it between two   *)
(* requests of a call.                                                     *)
(*                                                                         *)
(* A client is one caller with at most one call at a time.  A call starts  *)
(* with the checks of its tool (through MCP) or without any (on the        *)
(* command line), goes through the requests its vendor's client sends for  *)
(* the operation, and ends with an outcome.  A transfer between servers    *)
(* goes through the requests of an export at the source and then those of  *)
(* an import at the destination.                                           *)
(*                                                                         *)
(* What a server does with a request is outside the program and modelled   *)
(* from how the clients use it.  A request may fail before the server      *)
(* applied it, or its answer may be lost after: the clients retry nothing. *)
(***************************************************************************)
EXTENDS Access, Vendors, FiniteSets, Sequences, SequencesExt, Functions

CONSTANTS Clients,   \* callers
          Servers,   \* configured servers
          VendorOf,  \* the vendor of each server
          Conf,      \* the MCP permissions in each server's configuration
          Zones,     \* zones
          Names,     \* record names
          ZoneOf,    \* the zone of each name
          ZonePlace, \* the place of each zone in the order servers list them
          Labels,    \* names of a single label
          Under,     \* Under[z][l]: the name of label l, or of a name
                     \* outside zone z, relative to zone z
          Parent,    \* the domain one label up, "none" above a zone
          Data,      \* the record data and selectors of calls
          Forms,     \* the forms servers hold record data in
          Workloads, \* the calls each client may make, each through MCP or
                     \* not, the servers other users change meanwhile and the
                     \* options the MCP server was started with
          Others,    \* the records they may add to each
          ZonePage,  \* zones asked for per page of a list of zones
          PageSize,  \* policies UniFi returns per page
          MaxPages,  \* pages a UniFi listing may take
          OnePage,   \* records Cloudflare returns without being asked for a page
          InitHeld,  \* the records each server begins with
          InitZones, \* the id of each zone at each server, 0 when absent
          FirstId,   \* the first id a server gives
          MaxId,     \* bound: ids given to records and zones
          MaxOthers  \* bound: steps of other users

None == "none"

Record == [id : 0..MaxId, name : Names, data : Forms]

\* What a listing is asked for: a domain (a name, a zone or a label alone) or
\* nothing, whether the zone is named too, and whether the names under the
\* domain are meant as well.
Query == [domain : Domains \cup {None}, zone : BOOLEAN, all : BOOLEAN]

\* The parameters of a call.
Parameters ==
  [op : DnsService \cup {"transfer_zone"}, server : Servers, zone : Zones,
   name : Names, data : Data, query : Query, payload : Payload,
   flag : {"add", "rrsets", "zone"}, to : Servers]

\* A name given with a zone it does not lie in is relative to the zone.
resolve_fqdn(domain, z) == IF z \in Within[domain] THEN domain ELSE Under[z][domain]

ASSUME OperationsAssumption ==
  /\ VendorOf \in [Servers -> VendorKind]
  /\ Conf \in [Servers -> Policy]
  /\ \A w \in Workloads :
       /\ w.shared \subseteq Servers /\ w.cli \in Policy
       /\ \A c \in Clients : \A q \in w.asks[c] :
            q.mcp \in BOOLEAN /\ q.ask \in Parameters
  \* The name a call is about, taken with the zone it names, lies in that zone.
  /\ \A w \in Workloads : \A c \in Clients : \A q \in w.asks[c] :
       LET name == resolve_fqdn(q.ask.name, q.ask.zone) IN
       name \in Names /\ ZoneOf[name] = q.ask.zone
  \* A domain given with a zone lies in it or is a label of it.
  /\ \A w \in Workloads : \A c \in Clients : \A q \in w.asks[c] :
       q.ask.query.zone /\ q.ask.query.domain # None =>
         q.ask.zone \in Within[q.ask.query.domain] \/ q.ask.query.domain \in Labels
  /\ Zones \cup Names \subseteq Domains
  /\ ZoneOf \in [Names -> Zones]
  /\ \A n \in Names : ZoneOf[n] \in Within[n]
  \* A zone's own name lies in it.
  /\ \A z \in Zones \cap Names : ZoneOf[z] = z
  /\ ZonePlace \in [Zones -> Nat] /\ IsInjective(ZonePlace)
  /\ Labels \subseteq Domains /\ None \notin Domains
  /\ Parent \in [Domains -> Domains \cup {None}]
  /\ \A d \in Domains : Parent[d] # None => Parent[d] \in Within[d]
  /\ \A z \in Zones, l \in Labels : Under[z][l] \in Domains /\ Parent[Under[z][l]] = z
  /\ ZonePage \in Nat \ {0}
  /\ PageSize \in Nat \ {0} /\ MaxPages \in Nat \ {0} /\ OnePage \in Nat
  /\ FirstId \in 1..MaxId
  /\ InitHeld \in [Servers -> SUBSET Record]
  /\ \A s \in Servers :
       /\ IsFiniteSet(InitHeld[s])
       /\ \A p \in Others[s] : p.name \in Names
       \* A server that has zones holds records in the zones it has.
       /\ Zoned(VendorOf[s]) =>
            \A r \in InitHeld[s] : InitZones[s][ZoneOf[r.name]] # 0
       /\ ById(VendorOf[s]) =>
            \A q, r \in InitHeld[s] : q.id \in 1..(FirstId - 1) /\ (q.id = r.id => q = r)
  /\ InitZones \in [Servers -> [Zones -> 0..MaxId]]
  /\ \A s \in Servers : IsFiniteSet({z \in Zones : InitZones[s][z] # 0})
  /\ MaxId \in Nat /\ MaxOthers \in Nat

\* Records a vendor's server can have been given.
Given(v) ==
  {d \in Data : /\ IsRecordData(d)
                /\ v = "unifi" => U!Storable(d)
                /\ v = "pihole" => P!Storable(d)}

\* What is added and imported is typed, a selector names parameters of its
\* type, and what a server holds at first and others add it was given.
ASSUME DataAssumption ==
  /\ \A w \in Workloads : \A c \in Clients : \A q \in w.asks[c] :
       /\ q.ask.op \in {"add_record", "import_zone_file"} => IsRecordData(q.ask.data)
       /\ q.ask.op = "delete_record" =>
            /\ q.ask.data.type \in Types
            /\ DOMAIN q.ask.data.value \subseteq KeysOf(q.ask.data.type)
  /\ \A s \in Servers :
       /\ \A p \in Others[s] : p.data \in Given(VendorOf[s])
       /\ \A r \in InitHeld[s] :
            \E d \in Given(VendorOf[s]) : r.data = Kept(VendorOf[s], d)

\* What a server makes of a record it is given, and of one from a zone file
\* another server exported, is a form.
ASSUME FormsAssumption ==
  \A s \in Servers :
    LET v == VendorOf[s] IN
    /\ \A d \in Given(v) : Kept(v, d) \in Forms
    /\ ZoneImport \subseteq Declared(v) => \A d \in Forms : Kept(v, d) \in Forms

VARIABLES held,   \* held[s]: the records server s holds
          zid,    \* zid[s][z]: the id of zone z at server s, 0 when absent
          marks,  \* marks[s]: its access lists, cache, options and settings
          load,   \* the workload
          call,   \* call[c]: the call client c makes
          nextId, \* the next id a server gives
          others  \* steps other users have made

vars == <<held, zid, marks, load, call, nextId, others>>

Mark   == {"blocked", "allowed", "cached", "option", "off", "setting"} \X Domains

Outcome == {"none", "ok", "denied", "unsupported", "error"}

\* The records of a set that lie in a zone, and the record without its id.
InZone(S, z) == {r \in S : ZoneOf[r.name] = z}
Plain(r)     == [name |-> r.name, data |-> r.data]

-----------------------------------------------------------------------------
(* The parts of a call *)

IsTransfer(a) == a.op = "transfer_zone"

\* A label without a zone is looked for in every zone of the server, and
\* without a domain every zone is listed.
IsSearch(a)    == a.op = "list_records" /\ ~a.query.zone /\ a.query.domain \in Labels
ListsAll(a)    == a.op = "list_records" /\ a.query.domain = None
AcrossZones(a) == IsSearch(a) \/ ListsAll(a)

\* The methods a call uses, each at its server: a transfer exports and
\* imports, a listing across zones lists the zones and then each of them.
At(op, s)  == [op |-> op, server |-> s]
Methods(a) ==
  IF IsTransfer(a) THEN <<At("export_zone_file", a.server), At("import_zone_file", a.to)>>
  ELSE IF AcrossZones(a) THEN <<At("list_zones", a.server), At("list_records", a.server)>>
  ELSE <<At(a.op, a.server)>>

RequestsOn(a, leg) ==
  LET m == Methods(a)[leg] IN Requests(VendorOf[m.server], [a EXCEPT !.op = m.op])

Op(c)     == Methods(call[c].ask)[call[c].leg].op
Server(c) == Methods(call[c].ask)[call[c].leg].server
Vendor(c) == VendorOf[Server(c)]
Busy(c)   == call[c].st = "busy"
Done(c)   == call[c].st = "done"
Next1(c)  == Head(call[c].todo)
Due(c, r) == Busy(c) /\ Next1(c) = r

\* The name a vendor's client makes of the one it is given: UniFi's takes a
\* name that is not in the zone relative to it, the others send the name.
FullName(v, a) == IF v = "unifi" THEN resolve_fqdn(a.name, a.zone) ELSE a.name

\* A server that has zones finds a name only in its own zone.
Belongs(c) == Zoned(Vendor(c)) => ZoneOf[call[c].ask.name] = call[c].ask.zone

-----------------------------------------------------------------------------
(* What a listing asks the vendor's client for *)

Asked(a) == IF a.query.zone THEN resolve_fqdn(a.query.domain, a.zone) ELSE a.query.domain

\* The arguments of one request: the domain, its zone if it is given, and
\* whether all of the zone is meant.
Args(domain, zones, all) == [domain |-> domain, zones |-> zones, all |-> all]

InferredZone(d) == IF Parent[d] # None THEN Parent[d] ELSE d

\* Of a listing of one domain; of one zone among all; of any other method.
ArgsOf(a) ==
  IF a.op # "list_records" \/ AcrossZones(a) THEN Args(a.name, {a.zone}, FALSE)
  ELSE IF a.query.all
  THEN LET z == IF a.query.zone THEN a.zone ELSE InferredZone(Asked(a)) IN Args(z, {z}, TRUE)
  ELSE Args(Asked(a), IF a.query.zone THEN {a.zone} ELSE {}, FALSE)

ArgsIn(a, z) ==
  IF IsSearch(a) /\ ~a.query.all THEN Args(Under[z][a.query.domain], {z}, FALSE)
  ELSE Args(z, {z}, a.query.all)

\* The zone a request is about.
ZoneName(at) == IF at.zones # {} THEN CHOOSE z \in at.zones : TRUE ELSE at.domain
IdAt(s, at)  == IF ZoneName(at) \in Zones THEN zid[s][ZoneName(at)] ELSE 0

Matches(name, target, all) == IF all THEN target \in Within[name] ELSE name = target

\* What is kept of an answer: of a search the label's names in the zone, of a
\* domain with the names under it those, of anything else all.
Kept1(a, at, r) ==
  CASE IsSearch(a) -> Matches(r.name, Under[ZoneName(at)][a.query.domain], a.query.all)
    [] ListsAll(a) -> TRUE
    [] OTHER       -> a.query.all => Matches(r.name, Asked(a), TRUE)

\* Whether a vendor returns a record for a request.
Returns(v, at, r) == Lists(v, at, r.name, ZoneOf[r.name], Within[r.name])

-----------------------------------------------------------------------------
(* A call *)

NoAsk == [op |-> "list_zones"]
Idle ==
  [st |-> "idle", mcp |-> FALSE, ask |-> NoAsk, leg |-> 1, todo |-> << >>,
   at |-> Args(None, {}, FALSE), left |-> << >>, zid |-> 0, offset |-> 0, pages |-> 0,
   got |-> << >>, target |-> 0, file |-> {}, outcome |-> "none",
   \* what became of the last request, as the server knows it
   heard |-> "fine",
   \* what the properties look back at: the changes the call made, the
   \* records that stood all along, the ones there ever were, the ones that
   \* were edited, how many records and zones were removed by others and how
   \* many zones created, and the zones a search passed over
   effects |-> 0, stood |-> {}, seen |-> {}, edited |-> {}, gone |-> 0, cut |-> 0,
   grown |-> 0, skipped |-> {}]

Become(c, new) == call' = [call EXCEPT ![c] = new]
\* A slip the checks must catch: the requests left are not forgotten.
KeepsTodo(x, how) == [x EXCEPT !.st = "done", !.outcome = how]

Finished(x, how) ==
  [Idle EXCEPT !.st = "done", !.mcp = x.mcp, !.ask = x.ask, !.leg = x.leg,
     !.outcome = how, !.heard = x.heard, !.effects = x.effects]
Ended(c, how) == Finished(call[c], how)

\* A listing ends with what it has collected.
ListingEnds(x) ==
  [Finished(x, "ok") EXCEPT !.got = x.got, !.stood = x.stood, !.seen = x.seen,
     !.gone = x.gone, !.cut = x.cut, !.grown = x.grown, !.skipped = x.skipped]

\* The next zone of a listing across zones.
NextZone(x) ==
  IF x.left = << >> THEN ListingEnds(x)
  ELSE [x EXCEPT !.leg = 2, !.todo = RequestsOn(x.ask, 2), !.zid = 0,
          !.at = ArgsIn(x.ask, Head(x.left)), !.left = Tail(@)]

\* After an export a transfer goes on with the import at the destination, if
\* that vendor has one.
Import(x) ==
  LET to == RequestsOn(x.ask, 2) IN
  IF to = Unsupported THEN Finished(x, "unsupported")
  ELSE [x EXCEPT !.leg = 2, !.todo = to, !.zid = 0]

\* The call after a request was answered: the next request of the method,
\* what follows it, or the end.
Answered(x) ==
  IF Tail(x.todo) # << >> THEN [x EXCEPT !.todo = Tail(@)]
  ELSE IF IsTransfer(x.ask) /\ x.leg = 1 THEN Import(x)
  ELSE IF AcrossZones(x.ask) THEN NextZone(x)
  ELSE IF x.ask.op = "list_records" THEN ListingEnds(x)
  ELSE Finished(x, "ok")

\* The call after a request failed: a search goes on with the next zone,
\* anything else ends.
Failed(x) ==
  IF IsSearch(x.ask) /\ x.leg = 2
  THEN NextZone([x EXCEPT !.skipped = @ \cup x.at.zones])
  ELSE Finished(x, "error")

\* The server refuses a request, in a form the client takes for a refusal
\* or for an answer that has nothing in it.
Refused(c) ==
  \E ans \in Refusals(Vendor(c)) :
    Become(c, IF Reads(Vendor(c), Op(c), Next1(c), ans)
              THEN Answered([call[c] EXCEPT !.heard = "refused"])
              ELSE Failed(call[c]))

\* What a tool checks before it does anything.  A listing names its zone, or
\* else its domain, or nothing.
ServersOf(a) == {Methods(a)[i].server : i \in DOMAIN Methods(a)}
Effective(s) == for_server(Conf[s], load.cli)

Named(a) ==
  IF a.op # "list_records" THEN (IF a.op \in ZoneBound THEN {a.zone} ELSE {})
  ELSE IF a.query.zone THEN {a.zone} ELSE {a.query.domain} \ {None}

PermittedTool(a) ==
  IF IsTransfer(a) THEN PermitsTransfer(Effective(a.server), Effective(a.to), a.zone)
                   ELSE Permits(Effective(a.server), a.op, Named(a))

\* How a call ends that its client refuses before the first request, if any.
Refusal(a) ==
  IF ~IsTransfer(a) /\ Refuses(VendorOf[a.server], a) THEN "error"
  ELSE IF RequestsOn(a, 1) = Unsupported THEN "unsupported"
  ELSE "none"

Begin(c, q, how) ==
  /\ Become(c, [Idle EXCEPT
       !.st = IF how = "none" THEN "busy" ELSE "done",
       !.mcp = q.mcp, !.ask = q.ask, !.outcome = how,
       !.todo = IF how = "none" THEN RequestsOn(q.ask, 1) ELSE << >>,
       !.at = ArgsOf(q.ask), !.stood = held[q.ask.server], !.seen = held[q.ask.server]])
  /\ UNCHANGED <<held, zid, marks, load, nextId, others>>

\* A tool of the MCP server resolves the servers it is asked for with the
\* options, and then checks its permissions.
StartTool(c) ==
  /\ call[c].st = "idle"
  /\ \E q \in load.asks[c] :
       /\ q.mcp
       /\ Begin(c, q,
            IF \E s \in ServersOf(q.ask) : ~Resolvable(Conf[s], load.cli) THEN "error"
            ELSE IF ~PermittedTool(q.ask) THEN "denied"
            ELSE Refusal(q.ask))

\* The command line goes to the client as it is.
StartCommand(c) ==
  /\ call[c].st = "idle"
  /\ \E q \in load.asks[c] :
       /\ ~q.mcp
       /\ Begin(c, q, Refusal(q.ask))

-----------------------------------------------------------------------------
(* Lookups *)

\* Cloudflare: the id of the zone.
LookUpZone(c) ==
  /\ Due(c, "zone")
  /\ LET z == IdAt(Server(c), call[c].at) IN
     Become(c, IF z = 0 THEN Failed(call[c])
               ELSE Answered([call[c] EXCEPT !.zid = z]))
  /\ UNCHANGED <<held, zid, marks, load, nextId, others>>

\* UniFi: the id of the site, before anything else a client asks for.
LookUpSite(c) ==
  /\ Due(c, "site")
  /\ Become(c, Answered(call[c]))
  /\ UNCHANGED <<held, zid, marks, load, nextId, others>>

\* Technitium: the newest log file.
LookUpLogFile(c) ==
  /\ Due(c, "find") /\ Op(c) \in LogsRead
  /\ Become(c, Answered(call[c]))
  /\ UNCHANGED <<held, zid, marks, load, nextId, others>>

\* The zones of a server.
ZonesAt(s) == {z \in Zones : zid[s][z] # 0}

\* Pangolin: the zone must be one of the organisation's; without a zone all
\* of them are fetched, one request for each.
LookUpDomain(c) ==
  /\ Due(c, "domains")
  /\ Become(c,
       IF call[c].at.zones = {}
       THEN LET zs == SetToSeq(ZonesAt(Server(c))) IN
            IF zs = << >> THEN ListingEnds(call[c])
            ELSE [call[c] EXCEPT !.todo = [i \in DOMAIN zs |-> "act"], !.left = zs]
       ELSE IF IdAt(Server(c), call[c].at) = 0 THEN Failed(call[c])
       ELSE Answered(call[c]))
  /\ UNCHANGED <<held, zid, marks, load, nextId, others>>

\* Cloudflare: the records of the name and the type in the zone looked up;
\* the first that has the expected content is the one to delete.
FindRecord(c) ==
  /\ Due(c, "find") /\ Op(c) = "delete_record"
  /\ LET a == call[c].ask
         matched == {r \in held[Server(c)] :
                       /\ r.name = FullName(Vendor(c), a) /\ ZoneOf[r.name] = a.zone
                       /\ Picks("cloudflare", r.data, a.data)}
     IN IF zid[Server(c)][a.zone] # call[c].zid \/ matched = {}
        THEN Become(c, Ended(c, "error"))
        ELSE \E r \in matched :
               Become(c, Answered([call[c] EXCEPT !.target = r.id]))
  /\ UNCHANGED <<held, zid, marks, load, nextId, others>>

-----------------------------------------------------------------------------
(* Listings of several requests *)

\* The place of a zone in the order a server lists them, and the page of the
\* list that begins after the first few.
ZoneRank(S, z)      == Cardinality({y \in S : ZonePlace[y] < ZonePlace[z]})
ZonesOn(S, offset)  == {z \in S : ZoneRank(S, z) \in offset..(offset + ZonePage - 1)}
PageOfZones(S, offset) ==
  [i \in 1..Cardinality(ZonesOn(S, offset)) |->
     CHOOSE z \in S : ZoneRank(S, z) = offset + i - 1]

\* A page of the server's zones; there are more when it is full.
FetchZones(c) ==
  /\ Due(c, "act") /\ Op(c) = "list_zones" /\ AcrossZones(call[c].ask)
  /\ LET page == PageOfZones(ZonesAt(Server(c)), call[c].offset)
         x    == [call[c] EXCEPT !.left = @ \o page, !.offset = @ + ZonePage]
     IN Become(c, IF Len(page) = ZonePage THEN x ELSE NextZone(x))
  /\ UNCHANGED <<held, zid, marks, load, nextId, others>>

\* The place of a record in the order a server lists them, and the page of a
\* UniFi listing that begins after the first few.
Rank(S, r) == Cardinality({q \in S : q.id < r.id})
PagesOf(S, offset) ==
  LET n == Cardinality({r \in S : Rank(S, r) \in offset..(offset + PageSize - 1)})
  IN {page \in [1..n -> S] : \A i \in 1..n : Rank(S, page[i]) = offset + i - 1}

\* The first policy of a listing that the selector of a delete names.
FirstMatch(listing, a) ==
  LET name == FullName(VendorOf[a.server], a) IN
  {listing[i].id : i \in {j \in DOMAIN listing :
     /\ listing[j].name = name
     /\ U!policy_matches_delete_params(listing[j].data, a.data)
     /\ \A k \in 1..(j - 1) : ~ /\ listing[k].name = name
                                /\ U!policy_matches_delete_params(listing[k].data, a.data)}}

\* What a listing keeps of the records a request returned, and of the pages.
Retains(x, r) == Returns(VendorOf[x.ask.server], x.at, r) /\ Kept1(x.ask, x.at, r)
KeptOf(x, S)  == {r \in S : Retains(x, r)}

KeptPages(x, got) ==
  LET place == SetToSeq({i \in DOMAIN got : Retains(x, got[i])})
  IN  [j \in DOMAIN place |-> got[place[j]]]

\* The policies collected are a listing's result, or the ground a delete
\* searches.
PagesEnd(c, x) ==
  IF Op(c) = "list_records"
  THEN Answered([x EXCEPT !.got = KeptPages(x, x.got)])
  ELSE IF FirstMatch(x.got, x.ask) = {} THEN Ended(c, "error")
  ELSE Answered([x EXCEPT !.target = CHOOSE i \in FirstMatch(x.got, x.ask) : TRUE,
                            !.got = << >>])

\* One page; the server may or may not say how many policies there are.
FetchPage(c) ==
  /\ Due(c, "page")
  /\ LET S == held[Server(c)] IN
     \E page \in PagesOf(S, call[c].offset), totals \in {{}, {Cardinality(S)}} :
     \E x \in {[call[c] EXCEPT !.got = @ \o page, !.pages = @ + 1,
                               !.offset = U!NextOffset(@, Len(page))]} :
       Become(c, IF U!LastPage(Len(page), Len(x.got), totals, PageSize) THEN PagesEnd(c, x)
                 ELSE IF x.pages = MaxPages THEN Ended(c, "error")
                 ELSE x)
  /\ UNCHANGED <<held, zid, marks, load, nextId, others>>

\* Pi-hole keeps addresses and aliases in two lists and asks for one after
\* the other.
Entries(c, hosts) ==
  SetToSeq(KeptOf(call[c], {r \in held[Server(c)] : hosts <=> r.data.type \in P!HostTypes}))

FetchHosts(c) ==
  /\ Due(c, "hosts") /\ Op(c) = "list_records"
  /\ Become(c, Answered([call[c] EXCEPT !.got = @ \o Entries(c, TRUE)]))
  /\ UNCHANGED <<held, zid, marks, load, nextId, others>>

FetchAliases(c) ==
  /\ Due(c, "cnames") /\ Op(c) = "list_records"
  /\ Become(c, Answered([call[c] EXCEPT !.got = @ \o Entries(c, FALSE)]))
  /\ UNCHANGED <<held, zid, marks, load, nextId, others>>

-----------------------------------------------------------------------------
(* The request that does the work *)

\* The zone is there: by its name at Technitium, or as the zone of the name
\* when none is given, and at Pangolin, by the id looked up at Cloudflare;
\* UniFi and Pi-hole have none.
ZoneStands(c) ==
  LET at == call[c].at
      id == IdAt(Server(c), at) IN
  CASE Vendor(c) = "cloudflare" -> id = call[c].zid /\ id # 0
    [] Vendor(c) = "technitium" ->
         IF at.zones # {} THEN id # 0
         ELSE \E z \in Zones \cap Within[at.domain] : zid[Server(c)][z] # 0
    [] Vendor(c) = "pangolin" ->
         IF at.zones # {} THEN id # 0 ELSE zid[Server(c)][Head(call[c].left)] # 0
    [] Vendor(c) \in {"unifi", "pihole"} -> TRUE

\* What every call under way sees of a change of the servers' records and of
\* the zones removed or created with it.
Ids(S) == {r.id : r \in S}
Watched(h, zones) ==
  [c \in Clients |->
     LET s == call[c].ask.server IN
     IF ~Busy(c) THEN call[c]
     ELSE [call[c] EXCEPT !.stood = @ \cap h[s], !.seen = @ \cup h[s],
             !.edited = @ \cup Ids(held[s] \ h[s]),
             !.gone = @ + Cardinality(Ids(held[s]) \ Ids(h[s])),
             !.cut = @ + Cardinality({t \in zones : t[1] = s /\ t[3] = "removed"}),
             !.grown = @ + Cardinality({t \in zones : t[1] = s /\ t[3] = "created"})]]

\* The server applied the change; its answer may be lost, or be one that the
\* client cannot decode, which ends the call alike.
Applied(c, h, zones) ==
  /\ held' = h
  /\ \E lost \in BOOLEAN, ans \in Grants(Vendor(c), Op(c)) :
       LET x == [call[c] EXCEPT !.effects = @ + 1,
                                !.heard = IF lost THEN "lost" ELSE "fine"]
       IN call' = [Watched(h, zones) EXCEPT ![c] =
            IF ~lost /\ Reads(Vendor(c), Op(c), Next1(c), ans)
            THEN Answered(x) ELSE Finished(x, "error")]

Rejected(c) == Refused(c) /\ UNCHANGED held

CreateZone(c) ==
  /\ Due(c, "act") /\ Op(c) = "create_zone"
  /\ LET s == Server(c)
         z == call[c].ask.zone IN
     IF zid[s][z] # 0
     THEN Rejected(c) /\ UNCHANGED <<zid, nextId>>
     ELSE /\ nextId < MaxId
          /\ zid' = [zid EXCEPT ![s][z] = nextId]
          /\ nextId' = nextId + 1
          /\ Applied(c, held, {<<s, z, "created">>})
  /\ UNCHANGED <<marks, load, others>>

DeleteZone(c) ==
  /\ Due(c, "act") /\ Op(c) = "delete_zone"
  /\ LET s == Server(c)
         z == call[c].ask.zone IN
     IF ~ZoneStands(c)
     THEN Rejected(c) /\ UNCHANGED zid
     ELSE /\ zid' = [zid EXCEPT ![s][z] = 0]
          /\ Applied(c, [held EXCEPT ![s] = @ \ InZone(@, z)], {<<s, z, "removed">>})
  /\ UNCHANGED <<marks, load, nextId, others>>

\* A record as server s stores it; where records have ids it gets one.
Stored(s, p, id) ==
  [id |-> IF ById(VendorOf[s]) THEN id ELSE 0, name |-> p.name,
   data |-> Kept(VendorOf[s], p.data)]

\* The record a call is about.
Sent(c) == [name |-> FullName(Vendor(c), call[c].ask), data |-> call[c].ask.data]

AddRecord(c) ==
  /\ Due(c, "act") /\ Op(c) = "add_record"
  /\ LET s == Server(c) IN
     IF ~ZoneStands(c) \/ ~Belongs(c)
     THEN Rejected(c) /\ UNCHANGED nextId
     ELSE /\ nextId < MaxId
          /\ nextId' = nextId + 1
          /\ Applied(c, [held EXCEPT ![s] = @ \cup {Stored(s, Sent(c), nextId)}], {})
  /\ UNCHANGED <<zid, marks, load, others>>

\* By the id found, or by what the selector names.
Doomed(c) ==
  {r \in held[Server(c)] :
     IF ById(Vendor(c)) THEN r.id = call[c].target
     ELSE r.name = FullName(Vendor(c), call[c].ask) /\ Picks(Vendor(c), r.data, call[c].ask.data)}

DeleteRecord(c) ==
  /\ Due(c, "act") /\ Op(c) = "delete_record"
  /\ IF Doomed(c) = {} \/ ~ZoneStands(c) \/ ~Belongs(c)
     THEN Rejected(c)
     ELSE Applied(c, [held EXCEPT ![Server(c)] = @ \ Doomed(c)], {})
  /\ UNCHANGED <<zid, marks, load, nextId, others>>

\* Caches, access lists, settings, zone options and the state of a zone:
\* what a server remembers beside its records, after the operation.
MarksAfter(c, M) ==
  LET a == call[c].ask IN
  CASE Op(c) = "flush_cache"       -> {m \in M : m[1] # "cached"}
    [] Op(c) = "delete_cache_zone" -> M \ {<<"cached", a.name>>}
    [] Op(c) = "add_blocked"       -> M \cup {<<"blocked", a.name>>}
    [] Op(c) = "delete_blocked"    -> M \ {<<"blocked", a.name>>}
    [] Op(c) = "add_allowed"       -> M \cup {<<"allowed", a.name>>}
    [] Op(c) = "delete_allowed"    -> M \ {<<"allowed", a.name>>}
    [] Op(c) = "set_settings"      -> M \cup {<<"setting", a.zone>>}
    [] Op(c) = "set_zone_options"  -> M \cup {<<"option", a.zone>>}
    [] Op(c) = "enable_zone"       -> M \ {<<"off", a.zone>>}
    [] Op(c) = "disable_zone"      -> M \cup {<<"off", a.zone>>}

Marking == CacheWrite \cup AccessListWrite \cup SettingsWrite
             \cup ZoneOptionsWrite \cup {"enable_zone", "disable_zone"}

ChangeMarks(c) ==
  /\ Due(c, "act") /\ Op(c) \in Marking
  /\ IF Op(c) \in ZoneBound /\ ~ZoneStands(c)
     THEN Rejected(c) /\ UNCHANGED marks
     ELSE /\ marks' = [marks EXCEPT ![Server(c)] = MarksAfter(c, @)]
          /\ Applied(c, held, {})
  /\ UNCHANGED <<zid, load, nextId, others>>

EachZone(c) == Vendor(c) = "pangolin" /\ call[c].at.zones = {}

\* The answer to a listing, Cloudflare's only as many records as it returns
\* at once; Pangolin's, without a zone, the records of the next one.
Listed(c) ==
  LET S == {r \in held[Server(c)] : Returns(Vendor(c), call[c].at, r)} IN
  IF Vendor(c) = "cloudflare" THEN {r \in S : Rank(S, r) < OnePage}
  ELSE IF EachZone(c) THEN InZone(S, Head(call[c].left))
  ELSE S

ReadRecords(c) ==
  /\ Due(c, "act") /\ Op(c) = "list_records"
  /\ IF ~ZoneStands(c) THEN Refused(c)
     ELSE \E page \in {SetToSeq(KeptOf(call[c], Listed(c)))} :
            Become(c, Answered([call[c] EXCEPT
              !.got = @ \o page, !.left = IF EachZone(c) THEN Tail(@) ELSE @]))
  /\ UNCHANGED <<held, zid, marks, load, nextId, others>>

\* Any other reading.
Read(c) ==
  /\ Due(c, "act") /\ Op(c) \in DnsRead \ (ZoneExport \cup {"list_records"})
  /\ ~AcrossZones(call[c].ask)
  /\ IF Op(c) \in ZoneBound /\ ~ZoneStands(c) THEN Refused(c)
     ELSE Become(c, Answered(call[c]))
  /\ UNCHANGED <<held, zid, marks, load, nextId, others>>

-----------------------------------------------------------------------------
(* Zone files *)

\* The file is what the source held when it was exported.
ExportZone(c) ==
  /\ Due(c, "act") /\ Op(c) \in ZoneExport
  /\ IF ~ZoneStands(c) THEN Refused(c)
     ELSE Become(c, Answered([call[c] EXCEPT !.file =
            {Plain(r) : r \in InZone(held[Server(c)], call[c].ask.zone)}]))
  /\ UNCHANGED <<held, zid, marks, load, nextId, others>>

\* A server takes only names of the zone from a file.
FileOf(c) == IF IsTransfer(call[c].ask) THEN call[c].file
             ELSE {p \in {Plain(call[c].ask)} : ZoneOf[p.name] = call[c].ask.zone}

\* A slip the checks must catch: the overwrite flags are not passed on.
SparesAll(v, S, file, flag) == {S}

\* What an import may leave of the zone's records: Technitium replaces the
\* zone or the record sets in the file when it is told to; Cloudflare, told
\* whatever, may update a record of a name and a type in the file, which is
\* taken as its removal and the addition of the one in the file.
Spared(v, S, file, flag) ==
  LET named == {r \in S : \E p \in file : p.name = r.name /\ p.data.type = r.data.type} IN
  CASE v = "technitium" /\ flag = "zone"   -> {{}}
    [] v = "technitium" /\ flag = "rrsets" -> {S \ named}
    [] v = "cloudflare"                    -> {S \ gone : gone \in SUBSET named}
    [] OTHER                               -> {S}

\* The records of a file under ids of their own, from id on.
Numbered(s, file, id) ==
  LET place == CHOOSE f \in [file -> id..(id + Cardinality(file) - 1)] :
                 IsInjective(f)
  IN {Stored(s, p, place[p]) : p \in file}

\* A text that is no zone file is refused.
ImportZone(c) ==
  /\ Due(c, "act") /\ Op(c) \in ZoneImport
  /\ LET s     == Server(c)
         a     == call[c].ask
         there == InZone(held[s], a.zone)
     IN IF ~ZoneStands(c) \/ call[c].heard = "refused"
        THEN Rejected(c) /\ UNCHANGED nextId
        ELSE \E spared \in Spared(Vendor(c), there, FileOf(c), a.flag) :
             LET new == {p \in FileOf(c) : \A r \in spared : Plain(r) # Plain(Stored(s, p, 0))} IN
             /\ nextId + Cardinality(new) <= MaxId
             /\ nextId' = nextId + Cardinality(new)
             /\ Applied(c, [held EXCEPT ![s] = (@ \ there) \cup spared
                                                 \cup Numbered(s, new, nextId)], {})
  /\ UNCHANGED <<zid, marks, load, others>>

-----------------------------------------------------------------------------
(* Failures and other users *)

\* A slip the checks must catch: a failed request starts the call over.
StartsOver(c) ==
  /\ Busy(c)
  /\ Become(c, [call[c] EXCEPT !.leg = 1, !.todo = RequestsOn(call[c].ask, 1),
                 !.at = ArgsOf(call[c].ask), !.left = << >>,
                 !.zid = 0, !.offset = 0, !.pages = 0, !.got = << >>])
  /\ UNCHANGED <<held, zid, marks, load, nextId, others>>

\* A request that gets no answer in time.
Fail(c) ==
  /\ Busy(c)
  /\ Become(c, Failed(call[c]))
  /\ UNCHANGED <<held, zid, marks, load, nextId, others>>

\* The server may refuse any request for reasons of its own.
Refuse(c) ==
  /\ Busy(c)
  /\ Refused(c)
  /\ UNCHANGED <<held, zid, marks, load, nextId, others>>

OthersChange(s, S) ==
  /\ others < MaxOthers
  /\ others' = others + 1
  /\ held' = [held EXCEPT ![s] = S]
  /\ call' = Watched(held', {})
  /\ UNCHANGED <<marks, load>>

OtherAdds(s) ==
  /\ \E p \in Others[s] :
       /\ nextId < MaxId
       /\ Zoned(VendorOf[s]) => zid[s][ZoneOf[p.name]] # 0
       /\ OthersChange(s, held[s] \cup {Stored(s, p, nextId)})
  /\ nextId' = nextId + 1
  /\ UNCHANGED zid

OtherRemoves(s) ==
  /\ \E r \in held[s] : OthersChange(s, held[s] \ {r})
  /\ UNCHANGED <<zid, nextId>>

\* A record is edited in place and keeps its id.
OtherEdits(s) ==
  /\ ById(VendorOf[s])
  /\ \E r \in held[s], p \in Others[s] :
       /\ p.name = r.name
       /\ OthersChange(s, (held[s] \ {r}) \cup {Stored(s, p, r.id)})
  /\ UNCHANGED <<zid, nextId>>

\* A zone is deleted and created again: it is empty and has another id.
OtherRecreates(s) ==
  /\ Zoned(VendorOf[s])
  /\ \E z \in Zones :
       /\ zid[s][z] # 0 /\ nextId < MaxId
       /\ zid' = [zid EXCEPT ![s][z] = nextId]
       /\ OthersChange(s, held[s] \ InZone(held[s], z))
  /\ nextId' = nextId + 1

-----------------------------------------------------------------------------
(* The specification *)

Init ==
  /\ held = InitHeld
  /\ zid = InitZones
  /\ marks = [s \in Servers |-> {}]
  /\ load \in Workloads
  /\ call = [c \in Clients |-> Idle]
  /\ nextId = FirstId
  /\ others = 0

\* The answers a call under way can get.
Lookup(c) == LookUpZone(c) \/ LookUpSite(c) \/ LookUpLogFile(c)
               \/ LookUpDomain(c) \/ FindRecord(c)
Fetch(c)  == FetchZones(c) \/ FetchPage(c) \/ FetchHosts(c) \/ FetchAliases(c)
Work(c)   == CreateZone(c) \/ DeleteZone(c) \/ AddRecord(c) \/ DeleteRecord(c)
               \/ ChangeMarks(c) \/ ReadRecords(c) \/ Read(c) \/ ExportZone(c) \/ ImportZone(c)
Advance(c) == Lookup(c) \/ Fetch(c) \/ Work(c)

OtherUsers(s) == OtherAdds(s) \/ OtherRemoves(s) \/ OtherEdits(s) \/ OtherRecreates(s)

Next == \/ \E c \in Clients : StartTool(c) \/ StartCommand(c) \/ Advance(c) \/ Refuse(c) \/ Fail(c)
        \/ \E s \in load.shared : OtherUsers(s)

Spec == Init /\ [][Next]_vars

\* A request is answered unless it fails: the clients have a timeout.
FairSpec == Spec /\ \A c \in Clients : WF_vars(Advance(c))

-----------------------------------------------------------------------------
(* Properties *)

\* Types of the variables.
TypeOK ==
  /\ \A s \in Servers : held[s] \subseteq Record /\ marks[s] \subseteq Mark
  /\ zid \in [Servers -> [Zones -> 0..MaxId]]
  /\ load \in Workloads
  /\ nextId \in FirstId..MaxId /\ others \in 0..MaxOthers
  /\ \A c \in Clients :
       /\ call[c].st \in {"idle", "busy", "done"}
       /\ call[c].outcome \in Outcome
       /\ call[c].st # "idle" => call[c].ask \in Parameters
       /\ call[c].todo \in Seq(Request) /\ call[c].left \in Seq(Zones)
       /\ Busy(c) <=> call[c].todo # << >>
       /\ Range(call[c].got) \subseteq Record
       /\ call[c].effects \in 0..1
       /\ call[c].heard \in {"fine", "lost", "refused"}

Writes(a) == a.op \in DnsWrite \/ IsTransfer(a)

\* What Technitium answers with a file.
Files(c) == Vendor(c) = "technitium" /\ Op(c) \in ZoneExport \cup LogsRead

\* An outcome tells the truth: a call that reports success on something that
\* changes a server made its change, one that only reads made none, and what
\* was denied or is unsupported was never sent.  An error leaves open whether
\* the change was made only where an answer was lost, and nothing refused is
\* reported as a success, the files of Technitium aside.  What succeeded is
\* something the vendor's client declares, statistics aside, and what only
\* reads is unsupported nowhere but where it is not declared.
OutcomeIsTrue ==
  \A c \in Clients : Done(c) =>
    LET x == call[c] IN
    /\ x.outcome = "ok" => x.effects = (IF Writes(x.ask) THEN 1 ELSE 0)
    /\ x.outcome = "ok" /\ x.heard = "refused" => Files(c)
    /\ x.outcome = "error" /\ x.effects = 1 => Writes(x.ask) /\ x.heard = "lost"
    /\ x.outcome \in {"denied", "unsupported"} => x.effects = 0
    /\ x.outcome = "ok" => Op(c) \in Declared(Vendor(c)) \cup StatsRead
    /\ x.outcome = "unsupported" =>
         \/ x.ask.op \in DnsWrite
         \/ \E i \in DOMAIN Methods(x.ask) :
              LET m == Methods(x.ask)[i] IN m.op \notin Declared(VendorOf[m.server])

\* Whether a record is one a listing asks for: a search for a label under the
\* record's own zone, and of a server that has zones in the zone that is named
\* or meant, not in a zone below it.
Asks(a, r) ==
  CASE ListsAll(a) -> TRUE
    [] IsSearch(a) -> Matches(r.name, Under[ZoneOf[r.name]][a.query.domain], a.query.all)
    [] OTHER       -> Matches(r.name, Asked(a), a.query.all)

Wanted(v, a, r) ==
  /\ Asks(a, r)
  /\ Zoned(v) /\ ~AcrossZones(a) /\ ArgsOf(a).zones # {} => ZoneOf[r.name] \in ArgsOf(a).zones

\* Without a domain, and unless the names under a domain are asked for, two
\* vendors return of each zone only the records of the zone's own name.
ApexOnly(v, a) == ListsAll(a) /\ ~a.query.all /\ v \in {"technitium", "pangolin"}

\* A listing reports no record that was not there during the call and, asked
\* for the names under a domain, no other.  It reports none twice, except
\* across zones those of one zone for each zone created between two pages.
\* It reports every record it was asked for that stood all the time, except
\* that it may miss at UniFi one for each record removed between two pages,
\* at Cloudflare what is not on the first page, and across zones those of a
\* zone a search passed over and of one zone for each zone removed between
\* two pages.
ListingIsComplete ==
  \A c \in Clients :
    Done(c) /\ call[c].outcome = "ok" /\ call[c].ask.op = "list_records" =>
      LET x      == call[c]
          got    == Range(x.got)
          twice  == {r \in got : \E i, j \in DOMAIN x.got : i < j /\ x.got[i] = r /\ x.got[j] = r}
          missed == {r \in x.stood \ got :
                       /\ Wanted(Vendor(c), x.ask, r) /\ ZoneOf[r.name] \notin x.skipped
                       /\ ApexOnly(Vendor(c), x.ask) => r.name \in Zones}
          ZonesOf(S) == {ZoneOf[r.name] : r \in S} IN
      /\ Cardinality(ZonesOf(twice)) <= (IF AcrossZones(x.ask) THEN x.grown ELSE 0)
      /\ got \subseteq x.seen
      /\ x.ask.query.all => \A r \in got : Asks(x.ask, r)
      /\ CASE Vendor(c) = "unifi" -> Cardinality(missed) <= x.gone
           [] Vendor(c) = "cloudflare" ->
                Cardinality({z \in ZonesOf(missed) : Cardinality(InZone(x.seen, z)) <= OnePage})
                  <= x.cut
           [] OTHER -> Cardinality(ZonesOf(missed)) <= x.cut

\* What the README says of a listing without a domain, and query/mod.rs of
\* the function behind it: it lists all records of every zone.
AllMeansAll ==
  \A c \in Clients :
    /\ Done(c) /\ call[c].outcome = "ok" /\ ListsAll(call[c].ask)
    /\ Vendor(c) # "cloudflare" /\ call[c].cut = 0
    => call[c].stood \subseteq Range(call[c].got)

\* Parameters some vendor has no place for: how a text is split, the glue of
\* a name server, and the automatic hints of a service binding.
Lossy == {"splitText", "glue", "autoIpv4Hint", "autoIpv6Hint"}

\* Whether the vendor has a form of its own for the type.
Keeps(v, d) ==
  CASE v = "technitium" -> d.type \in Types
    [] v = "cloudflare" -> d.type \in DOMAIN C!FieldOf
    [] v = "unifi"      -> U!Storable(d)
    [] v = "pihole"     -> P!Storable(d)
    [] v = "pangolin"   -> FALSE

Acts(c) == call'[c].effects > call[c].effects

\* A record that was added is held in a form that reads back, from the next
\* listing, as a typed record with the parameters it was added with, the
\* lossy ones aside: the vendor's body and the mapping of its listings are
\* inverse to each other, the tables of enumerated parameters included.
ReadsBack ==
  [][\A c \in Clients :
       LET a == call[c].ask IN
       Acts(c) /\ a.op = "add_record" /\ Keeps(Vendor(c), a.data) =>
         \E r \in held'[a.server] :
           /\ r.name = FullName(Vendor(c), a) /\ Typed(r.data)
           /\ r.data.type = a.data.type
           /\ \A k \in DOMAIN a.data.value \ Lossy :
                parse_record_data(r.data).value[k] = a.data.value[k]]_vars

\* The types whose content the deletes at Cloudflare compare with the one
\* asked for.
Compared == {"A", "AAAA", "CNAME", "TXT", "DNAME"}

\* What a delete may take: a record of the name and the type whose value is
\* the one asked for, or, of the types Cloudflare does not compare, any; or
\* one that was edited while the call held its id.
Askable(c, r) ==
  LET sel == call[c].ask.data IN
  /\ r.name = FullName(Vendor(c), call[c].ask)
  /\ \/ r.id # 0 /\ r.id \in call[c].edited
     \/ /\ r.data.type = sel.type
        /\ \/ Vendor(c) = "cloudflare" /\ sel.type \notin Compared
           \/ \A k \in DOMAIN sel.value \ Lossy :
                k \in DOMAIN r.data.value /\ r.data.value[k] = sel.value[k]

\* What the comment in Cloudflare's delete_record says: a delete that names a
\* value removes only a record with that value, so that of several values of
\* a name not just any is deleted.  The types whose value lies in a
\* structured field are excepted there; NS and PTR are not.
Contentful == Compared \cup {"NS", "PTR"}

NamedValueOnly ==
  [][\A c \in Clients :
       LET sel == call[c].ask.data IN
       /\ Acts(c) /\ call[c].ask.op = "delete_record" /\ Vendor(c) = "cloudflare"
       /\ sel.type \in Contentful
       => \A r \in held[Server(c)] \ held'[Server(c)] :
            \/ r.id \in call[c].edited
            \/ \A k \in DOMAIN sel.value \ Lossy : r.data.value[k] = sel.value[k]]_vars

\* A delete removes only what was asked for, at the server asked for, and
\* where records have ids and the value is given exactly one of them,
\* although the record is found in one request and deleted in a later one.
DeleteTakesAsked ==
  [][\A c \in Clients : Acts(c) /\ call[c].ask.op = "delete_record" =>
       LET s   == Server(c)
           sel == call[c].ask.data IN
       /\ \A r \in held[s] \ held'[s] : Askable(c, r)
       /\ held'[s] \subseteq held[s]
       /\ ById(VendorOf[s]) /\ Required[sel.type] \subseteq DOMAIN sel.value =>
            Cardinality(held[s] \ held'[s]) = 1
       /\ \A t \in Servers \ {s} : held'[t] = held[t]]_vars

\* The zones whose records or being a step changes at a server.
Touched(s) ==
  {ZoneOf[r.name] : r \in (held[s] \ held'[s]) \cup (held'[s] \ held[s])}
    \cup {z \in Zones : zid'[s][z] # zid[s][z]}

InPermittedZones(s) ==
  \A z \in Touched(s) : check_zone(Conf[s], z) /\ check_zone(load.cli, z)

\* What a step may do for client c if the call came through MCP: a change
\* that the server's configuration grants and the options do not exclude, to
\* records and zones in the zones of both, and at no other server.  Pi-hole's
\* client drops the zone the tool checked, and with it the bound to zones.
Permitted(c) ==
  LET s == Server(c) IN
  /\ check(Conf[s], RuleOf(Op(c)))
  /\ load.cli.allowed # {} => check(load.cli, RuleOf(Op(c)))
  /\ Vendor(c) # "pihole" => InPermittedZones(s)
  /\ \A t \in Servers \ {s} : held'[t] = held[t] /\ zid'[t] = zid[t]

\* Whatever the MCP server's options, a change made through it is one that
\* the changed server's configuration grants and the options do not exclude;
\* every record and zone it changes lies in the configured zones, Pi-hole
\* aside, and no other server changes.
OnlyPermitted == [][\A c \in Clients : Acts(c) /\ call[c].mcp => Permitted(c)]_vars

\* A transfer leaves the destination with every record the source held when
\* it was exported, in the destination's own form.  It takes away only
\* records of a name and a type it brings, at Technitium only when told to
\* overwrite; when it replaces the zone there nothing else is left.  While
\* nobody else changed the source, the copy is of the zone as it still stands.
TransferCopies ==
  [][\A c \in Clients : Acts(c) /\ IsTransfer(call[c].ask) =>
       LET a      == call[c].ask
           v      == VendorOf[a.to]
           before == InZone(held[a.to], a.zone)
           after  == InZone(held'[a.to], a.zone)
           copy   == {Plain(Stored(a.to, p, 0)) : p \in call[c].file} IN
       /\ copy \subseteq {Plain(r) : r \in after}
       /\ v = "technitium" /\ a.flag = "add" => before \subseteq after
       /\ IF v = "technitium" /\ a.flag = "zone" THEN {Plain(r) : r \in after} = copy
          ELSE \A r \in before \ after :
                 \E p \in call[c].file : p.name = r.name /\ p.data.type = r.data.type
       /\ call[c].seen = call[c].stood =>
            call[c].file = {Plain(r) : r \in InZone(held[a.server], a.zone)}]_vars

\* Every call ends: lookups, pages and the two legs of a transfer come to an
\* end, whatever others do to the server meanwhile.
EveryCallEnds == \A c \in Clients : Busy(c) ~> Done(c)
=============================================================================
