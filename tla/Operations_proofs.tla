------------------------- MODULE Operations_proofs -------------------------
(***************************************************************************)
(* Proofs about Operations and the access policies it rests on, for any    *)
(* clients, servers, vendors, zones and workloads: the options of the MCP  *)
(* server only ever narrow what a configuration permits, and what is       *)
(* changed through MCP is permitted.                                       *)
(***************************************************************************)
EXTENDS Operations, TLAPS, FiniteSetTheorems

-----------------------------------------------------------------------------
(* Access policies *)

\* A zone inside a permitted zone is permitted.
LEMMA InsideIsPermitted ==
  ASSUME NEW p \in Policy, NEW z \in Domains, NEW d \in Domains,
         z \in Within[d], check_zone(p, z)
  PROVE  check_zone(p, d)
<1>1. Within[z] \subseteq Within[d]
  BY DomainAssumption
<1> QED
  BY <1>1 DEF check_zone, Policy

\* The rules of an effective policy are granted by the configuration, and by
\* the options if there are any.
LEMMA RulesNarrow ==
  ASSUME NEW conf \in Policy, NEW cli \in Policy, NEW rule,
         check(for_server(conf, cli), rule)
  PROVE  /\ check(conf, rule)
         /\ cli.allowed # {} => check(cli, rule)
BY DEF check, for_server, Allowed, Policy

\* So do its zones, where the options resolve.
LEMMA ZonesNarrow ==
  ASSUME NEW conf \in Policy, NEW cli \in Policy, NEW d \in Domains,
         Resolvable(conf, cli), check_zone(for_server(conf, cli), d)
  PROVE  check_zone(conf, d) /\ check_zone(cli, d)
<1>1. CASE cli.allowed_zones = {}
  BY <1>1 DEF check_zone, for_server, AllowedZones
<1>2. CASE cli.allowed_zones # {}
  <2>1. PICK z \in cli.allowed_zones : z \in Within[d]
    BY <1>2 DEF check_zone, for_server, AllowedZones
  <2>2. z \in Domains /\ check_zone(conf, z)
    BY DEF Resolvable, Policy
  <2> QED
    BY <2>1, <2>2, InsideIsPermitted DEF check_zone
<1> QED
  BY <1>1, <1>2

\* A tool that the effective policy of a server permits is one that the
\* server's configuration permits, and the options where they say anything:
\* policy/mod.rs combines them and mcp/tools check the result.
THEOREM OptionsOnlyNarrow ==
  ASSUME NEW conf \in Policy, NEW cli \in Policy, Resolvable(conf, cli),
         NEW op, NEW named \in SUBSET Domains,
         Permits(for_server(conf, cli), op, named)
  PROVE  /\ Permits(conf, op, named)
         /\ cli.allowed # {} => Permits(cli, op, named)
<1>1. /\ check(conf, RuleOf(op))
      /\ cli.allowed # {} => check(cli, RuleOf(op))
  BY RulesNarrow DEF Permits
<1>2. ASSUME NEW d \in named
      PROVE  check_zone(conf, d) /\ check_zone(cli, d)
  BY ZonesNarrow DEF Permits
<1> QED
  BY <1>1, <1>2 DEF Permits

\* A transfer is permitted by the configurations of both servers: the one it
\* reads and the one it writes (mcp/server/zones.rs).
THEOREM TransferIsGranted ==
  ASSUME NEW from \in Policy, NEW to \in Policy, NEW cli \in Policy,
         Resolvable(from, cli), Resolvable(to, cli), NEW zone \in Domains,
         PermitsTransfer(for_server(from, cli), for_server(to, cli), zone)
  PROVE  PermitsTransfer(from, to, zone)
<1>1. Permits(from, "export_zone_file", {zone})
  BY OptionsOnlyNarrow DEF PermitsTransfer
<1>2. Permits(to, "import_zone_file", {zone})
  BY OptionsOnlyNarrow DEF PermitsTransfer
<1> QED
  BY <1>1, <1>2 DEF PermitsTransfer

-----------------------------------------------------------------------------
(* The calls *)

Fields == {"st", "mcp", "ask", "leg", "todo", "at", "left", "zid", "offset", "pages",
           "got", "target", "file", "outcome", "heard", "effects", "stood", "seen",
           "edited", "gone", "cut", "grown", "skipped"}

-----------------------------------------------------------------------------
(* What becomes of a call when a request of it ends *)

\* The call is the same one and changed nothing; of what it found and
\* exported it keeps all or drops all, and only a transfer or a listing
\* across zones goes on to its second method.
Carries(x, y) ==
  /\ DOMAIN y = Fields
  /\ y.mcp = x.mcp /\ y.ask = x.ask /\ y.effects = x.effects
  /\ y.st # "idle"
  /\ y.leg \in {1, 2} /\ (y.leg = 2 => x.leg = 2 \/ IsTransfer(x.ask) \/ AcrossZones(x.ask))
  /\ y.got \in {<< >>, x.got} /\ y.target \in {0, x.target}
  /\ y.file \in {{}, x.file}

IsCall(x) == DOMAIN x = Fields /\ x.leg \in {1, 2} /\ x.st # "idle"

\* A call that ends is still the one that was made.
LEMMA FinishedCarries ==
  ASSUME NEW x, IsCall(x), NEW how
  PROVE  Carries(x, Finished(x, how))
BY DEF Finished, Carries, IsCall, Fields, Idle

\* So is a listing that ends with what it has collected,
LEMMA ListingEndsCarries ==
  ASSUME NEW x, IsCall(x)
  PROVE  Carries(x, ListingEnds(x))
<1>1. Carries(x, Finished(x, "ok"))
  BY FinishedCarries
<1> QED
  BY <1>1 DEF ListingEnds, Carries, IsCall, Fields

\* one that goes on with the next zone,
LEMMA NextZoneCarries ==
  ASSUME NEW x, IsCall(x), AcrossZones(x.ask)
  PROVE  Carries(x, NextZone(x))
<1>1. CASE x.left = << >>
  BY <1>1, ListingEndsCarries DEF NextZone
<1>2. CASE x.left # << >>
  BY <1>2 DEF NextZone, Carries, IsCall, Fields
<1> QED
  BY <1>1, <1>2

\* a transfer that goes on with its import,
LEMMA ImportCarries ==
  ASSUME NEW x, IsCall(x), IsTransfer(x.ask)
  PROVE  Carries(x, Import(x))
<1>1. CASE RequestsOn(x.ask, 2) = Unsupported
  BY <1>1, FinishedCarries DEF Import
<1>2. CASE RequestsOn(x.ask, 2) # Unsupported
  BY <1>2 DEF Import, Carries, IsCall, Fields
<1> QED
  BY <1>1, <1>2

\* and hence any call after an answer
LEMMA AnsweredCarries ==
  ASSUME NEW x, IsCall(x)
  PROVE  Carries(x, Answered(x))
<1>1. CASE Tail(x.todo) # << >>
  BY <1>1 DEF Answered, Carries, IsCall, Fields
<1>2. CASE Tail(x.todo) = << >>
  BY <1>2, FinishedCarries, ListingEndsCarries, NextZoneCarries, ImportCarries DEF Answered
<1> QED
  BY <1>1, <1>2

\* or after a failure.
LEMMA FailedCarries ==
  ASSUME NEW x, IsCall(x)
  PROVE  Carries(x, Failed(x))
<1>1. CASE IsSearch(x.ask) /\ x.leg = 2
  <2> DEFINE y == [x EXCEPT !.skipped = @ \cup x.at.zones]
  <2>1. IsCall(y) /\ y.ask = x.ask /\ AcrossZones(y.ask) /\ Carries(x, y)
    BY <1>1 DEF IsCall, Carries, Fields, AcrossZones
  <2>2. Carries(y, NextZone(y))
    BY <2>1, NextZoneCarries
  <2>3. Carries(x, NextZone(y))
    BY <2>1, <2>2 DEF Carries, IsCall, Fields
  <2> QED
    BY <1>1, <2>3 DEF Failed
<1>2. CASE ~(IsSearch(x.ask) /\ x.leg = 2)
  BY <1>2, FinishedCarries DEF Failed
<1> QED
  BY <1>1, <1>2

-----------------------------------------------------------------------------
(* The inductive invariant *)

\* The call is one of the workload's, and permitted if it came through MCP.
FromLoad(c, x, l) == \E q \in l.asks[c] : q.mcp = x.mcp /\ q.ask = x.ask

Narrowed(s, l) == for_server(Conf[s], l.cli)

Cleared(x, l) ==
  x.mcp =>
    /\ \A s \in ServersOf(x.ask) : Resolvable(Conf[s], l.cli)
    /\ IF IsTransfer(x.ask)
       THEN PermitsTransfer(Narrowed(x.ask.server, l), Narrowed(x.ask.to, l), x.ask.zone)
       ELSE Permits(Narrowed(x.ask.server, l), x.ask.op, Named(x.ask))

\* An id that was given, and to a record of this name.
Known(S, n, id, name) == id \in 0..(n - 1) /\ \A r \in S : r.id = id => r.name = name

\* Where records have ids, what a delete has found so far.
Found(x, S, n) ==
  /\ Known(S, n, x.target, FullName(VendorOf[x.ask.server], x.ask))
  /\ \E R : x.got \in Seq(R) /\ \A r \in R : Known(S, n, r.id, r.name)

CallOK(c, x, l, h, n) ==
  /\ DOMAIN x = Fields /\ x.leg \in {1, 2} /\ x.effects \in Nat
  /\ x.st # "idle" =>
       /\ FromLoad(c, x, l)
       /\ x.leg = 2 => IsTransfer(x.ask) \/ AcrossZones(x.ask)
       /\ x.ask.op = "delete_record" /\ ById(VendorOf[x.ask.server])
            => Found(x, h[x.ask.server], n)
       /\ \A p \in x.file : p.name \in Names /\ ZoneOf[p.name] = x.ask.zone
  /\ x.st = "busy" => Cleared(x, l)
  /\ IsFiniteSet(x.file)

\* Where records have ids, every record has its own, given before.
HeldOK(h, n) ==
  /\ DOMAIN h = Servers
  /\ \A s \in Servers :
       /\ IsFiniteSet(h[s])
       /\ \A r \in h[s] : r.name \in Names
       /\ ById(VendorOf[s]) =>
            \A q, r \in h[s] : q.id \in 1..(n - 1) /\ (q.id = r.id => q = r)

Inv ==
  /\ load \in Workloads
  /\ nextId \in Nat \ {0}
  /\ zid \in [Servers -> [Zones -> 0..MaxId]]
  /\ DOMAIN call = Clients
  /\ HeldOK(held, nextId)
  /\ \A c \in Clients : CallOK(c, call[c], load, held, nextId)

\* What a client asks is typed; the name its client sends is a name, at UniFi
\* one of the zone.
NameOK(a) ==
  \A v : /\ FullName(v, a) \in Names
         /\ v = "unifi" => ZoneOf[FullName(v, a)] = a.zone

LEMMA AskType ==
  ASSUME NEW c \in Clients, NEW l \in Workloads, NEW x, FromLoad(c, x, l)
  PROVE  x.ask \in Parameters /\ NameOK(x.ask)
<1>1. /\ x.ask \in Parameters
      /\ resolve_fqdn(x.ask.name, x.ask.zone) \in Names
      /\ ZoneOf[resolve_fqdn(x.ask.name, x.ask.zone)] = x.ask.zone
  BY OperationsAssumption DEF FromLoad
<1>2. x.ask.name \in Names
  BY <1>1 DEF Parameters
<1> QED
  BY <1>1, <1>2 DEF FullName, NameOK

\* What carries a sound call on is sound.
LEMMA CarriesOK ==
  ASSUME NEW c \in Clients, NEW l \in Workloads, NEW h, NEW n \in Nat \ {0}, HeldOK(h, n),
         NEW x, CallOK(c, x, l, h, n), x.st = "busy", NEW y, Carries(x, y)
  PROVE  CallOK(c, y, l, h, n)
<1>1. x.ask \in Parameters
  BY AskType DEF CallOK
<1>2. FromLoad(c, y, l)
  BY DEF CallOK, Carries, FromLoad
<1>3. Cleared(y, l)
  BY DEF CallOK, Carries, Cleared
<1>4. ASSUME y.ask.op = "delete_record", ById(VendorOf[y.ask.server])
      PROVE  Found(y, h[y.ask.server], n)
  <2>1. y.ask = x.ask /\ x.ask.server \in Servers
    BY <1>1 DEF Carries, Parameters
  <2>2. Found(x, h[x.ask.server], n)
    BY <1>4, <2>1 DEF CallOK
  <2>3. Known(h[x.ask.server], n, 0, FullName(VendorOf[x.ask.server], x.ask))
    BY <1>4, <2>1 DEF HeldOK, Known
  <2>4. << >> \in Seq({})
    OBVIOUS
  <2>5. \E R : y.got \in Seq(R) /\ \A r \in R : Known(h[x.ask.server], n, r.id, r.name)
    <3>1. CASE y.got = x.got
      BY <2>2, <3>1 DEF Found
    <3>2. CASE y.got = << >>
      <4>1. y.got \in Seq({}) /\ \A r \in {} : Known(h[x.ask.server], n, r.id, r.name)
        BY <2>4, <3>2
      <4> QED
        BY <4>1
    <3> QED
      BY <3>1, <3>2 DEF Carries
  <2> QED
    BY <2>1, <2>2, <2>3, <2>5 DEF Found, Carries
<1>5. IsFiniteSet(y.file)
  BY FS_EmptySet DEF CallOK, Carries
<1>6. \A p \in y.file : p.name \in Names /\ ZoneOf[p.name] = y.ask.zone
  BY DEF CallOK, Carries
<1>7. /\ DOMAIN y = Fields /\ y.leg \in {1, 2} /\ y.effects \in Nat
      /\ y.leg = 2 => IsTransfer(y.ask) \/ AcrossZones(y.ask)
  BY DEF CallOK, Carries
<1> QED
  BY <1>2, <1>3, <1>4, <1>5, <1>6, <1>7 DEF CallOK

-----------------------------------------------------------------------------
(* What keeps a call as it should be *)

\* Records may come with ids never given before, go, and be edited.
Moves(h, n, i, m) ==
  /\ n <= m
  /\ \A s \in Servers : ById(VendorOf[s]) =>
       \A r \in i[s] : r.id >= n \/ \E q \in h[s] : q.id = r.id /\ q.name = r.name

\* What was known of an id stays true when records move.
LEMMA KnownMoves ==
  ASSUME NEW n \in Nat \ {0}, NEW m \in Nat \ {0}, NEW h, NEW i, Moves(h, n, i, m),
         NEW s \in Servers, ById(VendorOf[s]), NEW id, NEW name, Known(h[s], n, id, name)
  PROVE  Known(i[s], m, id, name)
BY DEF Known, Moves

\* A sound call stays sound when records move.
LEMMA CallMoves ==
  ASSUME NEW c \in Clients, NEW l \in Workloads,
         NEW n \in Nat \ {0}, NEW m \in Nat \ {0}, NEW h, NEW i, Moves(h, n, i, m),
         NEW x, CallOK(c, x, l, h, n)
  PROVE  CallOK(c, x, l, i, m)
<1>1. ASSUME x.st # "idle", x.ask.op = "delete_record", ById(VendorOf[x.ask.server])
      PROVE  Found(x, i[x.ask.server], m)
  <2>1. x.ask \in Parameters
    BY <1>1, AskType DEF CallOK
  <2>2. x.ask.server \in Servers
    BY <2>1 DEF Parameters
  <2>3. Found(x, h[x.ask.server], n)
    BY <1>1 DEF CallOK
  <2>4. PICK R : x.got \in Seq(R) /\ \A r \in R : Known(h[x.ask.server], n, r.id, r.name)
    BY <2>3 DEF Found
  <2>5. \A r \in R : Known(i[x.ask.server], m, r.id, r.name)
    BY <1>1, <2>2, <2>4, KnownMoves
  <2>6. Known(i[x.ask.server], m, x.target, FullName(VendorOf[x.ask.server], x.ask))
    <3> DEFINE name == FullName(VendorOf[x.ask.server], x.ask)
    <3>1. Known(h[x.ask.server], n, x.target, name)
      BY <2>3 DEF Found
    <3> HIDE DEF name
    <3>2. Known(i[x.ask.server], m, x.target, name)
      BY <1>1, <2>2, <3>1, KnownMoves
    <3> QED
      BY <3>2 DEF name
  <2> QED
    BY <2>4, <2>5, <2>6 DEF Found
<1> QED
  BY <1>1 DEF CallOK

\* A request under way may note what does not matter to the policy.
LEMMA NotedOK ==
  ASSUME NEW c \in Clients, NEW l \in Workloads, NEW h, NEW n,
         NEW x, CallOK(c, x, l, h, n), x.st = "busy",
         NEW y, DOMAIN y = Fields,
         y.st = "busy", y.mcp = x.mcp, y.ask = x.ask, y.leg = x.leg,
         y.effects \in Nat, y.file = x.file,
         x.ask.op = "delete_record" /\ ById(VendorOf[x.ask.server])
           => Found(y, h[x.ask.server], n)
  PROVE  CallOK(c, y, l, h, n)
<1>1. FromLoad(c, y, l) /\ Cleared(y, l)
  BY DEF CallOK, FromLoad, Cleared
<1> QED
  BY <1>1 DEF CallOK

\* What a delete has found depends only on what it keeps.
LEMMA FoundAlike ==
  ASSUME NEW x, NEW y, NEW S, NEW n, Found(x, S, n),
         y.ask = x.ask, y.got = x.got, y.target = x.target
  PROVE  Found(y, S, n)
BY DEF Found

\* What follows of the invariant for a call under way.
LEMMA BusyCall ==
  ASSUME Inv, NEW c \in Clients, Busy(c)
  PROVE  /\ CallOK(c, call[c], load, held, nextId) /\ IsCall(call[c])
         /\ call[c].ask \in Parameters /\ NameOK(call[c].ask)
         /\ call[c].st = "busy" /\ call[c].effects \in Nat
<1>1. CallOK(c, call[c], load, held, nextId) /\ call[c].st = "busy"
  BY DEF Inv, Busy
<1>2. FromLoad(c, call[c], load) /\ IsCall(call[c]) /\ call[c].effects \in Nat
  BY <1>1 DEF CallOK, IsCall
<1> QED
  BY <1>1, <1>2, AskType DEF Inv

\* A call that is neither a transfer nor goes across zones has one method.
LEMMA OneMethod ==
  ASSUME Inv, NEW c \in Clients, Busy(c),
         ~IsTransfer(call[c].ask), ~AcrossZones(call[c].ask)
  PROVE  Op(c) = call[c].ask.op /\ Server(c) = call[c].ask.server
<1>1. call[c].leg = 1
  BY BusyCall DEF CallOK
<1> QED
  BY <1>1 DEF Op, Server, Methods, At

\* A delete has one method.
LEMMA DeleteOp ==
  ASSUME Inv, NEW c \in Clients, Busy(c), call[c].ask.op = "delete_record"
  PROVE  Op(c) = "delete_record" /\ Server(c) = call[c].ask.server
BY OneMethod DEF IsTransfer, AcrossZones, IsSearch, ListsAll

\* A step of one client that changes no server.
Quiet(c) ==
  /\ UNCHANGED <<held, zid, load, nextId>>
  /\ \E y : /\ Become(c, y)
            /\ CallOK(c, y, load, held, nextId)
            /\ y.effects <= call[c].effects

\* Carrying a call on changes no server,
LEMMA CarriesQuiet ==
  ASSUME Inv, NEW c \in Clients, Busy(c), UNCHANGED <<held, zid, load, nextId>>,
         NEW x, CallOK(c, x, load, held, nextId), x.st = "busy", x.effects = call[c].effects,
         NEW y, Carries(x, y), Become(c, y)
  PROVE  Quiet(c)
<1>1. CallOK(c, y, load, held, nextId)
  BY CarriesOK DEF Inv
<1>2. y.effects = call[c].effects /\ call[c].effects \in Nat
  BY BusyCall DEF Carries
<1> QED
  BY <1>1, <1>2 DEF Quiet

-----------------------------------------------------------------------------
(* The steps that only read *)

\* The call with some notes made, as far as the policy and a delete care.
LEMMA Noted ==
  ASSUME Inv, NEW c \in Clients, Busy(c),
         NEW y, DOMAIN y = Fields, y.st = "busy", y.mcp = call[c].mcp,
         y.ask = call[c].ask, y.leg = call[c].leg, y.effects = call[c].effects,
         y.file = call[c].file,
         \/ call[c].ask.op # "delete_record"
         \/ y.got = call[c].got /\ y.target = call[c].target
  PROVE  CallOK(c, y, load, held, nextId) /\ IsCall(y)
<1>1. CallOK(c, call[c], load, held, nextId) /\ call[c].st = "busy" /\ call[c].effects \in Nat
  BY BusyCall
<1>2. call[c].ask.op = "delete_record" /\ ById(VendorOf[call[c].ask.server])
        => Found(y, held[call[c].ask.server], nextId)
  <2> HAVE call[c].ask.op = "delete_record" /\ ById(VendorOf[call[c].ask.server])
  <2>1. Found(call[c], held[call[c].ask.server], nextId)
    BY <1>1 DEF CallOK
  <2> QED
    BY <2>1, FoundAlike
<1>3. CallOK(c, y, load, held, nextId)
  BY <1>1, <1>2, NotedOK DEF Inv
<1> QED
  BY <1>3 DEF CallOK, IsCall

\* What a step that only reads leaves alone.
ServersStay == UNCHANGED <<held, zid, load, nextId>>

\* an answer,
LEMMA AnsweredQuiet ==
  ASSUME Inv, NEW c \in Clients, Busy(c), ServersStay,
         NEW x, CallOK(c, x, load, held, nextId), x.st = "busy", x.effects = call[c].effects,
         Become(c, Answered(x))
  PROVE  Quiet(c)
<1>1. IsCall(x)
  BY DEF CallOK, IsCall
<1>2. Carries(x, Answered(x))
  BY <1>1, AnsweredCarries
<1> QED
  BY <1>2, CarriesQuiet DEF ServersStay

\* an end,
LEMMA EndedQuiet ==
  ASSUME Inv, NEW c \in Clients, Busy(c), ServersStay, NEW how,
         \/ Become(c, Failed(call[c]))
         \/ Become(c, Ended(c, how))
         \/ Become(c, ListingEnds(call[c]))
  PROVE  Quiet(c)
<1>1. CallOK(c, call[c], load, held, nextId) /\ IsCall(call[c]) /\ call[c].st = "busy"
  BY BusyCall
<1>2. /\ Carries(call[c], Failed(call[c]))
      /\ Carries(call[c], Ended(c, how))
      /\ Carries(call[c], ListingEnds(call[c]))
  BY <1>1, FailedCarries, FinishedCarries, ListingEndsCarries DEF Ended
<1> QED
  BY <1>1, <1>2, CarriesQuiet DEF ServersStay

\* The call stays under way, with notes made.
LEMMA NotedQuiet ==
  ASSUME Inv, NEW c \in Clients, Busy(c), ServersStay,
         NEW x, CallOK(c, x, load, held, nextId), x.effects = call[c].effects,
         Become(c, x)
  PROVE  Quiet(c)
<1>1. x.effects <= call[c].effects
  BY BusyCall
<1> QED
  BY <1>1 DEF Quiet, ServersStay

\* or a refusal.
LEMMA RefusedQuiet ==
  ASSUME Inv, NEW c \in Clients, Busy(c), ServersStay, Refused(c)
  PROVE  Quiet(c)
<1> DEFINE x == [call[c] EXCEPT !.heard = "refused"]
<1>1. IsCall(call[c]) /\ call[c].st = "busy"
  BY BusyCall
<1>2. DOMAIN x = Fields /\ x.st = "busy" /\ x.mcp = call[c].mcp /\ x.ask = call[c].ask
      /\ x.leg = call[c].leg /\ x.effects = call[c].effects /\ x.file = call[c].file
      /\ x.got = call[c].got /\ x.target = call[c].target
  BY <1>1 DEF IsCall, Fields
<1>3. CallOK(c, x, load, held, nextId)
  <2> HIDE DEF x
  <2> QED
    BY <1>2, Noted
<1>4. Become(c, Answered(x)) \/ Become(c, Failed(call[c]))
  BY DEF Refused
<1> QED
  BY <1>2, <1>3, <1>4, AnsweredQuiet, EndedQuiet

\* Looking up a zone, a site or a log file changes no server.
LEMMA LookUpQuiet ==
  ASSUME Inv, NEW c \in Clients,
         LookUpZone(c) \/ LookUpSite(c) \/ LookUpLogFile(c)
  PROVE  Quiet(c)
<1>1. Busy(c) /\ ServersStay
  BY DEF LookUpZone, LookUpSite, LookUpLogFile, Due, ServersStay
<1>2. CallOK(c, call[c], load, held, nextId) /\ IsCall(call[c]) /\ call[c].st = "busy"
  BY <1>1, BusyCall
<1>3. CASE LookUpZone(c)
  <2> DEFINE z == IdAt(Server(c), call[c].at)
             x == [call[c] EXCEPT !.zid = z]
  <2>1. DOMAIN x = Fields /\ x.st = "busy" /\ x.mcp = call[c].mcp /\ x.ask = call[c].ask
        /\ x.leg = call[c].leg /\ x.effects = call[c].effects /\ x.file = call[c].file
        /\ x.got = call[c].got /\ x.target = call[c].target
    BY <1>2 DEF IsCall, Fields
  <2>2. CallOK(c, x, load, held, nextId)
    <3> HIDE DEF x
    <3> QED
      BY <1>1, <2>1, Noted
  <2>3. Become(c, Failed(call[c])) \/ Become(c, Answered(x))
    BY <1>3 DEF LookUpZone
  <2> QED
    BY <1>1, <2>1, <2>2, <2>3, AnsweredQuiet, EndedQuiet
<1>4. CASE LookUpSite(c) \/ LookUpLogFile(c)
  BY <1>1, <1>2, <1>4, AnsweredQuiet DEF LookUpSite, LookUpLogFile
<1> QED
  BY <1>3, <1>4

\* Nor does looking up the domains of an organisation,
LEMMA LookUpDomainQuiet ==
  ASSUME Inv, NEW c \in Clients, LookUpDomain(c)
  PROVE  Quiet(c)
<1> DEFINE zs == SetToSeq(ZonesAt(Server(c)))
           x  == [call[c] EXCEPT !.todo = [i \in DOMAIN zs |-> "act"], !.left = zs]
<1>1. Busy(c) /\ ServersStay
  BY DEF LookUpDomain, Due, ServersStay
<1>2. CallOK(c, call[c], load, held, nextId) /\ IsCall(call[c]) /\ call[c].st = "busy"
  BY <1>1, BusyCall
<1>3. DOMAIN x = Fields /\ x.st = "busy" /\ x.mcp = call[c].mcp /\ x.ask = call[c].ask
      /\ x.leg = call[c].leg /\ x.effects = call[c].effects /\ x.file = call[c].file
      /\ x.got = call[c].got /\ x.target = call[c].target
  BY <1>2 DEF IsCall, Fields
<1>4. CallOK(c, x, load, held, nextId)
  <2> HIDE DEF x
  <2> QED
    BY <1>1, <1>3, Noted
<1>5. \/ Become(c, ListingEnds(call[c])) \/ Become(c, x)
      \/ Become(c, Failed(call[c])) \/ Become(c, Answered(call[c]))
  BY DEF LookUpDomain
<1> HIDE DEF x
<1> QED
  BY <1>1, <1>2, <1>3, <1>4, <1>5, AnsweredQuiet, EndedQuiet, NotedQuiet

\* finding the record to delete,
LEMMA FindRecordQuiet ==
  ASSUME Inv, NEW c \in Clients, FindRecord(c)
  PROVE  Quiet(c)
<1>1. Busy(c) /\ ServersStay
  BY DEF FindRecord, Due, ServersStay
<1>2. /\ CallOK(c, call[c], load, held, nextId) /\ IsCall(call[c]) /\ call[c].st = "busy"
      /\ call[c].ask \in Parameters
  BY <1>1, BusyCall
<1>3. CASE Become(c, Ended(c, "error"))
  BY <1>1, <1>3, EndedQuiet
<1>4. ASSUME NEW r \in held[Server(c)], r.name = FullName(Vendor(c), call[c].ask),
             Become(c, Answered([call[c] EXCEPT !.target = r.id]))
      PROVE  Quiet(c)
  <2> DEFINE x == [call[c] EXCEPT !.target = r.id]
  <2>1. DOMAIN x = Fields /\ x.st = "busy" /\ x.mcp = call[c].mcp /\ x.ask = call[c].ask
        /\ x.leg = call[c].leg /\ x.effects = call[c].effects /\ x.file = call[c].file
        /\ x.got = call[c].got /\ x.target = r.id /\ x.effects \in Nat
    BY <1>1, <1>2, BusyCall DEF IsCall, Fields
  <2>2. ASSUME call[c].ask.op = "delete_record", ById(VendorOf[call[c].ask.server])
        PROVE  Found(x, held[call[c].ask.server], nextId)
    <3>1. Server(c) = call[c].ask.server /\ call[c].ask.server \in Servers
      BY <1>1, <1>2, <2>2, DeleteOp DEF Parameters
    <3>2. Known(held[call[c].ask.server], nextId, r.id,
                FullName(VendorOf[call[c].ask.server], call[c].ask))
      BY <1>4, <2>2, <3>1 DEF Known, Inv, HeldOK, Vendor
    <3>3. Found(call[c], held[call[c].ask.server], nextId)
      BY <1>2, <2>2 DEF CallOK
    <3> HIDE DEF x
    <3> QED
      BY <2>1, <3>2, <3>3 DEF Found
  <2>3. CallOK(c, x, load, held, nextId)
    <3> HIDE DEF x
    <3> QED
      BY <1>2, <2>1, <2>2, NotedOK DEF Inv
  <2> QED
    BY <1>1, <1>4, <2>1, <2>3, AnsweredQuiet
<1> QED
  BY <1>3, <1>4 DEF FindRecord

\* or fetching a page of zones.
LEMMA FetchZonesQuiet ==
  ASSUME Inv, NEW c \in Clients, FetchZones(c)
  PROVE  Quiet(c)
<1> DEFINE page == PageOfZones(ZonesAt(Server(c)), call[c].offset)
           x    == [call[c] EXCEPT !.left = @ \o page, !.offset = @ + ZonePage]
<1>1. Busy(c) /\ ServersStay /\ AcrossZones(call[c].ask)
  BY DEF FetchZones, Due, ServersStay
<1>2. IsCall(call[c]) /\ call[c].st = "busy"
  BY <1>1, BusyCall
<1>3. DOMAIN x = Fields /\ x.st = "busy" /\ x.mcp = call[c].mcp /\ x.ask = call[c].ask
      /\ x.leg = call[c].leg /\ x.effects = call[c].effects /\ x.file = call[c].file
      /\ x.got = call[c].got /\ x.target = call[c].target
  BY <1>2 DEF IsCall, Fields
<1>4. Become(c, x) \/ Become(c, NextZone(x))
  BY DEF FetchZones
<1> HIDE DEF x
<1>5. CallOK(c, x, load, held, nextId) /\ IsCall(x)
  BY <1>1, <1>3, Noted
<1>6. Carries(x, NextZone(x))
  BY <1>1, <1>3, <1>5, NextZoneCarries
<1> QED
  BY <1>1, <1>3, <1>4, <1>5, <1>6, CarriesQuiet, NotedQuiet DEF ServersStay

\* A page holds records of the server.
LEMMA PageHeld ==
  ASSUME NEW S, IsFiniteSet(S), NEW offset, NEW page \in PagesOf(S, offset)
  PROVE  page \in Seq(S)
<1> DEFINE n == Cardinality({r \in S : Rank(S, r) \in offset..(offset + PageSize - 1)})
<1>1. page \in [1..n -> S]
  BY DEF PagesOf
<1>2. n \in Nat
  BY FS_Subset, FS_CardinalityType
<1> HIDE DEF n
<1> QED
  BY <1>1, <1>2

\* The policy a delete picks from its pages is one of its name.
LEMMA MatchKnown ==
  ASSUME NEW S, NEW n, NEW R, NEW listing \in Seq(R), \A r \in R : Known(S, n, r.id, r.name),
         NEW a, NEW i \in FirstMatch(listing, a)
  PROVE  Known(S, n, i, FullName(VendorOf[a.server], a))
<1>1. PICK j \in DOMAIN listing : listing[j].name = FullName(VendorOf[a.server], a) /\ i = listing[j].id
  BY DEF FirstMatch
<1>2. listing[j] \in R
  BY <1>1
<1> QED
  BY <1>1, <1>2

\* The end of the pages leaves the server as it is,
LEMMA PagesEndQuiet ==
  ASSUME Inv, NEW c \in Clients, Busy(c), ServersStay,
         NEW x, CallOK(c, x, load, held, nextId), IsCall(x), x.st = "busy",
         x.mcp = call[c].mcp, x.ask = call[c].ask, x.leg = call[c].leg,
         x.effects = call[c].effects, x.file = call[c].file,
         Become(c, PagesEnd(c, x))
  PROVE  Quiet(c)
<1>1. /\ call[c].ask \in Parameters /\ x.effects \in Nat
  BY BusyCall
<1>2. CASE Op(c) = "list_records"
  <2> DEFINE y == [x EXCEPT !.got = KeptPages(x, x.got)]
  <2>1. DOMAIN y = Fields /\ y.st = "busy" /\ y.mcp = call[c].mcp /\ y.ask = call[c].ask
        /\ y.leg = call[c].leg /\ y.effects = call[c].effects /\ y.file = call[c].file
    BY DEF IsCall, Fields
  <2>2. call[c].ask.op # "delete_record"
    BY <1>2, DeleteOp
  <2>3. Become(c, Answered(y))
    BY <1>2 DEF PagesEnd
  <2> HIDE DEF y
  <2>4. CallOK(c, y, load, held, nextId)
    BY <2>1, <2>2, Noted
  <2> QED
    BY <2>1, <2>3, <2>4, AnsweredQuiet
<1>3. CASE Op(c) # "list_records" /\ FirstMatch(x.got, x.ask) = {}
  BY <1>3, EndedQuiet DEF PagesEnd
<1>4. CASE Op(c) # "list_records" /\ FirstMatch(x.got, x.ask) # {}
  <2> DEFINE i == CHOOSE i \in FirstMatch(x.got, x.ask) : TRUE
             y == [x EXCEPT !.target = i, !.got = << >>]
  <2>0. i \in FirstMatch(x.got, x.ask)
    BY <1>4
  <2>1. DOMAIN y = Fields /\ y.st = "busy" /\ y.mcp = x.mcp /\ y.ask = x.ask
        /\ y.leg = x.leg /\ y.effects = x.effects /\ y.file = x.file
        /\ y.got = << >> /\ y.target = i
    BY DEF IsCall, Fields
  <2>2. ASSUME x.ask.op = "delete_record", ById(VendorOf[x.ask.server])
        PROVE  Found(y, held[x.ask.server], nextId)
    <3>1. Found(x, held[x.ask.server], nextId)
      BY <2>2 DEF CallOK
    <3>2. Known(held[x.ask.server], nextId, i, FullName(VendorOf[x.ask.server], x.ask))
      BY <2>0, <3>1, MatchKnown DEF Found
    <3>3. << >> \in Seq({}) /\ \A r \in {} : Known(held[x.ask.server], nextId, r.id, r.name)
      OBVIOUS
    <3> HIDE DEF y, i
    <3>4. \E R : y.got \in Seq(R) /\ \A r \in R : Known(held[x.ask.server], nextId, r.id, r.name)
      <4>1. y.got \in Seq({})
        BY <2>1, <3>3
      <4> QED
        BY <3>3, <4>1
    <3> QED
      BY <2>1, <3>2, <3>4 DEF Found
  <2>3. Become(c, Answered(y))
    BY <1>4 DEF PagesEnd
  <2> HIDE DEF y
  <2>4. CallOK(c, y, load, held, nextId)
    BY <1>1, <2>1, <2>2, NotedOK DEF Inv
  <2> QED
    BY <2>1, <2>3, <2>4, AnsweredQuiet
<1> QED
  BY <1>2, <1>3, <1>4

\* and so does every page.
LEMMA FetchPageQuiet ==
  ASSUME Inv, NEW c \in Clients, FetchPage(c)
  PROVE  Quiet(c)
<1> DEFINE S == held[Server(c)]
<1>1. Busy(c) /\ ServersStay
  BY DEF FetchPage, Due, ServersStay
<1>2. /\ CallOK(c, call[c], load, held, nextId) /\ IsCall(call[c]) /\ call[c].st = "busy"
      /\ call[c].ask \in Parameters /\ call[c].effects \in Nat
  BY <1>1, BusyCall
<1>3. PICK page \in PagesOf(S, call[c].offset), totals \in {{}, {Cardinality(S)}} :
        \E y \in {[call[c] EXCEPT !.got = @ \o page, !.pages = @ + 1,
                                  !.offset = U!NextOffset(@, Len(page))]} :
          Become(c, IF U!LastPage(Len(page), Len(y.got), totals, PageSize) THEN PagesEnd(c, y)
                    ELSE IF y.pages = MaxPages THEN Ended(c, "error")
                    ELSE y)
  BY DEF FetchPage
<1> DEFINE got == call[c].got \o page
           x   == [call[c] EXCEPT !.got = @ \o page, !.pages = @ + 1,
                                  !.offset = U!NextOffset(@, Len(page))]
<1>4. Become(c, PagesEnd(c, x)) \/ Become(c, Ended(c, "error")) \/ Become(c, x)
  BY <1>3
<1>5. DOMAIN x = Fields /\ x.st = "busy" /\ x.mcp = call[c].mcp /\ x.ask = call[c].ask
      /\ x.leg = call[c].leg /\ x.effects = call[c].effects /\ x.file = call[c].file
      /\ x.got = got /\ x.target = call[c].target
  BY <1>2 DEF IsCall, Fields
<1> HIDE DEF x
<1>6. ASSUME call[c].ask.op = "delete_record", ById(VendorOf[call[c].ask.server])
      PROVE  Found(x, held[call[c].ask.server], nextId)
  <2>1. Server(c) = call[c].ask.server /\ call[c].ask.server \in Servers
    BY <1>1, <1>2, <1>6, DeleteOp DEF Parameters
  <2>2. Found(call[c], S, nextId)
    BY <1>2, <1>6, <2>1 DEF CallOK
  <2>3. PICK R : call[c].got \in Seq(R) /\ \A r \in R : Known(S, nextId, r.id, r.name)
    BY <2>2 DEF Found
  <2>4. page \in Seq(S)
    BY <2>1, PageHeld DEF Inv, HeldOK
  <2>5. \A r \in S : Known(S, nextId, r.id, r.name)
    BY <1>6, <2>1 DEF Known, Inv, HeldOK
  <2>6. got \in Seq(R \cup S)
    BY <2>3, <2>4
  <2>7. \A r \in R \cup S : Known(S, nextId, r.id, r.name)
    BY <2>3, <2>5
  <2> HIDE DEF got, S
  <2> QED
    BY <1>5, <2>1, <2>2, <2>6, <2>7 DEF Found, S
<1>7. CallOK(c, x, load, held, nextId)
  BY <1>2, <1>5, <1>6, NotedOK DEF Inv
<1>8. IsCall(x)
  BY <1>5, <1>7 DEF IsCall, CallOK
<1> QED
  BY <1>1, <1>4, <1>5, <1>7, <1>8, PagesEndQuiet, EndedQuiet, NotedQuiet

\* A request that adds to what a listing has collected.
LEMMA CollectedQuiet ==
  ASSUME Inv, NEW c \in Clients, Busy(c), ServersStay, Op(c) = "list_records",
         NEW got, NEW left,
         Become(c, Answered([call[c] EXCEPT !.got = got, !.left = left]))
  PROVE  Quiet(c)
<1> DEFINE x == [call[c] EXCEPT !.got = got, !.left = left]
<1>1. IsCall(call[c]) /\ call[c].st = "busy"
  BY BusyCall
<1>2. DOMAIN x = Fields /\ x.st = "busy" /\ x.mcp = call[c].mcp /\ x.ask = call[c].ask
      /\ x.leg = call[c].leg /\ x.effects = call[c].effects /\ x.file = call[c].file
  BY <1>1 DEF IsCall, Fields
<1>3. call[c].ask.op # "delete_record"
  BY DeleteOp
<1> HIDE DEF x
<1>4. CallOK(c, x, load, held, nextId)
  BY <1>2, <1>3, Noted
<1> QED
  BY <1>2, <1>4, AnsweredQuiet DEF x

\* The listings in one request change no server.
LEMMA ListingQuiet ==
  ASSUME Inv, NEW c \in Clients, FetchHosts(c) \/ FetchAliases(c) \/ ReadRecords(c)
  PROVE  Quiet(c)
<1>1. Busy(c) /\ ServersStay /\ Op(c) = "list_records"
  BY DEF FetchHosts, FetchAliases, ReadRecords, Due, ServersStay
<1>2. IsCall(call[c])
  BY <1>1, BusyCall
<1>3. CASE FetchHosts(c)
  <2>1. Become(c, Answered([call[c] EXCEPT !.got = @ \o Entries(c, TRUE)]))
    BY <1>3 DEF FetchHosts
  <2>2. [call[c] EXCEPT !.got = @ \o Entries(c, TRUE)]
          = [call[c] EXCEPT !.got = call[c].got \o Entries(c, TRUE), !.left = call[c].left]
    BY <1>2 DEF IsCall, Fields
  <2> QED
    BY <1>1, <2>1, <2>2, CollectedQuiet
<1>4. CASE FetchAliases(c)
  <2>1. Become(c, Answered([call[c] EXCEPT !.got = @ \o Entries(c, FALSE)]))
    BY <1>4 DEF FetchAliases
  <2>2. [call[c] EXCEPT !.got = @ \o Entries(c, FALSE)]
          = [call[c] EXCEPT !.got = call[c].got \o Entries(c, FALSE), !.left = call[c].left]
    BY <1>2 DEF IsCall, Fields
  <2> QED
    BY <1>1, <2>1, <2>2, CollectedQuiet
<1>5. CASE ReadRecords(c) /\ ~ZoneStands(c)
  BY <1>1, <1>5, RefusedQuiet DEF ReadRecords
<1>6. CASE ReadRecords(c) /\ ZoneStands(c)
  <2>1. \E got, left : Become(c, Answered([call[c] EXCEPT !.got = got, !.left = left]))
    BY <1>6, <1>2 DEF ReadRecords, IsCall, Fields
  <2> QED
    BY <1>1, <2>1, CollectedQuiet
<1> QED
  BY <1>3, <1>4, <1>5, <1>6

\* Nor do the other readings,
LEMMA ReadQuiet ==
  ASSUME Inv, NEW c \in Clients, Read(c)
  PROVE  Quiet(c)
<1>1. Busy(c) /\ ServersStay
  BY DEF Read, Due, ServersStay
<1>2. Refused(c) \/ Become(c, Answered(call[c]))
  BY DEF Read
<1> QED
  BY <1>1, <1>2, BusyCall, AnsweredQuiet, RefusedQuiet

\* the failures,
LEMMA FailureQuiet ==
  ASSUME Inv, NEW c \in Clients, Fail(c) \/ Refuse(c)
  PROVE  Quiet(c)
<1>1. Busy(c) /\ ServersStay
  BY DEF Fail, Refuse, ServersStay
<1>2. Refused(c) \/ Become(c, Failed(call[c]))
  BY DEF Fail, Refuse
<1> QED
  BY <1>1, <1>2, EndedQuiet, RefusedQuiet

\* A call under way is at one of the servers.
LEMMA ServerType ==
  ASSUME Inv, NEW c \in Clients, Busy(c)
  PROVE  Server(c) \in Servers
<1>1. CallOK(c, call[c], load, held, nextId) /\ call[c].st = "busy" /\ call[c].ask \in Parameters
  BY BusyCall
<1>2. call[c].ask.server \in Servers /\ call[c].ask.to \in Servers
  BY <1>1 DEF Parameters
<1>3. call[c].leg \in {1, 2}
      /\ (call[c].leg = 2 => IsTransfer(call[c].ask) \/ AcrossZones(call[c].ask))
  BY <1>1 DEF CallOK
<1> QED
  BY <1>2, <1>3 DEF Server, Methods, At

\* An export changes no server, and its file lies in the zone.
LEMMA ExportQuiet ==
  ASSUME Inv, NEW c \in Clients, ExportZone(c)
  PROVE  Quiet(c)
<1> DEFINE here == InZone(held[Server(c)], call[c].ask.zone)
           file == {Plain(r) : r \in here}
           x    == [call[c] EXCEPT !.file = file]
<1>1. Busy(c) /\ ServersStay /\ Op(c) \in ZoneExport
  BY DEF ExportZone, Due, ServersStay
<1>2. /\ CallOK(c, call[c], load, held, nextId) /\ IsCall(call[c]) /\ call[c].st = "busy"
      /\ call[c].effects \in Nat
  BY <1>1, BusyCall
<1>3. Refused(c) \/ Become(c, Answered(x))
  BY DEF ExportZone
<1>4. DOMAIN x = Fields /\ x.st = "busy" /\ x.mcp = call[c].mcp /\ x.ask = call[c].ask
      /\ x.leg = call[c].leg /\ x.effects = call[c].effects /\ x.file = file
  BY <1>2 DEF IsCall, Fields
<1>5. IsFiniteSet(held[Server(c)]) /\ \A r \in held[Server(c)] : r.name \in Names
  BY <1>1, ServerType DEF Inv, HeldOK
<1>6. IsFiniteSet(file)
  <2> DEFINE f == [r \in here |-> Plain(r)]
  <2>1. IsFiniteSet(here)
    BY <1>5, FS_Subset DEF InZone
  <2>2. f \in Surjection(here, file)
    BY DEF Surjection
  <2> HIDE DEF f, here, file
  <2> QED
    BY <2>1, <2>2, FS_Surjection
<1>7. \A p \in file : p.name \in Names /\ ZoneOf[p.name] = call[c].ask.zone
  BY <1>5 DEF Plain, InZone
<1>8. call[c].ask.op # "delete_record"
  BY <1>1, DeleteOp DEF ZoneExport
<1> HIDE DEF x, file
<1>9. CallOK(c, x, load, held, nextId)
  <2>1. FromLoad(c, x, load) /\ Cleared(x, load)
    BY <1>2, <1>4 DEF CallOK, FromLoad, Cleared
  <2>2. x.leg \in {1, 2} /\ x.effects \in Nat
        /\ (x.leg = 2 => IsTransfer(x.ask) \/ AcrossZones(x.ask))
    BY <1>2, <1>4 DEF CallOK
  <2> QED
    BY <1>4, <1>6, <1>7, <1>8, <2>1, <2>2 DEF CallOK
<1> QED
  BY <1>1, <1>3, <1>4, <1>9, AnsweredQuiet, RefusedQuiet

\* A call begins with nothing found.
LEMMA BeginQuiet ==
  ASSUME Inv, NEW c \in Clients, NEW q \in load.asks[c], NEW how, Begin(c, q, how),
         how = "none" /\ q.mcp =>
           (\A s \in ServersOf(q.ask) : Resolvable(Conf[s], load.cli)) /\ PermittedTool(q.ask)
  PROVE  Quiet(c)
<1> DEFINE y == [Idle EXCEPT
       !.st = IF how = "none" THEN "busy" ELSE "done",
       !.mcp = q.mcp, !.ask = q.ask, !.outcome = how,
       !.todo = IF how = "none" THEN RequestsOn(q.ask, 1) ELSE << >>,
       !.at = ArgsOf(q.ask), !.stood = held[q.ask.server], !.seen = held[q.ask.server]]
<1>1. ServersStay /\ Become(c, y)
  BY DEF Begin, ServersStay
<1>2. DOMAIN y = Fields /\ y.mcp = q.mcp /\ y.ask = q.ask /\ y.leg = 1 /\ y.effects = 0
      /\ y.got = << >> /\ y.target = 0 /\ y.file = {}
      /\ y.st = IF how = "none" THEN "busy" ELSE "done"
  BY DEF Idle, Fields
<1> HIDE DEF y
<1>3. FromLoad(c, y, load)
  BY <1>2 DEF FromLoad
<1>4. y.ask \in Parameters
  BY <1>3, AskType DEF Inv
<1>5. y.st = "busy" => Cleared(y, load)
  BY <1>2 DEF Cleared, PermittedTool, Effective, Narrowed
<1>6. ASSUME ById(VendorOf[y.ask.server])
      PROVE  Found(y, held[y.ask.server], nextId)
  <2>1. y.ask.server \in Servers
    BY <1>4 DEF Parameters
  <2>2. Known(held[y.ask.server], nextId, y.target, FullName(VendorOf[y.ask.server], y.ask))
    BY <1>2, <1>6, <2>1 DEF Known, Inv, HeldOK
  <2>3. y.got \in Seq({}) /\ \A r \in {} : Known(held[y.ask.server], nextId, r.id, r.name)
    BY <1>2
  <2>4. \E R : y.got \in Seq(R) /\ \A r \in R : Known(held[y.ask.server], nextId, r.id, r.name)
    BY <2>3
  <2> QED
    BY <2>2, <2>4 DEF Found
<1>7. CallOK(c, y, load, held, nextId)
  BY <1>2, <1>3, <1>5, <1>6, FS_EmptySet DEF CallOK
<1>8. y.effects <= call[c].effects
  BY <1>2 DEF Inv, CallOK
<1> QED
  BY <1>1, <1>7, <1>8 DEF Quiet, ServersStay

\* whether it comes through MCP or not.
LEMMA StartQuiet ==
  ASSUME Inv, NEW c \in Clients, StartTool(c) \/ StartCommand(c)
  PROVE  Quiet(c)
<1>1. CASE StartTool(c)
  <2>1. PICK q \in load.asks[c] :
          /\ q.mcp
          /\ Begin(c, q,
               IF \E s \in ServersOf(q.ask) : ~Resolvable(Conf[s], load.cli) THEN "error"
               ELSE IF ~PermittedTool(q.ask) THEN "denied"
               ELSE Refusal(q.ask))
    BY <1>1 DEF StartTool
  <2> QED
    BY <2>1, BeginQuiet
<1>2. CASE StartCommand(c)
  <2>1. PICK q \in load.asks[c] : ~q.mcp /\ Begin(c, q, Refusal(q.ask))
    BY <1>2 DEF StartCommand
  <2> QED
    BY <2>1, BeginQuiet
<1> QED
  BY <1>1, <1>2

\* The invariant of the next state, from its parts.
LEMMA InvNext ==
  ASSUME load' \in Workloads, nextId' \in Nat \ {0}, zid' \in [Servers -> [Zones -> 0..MaxId]],
         DOMAIN call' = Clients, HeldOK(held', nextId'),
         \A c \in Clients : CallOK(c, call'[c], load', held', nextId')
  PROVE  Inv'
<1>1. HeldOK(held, nextId)'
  BY DEF HeldOK
<1>2. ASSUME NEW c \in Clients
      PROVE  CallOK(c, call[c], load, held, nextId)'
  <2>1. CallOK(c, call'[c], load', held', nextId')
    OBVIOUS
  <2> QED
    BY <2>1 DEF CallOK, FromLoad, Cleared, Narrowed, Found, Known
<1> QED
  BY <1>1, <1>2 DEF Inv

\* A step that changes no server keeps the invariant.
LEMMA QuietKeeps ==
  ASSUME Inv, NEW c \in Clients, Quiet(c)
  PROVE  Inv' /\ \A d \in Clients : call'[d].effects <= call[d].effects
<1>1. PICK y : Become(c, y) /\ CallOK(c, y, load, held, nextId) /\ y.effects <= call[c].effects
  BY DEF Quiet
<1>2. UNCHANGED <<held, zid, load, nextId>>
  BY DEF Quiet
<1>3. \A d \in Clients : CallOK(d, call'[d], load, held, nextId)
  BY <1>1 DEF Inv, Become
<1>4. DOMAIN call' = Clients
  BY <1>1 DEF Inv, Become
<1>5. Inv'
  BY <1>2, <1>3, <1>4, InvNext DEF Inv
<1>6. \A d \in Clients : call'[d].effects <= call[d].effects
  <2> TAKE d \in Clients
  <2>1. call[d].effects \in Nat
    BY DEF Inv, CallOK
  <2> QED
    BY <1>1, <2>1 DEF Inv, Become
<1> QED
  BY <1>5, <1>6

-----------------------------------------------------------------------------
(* The steps that change a server *)

\* Server s holds S, and the others what they held.
Replaces(h, s, S) ==
  /\ DOMAIN h = Servers /\ h[s] = S
  /\ \A t \in Servers \ {s} : h[t] = held[t]

\* An update replaces the contents of one server.
LEMMA ExceptReplaces ==
  ASSUME Inv, NEW s \in Servers, NEW S
  PROVE  Replaces([held EXCEPT ![s] = S], s, S)
BY DEF Inv, HeldOK, Replaces

\* A server may get other contents, if what is new has a new id or is an
\* edited record of the same name.
LEMMA Replaced ==
  ASSUME Inv, NEW s \in Servers, NEW S, IsFiniteSet(S),
         NEW m \in Nat, nextId <= m, NEW h, Replaces(h, s, S),
         \A r \in S : r.name \in Names,
         ById(VendorOf[s]) =>
           /\ \A q, r \in S : q.id \in 1..(m - 1) /\ (q.id = r.id => q = r)
           /\ \A r \in S : r.id >= nextId \/ \E q \in held[s] : q.id = r.id /\ q.name = r.name
  PROVE  HeldOK(h, m) /\ Moves(held, nextId, h, m)
<1>1. HeldOK(held, nextId) /\ nextId \in Nat
  BY DEF Inv
<1>2. DOMAIN h = Servers /\ h[s] = S /\ \A t \in Servers \ {s} : h[t] = held[t]
  BY DEF Replaces
<1>3. HeldOK(h, m)
  <2>1. ASSUME NEW t \in Servers
        PROVE  /\ IsFiniteSet(h[t])
               /\ \A r \in h[t] : r.name \in Names
               /\ ById(VendorOf[t]) =>
                    \A q, r \in h[t] : q.id \in 1..(m - 1) /\ (q.id = r.id => q = r)
    <3>1. CASE t = s
      BY <1>2, <3>1
    <3>2. CASE t # s
      BY <1>1, <1>2, <3>2 DEF HeldOK
    <3> QED
      BY <3>1, <3>2
  <2> QED
    BY <1>2, <2>1 DEF HeldOK
<1>4. Moves(held, nextId, h, m)
  <2>1. ASSUME NEW t \in Servers, ById(VendorOf[t]), NEW r \in h[t]
        PROVE  r.id >= nextId \/ \E q \in held[t] : q.id = r.id /\ q.name = r.name
    <3>1. CASE t = s
      BY <1>2, <2>1, <3>1
    <3>2. CASE t # s
      BY <1>2, <2>1, <3>2
    <3> QED
      BY <3>1, <3>2
  <2> QED
    BY <2>1 DEF Moves
<1> QED
  BY <1>3, <1>4

\* It may keep a part of what it held.
LEMMA Reduced ==
  ASSUME Inv, NEW s \in Servers, NEW S \in SUBSET held[s], NEW m \in Nat, nextId <= m,
         NEW h, Replaces(h, s, S)
  PROVE  HeldOK(h, m) /\ Moves(held, nextId, h, m)
<1>1. nextId \in Nat /\ IsFiniteSet(held[s]) /\ \A r \in held[s] : r.name \in Names
  BY DEF Inv, HeldOK
<1>2. IsFiniteSet(S)
  BY <1>1, FS_Subset
<1>3. ById(VendorOf[s]) =>
        /\ \A q, r \in S : q.id \in 1..(m - 1) /\ (q.id = r.id => q = r)
        /\ \A r \in S : \E q \in held[s] : q.id = r.id /\ q.name = r.name
  BY <1>1 DEF Inv, HeldOK
<1> QED
  BY <1>1, <1>2, <1>3, Replaced

\* The calls under way see a change, and stay as they were otherwise.
LEMMA WatchedOK ==
  ASSUME Inv, NEW h, NEW dropped
  PROVE  /\ DOMAIN Watched(h, dropped) = Clients
         /\ \A d \in Clients :
              /\ CallOK(d, Watched(h, dropped)[d], load, held, nextId)
              /\ Watched(h, dropped)[d].effects = call[d].effects
<1> DEFINE w == Watched(h, dropped)
<1>1. DOMAIN w = Clients
  BY DEF Watched
<1>2. ASSUME NEW d \in Clients
      PROVE  CallOK(d, w[d], load, held, nextId) /\ w[d].effects = call[d].effects
  <2>1. CASE ~Busy(d)
    BY <2>1 DEF Watched, Inv
  <2>2. CASE Busy(d)
    <3>1. IsCall(call[d]) /\ call[d].st = "busy"
      BY <2>2, BusyCall
    <3>2. DOMAIN w[d] = Fields /\ w[d].st = "busy" /\ w[d].mcp = call[d].mcp
          /\ w[d].ask = call[d].ask /\ w[d].leg = call[d].leg
          /\ w[d].effects = call[d].effects /\ w[d].file = call[d].file
          /\ w[d].got = call[d].got /\ w[d].target = call[d].target
      BY <2>2, <3>1 DEF Watched, IsCall, Fields
    <3> HIDE DEF w
    <3> QED
      BY <2>2, <3>2, Noted
  <2> QED
    BY <2>1, <2>2
<1> QED
  BY <1>1, <1>2

\* A change by others keeps the invariant,
LEMMA OthersKeep ==
  ASSUME Inv, NEW m \in Nat \ {0}, NEW h, HeldOK(h, m), Moves(held, nextId, h, m),
         held' = h, nextId' = m, load' = load, zid' \in [Servers -> [Zones -> 0..MaxId]],
         call' = Watched(h, {})
  PROVE  Inv' /\ \A d \in Clients : call'[d].effects = call[d].effects
<1>1. /\ DOMAIN call' = Clients
      /\ \A d \in Clients : CallOK(d, call'[d], load, held, nextId)
                            /\ call'[d].effects = call[d].effects
  BY WatchedOK
<1>2. load \in Workloads /\ nextId \in Nat \ {0}
  BY DEF Inv
<1>3. \A d \in Clients : CallOK(d, call'[d], load, h, m)
  BY <1>1, <1>2, CallMoves
<1>4. Inv'
  BY <1>1, <1>2, <1>3, InvNext
<1> QED
  BY <1>1, <1>4

\* and so does one a client makes.
LEMMA AppliedKeeps ==
  ASSUME Inv, NEW c \in Clients, Busy(c), NEW m \in Nat \ {0},
         NEW h, HeldOK(h, m), Moves(held, nextId, h, m), NEW dropped, Applied(c, h, dropped),
         nextId' = m, load' = load, zid' \in [Servers -> [Zones -> 0..MaxId]]
  PROVE  /\ Inv' /\ held' = h
         /\ \A d \in Clients \ {c} : call'[d].effects = call[d].effects
<1>1. load \in Workloads /\ nextId \in Nat \ {0} /\ HeldOK(held, nextId)
  BY DEF Inv
<1>2. /\ IsCall(call[c]) /\ call[c].st = "busy" /\ call[c].effects \in Nat
      /\ CallOK(c, call[c], load, held, nextId)
  BY BusyCall
<1>3. PICK lost \in BOOLEAN, ans \in Grants(Vendor(c), Op(c)) :
        LET x == [call[c] EXCEPT !.effects = @ + 1,
                                 !.heard = IF lost THEN "lost" ELSE "fine"]
        IN call' = [Watched(h, dropped) EXCEPT ![c] =
             IF ~lost /\ Reads(Vendor(c), Op(c), Next1(c), ans)
             THEN Answered(x) ELSE Finished(x, "error")]
  BY DEF Applied
<1> DEFINE x == [call[c] EXCEPT !.effects = @ + 1, !.heard = IF lost THEN "lost" ELSE "fine"]
           y == IF ~lost /\ Reads(Vendor(c), Op(c), Next1(c), ans)
                THEN Answered(x) ELSE Finished(x, "error")
<1>4. call' = [Watched(h, dropped) EXCEPT ![c] = y]
  BY <1>3
<1>5. DOMAIN x = Fields /\ x.st = "busy" /\ x.mcp = call[c].mcp /\ x.ask = call[c].ask
      /\ x.leg = call[c].leg /\ x.effects \in Nat /\ x.file = call[c].file
      /\ x.got = call[c].got /\ x.target = call[c].target
  BY <1>2 DEF IsCall, Fields
<1> HIDE DEF x
<1>6. call[c].ask.op = "delete_record" /\ ById(VendorOf[call[c].ask.server])
        => Found(x, held[call[c].ask.server], nextId)
  <2> HAVE call[c].ask.op = "delete_record" /\ ById(VendorOf[call[c].ask.server])
  <2>1. Found(call[c], held[call[c].ask.server], nextId)
    BY <1>2 DEF CallOK
  <2> QED
    BY <1>5, <2>1, FoundAlike
<1>7. CallOK(c, x, load, held, nextId)
  BY <1>1, <1>2, <1>5, <1>6, NotedOK
<1>8. IsCall(x)
  BY <1>5, <1>7 DEF IsCall, CallOK
<1>9. Carries(x, y)
  BY <1>8, AnsweredCarries, FinishedCarries
<1> HIDE DEF y
<1>10. CallOK(c, y, load, held, nextId)
  BY <1>1, <1>5, <1>7, <1>9, CarriesOK
<1>11. /\ DOMAIN Watched(h, dropped) = Clients
       /\ \A d \in Clients :
              /\ CallOK(d, Watched(h, dropped)[d], load, held, nextId)
              /\ Watched(h, dropped)[d].effects = call[d].effects
  BY WatchedOK
<1>12. /\ DOMAIN call' = Clients
       /\ \A d \in Clients : CallOK(d, call'[d], load, held, nextId)
       /\ \A d \in Clients \ {c} : call'[d].effects = call[d].effects
  BY <1>4, <1>10, <1>11
<1>13. \A d \in Clients : CallOK(d, call'[d], load, h, m)
  BY <1>1, <1>12, CallMoves
<1>14. held' = h
  BY DEF Applied
<1>15. Inv'
  BY <1>1, <1>12, <1>13, <1>14, InvNext
<1> QED
  BY <1>12, <1>14, <1>15

\* A server may stay as it is while ids are given.
LEMMA Stays ==
  ASSUME Inv, NEW m \in Nat, nextId <= m
  PROVE  HeldOK(held, m) /\ Moves(held, nextId, held, m)
BY DEF Inv, HeldOK, Moves

\* What a client changes lies at its server and, where it is in a zone, in
\* the zone it was asked about.
Acting(c) ==
  /\ Op(c) \in DnsWrite
  /\ \A t \in Servers \ {Server(c)} : held'[t] = held[t] /\ zid'[t] = zid[t]
  /\ \A r \in (held[Server(c)] \ held'[Server(c)]) \cup (held'[Server(c)] \ held[Server(c)]) :
       Op(c) \in ZoneBound /\ (Vendor(c) # "pihole" => ZoneOf[r.name] = call[c].ask.zone)
  /\ \A z \in Zones : zid'[Server(c)][z] # zid[Server(c)][z] =>
       Op(c) \in ZoneBound /\ z = call[c].ask.zone

\* What a step of a client may be.
StepOf(c) ==
  /\ Inv'
  /\ \/ \A d \in Clients : call'[d].effects <= call[d].effects
     \/ /\ Busy(c) /\ Acting(c) /\ load' = load
        /\ \A d \in Clients \ {c} : call'[d].effects = call[d].effects

\* A refused change is none.
LEMMA RejectedStep ==
  ASSUME Inv, NEW c \in Clients, Busy(c), Rejected(c), UNCHANGED <<zid, load, nextId>>
  PROVE  StepOf(c)
BY RefusedQuiet, QuietKeeps DEF Rejected, ServersStay, StepOf

\* A zone that is created is the one asked about.
LEMMA CreateZoneStep ==
  ASSUME Inv, NEW c \in Clients, CreateZone(c)
  PROVE  StepOf(c)
<1> DEFINE s == Server(c)
           z == call[c].ask.zone
<1>1. Busy(c) /\ load' = load /\ Op(c) = "create_zone"
  BY DEF CreateZone, Due
<1>2. s \in Servers /\ z \in Zones
  BY <1>1, ServerType, BusyCall DEF Parameters
<1>3. CASE zid[s][z] # 0
  BY <1>1, <1>3, RejectedStep DEF CreateZone
<1>4. CASE zid[s][z] = 0
  <2>1. /\ nextId < MaxId /\ zid' = [zid EXCEPT ![s][z] = nextId] /\ nextId' = nextId + 1
        /\ Applied(c, held, {<<s, z, "created">>})
    BY <1>4 DEF CreateZone
  <2>2. nextId \in Nat \ {0} /\ zid \in [Servers -> [Zones -> 0..MaxId]] /\ MaxId \in Nat
    BY OperationsAssumption DEF Inv
  <2>3. HeldOK(held, nextId + 1) /\ Moves(held, nextId, held, nextId + 1)
    BY <2>2, Stays
  <2>4. zid' \in [Servers -> [Zones -> 0..MaxId]]
    BY <1>2, <2>1, <2>2
  <2>5. Inv' /\ held' = held /\ \A d \in Clients \ {c} : call'[d].effects = call[d].effects
    BY <1>1, <2>1, <2>2, <2>3, <2>4, AppliedKeeps
  <2>6. Acting(c)
    BY <1>1, <1>2, <2>1, <2>2, <2>5 DEF Acting, DnsWrite, ZoneWrite, ZoneBound, ZoneTools
  <2> QED
    BY <1>1, <2>5, <2>6 DEF StepOf
<1> QED
  BY <1>3, <1>4

\* A zone that is deleted takes its own records only.
LEMMA DeleteZoneStep ==
  ASSUME Inv, NEW c \in Clients, DeleteZone(c)
  PROVE  StepOf(c)
<1> DEFINE s == Server(c)
           z == call[c].ask.zone
           S == held[s] \ InZone(held[s], z)
           h == [held EXCEPT ![s] = S]
<1>1. Busy(c) /\ load' = load /\ nextId' = nextId /\ Op(c) = "delete_zone"
  BY DEF DeleteZone, Due
<1>2. s \in Servers /\ z \in Zones
  BY <1>1, ServerType, BusyCall DEF Parameters
<1>3. CASE ~ZoneStands(c)
  BY <1>1, <1>3, RejectedStep DEF DeleteZone
<1>4. CASE ZoneStands(c)
  <2>1. /\ zid' = [zid EXCEPT ![s][z] = 0]
        /\ Applied(c, h, {<<s, z, "removed">>})
    BY <1>4 DEF DeleteZone
  <2>0. Replaces(h, s, S)
    BY <1>2, ExceptReplaces
  <2> HIDE DEF h
  <2>2. /\ nextId \in Nat \ {0} /\ zid \in [Servers -> [Zones -> 0..MaxId]] /\ MaxId \in Nat
        /\ DOMAIN held = Servers
    BY OperationsAssumption DEF Inv, HeldOK
  <2>3. HeldOK(h, nextId) /\ Moves(held, nextId, h, nextId)
    <3>1. S \in SUBSET held[s] /\ nextId \in Nat /\ nextId <= nextId /\ s \in Servers
      BY <1>2, <2>2
    <3> HIDE DEF S, s
    <3> QED
      BY <2>0, <3>1, Reduced
  <2>4. zid' \in [Servers -> [Zones -> 0..MaxId]]
    BY <1>2, <2>1, <2>2
  <2>5. Inv' /\ held' = h
        /\ \A d \in Clients \ {c} : call'[d].effects = call[d].effects
    BY <1>1, <2>1, <2>2, <2>3, <2>4, AppliedKeeps
  <2>6. Acting(c)
    BY <1>1, <1>2, <2>0, <2>1, <2>2, <2>5
    DEF Acting, Replaces, DnsWrite, ZoneWrite, ZoneBound, ZoneTools, InZone
  <2> QED
    BY <1>1, <2>5, <2>6 DEF StepOf
<1> QED
  BY <1>3, <1>4

\* The name a client sends lies in the zone asked about, but at Pi-hole.
LEMMA SentInZone ==
  ASSUME Inv, NEW c \in Clients, Busy(c), Belongs(c), Vendor(c) # "pihole"
  PROVE  ZoneOf[FullName(Vendor(c), call[c].ask)] = call[c].ask.zone
<1>1. NameOK(call[c].ask)
  BY BusyCall
<1>2. Vendor(c) \in VendorKind
  BY ServerType, OperationsAssumption DEF Vendor
<1> QED
  BY <1>1, <1>2 DEF NameOK, FullName, Belongs, Zoned, VendorKind

\* A record that is added lies in the zone asked about.
LEMMA AddRecordStep ==
  ASSUME Inv, NEW c \in Clients, AddRecord(c)
  PROVE  StepOf(c)
<1> DEFINE s == Server(c)
           r == Stored(s, Sent(c), nextId)
           S == held[s] \cup {r}
           h == [held EXCEPT ![s] = S]
           m == nextId + 1
<1>1. Busy(c) /\ load' = load /\ zid' = zid /\ Op(c) = "add_record"
  BY DEF AddRecord, Due
<1>2. s \in Servers /\ FullName(Vendor(c), call[c].ask) \in Names
  BY <1>1, ServerType, BusyCall DEF NameOK
<1>3. CASE ~ZoneStands(c) \/ ~Belongs(c)
  BY <1>1, <1>3, RejectedStep DEF AddRecord
<1>4. CASE ~(~ZoneStands(c) \/ ~Belongs(c))
  <2>1. nextId' = m /\ Applied(c, h, {})
    BY <1>4 DEF AddRecord
  <2>0. Replaces(h, s, S)
    BY <1>2, ExceptReplaces
  <2>2. /\ nextId \in Nat \ {0} /\ zid \in [Servers -> [Zones -> 0..MaxId]]
        /\ DOMAIN held = Servers /\ IsFiniteSet(held[s])
        /\ \A q \in held[s] : q.name \in Names
    BY <1>2 DEF Inv, HeldOK
  <2>3. /\ r.name = FullName(Vendor(c), call[c].ask) /\ (ById(VendorOf[s]) => r.id = nextId)
        /\ Vendor(c) # "pihole" => ZoneOf[r.name] = call[c].ask.zone
    BY <1>1, <1>4, SentInZone DEF Stored, Sent
  <2> HIDE DEF r, h
  <2>4. IsFiniteSet(S)
    BY <2>2, FS_AddElement
  <2>5. ById(VendorOf[s]) =>
          /\ \A q, p \in S : q.id \in 1..(m - 1) /\ (q.id = p.id => q = p)
          /\ \A p \in S : p.id >= nextId \/ \E q \in held[s] : q.id = p.id /\ q.name = p.name
    BY <1>2, <2>2, <2>3 DEF Inv, HeldOK
  <2>6. \A p \in S : p.name \in Names
    BY <1>2, <2>2, <2>3
  <2>7. HeldOK(h, m) /\ Moves(held, nextId, h, m)
    <3>1. m \in Nat /\ nextId <= m
      BY <2>2
    <3>2. s \in Servers
      BY <1>2
    <3> HIDE DEF s, S, m
    <3> QED
      BY <2>0, <2>4, <2>5, <2>6, <3>1, <3>2, Replaced
  <2>8. Inv' /\ held' = h
        /\ \A d \in Clients \ {c} : call'[d].effects = call[d].effects
    <3>1. m \in Nat \ {0}
      BY <2>2
    <3> HIDE DEF s, S, m
    <3> QED
      BY <1>1, <2>1, <2>2, <2>7, <3>1, AppliedKeeps
  <2>9. Acting(c)
    BY <1>1, <1>2, <2>0, <2>2, <2>3, <2>8
    DEF Acting, Replaces, DnsWrite, RecordWrite, ZoneBound, RecordTools
  <2> QED
    BY <1>1, <2>8, <2>9 DEF StepOf
<1> QED
  BY <1>3, <1>4

\* What is deleted has the name asked for, although an earlier request found it.
LEMMA DeleteRecordStep ==
  ASSUME Inv, NEW c \in Clients, DeleteRecord(c)
  PROVE  StepOf(c)
<1> DEFINE s == Server(c)
           S == held[s] \ Doomed(c)
           h == [held EXCEPT ![s] = S]
<1>1. Busy(c) /\ load' = load /\ zid' = zid /\ nextId' = nextId /\ Op(c) = "delete_record"
  BY DEF DeleteRecord, Due
<1>2. /\ s \in Servers
      /\ CallOK(c, call[c], load, held, nextId) /\ call[c].st = "busy"
  BY <1>1, ServerType, BusyCall
<1>3. CASE Rejected(c)
  BY <1>1, <1>3, RejectedStep
<1>4. CASE Applied(c, h, {}) /\ Belongs(c)
  <2>0. Replaces(h, s, S)
    BY <1>2, ExceptReplaces
  <2>1. Applied(c, h, {})
    BY <1>4
  <2> HIDE DEF h
  <2>2. /\ nextId \in Nat \ {0} /\ zid \in [Servers -> [Zones -> 0..MaxId]]
        /\ DOMAIN held = Servers
    BY DEF Inv, HeldOK
  <2>3. HeldOK(h, nextId) /\ Moves(held, nextId, h, nextId)
    <3>1. S \in SUBSET held[s] /\ nextId \in Nat /\ nextId <= nextId /\ s \in Servers
      BY <1>2, <2>2
    <3> HIDE DEF S, s
    <3> QED
      BY <2>0, <3>1, Reduced
  <2>4. Inv' /\ held' = h
        /\ \A d \in Clients \ {c} : call'[d].effects = call[d].effects
    BY <1>1, <2>1, <2>2, <2>3, AppliedKeeps
  <2>5. call[c].ask.op = "delete_record" /\ s = call[c].ask.server
    <3>1. ~IsTransfer(call[c].ask) /\ ~AcrossZones(call[c].ask)
      BY <1>1, <1>2 DEF Op, Methods, At, CallOK
    <3> QED
      BY <1>1, <3>1, OneMethod
  <2>6. \A r \in Doomed(c) : Vendor(c) # "pihole" => ZoneOf[r.name] = call[c].ask.zone
    <3>1. CASE ById(VendorOf[s])
      <4>1. Known(held[s], nextId, call[c].target, FullName(VendorOf[s], call[c].ask))
        BY <1>2, <2>5, <3>1 DEF CallOK, Found
      <4>2. \A r \in Doomed(c) : r.name = FullName(Vendor(c), call[c].ask)
        BY <3>1, <4>1 DEF Doomed, Vendor, Known
      <4> QED
        BY <1>1, <1>4, <4>2, SentInZone
    <3>2. CASE ~ById(VendorOf[s])
      <4>1. \A r \in Doomed(c) : r.name = FullName(Vendor(c), call[c].ask)
        BY <3>2 DEF Doomed, Vendor
      <4> QED
        BY <1>1, <1>4, <4>1, SentInZone
    <3> QED
      BY <3>1, <3>2
  <2>7. Acting(c)
    BY <1>1, <1>2, <2>0, <2>2, <2>4, <2>6
    DEF Acting, Replaces, DnsWrite, RecordWrite, ZoneBound, RecordTools
  <2> QED
    BY <1>1, <2>4, <2>7 DEF StepOf
<1> QED
  BY <1>3, <1>4 DEF DeleteRecord

\* Caches, access lists, settings and options hold no record.
LEMMA ChangeMarksStep ==
  ASSUME Inv, NEW c \in Clients, ChangeMarks(c)
  PROVE  StepOf(c)
<1>1. /\ Busy(c) /\ load' = load /\ zid' = zid /\ nextId' = nextId /\ Op(c) \in Marking
      /\ Rejected(c) \/ Applied(c, held, {})
  BY DEF ChangeMarks, Due
<1>2. nextId \in Nat \ {0} /\ zid \in [Servers -> [Zones -> 0..MaxId]]
  BY DEF Inv
<1>3. CASE Rejected(c)
  BY <1>1, <1>3, RejectedStep
<1>4. CASE Applied(c, held, {})
  <2>1. HeldOK(held, nextId) /\ Moves(held, nextId, held, nextId)
    BY <1>2, Stays
  <2>2. Inv' /\ held' = held /\ \A d \in Clients \ {c} : call'[d].effects = call[d].effects
    BY <1>1, <1>2, <1>4, <2>1, AppliedKeeps
  <2>3. Op(c) \in DnsWrite
    BY <1>1 DEF Marking, DnsWrite, ZoneWrite
  <2>4. Acting(c)
    BY <1>1, <2>2, <2>3 DEF Acting
  <2> QED
    BY <1>1, <2>2, <2>4 DEF StepOf
<1> QED
  BY <1>1, <1>3, <1>4

\* The records of a file, under new ids.
\* What is stored of a file from an id on: records of its names, under ids of
\* their own.
WellNumbered(s, S, file, id, m) ==
  /\ IsFiniteSet(S) /\ Cardinality(file) \in Nat
  /\ \A r \in S : \E p \in file : r.name = p.name
  /\ ById(VendorOf[s]) =>
       \A q, r \in S : q.id \in id..(m - 1) /\ (q.id = r.id => q = r)

\* The records of a file are stored so.
LEMMA NumberedOK ==
  ASSUME NEW s, NEW file, IsFiniteSet(file), NEW id \in Nat
  PROVE  WellNumbered(s, Numbered(s, file, id), file, id, id + Cardinality(file))
<1> DEFINE ids    == id..(id + Cardinality(file) - 1)
           place  == CHOOSE f \in [file -> ids] : IsInjective(f)
           stored == [p \in file |-> Stored(s, p, place[p])]
<1>1. Cardinality(file) \in Nat
  BY FS_CardinalityType
<1>2. IsFiniteSet(ids) /\ Cardinality(ids) = Cardinality(file)
  <2> DEFINE last == id + Cardinality(file) - 1
  <2>1. id \in Int /\ last \in Int /\ ids = id..last
    BY <1>1
  <2>2. (IF id > last THEN 0 ELSE last - id + 1) = Cardinality(file)
    BY <1>1
  <2> HIDE DEF ids, last
  <2>3. IsFiniteSet(id..last) /\ Cardinality(id..last) = IF id > last THEN 0 ELSE last - id + 1
    BY <2>1, FS_Interval
  <2> QED
    BY <2>1, <2>2, <2>3
<1>3. place \in [file -> ids] /\ IsInjective(place)
  <2>1. ExistsBijection(file, ids)
    BY <1>2, FS_SameCardinalityBij
  <2>2. \E f \in [file -> ids] : IsInjective(f)
    BY <2>1 DEF ExistsBijection, Bijection, Injection
  <2> HIDE DEF ids
  <2> QED
    BY <2>2
<1>4. Numbered(s, file, id) = {Stored(s, p, place[p]) : p \in file}
  BY DEF Numbered
<1> HIDE DEF place, ids
<1>5. IsFiniteSet(Numbered(s, file, id))
  <2>1. stored \in Surjection(file, Numbered(s, file, id))
    BY <1>4 DEF Surjection
  <2> HIDE DEF stored
  <2> QED
    BY <2>1, FS_Surjection
<1>6. \A r \in Numbered(s, file, id) : \E p \in file : r.name = p.name
  BY <1>4 DEF Stored
<1>7. ASSUME ById(VendorOf[s]), NEW q \in Numbered(s, file, id), NEW r \in Numbered(s, file, id)
      PROVE  q.id \in ids /\ (q.id = r.id => q = r)
  <2>1. PICK p \in file : q = Stored(s, p, place[p])
    BY <1>4
  <2>2. PICK t \in file : r = Stored(s, t, place[t])
    BY <1>4
  <2>3. q.id = place[p] /\ r.id = place[t]
    BY <1>7, <2>1, <2>2 DEF Stored
  <2>4. place[p] = place[t] => p = t
    BY <1>3 DEF IsInjective
  <2> QED
    BY <1>3, <2>1, <2>2, <2>3, <2>4
<1> QED
  BY <1>1, <1>5, <1>6, <1>7 DEF ids, WellNumbered

\* A file lies in the zone that is asked about.
LEMMA FileOK ==
  ASSUME Inv, NEW c \in Clients, Busy(c)
  PROVE  /\ IsFiniteSet(FileOf(c))
         /\ \A p \in FileOf(c) : p.name \in Names /\ ZoneOf[p.name] = call[c].ask.zone
<1>1. /\ CallOK(c, call[c], load, held, nextId) /\ call[c].st = "busy"
      /\ call[c].ask \in Parameters
  BY BusyCall
<1>2. CASE IsTransfer(call[c].ask)
  BY <1>1, <1>2 DEF FileOf, CallOK
<1>3. CASE ~IsTransfer(call[c].ask)
  <2>1. FileOf(c) = {p \in {Plain(call[c].ask)} : ZoneOf[p.name] = call[c].ask.zone}
    BY <1>3 DEF FileOf
  <2>2. IsFiniteSet(FileOf(c))
    <3>1. IsFiniteSet({Plain(call[c].ask)}) /\ FileOf(c) \in SUBSET {Plain(call[c].ask)}
      BY <2>1, FS_Singleton
    <3> QED
      BY <3>1, FS_Subset
  <2>3. call[c].ask.name \in Names
    BY <1>1 DEF Parameters
  <2> QED
    BY <2>1, <2>2, <2>3 DEF Plain
<1> QED
  BY <1>2, <1>3

\* What an import that spares these records of the zone does.
Imports(c, spared) ==
  LET s     == Server(c)
      there == InZone(held[s], call[c].ask.zone)
      new   == {p \in FileOf(c) : \A r \in spared : Plain(r) # Plain(Stored(s, p, 0))} IN
  /\ nextId + Cardinality(new) <= MaxId
  /\ nextId' = nextId + Cardinality(new)
  /\ Applied(c, [held EXCEPT ![s] = (@ \ there) \cup spared
                                      \cup Numbered(s, new, nextId)], {})

\* An import changes only records of its zone.
LEMMA ImportZoneStep ==
  ASSUME Inv, NEW c \in Clients, ImportZone(c)
  PROVE  StepOf(c)
<1> DEFINE s      == Server(c)
           a      == call[c].ask
           there  == InZone(held[s], a.zone)
<1>1. Busy(c) /\ load' = load /\ zid' = zid /\ Op(c) \in ZoneImport
  BY DEF ImportZone, Due
<1>2. s \in Servers /\ a \in Parameters
  BY <1>1, ServerType, BusyCall
<1>3. CASE ~ZoneStands(c) \/ call[c].heard = "refused"
  BY <1>1, <1>3, RejectedStep DEF ImportZone
<1>4. ASSUME ~(~ZoneStands(c) \/ call[c].heard = "refused"),
             NEW spared \in Spared(Vendor(c), there, FileOf(c), a.flag),
             Imports(c, spared)
      PROVE  StepOf(c)
  <2> DEFINE new   == {p \in FileOf(c) : \A r \in spared : Plain(r) # Plain(Stored(s, p, 0))}
             added == Numbered(s, new, nextId)
             S     == (held[s] \ there) \cup spared \cup added
             h     == [held EXCEPT ![s] = S]
             m     == nextId + Cardinality(new)
  <2>1. nextId' = m /\ Applied(c, h, {})
    BY <1>4 DEF Imports
  <2>2. /\ nextId \in Nat \ {0} /\ zid \in [Servers -> [Zones -> 0..MaxId]]
        /\ DOMAIN held = Servers /\ IsFiniteSet(held[s])
        /\ \A q \in held[s] : q.name \in Names
    BY <1>2 DEF Inv, HeldOK
  <2>3. spared \subseteq there /\ there \subseteq held[s]
    <3>1. spared \in Spared(Vendor(c), there, FileOf(c), a.flag)
      BY <1>4
    <3>2. \A v, all, file, flag : \A left \in Spared(v, all, file, flag) : left \subseteq all
      BY DEF Spared
    <3> QED
      BY <3>1, <3>2 DEF InZone
  <2>4. /\ IsFiniteSet(new)
        /\ \A p \in new : p.name \in Names /\ ZoneOf[p.name] = a.zone
    BY <1>1, FileOK, FS_Subset
  <2>5. Replaces(h, s, S)
    BY <1>2, ExceptReplaces
  <2> HIDE DEF new, h
  <2>6. /\ IsFiniteSet(added) /\ Cardinality(new) \in Nat
        /\ \A r \in added : \E p \in new : r.name = p.name
        /\ ById(VendorOf[s]) =>
             \A q, r \in added : q.id \in nextId..(m - 1) /\ (q.id = r.id => q = r)
    <3>1. WellNumbered(s, added, new, nextId, m)
      <4>1. IsFiniteSet(new) /\ nextId \in Nat
        BY <2>2, <2>4
      <4> HIDE DEF s
      <4> QED
        BY <4>1, NumberedOK
    <3> HIDE DEF s, added, m
    <3> QED
      BY <3>1 DEF WellNumbered
  <2>7. m \in Nat \ {0} /\ nextId <= m
    BY <2>2, <2>6
  <2> HIDE DEF added, m
  <2>8. IsFiniteSet(S)
    <3>1. IsFiniteSet((held[s] \ there) \cup spared)
      BY <2>2, <2>3, FS_Subset
    <3> QED
      BY <2>6, <3>1, FS_Union
  <2>9. \A r \in S : r.name \in Names
    BY <2>2, <2>3, <2>4, <2>6
  <2>10. ASSUME ById(VendorOf[s])
         PROVE  /\ \A q, r \in S : q.id \in 1..(m - 1) /\ (q.id = r.id => q = r)
                /\ \A r \in S : r.id >= nextId \/ \E q \in held[s] : q.id = r.id /\ q.name = r.name
    <3>1. \A q, r \in held[s] : q.id \in 1..(nextId - 1) /\ (q.id = r.id => q = r)
      BY <1>2, <2>10 DEF Inv, HeldOK
    <3>2. S \subseteq held[s] \cup added
      BY <2>3
    <3>3. \A q, r \in added : q.id \in nextId..(m - 1) /\ (q.id = r.id => q = r)
      BY <2>6, <2>10
    <3> HIDE DEF S, there
    <3> QED
      BY <2>2, <2>7, <3>1, <3>2, <3>3
  <2>11. HeldOK(h, m) /\ Moves(held, nextId, h, m)
    <3> HIDE DEF s, S
    <3> QED
      BY <1>2, <2>5, <2>7, <2>8, <2>9, <2>10, Replaced
  <2>12. Inv' /\ held' = h
         /\ \A d \in Clients \ {c} : call'[d].effects = call[d].effects
    <3> HIDE DEF s, S
    <3> QED
      BY <1>1, <2>1, <2>2, <2>7, <2>11, AppliedKeeps
  <2>13. \A r \in (held[s] \ S) \cup (S \ held[s]) : ZoneOf[r.name] = a.zone
    BY <2>3, <2>4, <2>6 DEF InZone
  <2>14. Acting(c)
    <3>1. Op(c) \in DnsWrite /\ Op(c) \in ZoneBound
      BY <1>1 DEF DnsWrite, ZoneImport, ZoneBound, ZoneTools
    <3>2. held'[s] = S /\ \A t \in Servers \ {s} : held'[t] = held[t]
      BY <2>5, <2>12 DEF Replaces
    <3> HIDE DEF S
    <3> QED
      BY <1>1, <2>13, <3>1, <3>2 DEF Acting
  <2> QED
    BY <1>1, <2>12, <2>14 DEF StepOf
<1> QED
  BY <1>3, <1>4 DEF ImportZone, Imports

-----------------------------------------------------------------------------
(* The steps of others *)

\* A change by others that moves records keeps the invariant:
LEMMA OtherStep ==
  ASSUME Inv, NEW s \in Servers, NEW S, OthersChange(s, S),
         NEW m \in Nat \ {0}, nextId' = m, zid' \in [Servers -> [Zones -> 0..MaxId]],
         \A h : Replaces(h, s, S) => HeldOK(h, m) /\ Moves(held, nextId, h, m)
  PROVE  Inv' /\ \A d \in Clients : call'[d].effects = call[d].effects
<1> DEFINE h == [held EXCEPT ![s] = S]
<1>1. held' = h /\ call' = Watched(h, {}) /\ load' = load
  BY DEF OthersChange
<1>2. HeldOK(h, m) /\ Moves(held, nextId, h, m)
  BY ExceptReplaces
<1> HIDE DEF h
<1> QED
  BY <1>1, <1>2, OthersKeep

\* a record with a new id,
LEMMA OtherAddsStep ==
  ASSUME Inv, NEW s \in Servers, OtherAdds(s)
  PROVE  Inv' /\ \A d \in Clients : call'[d].effects = call[d].effects
<1> DEFINE m == nextId + 1
<1>1. PICK p \in Others[s] : OthersChange(s, held[s] \cup {Stored(s, p, nextId)})
  BY DEF OtherAdds
<1>2. nextId' = m /\ zid' = zid
  BY DEF OtherAdds
<1>3. /\ nextId \in Nat \ {0} /\ zid \in [Servers -> [Zones -> 0..MaxId]]
      /\ DOMAIN held = Servers /\ IsFiniteSet(held[s])
      /\ \A q \in held[s] : q.name \in Names
  BY DEF Inv, HeldOK
<1>4. m \in Nat \ {0} /\ nextId <= m
  BY <1>3
<1> DEFINE r == Stored(s, p, nextId)
           S == held[s] \cup {r}
<1>5. r.name \in Names /\ (ById(VendorOf[s]) => r.id = nextId)
  BY OperationsAssumption DEF Stored
<1>6. OthersChange(s, S)
  BY <1>1
<1> HIDE DEF r
<1>7. IsFiniteSet(S)
  BY <1>3, FS_AddElement
<1>8. ById(VendorOf[s]) =>
        /\ \A q, t \in S : q.id \in 1..(m - 1) /\ (q.id = t.id => q = t)
        /\ \A t \in S : t.id >= nextId \/ \E q \in held[s] : q.id = t.id /\ q.name = t.name
  BY <1>3, <1>5 DEF Inv, HeldOK
<1>9. \A t \in S : t.name \in Names
  BY <1>3, <1>5
<1> HIDE DEF S, m
<1>10. \A h : Replaces(h, s, S) => HeldOK(h, m) /\ Moves(held, nextId, h, m)
  BY <1>4, <1>7, <1>8, <1>9, Replaced
<1> QED
  BY <1>2, <1>3, <1>4, <1>6, <1>10, OtherStep

\* a record less,
LEMMA OtherRemovesStep ==
  ASSUME Inv, NEW s \in Servers, OtherRemoves(s)
  PROVE  Inv' /\ \A d \in Clients : call'[d].effects = call[d].effects
<1>1. PICK r \in held[s] : OthersChange(s, held[s] \ {r})
  BY DEF OtherRemoves
<1>2. nextId' = nextId /\ zid' = zid
  BY DEF OtherRemoves
<1>3. nextId \in Nat \ {0} /\ zid \in [Servers -> [Zones -> 0..MaxId]]
  BY DEF Inv
<1> DEFINE S == held[s] \ {r}
<1>4. S \in SUBSET held[s] /\ OthersChange(s, S) /\ nextId <= nextId
  BY <1>1, <1>3
<1> HIDE DEF S
<1>5. \A h : Replaces(h, s, S) => HeldOK(h, nextId) /\ Moves(held, nextId, h, nextId)
  BY <1>3, <1>4, Reduced
<1> QED
  BY <1>2, <1>3, <1>4, <1>5, OtherStep

\* a record edited in place,
LEMMA OtherEditsStep ==
  ASSUME Inv, NEW s \in Servers, OtherEdits(s)
  PROVE  Inv' /\ \A d \in Clients : call'[d].effects = call[d].effects
<1>1. PICK r \in held[s], p \in Others[s] :
        p.name = r.name /\ OthersChange(s, (held[s] \ {r}) \cup {Stored(s, p, r.id)})
  BY DEF OtherEdits
<1>2. nextId' = nextId /\ zid' = zid /\ ById(VendorOf[s])
  BY DEF OtherEdits
<1>3. /\ nextId \in Nat \ {0} /\ zid \in [Servers -> [Zones -> 0..MaxId]]
      /\ IsFiniteSet(held[s]) /\ nextId <= nextId
      /\ \A q \in held[s] : q.name \in Names
      /\ \A q, t \in held[s] : q.id \in 1..(nextId - 1) /\ (q.id = t.id => q = t)
  BY <1>2 DEF Inv, HeldOK
<1> DEFINE e == Stored(s, p, r.id)
           S == (held[s] \ {r}) \cup {e}
<1>4. e.name = r.name /\ e.id = r.id
  BY <1>1, <1>2 DEF Stored
<1>5. OthersChange(s, S)
  BY <1>1
<1> HIDE DEF e
<1>6. IsFiniteSet(S)
  BY <1>3, FS_AddElement, FS_Subset, held[s] \ {r} \subseteq held[s]
<1>7. /\ \A q, t \in S : q.id \in 1..(nextId - 1) /\ (q.id = t.id => q = t)
      /\ \A t \in S : \E q \in held[s] : q.id = t.id /\ q.name = t.name
  BY <1>3, <1>4
<1>8. \A t \in S : t.name \in Names
  BY <1>3, <1>4
<1> HIDE DEF S
<1>9. \A h : Replaces(h, s, S) => HeldOK(h, nextId) /\ Moves(held, nextId, h, nextId)
  BY <1>3, <1>6, <1>7, <1>8, Replaced
<1> QED
  BY <1>2, <1>3, <1>5, <1>9, OtherStep

\* a zone emptied.
LEMMA OtherRecreatesStep ==
  ASSUME Inv, NEW s \in Servers, OtherRecreates(s)
  PROVE  Inv' /\ \A d \in Clients : call'[d].effects = call[d].effects
<1> DEFINE m == nextId + 1
<1>1. PICK z \in Zones : /\ nextId < MaxId /\ zid' = [zid EXCEPT ![s][z] = nextId]
                         /\ OthersChange(s, held[s] \ InZone(held[s], z))
  BY DEF OtherRecreates
<1>2. nextId' = m
  BY DEF OtherRecreates
<1>3. nextId \in Nat \ {0} /\ zid \in [Servers -> [Zones -> 0..MaxId]] /\ MaxId \in Nat
  BY OperationsAssumption DEF Inv
<1>4. m \in Nat \ {0} /\ nextId <= m
  BY <1>3
<1>5. zid' \in [Servers -> [Zones -> 0..MaxId]]
  BY <1>1, <1>3
<1> DEFINE S == held[s] \ InZone(held[s], z)
<1>6. S \in SUBSET held[s] /\ OthersChange(s, S)
  BY <1>1
<1> HIDE DEF S, m
<1>7. \A h : Replaces(h, s, S) => HeldOK(h, m) /\ Moves(held, nextId, h, m)
  BY <1>4, <1>6, Reduced
<1> QED
  BY <1>2, <1>4, <1>5, <1>6, <1>7, OtherStep

-----------------------------------------------------------------------------
(* What is changed through MCP is permitted *)

\* The checks of the tool still stand when its call changes something.
LEMMA ClearedOp ==
  ASSUME Inv, NEW c \in Clients, Busy(c), call[c].mcp, Op(c) \in DnsWrite
  PROVE  /\ Resolvable(Conf[Server(c)], load.cli)
         /\ check(Narrowed(Server(c), load), RuleOf(Op(c)))
         /\ Op(c) \in ZoneBound => check_zone(Narrowed(Server(c), load), call[c].ask.zone)
<1> DEFINE a == call[c].ask
<1>1. /\ call[c].leg \in {1, 2} /\ Cleared(call[c], load)
      /\ call[c].leg = 2 => IsTransfer(a) \/ AcrossZones(a)
  BY BusyCall DEF CallOK
<1>2. Resolvable(Conf[Server(c)], load.cli)
  <2>1. Server(c) \in ServersOf(a)
    <3>1. call[c].leg \in DOMAIN Methods(a)
      BY <1>1 DEF Methods
    <3> QED
      BY <3>1 DEF Server, ServersOf
  <2> QED
    BY <1>1, <2>1 DEF Cleared
<1>3. CASE IsTransfer(a)
  <2>1. call[c].leg = 2
    BY <1>1, <1>3 DEF Op, Methods, At, DnsWrite, ZoneWrite, RecordWrite, CacheWrite,
                      AccessListWrite, ZoneImport, SettingsWrite, ZoneOptionsWrite
  <2>2. Op(c) = "import_zone_file" /\ Server(c) = a.to
    BY <1>3, <2>1 DEF Op, Server, Methods, At
  <2>3. Permits(Narrowed(a.to, load), "import_zone_file", {a.zone})
    BY <1>1, <1>3 DEF Cleared, PermitsTransfer
  <2> QED
    BY <1>2, <2>2, <2>3 DEF Permits
<1>4. CASE ~IsTransfer(a)
  <2>1. ~AcrossZones(a)
    BY <1>1, <1>4 DEF Op, Methods, At, DnsWrite, ZoneWrite, RecordWrite, CacheWrite,
                      AccessListWrite, ZoneImport, SettingsWrite, ZoneOptionsWrite
  <2>2. Op(c) = a.op /\ Server(c) = a.server
    BY <1>4, <2>1, OneMethod
  <2>3. Permits(Narrowed(a.server, load), a.op, Named(a))
    BY <1>1, <1>4 DEF Cleared
  <2>4. a.op # "list_records"
    BY <2>2 DEF DnsWrite, ZoneWrite, RecordWrite, CacheWrite,
                AccessListWrite, ZoneImport, SettingsWrite, ZoneOptionsWrite
  <2>5. a.op \in ZoneBound => Named(a) = {a.zone}
    BY <2>4 DEF Named
  <2> QED
    BY <1>2, <2>2, <2>3, <2>5 DEF Permits
<1> QED
  BY <1>3, <1>4

\* So a change made through MCP is permitted.
LEMMA ActingIsPermitted ==
  ASSUME Inv, NEW c \in Clients, Busy(c), call[c].mcp, Acting(c)
  PROVE  Permitted(c)
<1> DEFINE s == Server(c)
           z == call[c].ask.zone
<1>1. /\ Resolvable(Conf[s], load.cli)
      /\ check(for_server(Conf[s], load.cli), RuleOf(Op(c)))
      /\ Op(c) \in ZoneBound => check_zone(for_server(Conf[s], load.cli), z)
  BY ClearedOp DEF Acting, Narrowed
<1>2. Conf[s] \in Policy /\ load.cli \in Policy /\ z \in Domains
  BY ServerType, BusyCall, OperationsAssumption DEF Inv, Parameters
<1>3. check(Conf[s], RuleOf(Op(c))) /\ (load.cli.allowed # {} => check(load.cli, RuleOf(Op(c))))
  BY <1>1, <1>2, RulesNarrow
<1>4. Op(c) \in ZoneBound => check_zone(Conf[s], z) /\ check_zone(load.cli, z)
  BY <1>1, <1>2, ZonesNarrow
<1>5. /\ \A r \in (held[s] \ held'[s]) \cup (held'[s] \ held[s]) :
           Op(c) \in ZoneBound /\ (Vendor(c) # "pihole" => ZoneOf[r.name] = z)
      /\ \A y \in Zones : zid'[s][y] # zid[s][y] => Op(c) \in ZoneBound /\ y = z
      /\ \A t \in Servers \ {s} : held'[t] = held[t] /\ zid'[t] = zid[t]
  BY DEF Acting
<1>6. Vendor(c) # "pihole" => InPermittedZones(s)
  <2> HAVE Vendor(c) # "pihole"
  <2>1. \A y \in Touched(s) : Op(c) \in ZoneBound /\ y = z
    BY <1>5 DEF Touched
  <2> QED
    BY <1>4, <2>1 DEF InPermittedZones
<1> QED
  BY <1>3, <1>5, <1>6 DEF Permitted

\* A step of a client keeps the invariant, and changes what it may.
LEMMA ClientStep ==
  ASSUME Inv, NEW c \in Clients,
         StartTool(c) \/ StartCommand(c) \/ Advance(c) \/ Refuse(c) \/ Fail(c)
  PROVE  StepOf(c)
<1>1. CASE \/ StartTool(c) \/ StartCommand(c) \/ Lookup(c) \/ Fetch(c) \/ Refuse(c) \/ Fail(c)
           \/ ReadRecords(c) \/ Read(c) \/ ExportZone(c)
  <2>1. Quiet(c)
    BY <1>1, StartQuiet, LookUpQuiet, LookUpDomainQuiet, FindRecordQuiet, FetchZonesQuiet,
       FetchPageQuiet, ListingQuiet, ReadQuiet, ExportQuiet, FailureQuiet
    DEF Lookup, Fetch
  <2> QED
    BY <2>1, QuietKeeps DEF StepOf
<1>2. CASE \/ CreateZone(c) \/ DeleteZone(c) \/ AddRecord(c) \/ DeleteRecord(c)
           \/ ChangeMarks(c) \/ ImportZone(c)
  BY <1>2, CreateZoneStep, DeleteZoneStep, AddRecordStep, DeleteRecordStep,
     ChangeMarksStep, ImportZoneStep
<1> QED
  BY <1>1, <1>2 DEF Advance, Work

\* A step of others changes nothing on behalf of a call.
LEMMA OtherUsersStep ==
  ASSUME Inv, NEW s \in load.shared, OtherUsers(s)
  PROVE  Inv' /\ \A d \in Clients : call'[d].effects = call[d].effects
<1>1. s \in Servers
  BY OperationsAssumption DEF Inv
<1> QED
  BY <1>1, OtherAddsStep, OtherRemovesStep, OtherEditsStep, OtherRecreatesStep DEF OtherUsers

\* The invariant holds at first.
LEMMA InitInv ==
  ASSUME Init
  PROVE  Inv
<1>1. /\ FirstId \in Nat \ {0} /\ MaxId \in Nat
      /\ InitZones \in [Servers -> [Zones -> 0..MaxId]]
  BY OperationsAssumption
<1>2. HeldOK(held, nextId)
  <2>1. ASSUME NEW s \in Servers
        PROVE  /\ IsFiniteSet(held[s])
               /\ \A r \in held[s] : r.name \in Names
               /\ ById(VendorOf[s]) =>
                    \A q, r \in held[s] : q.id \in 1..(nextId - 1) /\ (q.id = r.id => q = r)
    BY OperationsAssumption DEF Init, Record
  <2> QED
    BY <2>1, OperationsAssumption DEF Init, HeldOK
<1>3. \A c \in Clients : CallOK(c, Idle, load, held, nextId)
  BY FS_EmptySet DEF CallOK, Idle, Fields
<1> QED
  BY <1>1, <1>2, <1>3 DEF Init, Inv

\* What one step does: the invariant stays, and a change is permitted.
LEMMA EveryStep ==
  ASSUME Inv, [Next]_vars
  PROVE  Inv' /\ \A c \in Clients : Acts(c) /\ call[c].mcp => Permitted(c)
<1>0. \A d \in Clients : call[d].effects \in Nat
  BY DEF Inv, CallOK
<1>1. ASSUME NEW c \in Clients,
             StartTool(c) \/ StartCommand(c) \/ Advance(c) \/ Refuse(c) \/ Fail(c)
      PROVE  Inv' /\ \A d \in Clients : Acts(d) /\ call[d].mcp => Permitted(d)
  <2>1. StepOf(c)
    BY <1>1, ClientStep
  <2>2. CASE \A d \in Clients : call'[d].effects <= call[d].effects
    <3>1. \A d \in Clients : call'[d].effects \in Nat
      BY <2>1 DEF StepOf, Inv, CallOK
    <3>2. \A d \in Clients : ~Acts(d)
      BY <1>0, <2>2, <3>1 DEF Acts
    <3> QED
      BY <2>1, <3>2 DEF StepOf
  <2>3. CASE /\ Busy(c) /\ Acting(c)
             /\ \A d \in Clients \ {c} : call'[d].effects = call[d].effects
    <3>1. \A d \in Clients : Acts(d) => d = c
      BY <1>0, <2>3 DEF Acts
    <3> QED
      BY <2>1, <2>3, <3>1, ActingIsPermitted DEF StepOf
  <2> QED
    BY <2>1, <2>2, <2>3 DEF StepOf
<1>2. ASSUME NEW s \in load.shared, OtherUsers(s)
      PROVE  Inv' /\ \A d \in Clients : Acts(d) /\ call[d].mcp => Permitted(d)
  BY <1>0, <1>2, OtherUsersStep DEF Acts
<1>3. CASE UNCHANGED vars
  <2>1. call' = call /\ load' = load /\ held' = held /\ zid' = zid /\ nextId' = nextId
    BY <1>3 DEF vars
  <2>2. Inv'
    BY <2>1, InvNext DEF Inv
  <2> QED
    BY <1>0, <2>1, <2>2 DEF Acts
<1> QED
  BY <1>1, <1>2, <1>3 DEF Next

\* Whatever clients, servers, vendors, zones, policies and options there
\* are, whatever other users do meanwhile and however requests fail: a change
\* made through MCP is one the server's configuration grants and the options
\* do not exclude and at no other server; and, Pi-hole aside, to records and
\* zones in zones that both allow (the checks of mcp/tools, policy/mod.rs,
\* mcp/server/zones.rs, with the names the clients send).
THEOREM OnlyPermittedChanges == Spec => OnlyPermitted
<1>1. Init => Inv
  BY InitInv
<1>2. Inv /\ [Next]_vars => Inv'
  BY EveryStep
<1>3. Inv /\ [Next]_vars => [\A c \in Clients : Acts(c) /\ call[c].mcp => Permitted(c)]_vars
  BY EveryStep
<1> QED
  BY <1>1, <1>2, <1>3, PTL DEF Spec, OnlyPermitted
=============================================================================
