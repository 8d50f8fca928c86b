-------------------------- MODULE Outcomes_proofs --------------------------
(***************************************************************************)
(* Proofs about what the calls of Operations do and report, for any        *)
(* clients, servers, vendors, zones and workloads: an outcome tells the    *)
(* truth, a transfer copies, a delete takes what was asked, and what was   *)
(* added reads back.                                                       *)
(***************************************************************************)
EXTENDS Operations_proofs

-----------------------------------------------------------------------------
(* What the five clients have in common *)

\* Only a file of Technitium's is read from a refusal.
LEMMA RefusalIsError ==
  ASSUME NEW v \in VendorKind, NEW op, NEW request, NEW ans \in Refusals(v),
         Reads(v, op, request, ans)
  PROVE  v = "technitium" /\ op \in ZoneExport \cup LogsRead /\ request = "act"
<1>1. CASE v = "technitium"
  <2>1. ans \in T!Refusals /\ T!Reads(op, request, ans)
    BY <1>1, Zenon DEF Refusals, Reads
  <2> QED
    BY <1>1, <2>1
    DEF T!Refusals, T!Ans, T!Reads, T!parse_response, T!get_text,
        T!ZoneExport, T!LogsRead, ZoneExport, LogsRead
<1>2. CASE v = "cloudflare"
  <2>1. ans \in C!Refusals /\ C!Reads(op, request, ans)
    BY <1>2, Zenon DEF Refusals, Reads
  <2> QED
    BY <1>2, <2>1
    DEF C!Refusals, C!Ans, C!Reads, C!parse_response, C!parse_text_response,
        C!ZoneExport
<1>3. CASE v = "unifi"
  <2>1. ans \in U!Refusals /\ U!parse_json_response(ans)
    BY <1>3, Zenon DEF Refusals, Reads
  <2> QED
    BY <1>3, <2>1
    DEF U!Refusals, U!Ans, U!parse_json_response
<1>4. CASE v = "pihole"
  <2>1. ans \in P!Refusals /\ P!parse_response(ans)
    BY <1>4, Zenon DEF Refusals, Reads
  <2> QED
    BY <1>4, <2>1
    DEF P!Refusals, P!Ans, P!parse_response
<1>5. CASE v = "pangolin"
  <2>1. ans \in G!Refusals /\ G!parse_response(ans)
    BY <1>5, Zenon DEF Refusals, Reads
  <2> QED
    BY <1>5, <2>1
    DEF G!Refusals, G!Ans, G!parse_response
<1> QED
  BY <1>1, <1>2, <1>3, <1>4, <1>5 DEF VendorKind

\* A client takes the answer to a change that was made for what it is.
LEMMA GrantIsRead ==
  ASSUME NEW v \in VendorKind \ {"pangolin"}, NEW op \in DnsWrite, NEW request,
         NEW ans \in Grants(v, op)
  PROVE  Reads(v, op, request, ans)
<1>1. CASE v = "technitium"
  <2>1. /\ ans \in T!Grants(op)
        /\ T!Reads(op, request, ans) => Reads(v, op, request, ans)
    BY <1>1, Zenon DEF Grants, Reads
  <2> QED
    BY <1>1, <2>1
    DEF T!Grants, T!Ans, T!Reads, T!parse_response, T!get_text,
        T!ZoneExport, T!LogsRead, DnsWrite, ZoneWrite, RecordWrite, CacheWrite,
        AccessListWrite, ZoneImport, SettingsWrite, ZoneOptionsWrite
<1>2. CASE v = "cloudflare"
  <2>1. /\ ans \in C!Grants(op)
        /\ C!Reads(op, request, ans) => Reads(v, op, request, ans)
    BY <1>2, Zenon DEF Grants, Reads
  <2> QED
    BY <1>2, <2>1
    DEF C!Grants, C!Ans, C!Reads, C!parse_response, C!parse_text_response,
        C!ZoneExport, DnsWrite, ZoneWrite, RecordWrite, CacheWrite,
        AccessListWrite, ZoneImport, SettingsWrite, ZoneOptionsWrite
<1>3. CASE v = "unifi"
  <2>1. /\ ans \in U!Grants(op)
        /\ U!parse_json_response(ans) => Reads(v, op, request, ans)
    BY <1>3, Zenon DEF Grants, Reads
  <2> QED
    BY <1>3, <2>1
    DEF U!Grants, U!Ans, U!parse_json_response
<1>4. CASE v = "pihole"
  <2>1. /\ ans \in P!Grants(op)
        /\ P!parse_response(ans) => Reads(v, op, request, ans)
    BY <1>4, Zenon DEF Grants, Reads
  <2> QED
    BY <1>4, <2>1
    DEF P!Grants, P!Ans, P!parse_response
<1> QED
  BY <1>1, <1>2, <1>3, <1>4 DEF VendorKind

\* The requests of a change: lookups, and the one that makes it as the last.
ChangeTodo == {<<"act">>, <<"zone", "act">>, <<"find", "act">>, <<"zone", "find", "act">>,
               <<"site", "act">>, <<"page", "act">>, <<"site", "page", "act">>}

\* Those of a file, which is the last answer.
FileTodo == {<<"act">>, <<"zone", "act">>, <<"find", "act">>}

\* The requests a client has for a method agree with what it declares.
Fits(v, a, todo) ==
  IF todo = Unsupported THEN a.op \in DnsRead \cup ZoneImport => a.op \notin Declared(v)
  ELSE /\ a.op \in Declared(v) \cup StatsRead
       /\ a.op \in DnsWrite => todo \in ChangeTodo /\ v # "pangolin"
       /\ a.op \in ZoneExport \cup LogsRead => todo \in FileTodo

LEMMA TechnitiumFits ==
  ASSUME NEW a, a.op \in DnsService
  PROVE  Fits("technitium", a, T!Requests(a))
<1>1. \A m : m \in Declared("technitium") <=>
        \E f \in T!capabilities : m \in VendorCapabilities[f]
  <2>1. Declared("technitium") = UNION {VendorCapabilities[f] : f \in T!capabilities}
    BY Zenon DEF Declared
  <2> QED
    BY <2>1
<1>2. a.op \in Declared("technitium") <=>
        a.op \in ZoneWrite \cup {"list_zones"} \cup RecordWrite
                    \cup {"list_records"} \cup CacheRead \cup CacheWrite
                    \cup AccessListRead \cup AccessListWrite \cup SettingsRead
                    \cup ZoneImport \cup ZoneExport \cup LogsRead
                    \cup ZoneOptionsRead \cup ZoneOptionsWrite \cup SettingsWrite
  BY <1>1 DEF T!capabilities, VendorCapabilities, T!VendorCapabilities
<1>3. /\ T!Requests(a) \in {<<"act">>, <<"find", "act">>}
      /\ a.op # "get_logs" => T!Requests(a) = <<"act">>
  BY DEF DnsService, DnsRead, DnsWrite,
      ZoneRead, ZoneWrite, RecordWrite, CacheRead, CacheWrite, StatsRead,
      AccessListRead, AccessListWrite, ZoneImport, ZoneExport, SettingsRead,
      SettingsWrite, ZoneOptionsRead, ZoneOptionsWrite, LogsRead,
      T!ZoneRead, T!ZoneWrite, T!RecordWrite, T!CacheRead, T!CacheWrite, T!StatsRead,
      T!AccessListRead, T!AccessListWrite, T!ZoneImport, T!ZoneExport, T!SettingsRead,
      T!SettingsWrite, T!ZoneOptionsRead, T!ZoneOptionsWrite, T!LogsRead, T!ZoneReads,
      T!ZoneWrites, T!RecordWrites, T!CacheReads, T!CacheWrites, T!StatsReads,
      T!AccessListReads, T!AccessListWrites, T!ZoneImports, T!ZoneExports,
      T!SettingsReads, T!SettingsWrites, T!ZoneOptionsReads, T!ZoneOptionsWrites,
      T!LogsReads, T!Requests
<1> QED
  BY <1>2, <1>3
  DEF Fits, ChangeTodo, FileTodo, Unsupported,
      ZoneRead, ZoneWrite, RecordWrite, CacheRead, CacheWrite, StatsRead,
      AccessListRead, AccessListWrite, ZoneImport, ZoneExport, SettingsRead,
      SettingsWrite, ZoneOptionsRead, ZoneOptionsWrite, LogsRead, DnsService, DnsRead,
      DnsWrite

LEMMA CloudflareFits ==
  ASSUME NEW a, a.op \in DnsService
  PROVE  Fits("cloudflare", a, C!Requests(a))
<1>1. \A m : m \in Declared("cloudflare") <=>
        \E f \in C!capabilities : m \in VendorCapabilities[f]
  <2>1. Declared("cloudflare") = UNION {VendorCapabilities[f] : f \in C!capabilities}
    BY Zenon DEF Declared
  <2> QED
    BY <2>1
<1>2. a.op \in Declared("cloudflare") <=>
        a.op \in ZoneWrite \cup {"list_zones"} \cup RecordWrite
                    \cup {"list_records"} \cup SettingsRead \cup ZoneImport
                    \cup ZoneExport
  BY <1>1 DEF C!capabilities, VendorCapabilities, C!VendorCapabilities
<1> QED
  BY <1>2
  DEF Fits, ChangeTodo, FileTodo, Unsupported,
      ZoneRead, ZoneWrite, RecordWrite, CacheRead, CacheWrite, StatsRead,
      AccessListRead, AccessListWrite, ZoneImport, ZoneExport, SettingsRead,
      SettingsWrite, ZoneOptionsRead, ZoneOptionsWrite, LogsRead, DnsService, DnsRead,
      DnsWrite,
      C!ZoneRead, C!ZoneWrite, C!RecordWrite, C!CacheRead, C!CacheWrite, C!StatsRead,
      C!AccessListRead, C!AccessListWrite, C!ZoneImport, C!ZoneExport, C!SettingsRead,
      C!SettingsWrite, C!ZoneOptionsRead, C!ZoneOptionsWrite, C!LogsRead, C!ZoneReads,
      C!ZoneWrites, C!RecordWrites, C!ZoneImports, C!ZoneExports, C!SettingsReads,
      C!Unoffered, C!UnofferedSettings, C!Unsupported, C!Requests

LEMMA UnifiFits ==
  ASSUME NEW a, a.op \in DnsService
  PROVE  Fits("unifi", a, U!Requests(a))
<1>1. \A m : m \in Declared("unifi") <=>
        \E f \in U!capabilities : m \in VendorCapabilities[f]
  <2>1. Declared("unifi") = UNION {VendorCapabilities[f] : f \in U!capabilities}
    BY Zenon DEF Declared
  <2> QED
    BY <2>1
<1>2. a.op \in Declared("unifi") <=>
        a.op \in RecordWrite \cup {"list_records"} \cup SettingsRead
  BY <1>1 DEF U!capabilities, VendorCapabilities, U!VendorCapabilities
<1> QED
  BY <1>2
  DEF Fits, ChangeTodo, FileTodo, Unsupported,
      ZoneRead, ZoneWrite, RecordWrite, CacheRead, CacheWrite, StatsRead,
      AccessListRead, AccessListWrite, ZoneImport, ZoneExport, SettingsRead,
      SettingsWrite, ZoneOptionsRead, ZoneOptionsWrite, LogsRead, DnsService, DnsRead,
      DnsWrite,
      U!ZoneRead, U!ZoneWrite, U!RecordWrite, U!CacheRead, U!CacheWrite, U!StatsRead,
      U!AccessListRead, U!AccessListWrite, U!ZoneImport, U!ZoneExport, U!SettingsRead,
      U!SettingsWrite, U!ZoneOptionsRead, U!ZoneOptionsWrite, U!LogsRead, U!ZoneReads,
      U!ZoneWrites, U!AddRecord, U!DeleteRecord, U!Storable, U!SettingsReads,
      U!Unoffered, U!UnofferedSettings, U!Unsupported, U!Requests

LEMMA PiholeFits ==
  ASSUME NEW a, a.op \in DnsService
  PROVE  Fits("pihole", a, P!Requests(a))
<1>1. \A m : m \in Declared("pihole") <=>
        \E f \in P!capabilities : m \in VendorCapabilities[f]
  <2>1. Declared("pihole") = UNION {VendorCapabilities[f] : f \in P!capabilities}
    BY Zenon DEF Declared
  <2> QED
    BY <2>1
<1>2. a.op \in Declared("pihole") <=>
        a.op \in RecordWrite \cup {"list_records"} \cup CacheRead \cup CacheWrite
                    \cup AccessListRead \cup AccessListWrite \cup SettingsRead
  BY <1>1 DEF P!capabilities, VendorCapabilities, P!VendorCapabilities
<1> QED
  BY <1>2
  DEF Fits, ChangeTodo, FileTodo, Unsupported,
      ZoneRead, ZoneWrite, RecordWrite, CacheRead, CacheWrite, StatsRead,
      AccessListRead, AccessListWrite, ZoneImport, ZoneExport, SettingsRead,
      SettingsWrite, ZoneOptionsRead, ZoneOptionsWrite, LogsRead, DnsService, DnsRead,
      DnsWrite,
      P!ZoneRead, P!ZoneWrite, P!RecordWrite, P!CacheRead, P!CacheWrite, P!StatsRead,
      P!AccessListRead, P!AccessListWrite, P!ZoneImport, P!ZoneExport, P!SettingsRead,
      P!SettingsWrite, P!ZoneOptionsRead, P!ZoneOptionsWrite, P!LogsRead, P!ZoneReads,
      P!ZoneWrites, P!AddRecord, P!DeleteRecord, P!Storable, P!CacheReads,
      P!CacheWrites, P!StatsReads, P!AccessListReads, P!AccessListWrites, P!ZoneFiles,
      P!SettingsReads, P!Unoffered, P!Unsupported, P!Requests

LEMMA PangolinFits ==
  ASSUME NEW a, a.op \in DnsService
  PROVE  Fits("pangolin", a, G!Requests(a))
<1>1. \A m : m \in Declared("pangolin") <=>
        \E f \in G!capabilities : m \in VendorCapabilities[f]
  <2>1. Declared("pangolin") = UNION {VendorCapabilities[f] : f \in G!capabilities}
    BY Zenon DEF Declared
  <2> QED
    BY <2>1
<1>2. a.op \in Declared("pangolin") <=>
        a.op \in ZoneWrite \cup {"list_zones"} \cup RecordWrite
                    \cup {"list_records"} \cup SettingsRead
  BY <1>1 DEF G!capabilities, VendorCapabilities, G!VendorCapabilities
<1> QED
  BY <1>2
  DEF Fits, ChangeTodo, FileTodo, Unsupported,
      ZoneRead, ZoneWrite, RecordWrite, CacheRead, CacheWrite, StatsRead,
      AccessListRead, AccessListWrite, ZoneImport, ZoneExport, SettingsRead,
      SettingsWrite, ZoneOptionsRead, ZoneOptionsWrite, LogsRead, DnsService, DnsRead,
      DnsWrite,
      G!ZoneRead, G!ZoneWrite, G!RecordWrite, G!CacheRead, G!CacheWrite, G!StatsRead,
      G!AccessListRead, G!AccessListWrite, G!ZoneImport, G!ZoneExport, G!SettingsRead,
      G!SettingsWrite, G!ZoneOptionsRead, G!ZoneOptionsWrite, G!LogsRead, G!ZoneReads,
      G!SettingsReads, G!UnofferedZones, G!UnofferedLists, G!UnofferedSettings,
      G!Unsupported, G!Requests

LEMMA RequestsFit ==
  ASSUME NEW v \in VendorKind, NEW a, a.op \in DnsService
  PROVE  Fits(v, a, Requests(v, a))
<1>1. CASE v = "technitium"
  <2>1. Requests(v, a) = T!Requests(a)
    BY <1>1, Zenon DEF Requests
  <2> QED
    BY <1>1, <2>1, TechnitiumFits
<1>2. CASE v = "cloudflare"
  <2>1. Requests(v, a) = C!Requests(a)
    BY <1>2, Zenon DEF Requests
  <2> QED
    BY <1>2, <2>1, CloudflareFits
<1>3. CASE v = "unifi"
  <2>1. Requests(v, a) = U!Requests(a)
    BY <1>3, Zenon DEF Requests
  <2> QED
    BY <1>3, <2>1, UnifiFits
<1>4. CASE v = "pihole"
  <2>1. Requests(v, a) = P!Requests(a)
    BY <1>4, Zenon DEF Requests
  <2> QED
    BY <1>4, <2>1, PiholeFits
<1>5. CASE v = "pangolin"
  <2>1. Requests(v, a) = G!Requests(a)
    BY <1>5, Zenon DEF Requests
  <2> QED
    BY <1>5, <2>1, PangolinFits
<1> QED
  BY <1>1, <1>2, <1>3, <1>4, <1>5 DEF VendorKind

\* Every client lists records.
LEMMA ListingDeclared ==
  ASSUME NEW v \in VendorKind
  PROVE  "list_records" \in Declared(v)
<1>1. "list_records" \in VendorCapabilities["records"]
  BY DEF VendorCapabilities
<1>2. \E caps : "records" \in caps /\ Declared(v) = UNION {VendorCapabilities[f] : f \in caps}
  <2>1. CASE v = "technitium"
    <3>1. Declared(v) = UNION {VendorCapabilities[f] : f \in T!capabilities}
      BY <2>1, Zenon DEF Declared
    <3>2. "records" \in T!capabilities
      BY DEF T!capabilities, T!VendorCapabilities
    <3> QED
      BY <3>1, <3>2
  <2>2. CASE v = "cloudflare"
    <3>1. Declared(v) = UNION {VendorCapabilities[f] : f \in C!capabilities}
      BY <2>2, Zenon DEF Declared
    <3> QED
      BY <3>1 DEF C!capabilities
  <2>3. CASE v = "unifi"
    <3>1. Declared(v) = UNION {VendorCapabilities[f] : f \in U!capabilities}
      BY <2>3, Zenon DEF Declared
    <3> QED
      BY <3>1 DEF U!capabilities
  <2>4. CASE v = "pihole"
    <3>1. Declared(v) = UNION {VendorCapabilities[f] : f \in P!capabilities}
      BY <2>4, Zenon DEF Declared
    <3> QED
      BY <3>1 DEF P!capabilities
  <2>5. CASE v = "pangolin"
    <3>1. Declared(v) = UNION {VendorCapabilities[f] : f \in G!capabilities}
      BY <2>5, Zenon DEF Declared
    <3> QED
      BY <3>1 DEF G!capabilities
  <2> QED
    BY <2>1, <2>2, <2>3, <2>4, <2>5 DEF VendorKind
<1> QED
  BY <1>1, <1>2

-----------------------------------------------------------------------------
(* The state of a call between two requests *)

Method(x)   == Methods(x.ask)[x.leg]
VendorAt(x) == VendorOf[Method(x).server]

Offered(x) == Method(x).op \in Declared(VendorAt(x)) \cup StatsRead

\* The call has changed nothing yet, and its last request is the one that
\* will; only a transfer goes on although a server refused, and never to a
\* change.
Working(x) ==
  /\ x.effects = 0 /\ Offered(x)
  /\ x.heard = "fine" \/ (x.heard = "refused" /\ IsTransfer(x.ask) /\ x.leg = 2)
  /\ Method(x).op \in DnsWrite => x.todo \in ChangeTodo /\ VendorAt(x) # "pangolin"
  /\ Method(x).op \in ZoneExport \cup LogsRead => x.todo \in FileTodo

\* What stood since the call began is there, and what is there it has seen.
Between(x, h) == x.stood \subseteq h[x.ask.server] /\ h[x.ask.server] \subseteq x.seen

\* The file is what the source held at some moment of the call.
Copied(x) ==
  \E H : /\ x.stood \subseteq H /\ H \subseteq x.seen
         /\ x.file = {Plain(r) : r \in InZone(H, x.ask.zone)}

Watches(x, h) ==
  /\ Between(x, h)
  /\ IsTransfer(x.ask) /\ x.leg = 2 /\ x.heard = "fine" => Copied(x)

FileRead(x) == VendorAt(x) = "technitium" /\ Method(x).op \in ZoneExport \cup LogsRead

\* OutcomeIsTrue, of one call that ended.
TrueEnd(x) ==
  /\ x.outcome = "ok" => x.effects = (IF Writes(x.ask) THEN 1 ELSE 0)
  /\ x.outcome = "ok" /\ x.heard = "refused" => FileRead(x)
  /\ x.outcome = "error" /\ x.effects = 1 => Writes(x.ask) /\ x.heard = "lost"
  /\ x.outcome \in {"denied", "unsupported"} => x.effects = 0
  /\ x.outcome = "ok" => Offered(x)
  /\ x.outcome = "unsupported" =>
       \/ x.ask.op \in DnsWrite
       \/ \E i \in DOMAIN Methods(x.ask) :
            LET m == Methods(x.ask)[i] IN m.op \notin Declared(VendorOf[m.server])

Sound(x, h) ==
  /\ x.st = "busy" => Working(x) /\ Watches(x, h)
  /\ x.st = "done" => TrueEnd(x)

\* A call under way, as far as its form goes.
UnderWay(x) ==
  /\ IsCall(x) /\ x.st = "busy" /\ x.ask \in Parameters
  /\ x.leg = 2 => IsTransfer(x.ask) \/ AcrossZones(x.ask)

\* The methods a call uses are methods of configured servers.
LEMMA MethodsOf ==
  ASSUME NEW a \in Parameters, NEW i \in DOMAIN Methods(a)
  PROVE  /\ Methods(a)[i].op \in DnsService /\ VendorOf[Methods(a)[i].server] \in VendorKind
         /\ RequestsOn(a, i) = Requests(VendorOf[Methods(a)[i].server],
                                        [a EXCEPT !.op = Methods(a)[i].op])
         /\ [a EXCEPT !.op = Methods(a)[i].op].op = Methods(a)[i].op
<1>1. a.server \in Servers /\ a.to \in Servers /\ a.op \in DnsService \cup {"transfer_zone"}
      /\ "op" \in DOMAIN a
  BY DEF Parameters
<1>2. Methods(a)[i].op \in DnsService /\ Methods(a)[i].server \in Servers
  BY <1>1 DEF Methods, At, IsTransfer, DnsService, DnsRead, ZoneRead, ZoneExport, DnsWrite,
              ZoneImport
<1>3. RequestsOn(a, i) = Requests(VendorOf[Methods(a)[i].server],
                                  [a EXCEPT !.op = Methods(a)[i].op])
  BY DEF RequestsOn
<1> QED
  BY <1>1, <1>2, <1>3, OperationsAssumption

\* The first method of a call, and the second of those that have one.
LEMMA MethodIs ==
  ASSUME NEW x, UnderWay(x)
  PROVE  /\ x.leg \in DOMAIN Methods(x.ask)
         /\ IsTransfer(x.ask) =>
              /\ ~AcrossZones(x.ask) /\ DOMAIN Methods(x.ask) = {1, 2}
              /\ x.leg = 1 => Method(x).op = "export_zone_file"
              /\ x.leg = 2 => Method(x).op = "import_zone_file"
         /\ AcrossZones(x.ask) =>
              /\ ~IsTransfer(x.ask) /\ x.ask.op = "list_records"
              /\ DOMAIN Methods(x.ask) = {1, 2}
              /\ Method(x).op \in {"list_zones", "list_records"}
         /\ ~IsTransfer(x.ask) /\ ~AcrossZones(x.ask) =>
              x.leg = 1 /\ Method(x) = At(x.ask.op, x.ask.server)
BY DEF UnderWay, IsCall, Method, Methods, At, IsTransfer, AcrossZones, IsSearch, ListsAll

\* The methods that change something.
LEMMA ChangingMethods ==
  ASSUME NEW x, UnderWay(x)
  PROVE  /\ "export_zone_file" \notin DnsWrite /\ "import_zone_file" \in DnsWrite
         /\ {"list_zones", "list_records"} \cap (DnsWrite \cup ZoneExport \cup LogsRead) = {}
         /\ DnsWrite \cap (ZoneExport \cup LogsRead) = {}
         /\ IsTransfer(x.ask) => (Method(x).op \in DnsWrite <=> x.leg = 2)
         /\ AcrossZones(x.ask) => Method(x).op \notin DnsWrite \cup ZoneExport \cup LogsRead
         /\ ~IsTransfer(x.ask) => (Method(x).op \in DnsWrite <=> Writes(x.ask))
<1>1. /\ "export_zone_file" \notin DnsWrite /\ "import_zone_file" \in DnsWrite
      /\ {"list_zones", "list_records"} \cap (DnsWrite \cup ZoneExport \cup LogsRead) = {}
      /\ DnsWrite \cap (ZoneExport \cup LogsRead) = {}
  BY DEF DnsWrite, ZoneWrite, RecordWrite, CacheWrite, AccessListWrite, ZoneImport,
         SettingsWrite, ZoneOptionsWrite, ZoneExport, LogsRead
<1>2. x.leg \in {1, 2}
  BY DEF UnderWay, IsCall
<1>3. AcrossZones(x.ask) => Method(x).op \notin DnsWrite \cup ZoneExport \cup LogsRead
  BY <1>1, MethodIs
<1>4. ~IsTransfer(x.ask) => (Method(x).op \in DnsWrite <=> Writes(x.ask))
  BY <1>1, <1>3, MethodIs DEF Writes, At
<1> QED
  BY <1>1, <1>2, <1>3, <1>4, MethodIs

\* A call ends with an error, with a refusal of its client, or with success.
LEMMA EndIsTrue ==
  ASSUME NEW x, UnderWay(x), NEW how \in {"ok", "error"}, NEW h,
         how = "ok" => /\ Offered(x)
                       /\ x.effects = IF Method(x).op \in DnsWrite THEN 1 ELSE 0
                       /\ IsTransfer(x.ask) => x.leg = 2
                       /\ x.heard = "refused" => FileRead(x),
         how = "error" => x.effects = 0 \/ (Method(x).op \in DnsWrite /\ x.heard = "lost")
  PROVE  Sound(Finished(x, how), h)
<1> DEFINE y == Finished(x, how)
<1>1. /\ y.st = "done" /\ y.ask = x.ask /\ y.leg = x.leg /\ y.outcome = how
      /\ y.heard = x.heard /\ y.effects = x.effects
  BY DEF Finished, Idle
<1>2. Method(y) = Method(x) /\ VendorAt(y) = VendorAt(x)
  BY <1>1 DEF Method, VendorAt
<1> HIDE DEF y
<1>3. Method(x).op \in DnsWrite => Writes(x.ask)
  BY ChangingMethods DEF Writes
<1>4. how = "ok" => (Method(x).op \in DnsWrite <=> Writes(x.ask))
  BY ChangingMethods DEF Writes
<1>5. TrueEnd(y)
  BY <1>1, <1>2, <1>3, <1>4 DEF TrueEnd, Offered, FileRead
<1> QED
  BY <1>1, <1>5 DEF Sound, y

\* A listing ends without a change.
LEMMA ListingEndIsTrue ==
  ASSUME NEW x, UnderWay(x), ~Writes(x.ask), Offered(x), x.effects = 0, x.heard = "fine", NEW h
  PROVE  Sound(ListingEnds(x), h)
<1> DEFINE y == ListingEnds(x)
<1>1. /\ y.st = "done" /\ y.ask = x.ask /\ y.leg = x.leg /\ y.outcome = "ok"
      /\ y.heard = x.heard /\ y.effects = x.effects
  BY DEF ListingEnds, Finished, Idle
<1>2. Method(y) = Method(x) /\ VendorAt(y) = VendorAt(x)
  BY <1>1 DEF Method, VendorAt
<1> HIDE DEF y
<1>3. TrueEnd(y)
  BY <1>1, <1>2 DEF TrueEnd, Offered, FileRead
<1> QED
  BY <1>1, <1>3 DEF Sound, y

\* A listing across zones goes on or ends.
LEMMA NextZoneSound ==
  ASSUME NEW x, UnderWay(x), AcrossZones(x.ask), Offered(x), x.effects = 0,
         x.heard = "fine", NEW h, Between(x, h)
  PROVE  Sound(NextZone(x), h)
<1>1. x.ask.op = "list_records" /\ ~IsTransfer(x.ask) /\ ~Writes(x.ask)
  BY MethodIs, ChangingMethods DEF Writes
<1>2. CASE x.left = << >>
  BY <1>1, <1>2, ListingEndIsTrue DEF NextZone
<1>3. CASE x.left # << >>
  <2> DEFINE y == NextZone(x)
  <2>1. /\ DOMAIN x = Fields /\ y = [x EXCEPT !.leg = 2, !.todo = RequestsOn(x.ask, 2), !.zid = 0,
                   !.at = ArgsIn(x.ask, Head(x.left)), !.left = Tail(@)]
    BY <1>3 DEF NextZone, UnderWay, IsCall
  <2>2. /\ y.st = "busy" /\ y.ask = x.ask /\ y.leg = 2 /\ y.effects = 0 /\ y.heard = "fine"
        /\ y.stood = x.stood /\ y.seen = x.seen
    BY <2>1 DEF Fields, UnderWay
  <2> HIDE DEF y
  <2>3. Method(y) = At("list_records", x.ask.server) /\ x.ask.server \in Servers
    BY <1>1, <2>2 DEF Method, Methods, Parameters, UnderWay
  <2>4. Method(y).op = "list_records" /\ VendorAt(y) \in VendorKind
    BY <2>3, OperationsAssumption DEF VendorAt, At
  <2>5. Offered(y)
    BY <2>4, ListingDeclared DEF Offered
  <2>6. "list_records" \notin DnsWrite \cup ZoneExport \cup LogsRead
    BY ChangingMethods
  <2>7. Working(y)
    BY <1>1, <2>2, <2>4, <2>5, <2>6 DEF Working
  <2>8. Watches(y, h)
    BY <1>1, <2>2 DEF Watches, Between
  <2> QED
    BY <2>2, <2>7, <2>8 DEF Sound, y
<1> QED
  BY <1>2, <1>3

\* A transfer goes on with the import, or its vendor has none.
LEMMA ImportSound ==
  ASSUME NEW x, UnderWay(x), IsTransfer(x.ask), x.leg = 1, x.effects = 0,
         x.heard \in {"fine", "refused"}, NEW h, Between(x, h), x.heard = "fine" => Copied(x)
  PROVE  Sound(Import(x), h)
<1> DEFINE a == [x.ask EXCEPT !.op = "import_zone_file"]
           v == VendorOf[x.ask.to]
<1>1. Methods(x.ask)[2] = At("import_zone_file", x.ask.to) /\ DOMAIN Methods(x.ask) = {1, 2}
  BY DEF Methods
<1>2. /\ v \in VendorKind /\ a.op = "import_zone_file" /\ a.op \in DnsService
      /\ RequestsOn(x.ask, 2) = Requests(v, a)
  BY <1>1, MethodsOf DEF At, UnderWay
<1> HIDE DEF a, v
<1>3. Fits(v, a, Requests(v, a))
  BY <1>2, RequestsFit
<1>4. CASE RequestsOn(x.ask, 2) = Unsupported
  <2> DEFINE y == Finished(x, "unsupported")
  <2>1. y.st = "done" /\ y.ask = x.ask /\ y.outcome = "unsupported" /\ y.effects = 0
    BY DEF Finished, Idle
  <2>2. "import_zone_file" \notin Declared(v)
    BY <1>2, <1>3, <1>4 DEF Fits, ZoneImport
  <2> HIDE DEF y
  <2>3. TrueEnd(y)
    BY <1>1, <2>1, <2>2 DEF TrueEnd, At, v
  <2> QED
    BY <1>4, <2>1, <2>3 DEF Sound, Import, y
<1>5. CASE RequestsOn(x.ask, 2) # Unsupported
  <2> DEFINE y == [x EXCEPT !.leg = 2, !.todo = RequestsOn(x.ask, 2), !.zid = 0]
  <2>1. /\ y.st = "busy" /\ y.ask = x.ask /\ y.leg = 2 /\ y.effects = 0 /\ y.heard = x.heard
        /\ y.stood = x.stood /\ y.seen = x.seen /\ y.file = x.file
        /\ y.todo = RequestsOn(x.ask, 2)
    BY DEF Fields, UnderWay, IsCall
  <2>2. Import(x) = y
    BY <1>5 DEF Import
  <2> HIDE DEF y
  <2>3. Method(y).op = a.op /\ VendorAt(y) = v
    BY <1>1, <1>2, <2>1 DEF Method, VendorAt, At, v
  <2>4. Working(y)
    <3>1. "import_zone_file" \notin ZoneExport \cup LogsRead
      BY ChangingMethods
    <3> QED
      BY <1>2, <1>3, <1>5, <2>1, <2>3, <3>1 DEF Fits, Working, Offered
  <2>5. Watches(y, h)
    BY <2>1 DEF Watches, Between, Copied
  <2> QED
    BY <2>1, <2>2, <2>4, <2>5 DEF Sound
<1> QED
  BY <1>4, <1>5

\* What is left of the requests of a change or a file after the first.
LEMMA ChangeTail ==
  ASSUME NEW t \in ChangeTodo
  PROVE  IF Tail(t) = << >> THEN Head(t) = "act" ELSE Tail(t) \in ChangeTodo /\ Head(t) # "act"
<1>1. CASE t = <<"act">>
  BY <1>1
<1>2. ASSUME NEW w \in {"zone", "find", "site", "page"}, t = <<w, "act">>
      PROVE  Tail(t) \in ChangeTodo /\ Tail(t) # << >> /\ Head(t) # "act"
  <2>1. Tail(t) = <<"act">> /\ Head(t) = w
    BY <1>2
  <2> QED
    BY <2>1 DEF ChangeTodo
<1>3. CASE t = <<"zone", "find", "act">>
  <2>1. Tail(t) = <<"find", "act">> /\ Head(t) = "zone"
    BY <1>3
  <2> QED
    BY <2>1 DEF ChangeTodo
<1>4. CASE t = <<"site", "page", "act">>
  <2>1. Tail(t) = <<"page", "act">> /\ Head(t) = "site"
    BY <1>4
  <2> QED
    BY <2>1 DEF ChangeTodo
<1> QED
  BY <1>1, <1>2, <1>3, <1>4 DEF ChangeTodo

LEMMA FileTail ==
  ASSUME NEW t \in FileTodo
  PROVE  IF Tail(t) = << >> THEN Head(t) = "act" ELSE Tail(t) \in FileTodo /\ Head(t) # "act"
<1>1. CASE t = <<"act">>
  BY <1>1
<1>2. ASSUME NEW w \in {"zone", "find"}, t = <<w, "act">>
      PROVE  Tail(t) \in FileTodo /\ Tail(t) # << >> /\ Head(t) # "act"
  <2>1. Tail(t) = <<"act">> /\ Head(t) = w
    BY <1>2
  <2> QED
    BY <2>1 DEF FileTodo
<1> QED
  BY <1>1, <1>2 DEF FileTodo

\* A call that is not at its last request goes on with the next one.
LEMMA GoesOn ==
  ASSUME NEW x, UnderWay(x), Working(x), NEW h, Watches(x, h), Tail(x.todo) # << >>
  PROVE  Sound(Answered(x), h)
<1> DEFINE y == [x EXCEPT !.todo = Tail(@)]
<1>1. /\ y.st = "busy" /\ y.ask = x.ask /\ y.leg = x.leg /\ y.effects = x.effects
      /\ y.heard = x.heard /\ y.stood = x.stood /\ y.seen = x.seen /\ y.file = x.file
      /\ y.todo = Tail(x.todo)
  BY DEF UnderWay, IsCall, Fields
<1>2. Answered(x) = y
  BY DEF Answered
<1> HIDE DEF y
<1>3. Method(y) = Method(x) /\ VendorAt(y) = VendorAt(x)
  BY <1>1 DEF Method, VendorAt
<1>4. x.todo \in ChangeTodo => Tail(x.todo) \in ChangeTodo
  BY ChangeTail
<1>5. x.todo \in FileTodo => Tail(x.todo) \in FileTodo
  BY FileTail
<1>6. Working(y)
  BY <1>1, <1>3, <1>4, <1>5 DEF Working, Offered
<1>7. Watches(y, h)
  BY <1>1 DEF Watches, Between, Copied
<1> QED
  BY <1>1, <1>2, <1>6, <1>7 DEF Sound

\* After the last answer a call goes on with its second method or ends.
LEMMA LastAnswered ==
  ASSUME NEW x, UnderWay(x), Offered(x), Tail(x.todo) = << >>, NEW h,
         Method(x).op \in DnsWrite => x.effects = 1 /\ x.heard = "fine",
         Method(x).op \notin DnsWrite =>
           /\ x.effects = 0 /\ Between(x, h)
           /\ x.heard = "fine" \/ (x.heard = "refused" /\ FileRead(x))
           /\ IsTransfer(x.ask) /\ x.heard = "fine" => Copied(x)
  PROVE  Sound(Answered(x), h)
<1>1. x.leg \in {1, 2}
  BY DEF UnderWay, IsCall
<1>2. CASE IsTransfer(x.ask) /\ x.leg = 1
  <2>1. Method(x).op \notin DnsWrite
    BY <1>2, ChangingMethods
  <2> QED
    BY <1>2, <2>1, ImportSound DEF Answered
<1>3. CASE AcrossZones(x.ask)
  <2>1. Method(x).op \notin DnsWrite \cup ZoneExport \cup LogsRead /\ ~IsTransfer(x.ask)
    BY <1>3, ChangingMethods, MethodIs
  <2>2. x.effects = 0 /\ Between(x, h) /\ x.heard = "fine"
    BY <2>1 DEF FileRead
  <2> QED
    BY <1>3, <2>1, <2>2, NextZoneSound DEF Answered
<1>4. CASE ~(IsTransfer(x.ask) /\ x.leg = 1) /\ ~AcrossZones(x.ask) /\ x.ask.op = "list_records"
  <2>1. ~IsTransfer(x.ask) /\ Method(x).op = "list_records"
    BY <1>4, MethodIs DEF IsTransfer, At
  <2>2. x.effects = 0 /\ x.heard = "fine"
    BY <2>1, ChangingMethods DEF FileRead
  <2>3. ~Writes(x.ask)
    BY <2>1, ChangingMethods
  <2> QED
    BY <1>4, <2>2, <2>3, ListingEndIsTrue DEF Answered
<1>5. CASE /\ ~(IsTransfer(x.ask) /\ x.leg = 1) /\ ~AcrossZones(x.ask)
           /\ x.ask.op # "list_records"
  <2>1. Answered(x) = Finished(x, "ok")
    BY <1>5 DEF Answered
  <2>2. IsTransfer(x.ask) => x.leg = 2
    BY <1>1, <1>5
  <2>3. /\ x.effects = IF Method(x).op \in DnsWrite THEN 1 ELSE 0
        /\ x.heard = "refused" => FileRead(x)
    OBVIOUS
  <2> QED
    BY <2>1, <2>2, <2>3, EndIsTrue
<1> QED
  BY <1>2, <1>3, <1>4, <1>5

\* A lookup that was answered is never the last request of a change or a file.
LEMMA LookedUp ==
  ASSUME NEW x, UnderWay(x), Working(x), NEW h, Watches(x, h), Head(x.todo) # "act"
  PROVE  Sound(Answered(x), h)
<1>1. CASE Tail(x.todo) # << >>
  BY <1>1, GoesOn
<1>2. CASE Tail(x.todo) = << >>
  <2>1. x.todo \notin ChangeTodo /\ x.todo \notin FileTodo
    BY <1>2, ChangeTail, FileTail
  <2>2. Method(x).op \notin DnsWrite \cup ZoneExport
    BY <2>1 DEF Working
  <2>3. ~IsTransfer(x.ask)
    BY <2>2, MethodIs, ChangingMethods DEF ZoneExport, UnderWay, IsCall
  <2> QED
    BY <1>2, <2>2, <2>3, LastAnswered DEF Working, Watches
<1> QED
  BY <1>1, <1>2

\* An answer to something that only reads, a zone file aside.
LEMMA ReadAnswered ==
  ASSUME NEW x, UnderWay(x), Working(x), NEW h, Watches(x, h),
         Method(x).op \notin DnsWrite \cup ZoneExport
  PROVE  Sound(Answered(x), h)
<1>1. CASE Tail(x.todo) # << >>
  BY <1>1, GoesOn
<1>2. CASE Tail(x.todo) = << >>
  <2>1. ~IsTransfer(x.ask)
    BY MethodIs, ChangingMethods DEF ZoneExport, UnderWay, IsCall
  <2> QED
    BY <1>2, <2>1, LastAnswered DEF Working, Watches
<1> QED
  BY <1>1, <1>2

\* A request that failed ends the call, or lets a search go on.
LEMMA FailedSound ==
  ASSUME NEW x, UnderWay(x), Working(x), NEW h, Watches(x, h)
  PROVE  Sound(Failed(x), h)
<1>1. CASE IsSearch(x.ask) /\ x.leg = 2
  <2> DEFINE y == [x EXCEPT !.skipped = @ \cup x.at.zones]
  <2>1. /\ y.st = "busy" /\ y.ask = x.ask /\ y.leg = x.leg /\ y.effects = x.effects
        /\ y.heard = x.heard /\ y.stood = x.stood /\ y.seen = x.seen /\ DOMAIN y = Fields
    BY DEF UnderWay, IsCall, Fields
  <2>2. Failed(x) = NextZone(y)
    BY <1>1 DEF Failed
  <2> HIDE DEF y
  <2>3. Method(y) = Method(x) /\ VendorAt(y) = VendorAt(x)
    BY <2>1 DEF Method, VendorAt
  <2>4. UnderWay(y) /\ AcrossZones(y.ask)
    BY <1>1, <2>1 DEF UnderWay, IsCall, AcrossZones
  <2>5. ~IsTransfer(x.ask)
    BY <2>1, <2>4, MethodIs
  <2>6. Offered(y) /\ y.effects = 0 /\ y.heard = "fine" /\ Between(y, h)
    BY <2>1, <2>3, <2>5 DEF Working, Offered, Watches, Between
  <2> QED
    BY <2>2, <2>4, <2>6, NextZoneSound
<1>2. CASE ~(IsSearch(x.ask) /\ x.leg = 2)
  BY <1>2, EndIsTrue DEF Failed, Working
<1> QED
  BY <1>1, <1>2

-----------------------------------------------------------------------------
(* Every step keeps the calls sound *)

Settled == \A c \in Clients : Sound(call[c], held)

AtWork(x, h) == UnderWay(x) /\ Working(x) /\ Watches(x, h)

\* The same call at the same request, whatever it noted.
Alike(x, y) ==
  /\ DOMAIN y = Fields
  /\ y.st = x.st /\ y.ask = x.ask /\ y.leg = x.leg /\ y.todo = x.todo /\ y.file = x.file
  /\ y.heard = x.heard /\ y.effects = x.effects /\ y.stood = x.stood /\ y.seen = x.seen

\* Notes leave a call at work.
LEMMA NotesMade ==
  ASSUME NEW x, NEW h, AtWork(x, h), NEW y, Alike(x, y)
  PROVE  AtWork(y, h)
<1>1. Method(y) = Method(x) /\ VendorAt(y) = VendorAt(x)
  BY DEF Method, VendorAt, Alike
<1>2. UnderWay(y)
  BY DEF AtWork, UnderWay, IsCall, Alike
<1>3. Working(y)
  BY <1>1 DEF AtWork, Working, Offered, Alike
<1>4. Watches(y, h)
  BY DEF AtWork, Watches, Between, Copied, Alike
<1> QED
  BY <1>2, <1>3, <1>4 DEF AtWork

\* A call at work is sound.
LEMMA AtWorkSound ==
  ASSUME NEW x, NEW h, AtWork(x, h)
  PROVE  Sound(x, h)
BY DEF AtWork, UnderWay, Sound

\* What holds of a call under way.
LEMMA BusyAtWork ==
  ASSUME Inv, Settled, NEW c \in Clients, Busy(c)
  PROVE  /\ AtWork(call[c], held)
         /\ Op(c) = Method(call[c]).op /\ Server(c) = Method(call[c]).server
         /\ Vendor(c) = VendorAt(call[c])
         /\ Server(c) \in Servers /\ Vendor(c) \in VendorKind /\ Op(c) \in DnsService
<1>1. /\ CallOK(c, call[c], load, held, nextId) /\ IsCall(call[c])
      /\ call[c].ask \in Parameters /\ call[c].st = "busy"
  BY BusyCall
<1>2. UnderWay(call[c])
  BY <1>1 DEF CallOK, UnderWay
<1>3. Op(c) = Method(call[c]).op /\ Server(c) = Method(call[c]).server
      /\ Vendor(c) = VendorAt(call[c])
  BY DEF Op, Server, Vendor, Method, VendorAt
<1>4. Op(c) \in DnsService /\ Vendor(c) \in VendorKind
  BY <1>1, <1>2, <1>3, MethodIs, MethodsOf DEF Method, Vendor
<1>5. Server(c) \in Servers
  BY ServerType
<1>6. AtWork(call[c], held)
  BY <1>1, <1>2 DEF Settled, Sound, AtWork
<1> QED
  BY <1>3, <1>4, <1>5, <1>6

\* A sound call in the place of another.
LEMMA Becomes ==
  ASSUME Inv, Settled, NEW c \in Clients, NEW y, Sound(y, held), Become(c, y), held' = held
  PROVE  Settled'
<1>1. DOMAIN call = Clients
  BY DEF Inv
<1>2. ASSUME NEW d \in Clients
      PROVE  Sound(call'[d], held)
  <2>1. CASE d = c
    BY <1>1, <2>1 DEF Become
  <2>2. CASE d # c
    <3>1. call'[d] = call[d]
      BY <1>1, <2>2 DEF Become
    <3> QED
      BY <3>1 DEF Settled
  <2> QED
    BY <2>1, <2>2
<1> QED
  BY <1>2 DEF Settled

\* A request that the server refuses.
LEMMA RefusedSettled ==
  ASSUME Inv, Settled, NEW c \in Clients, Busy(c), Refused(c), held' = held
  PROVE  Settled'
<1> DEFINE x == call[c]
           z == [x EXCEPT !.heard = "refused"]
<1>1. /\ AtWork(x, held) /\ Op(c) = Method(x).op /\ Vendor(c) = VendorAt(x)
      /\ Vendor(c) \in VendorKind
  BY BusyAtWork
<1>2. PICK ans \in Refusals(Vendor(c)) :
        Become(c, IF Reads(Vendor(c), Op(c), Next1(c), ans) THEN Answered(z) ELSE Failed(x))
  BY DEF Refused
<1>3. CASE Reads(Vendor(c), Op(c), Next1(c), ans)
  <2>1. Vendor(c) = "technitium" /\ Op(c) \in ZoneExport \cup LogsRead /\ Next1(c) = "act"
    BY <1>1, <1>3, RefusalIsError
  <2>2. Tail(x.todo) = << >>
    BY <1>1, <2>1, FileTail DEF AtWork, Working, Next1
  <2>3. /\ z.st = x.st /\ z.ask = x.ask /\ z.leg = x.leg /\ z.todo = x.todo
        /\ z.heard = "refused" /\ z.effects = x.effects /\ z.stood = x.stood
        /\ z.seen = x.seen /\ DOMAIN z = Fields
    BY <1>1 DEF AtWork, UnderWay, IsCall, Fields
  <2>4. Become(c, Answered(z))
    BY <1>2, <1>3
  <2> HIDE DEF z
  <2>5. Method(z) = Method(x) /\ VendorAt(z) = VendorAt(x)
    BY <2>3 DEF Method, VendorAt
  <2>6. UnderWay(z)
    BY <1>1, <2>3 DEF AtWork, UnderWay, IsCall
  <2>7. FileRead(z) /\ Method(z).op \notin DnsWrite
    BY <1>1, <2>1, <2>5, <2>6, ChangingMethods DEF FileRead
  <2>8. Offered(z) /\ z.effects = 0 /\ Between(z, held)
    BY <1>1, <2>3, <2>5 DEF AtWork, Working, Offered, Watches, Between
  <2>9. Sound(Answered(z), held)
    BY <2>2, <2>3, <2>6, <2>7, <2>8, LastAnswered
  <2> QED
    BY <2>4, <2>9, Becomes
<1>4. CASE ~Reads(Vendor(c), Op(c), Next1(c), ans)
  <2>1. Sound(Failed(x), held)
    BY <1>1, FailedSound DEF AtWork
  <2> HIDE DEF z
  <2> QED
    BY <1>2, <1>4, <2>1, Becomes
<1> QED
  BY <1>3, <1>4

\* A lookup that was answered, whatever was noted of the answer.
LEMMA LookupAnswered ==
  ASSUME NEW x, NEW h, AtWork(x, h), Head(x.todo) # "act", NEW y, Alike(x, y)
  PROVE  Sound(Answered(y), h)
<1>1. AtWork(y, h) /\ Head(y.todo) # "act"
  BY NotesMade DEF Alike
<1> QED
  BY <1>1, LookedUp DEF AtWork

\* Cloudflare's zone, UniFi's site, the log file and the record to delete.
LEMMA LookUpSettled ==
  ASSUME Inv, Settled, NEW c \in Clients,
         LookUpZone(c) \/ LookUpSite(c) \/ LookUpLogFile(c) \/ FindRecord(c)
  PROVE  Settled'
<1> DEFINE x == call[c]
<1>1. Busy(c) /\ Next1(c) # "act" /\ held' = held
  BY DEF LookUpZone, LookUpSite, LookUpLogFile, FindRecord, Due
<1>2. AtWork(x, held) /\ Head(x.todo) # "act" /\ DOMAIN x = Fields
  BY <1>1, BusyAtWork DEF Next1, AtWork, UnderWay, IsCall
<1>3. Sound(Failed(x), held) /\ Sound(Finished(x, "error"), held)
  BY <1>2, FailedSound, EndIsTrue DEF AtWork, Working
<1>4. Sound(Answered(x), held)
  BY <1>2, LookedUp DEF AtWork
<1>5. ASSUME NEW z
      PROVE  Sound(Answered([x EXCEPT !.zid = z]), held)
  <2> DEFINE y == [x EXCEPT !.zid = z]
  <2>1. Alike(x, y)
    BY <1>2 DEF Alike, Fields
  <2> HIDE DEF y
  <2>2. Sound(Answered(y), held)
    BY <1>2, <2>1, LookupAnswered
  <2> QED
    BY <2>2 DEF y
<1>6. ASSUME NEW i
      PROVE  Sound(Answered([x EXCEPT !.target = i]), held)
  <2> DEFINE y == [x EXCEPT !.target = i]
  <2>1. Alike(x, y)
    BY <1>2 DEF Alike, Fields
  <2> HIDE DEF y
  <2>2. Sound(Answered(y), held)
    BY <1>2, <2>1, LookupAnswered
  <2> QED
    BY <2>2 DEF y
<1>7. \E y : Become(c, y) /\ Sound(y, held)
  <2>1. CASE LookUpZone(c)
    BY <1>3, <1>5, <2>1 DEF LookUpZone
  <2>2. CASE LookUpSite(c) \/ LookUpLogFile(c)
    BY <1>4, <2>2 DEF LookUpSite, LookUpLogFile
  <2>3. CASE FindRecord(c)
    BY <1>3, <1>6, <2>3 DEF FindRecord, Ended
  <2> QED
    BY <2>1, <2>2, <2>3, <1>1 DEF LookUpZone, LookUpSite, LookUpLogFile, FindRecord
<1> QED
  BY <1>1, <1>7, Becomes

\* Neither a change nor a file asks for zones or lists.
LEMMA Requested ==
  ASSUME NEW t \in ChangeTodo \cup FileTodo
  PROVE  Head(t) \in {"act", "zone", "find", "site", "page"}
BY DEF ChangeTodo, FileTodo

\* Pangolin's zones.
LEMMA LookUpDomainSettled ==
  ASSUME Inv, Settled, NEW c \in Clients, LookUpDomain(c)
  PROVE  Settled'
<1> DEFINE x == call[c]
           zs == SetToSeq(ZonesAt(Server(c)))
           y  == [x EXCEPT !.todo = [i \in DOMAIN zs |-> "act"], !.left = zs]
<1>1. Busy(c) /\ Next1(c) = "domains" /\ held' = held
  BY DEF LookUpDomain, Due
<1>2. AtWork(x, held) /\ Head(x.todo) = "domains" /\ DOMAIN x = Fields
  BY <1>1, BusyAtWork DEF Next1, AtWork, UnderWay, IsCall
<1>3. Method(x).op \notin DnsWrite \cup ZoneExport \cup LogsRead
  BY <1>2, Requested DEF AtWork, Working
<1>4. ~IsTransfer(x.ask) /\ ~Writes(x.ask)
  <2>1. UnderWay(x) /\ x.leg \in {1, 2}
    BY <1>2 DEF AtWork, UnderWay, IsCall
  <2>2. ~IsTransfer(x.ask)
    BY <1>3, <2>1, MethodIs, ChangingMethods DEF ZoneExport
  <2> QED
    BY <1>3, <2>1, <2>2, ChangingMethods
<1>5. Sound(Failed(x), held) /\ Sound(Answered(x), held)
  BY <1>2, FailedSound, LookedUp DEF AtWork
<1>6. Sound(ListingEnds(x), held)
  BY <1>2, <1>4, ListingEndIsTrue DEF AtWork, Working
<1>7. Sound(y, held)
  <2>1. /\ DOMAIN y = Fields /\ y.st = x.st /\ y.ask = x.ask /\ y.leg = x.leg
        /\ y.heard = x.heard /\ y.effects = x.effects /\ y.stood = x.stood /\ y.seen = x.seen
    BY <1>2 DEF Fields
  <2> HIDE DEF y
  <2>2. Method(y) = Method(x) /\ VendorAt(y) = VendorAt(x)
    BY <2>1 DEF Method, VendorAt
  <2>3. Working(y)
    BY <1>2, <1>3, <2>1, <2>2 DEF AtWork, Working, Offered
  <2>4. Watches(y, held)
    BY <1>2, <1>4, <2>1 DEF AtWork, Watches, Between
  <2>5. y.st = "busy"
    BY <1>2, <2>1 DEF AtWork, UnderWay
  <2> QED
    BY <2>3, <2>4, <2>5 DEF Sound
<1> HIDE DEF y
<1>8. \E z \in {ListingEnds(x), y, Failed(x), Answered(x)} : Become(c, z)
  BY DEF LookUpDomain, y
<1> QED
  BY <1>1, <1>5, <1>6, <1>7, <1>8, Becomes

\* A page of the zones.
LEMMA FetchZonesSettled ==
  ASSUME Inv, Settled, NEW c \in Clients, FetchZones(c)
  PROVE  Settled'
<1> DEFINE x    == call[c]
           page == PageOfZones(ZonesAt(Server(c)), x.offset)
           y    == [x EXCEPT !.left = @ \o page, !.offset = @ + ZonePage]
<1>1. Busy(c) /\ held' = held /\ AcrossZones(x.ask)
  BY DEF FetchZones, Due
<1>2. AtWork(x, held) /\ DOMAIN x = Fields
  BY <1>1, BusyAtWork DEF AtWork, UnderWay, IsCall
<1>3. \E z \in {y, NextZone(y)} : Become(c, z)
  BY DEF FetchZones
<1>4. Alike(x, y)
  BY <1>2 DEF Alike, Fields
<1> HIDE DEF y
<1>5. AtWork(y, held) /\ AcrossZones(y.ask)
  BY <1>1, <1>2, <1>4, NotesMade DEF Alike
<1>6. ~IsTransfer(y.ask)
  BY <1>5, MethodIs DEF AtWork
<1>7. Sound(NextZone(y), held)
  BY <1>5, <1>6, NextZoneSound DEF AtWork, Working, Watches
<1>8. Sound(y, held)
  BY <1>5, AtWorkSound
<1> QED
  BY <1>1, <1>3, <1>7, <1>8, Becomes

\* A page of UniFi's policies.
LEMMA FetchPageSettled ==
  ASSUME Inv, Settled, NEW c \in Clients, FetchPage(c)
  PROVE  Settled'
<1> DEFINE x == call[c]
<1>1. Busy(c) /\ Next1(c) # "act" /\ held' = held
  BY DEF FetchPage, Due
<1>2. AtWork(x, held) /\ Head(x.todo) # "act" /\ DOMAIN x = Fields
  BY <1>1, BusyAtWork DEF Next1, AtWork, UnderWay, IsCall
<1>3. PICK page \in PagesOf(held[Server(c)], x.offset),
           totals \in {{}, {Cardinality(held[Server(c)])}} :
        \E z \in {[x EXCEPT !.got = @ \o page, !.pages = @ + 1,
                            !.offset = U!NextOffset(@, Len(page))]} :
          Become(c, IF U!LastPage(Len(page), Len(z.got), totals, PageSize) THEN PagesEnd(c, z)
                    ELSE IF z.pages = MaxPages THEN Ended(c, "error")
                    ELSE z)
  BY DEF FetchPage
<1> DEFINE y == [x EXCEPT !.got = @ \o page, !.pages = @ + 1,
                          !.offset = U!NextOffset(@, Len(page))]
<1>4. \E z \in {PagesEnd(c, y), Ended(c, "error"), y} : Become(c, z)
  BY <1>3
<1>5. Alike(x, y)
  BY <1>2 DEF Alike, Fields
<1> HIDE DEF y
<1>6. Sound(Ended(c, "error"), held)
  BY <1>2, EndIsTrue DEF AtWork, Working, Ended
<1>7. ASSUME NEW z, Alike(y, z)
      PROVE  Sound(Answered(z), held)
  <2>1. Alike(x, z)
    BY <1>5, <1>7 DEF Alike
  <2> QED
    BY <1>2, <2>1, LookupAnswered
<1>8. Sound(PagesEnd(c, y), held)
  <2> DEFINE kept == [y EXCEPT !.got = KeptPages(y, y.got)]
             hit  == [y EXCEPT !.target = CHOOSE i \in FirstMatch(y.got, y.ask) : TRUE,
                               !.got = << >>]
  <2>1. Alike(y, kept) /\ Alike(y, hit)
    BY <1>5 DEF Alike, Fields
  <2>2. PagesEnd(c, y) \in {Answered(kept), Ended(c, "error"), Answered(hit)}
    BY DEF PagesEnd
  <2> HIDE DEF kept, hit
  <2> QED
    BY <1>6, <1>7, <2>1, <2>2
<1>9. Sound(y, held)
  BY <1>2, <1>5, NotesMade, AtWorkSound
<1> QED
  BY <1>1, <1>4, <1>6, <1>8, <1>9, Becomes

\* Pi-hole's two lists.
LEMMA FetchListSettled ==
  ASSUME Inv, Settled, NEW c \in Clients, FetchHosts(c) \/ FetchAliases(c)
  PROVE  Settled'
<1> DEFINE x == call[c]
<1>1. Busy(c) /\ Next1(c) # "act" /\ held' = held
  BY DEF FetchHosts, FetchAliases, Due
<1>2. AtWork(x, held) /\ Head(x.todo) # "act" /\ DOMAIN x = Fields
  BY <1>1, BusyAtWork DEF Next1, AtWork, UnderWay, IsCall
<1>3. PICK hosts \in BOOLEAN :
        Become(c, Answered([x EXCEPT !.got = @ \o Entries(c, hosts)]))
  BY DEF FetchHosts, FetchAliases
<1> DEFINE y == [x EXCEPT !.got = @ \o Entries(c, hosts)]
<1>4. Alike(x, y)
  BY <1>2 DEF Alike, Fields
<1>5. Become(c, Answered(y))
  BY <1>3
<1> HIDE DEF y
<1>6. Sound(Answered(y), held)
  BY <1>2, <1>4, LookupAnswered
<1> QED
  BY <1>1, <1>5, <1>6, Becomes

\* An answer to a listing, or to anything else that is read.
LEMMA ReadSettled ==
  ASSUME Inv, Settled, NEW c \in Clients, ReadRecords(c) \/ Read(c)
  PROVE  Settled'
<1> DEFINE x == call[c]
<1>1. /\ Busy(c) /\ held' = held
      /\ Op(c) = "list_records" \/ Op(c) \in DnsRead \ (ZoneExport \cup {"list_records"})
  BY DEF ReadRecords, Read, Due
<1>2. AtWork(x, held) /\ DOMAIN x = Fields /\ Op(c) = Method(x).op
  BY <1>1, BusyAtWork DEF AtWork, UnderWay, IsCall
<1>3. Op(c) \notin DnsWrite \cup ZoneExport
  <2>1. DnsRead \cap DnsWrite = {}
    BY DEF DnsRead, DnsWrite, ZoneRead, CacheRead, StatsRead, AccessListRead, ZoneExport,
           SettingsRead, ZoneOptionsRead, LogsRead, ZoneWrite, RecordWrite, CacheWrite,
           AccessListWrite, ZoneImport, SettingsWrite, ZoneOptionsWrite
  <2> QED
    BY <1>1, <1>2, <2>1, ChangingMethods DEF AtWork
<1>4. ASSUME NEW y, Alike(x, y)
      PROVE  Sound(Answered(y), held)
  <2>1. AtWork(y, held)
    BY <1>2, <1>4, NotesMade
  <2>2. Method(y) = Method(x)
    BY <1>4 DEF Alike, Method
  <2> QED
    BY <1>2, <1>3, <2>1, <2>2, ReadAnswered DEF AtWork
<1>5. CASE Refused(c)
  BY <1>1, <1>5, RefusedSettled
<1>6. CASE ReadRecords(c) /\ ~Refused(c)
  <2> DEFINE page == SetToSeq(KeptOf(x, Listed(c)))
             y    == [x EXCEPT !.got = @ \o page,
                               !.left = IF EachZone(c) THEN Tail(@) ELSE @]
  <2>1. Become(c, Answered(y))
    BY <1>6 DEF ReadRecords
  <2>2. Alike(x, y)
    BY <1>2 DEF Alike, Fields
  <2> HIDE DEF y
  <2> QED
    BY <1>1, <1>4, <2>1, <2>2, Becomes
<1>7. CASE Read(c) /\ ~Refused(c)
  <2>1. Become(c, Answered(x))
    BY <1>7 DEF Read
  <2>2. Alike(x, x)
    BY <1>2 DEF Alike
  <2> QED
    BY <1>1, <1>4, <2>1, <2>2, Becomes
<1> QED
  BY <1>5, <1>6, <1>7

\* A zone file holds what the source held at that moment.
LEMMA ExportSettled ==
  ASSUME Inv, Settled, NEW c \in Clients, ExportZone(c)
  PROVE  Settled'
<1> DEFINE x == call[c]
           y == [x EXCEPT !.file = {Plain(r) : r \in InZone(held[Server(c)], x.ask.zone)}]
<1>1. Busy(c) /\ Next1(c) = "act" /\ held' = held /\ Op(c) \in ZoneExport
  BY DEF ExportZone, Due
<1>2. /\ AtWork(x, held) /\ DOMAIN x = Fields /\ Op(c) = Method(x).op
      /\ Server(c) = Method(x).server
  BY <1>1, BusyAtWork DEF AtWork, UnderWay, IsCall
<1>3. CASE Refused(c)
  BY <1>1, <1>3, RefusedSettled
<1>4. CASE ~Refused(c)
  <2>1. Become(c, Answered(y))
    BY <1>4 DEF ExportZone
  <2>2. Tail(x.todo) = << >>
    BY <1>1, <1>2, FileTail DEF AtWork, Working, Next1
  <2>3. Op(c) \notin DnsWrite /\ (IsTransfer(x.ask) => x.leg = 1)
    <3>1. x.leg \in {1, 2} /\ UnderWay(x)
      BY <1>2 DEF AtWork, UnderWay, IsCall
    <3>2. Op(c) \notin DnsWrite
      BY <1>1, <3>1, ChangingMethods
    <3> QED
      BY <1>2, <3>1, <3>2, ChangingMethods
  <2>4. Server(c) = x.ask.server
    <3>1. Server(c) = Methods(x.ask)[x.leg].server /\ Op(c) = Methods(x.ask)[x.leg].op
      BY DEF Server, Op
    <3>2. CASE IsTransfer(x.ask)
      BY <2>3, <3>1, <3>2 DEF Methods, At
    <3>3. CASE ~IsTransfer(x.ask)
      <4>1. ~AcrossZones(x.ask)
        BY <1>1, <1>2, ChangingMethods DEF AtWork
      <4> QED
        BY <1>2, <3>3, <4>1, MethodIs DEF AtWork, At
    <3> QED
      BY <3>2, <3>3
  <2>5. /\ y.st = x.st /\ y.ask = x.ask /\ y.leg = x.leg /\ y.todo = x.todo
        /\ y.heard = x.heard /\ y.effects = x.effects /\ y.stood = x.stood
        /\ y.seen = x.seen /\ DOMAIN y = Fields
        /\ y.file = {Plain(r) : r \in InZone(held[x.ask.server], x.ask.zone)}
    BY <1>2, <2>4 DEF Fields
  <2> HIDE DEF y
  <2>6. Method(y) = Method(x) /\ VendorAt(y) = VendorAt(x)
    BY <2>5 DEF Method, VendorAt
  <2>7. UnderWay(y) /\ Method(y).op \notin DnsWrite
    BY <1>2, <2>3, <2>5, <2>6 DEF AtWork, UnderWay, IsCall
  <2>8. Offered(y) /\ y.effects = 0
    BY <1>2, <2>5, <2>6 DEF AtWork, Working, Offered
  <2>9. Between(y, held)
    BY <1>2, <2>5 DEF AtWork, Watches, Between
  <2>10. Copied(y)
    BY <2>5, <2>9 DEF Between, Copied
  <2>11. y.heard = "fine"
    BY <1>2, <2>3, <2>5 DEF AtWork, Working
  <2>12. Sound(Answered(y), held)
    BY <2>2, <2>5, <2>7, <2>8, <2>9, <2>10, <2>11, LastAnswered
  <2> QED
    BY <1>1, <2>1, <2>12, Becomes
<1> QED
  BY <1>3, <1>4

\* A request without an answer, or refused.
LEMMA FailureSettled ==
  ASSUME Inv, Settled, NEW c \in Clients, Fail(c) \/ Refuse(c)
  PROVE  Settled'
<1>1. CASE Refuse(c)
  BY <1>1, RefusedSettled DEF Refuse
<1>2. CASE Fail(c)
  <2>1. Busy(c) /\ held' = held /\ Become(c, Failed(call[c]))
    BY <1>2 DEF Fail
  <2>2. Sound(Failed(call[c]), held)
    BY <2>1, BusyAtWork, FailedSound DEF AtWork
  <2> QED
    BY <2>1, <2>2, Becomes
<1> QED
  BY <1>1, <1>2

\* A call that begins, or is refused before its first request.
LEMMA BeginSettled ==
  ASSUME Inv, Settled, NEW c \in Clients, NEW q \in load.asks[c],
         NEW how \in {"denied", Refusal(q.ask), "error"}, Begin(c, q, how)
  PROVE  Settled'
<1> DEFINE a == q.ask
           y == [Idle EXCEPT
                   !.st = IF how = "none" THEN "busy" ELSE "done",
                   !.mcp = q.mcp, !.ask = q.ask, !.outcome = how,
                   !.todo = IF how = "none" THEN RequestsOn(q.ask, 1) ELSE << >>,
                   !.at = ArgsOf(q.ask), !.stood = held[q.ask.server],
                   !.seen = held[q.ask.server]]
           m == Methods(a)[1]
           v == VendorOf[m.server]
           b == [a EXCEPT !.op = m.op]
<1>1. Become(c, y) /\ held' = held
  BY DEF Begin
<1>2. a \in Parameters
  BY OperationsAssumption DEF Inv
<1>3. /\ y.st = (IF how = "none" THEN "busy" ELSE "done") /\ y.ask = a /\ y.outcome = how
      /\ y.todo = (IF how = "none" THEN RequestsOn(a, 1) ELSE << >>)
      /\ y.leg = 1 /\ y.effects = 0 /\ y.heard = "fine"
      /\ y.stood = held[a.server] /\ y.seen = held[a.server]
  BY DEF Idle
<1> HIDE DEF y
<1>4. how \in {"none", "denied", "unsupported", "error"}
      /\ (how = "unsupported" => RequestsOn(a, 1) = Unsupported)
      /\ (how = "none" => RequestsOn(a, 1) # Unsupported)
  BY DEF Refusal
<1>5. 1 \in DOMAIN Methods(a)
  BY DEF Methods
<1>6. /\ m.op \in DnsService /\ v \in VendorKind /\ b.op = m.op
      /\ RequestsOn(a, 1) = Requests(v, b)
  BY <1>2, <1>5, MethodsOf
<1>7. Method(y) = m /\ VendorAt(y) = v
  BY <1>3 DEF Method, VendorAt
<1>8. m.op \in DnsWrite => ~IsTransfer(a) /\ m.op = a.op
  BY DEF Methods, At, DnsWrite, ZoneWrite, RecordWrite, CacheWrite, AccessListWrite,
         ZoneImport, SettingsWrite, ZoneOptionsWrite
<1> HIDE DEF a, m, v, b
<1>9. Fits(v, b, Requests(v, b))
  BY <1>6, RequestsFit
<1>10. how # "none" => TrueEnd(y)
  <2> HAVE how # "none"
  <2>1. how = "unsupported" => a.op \in DnsWrite \/ m.op \notin Declared(v)
    BY <1>4, <1>6, <1>8, <1>9 DEF Fits, DnsService
  <2> QED
    BY <1>3, <1>4, <1>5, <2>1 DEF TrueEnd, m, v
<1>11. how = "none" => Working(y) /\ Watches(y, held)
  <2> HAVE how = "none"
  <2>1. Working(y)
    BY <1>3, <1>4, <1>6, <1>7, <1>9 DEF Fits, Working, Offered
  <2>2. Watches(y, held)
    BY <1>3 DEF Watches, Between
  <2> QED
    BY <2>1, <2>2
<1>12. Sound(y, held)
  BY <1>3, <1>10, <1>11 DEF Sound
<1> QED
  BY <1>1, <1>12, Becomes

\* A tool, or a command.
LEMMA StartSettled ==
  ASSUME Inv, Settled, NEW c \in Clients, StartTool(c) \/ StartCommand(c)
  PROVE  Settled'
<1>1. \E q \in load.asks[c] : \E how \in {"denied", Refusal(q.ask), "error"} : Begin(c, q, how)
  BY DEF StartTool, StartCommand
<1> QED
  BY <1>1, BeginSettled

\* A call that watches a change stays sound.
LEMMA WatchedSound ==
  ASSUME Inv, Settled, NEW h, NEW dropped, NEW d \in Clients
  PROVE  Sound(Watched(h, dropped)[d], h)
<1> DEFINE x == call[d]
           y == Watched(h, dropped)[d]
<1>1. CASE ~Busy(d)
  <2>1. y = x
    BY <1>1 DEF Watched
  <2> QED
    BY <1>1, <2>1 DEF Settled, Sound, Busy
<1>2. CASE Busy(d)
  <2>1. AtWork(x, held) /\ DOMAIN x = Fields /\ x.st = "busy"
    BY <1>2, BusyAtWork DEF AtWork, UnderWay, IsCall
  <2>2. /\ y.st = x.st /\ y.ask = x.ask /\ y.leg = x.leg /\ y.todo = x.todo /\ y.file = x.file
        /\ y.heard = x.heard /\ y.effects = x.effects
        /\ y.stood = x.stood \cap h[x.ask.server] /\ y.seen = x.seen \cup h[x.ask.server]
    BY <1>2, <2>1 DEF Watched, Fields
  <2> HIDE DEF y
  <2>3. Method(y) = Method(x) /\ VendorAt(y) = VendorAt(x)
    BY <2>2 DEF Method, VendorAt
  <2>4. Working(y)
    BY <2>1, <2>2, <2>3 DEF AtWork, Working, Offered
  <2>5. Between(y, h)
    BY <2>2 DEF Between
  <2>6. ASSUME IsTransfer(y.ask), y.leg = 2, y.heard = "fine"
        PROVE  Copied(y)
    <3>1. Copied(x)
      BY <2>1, <2>2, <2>6 DEF AtWork, Watches
    <3>2. PICK H : /\ x.stood \subseteq H /\ H \subseteq x.seen
                   /\ x.file = {Plain(r) : r \in InZone(H, x.ask.zone)}
      BY <3>1 DEF Copied
    <3>3. y.stood \subseteq H /\ H \subseteq y.seen
      BY <2>2, <3>2
    <3> QED
      BY <2>2, <3>2, <3>3 DEF Copied
  <2>7. Sound(y, h)
    BY <2>1, <2>2, <2>4, <2>5, <2>6 DEF Sound, Watches
  <2> QED
    BY <2>7 DEF y
<1> QED
  BY <1>1, <1>2

\* The records of a server change, at the hand of others,
LEMMA OthersSettled ==
  ASSUME Inv, Settled, NEW h, held' = h, call' = Watched(h, {})
  PROVE  Settled'
BY WatchedSound DEF Settled

\* and of a call.
LEMMA AppliedSettled ==
  ASSUME Inv, Settled, NEW c \in Clients, Busy(c), Op(c) \in DnsWrite, Next1(c) = "act",
         NEW h, NEW dropped, Applied(c, h, dropped)
  PROVE  Settled'
<1> DEFINE w == call[c]
<1>1. /\ AtWork(w, held) /\ DOMAIN w = Fields /\ Op(c) = Method(w).op
      /\ Vendor(c) = VendorAt(w) /\ Vendor(c) \in VendorKind
  BY BusyAtWork DEF AtWork, UnderWay, IsCall
<1>2. held' = h
  BY DEF Applied
<1>3. PICK lost \in BOOLEAN, ans \in Grants(Vendor(c), Op(c)) :
        LET x == [call[c] EXCEPT !.effects = @ + 1,
                                 !.heard = IF lost THEN "lost" ELSE "fine"]
        IN call' = [Watched(h, dropped) EXCEPT ![c] =
             IF ~lost /\ Reads(Vendor(c), Op(c), Next1(c), ans)
             THEN Answered(x) ELSE Finished(x, "error")]
  BY DEF Applied
<1> DEFINE x == [w EXCEPT !.effects = @ + 1, !.heard = IF lost THEN "lost" ELSE "fine"]
           y == IF ~lost /\ Reads(Vendor(c), Op(c), Next1(c), ans)
                THEN Answered(x) ELSE Finished(x, "error")
<1>4. call' = [Watched(h, dropped) EXCEPT ![c] = y]
  BY <1>3
<1>5. w.todo \in ChangeTodo /\ Vendor(c) # "pangolin" /\ Tail(w.todo) = << >> /\ w.effects = 0
  BY <1>1, ChangeTail DEF AtWork, Working, Next1
<1>6. Reads(Vendor(c), Op(c), Next1(c), ans)
  <2> DEFINE v == Vendor(c)
             op == Op(c)
             request == Next1(c)
  <2>1. v \in VendorKind \ {"pangolin"} /\ op \in DnsWrite /\ ans \in Grants(v, op)
    BY <1>1, <1>5
  <2> HIDE DEF v, op, request
  <2>2. Reads(v, op, request, ans)
    BY <2>1, GrantIsRead
  <2> QED
    BY <2>2 DEF v, op, request
<1>7. /\ x.st = w.st /\ x.ask = w.ask /\ x.leg = w.leg /\ x.todo = w.todo
      /\ x.effects = 1 /\ x.heard = (IF lost THEN "lost" ELSE "fine") /\ DOMAIN x = Fields
  BY <1>1, <1>5 DEF Fields
<1>8. y = IF lost THEN Finished(x, "error") ELSE Answered(x)
  BY <1>6
<1> HIDE DEF x, y
<1>9. Method(x) = Method(w) /\ VendorAt(x) = VendorAt(w)
  BY <1>7 DEF Method, VendorAt
<1>10. UnderWay(x) /\ Offered(x) /\ Method(x).op \in DnsWrite
  BY <1>1, <1>7, <1>9 DEF AtWork, UnderWay, IsCall, Working, Offered
<1>11. Sound(y, h)
  <2>1. CASE lost
    BY <1>7, <1>8, <1>10, <2>1, EndIsTrue
  <2>2. CASE ~lost
    BY <1>5, <1>7, <1>8, <1>10, <2>2, LastAnswered
  <2> QED
    BY <2>1, <2>2
<1>12. DOMAIN Watched(h, dropped) = Clients
  BY WatchedOK
<1>13. ASSUME NEW d \in Clients
       PROVE  Sound(call'[d], h)
  <2>1. CASE d = c
    BY <1>4, <1>11, <1>12, <2>1
  <2>2. CASE d # c
    <3>1. call'[d] = Watched(h, dropped)[d]
      BY <1>4, <1>12, <2>2
    <3> QED
      BY <3>1, WatchedSound
  <2> QED
    BY <2>1, <2>2
<1> QED
  BY <1>2, <1>13 DEF Settled

\* The requests that change a server.
LEMMA ChangeSettled ==
  ASSUME Inv, Settled, NEW c \in Clients,
         \/ CreateZone(c) \/ DeleteZone(c) \/ AddRecord(c) \/ DeleteRecord(c)
         \/ ChangeMarks(c) \/ ImportZone(c)
  PROVE  Settled'
<1>1. Busy(c) /\ Next1(c) = "act" /\ Op(c) \in DnsWrite
  <2>1. {"create_zone", "delete_zone", "enable_zone", "disable_zone"} \subseteq ZoneWrite
        /\ {"add_record", "delete_record"} \subseteq RecordWrite
    BY DEF ZoneWrite, RecordWrite
  <2> QED
    BY <2>1 DEF CreateZone, DeleteZone, AddRecord, DeleteRecord, ChangeMarks, ImportZone, Due,
                Marking, DnsWrite
<1>2. (Refused(c) /\ held' = held) \/ \E h, dropped : Applied(c, h, dropped)
  BY DEF CreateZone, DeleteZone, AddRecord, DeleteRecord, ChangeMarks, ImportZone, Rejected
<1> QED
  BY <1>1, <1>2, RefusedSettled, AppliedSettled

\* A step of a client keeps every call sound,
LEMMA ClientSettled ==
  ASSUME Inv, Settled, NEW c \in Clients,
         StartTool(c) \/ StartCommand(c) \/ Advance(c) \/ Refuse(c) \/ Fail(c)
  PROVE  Settled'
BY StartSettled, LookUpSettled, LookUpDomainSettled, FetchZonesSettled, FetchPageSettled,
   FetchListSettled, ReadSettled, ExportSettled, ChangeSettled, FailureSettled
DEF Advance, Lookup, Fetch, Work

\* and so does every other step.
LEMMA EverySettled ==
  ASSUME Inv, Settled, [Next]_vars
  PROVE  Settled'
<1>1. ASSUME NEW s \in load.shared, OtherUsers(s)
      PROVE  Settled'
  <2>1. call' = Watched(held', {})
    BY <1>1 DEF OtherUsers, OtherAdds, OtherRemoves, OtherEdits, OtherRecreates, OthersChange
  <2> QED
    BY <2>1, OthersSettled
<1>2. CASE UNCHANGED vars
  BY <1>2 DEF vars, Settled
<1> QED
  BY <1>1, <1>2, ClientSettled DEF Next

\* The outcome of every call that ended is as it says.
LEMMA SettledIsTrue ==
  ASSUME Inv, Settled
  PROVE  OutcomeIsTrue
<1> SUFFICES ASSUME NEW c \in Clients, Done(c)
             PROVE  LET x == call[c] IN
               /\ x.outcome = "ok" => x.effects = (IF Writes(x.ask) THEN 1 ELSE 0)
               /\ x.outcome = "ok" /\ x.heard = "refused" => Files(c)
               /\ x.outcome = "error" /\ x.effects = 1 => Writes(x.ask) /\ x.heard = "lost"
               /\ x.outcome \in {"denied", "unsupported"} => x.effects = 0
               /\ x.outcome = "ok" => Op(c) \in Declared(Vendor(c)) \cup StatsRead
               /\ x.outcome = "unsupported" =>
                    \/ x.ask.op \in DnsWrite
                    \/ \E i \in DOMAIN Methods(x.ask) :
                         LET m == Methods(x.ask)[i] IN m.op \notin Declared(VendorOf[m.server])
  BY DEF OutcomeIsTrue
<1>1. TrueEnd(call[c])
  BY DEF Settled, Sound, Done
<1>2. /\ Op(c) = Method(call[c]).op /\ Vendor(c) = VendorAt(call[c])
      /\ Files(c) <=> FileRead(call[c])
      /\ Op(c) \in Declared(Vendor(c)) \cup StatsRead <=> Offered(call[c])
  BY DEF Op, Vendor, Server, Method, VendorAt, Files, FileRead, Offered
<1> QED
  BY <1>1, <1>2 DEF TrueEnd

\* However the requests of calls interleave, are refused, fail or lose their
\* answers, and whatever other users change: a call reports success only when
\* its change was made exactly once, an error only when it was not made or the
\* answer to it was lost, and what was denied or is unsupported was never sent
\* (the clients of the five vendors, their response types, and the checks of
\* mcp/tools).
THEOREM OutcomesAreTrue == Spec => []OutcomeIsTrue
<1>1. Init => Inv /\ Settled
  BY InitInv DEF Init, Settled, Sound, Idle
<1>2. Inv /\ Settled /\ [Next]_vars => Inv' /\ Settled'
  BY EveryStep, EverySettled
<1>3. Inv /\ Settled => OutcomeIsTrue
  BY SettledIsTrue
<1> QED
  BY <1>1, <1>2, <1>3, PTL DEF Spec

-----------------------------------------------------------------------------
(* What a change does *)

Changes(c) ==
  \/ CreateZone(c) \/ DeleteZone(c) \/ AddRecord(c) \/ DeleteRecord(c)
  \/ ChangeMarks(c) \/ ImportZone(c)

\* What a call has changed, a step of its own changed.
LEMMA ActsChanges ==
  ASSUME Inv, [Next]_vars, NEW c \in Clients, Acts(c)
  PROVE  Changes(c) /\ ~Refused(c)
<1>1. call[c].effects \in Nat
  BY DEF Inv, CallOK
<1>2. Inv'
  BY EveryStep
<1>3. call'[c].effects \in Nat
  BY <1>2 DEF Inv, CallOK
<1>4. ~(call'[c].effects <= call[c].effects)
  BY <1>1, <1>3 DEF Acts
<1>5. ASSUME NEW d \in Clients,
             \/ StartTool(d) \/ StartCommand(d) \/ Lookup(d) \/ Fetch(d) \/ Refuse(d) \/ Fail(d)
             \/ ReadRecords(d) \/ Read(d) \/ ExportZone(d)
      PROVE  FALSE
  <2>1. Quiet(d)
    BY <1>5, StartQuiet, LookUpQuiet, LookUpDomainQuiet, FindRecordQuiet, FetchZonesQuiet,
       FetchPageQuiet, ListingQuiet, ReadQuiet, ExportQuiet, FailureQuiet
    DEF Lookup, Fetch
  <2> QED
    BY <1>4, <2>1, QuietKeeps
<1>6. ASSUME NEW d \in Clients, Changes(d)
      PROVE  d = c
  <2>1. StepOf(d)
    BY <1>6, CreateZoneStep, DeleteZoneStep, AddRecordStep, DeleteRecordStep,
       ChangeMarksStep, ImportZoneStep DEF Changes
  <2> QED
    BY <1>1, <1>4, <2>1 DEF StepOf
<1>7. ASSUME NEW s \in load.shared, OtherUsers(s)
      PROVE  FALSE
  BY <1>1, <1>4, <1>7, OtherUsersStep
<1>8. CASE UNCHANGED vars
  BY <1>1, <1>4, <1>8 DEF vars
<1>9. Changes(c)
  BY <1>5, <1>6, <1>7, <1>8 DEF Next, Advance, Work, Changes
<1>10. ~Refused(c)
  <2> SUFFICES ASSUME Refused(c) PROVE FALSE
    OBVIOUS
  <2>1. Busy(c)
    BY <1>9 DEF Changes, CreateZone, DeleteZone, AddRecord, DeleteRecord, ChangeMarks,
                ImportZone, Due
  <2>2. PICK y : Become(c, y) /\ Carries(call[c], y)
    <3> DEFINE z == [call[c] EXCEPT !.heard = "refused"]
    <3>1. IsCall(call[c])
      BY <2>1, BusyCall
    <3>2. IsCall(z) /\ \A y : Carries(z, y) => Carries(call[c], y)
      BY <3>1 DEF IsCall, Fields, Carries
    <3>3. Carries(call[c], Failed(call[c])) /\ Carries(z, Answered(z))
      BY <3>1, <3>2, FailedCarries, AnsweredCarries
    <3>4. \E y \in {Answered(z), Failed(call[c])} : Become(c, y)
      BY DEF Refused
    <3> HIDE DEF z
    <3> QED
      BY <3>2, <3>3, <3>4
  <2>3. call'[c] = y
    BY <2>2 DEF Become, Inv
  <2> QED
    BY <1>1, <1>4, <2>2, <2>3 DEF Carries
<1> QED
  BY <1>9, <1>10

\* What a transfer leaves at its destination.
LEMMA ImportCopies ==
  ASSUME Inv, Settled, [Next]_vars, NEW c \in Clients, Acts(c), IsTransfer(call[c].ask)
  PROVE  LET a      == call[c].ask
             v      == VendorOf[a.to]
             before == InZone(held[a.to], a.zone)
             after  == InZone(held'[a.to], a.zone)
             copy   == {Plain(Stored(a.to, p, 0)) : p \in call[c].file} IN
         /\ copy \subseteq {Plain(r) : r \in after}
         /\ v = "technitium" /\ a.flag = "add" => before \subseteq after
         /\ IF v = "technitium" /\ a.flag = "zone" THEN {Plain(r) : r \in after} = copy
            ELSE \A r \in before \ after :
                   \E p \in call[c].file : p.name = r.name /\ p.data.type = r.data.type
         /\ call[c].seen = call[c].stood =>
              call[c].file = {Plain(r) : r \in InZone(held[a.server], a.zone)}
<1> DEFINE a      == call[c].ask
           s      == a.to
           v      == VendorOf[s]
           there  == InZone(held[s], a.zone)
           after  == InZone(held'[s], a.zone)
           file   == call[c].file
           named  == {r \in there : \E p \in file : p.name = r.name /\ p.data.type = r.data.type}
           copy   == {Plain(Stored(s, p, 0)) : p \in file}
<1>1. Changes(c) /\ ~Refused(c)
  BY ActsChanges
<1>2. Busy(c) /\ Next1(c) = "act" /\ Op(c) \in DnsWrite
  <2>1. {"create_zone", "delete_zone", "enable_zone", "disable_zone"} \subseteq ZoneWrite
        /\ {"add_record", "delete_record"} \subseteq RecordWrite
    BY DEF ZoneWrite, RecordWrite
  <2> QED
    BY <1>1, <2>1 DEF Changes, CreateZone, DeleteZone, AddRecord, DeleteRecord, ChangeMarks,
                      ImportZone, Due, Marking, DnsWrite
<1>3. /\ AtWork(call[c], held) /\ Op(c) = Method(call[c]).op
      /\ Server(c) = Method(call[c]).server /\ Server(c) \in Servers
  BY <1>2, BusyAtWork
<1>4. call[c].leg = 2 /\ Op(c) = "import_zone_file" /\ Server(c) = s
  <2>1. call[c].leg = 2
    BY <1>2, <1>3, ChangingMethods DEF AtWork
  <2> QED
    BY <1>3, <2>1 DEF Method, Methods, At
<1>5. ImportZone(c)
  BY <1>1, <1>4 DEF Changes, CreateZone, DeleteZone, AddRecord, DeleteRecord, ChangeMarks,
       Marking, CacheWrite, AccessListWrite, SettingsWrite, ZoneOptionsWrite
<1>6. /\ ZoneStands(c) /\ call[c].heard # "refused"
      /\ \E spared \in Spared(v, there, file, a.flag) : Imports(c, spared)
  <2>1. FileOf(c) = file /\ Vendor(c) = v
    BY <1>4 DEF FileOf, Vendor
  <2> QED
    BY <1>1, <1>4, <1>5, <2>1 DEF ImportZone, Imports, Rejected
<1> PICK spared \in Spared(v, there, file, a.flag) : Imports(c, spared)
  BY <1>6
<1> DEFINE new   == {p \in file : \A r \in spared : Plain(r) # Plain(Stored(s, p, 0))}
           added == Numbered(s, new, nextId)
<1>17. Applied(c, [held EXCEPT ![s] = (@ \ there) \cup spared \cup added], {})
  <2>1. FileOf(c) = file
    BY <1>4 DEF FileOf
  <2> QED
    BY <1>4, <2>1 DEF Imports
<1>7. held'[s] = (held[s] \ there) \cup spared \cup added
  BY <1>3, <1>4, <1>17 DEF Applied, Inv, HeldOK
<1>8. /\ spared \subseteq there
      /\ v = "technitium" /\ a.flag = "add" => spared = there
      /\ IF v = "technitium" /\ a.flag = "zone" THEN spared = {} ELSE there \ named \subseteq spared
  BY DEF Spared
<1>9. \A p \in file : ZoneOf[p.name] = a.zone
  BY <1>2, FileOK DEF FileOf
<1>10. /\ \A p \in new : \E r \in added : Plain(r) = Plain(Stored(s, p, 0))
      /\ \A r \in added : \E p \in new : Plain(r) = Plain(Stored(s, p, 0)) /\ r.name = p.name
  <2>1. ASSUME NEW p, NEW i
        PROVE  Plain(Stored(s, p, i)) = Plain(Stored(s, p, 0)) /\ Stored(s, p, i).name = p.name
    BY DEF Plain, Stored
  <2>2. \E f : added = {Stored(s, p, f[p]) : p \in new}
    BY Zenon DEF Numbered
  <2> HIDE DEF s, new, added
  <2> QED
    BY <2>1, <2>2
<1>11. \A r \in added : ZoneOf[r.name] = a.zone
  BY <1>9, <1>10
<1>12. after = spared \cup added
  BY <1>7, <1>8, <1>11 DEF InZone
<1>13. copy \subseteq {Plain(r) : r \in after}
  <2> SUFFICES ASSUME NEW p \in file
               PROVE  \E r \in after : Plain(r) = Plain(Stored(s, p, 0))
    OBVIOUS
  <2>1. CASE p \in new
    BY <1>10, <1>12, <2>1
  <2>2. CASE p \notin new
    <3>1. \E r \in spared : Plain(r) = Plain(Stored(s, p, 0))
      BY <2>2
    <3> QED
      BY <1>12, <3>1
  <2> QED
    BY <2>1, <2>2
<1>14. /\ v = "technitium" /\ a.flag = "add" => there \subseteq after
       /\ ~(v = "technitium" /\ a.flag = "zone") => there \ after \subseteq named
  BY <1>8, <1>12
<1>15. v = "technitium" /\ a.flag = "zone" => {Plain(r) : r \in after} = copy
  <2> HAVE v = "technitium" /\ a.flag = "zone"
  <2>1. spared = {}
    BY <1>8
  <2>2. new = file /\ after = added
    BY <1>12, <2>1
  <2> QED
    BY <1>10, <2>2
<1>16. call[c].seen = call[c].stood =>
         file = {Plain(r) : r \in InZone(held[a.server], a.zone)}
  <2> HAVE call[c].seen = call[c].stood
  <2>1. Between(call[c], held) /\ Copied(call[c])
    BY <1>3, <1>4, <1>6 DEF AtWork, Working, Watches
  <2>2. PICK H : /\ call[c].stood \subseteq H /\ H \subseteq call[c].seen
                 /\ file = {Plain(r) : r \in InZone(H, a.zone)}
    BY <2>1 DEF Copied
  <2>3. H = held[a.server]
    BY <2>1, <2>2 DEF Between
  <2> QED
    BY <2>2, <2>3
<1> QED
  BY <1>13, <1>14, <1>15, <1>16

\* A transfer leaves the destination with every record the source held when
\* it was exported, whatever happened at either server in between.  It takes
\* away only records of a name and a type it brings, at Technitium none unless
\* told to overwrite; when it replaces the zone there nothing else is left
\* (transfer/zone.rs and the import of the vendor clients).
THEOREM TransfersCopy == Spec => TransferCopies
<1>1. Init => Inv /\ Settled
  BY InitInv DEF Init, Settled, Sound, Idle
<1>2. Inv /\ Settled /\ [Next]_vars => Inv' /\ Settled'
  BY EveryStep, EverySettled
<1>3. Inv /\ Settled /\ [Next]_vars =>
        [\A c \in Clients : Acts(c) /\ IsTransfer(call[c].ask) =>
           LET a      == call[c].ask
               v      == VendorOf[a.to]
               before == InZone(held[a.to], a.zone)
               after  == InZone(held'[a.to], a.zone)
               copy   == {Plain(Stored(a.to, p, 0)) : p \in call[c].file} IN
           /\ copy \subseteq {Plain(r) : r \in after}
           /\ v = "technitium" /\ a.flag = "add" => before \subseteq after
           /\ IF v = "technitium" /\ a.flag = "zone" THEN {Plain(r) : r \in after} = copy
              ELSE \A r \in before \ after :
                     \E p \in call[c].file : p.name = r.name /\ p.data.type = r.data.type
           /\ call[c].seen = call[c].stood =>
                call[c].file = {Plain(r) : r \in InZone(held[a.server], a.zone)}]_vars
  BY ImportCopies
<1> QED
  BY <1>1, <1>2, <1>3, PTL DEF Spec, TransferCopies

-----------------------------------------------------------------------------
(* What a vendor holds of a record *)

\* The records whose value Cloudflare's delete compares have that value.
Keyed(d) == d.type \in Compared => C!ContentKey[d.type] \in DOMAIN d.value

\* A parameter is read from the field it is written to.
LEMMA SamePlaces ==
  /\ \A t \in DOMAIN C!FieldOf : t \in DOMAIN C!ReadFrom /\ C!ReadFrom[t] = C!FieldOf[t]
  /\ \A t \in DOMAIN U!PolicyField : U!ReadFrom[t] = U!PolicyField[t]
<1>1. ASSUME NEW t \in DOMAIN C!FieldOf
      PROVE  t \in DOMAIN C!ReadFrom /\ C!ReadFrom[t] = C!FieldOf[t]
  BY DEF C!FieldOf, C!ReadFrom
<1>2. ASSUME NEW t \in DOMAIN U!PolicyField
      PROVE  U!ReadFrom[t] = U!PolicyField[t]
  BY DEF U!PolicyField, U!ReadFrom
<1> QED
  BY <1>1, <1>2

\* What is held can be compared with a selector.
Form(v, d) ==
  /\ v \in {"technitium", "cloudflare"} => Keyed(d)
  /\ v = "unifi" /\ U!Storable(d) => DOMAIN U!PolicyField[d.type] \subseteq DOMAIN d.value
  /\ v = "pihole" => P!EntryKey(d.type) \in DOMAIN d.value

\* The value of a type that is compared is one parameter, Cloudflare's content.
LEMMA ComparedTypes ==
  ASSUME NEW t \in Compared
  PROVE  /\ t \in Types /\ C!ContentKey[t] \in Required[t]
         /\ KeysOf(t) \ Lossy \subseteq {C!ContentKey[t]}
         /\ t \in DOMAIN C!FieldOf /\ DOMAIN C!FieldOf[t] = {C!ContentKey[t]}
         /\ C!FieldOf[t][C!ContentKey[t]] = "content"
         /\ t \in DOMAIN C!ContentKey /\ C!ContentKey[t] \notin DOMAIN C!NumberOf
<1>1. DOMAIN << >> = {}
  OBVIOUS
<1>2. /\ t \in Types /\ C!ContentKey[t] \in Required[t] /\ t \in DOMAIN C!ContentKey
      /\ C!ContentKey[t] \notin DOMAIN C!NumberOf
  BY DEF Compared, Types, Required, C!ContentKey, C!NumberOf
<1>3. KeysOf(t) \ Lossy \subseteq {C!ContentKey[t]}
  BY <1>1 DEF Compared, KeysOf, Required, DefaultsOf, Defaulted, OptionalOf, Optional, Lossy,
              C!ContentKey
<1>4. /\ t \in DOMAIN C!FieldOf /\ DOMAIN C!FieldOf[t] = {C!ContentKey[t]}
      /\ C!FieldOf[t][C!ContentKey[t]] = "content"
  BY DEF Compared, C!FieldOf, C!ContentKey
<1> QED
  BY <1>2, <1>3, <1>4

\* A typed record has its value.
LEMMA TypedKeyed ==
  ASSUME NEW d, IsRecordData(d)
  PROVE  Keyed(d)
BY ComparedTypes DEF IsRecordData, Keyed

\* What Technitium and Cloudflare keep of a record that has its value has it.
LEMMA TechnitiumKeyed ==
  ASSUME NEW d, Keyed(d)
  PROVE  Keyed(T!Kept(d))
<1>1. CASE T!Typed(d)
  <2>1. T!Kept(d) = T!parse_record_data(d)
    BY <1>1 DEF T!Kept
  <2>2. T!Kept(d).type = d.type
        /\ DOMAIN T!Kept(d).value = T!Required[d.type] \cup DOMAIN T!DefaultsOf(d.type)
                                      \cup (T!OptionalOf(d.type) \cap DOMAIN d.value)
    BY <2>1 DEF T!parse_record_data
  <2>3. T!Required = Required
    BY DEF T!Required, Required
  <2> QED
    BY <2>2, <2>3, ComparedTypes DEF Keyed
<1>2. CASE ~T!Typed(d)
  BY <1>2 DEF T!Kept
<1> QED
  BY <1>1, <1>2

LEMMA CloudflareKeyed ==
  ASSUME NEW d, Keyed(d)
  PROVE  Keyed(C!Kept(d))
<1> SUFFICES ASSUME C!Typed(d), d.type \in Compared
             PROVE  C!ContentKey[d.type] \in DOMAIN C!Kept(d).value
  <2>1. CASE C!Typed(d)
    <3>1. C!Kept(d).type = d.type
      BY <2>1 DEF C!Kept
    <3> QED
      BY <2>1, <3>1 DEF Keyed
  <2>2. CASE ~C!Typed(d)
    BY <2>2 DEF C!Kept
  <2> QED
    BY <2>1, <2>2
<1> DEFINE key   == C!ContentKey[d.type]
           place == C!FieldOf[d.type]
           body  == C!record_data_to_cloudflare_body(d)
           sent  == DOMAIN place \cap DOMAIN d.value
           read  == [k \in {p \in DOMAIN place : place[p] \in DOMAIN body} |->
                       C!Decode(k, body[place[k]])]
<1>1. d.type \in DOMAIN C!FieldOf /\ DOMAIN place = {key} /\ place[key] = "content"
  BY ComparedTypes
<1>2. key \in DOMAIN d.value
  BY DEF Keyed
<1>3. DOMAIN body = {place[k] : k \in sent}
  BY <1>1 DEF C!record_data_to_cloudflare_body
<1>4. C!Kept(d).value = C!Completed(read, C!AssumedFor(d.type))
  <2>1. d.type \in DOMAIN C!ReadFrom /\ C!ReadFrom[d.type] = place
    BY <1>1, SamePlaces
  <2> HIDE DEF place, body
  <2> QED
    BY <2>1, Zenon DEF C!Kept, C!normalize_rdata, body
<1> HIDE DEF body, place
<1>5. key \in DOMAIN read
  BY <1>1, <1>2, <1>3
<1> HIDE DEF read
<1> QED
  BY <1>4, <1>5 DEF C!Completed

LEMMA UnifiFormed ==
  ASSUME NEW d
  PROVE  /\ U!Kept(d).type = d.type
         /\ U!Storable(d) => DOMAIN U!PolicyField[d.type] \subseteq DOMAIN U!Kept(d).value
BY SamePlaces DEF U!Kept, U!policy_to_rdata, U!Completed, U!Storable

\* What a vendor keeps can be compared, as long as what it was given could be.
LEMMA KeptForm ==
  ASSUME NEW v \in VendorKind, NEW d, v \in {"technitium", "cloudflare"} => Keyed(d)
  PROVE  Form(v, Kept(v, d))
<1>1. CASE v = "technitium"
  <2>1. Kept(v, d) = T!Kept(d)
    BY <1>1, Zenon DEF Kept
  <2> QED
    BY <1>1, <2>1, TechnitiumKeyed DEF Form
<1>2. CASE v = "cloudflare"
  <2>1. Kept(v, d) = C!Kept(d)
    BY <1>2, Zenon DEF Kept
  <2> QED
    BY <1>2, <2>1, CloudflareKeyed DEF Form
<1>3. CASE v = "unifi"
  <2>1. Kept(v, d) = U!Kept(d)
    BY <1>3, Zenon DEF Kept
  <2> QED
    BY <1>3, <2>1, UnifiFormed DEF Form, U!Storable
<1>4. CASE v = "pihole"
  <2>1. Kept(v, d) = P!Kept(d)
    BY <1>4, Zenon DEF Kept
  <2> QED
    BY <1>4, <2>1 DEF Form, P!Kept
<1>5. CASE v = "pangolin"
  BY <1>5 DEF Form
<1> QED
  BY <1>1, <1>2, <1>3, <1>4, <1>5 DEF VendorKind

\* Whether a record has the value that a selector names, as far as the vendor
\* compares it.
Meant(v, d, sel) ==
  /\ d.type = sel.type
  /\ \/ v = "cloudflare" /\ sel.type \notin Compared
     \/ \A k \in DOMAIN sel.value \ Lossy : k \in DOMAIN d.value /\ d.value[k] = sel.value[k]

Selects(sel) == sel.type \in Types /\ DOMAIN sel.value \subseteq KeysOf(sel.type)

LEMMA CloudflarePicks ==
  ASSUME NEW d, Keyed(d), NEW sel, Selects(sel), C!Picks(d, sel)
  PROVE  Meant("cloudflare", d, sel)
<1>1. d.type = sel.type
  BY DEF C!Picks
<1>2. CASE sel.type \notin Compared
  BY <1>1, <1>2 DEF Meant
<1>3. CASE sel.type \in Compared
  <2> DEFINE key   == C!ContentKey[d.type]
             place == C!FieldOf[d.type]
             body  == C!record_data_to_cloudflare_body(d)
             sent  == DOMAIN place \cap DOMAIN d.value
  <2>1. /\ d.type \in DOMAIN C!FieldOf /\ DOMAIN place = {key} /\ place[key] = "content"
        /\ d.type \in DOMAIN C!ContentKey /\ key \notin DOMAIN C!NumberOf
        /\ KeysOf(d.type) \ Lossy \subseteq {key} /\ key \in DOMAIN d.value
    BY <1>1, <1>3, ComparedTypes DEF Keyed
  <2>2. body = [f \in {place[k] : k \in sent} |->
                  LET k == CHOOSE p \in sent : place[p] = f IN C!Encode(k, d.value[k])]
    BY <2>1, Zenon DEF C!record_data_to_cloudflare_body
  <2>3. sent = {key}
    BY <2>1
  <2>4. C!expected_cloudflare_content(sel) # {} =>
          body.content \in C!expected_cloudflare_content(sel)
    BY Zenon DEF C!Picks
  <2>5. key \in DOMAIN sel.value => C!expected_cloudflare_content(sel) = {sel.value[key]}
    BY <1>1, <2>1 DEF C!expected_cloudflare_content
  <2> HIDE DEF key, place, sent, body
  <2>6. (CHOOSE p \in sent : place[p] = "content") = key
    BY <2>1, <2>3
  <2>7. body["content"] = C!Encode(key, d.value[key])
    BY <2>1, <2>2, <2>3, <2>6
  <2>8. C!Encode(key, d.value[key]) = d.value[key]
    BY <2>1 DEF C!Encode
  <2>9. key \in DOMAIN sel.value => d.value[key] = sel.value[key]
    BY <2>4, <2>5, <2>7, <2>8
  <2>10. DOMAIN sel.value \ Lossy \subseteq {key}
    BY <1>1, <2>1 DEF Selects
  <2> QED
    BY <1>1, <2>1, <2>9, <2>10 DEF Meant
<1> QED
  BY <1>2, <1>3

LEMMA UnifiPicks ==
  ASSUME NEW d, Form("unifi", d), NEW sel, Selects(sel), U!policy_matches_delete_params(d, sel)
  PROVE  Meant("unifi", d, sel)
<1>1. /\ U!Storable(d) /\ d.type = sel.type
      /\ \A k \in DOMAIN U!PolicyField[d.type] \cap DOMAIN sel.value : d.value[k] = sel.value[k]
      /\ DOMAIN U!PolicyField[d.type] \subseteq DOMAIN d.value
  BY DEF U!policy_matches_delete_params, Form
<1>2. KeysOf(d.type) \ Lossy \subseteq DOMAIN U!PolicyField[d.type]
  <2>1. DOMAIN << >> = {}
    OBVIOUS
  <2>2. d.type \in {"A", "AAAA", "CNAME", "MX", "TXT", "SRV"}
    BY <1>1 DEF U!Storable, U!PolicyField
  <2> QED
    BY <2>1, <2>2 DEF KeysOf, Required, DefaultsOf, Defaulted, OptionalOf, Optional, Lossy,
                      U!PolicyField
<1> QED
  BY <1>1, <1>2 DEF Meant, Selects

LEMMA PiholePicks ==
  ASSUME NEW d, Form("pihole", d), NEW sel, Selects(sel), P!Storable(sel), P!Picks(d, sel)
  PROVE  Meant("pihole", d, sel)
<1>1. /\ d.type = sel.type /\ P!EntryKey(d.type) \in DOMAIN d.value
      /\ d.value[P!EntryKey(d.type)] = sel.value[P!EntryKey(d.type)]
  BY DEF P!Picks, Form
<1>2. KeysOf(sel.type) \subseteq {P!EntryKey(sel.type)}
  <2>1. DOMAIN << >> = {}
    OBVIOUS
  <2>2. sel.type \in {"A", "AAAA", "CNAME"}
    BY DEF P!Storable, P!HostTypes
  <2> QED
    BY <2>1, <2>2 DEF KeysOf, Required, DefaultsOf, Defaulted, OptionalOf, Optional, P!EntryKey
<1> QED
  BY <1>1, <1>2 DEF Meant, Selects

\* What a vendor takes for the record that a selector names has its value.
LEMMA PickedIsMeant ==
  ASSUME NEW v \in VendorKind, NEW d, Form(v, d), NEW sel, Selects(sel), Picks(v, d, sel),
         v = "pihole" => P!Storable(sel)
  PROVE  Meant(v, d, sel)
<1>1. CASE v = "technitium"
  <2>1. T!Agrees(d, sel)
    BY <1>1, Zenon DEF Picks, T!Picks
  <2> QED
    BY <2>1 DEF T!Agrees, Meant
<1>2. CASE v = "cloudflare"
  <2>1. C!Picks(d, sel) /\ Keyed(d)
    BY <1>2, Zenon DEF Picks, Form
  <2> QED
    BY <1>2, <2>1, CloudflarePicks
<1>3. CASE v = "unifi"
  <2>1. U!policy_matches_delete_params(d, sel)
    BY <1>3, Zenon DEF Picks
  <2> QED
    BY <1>3, <2>1, UnifiPicks
<1>4. CASE v = "pihole"
  <2>1. P!Picks(d, sel)
    BY <1>4, Zenon DEF Picks
  <2> QED
    BY <1>4, <2>1, PiholePicks
<1>5. CASE v = "pangolin"
  BY <1>5, Zenon DEF Picks
<1> QED
  BY <1>1, <1>2, <1>3, <1>4, <1>5 DEF VendorKind

-----------------------------------------------------------------------------
(* What a delete has found *)

\* The requests left of a delete where records have ids.
DeleteTodo(v) ==
  IF v = "cloudflare" THEN {<<"zone", "find", "act">>, <<"find", "act">>, <<"act">>}
  ELSE {<<"site", "page", "act">>, <<"page", "act">>, <<"act">>}

\* The record with the id found is the one that was meant, or it was edited
\* since; a policy collected is still the same, or was edited.
Aimed(x, S, n) ==
  /\ x.todo \in DeleteTodo(VendorOf[x.ask.server])
  /\ \A r \in S : r.id = x.target =>
       r.id \in x.edited \/ Meant(VendorOf[x.ask.server], r.data, x.ask.data)
  /\ \E R : x.got \in Seq(R) /\ \A g \in R :
       /\ g.id \in 0..(n - 1)
       /\ \A r \in S : r.id = g.id => r.id \in x.edited \/ r = g

Guided(x, h, n) ==
  x.st = "busy" =>
    /\ \A p \in x.file : Keyed(p.data)
    /\ x.ask.op = "delete_record" =>
         /\ VendorOf[x.ask.server] = "pihole" => P!Storable(x.ask.data)
         /\ ById(VendorOf[x.ask.server]) => Aimed(x, h[x.ask.server], n)

Formed(h) == \A s \in Servers : \A r \in h[s] : Form(VendorOf[s], r.data)
Guide == Formed(held) /\ \A c \in Clients : Guided(call[c], held, nextId)

\* What is left of the requests of a delete.
LEMMA DeleteTail ==
  ASSUME NEW v, NEW t \in DeleteTodo(v)
  PROVE  /\ Tail(t) = << >> \/ Tail(t) \in DeleteTodo(v)
         /\ Head(t) \in {"zone", "find", "site", "page", "act"}
         /\ Head(t) = "find" => v = "cloudflare"
         /\ Head(t) = "page" => v # "cloudflare"
<1>1. CASE t = <<"act">>
  BY <1>1
<1>2. ASSUME NEW w \in {"find", "page"}, t = <<w, "act">>, w = "find" <=> v = "cloudflare"
      PROVE  Tail(t) \in DeleteTodo(v) /\ Head(t) = w
  <2>1. Tail(t) = <<"act">> /\ Head(t) = w
    BY <1>2
  <2> QED
    BY <2>1 DEF DeleteTodo
<1>3. CASE t = <<"zone", "find", "act">> /\ v = "cloudflare"
  <2>1. Tail(t) = <<"find", "act">> /\ Head(t) = "zone"
    BY <1>3
  <2> QED
    BY <1>3, <2>1 DEF DeleteTodo
<1>4. CASE t = <<"site", "page", "act">> /\ v # "cloudflare"
  <2>1. Tail(t) = <<"page", "act">> /\ Head(t) = "site"
    BY <1>4
  <2> QED
    BY <1>4, <2>1 DEF DeleteTodo
<1>5. \/ t = <<"act">>
      \/ t = <<"find", "act">> /\ v = "cloudflare"
      \/ t = <<"page", "act">> /\ v # "cloudflare"
      \/ t = <<"zone", "find", "act">> /\ v = "cloudflare"
      \/ t = <<"site", "page", "act">> /\ v # "cloudflare"
  BY DEF DeleteTodo
<1> QED
  BY <1>1, <1>2, <1>3, <1>4, <1>5

\* What a call asks for is well formed.
LEMMA AskData ==
  ASSUME NEW l \in Workloads, NEW c \in Clients, NEW x, FromLoad(c, x, l)
  PROVE  /\ x.ask.op \in {"add_record", "import_zone_file"} => Keyed(x.ask.data)
         /\ x.ask.op = "delete_record" => Selects(x.ask.data)
<1>1. PICK q \in l.asks[c] : q.ask = x.ask
  BY DEF FromLoad
<1>2. /\ q.ask.op \in {"add_record", "import_zone_file"} => IsRecordData(q.ask.data)
      /\ q.ask.op = "delete_record" =>
           /\ q.ask.data.type \in Types
           /\ DOMAIN q.ask.data.value \subseteq KeysOf(q.ask.data.type)
  BY DataAssumption
<1> QED
  BY <1>1, <1>2, TypedKeyed DEF Selects

\* Notes about other things.
Same(x, y) ==
  /\ DOMAIN y = Fields /\ y.st = x.st /\ y.ask = x.ask /\ y.leg = x.leg /\ y.todo = x.todo
  /\ y.file = x.file /\ y.target = x.target /\ y.got = x.got /\ y.edited = x.edited

LEMMA SameGuided ==
  ASSUME NEW x, NEW h, NEW n, Guided(x, h, n), IsCall(x), NEW y, Same(x, y)
  PROVE  Guided(y, h, n) /\ IsCall(y)
BY DEF Guided, Aimed, Same, IsCall

\* A call that is no delete keeps its file or drops it.
LEMMA OtherwiseGuided ==
  ASSUME NEW x, x.st = "busy", NEW h, NEW n, Guided(x, h, n), x.ask.op # "delete_record",
         NEW y, y.ask = x.ask, y.file \in {{}, x.file}
  PROVE  Guided(y, h, n)
BY DEF Guided

\* A delete that goes on is at its next request.
LEMMA AnsweredGuided ==
  ASSUME NEW x, IsCall(x), x.st = "busy", NEW h, NEW n, Guided(x, h, n)
  PROVE  Guided(Answered(x), h, n)
<1>1. CASE x.ask.op # "delete_record"
  BY <1>1, AnsweredCarries, OtherwiseGuided DEF Carries
<1>2. CASE x.ask.op = "delete_record" /\ Tail(x.todo) # << >>
  <2> DEFINE y == [x EXCEPT !.todo = Tail(@)]
  <2>1. /\ y.st = "busy" /\ y.ask = x.ask /\ y.file = x.file /\ y.target = x.target
        /\ y.got = x.got /\ y.edited = x.edited /\ y.todo = Tail(x.todo)
    BY DEF IsCall, Fields
  <2>2. Answered(x) = y
    BY <1>2 DEF Answered
  <2> HIDE DEF y
  <2>3. ASSUME ById(VendorOf[x.ask.server])
        PROVE  Aimed(y, h[x.ask.server], n)
    <3>1. Aimed(x, h[x.ask.server], n)
      BY <1>2, <2>3 DEF Guided
    <3>2. y.todo \in DeleteTodo(VendorOf[x.ask.server])
      BY <1>2, <2>1, <3>1, DeleteTail DEF Aimed
    <3> QED
      BY <2>1, <3>1, <3>2 DEF Aimed
  <2> QED
    BY <1>2, <2>1, <2>2, <2>3 DEF Guided
<1>3. CASE x.ask.op = "delete_record" /\ Tail(x.todo) = << >>
  <2>1. Answered(x) = Finished(x, "ok")
    BY <1>3 DEF Answered, IsTransfer, AcrossZones, IsSearch, ListsAll
  <2> QED
    BY <2>1 DEF Guided, Finished, Idle
<1> QED
  BY <1>1, <1>2, <1>3

\* One that failed is over.
LEMMA FailedGuided ==
  ASSUME NEW x, IsCall(x), x.st = "busy", NEW h, NEW n, Guided(x, h, n)
  PROVE  Guided(Failed(x), h, n) /\ \A how : Guided(Finished(x, how), h, n)
<1>1. CASE x.ask.op # "delete_record"
  BY <1>1, FailedCarries, FinishedCarries, OtherwiseGuided DEF Carries
<1>2. CASE x.ask.op = "delete_record"
  <2>1. Failed(x) = Finished(x, "error")
    BY <1>2 DEF Failed, IsSearch
  <2> QED
    BY <2>1 DEF Guided, Finished, Idle
<1> QED
  BY <1>1, <1>2

\* What holds of a call under way.
LEMMA BusyGuided ==
  ASSUME Inv, Guide, NEW c \in Clients, Busy(c)
  PROVE  /\ Guided(call[c], held, nextId) /\ IsCall(call[c]) /\ call[c].st = "busy"
         /\ DOMAIN call[c] = Fields
         /\ call[c].ask \in Parameters /\ VendorOf[call[c].ask.server] \in VendorKind
         /\ call[c].ask.op \in {"add_record", "import_zone_file"} => Keyed(call[c].ask.data)
         /\ call[c].ask.op = "delete_record" =>
              /\ Selects(call[c].ask.data)
              /\ Op(c) = "delete_record" /\ Server(c) = call[c].ask.server
<1>1. /\ CallOK(c, call[c], load, held, nextId) /\ IsCall(call[c])
      /\ call[c].ask \in Parameters /\ call[c].st = "busy"
  BY BusyCall
<1>2. FromLoad(c, call[c], load) /\ load \in Workloads
  BY <1>1 DEF CallOK, Inv
<1>3. VendorOf[call[c].ask.server] \in VendorKind
  BY <1>1, OperationsAssumption DEF Parameters
<1> QED
  BY <1>1, <1>2, <1>3, AskData, DeleteOp DEF Guide, IsCall

\* A guided call in the place of another.
LEMMA BecomesGuided ==
  ASSUME Inv, Guide, NEW c \in Clients, NEW y, Guided(y, held, nextId), Become(c, y),
         held' = held, nextId' = nextId
  PROVE  Guide'
<1>1. DOMAIN call = Clients
  BY DEF Inv
<1>2. ASSUME NEW d \in Clients
      PROVE  Guided(call'[d], held, nextId)
  <2>1. CASE d = c
    BY <1>1, <2>1 DEF Become
  <2>2. CASE d # c
    <3>1. call'[d] = call[d]
      BY <1>1, <2>2 DEF Become
    <3> QED
      BY <3>1 DEF Guide
  <2> QED
    BY <2>1, <2>2
<1> QED
  BY <1>2 DEF Guide, Formed

-----------------------------------------------------------------------------
(* The steps that change no server *)

\* A refusal.
LEMMA RefusedGuided ==
  ASSUME Inv, Guide, NEW c \in Clients, Busy(c), Refused(c), held' = held, nextId' = nextId
  PROVE  Guide'
<1> DEFINE x == call[c]
           y == [x EXCEPT !.heard = "refused"]
<1>1. Guided(x, held, nextId) /\ IsCall(x) /\ x.st = "busy" /\ DOMAIN x = Fields
  BY BusyGuided
<1>2. Same(x, y)
  BY <1>1 DEF Same, Fields
<1>3. \E z \in {Answered(y), Failed(x)} : Become(c, z)
  BY DEF Refused
<1> HIDE DEF y
<1>4. Guided(y, held, nextId) /\ IsCall(y) /\ y.st = "busy"
  BY <1>1, <1>2, SameGuided DEF Same
<1>5. Guided(Answered(y), held, nextId)
  BY <1>4, AnsweredGuided
<1>6. Guided(Failed(x), held, nextId)
  BY <1>1, FailedGuided
<1> QED
  BY <1>3, <1>5, <1>6, BecomesGuided

\* Lookups, and answers that are not noted.
LEMMA LookUpGuided ==
  ASSUME Inv, Guide, NEW c \in Clients,
         LookUpZone(c) \/ LookUpSite(c) \/ LookUpLogFile(c) \/ Read(c) \/ Fail(c)
  PROVE  Guide'
<1> DEFINE x == call[c]
<1>1. Busy(c) /\ held' = held /\ nextId' = nextId
  BY DEF LookUpZone, LookUpSite, LookUpLogFile, Read, Fail, Due
<1>2. Guided(x, held, nextId) /\ IsCall(x) /\ x.st = "busy" /\ DOMAIN x = Fields
  BY <1>1, BusyGuided
<1>3. Guided(Failed(x), held, nextId) /\ Guided(Answered(x), held, nextId)
  BY <1>2, FailedGuided, AnsweredGuided
<1>4. ASSUME NEW z
      PROVE  Guided(Answered([x EXCEPT !.zid = z]), held, nextId)
  <2> DEFINE y == [x EXCEPT !.zid = z]
  <2>1. Same(x, y) /\ y.st = "busy"
    BY <1>2 DEF Same, Fields
  <2> HIDE DEF y
  <2>2. Guided(Answered(y), held, nextId)
    BY <1>2, <2>1, SameGuided, AnsweredGuided
  <2> QED
    BY <2>2 DEF y
<1>5. Refused(c) \/ \E y : Become(c, y) /\ Guided(y, held, nextId)
  BY <1>3, <1>4 DEF LookUpZone, LookUpSite, LookUpLogFile, Read, Fail
<1> QED
  BY <1>1, <1>5, BecomesGuided, RefusedGuided

\* Pangolin's zones, which no delete looks up where records have ids.
LEMMA LookUpDomainGuided ==
  ASSUME Inv, Guide, NEW c \in Clients, LookUpDomain(c)
  PROVE  Guide'
<1> DEFINE x  == call[c]
           zs == SetToSeq(ZonesAt(Server(c)))
           y  == [x EXCEPT !.todo = [i \in DOMAIN zs |-> "act"], !.left = zs]
<1>1. Busy(c) /\ Next1(c) = "domains" /\ held' = held /\ nextId' = nextId
  BY DEF LookUpDomain, Due
<1>2. Guided(x, held, nextId) /\ IsCall(x) /\ x.st = "busy" /\ DOMAIN x = Fields
  BY <1>1, BusyGuided
<1>3. Guided(Failed(x), held, nextId) /\ Guided(Answered(x), held, nextId)
  BY <1>2, FailedGuided, AnsweredGuided
<1>4. Guided(ListingEnds(x), held, nextId)
  BY DEF Guided, ListingEnds, Finished, Idle
<1>5. y.ask = x.ask /\ y.file = x.file
  BY <1>2 DEF Fields
<1>6. \E z \in {ListingEnds(x), y, Failed(x), Answered(x)} : Become(c, z)
  BY DEF LookUpDomain
<1> HIDE DEF y
<1>7. ~(x.ask.op = "delete_record" /\ ById(VendorOf[x.ask.server]))
  <2> SUFFICES ASSUME x.ask.op = "delete_record", ById(VendorOf[x.ask.server])
               PROVE  FALSE
    OBVIOUS
  <2>1. x.todo \in DeleteTodo(VendorOf[x.ask.server])
    BY <1>2 DEF Guided, Aimed
  <2>2. \A v : \A t \in DeleteTodo(v) : Head(t) # "domains"
    <3> TAKE v
    <3> TAKE t \in DeleteTodo(v)
    <3>1. Head(t) \in {"zone", "find", "site", "page", "act"}
      BY DeleteTail
    <3> QED
      BY <3>1
  <2> QED
    BY <1>1, <2>1, <2>2 DEF Next1
<1>8. Guided(y, held, nextId)
  BY <1>2, <1>5, <1>7 DEF Guided
<1> QED
  BY <1>1, <1>3, <1>4, <1>6, <1>8, BecomesGuided

\* What a listing collects.
LEMMA ListGuided ==
  ASSUME Inv, Guide, NEW c \in Clients,
         FetchZones(c) \/ FetchHosts(c) \/ FetchAliases(c) \/ ReadRecords(c)
  PROVE  Guide'
<1> DEFINE x == call[c]
<1>1. /\ Busy(c) /\ held' = held /\ nextId' = nextId
      /\ Op(c) \in {"list_zones", "list_records"}
  BY DEF FetchZones, FetchHosts, FetchAliases, ReadRecords, Due
<1>2. /\ Guided(x, held, nextId) /\ IsCall(x) /\ x.st = "busy" /\ DOMAIN x = Fields
      /\ x.ask.op # "delete_record"
  BY <1>1, BusyGuided
<1>3. ASSUME NEW y, DOMAIN y = Fields, y.leg = x.leg, y.st = "busy", y.ask = x.ask,
             y.file = x.file
      PROVE  /\ Guided(y, held, nextId) /\ Guided(Answered(y), held, nextId)
             /\ AcrossZones(x.ask) => Guided(NextZone(y), held, nextId)
  <2>1. Guided(y, held, nextId) /\ IsCall(y)
    BY <1>2, <1>3, OtherwiseGuided DEF IsCall
  <2>2. AcrossZones(x.ask) => Guided(NextZone(y), held, nextId)
    <3> HAVE AcrossZones(x.ask)
    <3>1. Carries(y, NextZone(y))
      BY <1>3, <2>1, NextZoneCarries
    <3> QED
      BY <1>2, <1>3, <2>1, <3>1, OtherwiseGuided DEF Carries
  <2> QED
    BY <1>3, <2>1, <2>2, AnsweredGuided
<1>4. CASE FetchZones(c)
  <2> DEFINE page == PageOfZones(ZonesAt(Server(c)), x.offset)
             y    == [x EXCEPT !.left = @ \o page, !.offset = @ + ZonePage]
  <2>1. AcrossZones(x.ask) /\ \E z \in {y, NextZone(y)} : Become(c, z)
    BY <1>4 DEF FetchZones
  <2>2. DOMAIN y = Fields /\ y.leg = x.leg /\ y.st = "busy" /\ y.ask = x.ask /\ y.file = x.file
    BY <1>2 DEF Fields
  <2> HIDE DEF y
  <2> QED
    BY <1>1, <1>3, <2>1, <2>2, BecomesGuided
<1>5. CASE FetchHosts(c) \/ FetchAliases(c)
  <2>1. PICK hosts \in BOOLEAN :
          Become(c, Answered([x EXCEPT !.got = @ \o Entries(c, hosts)]))
    BY <1>5 DEF FetchHosts, FetchAliases
  <2> DEFINE y == [x EXCEPT !.got = @ \o Entries(c, hosts)]
  <2>2. DOMAIN y = Fields /\ y.leg = x.leg /\ y.st = "busy" /\ y.ask = x.ask /\ y.file = x.file
    BY <1>2 DEF Fields
  <2>3. Become(c, Answered(y))
    BY <2>1
  <2> HIDE DEF y
  <2> QED
    BY <1>1, <1>3, <2>2, <2>3, BecomesGuided
<1>6. CASE ReadRecords(c) /\ Refused(c)
  BY <1>1, <1>6, RefusedGuided
<1>7. CASE ReadRecords(c) /\ ~Refused(c)
  <2> DEFINE page == SetToSeq(KeptOf(x, Listed(c)))
             y    == [x EXCEPT !.got = @ \o page,
                               !.left = IF EachZone(c) THEN Tail(@) ELSE @]
  <2>1. Become(c, Answered(y))
    BY <1>7 DEF ReadRecords
  <2>2. DOMAIN y = Fields /\ y.leg = x.leg /\ y.st = "busy" /\ y.ask = x.ask /\ y.file = x.file
    BY <1>2 DEF Fields
  <2> HIDE DEF y
  <2> QED
    BY <1>1, <1>3, <2>1, <2>2, BecomesGuided
<1> QED
  BY <1>4, <1>5, <1>6, <1>7

\* Notes that leave a delete with what it should have.
LEMMA NotedGuided ==
  ASSUME NEW x, IsCall(x), x.st = "busy", NEW h, NEW n, Guided(x, h, n),
         NEW y, DOMAIN y = Fields, y.st = x.st, y.ask = x.ask, y.leg = x.leg, y.todo = x.todo,
         y.file = x.file,
         x.ask.op = "delete_record" /\ ById(VendorOf[x.ask.server]) =>
           Aimed(y, h[x.ask.server], n)
  PROVE  Guided(y, h, n) /\ IsCall(y)
BY DEF Guided, IsCall

\* The record that Cloudflare's delete finds is the one that was meant.
LEMMA FindRecordGuided ==
  ASSUME Inv, Guide, NEW c \in Clients, FindRecord(c)
  PROVE  Guide'
<1> DEFINE x == call[c]
           a == x.ask
           v == VendorOf[a.server]
<1>1. Busy(c) /\ Next1(c) = "find" /\ Op(c) = "delete_record" /\ held' = held /\ nextId' = nextId
  BY DEF FindRecord, Due
<1>2. /\ Guided(x, held, nextId) /\ IsCall(x) /\ x.st = "busy" /\ DOMAIN x = Fields
      /\ a \in Parameters /\ v \in VendorKind
      /\ a.op = "delete_record" => Selects(a.data) /\ Server(c) = a.server
  BY <1>1, BusyGuided
<1>3. CASE Become(c, Ended(c, "error"))
  BY <1>1, <1>2, <1>3, FailedGuided, BecomesGuided DEF Ended
<1>4. ASSUME NEW r \in held[Server(c)], Picks("cloudflare", r.data, a.data),
             Become(c, Answered([x EXCEPT !.target = r.id]))
      PROVE  Guide'
  <2> DEFINE y == [x EXCEPT !.target = r.id]
  <2>1. /\ DOMAIN y = Fields /\ y.st = x.st /\ y.ask = x.ask /\ y.leg = x.leg /\ y.todo = x.todo
        /\ y.file = x.file /\ y.got = x.got /\ y.edited = x.edited /\ y.target = r.id
    BY <1>2 DEF Fields
  <2>2. Become(c, Answered(y))
    BY <1>4
  <2> HIDE DEF y
  <2>3. ASSUME a.op = "delete_record", ById(v)
        PROVE  Aimed(y, held[a.server], nextId)
    <3>1. Aimed(x, held[a.server], nextId)
      BY <1>2, <2>3 DEF Guided
    <3>2. Server(c) = a.server /\ Selects(a.data) /\ a.server \in Servers
      BY <1>2, <2>3 DEF Parameters
    <3>3. v = "cloudflare"
      BY <1>1, <3>1, DeleteTail DEF Aimed, Next1
    <3>4. Form(v, r.data)
      BY <3>2 DEF Guide, Formed
    <3>5. Meant(v, r.data, a.data)
      BY <1>2, <1>4, <3>2, <3>3, <3>4, PickedIsMeant
    <3>6. \A q \in held[a.server] : q.id = r.id => q = r
      BY <2>3, <3>2 DEF Inv, HeldOK
    <3> QED
      BY <2>1, <3>1, <3>5, <3>6 DEF Aimed
  <2>4. Guided(y, held, nextId) /\ IsCall(y) /\ y.st = "busy"
    BY <1>2, <2>1, <2>3, NotedGuided
  <2>5. Guided(Answered(y), held, nextId)
    BY <2>4, AnsweredGuided
  <2> QED
    BY <1>1, <2>2, <2>5, BecomesGuided
<1> QED
  BY <1>3, <1>4 DEF FindRecord

\* The policy that a delete takes from its pages is one of them.
LEMMA MatchPicked ==
  ASSUME NEW R, NEW listing \in Seq(R), NEW a, NEW i \in FirstMatch(listing, a)
  PROVE  \E g \in R : i = g.id /\ U!policy_matches_delete_params(g.data, a.data)
<1>1. PICK j \in DOMAIN listing :
        i = listing[j].id /\ U!policy_matches_delete_params(listing[j].data, a.data)
  BY DEF FirstMatch
<1>2. listing[j] \in R
  BY <1>1
<1> QED
  BY <1>1, <1>2

\* The end of the pages.
LEMMA PagesEndGuided ==
  ASSUME Inv, Guide, NEW c \in Clients, Busy(c), Next1(c) = "page",
         NEW x, Guided(x, held, nextId), IsCall(x), x.st = "busy", x.ask = call[c].ask,
         x.todo = call[c].todo, x.file = call[c].file
  PROVE  Guided(PagesEnd(c, x), held, nextId)
<1> DEFINE a == x.ask
           v == VendorOf[a.server]
<1>1. CASE Op(c) = "list_records"
  <2> DEFINE y == [x EXCEPT !.got = KeptPages(x, x.got)]
  <2>1. DOMAIN y = Fields /\ y.leg = x.leg /\ y.st = x.st /\ y.ask = x.ask /\ y.file = x.file
        /\ y.todo = x.todo
    BY DEF IsCall, Fields
  <2>2. PagesEnd(c, x) = Answered(y)
    BY <1>1 DEF PagesEnd
  <2>3. a.op # "delete_record"
    BY <1>1, DeleteOp
  <2> HIDE DEF y
  <2>4. Guided(y, held, nextId) /\ IsCall(y) /\ y.st = "busy"
    BY <2>1, <2>3, NotedGuided
  <2> QED
    BY <2>2, <2>4, AnsweredGuided
<1>2. CASE Op(c) # "list_records" /\ FirstMatch(x.got, a) = {}
  BY <1>2, FailedGuided DEF PagesEnd, Ended, Guided, Finished, Idle
<1>3. CASE Op(c) # "list_records" /\ FirstMatch(x.got, a) # {}
  <2> DEFINE i == CHOOSE i \in FirstMatch(x.got, a) : TRUE
             y == [x EXCEPT !.target = i, !.got = << >>]
  <2>1. i \in FirstMatch(x.got, a)
    BY <1>3
  <2>2. /\ DOMAIN y = Fields /\ y.leg = x.leg /\ y.st = x.st /\ y.ask = x.ask /\ y.file = x.file
        /\ y.todo = x.todo /\ y.got = << >> /\ y.target = i /\ y.edited = x.edited
    BY DEF IsCall, Fields
  <2>3. PagesEnd(c, x) = Answered(y)
    BY <1>3 DEF PagesEnd
  <2> HIDE DEF y, i
  <2>4. ASSUME a.op = "delete_record", ById(v)
        PROVE  Aimed(y, held[a.server], nextId)
    <3>1. Aimed(x, held[a.server], nextId)
      BY <2>4 DEF Guided
    <3>2. Selects(a.data) /\ a.server \in Servers
      BY <2>4, BusyGuided DEF Parameters
    <3>3. v = "unifi"
      BY <2>4, <3>1, DeleteTail DEF Aimed, Next1, ById
    <3>4. \A r \in held[a.server] : Form("unifi", r.data)
      BY <3>2, <3>3 DEF Guide, Formed
    <3>5. PICK R : x.got \in Seq(R) /\ \A g \in R : \A r \in held[a.server] :
                     r.id = g.id => r.id \in x.edited \/ r = g
      BY <3>1 DEF Aimed
    <3>6. \A r \in held[a.server] : r.id = i => r.id \in x.edited \/ Meant(v, r.data, a.data)
      <4>1. PICK listing, sel : listing = x.got /\ sel = a
        OBVIOUS
      <4>2. listing \in Seq(R) /\ i \in FirstMatch(listing, sel)
        BY <2>1, <3>5, <4>1
      <4>3. PICK g \in R : i = g.id /\ U!policy_matches_delete_params(g.data, sel.data)
        BY <4>2, MatchPicked
      <4>4. ASSUME NEW r \in held[a.server], r.id = i, r.id \notin x.edited
            PROVE  Meant(v, r.data, a.data)
        <5>1. r = g
          BY <3>5, <4>3, <4>4
        <5> QED
          BY <3>2, <3>3, <3>4, <4>1, <4>3, <5>1, UnifiPicks
      <4> QED
        BY <4>4
    <3>7. \E Q : y.got \in Seq(Q) /\ \A g \in Q :
            /\ g.id \in 0..(nextId - 1)
            /\ \A r \in held[a.server] : r.id = g.id => r.id \in y.edited \/ r = g
      <4>1. y.got \in Seq({})
        BY <2>2
      <4> QED
        BY <4>1
    <3>8. y.todo \in DeleteTodo(v)
      BY <2>2, <3>1 DEF Aimed
    <3>9. VendorOf[y.ask.server] = v /\ y.ask = a /\ y.target = i /\ y.edited = x.edited
      BY <2>2
    <3> HIDE DEF a, v
    <3>10. \A r \in held[a.server] : r.id = y.target =>
             r.id \in y.edited \/ Meant(v, r.data, a.data)
      BY <3>6, <3>9
    <3> QED
      BY <3>7, <3>8, <3>9, <3>10 DEF Aimed
  <2>5. Guided(y, held, nextId) /\ IsCall(y) /\ y.st = "busy"
    BY <2>2, <2>4, NotedGuided
  <2> QED
    BY <2>3, <2>5, AnsweredGuided
<1> QED
  BY <1>1, <1>2, <1>3

\* A page of policies.
LEMMA FetchPageGuided ==
  ASSUME Inv, Guide, NEW c \in Clients, FetchPage(c)
  PROVE  Guide'
<1> DEFINE S == held[Server(c)]
<1>1. Busy(c) /\ Next1(c) = "page" /\ held' = held /\ nextId' = nextId
  BY DEF FetchPage, Due
<1>2. /\ Guided(call[c], held, nextId) /\ IsCall(call[c]) /\ call[c].st = "busy"
      /\ call[c].ask \in Parameters
      /\ call[c].ask.op = "delete_record" => Server(c) = call[c].ask.server
  BY <1>1, BusyGuided
<1>3. PICK page \in PagesOf(S, call[c].offset), totals \in {{}, {Cardinality(S)}} :
        \E y \in {[call[c] EXCEPT !.got = @ \o page, !.pages = @ + 1,
                                  !.offset = U!NextOffset(@, Len(page))]} :
          Become(c, IF U!LastPage(Len(page), Len(y.got), totals, PageSize) THEN PagesEnd(c, y)
                    ELSE IF y.pages = MaxPages THEN Ended(c, "error")
                    ELSE y)
  BY DEF FetchPage
<1> DEFINE got == call[c].got \o page
           x   == [call[c] EXCEPT !.got = @ \o page, !.pages = @ + 1,
                                  !.offset = U!NextOffset(@, Len(page))]
<1>4. Become(c, PagesEnd(c, x)) \/ Become(c, Ended(c, "error")) \/ Become(c, x)
  BY <1>3
<1>5. DOMAIN x = Fields /\ x.st = call[c].st /\ x.ask = call[c].ask /\ x.leg = call[c].leg
      /\ x.todo = call[c].todo /\ x.file = call[c].file /\ x.got = got
      /\ x.target = call[c].target /\ x.edited = call[c].edited
  BY <1>2 DEF IsCall, Fields
<1> HIDE DEF x
<1>6. ASSUME call[c].ask.op = "delete_record", ById(VendorOf[call[c].ask.server])
      PROVE  Aimed(x, held[call[c].ask.server], nextId)
  <2>1. Server(c) = call[c].ask.server /\ call[c].ask.server \in Servers
    BY <1>2, <1>6 DEF Parameters
  <2>2. Aimed(call[c], S, nextId)
    BY <1>2, <1>6, <2>1 DEF Guided
  <2>3. PICK R : /\ call[c].got \in Seq(R)
                 /\ \A g \in R : g.id \in 0..(nextId - 1)
                 /\ \A g \in R : \A r \in S :
                      r.id = g.id => r.id \in call[c].edited \/ r = g
    BY <2>2 DEF Aimed
  <2>4. page \in Seq(S)
    BY <2>1, PageHeld DEF Inv, HeldOK
  <2>5. /\ \A g \in S : g.id \in 0..(nextId - 1)
        /\ \A g \in S : \A r \in S : r.id = g.id => r = g
    BY <1>6, <2>1 DEF Inv, HeldOK
  <2>6. got \in Seq(R \cup S)
    BY <2>3, <2>4
  <2>7. \A g \in R \cup S : /\ g.id \in 0..(nextId - 1)
                            /\ \A r \in S : r.id = g.id => r.id \in call[c].edited \/ r = g
    BY <2>3, <2>5
  <2> HIDE DEF got, S
  <2>8. /\ x.todo \in DeleteTodo(VendorOf[x.ask.server])
        /\ \A r \in S : r.id = x.target =>
             r.id \in x.edited \/ Meant(VendorOf[x.ask.server], r.data, x.ask.data)
    BY <1>5, <2>2 DEF Aimed
  <2> QED
    BY <1>5, <2>1, <2>6, <2>7, <2>8 DEF Aimed, S
<1>7. Guided(x, held, nextId) /\ IsCall(x) /\ x.st = "busy"
  BY <1>2, <1>5, <1>6, NotedGuided
<1>8. Guided(PagesEnd(c, x), held, nextId)
  BY <1>1, <1>5, <1>7, PagesEndGuided
<1>9. Guided(Ended(c, "error"), held, nextId)
  BY <1>2, FailedGuided DEF Ended
<1> QED
  BY <1>1, <1>4, <1>7, <1>8, <1>9, BecomesGuided

\* Only two vendors' clients declare an export.
LEMMA ExportDeclared ==
  ASSUME NEW v \in VendorKind, NEW op \in ZoneExport, op \in Declared(v) \cup StatsRead
  PROVE  v \in {"technitium", "cloudflare"}
<1>1. op = "export_zone_file" /\ op \in Declared(v)
  BY DEF ZoneExport, StatsRead
<1>2. CASE v = "unifi"
  <2>1. Declared(v) = UNION {VendorCapabilities[f] : f \in U!capabilities}
    BY <1>2, Zenon DEF Declared
  <2> QED
    BY <1>1, <2>1 DEF U!capabilities, VendorCapabilities, RecordWrite, SettingsRead
<1>3. CASE v = "pihole"
  <2>1. Declared(v) = UNION {VendorCapabilities[f] : f \in P!capabilities}
    BY <1>3, Zenon DEF Declared
  <2> QED
    BY <1>1, <2>1 DEF P!capabilities, VendorCapabilities, RecordWrite, SettingsRead,
                      CacheRead, CacheWrite, AccessListRead, AccessListWrite
<1>4. CASE v = "pangolin"
  <2>1. Declared(v) = UNION {VendorCapabilities[f] : f \in G!capabilities}
    BY <1>4, Zenon DEF Declared
  <2> QED
    BY <1>1, <2>1 DEF G!capabilities, VendorCapabilities, RecordWrite, SettingsRead, ZoneWrite
<1> QED
  BY <1>2, <1>3, <1>4 DEF VendorKind

\* A zone file has what its source has.
LEMMA ExportGuided ==
  ASSUME Inv, Settled, Guide, NEW c \in Clients, ExportZone(c)
  PROVE  Guide'
<1> DEFINE x == call[c]
           y == [x EXCEPT !.file = {Plain(r) : r \in InZone(held[Server(c)], x.ask.zone)}]
<1>1. Busy(c) /\ held' = held /\ nextId' = nextId /\ Op(c) \in ZoneExport
  BY DEF ExportZone, Due
<1>2. /\ Guided(x, held, nextId) /\ IsCall(x) /\ x.st = "busy" /\ DOMAIN x = Fields
      /\ x.ask.op = "delete_record" => Op(c) = "delete_record"
  BY <1>1, BusyGuided
<1>3. x.ask.op # "delete_record"
  BY <1>1, <1>2 DEF ZoneExport
<1>4. CASE Refused(c)
  BY <1>1, <1>4, RefusedGuided
<1>5. CASE ~Refused(c)
  <2>1. Become(c, Answered(y))
    BY <1>5 DEF ExportZone
  <2>2. /\ DOMAIN y = Fields /\ y.st = "busy" /\ y.leg = x.leg /\ y.ask = x.ask
        /\ y.file = {Plain(r) : r \in InZone(held[Server(c)], x.ask.zone)}
    BY <1>2 DEF Fields
  <2>3. /\ AtWork(x, held) /\ Op(c) = Method(x).op /\ Vendor(c) = VendorAt(x)
        /\ Server(c) \in Servers /\ Vendor(c) \in VendorKind
    BY <1>1, BusyAtWork
  <2>4. Vendor(c) \in {"technitium", "cloudflare"}
    <3>1. Op(c) \in Declared(Vendor(c)) \cup StatsRead
      BY <2>3 DEF AtWork, Working, Offered
    <3> QED
      BY <1>1, <2>3, <3>1, ExportDeclared
  <2>5. \A r \in held[Server(c)] : Keyed(r.data)
    BY <2>3, <2>4 DEF Guide, Formed, Form, Vendor
  <2>6. \A p \in y.file : Keyed(p.data)
    BY <2>2, <2>5 DEF InZone, Plain
  <2> HIDE DEF y
  <2>7. Guided(y, held, nextId) /\ IsCall(y)
    BY <1>2, <1>3, <2>2, <2>6 DEF Guided, IsCall
  <2>8. Guided(Answered(y), held, nextId)
    BY <2>2, <2>7, AnsweredGuided
  <2> QED
    BY <1>1, <2>1, <2>8, BecomesGuided
<1> QED
  BY <1>4, <1>5

\* What a delete sends, unless its client refuses it.
LEMMA DeleteRequests ==
  ASSUME NEW v \in VendorKind, NEW a, a.op = "delete_record", Requests(v, a) # Unsupported
  PROVE  /\ v = "pihole" => P!Storable(a.data)
         /\ ById(v) => Requests(v, a) \in DeleteTodo(v)
<1>1. CASE v = "cloudflare"
  <2>1. Requests(v, a) = C!Requests(a)
    BY <1>1, Zenon DEF Requests
  <2>2. C!Requests(a) = <<"zone", "find", "act">>
    BY
    DEF C!Requests, C!RecordWrites, C!Unoffered, C!UnofferedSettings, C!ZoneRead, C!ZoneWrite,
        C!RecordWrite, C!CacheRead, C!CacheWrite, C!StatsRead, C!AccessListRead,
        C!AccessListWrite, C!ZoneImport, C!ZoneExport, C!SettingsRead, C!SettingsWrite,
        C!ZoneOptionsRead, C!ZoneOptionsWrite, C!LogsRead
  <2> QED
    BY <1>1, <2>1, <2>2 DEF DeleteTodo
<1>2. CASE v = "unifi"
  <2>1. Requests(v, a) = U!Requests(a)
    BY <1>2, Zenon DEF Requests
  <2>2. U!Requests(a) = <<"site", "page", "act">>
    BY
    DEF U!Requests, U!DeleteRecord, U!Unoffered, U!UnofferedSettings, U!ZoneRead, U!ZoneWrite,
        U!RecordWrite, U!CacheRead, U!CacheWrite, U!StatsRead, U!AccessListRead,
        U!AccessListWrite, U!ZoneImport, U!ZoneExport, U!SettingsRead, U!SettingsWrite,
        U!ZoneOptionsRead, U!ZoneOptionsWrite, U!LogsRead
  <2> QED
    BY <1>2, <2>1, <2>2 DEF DeleteTodo
<1>3. CASE v = "pihole"
  <2>1. Requests(v, a) = P!Requests(a)
    BY <1>3, Zenon DEF Requests
  <2>2. P!Requests(a) = P!DeleteRecord(a.data)
    BY
    DEF P!Requests, P!Unoffered, P!ZoneRead, P!ZoneWrite, P!RecordWrite, P!CacheRead,
        P!CacheWrite, P!StatsRead, P!AccessListRead, P!AccessListWrite, P!ZoneImport,
        P!ZoneExport, P!SettingsRead, P!SettingsWrite, P!ZoneOptionsRead, P!ZoneOptionsWrite,
        P!LogsRead
  <2> QED
    BY <1>3, <2>1, <2>2 DEF P!DeleteRecord, P!Unsupported, Unsupported, ById
<1> QED
  BY <1>1, <1>2, <1>3 DEF ById

\* A delete begins with nothing found.
LEMMA BeginGuided ==
  ASSUME Inv, Guide, NEW c \in Clients, NEW q \in load.asks[c],
         NEW how \in {"denied", Refusal(q.ask), "error"}, Begin(c, q, how)
  PROVE  Guide'
<1> DEFINE a == q.ask
           v == VendorOf[a.server]
           y == [Idle EXCEPT
                   !.st = IF how = "none" THEN "busy" ELSE "done",
                   !.mcp = q.mcp, !.ask = q.ask, !.outcome = how,
                   !.todo = IF how = "none" THEN RequestsOn(q.ask, 1) ELSE << >>,
                   !.at = ArgsOf(q.ask), !.stood = held[q.ask.server],
                   !.seen = held[q.ask.server]]
<1>1. Become(c, y) /\ held' = held /\ nextId' = nextId
  BY DEF Begin
<1>2. a \in Parameters
  BY OperationsAssumption DEF Inv
<1>3. /\ y.st = (IF how = "none" THEN "busy" ELSE "done") /\ y.ask = a
      /\ how = "none" => y.todo = RequestsOn(a, 1)
      /\ y.target = 0 /\ y.got = << >> /\ y.edited = {} /\ y.file = {}
  BY DEF Idle
<1> HIDE DEF y
<1>4. how = "none" => RequestsOn(a, 1) # Unsupported
  BY DEF Refusal
<1>5. ASSUME how = "none", a.op = "delete_record"
      PROVE  /\ v = "pihole" => P!Storable(a.data)
             /\ ById(v) => Aimed(y, held[a.server], nextId)
  <2>1. Methods(a) = <<At(a.op, a.server)>>
    BY <1>5 DEF Methods, IsTransfer, AcrossZones, IsSearch, ListsAll
  <2>2. PICK b : b = [a EXCEPT !.op = At(a.op, a.server).op]
    OBVIOUS
  <2>3. RequestsOn(a, 1) = Requests(v, b)
    BY <2>1, <2>2 DEF RequestsOn, At
  <2>4. b.op = "delete_record" /\ b.data = a.data
    BY <1>2, <1>5, <2>2 DEF Parameters, At
  <2>5. v \in VendorKind /\ a.server \in Servers
    BY <1>2, OperationsAssumption DEF Parameters
  <2>6. Requests(v, b) # Unsupported
    BY <1>4, <1>5, <2>3
  <2>7. /\ v = "pihole" => P!Storable(b.data)
        /\ ById(v) => Requests(v, b) \in DeleteTodo(v)
    BY <2>4, <2>5, <2>6, DeleteRequests
  <2>8. ASSUME ById(v)
        PROVE  Aimed(y, held[a.server], nextId)
    <3>1. y.todo \in DeleteTodo(v)
      BY <1>3, <1>5, <2>3, <2>7, <2>8
    <3>2. \A r \in held[a.server] : r.id # 0
      BY <2>5, <2>8 DEF Inv, HeldOK
    <3>3. y.got \in Seq({})
      BY <1>3
    <3>4. \E Q : y.got \in Seq(Q) /\ \A g \in Q :
            /\ g.id \in 0..(nextId - 1)
            /\ \A r \in held[a.server] : r.id = g.id => r.id \in y.edited \/ r = g
      BY <3>3
    <3> QED
      BY <1>3, <3>1, <3>2, <3>4 DEF Aimed
  <2> QED
    BY <2>4, <2>7, <2>8
<1>6. Guided(y, held, nextId)
  BY <1>3, <1>5 DEF Guided
<1> QED
  BY <1>1, <1>6, BecomesGuided

\* A tool, or a command.
LEMMA StartGuided ==
  ASSUME Inv, Guide, NEW c \in Clients, StartTool(c) \/ StartCommand(c)
  PROVE  Guide'
<1>1. \E q \in load.asks[c] : \E how \in {"denied", Refusal(q.ask), "error"} : Begin(c, q, how)
  BY DEF StartTool, StartCommand
<1> QED
  BY <1>1, BeginGuided

-----------------------------------------------------------------------------
(* What a change brings *)

\* A record that a server did not hold can be compared with a selector, and
\* where records have ids its id is new or an edited record's.
Comes(s, S) ==
  \A r \in S \ held[s] :
    /\ Form(VendorOf[s], r.data)
    /\ ById(VendorOf[s]) => r.id >= nextId \/ \E q \in held[s] : q.id = r.id

\* The servers' records after a change, and the next id.
Arrives(h, m) == HeldOK(h, m) /\ nextId <= m /\ m \in Nat /\ \A s \in Servers : Comes(s, h[s])

\* Where records have ids, an id known before is an old record's or is edited.
LEMMA OldOrEdited ==
  ASSUME Inv, NEW h, NEW m, Arrives(h, m), NEW s \in Servers, ById(VendorOf[s]),
         NEW r \in h[s], r.id < nextId
  PROVE  r \in held[s] \/ r.id \in Ids(held[s] \ h[s])
<1> SUFFICES ASSUME r \notin held[s]
             PROVE  r.id \in Ids(held[s] \ h[s])
  OBVIOUS
<1>1. \A q, p \in h[s] : q.id \in 1..(m - 1) /\ (q.id = p.id => q = p)
  BY DEF Arrives, HeldOK
<1>2. PICK q \in held[s] : q.id = r.id
  <2>1. r.id >= nextId \/ \E q \in held[s] : q.id = r.id
    BY DEF Arrives, Comes
  <2>2. r.id \in Nat /\ nextId \in Nat /\ m \in Nat
    BY <1>1 DEF Arrives, Inv
  <2> QED
    BY <2>1, <2>2
<1>3. q \notin h[s]
  BY <1>1, <1>2
<1> QED
  BY <1>2, <1>3 DEF Ids

\* A delete that watches a change is still aimed at what it found.
LEMMA WatchedGuided ==
  ASSUME Inv, Guide, NEW h, NEW m, Arrives(h, m), NEW dropped, NEW d \in Clients
  PROVE  Guided(Watched(h, dropped)[d], h, m)
<1> DEFINE x == call[d]
           y == Watched(h, dropped)[d]
           s == x.ask.server
           v == VendorOf[s]
<1>1. CASE ~Busy(d)
  <2>1. y = x
    BY <1>1 DEF Watched
  <2> QED
    BY <1>1, <2>1 DEF Guided, Busy
<1>2. CASE Busy(d)
  <2>1. /\ Guided(x, held, nextId) /\ IsCall(x) /\ x.st = "busy" /\ DOMAIN x = Fields
        /\ x.ask \in Parameters
    BY <1>2, BusyGuided
  <2>2. /\ y.st = x.st /\ y.ask = x.ask /\ y.todo = x.todo /\ y.file = x.file
        /\ y.target = x.target /\ y.got = x.got
        /\ y.edited = x.edited \cup Ids(held[s] \ h[s])
    BY <1>2, <2>1 DEF Watched, Fields
  <2> HIDE DEF y
  <2>3. ASSUME x.ask.op = "delete_record", ById(v)
        PROVE  Aimed(y, h[s], m)
    <3>1. Aimed(x, held[s], nextId) /\ s \in Servers
      BY <2>1, <2>3 DEF Guided, Parameters
    <3>2. x.target \in 0..(nextId - 1)
      <4>1. CallOK(d, x, load, held, nextId)
        BY <1>2, BusyCall
      <4> QED
        BY <2>1, <2>3, <4>1 DEF CallOK, Found, Known
    <3>3. nextId \in Nat /\ m \in Nat /\ nextId <= m
      BY DEF Inv, Arrives
    <3>4. \A r \in h[s] : r.id < nextId => r \in held[s] \/ r.id \in Ids(held[s] \ h[s])
      BY <2>3, <3>1, OldOrEdited
    <3>5. \A r \in h[s] : r.id = y.target =>
            r.id \in y.edited \/ Meant(v, r.data, x.ask.data)
      <4>1. \A r \in held[s] : r.id = x.target => r.id \in x.edited \/ Meant(v, r.data, x.ask.data)
        BY <3>1 DEF Aimed
      <4>2. x.target < nextId
        BY <3>2, <3>3
      <4> HIDE DEF x, s, v
      <4> QED
        BY <2>2, <3>4, <4>1, <4>2
    <3>6. PICK R : /\ x.got \in Seq(R)
                   /\ \A g \in R : g.id \in 0..(nextId - 1)
                   /\ \A g \in R : \A r \in held[s] : r.id = g.id => r.id \in x.edited \/ r = g
      BY <3>1 DEF Aimed
    <3>7. \A g \in R : g.id \in 0..(m - 1) /\ g.id < nextId
      BY <3>3, <3>6
    <3>8. \A g \in R : \A r \in h[s] : r.id = g.id => r.id \in y.edited \/ r = g
      <4> HIDE DEF x, s, v
      <4> QED
        BY <2>2, <3>4, <3>6, <3>7
    <3>9. y.todo \in DeleteTodo(v) /\ y.got \in Seq(R)
      BY <2>2, <3>1, <3>6 DEF Aimed
    <3>10. y.ask = x.ask /\ VendorOf[y.ask.server] = v
      BY <2>2
    <3> HIDE DEF x, s, v
    <3> QED
      BY <3>5, <3>7, <3>8, <3>9, <3>10 DEF Aimed
  <2>4. Guided(y, h, m)
    BY <2>1, <2>2, <2>3 DEF Guided
  <2> QED
    BY <2>4 DEF y
<1> QED
  BY <1>1, <1>2

\* What arrives can be compared, as what was there could.
LEMMA ArrivesFormed ==
  ASSUME Guide, NEW h, NEW m, Arrives(h, m)
  PROVE  Formed(h)
BY DEF Guide, Formed, Arrives, Comes

\* The records of a server change at the hand of others.
LEMMA OthersGuided ==
  ASSUME Inv, Guide, NEW h, held' = h, Arrives(h, nextId'), call' = Watched(h, {})
  PROVE  Guide'
<1>1. \A d \in Clients : Guided(call'[d], h, nextId')
  BY WatchedGuided
<1> QED
  BY <1>1, ArrivesFormed DEF Guide, Formed

\* A call ends with its change.
LEMMA AppliedEnds ==
  ASSUME Inv, Settled, NEW c \in Clients, Busy(c), Op(c) \in DnsWrite, Next1(c) = "act",
         NEW h, NEW dropped, Applied(c, h, dropped)
  PROVE  \E y : /\ y.st = "done" /\ y.ask.op # "list_records"
                /\ call' = [Watched(h, dropped) EXCEPT ![c] = y]
<1> DEFINE w == call[c]
<1>1. /\ AtWork(w, held) /\ DOMAIN w = Fields /\ Op(c) = Method(w).op /\ UnderWay(w)
  BY BusyAtWork DEF AtWork, UnderWay, IsCall
<1>2. \E e, hd : \E y \in {Answered([w EXCEPT !.effects = e, !.heard = hd]),
                           Finished([w EXCEPT !.effects = e, !.heard = hd], "error")} :
        call' = [Watched(h, dropped) EXCEPT ![c] = y]
  BY DEF Applied
<1>3. PICK e, hd : \E y \in {Answered([w EXCEPT !.effects = e, !.heard = hd]),
                             Finished([w EXCEPT !.effects = e, !.heard = hd], "error")} :
        call' = [Watched(h, dropped) EXCEPT ![c] = y]
  BY <1>2
<1> DEFINE x == [w EXCEPT !.effects = e, !.heard = hd]
<1>4. PICK y \in {Answered(x), Finished(x, "error")} :
        call' = [Watched(h, dropped) EXCEPT ![c] = y]
  BY <1>3
<1>5. /\ x.st = w.st /\ x.ask = w.ask /\ x.leg = w.leg /\ x.todo = w.todo /\ DOMAIN x = Fields
  BY <1>1 DEF Fields
<1> HIDE DEF x
<1>6. Tail(w.todo) = << >>
  BY <1>1, ChangeTail DEF AtWork, Working, Next1
<1>7. (IsTransfer(w.ask) => w.leg = 2) /\ ~AcrossZones(w.ask)
  BY <1>1, ChangingMethods
<1>8. w.ask.op # "list_records"
  <2> SUFFICES ASSUME w.ask.op = "list_records"
               PROVE  FALSE
    OBVIOUS
  <2>1. ~IsTransfer(w.ask)
    BY DEF IsTransfer
  <2>2. Method(w).op = "list_records"
    BY <1>1, <1>7, <2>1, MethodIs DEF At
  <2> QED
    BY <1>1, <2>2, ChangingMethods
<1>9. y.st = "done" /\ y.ask = w.ask
  <2>1. Answered(x) = Finished(x, "ok")
    BY <1>5, <1>6, <1>7, <1>8 DEF Answered
  <2>2. \A how : Finished(x, how).st = "done" /\ Finished(x, how).ask = x.ask
    BY DEF Finished, Idle
  <2> QED
    BY <1>4, <1>5, <2>1, <2>2
<1> QED
  BY <1>4, <1>8, <1>9

\* The records of a server change at the hand of a call.
LEMMA AppliedGuided ==
  ASSUME Inv, Settled, Guide, NEW c \in Clients, Busy(c), Op(c) \in DnsWrite, Next1(c) = "act",
         NEW h, NEW dropped, Applied(c, h, dropped), Arrives(h, nextId')
  PROVE  Guide'
<1>1. held' = h
  BY DEF Applied
<1>2. PICK y : y.st = "done" /\ call' = [Watched(h, dropped) EXCEPT ![c] = y]
  BY AppliedEnds
<1>3. DOMAIN Watched(h, dropped) = Clients
  BY WatchedOK
<1>4. ASSUME NEW d \in Clients
      PROVE  Guided(call'[d], h, nextId')
  <2>1. CASE d = c
    <3>1. call'[d] = y
      BY <1>2, <1>3, <2>1
    <3> QED
      BY <1>2, <3>1 DEF Guided
  <2>2. CASE d # c
    <3>1. call'[d] = Watched(h, dropped)[d]
      BY <1>2, <1>3, <2>2
    <3> QED
      BY <3>1, WatchedGuided
  <2> QED
    BY <2>1, <2>2
<1> QED
  BY <1>1, <1>4, ArrivesFormed DEF Guide, Formed

\* A change at one server, that does not take identities back.
LEMMA ArrivesAt ==
  ASSUME Inv, Inv', nextId <= nextId', NEW s \in Servers, NEW S,
         held' = [held EXCEPT ![s] = S], Comes(s, S)
  PROVE  Arrives(held', nextId')
<1>1. ASSUME NEW t \in Servers
      PROVE  Comes(t, held'[t])
  <2>1. CASE t = s
    BY <2>1 DEF Inv, HeldOK
  <2>2. CASE t # s
    BY <2>2 DEF Inv, HeldOK, Comes
  <2> QED
    BY <2>1, <2>2
<1>2. HeldOK(held', nextId') /\ nextId' \in Nat
  BY DEF Inv
<1> QED
  BY <1>1, <1>2 DEF Arrives

\* Nothing arrives where nothing changes, and where something goes.
LEMMA NothingArrives ==
  ASSUME Inv, Inv', nextId <= nextId',
         held' = held \/ \E s \in Servers : \E S \in SUBSET held[s] : held' = [held EXCEPT ![s] = S]
  PROVE  Arrives(held', nextId')
<1>1. CASE held' = held
  <2>1. HeldOK(held', nextId') /\ nextId' \in Nat
    BY DEF Inv
  <2> QED
    BY <1>1, <2>1 DEF Arrives, Comes
<1>2. ASSUME NEW s \in Servers, NEW S \in SUBSET held[s], held' = [held EXCEPT ![s] = S]
      PROVE  Arrives(held', nextId')
  <2>1. Comes(s, S)
    BY DEF Comes
  <2> QED
    BY <1>2, <2>1, ArrivesAt
<1> QED
  BY <1>1, <1>2

\* A record that is stored can be compared with a selector.
LEMMA StoredForm ==
  ASSUME NEW s \in Servers, NEW p, Keyed(p.data), NEW id
  PROVE  /\ Form(VendorOf[s], Stored(s, p, id).data)
         /\ ById(VendorOf[s]) => Stored(s, p, id).id = id
BY KeptForm, OperationsAssumption DEF Stored

\* What a change that is applied asks for.
LEMMA AsksFor ==
  ASSUME Inv, NEW c \in Clients, Busy(c), Op(c) \in DnsWrite, ~IsTransfer(call[c].ask)
  PROVE  call[c].ask.op = Op(c)
<1>1. UnderWay(call[c])
  BY BusyCall DEF UnderWay, CallOK
<1>2. Op(c) = Method(call[c]).op
  BY DEF Op, Method
<1>3. ~AcrossZones(call[c].ask)
  BY <1>1, <1>2, ChangingMethods
<1> QED
  BY <1>1, <1>2, <1>3, MethodIs DEF At

\* A record that is added,
LEMMA AddArrives ==
  ASSUME Inv, Inv', Guide, NEW c \in Clients, AddRecord(c), ZoneStands(c), Belongs(c)
  PROVE  Applied(c, held', {}) /\ Arrives(held', nextId')
<1> DEFINE s == Server(c)
           p == Sent(c)
<1>1. Busy(c) /\ Op(c) = "add_record" /\ nextId' = nextId + 1
      /\ Applied(c, [held EXCEPT ![s] = @ \cup {Stored(s, p, nextId)}], {})
  BY DEF AddRecord, Due
<1>2. s \in Servers /\ nextId \in Nat
  BY <1>1, ServerType DEF Inv
<1>3. Keyed(p.data)
  <2>1. "add_record" \in DnsWrite
    BY DEF DnsWrite, RecordWrite
  <2>2. ~IsTransfer(call[c].ask)
    <3>1. call[c].leg \in {1, 2}
      BY <1>1, BusyCall DEF IsCall
    <3> QED
      BY <1>1, <3>1 DEF IsTransfer, Op, Methods, At
  <2>3. call[c].ask.op = "add_record"
    BY <1>1, <2>1, <2>2, AsksFor
  <2> QED
    BY <1>1, <2>3, BusyGuided DEF Sent
<1> DEFINE r == Stored(s, p, nextId)
           S == held[s] \cup {r}
<1>4. Form(VendorOf[s], r.data) /\ (ById(VendorOf[s]) => r.id = nextId)
  BY <1>2, <1>3, StoredForm
<1>5. held' = [held EXCEPT ![s] = S] /\ Applied(c, held', {})
  BY <1>1 DEF Applied
<1> HIDE DEF r
<1>6. Comes(s, S)
  BY <1>2, <1>4 DEF Comes
<1>7. nextId <= nextId'
  BY <1>1, <1>2
<1> HIDE DEF S, s
<1> QED
  BY <1>2, <1>5, <1>6, <1>7, ArrivesAt

\* the records of a file,
LEMMA ImportArrives ==
  ASSUME Inv, Inv', Guide, NEW c \in Clients, ImportZone(c),
         ZoneStands(c), call[c].heard # "refused"
  PROVE  Applied(c, held', {}) /\ Arrives(held', nextId')
<1> DEFINE s      == Server(c)
           a      == call[c].ask
           there  == InZone(held[s], a.zone)
<1>1. Busy(c) /\ Op(c) \in ZoneImport
  BY DEF ImportZone, Due
<1>2. s \in Servers /\ a \in Parameters /\ nextId \in Nat
  BY <1>1, ServerType, BusyCall DEF Inv
<1> PICK spared \in Spared(Vendor(c), there, FileOf(c), a.flag) : Imports(c, spared)
  BY DEF ImportZone, Imports
<1> DEFINE new   == {p \in FileOf(c) : \A r \in spared : Plain(r) # Plain(Stored(s, p, 0))}
           added == Numbered(s, new, nextId)
           S     == (held[s] \ there) \cup spared \cup added
           m     == nextId + Cardinality(new)
<1>3. nextId' = m /\ Applied(c, [held EXCEPT ![s] = S], {})
  BY DEF Imports
<1>4. spared \subseteq held[s]
  BY DEF Spared, InZone
<1>5. \A p \in FileOf(c) : Keyed(p.data)
  <2>1. CASE IsTransfer(a)
    <3>1. Guided(call[c], held, nextId) /\ call[c].st = "busy"
      BY <1>1, BusyGuided
    <3> QED
      BY <2>1, <3>1 DEF FileOf, Guided
  <2>2. CASE ~IsTransfer(a)
    <3>1. a.op = "import_zone_file"
      BY <1>1, <2>2, AsksFor DEF DnsWrite, ZoneImport
    <3>2. Keyed(a.data)
      BY <1>1, <3>1, BusyGuided
    <3> QED
      BY <2>2, <3>2 DEF FileOf, Plain
  <2> QED
    BY <2>1, <2>2
<1>6. IsFiniteSet(new)
  BY <1>1, FileOK, FS_Subset
<1>7. /\ Cardinality(new) \in Nat
      /\ ById(VendorOf[s]) => \A r \in added : r.id \in nextId..(m - 1)
  <2> HIDE DEF s, new
  <2>1. WellNumbered(s, added, new, nextId, m)
    BY <1>2, <1>6, NumberedOK
  <2> HIDE DEF added, m
  <2> QED
    BY <2>1 DEF WellNumbered
<1>8. \A r \in added : Form(VendorOf[s], r.data)
  <2>1. \E f : added = {Stored(s, p, f[p]) : p \in new}
    BY Zenon DEF Numbered
  <2>2. \A p \in new : Keyed(p.data)
    BY <1>5
  <2> HIDE DEF s, new, added
  <2> QED
    BY <1>2, <2>1, <2>2, StoredForm
<1>9. held' = [held EXCEPT ![s] = S] /\ Applied(c, held', {})
  BY <1>3 DEF Applied
<1>10. nextId <= nextId'
  BY <1>2, <1>3, <1>7
<1>11. Comes(s, S)
  <2>1. S \ held[s] \subseteq added
    BY <1>4
  <2> HIDE DEF S, added, m, s
  <2> QED
    BY <1>2, <1>7, <1>8, <2>1 DEF Comes
<1> HIDE DEF S, s
<1> QED
  BY <1>2, <1>9, <1>10, <1>11, ArrivesAt

\* and nothing with any other change.
LEMMA ChangeArrives ==
  ASSUME Inv, Inv', Guide, NEW c \in Clients, Changes(c)
  PROVE  \/ Refused(c) /\ held' = held /\ nextId' = nextId
         \/ \E dropped : Applied(c, held', dropped) /\ Arrives(held', nextId')
<1>1. nextId \in Nat
  BY DEF Inv
<1>2. CASE AddRecord(c)
  BY <1>2, AddArrives DEF AddRecord, Rejected
<1>3. CASE ImportZone(c)
  BY <1>3, ImportArrives DEF ImportZone, Rejected
<1>4. ASSUME Rejected(c), nextId' = nextId
      PROVE  Refused(c) /\ held' = held /\ nextId' = nextId
  BY <1>4 DEF Rejected
<1>5. ASSUME nextId <= nextId', NEW h, NEW dropped, Applied(c, h, dropped),
             h = held \/ \E s \in Servers : \E S \in SUBSET held[s] : h = [held EXCEPT ![s] = S]
      PROVE  Applied(c, held', dropped) /\ Arrives(held', nextId')
  <2>1. held' = h
    BY <1>5 DEF Applied
  <2>2. Arrives(held', nextId')
    BY <1>5, <2>1, NothingArrives
  <2> QED
    BY <1>5, <2>1, <2>2
<1>6. CASE CreateZone(c) \/ ChangeMarks(c)
  <2>1. \/ Rejected(c) /\ nextId' = nextId
        \/ nextId' \in {nextId, nextId + 1} /\ \E dropped : Applied(c, held, dropped)
    BY <1>6 DEF CreateZone, ChangeMarks
  <2>2. nextId' \in {nextId, nextId + 1} => nextId <= nextId'
    BY <1>1
  <2> QED
    BY <1>4, <1>5, <2>1, <2>2
<1>7. CASE DeleteZone(c) \/ DeleteRecord(c)
  <2>1. Busy(c) /\ nextId' = nextId
    BY <1>7 DEF DeleteZone, DeleteRecord, Due
  <2> DEFINE s == Server(c)
  <2>2. \/ Rejected(c)
        \/ \E S \in SUBSET held[s] : \E dropped : Applied(c, [held EXCEPT ![s] = S], dropped)
    BY <1>7 DEF DeleteZone, DeleteRecord, InZone, Doomed
  <2>3. s \in Servers /\ nextId <= nextId'
    BY <1>1, <2>1, ServerType
  <2> HIDE DEF s
  <2> QED
    BY <1>4, <1>5, <2>1, <2>2, <2>3
<1> QED
  BY <1>2, <1>3, <1>6, <1>7 DEF Changes

\* What others bring.
LEMMA OthersArrive ==
  ASSUME Inv, Inv', NEW s \in Servers, OtherUsers(s)
  PROVE  Arrives(held', nextId') /\ call' = Watched(held', {})
<1>1. nextId \in Nat
  BY DEF Inv
<1>2. \A p \in Others[s] : Keyed(p.data)
  BY DataAssumption, TypedKeyed DEF Given
<1>3. CASE OtherAdds(s)
  <2>1. PICK p \in Others[s] : OthersChange(s, held[s] \cup {Stored(s, p, nextId)})
    BY <1>3 DEF OtherAdds
  <2> DEFINE r == Stored(s, p, nextId)
             S == held[s] \cup {r}
  <2>2. Form(VendorOf[s], r.data) /\ (ById(VendorOf[s]) => r.id = nextId)
    BY <1>2, StoredForm
  <2>3. held' = [held EXCEPT ![s] = S] /\ call' = Watched(held', {})
    BY <2>1 DEF OthersChange
  <2>4. nextId <= nextId'
    BY <1>1, <1>3 DEF OtherAdds
  <2> HIDE DEF r
  <2>5. Comes(s, S)
    BY <1>1, <2>2 DEF Comes
  <2> HIDE DEF S
  <2> QED
    BY <2>3, <2>4, <2>5, ArrivesAt
<1>4. CASE OtherEdits(s)
  <2>1. PICK q \in held[s], p \in Others[s] :
          OthersChange(s, (held[s] \ {q}) \cup {Stored(s, p, q.id)})
    BY <1>4 DEF OtherEdits
  <2> DEFINE r == Stored(s, p, q.id)
             S == (held[s] \ {q}) \cup {r}
  <2>2. Form(VendorOf[s], r.data) /\ (ById(VendorOf[s]) => r.id = q.id)
    BY <1>2, StoredForm
  <2>3. held' = [held EXCEPT ![s] = S] /\ call' = Watched(held', {})
    BY <2>1 DEF OthersChange
  <2>4. nextId <= nextId'
    BY <1>1, <1>4 DEF OtherEdits
  <2> HIDE DEF r
  <2>5. Comes(s, S)
    BY <2>2 DEF Comes
  <2> HIDE DEF S
  <2> QED
    BY <2>3, <2>4, <2>5, ArrivesAt
<1>5. CASE OtherRemoves(s) \/ OtherRecreates(s)
  <2>1. \E S \in SUBSET held[s] : OthersChange(s, S)
    BY <1>5 DEF OtherRemoves, OtherRecreates
  <2>2. nextId <= nextId'
    BY <1>1, <1>5 DEF OtherRemoves, OtherRecreates
  <2> QED
    BY <2>1, <2>2, NothingArrives DEF OthersChange
<1> QED
  BY <1>3, <1>4, <1>5 DEF OtherUsers

-----------------------------------------------------------------------------
(* A delete takes what it was asked *)

\* The requests that change a server.
LEMMA ChangeGuided ==
  ASSUME Inv, Inv', Settled, Guide, NEW c \in Clients, Changes(c)
  PROVE  Guide'
<1>1. Busy(c) /\ Next1(c) = "act" /\ Op(c) \in DnsWrite
  <2>1. {"create_zone", "delete_zone", "enable_zone", "disable_zone"} \subseteq ZoneWrite
        /\ {"add_record", "delete_record"} \subseteq RecordWrite
    BY DEF ZoneWrite, RecordWrite
  <2> QED
    BY <2>1 DEF Changes, CreateZone, DeleteZone, AddRecord, DeleteRecord, ChangeMarks,
                ImportZone, Due, Marking, DnsWrite
<1> QED
  BY <1>1, ChangeArrives, RefusedGuided, AppliedGuided

\* A step of a client keeps every delete aimed at what it found,
LEMMA ClientGuided ==
  ASSUME Inv, Inv', Settled, Guide, NEW c \in Clients,
         StartTool(c) \/ StartCommand(c) \/ Advance(c) \/ Refuse(c) \/ Fail(c)
  PROVE  Guide'
<1>1. CASE Refuse(c)
  BY <1>1, RefusedGuided DEF Refuse
<1>2. CASE StartTool(c) \/ StartCommand(c) \/ Fail(c)
  BY <1>2, StartGuided, LookUpGuided
<1>3. CASE Lookup(c)
  BY <1>3, LookUpGuided, LookUpDomainGuided, FindRecordGuided DEF Lookup
<1>4. CASE Fetch(c)
  BY <1>4, ListGuided, FetchPageGuided DEF Fetch
<1>5. CASE Work(c)
  BY <1>5, ChangeGuided, ListGuided, LookUpGuided, ExportGuided DEF Work, Changes
<1> QED
  BY <1>1, <1>2, <1>3, <1>4, <1>5 DEF Advance

\* and so does every other step.
LEMMA EveryGuided ==
  ASSUME Inv, Settled, Guide, [Next]_vars
  PROVE  Guide'
<1>1. Inv'
  BY EveryStep
<1>2. ASSUME NEW s \in load.shared, OtherUsers(s)
      PROVE  Guide'
  <2>1. s \in Servers
    BY OperationsAssumption DEF Inv
  <2>2. Arrives(held', nextId') /\ call' = Watched(held', {})
    BY <1>1, <1>2, <2>1, OthersArrive
  <2> QED
    BY <2>2, OthersGuided
<1>3. CASE UNCHANGED vars
  BY <1>3 DEF vars, Guide, Formed
<1> QED
  BY <1>1, <1>2, <1>3, ClientGuided DEF Next

\* It holds at first.
LEMMA InitGuide ==
  ASSUME Init
  PROVE  Guide
<1>1. ASSUME NEW s \in Servers, NEW r \in held[s]
      PROVE  Form(VendorOf[s], r.data)
  <2>1. PICK d \in Given(VendorOf[s]) : r.data = Kept(VendorOf[s], d)
    BY DataAssumption DEF Init
  <2>2. Keyed(d)
    BY TypedKeyed DEF Given
  <2> QED
    BY <2>1, <2>2, KeptForm, OperationsAssumption
<1>2. \A c \in Clients : Guided(call[c], held, nextId)
  BY DEF Init, Guided, Idle
<1> QED
  BY <1>1, <1>2 DEF Guide, Formed

\* What a delete takes is what was asked for,
LEMMA DoomedAskable ==
  ASSUME Inv, Guide, NEW c \in Clients, Busy(c), call[c].ask.op = "delete_record",
         NEW r \in Doomed(c)
  PROVE  Askable(c, r)
<1> DEFINE x == call[c]
           a == x.ask
           s == a.server
           v == VendorOf[s]
<1>1. /\ Guided(x, held, nextId) /\ x.st = "busy" /\ a \in Parameters /\ v \in VendorKind
      /\ Selects(a.data) /\ Server(c) = s /\ CallOK(c, x, load, held, nextId)
  BY BusyGuided, BusyCall
<1>2. s \in Servers /\ Vendor(c) = v /\ r \in held[s] /\ Form(v, r.data)
  BY <1>1 DEF Parameters, Vendor, Doomed, Guide, Formed
<1>3. CASE ById(v)
  <2>1. r.id = x.target
    BY <1>1, <1>2, <1>3 DEF Doomed
  <2>2. r.name = FullName(v, a)
    BY <1>1, <1>2, <1>3, <2>1 DEF CallOK, Found, Known
  <2>3. r.id # 0
    BY <1>2, <1>3 DEF Inv, HeldOK
  <2>4. r.id \in x.edited \/ Meant(v, r.data, a.data)
    BY <1>1, <1>2, <1>3, <2>1 DEF Guided, Aimed
  <2> QED
    BY <1>2, <2>2, <2>3, <2>4 DEF Askable, Meant
<1>4. CASE ~ById(v)
  <2>1. r.name = FullName(v, a) /\ Picks(v, r.data, a.data)
    BY <1>1, <1>2, <1>4 DEF Doomed
  <2>2. v = "pihole" => P!Storable(a.data)
    BY <1>1 DEF Guided
  <2>3. Meant(v, r.data, a.data)
    BY <1>1, <1>2, <2>1, <2>2, PickedIsMeant
  <2> QED
    BY <1>2, <2>1, <2>3 DEF Askable, Meant
<1> QED
  BY <1>3, <1>4

\* and where records have ids it is one.
LEMMA DoomedIsOne ==
  ASSUME Inv, NEW c \in Clients, Server(c) \in Servers, ById(Vendor(c)), Doomed(c) # {}
  PROVE  Cardinality(Doomed(c)) = 1
<1>1. PICK r : r \in Doomed(c)
  OBVIOUS
<1>2. \A q \in Doomed(c) : q = r
  BY <1>1 DEF Doomed, Inv, HeldOK, Vendor
<1>3. Doomed(c) = {r}
  BY <1>1, <1>2
<1> QED
  BY <1>3, FS_Singleton

\* What a delete that succeeds takes away.
LEMMA DeleteTakes ==
  ASSUME Inv, Guide, [Next]_vars, NEW c \in Clients, Acts(c), call[c].ask.op = "delete_record"
  PROVE  LET s   == Server(c)
             sel == call[c].ask.data IN
         /\ \A r \in held[s] \ held'[s] : Askable(c, r)
         /\ held'[s] \subseteq held[s]
         /\ ById(VendorOf[s]) /\ Required[sel.type] \subseteq DOMAIN sel.value =>
              Cardinality(held[s] \ held'[s]) = 1
         /\ \A t \in Servers \ {s} : held'[t] = held[t]
<1> DEFINE s == Server(c)
<1>1. Changes(c) /\ ~Refused(c)
  BY ActsChanges
<1>2. Busy(c)
  BY <1>1 DEF Changes, CreateZone, DeleteZone, AddRecord, DeleteRecord, ChangeMarks,
              ImportZone, Due
<1>3. Op(c) = "delete_record" /\ s \in Servers
  BY <1>2, BusyGuided, ServerType
<1>4. DeleteRecord(c)
  BY <1>1, <1>3
  DEF Changes, CreateZone, DeleteZone, AddRecord, ChangeMarks, ImportZone, Marking,
      CacheWrite, AccessListWrite, SettingsWrite, ZoneOptionsWrite, ZoneImport
<1>5. Doomed(c) # {} /\ Applied(c, [held EXCEPT ![s] = @ \ Doomed(c)], {})
  BY <1>1, <1>4 DEF DeleteRecord, Rejected
<1>6. /\ held'[s] = held[s] \ Doomed(c) /\ Doomed(c) \subseteq held[s]
      /\ \A t \in Servers \ {s} : held'[t] = held[t]
  <2>1. held' = [held EXCEPT ![s] = @ \ Doomed(c)]
    BY <1>5 DEF Applied
  <2>2. Doomed(c) \subseteq held[s]
    BY DEF Doomed
  <2> HIDE DEF s
  <2> QED
    BY <1>3, <2>1, <2>2 DEF Inv, HeldOK
<1>7. held[s] \ held'[s] = Doomed(c)
  BY <1>6
<1>8. ById(VendorOf[s]) => Cardinality(Doomed(c)) = 1
  BY <1>3, <1>5, DoomedIsOne DEF Vendor
<1>9. \A r \in Doomed(c) : Askable(c, r)
  BY <1>2, DoomedAskable
<1> QED
  BY <1>6, <1>7, <1>8, <1>9

\* A delete takes only what was asked for, at no other server than the one
\* asked for, and where records have ids and the value is given exactly one
\* record, although it is found by one request and deleted by a later one, and whatever is added,
\* deleted and edited in between (delete_record of the vendor clients).
THEOREM DeletesTakeWhatWasAsked == Spec => DeleteTakesAsked
<1>1. Init => Inv /\ Settled /\ Guide
  BY InitInv, InitGuide DEF Init, Settled, Sound, Idle
<1>2. Inv /\ Settled /\ Guide /\ [Next]_vars => Inv' /\ Settled' /\ Guide'
  BY EveryStep, EverySettled, EveryGuided
<1>3. Inv /\ Settled /\ Guide /\ [Next]_vars =>
        [\A c \in Clients : Acts(c) /\ call[c].ask.op = "delete_record" =>
           LET s   == Server(c)
               sel == call[c].ask.data IN
           /\ \A r \in held[s] \ held'[s] : Askable(c, r)
           /\ held'[s] \subseteq held[s]
           /\ ById(VendorOf[s]) /\ Required[sel.type] \subseteq DOMAIN sel.value =>
                Cardinality(held[s] \ held'[s]) = 1
           /\ \A t \in Servers \ {s} : held'[t] = held[t]]_vars
  BY DeleteTakes
<1> QED
  BY <1>1, <1>2, <1>3, PTL DEF Spec, DeleteTakesAsked

-----------------------------------------------------------------------------
(* What a listing reads back *)

\* Data that reads as the record d, the lossy parameters aside.
ReadsAs(r, d) ==
  /\ Typed(r) /\ r.type = d.type
  /\ \A k \in DOMAIN d.value \ Lossy : parse_record_data(r).value[k] = d.value[k]

\* No parameter a type must have is lossy, and no lossy one is enumerated.
LEMMA RequiredIsKept ==
  /\ \A t \in Types : Required[t] \cap Lossy = {}
  /\ Lossy \cap DOMAIN EnumOf = {}
<1>1. \A t \in Types : Required[t] \cap Lossy = {}
  BY DEF Types, Required, Lossy
<1>2. Lossy \cap DOMAIN EnumOf = {}
  BY DEF Lossy, EnumOf
<1> QED
  BY <1>1, <1>2

\* Listed data that says of each parameter what the record does, and of no
\* other one anything but a lossy one.
LEMMA FaithfulReads ==
  ASSUME NEW d, IsRecordData(d), NEW r, r.type = d.type,
         \A k \in DOMAIN d.value \ Lossy : k \in DOMAIN r.value /\ r.value[k] = d.value[k],
         \A k \in DOMAIN r.value \ Lossy : k \in DOMAIN d.value
  PROVE  ReadsAs(r, d)
<1>1. d.type \in Types /\ Required[d.type] \cup DOMAIN DefaultsOf(d.type) \subseteq DOMAIN d.value
      /\ DOMAIN d.value \subseteq KeysOf(d.type)
      /\ \A k \in DOMAIN d.value \cap DOMAIN EnumOf : d.value[k] \in EnumOf[k]
  BY DEF IsRecordData
<1>2. Typed(r)
  BY <1>1, RequiredIsKept DEF Typed
<1>3. ASSUME NEW k \in DOMAIN d.value \ Lossy
      PROVE  parse_record_data(r).value[k] = d.value[k]
  <2>1. k \in Required[r.type] \cup DOMAIN DefaultsOf(r.type)
                \cup (OptionalOf(r.type) \cap DOMAIN r.value)
    BY <1>1, <1>3 DEF KeysOf
  <2> QED
    BY <1>3, <2>1 DEF parse_record_data
<1> QED
  BY <1>2, <1>3 DEF ReadsAs

\* A typed record reads as one.
LEMMA TypedReads ==
  ASSUME NEW d, IsRecordData(d)
  PROVE  T!Typed(d) /\ C!Typed(d)
<1>1. Typed(d)
  BY DEF IsRecordData, Typed
<1>2. T!Required = Required /\ C!Required = Required /\ T!EnumOf = EnumOf /\ C!EnumOf = EnumOf
  <2>1. T!Required = Required
    BY DEF T!Required, Required
  <2>2. C!Required = Required
    BY DEF C!Required, Required
  <2>3. T!EnumOf = EnumOf
    BY DEF T!EnumOf, EnumOf, T!DsAlgorithm, DsAlgorithm, T!DigestType, DigestType,
           T!SshfpAlgorithm, SshfpAlgorithm, T!SshfpFingerprintType, SshfpFingerprintType,
           T!TlsaCertUsage, TlsaCertUsage, T!TlsaSelector, TlsaSelector,
           T!TlsaMatchingType, TlsaMatchingType, T!FwdProtocol, FwdProtocol
  <2>4. C!EnumOf = EnumOf
    BY DEF C!EnumOf, EnumOf, C!DsAlgorithm, DsAlgorithm, C!DigestType, DigestType,
           C!SshfpAlgorithm, SshfpAlgorithm, C!SshfpFingerprintType, SshfpFingerprintType,
           C!TlsaCertUsage, TlsaCertUsage, C!TlsaSelector, TlsaSelector,
           C!TlsaMatchingType, TlsaMatchingType, C!FwdProtocol, FwdProtocol
  <2> QED
    BY <2>1, <2>2, <2>3, <2>4
<1> QED
  BY <1>1, <1>2 DEF Typed, T!Typed, C!Typed, Types, T!Types, C!Types

\* Technitium lists what it was given.
LEMMA TechnitiumReads ==
  ASSUME NEW d, IsRecordData(d)
  PROVE  ReadsAs(T!Kept(d), d)
<1>1. T!Kept(d) = parse_record_data(d)
  BY TypedReads DEF T!Kept, T!parse_record_data, parse_record_data, T!Required, Required,
         T!DefaultsOf, DefaultsOf, T!Defaulted, Defaulted, T!OptionalOf, OptionalOf,
         T!Optional, Optional
<1> DEFINE keys == Required[d.type] \cup DOMAIN DefaultsOf(d.type)
                     \cup (OptionalOf(d.type) \cap DOMAIN d.value)
<1>2. keys = DOMAIN d.value
  BY DEF IsRecordData, KeysOf
<1>3. T!Kept(d).type = d.type /\ DOMAIN T!Kept(d).value = keys
      /\ \A k \in keys : k \in DOMAIN d.value => T!Kept(d).value[k] = d.value[k]
  BY <1>1 DEF parse_record_data
<1> QED
  BY <1>2, <1>3, FaithfulReads

\* Each name of an enumerated parameter has a number, which is read as that name.
Numbering(k) ==
  /\ DOMAIN C!NumberOf[k] = EnumOf[k]
  /\ \A v \in EnumOf[k] : C!Decode(k, C!NumberOf[k][v]) = v

LEMMA NumbersReadBack == \A k \in DOMAIN C!NumberOf : k \in DOMAIN EnumOf /\ Numbering(k)
<1>1. Numbering("sshfpAlgorithm")
  <2>1. \A w : C!Decode("sshfpAlgorithm", w) = C!sshfp_algorithm_to_str(w)
    BY Zenon DEF C!Decode
  <2> QED
    BY <2>1 DEF Numbering, EnumOf, C!NumberOf, C!sshfp_algorithm_to_num,
                C!sshfp_algorithm_to_str, SshfpAlgorithm
<1>2. Numbering("sshfpFingerprintType")
  <2>1. \A w : C!Decode("sshfpFingerprintType", w) = C!sshfp_fp_type_to_str(w)
    BY Zenon DEF C!Decode
  <2> QED
    BY <2>1 DEF Numbering, EnumOf, C!NumberOf, C!sshfp_fp_type_to_num,
                C!sshfp_fp_type_to_str, SshfpFingerprintType
<1>3. Numbering("tlsaCertificateUsage")
  <2>1. \A w : C!Decode("tlsaCertificateUsage", w) = C!tlsa_cert_usage_to_str(w)
    BY Zenon DEF C!Decode
  <2> QED
    BY <2>1 DEF Numbering, EnumOf, C!NumberOf, C!tlsa_cert_usage_to_num,
                C!tlsa_cert_usage_to_str, TlsaCertUsage, C!TlsaCertUsage
<1>4. Numbering("tlsaSelector")
  <2>1. \A w : C!Decode("tlsaSelector", w) = C!tlsa_selector_to_str(w)
    BY Zenon DEF C!Decode
  <2> QED
    BY <2>1 DEF Numbering, EnumOf, C!NumberOf, C!tlsa_selector_to_num,
                C!tlsa_selector_to_str, TlsaSelector
<1>5. Numbering("tlsaMatchingType")
  <2>1. \A w : C!Decode("tlsaMatchingType", w) = C!tlsa_matching_type_to_str(w)
    BY Zenon DEF C!Decode
  <2> QED
    BY <2>1 DEF Numbering, EnumOf, C!NumberOf, C!tlsa_matching_type_to_num,
                C!tlsa_matching_type_to_str, TlsaMatchingType, C!TlsaMatchingType
<1>6. Numbering("algorithm")
  <2>1. \A w : C!Decode("algorithm", w) = C!ds_algorithm_to_str(w)
    BY Zenon DEF C!Decode
  <2> QED
    BY <2>1 DEF Numbering, EnumOf, C!NumberOf, C!ds_algorithm_to_num,
                C!ds_algorithm_to_str, DsAlgorithm, C!DsAlgorithm
<1>7. Numbering("digestType")
  <2>1. \A w : C!Decode("digestType", w) = C!ds_digest_type_to_str(w)
    BY Zenon DEF C!Decode
  <2> QED
    BY <2>1 DEF Numbering, EnumOf, C!NumberOf, C!ds_digest_type_to_num,
                C!ds_digest_type_to_str, DigestType, C!DigestType
<1>8. /\ DOMAIN C!NumberOf =
           {"sshfpAlgorithm", "sshfpFingerprintType", "tlsaCertificateUsage",
            "tlsaSelector", "tlsaMatchingType", "algorithm", "digestType"}
      /\ DOMAIN C!NumberOf \subseteq DOMAIN EnumOf
  BY DEF C!NumberOf, EnumOf
<1> QED
  BY <1>1, <1>2, <1>3, <1>4, <1>5, <1>6, <1>7, <1>8

\* What was written is read as what it was written for.
LEMMA DecodesEncoded ==
  ASSUME NEW k, NEW v, k \in DOMAIN EnumOf => v \in EnumOf[k]
  PROVE  C!Decode(k, C!Encode(k, v)) = v
<1>1. CASE k \in DOMAIN C!NumberOf
  <2>1. Numbering(k) /\ v \in EnumOf[k]
    BY <1>1, NumbersReadBack
  <2>2. C!Encode(k, v) = C!NumberOf[k][v]
    BY <1>1 DEF C!Encode
  <2> QED
    BY <2>1, <2>2 DEF Numbering
<1>2. CASE k \notin DOMAIN C!NumberOf
  <2>1. C!Encode(k, v) = v
    BY <1>2 DEF C!Encode
  <2>2. /\ k # "sshfpAlgorithm" /\ k # "sshfpFingerprintType" /\ k # "tlsaCertificateUsage"
        /\ k # "tlsaSelector" /\ k # "tlsaMatchingType" /\ k # "algorithm"
        /\ k # "digestType"
    BY <1>2 DEF C!NumberOf
  <2>3. C!Decode(k, v) = v
    BY <2>2, Zenon DEF C!Decode
  <2> QED
    BY <2>1, <2>3
<1> QED
  BY <1>1, <1>2

\* The body of a type has a field for each parameter that is not lossy, and
\* no field twice; what a listing adds is lossy.
Placed(t) ==
  LET place == C!FieldOf[t] IN
  /\ KeysOf(t) \ Lossy \subseteq DOMAIN place
  /\ \A j, k \in DOMAIN place : place[j] = place[k] => j = k

LEMMA FieldsDiffer == \A t \in DOMAIN C!FieldOf : t \in Types => Placed(t)
<1>1. DOMAIN << >> = {}
  OBVIOUS
<1> SUFFICES ASSUME NEW t \in DOMAIN C!FieldOf
             PROVE  Placed(t)
  OBVIOUS
<1>2. KeysOf(t) \ Lossy \subseteq DOMAIN C!FieldOf[t]
  BY <1>1 DEF KeysOf, Required, DefaultsOf, Defaulted, OptionalOf, Optional, Lossy, C!FieldOf
<1>3. \A j, k \in DOMAIN C!FieldOf[t] : C!FieldOf[t][j] = C!FieldOf[t][k] => j = k
  BY DEF C!FieldOf
<1> QED
  BY <1>2, <1>3 DEF Placed

LEMMA AssumedLossy == \A t : DOMAIN C!AssumedFor(t) \subseteq Lossy
<1>1. DOMAIN << >> = {}
  OBVIOUS
<1> QED
  BY <1>1 DEF C!AssumedFor, C!Assumed, Lossy

\* Cloudflare lists every parameter it has a place for as it was given.
LEMMA CloudflareReads ==
  ASSUME NEW d, IsRecordData(d), d.type \in DOMAIN C!FieldOf
  PROVE  ReadsAs(C!Kept(d), d)
<1> DEFINE place == C!FieldOf[d.type]
           body  == C!record_data_to_cloudflare_body(d)
           sent  == DOMAIN place \cap DOMAIN d.value
           read  == [k \in {p \in DOMAIN place : place[p] \in DOMAIN body} |->
                       C!Decode(k, body[place[k]])]
<1>1. Placed(d.type)
  BY FieldsDiffer DEF IsRecordData
<1>2. /\ DOMAIN d.value \ Lossy \subseteq sent
      /\ \A j, k \in DOMAIN place : place[j] = place[k] => j = k
  BY <1>1 DEF IsRecordData, Placed
<1>3. body = [f \in {place[k] : k \in sent} |->
                LET k == CHOOSE p \in sent : place[p] = f IN C!Encode(k, d.value[k])]
  BY DEF C!record_data_to_cloudflare_body
<1>4. /\ C!Kept(d).type = d.type
      /\ C!Kept(d).value = C!Completed(read, C!AssumedFor(d.type))
  <2>1. d.type \in DOMAIN C!ReadFrom /\ C!ReadFrom[d.type] = place
    BY SamePlaces
  <2> HIDE DEF place, body
  <2> QED
    BY <2>1, TypedReads, Zenon DEF C!Kept, C!normalize_rdata, body
<1> HIDE DEF place, body
<1>5. DOMAIN body = {place[k] : k \in sent}
  BY <1>3
<1>6. ASSUME NEW k \in sent
      PROVE  body[place[k]] = C!Encode(k, d.value[k])
  <2>1. (CHOOSE p \in sent : place[p] = place[k]) = k
    BY <1>2
  <2> QED
    BY <1>3, <2>1
<1>7. DOMAIN read = sent
  BY <1>2, <1>5
<1>8. ASSUME NEW k \in sent
      PROVE  read[k] = d.value[k]
  <2>1. k \in DOMAIN EnumOf => d.value[k] \in EnumOf[k]
    BY DEF IsRecordData
  <2>2. read[k] = C!Decode(k, C!Encode(k, d.value[k]))
    BY <1>6, <1>7
  <2> QED
    BY <2>1, <2>2, DecodesEncoded
<1> HIDE DEF read
<1>9. /\ DOMAIN C!Kept(d).value = sent \cup DOMAIN C!AssumedFor(d.type)
      /\ \A k \in sent : C!Kept(d).value[k] = d.value[k]
  BY <1>4, <1>7, <1>8 DEF C!Completed
<1> QED
  BY <1>2, <1>4, <1>9, AssumedLossy, FaithfulReads

\* So does UniFi, for the types a policy can hold,
LEMMA UnifiReads ==
  ASSUME NEW d, IsRecordData(d), U!Storable(d)
  PROVE  ReadsAs(U!Kept(d), d)
<1> DEFINE place  == U!PolicyField[d.type]
           policy == U!record_data_to_unifi_body(d)
           read   == [k \in DOMAIN place |-> policy[place[k]]]
           spare  == IF d.type = "TXT" THEN [splitText |-> "false"] ELSE << >>
<1>1. DOMAIN << >> = {}
  OBVIOUS
<1>2. /\ KeysOf(d.type) \ Lossy \subseteq DOMAIN place
      /\ DOMAIN place \subseteq Required[d.type] \cup DOMAIN DefaultsOf(d.type)
  BY <1>1 DEF U!Storable, U!PolicyField, KeysOf, Required, DefaultsOf, Defaulted, OptionalOf,
              Optional, Lossy
<1>3. \A j, k \in DOMAIN place : place[j] = place[k] => j = k
  BY DEF U!Storable, U!PolicyField
<1>4. DOMAIN spare \subseteq Lossy
  BY <1>1 DEF Lossy
<1>5. policy = [f \in {place[k] : k \in DOMAIN place} |->
                  d.value[CHOOSE k \in DOMAIN place : place[k] = f]]
  BY DEF U!record_data_to_unifi_body
<1>6. U!Kept(d).type = d.type /\ U!Kept(d).value = U!Completed(read, spare)
  <2>1. U!ReadFrom[d.type] = place
    BY SamePlaces DEF U!Storable
  <2> HIDE DEF place, policy
  <2> QED
    BY <2>1, Zenon DEF U!Kept, U!policy_to_rdata, policy
<1> HIDE DEF place, policy, spare
<1>7. ASSUME NEW k \in DOMAIN place
      PROVE  read[k] = d.value[k]
  <2>1. (CHOOSE j \in DOMAIN place : place[j] = place[k]) = k
    BY <1>3
  <2> QED
    BY <1>5, <2>1
<1>8. DOMAIN read = DOMAIN place
  OBVIOUS
<1> HIDE DEF read
<1>9. /\ DOMAIN U!Kept(d).value = DOMAIN place \cup DOMAIN spare
      /\ \A k \in DOMAIN place : U!Kept(d).value[k] = d.value[k]
  BY <1>6, <1>7, <1>8 DEF U!Completed
<1>10. DOMAIN d.value \ Lossy \subseteq DOMAIN place /\ DOMAIN place \subseteq DOMAIN d.value
  BY <1>2 DEF IsRecordData
<1> QED
  BY <1>4, <1>6, <1>9, <1>10, FaithfulReads

\* and Pi-hole for addresses and aliases.
LEMMA PiholeReads ==
  ASSUME NEW d, IsRecordData(d), P!Storable(d)
  PROVE  ReadsAs(P!Kept(d), d)
<1> DEFINE key == P!EntryKey(d.type)
<1>1. DOMAIN << >> = {}
  OBVIOUS
<1>2. KeysOf(d.type) = {key} /\ key \in Required[d.type]
  BY <1>1 DEF P!Storable, P!HostTypes, P!EntryKey, KeysOf, Required, DefaultsOf, Defaulted,
              OptionalOf, Optional
<1>3. DOMAIN d.value = {key}
  BY <1>2 DEF IsRecordData
<1>4. /\ P!Kept(d).type = d.type /\ DOMAIN P!Kept(d).value = {key}
      /\ P!Kept(d).value[key] = d.value[key]
  BY DEF P!Kept, P!record_data_to_local_dns_body
<1> QED
  BY <1>3, <1>4, FaithfulReads

LEMMA KeptReads ==
  ASSUME NEW v \in VendorKind, NEW d, IsRecordData(d), Keeps(v, d)
  PROVE  ReadsAs(Kept(v, d), d)
<1>1. CASE v = "technitium"
  <2>1. Kept(v, d) = T!Kept(d)
    BY <1>1, Zenon DEF Kept
  <2> QED
    BY <2>1, TechnitiumReads
<1>2. CASE v = "cloudflare"
  <2>1. Kept(v, d) = C!Kept(d) /\ (Keeps(v, d) <=> d.type \in DOMAIN C!FieldOf)
    BY <1>2, Zenon DEF Kept, Keeps
  <2> QED
    BY <2>1, CloudflareReads
<1>3. CASE v = "unifi"
  <2>1. Kept(v, d) = U!Kept(d) /\ (Keeps(v, d) <=> U!Storable(d))
    BY <1>3, Zenon DEF Kept, Keeps
  <2> QED
    BY <2>1, UnifiReads
<1>4. CASE v = "pihole"
  <2>1. Kept(v, d) = P!Kept(d) /\ (Keeps(v, d) <=> P!Storable(d))
    BY <1>4, Zenon DEF Kept, Keeps
  <2> QED
    BY <2>1, PiholeReads
<1>5. CASE v = "pangolin"
  BY <1>5, Zenon DEF Keeps
<1> QED
  BY <1>1, <1>2, <1>3, <1>4, <1>5 DEF VendorKind

\* What an addition that is applied leaves at its server.
LEMMA AddLeaves ==
  ASSUME Inv, [Next]_vars, NEW c \in Clients, Acts(c), call[c].ask.op = "add_record",
         Keeps(Vendor(c), call[c].ask.data)
  PROVE  \E r \in held'[call[c].ask.server] :
           /\ r.name = FullName(Vendor(c), call[c].ask)
           /\ ReadsAs(r.data, call[c].ask.data)
<1> DEFINE a == call[c].ask
           s == a.server
           r == Stored(s, Sent(c), nextId)
<1>1. Changes(c) /\ ~Refused(c)
  BY ActsChanges
<1>2. Busy(c)
  BY <1>1 DEF Changes, CreateZone, DeleteZone, AddRecord, DeleteRecord, ChangeMarks,
              ImportZone, Due
<1>3. FromLoad(c, call[c], load) /\ load \in Workloads
  BY <1>2, BusyCall DEF Inv, CallOK
<1>4. a \in Parameters /\ IsRecordData(a.data)
  <2>1. PICK q \in load.asks[c] : q.ask = a
    BY <1>3 DEF FromLoad
  <2> QED
    BY <1>3, <2>1, AskType, DataAssumption
<1>5. Op(c) = "add_record" /\ Server(c) = s
  <2>1. ~IsTransfer(a) /\ ~AcrossZones(a)
    BY DEF IsTransfer, AcrossZones, IsSearch, ListsAll
  <2> QED
    BY <1>2, <2>1, OneMethod
<1>6. AddRecord(c)
  BY <1>1, <1>5
  DEF Changes, CreateZone, DeleteZone, DeleteRecord, ChangeMarks, ImportZone, Marking,
      CacheWrite, AccessListWrite, SettingsWrite, ZoneOptionsWrite, ZoneImport
<1>7. held' = [held EXCEPT ![s] = @ \cup {r}]
  BY <1>1, <1>5, <1>6 DEF AddRecord, Rejected, Applied
<1>8. s \in Servers /\ VendorOf[s] \in VendorKind /\ Vendor(c) = VendorOf[s]
  BY <1>4, <1>5, OperationsAssumption DEF Parameters, Vendor
<1>9. r.name = FullName(Vendor(c), a) /\ r.data = Kept(VendorOf[s], a.data)
  BY DEF Stored, Sent
<1>10. r \in held'[s]
  <2> HIDE DEF s, r
  <2> QED
    BY <1>7, <1>8 DEF Inv, HeldOK
<1> QED
  BY <1>4, <1>8, <1>9, <1>10, KeptReads

\* A record that was added reads back, for every type, every value and every
\* vendor that has a form for it, as the record it was: what each client
\* writes and what it reads are inverse to each other, the numbers that
\* Cloudflare has for names included (mapping of the vendor clients).
THEOREM RecordsReadBack == Spec => ReadsBack
<1>1. Init => Inv
  BY InitInv
<1>2. Inv /\ [Next]_vars => Inv'
  BY EveryStep
<1>3. Inv /\ [Next]_vars =>
        [\A c \in Clients :
           LET a == call[c].ask IN
           Acts(c) /\ a.op = "add_record" /\ Keeps(Vendor(c), a.data) =>
             \E r \in held'[a.server] :
               /\ r.name = FullName(Vendor(c), a) /\ Typed(r.data)
               /\ r.data.type = a.data.type
               /\ \A k \in DOMAIN a.data.value \ Lossy :
                    parse_record_data(r.data).value[k] = a.data.value[k]]_vars
  BY AddLeaves DEF ReadsAs
<1> QED
  BY <1>1, <1>2, <1>3, PTL DEF Spec, ReadsBack
=============================================================================
