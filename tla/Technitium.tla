----------------------------- MODULE Technitium -----------------------------
(***************************************************************************)
(* The Technitium client (vendors/technitium): the only vendor that offers *)
(* every operation.  Each is one request, except that reading the log      *)
(* looks for the newest file first.                                        *)
(***************************************************************************)
EXTENDS VendorService, RecordData

capabilities == DOMAIN VendorCapabilities

ZoneReads  == [list_zones |-> <<"act">>, list_records |-> <<"act">>]

ZoneWrites == [create_zone |-> <<"act">>, delete_zone  |-> <<"act">>,
               enable_zone |-> <<"act">>, disable_zone |-> <<"act">>]

RecordWrites == [add_record |-> <<"act">>, delete_record |-> <<"act">>]

CacheReads  == [list_cache |-> <<"act">>]
CacheWrites == [delete_cache_zone |-> <<"act">>, flush_cache |-> <<"act">>]
StatsReads  == [get_stats |-> <<"act">>]

AccessListReads  == [list_blocked |-> <<"act">>, list_allowed |-> <<"act">>]
AccessListWrites == [add_blocked |-> <<"act">>, delete_blocked |-> <<"act">>,
                     add_allowed |-> <<"act">>, delete_allowed |-> <<"act">>]

ZoneImports == [import_zone_file |-> <<"act">>]
ZoneExports == [export_zone_file |-> <<"act">>]

SettingsReads  == [get_settings |-> <<"act">>]
SettingsWrites == [set_settings |-> <<"act">>]

ZoneOptionsReads  == [get_zone_options |-> <<"act">>]
ZoneOptionsWrites == [set_zone_options |-> <<"act">>]

LogsReads == [get_logs |-> <<"find", "act">>]

Requests(a) ==
  CASE a.op \in ZoneRead         -> ZoneReads[a.op]
    [] a.op \in ZoneWrite        -> ZoneWrites[a.op]
    [] a.op \in RecordWrite      -> RecordWrites[a.op]
    [] a.op \in CacheRead        -> CacheReads[a.op]
    [] a.op \in CacheWrite       -> CacheWrites[a.op]
    [] a.op \in StatsRead        -> StatsReads[a.op]
    [] a.op \in AccessListRead   -> AccessListReads[a.op]
    [] a.op \in AccessListWrite  -> AccessListWrites[a.op]
    [] a.op \in ZoneImport       -> ZoneImports[a.op]
    [] a.op \in ZoneExport       -> ZoneExports[a.op]
    [] a.op \in SettingsRead     -> SettingsReads[a.op]
    [] a.op \in SettingsWrite    -> SettingsWrites[a.op]
    [] a.op \in ZoneOptionsRead  -> ZoneOptionsReads[a.op]
    [] a.op \in ZoneOptionsWrite -> ZoneOptionsWrites[a.op]
    [] a.op \in LogsRead         -> LogsReads[a.op]

\* Payloads the client refuses before it sends anything: settings and zone
\* options must be objects, and options must not bring their own zone.
RefusesSettings(a) == a.op = "set_settings" /\ a.payload = "other"
RefusesOptions(a)  == a.op = "set_zone_options" /\ a.payload \in {"other", "reserved"}
Refuses(a) == RefusesSettings(a) \/ RefusesOptions(a)

\* A slip the checks must catch: the HTTP status alone decides.
ByStatus(ans) == ans.http = "2xx"

\* The mark in the body decides, and the HTTP status where it says neither.
parse_response(ans) == ans.body = "ok" \/ (ans.body = "json" /\ ans.http = "2xx")

\* For an answer that is a file the HTTP status alone does.
get_text(ans) == ans.http = "2xx"

Reads(op, request, ans) ==
  IF op \in ZoneExport \cup LogsRead /\ request = "act" THEN get_text(ans)
  ELSE parse_response(ans)

\* The server refuses with a mark, with HTTP status 200 as a rule; something
\* in front of it may refuse in any way.
Refusals == {Ans("2xx", "refused"), Ans("4xx", "refused"), Ans("4xx", "json"),
             Ans("4xx", "text")}
Grants(op) == {Ans("2xx", "ok")}

\* A listing reports the parameters the record was added with; one that does
\* not read as a typed record is listed untyped.
Kept(d) == IF Typed(d) THEN parse_record_data(d) ELSE d

\* All of a zone is asked for as such; else only the domain's own records, in
\* the zone if one is given.
Lists(at, name, zone) ==
  /\ at.zones # {} => zone \in at.zones
  /\ ~at.all => name = at.domain

\* The server removes the records the selector names (it is sent every
\* parameter of it).
Picks(d, sel) == Agrees(d, sel)
=============================================================================
