------------------------------- MODULE Pihole -------------------------------
(***************************************************************************)
(* The Pi-hole client (vendors/pihole): local host and CNAME entries       *)
(* without zones, TTLs or ids.  Every request opens a session of its own,  *)
(* which nothing closes; opening it is part of the request here.           *)
(***************************************************************************)
EXTENDS VendorService, RecordData

capabilities == {"records", "cache", "access_lists", "settings"}

ZoneReads  == [list_zones |-> Unsupported, list_records |-> <<"hosts", "cnames">>]

ZoneWrites == [create_zone |-> Unsupported, delete_zone  |-> Unsupported,
               enable_zone |-> Unsupported, disable_zone |-> Unsupported]

\* Addresses go to the host entries, aliases to the CNAME entries; no other
\* type can be kept.
HostTypes == {"A", "AAAA"}
Storable(d) == d.type \in HostTypes \cup {"CNAME"}

AddRecord(d)      == IF Storable(d) THEN <<"act">> ELSE Unsupported
DeleteRecord(sel) == IF Storable(sel) THEN <<"act">> ELSE Unsupported

\* An entry is deleted by its value: a selector without one is refused.
RefusesDelete(sel) ==
  \/ sel.type \in HostTypes /\ "ipAddress" \notin DOMAIN sel.value
  \/ sel.type = "CNAME" /\ "cname" \notin DOMAIN sel.value

Refuses(a) == a.op = "delete_record" /\ RefusesDelete(a.data)

CacheReads  == [list_cache |-> <<"act">>]
CacheWrites == [delete_cache_zone |-> Unsupported, flush_cache |-> <<"act">>]
StatsReads  == [get_stats |-> <<"act">>]

AccessListReads  == [list_blocked |-> <<"act">>, list_allowed |-> <<"act">>]
AccessListWrites == [add_blocked |-> <<"act">>, delete_blocked |-> <<"act">>,
                     add_allowed |-> <<"act">>, delete_allowed |-> <<"act">>]

ZoneFiles == [import_zone_file |-> Unsupported, export_zone_file |-> Unsupported]

SettingsReads == [get_settings |-> <<"act">>]

Unoffered == SettingsWrite \cup ZoneOptionsRead \cup ZoneOptionsWrite \cup LogsRead

Requests(a) ==
  CASE a.op \in ZoneRead        -> ZoneReads[a.op]
    [] a.op \in ZoneWrite       -> ZoneWrites[a.op]
    [] a.op = "add_record"      -> AddRecord(a.data)
    [] a.op = "delete_record"   -> DeleteRecord(a.data)
    [] a.op \in CacheRead       -> CacheReads[a.op]
    [] a.op \in CacheWrite      -> CacheWrites[a.op]
    [] a.op \in StatsRead       -> StatsReads[a.op]
    [] a.op \in AccessListRead  -> AccessListReads[a.op]
    [] a.op \in AccessListWrite -> AccessListWrites[a.op]
    [] a.op \in ZoneImport \cup ZoneExport -> ZoneFiles[a.op]
    [] a.op \in SettingsRead    -> SettingsReads[a.op]
    [] a.op \in Unoffered       -> Unsupported

\* The HTTP status decides; there must be a JSON body but for status 204.
parse_response(ans) ==
  ans.http = "204" \/ (ans.http = "2xx" /\ ans.body \notin {"text", "empty"})

Refusals   == {Ans("4xx", "refused"), Ans("4xx", "text")}
Grants(op) == IF op \in {"delete_record", "delete_blocked", "delete_allowed"}
              THEN {Ans("204", "empty")} ELSE {Ans("2xx", "json")}

-----------------------------------------------------------------------------
(* Entries *)

\* The one parameter an entry holds.
EntryKey(type) == IF type = "CNAME" THEN "cname" ELSE "ipAddress"

record_data_to_local_dns_body(d) == d.value[EntryKey(d.type)]

\* A record as the next listing reports it; addresses are told apart by
\* their form, aliases by the list they come from.
Kept(d) ==
  [type  |-> d.type,
   value |-> [k \in {EntryKey(d.type)} |-> record_data_to_local_dns_body(d)]]

\* The domain's own entries, or also those under it; a zone plays no part.
Lists(at, name, within) == IF at.all THEN at.domain \in within ELSE name = at.domain

Picks(d, sel) ==
  /\ d.type = sel.type
  /\ d.value[EntryKey(d.type)] = sel.value[EntryKey(sel.type)]
=============================================================================
