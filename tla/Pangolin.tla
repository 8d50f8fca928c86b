------------------------------ MODULE Pangolin ------------------------------
(***************************************************************************)
(* The Pangolin client (vendors/pangolin): the domains of an organisation  *)
(* and the records Pangolin wants to see for them.  It only reads.         *)
(***************************************************************************)
EXTENDS VendorService, RecordData

capabilities == {"zones", "records", "settings"}

ZoneReads     == [list_zones |-> <<"act">>, list_records |-> <<"domains", "act">>]
SettingsReads == [get_settings |-> <<"act">>]

\* Everything that would change the server, and what it does not have.
UnofferedZones == ZoneWrite \cup RecordWrite \cup ZoneImport \cup ZoneExport
UnofferedLists == CacheRead \cup CacheWrite \cup StatsRead \cup AccessListRead
                    \cup AccessListWrite
UnofferedSettings == SettingsWrite \cup ZoneOptionsRead \cup ZoneOptionsWrite
                       \cup LogsRead

Requests(a) ==
  CASE a.op \in ZoneRead     -> ZoneReads[a.op]
    [] a.op \in SettingsRead -> SettingsReads[a.op]
    [] a.op \in UnofferedZones \cup UnofferedLists \cup UnofferedSettings -> Unsupported

\* The mark in the body decides, whatever the HTTP status.
parse_response(ans) == ans.body = "ok"

Refusals == {Ans("4xx", "refused"), Ans("2xx", "refused"), Ans("4xx", "text")}

\* The types whose value is listed under the parameter's own name; any other
\* type is listed with a bare value, which reads as no typed record.
dns_record_data ==
  [A |-> "ipAddress", AAAA |-> "ipAddress", NS |-> "nameServer",
   CNAME |-> "cname", TXT |-> "text"]

Kept(d) ==
  [type |-> d.type,
   value |->
     IF d.type \in DOMAIN dns_record_data
     THEN [k \in {dns_record_data[d.type]} |-> d.value[dns_record_data[d.type]]]
     ELSE [value |-> "bare"]]

\* In a zone the domain's own records or all; without one, those of all zones.
Lists(at, name, zone) == at.zones # {} => zone \in at.zones /\ (at.all \/ name = at.domain)
=============================================================================
