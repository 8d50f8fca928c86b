------------------------------- MODULE Unifi -------------------------------
(***************************************************************************)
(* The UniFi client (vendors/unifi): DNS policies of one site, without     *)
(* zones.  The site's id is looked up once, a listing is fetched page by   *)
(* page, and a delete looks for the policy in the whole listing before it  *)
(* deletes it by its id.                                                   *)
(***************************************************************************)
EXTENDS VendorService, RecordData, Naturals

\* The record types a policy can hold, and the policy's field for each
\* parameter.
PolicyField ==
  [A     |-> [ipAddress |-> "ipv4Address"],
   AAAA  |-> [ipAddress |-> "ipv6Address"],
   CNAME |-> [cname |-> "targetDomain"],
   MX    |-> [exchange |-> "mailServerDomain", preference |-> "priority"],
   TXT   |-> [text |-> "text"],
   SRV   |-> [target |-> "serverDomain", port |-> "port",
              priority |-> "priority", weight |-> "weight"]]

Storable(d) == d.type \in DOMAIN PolicyField

capabilities == {"records", "settings"}

ZoneReads  == [list_zones |-> Unsupported, list_records |-> <<"site", "page">>]

ZoneWrites == [create_zone |-> Unsupported, delete_zone  |-> Unsupported,
               enable_zone |-> Unsupported, disable_zone |-> Unsupported]

\* The body is built, and a type refused, before the first request.
AddRecord(d) == IF Storable(d) THEN <<"site", "act">> ELSE Unsupported
DeleteRecord == <<"site", "page", "act">>

SettingsReads == [get_settings |-> <<"act">>]

\* The controller keeps none of the rest.
Unoffered == CacheRead \cup CacheWrite \cup StatsRead \cup AccessListRead
               \cup AccessListWrite \cup ZoneImport \cup ZoneExport
UnofferedSettings == SettingsWrite \cup ZoneOptionsRead \cup ZoneOptionsWrite
                       \cup LogsRead

Requests(a) ==
  CASE a.op \in ZoneRead       -> ZoneReads[a.op]
    [] a.op \in ZoneWrite      -> ZoneWrites[a.op]
    [] a.op = "add_record"     -> AddRecord(a.data)
    [] a.op = "delete_record"  -> DeleteRecord
    [] a.op \in SettingsRead   -> SettingsReads[a.op]
    [] a.op \in Unoffered \cup UnofferedSettings -> Unsupported

\* The HTTP status decides; a body must be JSON if there is one.
parse_json_response(ans) == ans.http # "4xx" /\ ans.body # "text"

Refusals   == {Ans("4xx", "refused"), Ans("4xx", "text"), Ans("4xx", "empty")}
Grants(op) == IF op = "delete_record"
              THEN {Ans("204", "empty"), Ans("2xx", "empty"), Ans("2xx", "json")}
              ELSE {Ans("2xx", "json")}

-----------------------------------------------------------------------------
(* Records as policies *)

record_data_to_unifi_body(d) ==
  LET place == PolicyField[d.type] IN
  [f \in {place[k] : k \in DOMAIN place} |->
     d.value[CHOOSE k \in DOMAIN place : place[k] = f]]

\* The field each parameter of a listed policy is read from.
ReadFrom ==
  [A     |-> [ipAddress |-> "ipv4Address"],
   AAAA  |-> [ipAddress |-> "ipv6Address"],
   CNAME |-> [cname |-> "targetDomain"],
   MX    |-> [preference |-> "priority", exchange |-> "mailServerDomain"],
   TXT   |-> [text |-> "text"],
   SRV   |-> [priority |-> "priority", weight |-> "weight", port |-> "port",
              target |-> "serverDomain"]]

policy_to_rdata(type, policy) ==
  Completed([k \in DOMAIN ReadFrom[type] |-> policy[ReadFrom[type][k]]],
            IF type = "TXT" THEN [splitText |-> "false"] ELSE << >>)

\* A record as the next listing reports it.
Kept(d) == [type  |-> d.type,
            value |-> policy_to_rdata(d.type, record_data_to_unifi_body(d))]

\* Always all under the zone, or under the domain if none is given.
Lists(at, within) == IF at.zones # {} THEN at.zones \subseteq within ELSE at.domain \in within

\* Whether a policy is one the selector names: each parameter the policy
\* holds and the selector carries is compared.
policy_matches_delete_params(d, sel) ==
  /\ Storable(d)
  /\ d.type = sel.type
  /\ \A k \in DOMAIN PolicyField[d.type] \cap DOMAIN sel.value :
       d.value[k] = sel.value[k]

-----------------------------------------------------------------------------
(* Fetching the policies *)

\* A slip the checks must catch: one policy on, however many came.
NextOffsetByOne(offset, n) == offset + 1

\* The page after the one that began at offset and brought n policies; an
\* empty page still moves on, so that the loop cannot stand still.
NextOffset(offset, n) == offset + (IF n = 0 THEN 1 ELSE n)

\* Whether the page ends the listing: it is empty, the total the server
\* gave is reached, or the server gave none and the page is short.
LastPage(n, collected, totals, limit) ==
  \/ n = 0
  \/ \E t \in totals : collected >= t
  \/ totals = {} /\ n < limit
=============================================================================
