--------------------------- MODULE VendorService ---------------------------
(***************************************************************************)
(* The operations every DNS vendor's client offers (core/dns/service.rs    *)
(* and core/dns/logs.rs): one set per trait, each with the trait's method  *)
(* names.  What a vendor does for a method is a sequence of requests to    *)
(* its server; the modules Technitium, Cloudflare, Unifi, Pihole and       *)
(* Pangolin give the sequence, one definition per trait implementation,    *)
(* and the empty sequence stands for a method the vendor refuses as        *)
(* unsupported before it sends anything.                                   *)
(*                                                                         *)
(* What a call asks for is a record                                        *)
(*   [op, server, zone, name, data, payload, flag, to]                     *)
(* with the method, the server, the zone and the record name it is about,  *)
(* the record to add or the selector of the one to delete, the shape of    *)
(* the JSON payload, the overwrite flag of an import and the destination   *)
(* of a transfer.                                                          *)
(***************************************************************************)

ZoneRead         == {"list_zones", "list_records"}
ZoneWrite        == {"create_zone", "delete_zone", "enable_zone", "disable_zone"}
RecordWrite      == {"add_record", "delete_record"}
CacheRead        == {"list_cache"}
CacheWrite       == {"delete_cache_zone", "flush_cache"}
StatsRead        == {"get_stats"}
AccessListRead   == {"list_blocked", "list_allowed"}
AccessListWrite  == {"add_blocked", "delete_blocked", "add_allowed", "delete_allowed"}
ZoneImport       == {"import_zone_file"}
ZoneExport       == {"export_zone_file"}
SettingsRead     == {"get_settings"}
SettingsWrite    == {"set_settings"}
ZoneOptionsRead  == {"get_zone_options"}
ZoneOptionsWrite == {"set_zone_options"}
LogsRead         == {"get_logs"}

\* The blanket traits: everything that only reads, everything that changes.
DnsRead == ZoneRead \cup CacheRead \cup StatsRead \cup AccessListRead
             \cup SettingsRead \cup ZoneOptionsRead \cup ZoneExport \cup LogsRead

DnsWrite == ZoneWrite \cup RecordWrite \cup CacheWrite \cup AccessListWrite
              \cup ZoneImport \cup SettingsWrite \cup ZoneOptionsWrite

DnsService == DnsRead \cup DnsWrite

VendorKind == {"technitium", "pangolin", "cloudflare", "unifi", "pihole"}

\* What a client can declare it supports, and the methods each word is about;
\* there is none for statistics.
VendorCapabilities ==
  [zones |-> ZoneWrite \cup {"list_zones"}, records |-> RecordWrite \cup {"list_records"},
   cache |-> CacheRead \cup CacheWrite, access_lists |-> AccessListRead \cup AccessListWrite,
   settings |-> SettingsRead, zone_import |-> ZoneImport, zone_export |-> ZoneExport,
   logs |-> LogsRead, zone_options |-> ZoneOptionsRead \cup ZoneOptionsWrite,
   settings_write |-> SettingsWrite]

\* The requests a client sends: the one that does the work ("act"), the
\* lookups before it (the id of a zone or a site, the record to delete), and
\* the parts of a listing that takes several requests.
Request == {"act", "zone", "find", "site", "page", "hosts", "cnames", "domains"}

Unsupported == << >>

\* The shape of a JSON payload: an object, an object with the key the
\* request uses itself, anything else.
Payload == {"object", "reserved", "other"}

\* An answer: its HTTP status, and a body that is JSON with the vendor's mark
\* of success or of a refusal, JSON without a mark, some other text, or empty.
Answer == [http : {"2xx", "204", "4xx"},
           body : {"ok", "refused", "json", "text", "empty"}]

Ans(http, body) == [http |-> http, body |-> body]
=============================================================================
