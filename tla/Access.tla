------------------------------- MODULE Access -------------------------------
(***************************************************************************)
(* What the MCP server lets its tools do (control_plane/policy, mcp/tools, *)
(* mcp/server).  A server's configuration grants rules (read, write,       *)
(* delete) and may name the zones the tools are kept to; the options the   *)
(* MCP server was started with narrow both, for every server alike.        *)
(***************************************************************************)
EXTENDS VendorService, TLC

CONSTANTS Domains, \* zones and names
          Within   \* the domains each domain lies in, itself among them

ASSUME DomainAssumption ==
  /\ Within \in [Domains -> SUBSET Domains]
  /\ \A d \in Domains : d \in Within[d]
  /\ \A d, e \in Domains : e \in Within[d] => Within[e] \subseteq Within[d]

PolicyRule == {"read", "write", "delete"}

\* An empty set of zones is no restriction.
Policy == [allowed : SUBSET PolicyRule, allowed_zones : SUBSET Domains]

check(policy, rule) == rule \in policy.allowed

check_zone(policy, d) ==
  policy.allowed_zones # {} => policy.allowed_zones \cap Within[d] # {}

-----------------------------------------------------------------------------
(* The effective policy of a server *)

\* The rules granted by both, or the configured ones without options.
Allowed(conf, cli) ==
  IF cli.allowed = {} THEN conf.allowed ELSE cli.allowed \cap conf.allowed

\* A slip the checks must catch: the zones of the options are trusted.
ResolvesAll(conf, cli) == TRUE

\* Zones given as options must lie in the configured ones: else no tool can
\* use the server at all.
Resolvable(conf, cli) ==
  \A z \in cli.allowed_zones : check_zone(conf, z)

AllowedZones(conf, cli) ==
  IF cli.allowed_zones = {} THEN conf.allowed_zones ELSE cli.allowed_zones

for_server(conf, cli) ==
  [allowed |-> Allowed(conf, cli), allowed_zones |-> AllowedZones(conf, cli)]

-----------------------------------------------------------------------------
(* What each tool checks *)

\* The rule each tool demands.
ZoneTools ==
  [list_zones |-> "read", create_zone |-> "write", delete_zone |-> "delete",
   enable_zone |-> "write", disable_zone |-> "write",
   import_zone_file |-> "write", export_zone_file |-> "read",
   get_zone_options |-> "read", set_zone_options |-> "write"]

RecordTools ==
  [list_records |-> "read", add_record |-> "write", delete_record |-> "delete"]

CacheTools ==
  [list_cache |-> "read", delete_cache_zone |-> "delete", flush_cache |-> "write"]

AccessListTools ==
  [list_blocked |-> "read", add_blocked |-> "write", delete_blocked |-> "delete",
   list_allowed |-> "read", add_allowed |-> "write", delete_allowed |-> "delete"]

SettingsTools == [get_settings |-> "read", set_settings |-> "write"]
ObserveTools  == [get_stats |-> "read", get_logs |-> "read"]

RuleOf(op) ==
  (ZoneTools @@ RecordTools @@ CacheTools @@ AccessListTools
     @@ SettingsTools @@ ObserveTools)[op]

\* The tools that name a zone: all of the zone and record tools but the
\* list of zones.  Caches, access lists, settings, statistics and logs
\* belong to the server as a whole.
ZoneBound == (DOMAIN ZoneTools \ {"list_zones"}) \cup DOMAIN RecordTools

\* Named are the zones or names the tool is asked about, at most one.
Permits(policy, op, named) ==
  /\ check(policy, RuleOf(op))
  /\ \A d \in named : check_zone(policy, d)

\* A transfer reads at one server and writes at the other.
PermitsTransfer(from, to, zone) ==
  /\ Permits(from, "export_zone_file", {zone})
  /\ Permits(to, "import_zone_file", {zone})
=============================================================================
