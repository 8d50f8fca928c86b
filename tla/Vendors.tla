------------------------------ MODULE Vendors ------------------------------
(***************************************************************************)
(* The five clients behind one interface (vendors/runtime.rs): every call  *)
(* goes to the client of the server's vendor.                              *)
(***************************************************************************)
EXTENDS VendorService, RecordData, Naturals

T == INSTANCE Technitium
C == INSTANCE Cloudflare
U == INSTANCE Unifi
P == INSTANCE Pihole
G == INSTANCE Pangolin

\* The methods a vendor's client declares.
Declared(v) ==
  UNION {VendorCapabilities[f] : f \in
    CASE v = "technitium" -> T!capabilities
      [] v = "cloudflare" -> C!capabilities
      [] v = "unifi"      -> U!capabilities
      [] v = "pihole"     -> P!capabilities
      [] v = "pangolin"   -> G!capabilities}

Requests(v, a) ==
  CASE v = "technitium" -> T!Requests(a)
    [] v = "cloudflare" -> C!Requests(a)
    [] v = "unifi"      -> U!Requests(a)
    [] v = "pihole"     -> P!Requests(a)
    [] v = "pangolin"   -> G!Requests(a)

\* Settings and zone options are refused before they reach a client when
\* they are no JSON object; a client may refuse more.
RefusesPayload(a) ==
  a.op \in SettingsWrite \cup ZoneOptionsWrite /\ a.payload = "other"

Refuses(v, a) ==
  \/ RefusesPayload(a)
  \/ v = "technitium" /\ T!Refuses(a)
  \/ v = "pihole" /\ P!Refuses(a)

\* Whether an answer to a request is taken for success.
Reads(v, op, request, ans) ==
  CASE v = "technitium" -> T!Reads(op, request, ans)
    [] v = "cloudflare" -> C!Reads(op, request, ans)
    [] v = "unifi"      -> U!parse_json_response(ans)
    [] v = "pihole"     -> P!parse_response(ans)
    [] v = "pangolin"   -> G!parse_response(ans)

\* Whether a record of a name, in a zone and the domains it lies in, is in
\* the answer to a listing.
Lists(v, at, name, zone, within) ==
  CASE v = "technitium" -> T!Lists(at, name, zone)
    [] v = "cloudflare" -> C!Lists(at, zone)
    [] v = "unifi"      -> U!Lists(at, within)
    [] v = "pihole"     -> P!Lists(at, name, within)
    [] v = "pangolin"   -> G!Lists(at, name, zone)

\* How a server says no, and how it says that a change was made.
Refusals(v) ==
  CASE v = "technitium" -> T!Refusals
    [] v = "cloudflare" -> C!Refusals
    [] v = "unifi"      -> U!Refusals
    [] v = "pihole"     -> P!Refusals
    [] v = "pangolin"   -> G!Refusals

Grants(v, op) ==
  CASE v = "technitium" -> T!Grants(op)
    [] v = "cloudflare" -> C!Grants(op)
    [] v = "unifi"      -> U!Grants(op)
    [] v = "pihole"     -> P!Grants(op)

\* What a vendor's next listing says of a record it was given.
Kept(v, d) ==
  CASE v = "technitium" -> T!Kept(d)
    [] v = "cloudflare" -> C!Kept(d)
    [] v = "unifi"      -> U!Kept(d)
    [] v = "pihole"     -> P!Kept(d)
    [] v = "pangolin"   -> G!Kept(d)

\* Whether a record of the right name is one a delete may take.
Picks(v, d, sel) ==
  CASE v = "technitium" -> T!Picks(d, sel)
    [] v = "cloudflare" -> C!Picks(d, sel)
    [] v = "unifi"      -> U!policy_matches_delete_params(d, sel)
    [] v = "pihole"     -> P!Picks(d, sel)
    [] v = "pangolin"   -> FALSE

\* Cloudflare and UniFi store every record under an id of its own, the
\* others hold a value of a record set once.
ById(v) == v \in {"cloudflare", "unifi"}

\* UniFi and Pi-hole have no zones to look up, create or lose.
Zoned(v) == v \in {"technitium", "cloudflare", "pangolin"}
=============================================================================
