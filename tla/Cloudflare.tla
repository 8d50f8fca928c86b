----------------------------- MODULE Cloudflare -----------------------------
(***************************************************************************)
(* The Cloudflare client (vendors/cloudflare): a zone is named by an id,   *)
(* which every call looks up first; a delete looks for the record and then *)
(* deletes it by its id.  A record travels as a body of Cloudflare's own   *)
(* fields, enumerated parameters as numbers.                               *)
(***************************************************************************)
EXTENDS VendorService, RecordData, Naturals

capabilities == {"zones", "records", "settings", "zone_import", "zone_export"}

ZoneReads  == [list_zones |-> <<"act">>, list_records |-> <<"zone", "act">>]

ZoneWrites == [create_zone |-> <<"act">>,     delete_zone  |-> <<"zone", "act">>,
               enable_zone |-> Unsupported,   disable_zone |-> Unsupported]

RecordWrites == [add_record    |-> <<"zone", "act">>,
                 delete_record |-> <<"zone", "find", "act">>]

ZoneImports   == [import_zone_file |-> <<"zone", "act">>]
ZoneExports   == [export_zone_file |-> <<"zone", "act">>]
SettingsReads == [get_settings |-> <<"act">>]

\* Caches, statistics, access lists, settings and options changes, logs.
Unoffered == CacheRead \cup CacheWrite \cup StatsRead \cup AccessListRead
               \cup AccessListWrite
UnofferedSettings == SettingsWrite \cup ZoneOptionsRead \cup ZoneOptionsWrite
                       \cup LogsRead

Requests(a) ==
  CASE a.op \in ZoneRead     -> ZoneReads[a.op]
    [] a.op \in ZoneWrite    -> ZoneWrites[a.op]
    [] a.op \in RecordWrite  -> RecordWrites[a.op]
    [] a.op \in ZoneImport   -> ZoneImports[a.op]
    [] a.op \in ZoneExport   -> ZoneExports[a.op]
    [] a.op \in SettingsRead -> SettingsReads[a.op]
    [] a.op \in Unoffered \cup UnofferedSettings -> Unsupported

\* The mark in the body decides, for a file the HTTP status.
parse_response(ans)      == ans.body = "ok"
parse_text_response(ans) == ans.http = "2xx"

Reads(op, request, ans) ==
  IF op \in ZoneExport /\ request = "act" THEN parse_text_response(ans)
  ELSE parse_response(ans)

Refusals   == {Ans("4xx", "refused"), Ans("4xx", "text")}
Grants(op) == {Ans("2xx", "ok")}

-----------------------------------------------------------------------------
(* Records on the wire *)

\* Where the body carries each parameter.
FieldOf ==
  [A     |-> [ipAddress |-> "content"],
   AAAA  |-> [ipAddress |-> "content"],
   CNAME |-> [cname |-> "content"],
   MX    |-> [exchange |-> "content", preference |-> "priority"],
   TXT   |-> [text |-> "content"],
   NS    |-> [nameServer |-> "content"],
   PTR   |-> [ptrName |-> "content"],
   DNAME |-> [dname |-> "content"],
   SRV   |-> [priority |-> "priority", weight |-> "weight", port |-> "port",
              target |-> "target"],
   CAA   |-> [flags |-> "flags", tag |-> "tag", value |-> "value"],
   SSHFP |-> [sshfpAlgorithm |-> "algorithm", sshfpFingerprintType |-> "type",
              sshfpFingerprint |-> "fingerprint"],
   TLSA  |-> [tlsaCertificateUsage |-> "usage", tlsaSelector |-> "selector",
              tlsaMatchingType |-> "matching_type",
              tlsaCertificateAssociationData |-> "certificate"],
   DS    |-> [keyTag |-> "key_tag", algorithm |-> "algorithm",
              digestType |-> "digest_type", digest |-> "digest"],
   HTTPS |-> [svcPriority |-> "priority", svcTargetName |-> "target",
              svcParams |-> "value"],
   SVCB  |-> [svcPriority |-> "priority", svcTargetName |-> "target",
              svcParams |-> "value"],
   NAPTR |-> [naptrOrder |-> "order", naptrPreference |-> "preference",
              naptrFlags |-> "flags", naptrServices |-> "service",
              naptrRegexp |-> "regexp", naptrReplacement |-> "replacement"],
   URI   |-> [uriPriority |-> "priority", uriWeight |-> "weight",
              uri |-> "content"]]

sshfp_algorithm_to_num ==
  [RSA |-> 1, DSA |-> 2, ECDSA |-> 3, Ed25519 |-> 4, Ed448 |-> 6]

sshfp_fp_type_to_num == [SHA1 |-> 1, SHA256 |-> 2]

tlsa_cert_usage_to_num ==
  [n \in TlsaCertUsage |->
     CASE n = "PKIX-TA" -> 0 [] n = "PKIX-EE" -> 1
       [] n = "DANE-TA" -> 2 [] n = "DANE-EE" -> 3]

tlsa_selector_to_num == [Cert |-> 0, SPKI |-> 1]

tlsa_matching_type_to_num ==
  [n \in TlsaMatchingType |->
     CASE n = "Full" -> 0 [] n = "SHA2-256" -> 1 [] n = "SHA2-512" -> 2]

ds_algorithm_to_num ==
  [n \in DsAlgorithm |->
     CASE n = "RSAMD5" -> 1              [] n = "DSA" -> 3
       [] n = "RSASHA1" -> 5             [] n = "DSA-NSEC3-SHA1" -> 6
       [] n = "RSASHA1-NSEC3-SHA1" -> 7  [] n = "RSASHA256" -> 8
       [] n = "RSASHA512" -> 10          [] n = "ECC-GOST" -> 12
       [] n = "ECDSAP256SHA256" -> 13    [] n = "ECDSAP384SHA384" -> 14
       [] n = "ED25519" -> 15            [] n = "ED448" -> 16]

ds_digest_type_to_num ==
  [n \in DigestType |->
     CASE n = "SHA1" -> 1            [] n = "SHA256" -> 2
       [] n = "GOST-R-34-11-94" -> 3 [] n = "SHA384" -> 4]

\* The tables of numbers, one per enumerated parameter.
NumberOf ==
  [sshfpAlgorithm |-> sshfp_algorithm_to_num,
   sshfpFingerprintType |-> sshfp_fp_type_to_num,
   tlsaCertificateUsage |-> tlsa_cert_usage_to_num,
   tlsaSelector |-> tlsa_selector_to_num,
   tlsaMatchingType |-> tlsa_matching_type_to_num,
   algorithm |-> ds_algorithm_to_num, digestType |-> ds_digest_type_to_num]

\* A slip the checks must catch: the numbers are counted on by one.
EncodeFromOne(k, v) == IF k \in DOMAIN NumberOf THEN NumberOf[k][v] + 1 ELSE v

Encode(k, v) == IF k \in DOMAIN NumberOf THEN NumberOf[k][v] ELSE v

\* The first parameter of the types that have no body of their own.
FirstParam == [APL |-> "addressPrefixes", ANAME |-> "aname", APP |-> "appName",
               FWD |-> "forwarder", UNKNOWN |-> "rdata"]

\* The body: one field per parameter the type has a place for (the others
\* are dropped), and for any other type its first parameter as the content.
record_data_to_cloudflare_body(d) ==
  IF d.type \in DOMAIN FieldOf
  THEN LET place == FieldOf[d.type]
           sent  == DOMAIN place \cap DOMAIN d.value
       IN  [f \in {place[k] : k \in sent} |->
              LET k == CHOOSE p \in sent : place[p] = f IN Encode(k, d.value[k])]
  ELSE [content |-> d.value[FirstParam[d.type]]]

\* The tables that lead back, each with the name it gives a number it does
\* not know.
sshfp_algorithm_to_str(n) ==
  CASE n = 1 -> "RSA" [] n = 2 -> "DSA" [] n = 3 -> "ECDSA" [] n = 4 -> "Ed25519"
    [] n = 6 -> "Ed448" [] OTHER -> "RSA"

sshfp_fp_type_to_str(n) == CASE n = 1 -> "SHA1" [] n = 2 -> "SHA256" [] OTHER -> "SHA256"

tlsa_cert_usage_to_str(n) ==
  CASE n = 0 -> "PKIX-TA" [] n = 1 -> "PKIX-EE" [] n = 2 -> "DANE-TA"
    [] n = 3 -> "DANE-EE" [] OTHER -> "DANE-EE"

tlsa_selector_to_str(n) == CASE n = 0 -> "Cert" [] n = 1 -> "SPKI" [] OTHER -> "Cert"

tlsa_matching_type_to_str(n) ==
  CASE n = 0 -> "Full" [] n = 1 -> "SHA2-256" [] n = 2 -> "SHA2-512" [] OTHER -> "Full"

ds_algorithm_to_str(n) ==
  CASE n = 1 -> "RSAMD5"            [] n = 3 -> "DSA"
    [] n = 5 -> "RSASHA1"           [] n = 6 -> "DSA-NSEC3-SHA1"
    [] n = 7 -> "RSASHA1-NSEC3-SHA1" [] n = 8 -> "RSASHA256"
    [] n = 10 -> "RSASHA512"        [] n = 12 -> "ECC-GOST"
    [] n = 13 -> "ECDSAP256SHA256"  [] n = 14 -> "ECDSAP384SHA384"
    [] n = 15 -> "ED25519"          [] n = 16 -> "ED448"
    [] OTHER -> "RSASHA256"

ds_digest_type_to_str(n) ==
  CASE n = 1 -> "SHA1" [] n = 2 -> "SHA256" [] n = 3 -> "GOST-R-34-11-94"
    [] n = 4 -> "SHA384" [] OTHER -> "SHA256"

Decode(k, w) ==
  CASE k = "sshfpAlgorithm"       -> sshfp_algorithm_to_str(w)
    [] k = "sshfpFingerprintType" -> sshfp_fp_type_to_str(w)
    [] k = "tlsaCertificateUsage" -> tlsa_cert_usage_to_str(w)
    [] k = "tlsaSelector"         -> tlsa_selector_to_str(w)
    [] k = "tlsaMatchingType"     -> tlsa_matching_type_to_str(w)
    [] k = "algorithm"            -> ds_algorithm_to_str(w)
    [] k = "digestType"           -> ds_digest_type_to_str(w)
    [] OTHER                      -> w

\* The field each parameter is read from.
ReadFrom ==
  [A     |-> [ipAddress |-> "content"],    AAAA  |-> [ipAddress |-> "content"],
   CNAME |-> [cname |-> "content"],        DNAME |-> [dname |-> "content"],
   MX    |-> [preference |-> "priority", exchange |-> "content"],
   TXT   |-> [text |-> "content"],
   NS    |-> [nameServer |-> "content"],   PTR   |-> [ptrName |-> "content"],
   SRV   |-> [priority |-> "priority", weight |-> "weight", port |-> "port",
              target |-> "target"],
   CAA   |-> [flags |-> "flags", tag |-> "tag", value |-> "value"],
   SSHFP |-> [sshfpAlgorithm |-> "algorithm", sshfpFingerprintType |-> "type",
              sshfpFingerprint |-> "fingerprint"],
   TLSA  |-> [tlsaCertificateUsage |-> "usage", tlsaSelector |-> "selector",
              tlsaMatchingType |-> "matching_type",
              tlsaCertificateAssociationData |-> "certificate"],
   DS    |-> [keyTag |-> "key_tag", algorithm |-> "algorithm",
              digestType |-> "digest_type", digest |-> "digest"],
   HTTPS |-> [svcPriority |-> "priority", svcTargetName |-> "target",
              svcParams |-> "value"],
   SVCB  |-> [svcPriority |-> "priority", svcTargetName |-> "target",
              svcParams |-> "value"],
   NAPTR |-> [naptrOrder |-> "order", naptrPreference |-> "preference",
              naptrFlags |-> "flags", naptrServices |-> "service",
              naptrRegexp |-> "regexp", naptrReplacement |-> "replacement"],
   URI   |-> [uriPriority |-> "priority", uriWeight |-> "weight",
              uri |-> "content"]]

\* What a listing says of a parameter the body did not carry.
Assumed ==
  [TXT   |-> [splitText |-> "false"],
   HTTPS |-> [autoIpv4Hint |-> "false", autoIpv6Hint |-> "false"],
   SVCB  |-> [autoIpv4Hint |-> "false", autoIpv6Hint |-> "false"]]

AssumedFor(t) == IF t \in DOMAIN Assumed THEN Assumed[t] ELSE << >>

normalize_rdata(type, body) ==
  IF type \in DOMAIN ReadFrom
  THEN LET from == ReadFrom[type] IN
       Completed([k \in {p \in DOMAIN from : from[p] \in DOMAIN body} |->
                    Decode(k, body[from[k]])], AssumedFor(type))
  ELSE [value |-> body.content]

\* A record as the next listing reports it; one a zone file brought that does
\* not read as a typed record stays as it is.
Kept(d) ==
  IF Typed(d)
  THEN [type |-> d.type,
        value |-> normalize_rdata(d.type, record_data_to_cloudflare_body(d))]
  ELSE d

\* Always all of the zone, the one that has the domain's name if none is given.
Lists(at, zone) == IF at.zones # {} THEN zone \in at.zones ELSE zone = at.domain

-----------------------------------------------------------------------------
(* Finding the record to delete *)

\* The selector's parameter that is compared with the listed content.  The
\* parameter is "nameServer" for NS and "ptrName" for PTR, so the keys
\* looked up for these two are never there and nothing is compared.
ContentKey ==
  [A |-> "ipAddress", AAAA |-> "ipAddress", CNAME |-> "cname",
   NS |-> "nameserver", TXT |-> "text", PTR |-> "name", DNAME |-> "dname"]

expected_cloudflare_content(sel) ==
  IF sel.type \in DOMAIN ContentKey /\ ContentKey[sel.type] \in DOMAIN sel.value
  THEN {sel.value[ContentKey[sel.type]]} ELSE {}

\* A slip the checks must catch: the first record listed is taken.
PicksFirst(d, sel) == d.type = sel.type

\* Of the records listed for the name and the type, the one to delete is
\* any whose content is the expected one, or the first when none is.
Picks(d, sel) ==
  /\ d.type = sel.type
  /\ LET expected == expected_cloudflare_content(sel) IN
     expected # {} => record_data_to_cloudflare_body(d).content \in expected
=============================================================================
