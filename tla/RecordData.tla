----------------------------- MODULE RecordData -----------------------------
(***************************************************************************)
(* Records as the program carries them (core/dns/records, core/dns/        *)
(* responses): the API parameters of each writable type, the ones a        *)
(* selector may name, and how a listed record is read back into a typed    *)
(* one.                                                                    *)
(*                                                                         *)
(* A record's data is [type, value], value a function from API parameter   *)
(* names to their values; a parameter the code holds as None is outside    *)
(* the function's domain.  What a listing reports has the same form with   *)
(* the keys the vendor's mapping gives it.                                 *)
(***************************************************************************)

\* What f says, and where it says nothing what g does.
Completed(f, g) ==
  [k \in DOMAIN f \cup DOMAIN g |-> IF k \in DOMAIN f THEN f[k] ELSE g[k]]

\* The parameters each type must have when it is read from JSON.
Required ==
  [A     |-> {"ipAddress"},      AAAA  |-> {"ipAddress"},
   APL   |-> {"addressPrefixes"}, ANAME |-> {"aname"},
   APP   |-> {"appName", "classPath", "recordData"},
   CAA   |-> {"flags", "tag", "value"},
   CNAME |-> {"cname"},          DNAME |-> {"dname"},
   DS    |-> {"keyTag", "algorithm", "digestType", "digest"},
   FWD   |-> {"forwarder", "protocol"},
   HTTPS |-> {"svcPriority", "svcTargetName"},
   MX    |-> {"exchange"},
   NAPTR |-> {"naptrOrder", "naptrPreference", "naptrFlags", "naptrServices",
              "naptrRegexp", "naptrReplacement"},
   NS    |-> {"nameServer"},     PTR   |-> {"ptrName"},
   SSHFP |-> {"sshfpAlgorithm", "sshfpFingerprintType", "sshfpFingerprint"},
   SRV   |-> {"target", "port", "priority", "weight"},
   SVCB  |-> {"svcPriority", "svcTargetName"},
   TLSA  |-> {"tlsaCertificateUsage", "tlsaSelector", "tlsaMatchingType",
              "tlsaCertificateAssociationData"},
   TXT   |-> {"text"},
   URI   |-> {"uri", "uriPriority", "uriWeight"},
   UNKNOWN |-> {"rdata"}]

\* The ones that have a value when the JSON leaves them out.
Defaulted ==
  [FWD   |-> [forwarderPriority |-> "10", dnssecValidation |-> "false"],
   HTTPS |-> [autoIpv4Hint |-> "false", autoIpv6Hint |-> "false"],
   MX    |-> [preference |-> "10"],
   SVCB  |-> [autoIpv4Hint |-> "false", autoIpv6Hint |-> "false"],
   TXT   |-> [splitText |-> "false"]]

\* The ones that may be absent altogether.
Optional == [HTTPS |-> {"svcParams"}, SVCB |-> {"svcParams"}, NS |-> {"glue"}]

Types     == DOMAIN Required
DefaultsOf(t) == IF t \in DOMAIN Defaulted THEN Defaulted[t] ELSE << >>
OptionalOf(t) == IF t \in DOMAIN Optional THEN Optional[t] ELSE {}
KeysOf(t) == Required[t] \cup DOMAIN DefaultsOf(t) \cup OptionalOf(t)

\* The names of the enumerated parameters, as the program writes them.
DsAlgorithm == {"RSAMD5", "DSA", "RSASHA1", "DSA-NSEC3-SHA1",
                "RSASHA1-NSEC3-SHA1", "RSASHA256", "RSASHA512", "ECC-GOST",
                "ECDSAP256SHA256", "ECDSAP384SHA384", "ED25519", "ED448"}
DigestType           == {"SHA1", "SHA256", "GOST-R-34-11-94", "SHA384"}
SshfpAlgorithm       == {"RSA", "DSA", "ECDSA", "Ed25519", "Ed448"}
SshfpFingerprintType == {"SHA1", "SHA256"}
TlsaCertUsage        == {"PKIX-TA", "PKIX-EE", "DANE-TA", "DANE-EE"}
TlsaSelector         == {"Cert", "SPKI"}
TlsaMatchingType     == {"Full", "SHA2-256", "SHA2-512"}
FwdProtocol          == {"Udp", "Tcp", "Tls", "Https", "Quic"}

\* The parameters that are one of those names.
EnumOf ==
  [algorithm |-> DsAlgorithm, digestType |-> DigestType,
   sshfpAlgorithm |-> SshfpAlgorithm,
   sshfpFingerprintType |-> SshfpFingerprintType,
   tlsaCertificateUsage |-> TlsaCertUsage, tlsaSelector |-> TlsaSelector,
   tlsaMatchingType |-> TlsaMatchingType, protocol |-> FwdProtocol]

\* A typed record: all its type must have, nothing else, and a known name
\* where it takes one.
IsRecordData(d) ==
  /\ d.type \in Types
  /\ Required[d.type] \cup DOMAIN DefaultsOf(d.type) \subseteq DOMAIN d.value
  /\ DOMAIN d.value \subseteq KeysOf(d.type)
  /\ \A k \in DOMAIN d.value \cap DOMAIN EnumOf : d.value[k] \in EnumOf[k]

-----------------------------------------------------------------------------
(* Naming a record to delete *)

\* What a selector of each type can carry; a planned delete carries the
\* record's own parameters instead.
SelectorKeys ==
  [A     |-> {"ipAddress"},      AAAA  |-> {"ipAddress"},
   APL   |-> {"addressPrefixes"}, ANAME |-> {"aname"},
   APP   |-> {"appName", "classPath"},
   CAA   |-> {"value"},          CNAME |-> {"cname"},
   DNAME |-> {"dname"},          DS    |-> {"keyTag"},
   FWD   |-> {"forwarder"},      HTTPS |-> {"svcTargetName"},
   MX    |-> {"exchange"},       NAPTR |-> {"naptrReplacement"},
   NS    |-> {"nameServer"},     PTR   |-> {"ptrName"},
   SSHFP |-> {"sshfpFingerprint"},
   SRV   |-> {"target", "port", "priority", "weight"},
   SVCB  |-> {"svcTargetName"},
   TLSA  |-> {"tlsaCertificateAssociationData"},
   TXT   |-> {"text"},           URI   |-> {"uri"},
   UNKNOWN |-> {"rdata"}]

\* The selector that names a record as closely as its type allows.
SelectorFor(d) ==
  [type  |-> d.type,
   value |-> [k \in SelectorKeys[d.type] \cap DOMAIN d.value |-> d.value[k]]]

\* Whether a record is one the selector names.
Agrees(d, sel) ==
  /\ d.type = sel.type
  /\ \A k \in DOMAIN sel.value : k \in DOMAIN d.value /\ d.value[k] = sel.value[k]

-----------------------------------------------------------------------------
(* Reading a listed record *)

\* Whether the listed data reads as a typed record: the type is a writable
\* one, no required parameter is missing, every enumerated one is known.
Typed(d) ==
  /\ d.type \in Types
  /\ Required[d.type] \subseteq DOMAIN d.value
  /\ \A k \in DOMAIN d.value \cap DOMAIN EnumOf : d.value[k] \in EnumOf[k]

parse_record_data(d) ==
  [type  |-> d.type,
   value |-> [k \in Required[d.type] \cup DOMAIN DefaultsOf(d.type)
                      \cup (OptionalOf(d.type) \cap DOMAIN d.value)
                |-> IF k \in DOMAIN d.value THEN d.value[k]
                    ELSE DefaultsOf(d.type)[k]]]
=============================================================================
