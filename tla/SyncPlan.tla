------------------------------ MODULE SyncPlan ------------------------------
(***************************************************************************)
(* Planning of one record sync (control_plane/sync/plan.rs): what a        *)
(* listing contributes to the plan, how source and destination records are *)
(* compared, and which records the plan adds and deletes.                  *)
(*                                                                         *)
(* A name is a record-set identity: the lower-cased FQDN together with the *)
(* record type, the key under which diff_records groups.  A value is a     *)
(* record's canonical data.  A listed record is what a server's listing    *)
(* reports; a planned record also carries the value it was listed with, so *)
(* two source records that the IP map makes equal stay two records, as     *)
(* they do in the code's vectors.                                          *)
(***************************************************************************)
EXTENDS Naturals, FiniteSets

CONSTANTS Names,      \* record-set identities (FQDN and type)
          Values,     \* canonical record values
          Ttls,       \* the TTLs a server can report, 0 for "not reported"
          Zones,      \* the zones a job syncs
          ZoneOf,     \* the zone each name lies in
          Unwritable, \* names whose records are not synced: SOA, DNSSEC,
                      \* unknown types, and the NS set of a zone apex
          IpMap,      \* the value each source value is rewritten to
          DefaultTtl  \* stands in for a TTL of 0

ASSUME PlanAssumption ==
  /\ Zones # {}
  /\ ZoneOf \in [Names -> Zones]
  /\ Unwritable \subseteq Names
  /\ IpMap \in [Values -> Values]
  /\ Ttls \subseteq Nat
  /\ DefaultTtl \in Ttls \ {0}

Listed  == [name : Names, value : Values, ttl : Ttls, disabled : BOOLEAN]
Planned == [name : Names, value : Values, ttl : Ttls, orig : Values]

\* A slip the checks must catch: the TTL is part of a record's identity.
KeyWithTtl(r) == [name |-> r.name, value |-> r.value, ttl |-> r.ttl]

\* The identity the ledger and the destination's deletes use: no TTL.
Key       == [name : Names, value : Values]
KeyOf(r)  == [name |-> r.name, value |-> r.value]
KeysOf(S) == {KeyOf(r) : r \in S}
InZone(S, z) == {r \in S : ZoneOf[r.name] = z}

-----------------------------------------------------------------------------
(* Collecting *)

Syncable(r) == ~r.disabled /\ r.name \notin Unwritable

NoMap == [v \in Values |-> v]

Collected(r, map) ==
  [name  |-> r.name,
   value |-> map[r.value],
   ttl   |-> IF r.ttl = 0 THEN DefaultTtl ELSE r.ttl,
   orig  |-> r.value]

CollectRecords(listing, map) ==
  {Collected(r, map) : r \in {l \in listing : Syncable(l)}}

-----------------------------------------------------------------------------
(* Comparing *)

MatchKey(r) == <<r.value, r.ttl>>

Group(S, n) == {r \in S : r.name = n}

Matched(r, S) == \E s \in Group(S, r.name) : MatchKey(s) = MatchKey(r)

MissingAdds(src, dst) == {r \in src : Group(dst, r.name) = {}}

\* A slip the checks must catch: a record set that shares one record with the
\* destination counts as unchanged.
UpdateAddsOfSets(src, dst) ==
  {r \in src : /\ Group(dst, r.name) # {}
               /\ \A s \in Group(src, r.name) : ~Matched(s, dst)}

UpdateAdds(src, dst) ==
  {r \in src : Group(dst, r.name) # {} /\ ~Matched(r, dst)}

UpdateDeletes(src, dst) ==
  {d \in dst : Group(src, d.name) # {} /\ ~Matched(d, src)}

DestinationOnly(src, dst) == {d \in dst : Group(src, d.name) = {}}

-----------------------------------------------------------------------------
(* The plan of one zone *)

SyncDiffOptions ==
  [create_missing : BOOLEAN, overwrite_existing : BOOLEAN,
   delete_destination_only : BOOLEAN, ignore : SUBSET Names]

NotIgnored(S, opts) == {r \in S : r.name \notin opts.ignore}

PlanAdds(src, dst, opts) ==
  (IF opts.create_missing THEN MissingAdds(src, dst) ELSE {})
    \cup (IF opts.overwrite_existing THEN UpdateAdds(src, dst) ELSE {})

PlanDeletes(src, dst, opts) ==
  (IF opts.overwrite_existing THEN UpdateDeletes(src, dst) ELSE {})
    \cup (IF opts.delete_destination_only
            THEN NotIgnored(DestinationOnly(src, dst), opts) ELSE {})
=============================================================================
