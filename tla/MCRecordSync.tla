---------------------------- MODULE MCRecordSync ----------------------------
(* Small instances of RecordSync for TLC. *)
EXTENDS RecordSync

CONSTANTS www, mail, z1, z2, v1, v2, r1, jobA

MCNames == {www, mail}
MCValues == {v1, v2}
OneZone == [n \in MCNames |-> z1]
TwoZones == [n \in MCNames |-> IF n = www THEN z1 ELSE z2]
SameValue == [v \in MCValues |-> v]
V1ToV2 == [v \in MCValues |-> v2]

Rec(n, v, t) == [name |-> n, value |-> v, ttl |-> t, disabled |-> FALSE]
Disabled(n, v, t) == [name |-> n, value |-> v, ttl |-> t, disabled |-> TRUE]

Defaults ==
  [create_missing |-> TRUE, overwrite_existing |-> TRUE,
   delete_destination_only |-> FALSE, ignore |-> {}]

DaemonJob(prune, applies) ==
  [key |-> DaemonKey(jobA), teardownKey |-> DaemonKey(jobA), options |-> Defaults,
   prune |-> prune, teardown |-> {FALSE}, apply |-> applies]

\* One operator alternates syncs and teardowns from the command line.
CommandJob(teardownKey) ==
  [key |-> PairKey("cli", "cf", "home"), teardownKey |-> teardownKey,
   options |-> Defaults, prune |-> TRUE, teardown |-> BOOLEAN, apply |-> BOOLEAN]

OneCommandJob == [r \in {r1} |-> CommandJob(PairKey("cli", "cf", "home"))]
OneCommandKey == {PairKey("cli", "cf", "home")}

OneDaemonKey == {DaemonKey(jobA)}

OneJob == [r \in {r1} |-> DaemonJob(TRUE, BOOLEAN)]
OneApplyingJob == [r \in {r1} |-> DaemonJob(TRUE, {TRUE})]

WwwAndMail == {Rec(www, v1, 300), Rec(www, v2, 300), Rec(mail, v1, 300)}
WwwTtlsAndMail == {Rec(www, v1, 300), Rec(www, v1, 3600), Rec(mail, v1, 300)}
MailForeign == {Rec(mail, v1, 300), Rec(mail, v2, 300), Rec(www, v2, 300)}
TwoTtls == {Rec(www, v1, 300), Rec(www, v1, 60)}
WwwAndDisabledMail == {Rec(www, v1, 0), Rec(www, v2, 300), Disabled(mail, v1, 300)}
OnlyWww == {Rec(www, v1, 300)}
Nobody == {}
=============================================================================
