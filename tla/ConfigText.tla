---------------------------- MODULE ConfigText ----------------------------
(***************************************************************************)
(* What a configuration file says and when it is accepted: the schema as   *)
(* it is written (server tables, cluster and job references), the         *)
(* settings a server table resolves to, the validation of a loaded file,   *)
(* and the edits of `dns config`, each a function from text to text.       *)
(*                                                                         *)
(* Names are compared without case: Key maps the spellings of an id to     *)
(* one key.  An address, URL or timeout is kept only as far as validation  *)
(* tells it apart: an endpoint is off, on with an address, or bare (on     *)
(* without one).                                                           *)
(***************************************************************************)
EXTENDS Naturals, Sequences

CONSTANTS Ids,      \* server ids as people spell them
          Key,      \* the id in lower case
          Blank     \* an id of spaces only, which Ids may hold

ASSUME ConfigTextAssumption == Ids # {} /\ DOMAIN Key = Ids

Rules      == {"read", "write", "delete"}
Transports == {"dns", "doh"}
Endpoints  == {"off", "on", "bare"}
Unset      == "unset"

\* Nested [servers.mcp] table: absent, or with its two optional fields.
NoMcp == [here |-> FALSE, access |-> {Unset}, show |-> Unset]
McpTables ==
  {NoMcp} \cup [here : {TRUE}, access : (SUBSET Rules) \cup {{Unset}},
                show : {Unset, "yes", "no"}]

Tables ==
  [id : Ids, vendor : {"technitium", "cloudflare", Unset},
   base : {Unset, "env", "localhost", "remote"},
   flat : (SUBSET Rules) \cup {{Unset}}, readonly : BOOLEAN, mcp : McpTables,
   cluster : {Unset, "known", "unknown"},
   dns : Endpoints \cup {Unset}, doh : Endpoints \cup {Unset}]

\* A job copies between two servers, a cluster is a job without direction:
\* both name servers that have to be there.
References == [kind : {"cluster", "job"}, from : Ids, to : Ids]

Texts == [servers : Seq(Tables), inline : BOOLEAN, refs : SUBSET References]

Vendor(t)    == IF t.vendor = Unset THEN "technitium" ELSE t.vendor
DefaultUrl(vendor) == IF vendor = "technitium" THEN "localhost" ELSE "remote"

\* The permissions: the nested set, cut down by the flat shorthand, which
\* wins over the deprecated read-only flag.
Access(t) ==
  LET nested == IF t.mcp.access = {Unset} THEN Rules ELSE t.mcp.access
  IN  CASE t.flat # {Unset} -> t.flat \cap nested
        [] t.flat = {Unset} /\ t.readonly -> {"read"} \cap nested
        [] OTHER -> nested

\* A Cloudflare server answers on Cloudflare's resolvers unless its base URL
\* is a local one.
Transport(t, transport) ==
  IF t[transport] = Unset /\ Vendor(t) = "cloudflare" /\ t.base # "localhost"
  THEN "on" ELSE t[transport]

\* What the program works with once the table is read.
Resolved(t) ==
  [key |-> Key[t.id], vendor |-> Vendor(t),
   url |-> IF t.base = Unset THEN DefaultUrl(Vendor(t)) ELSE t.base,
   access |-> Access(t), show |-> t.mcp.show = "yes", cluster |-> t.cluster,
   dns |-> Transport(t, "dns"), doh |-> Transport(t, "doh")]

Keys(servers) == {Key[servers[n].id] : n \in DOMAIN servers}

ValidServers(servers) ==
  \A n \in DOMAIN servers :
    /\ servers[n].id # Blank
    /\ \A m \in DOMAIN servers : Key[servers[m].id] = Key[servers[n].id] => m = n
    /\ servers[n].cluster # "unknown"
    /\ Transport(servers[n], "dns") # "bare"
    /\ Transport(servers[n], "doh") # "bare"

ValidReference(ref, servers) ==
  /\ {Key[ref.from], Key[ref.to]} \subseteq Keys(servers)
  /\ ref.kind = "job" => Key[ref.from] # Key[ref.to]

Valid(text) ==
  /\ ValidServers(text.servers)
  /\ \A ref \in text.refs : ValidReference(ref, text.servers)

\* The parsed content of a file: its servers, whether they stand in
\* [[servers]] tables or in an inline array, and what refers to them.
\* An empty file is a configuration without servers.
EmptyText == [servers |-> << >>, inline |-> FALSE, refs |-> {}]

\* Where the server with an id stands, the first one if there are several.
At(servers, id) ==
  CHOOSE n \in DOMAIN servers :
    /\ Key[servers[n].id] = Key[id]
    /\ \A m \in DOMAIN servers : Key[servers[m].id] = Key[id] => n <= m

-----------------------------------------------------------------------------
(* The edits *)

\* How a server is rendered: vendor and permissions are always spelled out.
Rendered(t) ==
  [t EXCEPT !.vendor = Vendor(t), !.flat = Access(t), !.mcp = NoMcp,
            !.readonly = FALSE]

\* A new table joins [[servers]]; an inline array is left as it is.
Appended(text, t) ==
  IF text.inline THEN text
  ELSE [text EXCEPT !.servers = Append(@, Rendered(t))]

\* Slip: the loaded permissions are not asked, all of them are the default.
FilledWithAll(t, r) ==
  [t EXCEPT !.flat = IF @ = {Unset} /\ ~t.mcp.here THEN Rules ELSE @]

\* Slip: a flag is spelled in a way the schema does not know.
FilledMisspelled(t, r) ==
  [t EXCEPT !.mcp = IF ~t.mcp.here \/ r.show THEN @ ELSE [@ EXCEPT !.show = "off"]]

\* A table with what it leaves out written down, from the settings r that
\* were loaded; nothing that is there is touched.
Filled(t, r) ==
  [t EXCEPT
     !.vendor = IF @ = Unset THEN r.vendor ELSE @,
     !.base = IF @ = Unset THEN DefaultUrl(r.vendor) ELSE @,
     !.flat = IF @ = {Unset} /\ ~t.mcp.here THEN r.access ELSE @,
     !.mcp = IF ~t.mcp.here THEN @
             ELSE [@ EXCEPT
                     !.access = IF t.mcp.access = {Unset} THEN r.access ELSE t.mcp.access,
                     !.show = IF t.mcp.show # Unset THEN t.mcp.show
                              ELSE IF r.show THEN "yes" ELSE "no"],
     !.dns = IF @ = Unset THEN r.dns ELSE @,
     !.doh = IF @ = Unset THEN r.doh ELSE @]

\* Every table the loaded configuration knows is filled in, the others stay.
FilledIn(text, loaded) ==
  [text EXCEPT !.servers =
    [n \in DOMAIN text.servers |->
       LET t == text.servers[n]
       IN  IF Key[t.id] \in Keys(loaded.servers)
           THEN Filled(t, Resolved(loaded.servers[At(loaded.servers, t.id)]))
           ELSE t]]

\* What is left of an endpoint once flags are merged onto it: --clear removes
\* it, --disable turns it off, an address is kept unless a new one is given.
Merged(old, flag) ==
  CASE flag = "clear" -> Unset
    [] flag = "disable" -> "off"
    [] flag = "address" -> IF old = "off" THEN "off" ELSE "on"
    [] flag = "none" -> IF old = Unset THEN "bare" ELSE old

WithEndpoint(text, id, transport, endpoint) ==
  [text EXCEPT !.servers[At(text.servers, id)][transport] = endpoint]
=============================================================================
