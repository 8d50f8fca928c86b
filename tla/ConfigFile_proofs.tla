-------------------------- MODULE ConfigFile_proofs --------------------------
(***************************************************************************)
(* What holds of the configuration file for every set of servers, commands *)
(* and processes: writing down the defaults of a server changes nothing it *)
(* resolves to, and `config update` keeps to that.                         *)
(***************************************************************************)
EXTENDS ConfigFile, SequenceTheorems, WellFoundedInduction, TLAPS

\* A set of natural numbers that is not empty has a least element: a first
\* place in the list exists.
LEMMA NatMin ==
  ASSUME NEW S \in SUBSET Nat, S # {}
  PROVE  \E m \in S : \A k \in S : m <= k
<1> DEFINE R == OpToRel(<, Nat)
<1>1. IsWellFoundedOn(R, Nat)
  BY NatLessThanWellFounded
<1>2. \A x, y \in Nat : <<x, y>> \in R <=> x < y
  BY DEF OpToRel
<1> HIDE DEF R
<1>3. PICK m \in S : \A k \in S : ~(<<k, m>> \in R)
  BY <1>1, WFMin
<1>4. ASSUME NEW k \in S PROVE m <= k
  <2>1. m \in Nat /\ k \in Nat
    OBVIOUS
  <2>2. ~(<<k, m>> \in R)
    BY <1>3
  <2>3. ~(k < m)
    BY <1>2, <2>1, <2>2
  <2> QED
    BY <2>1, <2>3
<1> QED
  BY <1>4

LEMMA TableFields ==
  ASSUME NEW t \in Tables
  PROVE  /\ t = [id |-> t.id, vendor |-> t.vendor, base |-> t.base, flat |-> t.flat,
                 readonly |-> t.readonly, mcp |-> t.mcp, cluster |-> t.cluster,
                 dns |-> t.dns, doh |-> t.doh]
         /\ t.vendor \in {"technitium", "cloudflare", Unset}
         /\ t.base \in {Unset, "env", "localhost", "remote"}
         /\ t.flat \in (SUBSET Rules) \cup {{Unset}}
         /\ t.mcp \in McpTables
         /\ t.dns \in Endpoints \cup {Unset} /\ t.doh \in Endpoints \cup {Unset}
  BY DEF Tables

LEMMA McpFields ==
  ASSUME NEW m \in McpTables
  PROVE  /\ m = [here |-> m.here, access |-> m.access, show |-> m.show]
         /\ m.here \in BOOLEAN
         /\ m.access \in (SUBSET Rules) \cup {{Unset}}
         /\ m.show \in {Unset, "yes", "no"}
         /\ ~m.here => m.access = {Unset} /\ m.show = Unset
<1>1. CASE m = NoMcp
  BY <1>1 DEF NoMcp
<1>2. CASE m \in [here : {TRUE}, access : (SUBSET Rules) \cup {{Unset}},
                  show : {Unset, "yes", "no"}]
  <2>1. /\ m = [here |-> m.here, access |-> m.access, show |-> m.show]
        /\ m.here = TRUE
        /\ m.access \in (SUBSET Rules) \cup {{Unset}}
        /\ m.show \in {Unset, "yes", "no"}
    BY <1>2
  <2> QED
    BY <2>1
<1> QED
  BY <1>1, <1>2 DEF McpTables

LEMMA AccessIsRules ==
  ASSUME NEW t \in Tables
  PROVE  Access(t) \subseteq Rules /\ Access(t) # {Unset}
<1>1. "read" \in Rules /\ Unset \notin Rules
  BY DEF Rules, Unset
<1>2. t.flat \in (SUBSET Rules) \cup {{Unset}} /\ t.mcp.access \in (SUBSET Rules) \cup {{Unset}}
  BY TableFields, McpFields
<1> DEFINE nested == IF t.mcp.access = {Unset} THEN Rules ELSE t.mcp.access
<1>3. nested \subseteq Rules
  BY <1>2
<1>4. Access(t) \subseteq nested
  <2>1. CASE t.flat # {Unset}
    BY <2>1 DEF Access
  <2>2. CASE t.flat = {Unset} /\ t.readonly
    BY <2>2 DEF Access
  <2>3. CASE t.flat = {Unset} /\ ~t.readonly
    BY <2>3 DEF Access
  <2> QED
    BY <2>1, <2>2, <2>3
<1> QED
  BY <1>1, <1>3, <1>4

\* What Filled writes into each field.
LEMMA FilledFields ==
  ASSUME NEW t \in Tables, NEW r
  PROVE  LET f == Filled(t, r)
         IN /\ f.id = t.id /\ f.readonly = t.readonly /\ f.cluster = t.cluster
            /\ f.vendor = (IF t.vendor = Unset THEN r.vendor ELSE t.vendor)
            /\ f.base = (IF t.base = Unset THEN DefaultUrl(r.vendor) ELSE t.base)
            /\ f.flat = (IF t.flat = {Unset} /\ ~t.mcp.here THEN r.access ELSE t.flat)
            /\ f.dns = (IF t.dns = Unset THEN r.dns ELSE t.dns)
            /\ f.doh = (IF t.doh = Unset THEN r.doh ELSE t.doh)
            /\ ~t.mcp.here => f.mcp = t.mcp
            /\ t.mcp.here =>
                 /\ f.mcp.access = (IF t.mcp.access = {Unset} THEN r.access ELSE t.mcp.access)
                 /\ f.mcp.show = (IF t.mcp.show # Unset THEN t.mcp.show
                                  ELSE IF r.show THEN "yes" ELSE "no")
<1>1. t = [id |-> t.id, vendor |-> t.vendor, base |-> t.base, flat |-> t.flat,
           readonly |-> t.readonly, mcp |-> t.mcp, cluster |-> t.cluster,
           dns |-> t.dns, doh |-> t.doh]
  BY TableFields
<1>2. t.mcp = [here |-> t.mcp.here, access |-> t.mcp.access, show |-> t.mcp.show]
  BY TableFields, McpFields
<1> QED
  BY <1>1, <1>2 DEF Filled

LEMMA SameFieldsSameMeaning ==
  ASSUME NEW t, NEW f,
         f.id = t.id, f.cluster = t.cluster, Vendor(f) = Vendor(t),
         (IF f.base = Unset THEN DefaultUrl(Vendor(f)) ELSE f.base)
         = (IF t.base = Unset THEN DefaultUrl(Vendor(t)) ELSE t.base),
         Access(f) = Access(t), (f.mcp.show = "yes") = (t.mcp.show = "yes"),
         Transport(f, "dns") = Transport(t, "dns"),
         Transport(f, "doh") = Transport(t, "doh")
  PROVE  Resolved(f) = Resolved(t)
  BY DEF Resolved

\* A table whose defaults were written down resolves to what it resolved to
\* before: `config update` spells out and never changes a setting.
THEOREM FillKeepsMeaning ==
  ASSUME NEW t \in Tables
  PROVE  Resolved(Filled(t, Resolved(t))) = Resolved(t)
<1> DEFINE r == Resolved(t)
           f == Filled(t, r)
<1>1. /\ r.vendor = Vendor(t) /\ r.access = Access(t)
      /\ r.show = (t.mcp.show = "yes")
      /\ r.dns = Transport(t, "dns") /\ r.doh = Transport(t, "doh")
  BY DEF Resolved
<1>2. /\ f.id = t.id /\ f.readonly = t.readonly /\ f.cluster = t.cluster
      /\ f.vendor = (IF t.vendor = Unset THEN r.vendor ELSE t.vendor)
      /\ f.base = (IF t.base = Unset THEN DefaultUrl(r.vendor) ELSE t.base)
      /\ f.flat = (IF t.flat = {Unset} /\ ~t.mcp.here THEN r.access ELSE t.flat)
      /\ f.dns = (IF t.dns = Unset THEN r.dns ELSE t.dns)
      /\ f.doh = (IF t.doh = Unset THEN r.doh ELSE t.doh)
      /\ ~t.mcp.here => f.mcp = t.mcp
      /\ t.mcp.here =>
           /\ f.mcp.access = (IF t.mcp.access = {Unset} THEN r.access ELSE t.mcp.access)
           /\ f.mcp.show = (IF t.mcp.show # Unset THEN t.mcp.show
                            ELSE IF r.show THEN "yes" ELSE "no")
  BY FilledFields
<1>3. Vendor(f) = Vendor(t) /\ f.vendor = Vendor(t)
  BY <1>1, <1>2 DEF Vendor, Unset
<1>4. (IF f.base = Unset THEN DefaultUrl(Vendor(f)) ELSE f.base)
      = (IF t.base = Unset THEN DefaultUrl(Vendor(t)) ELSE t.base)
  BY <1>1, <1>2, <1>3 DEF DefaultUrl, Unset
<1>5. Vendor(t) = "cloudflare" => (f.base = "localhost" <=> t.base = "localhost")
  BY <1>1, <1>2 DEF DefaultUrl, Unset
<1>6. Transport(f, "dns") = Transport(t, "dns")
  BY <1>1, <1>2, <1>3, <1>5 DEF Transport, Unset
<1>7. Transport(f, "doh") = Transport(t, "doh")
  BY <1>1, <1>2, <1>3, <1>5 DEF Transport, Unset
<1>8. (f.mcp.show = "yes") = (t.mcp.show = "yes")
  BY <1>1, <1>2 DEF Unset
<1>9. Access(f) = Access(t)
  <2>1. Access(t) \subseteq Rules /\ Access(t) # {Unset}
    BY AccessIsRules
  <2>2. CASE ~t.mcp.here
    <3>1. t.mcp.access = {Unset}
      BY <2>2, TableFields, McpFields
    <3>2. CASE t.flat = {Unset}
      BY <1>1, <1>2, <2>1, <2>2, <3>1, <3>2 DEF Access
    <3>3. CASE t.flat # {Unset}
      BY <1>2, <2>2, <3>3 DEF Access
    <3> QED
      BY <3>2, <3>3
  <2>3. CASE t.mcp.here /\ t.mcp.access # {Unset}
    BY <1>2, <2>3 DEF Access
  <2>4. CASE t.mcp.here /\ t.mcp.access = {Unset}
    <3>1. f.mcp.access = Access(t) /\ f.flat = t.flat /\ f.readonly = t.readonly
      BY <1>1, <1>2, <2>4
    <3>2. CASE t.flat # {Unset}
      BY <2>1, <2>4, <3>1, <3>2 DEF Access
    <3>3. CASE t.flat = {Unset} /\ t.readonly
      BY <2>1, <2>4, <3>1, <3>3 DEF Access
    <3>4. CASE t.flat = {Unset} /\ ~t.readonly
      BY <2>1, <2>4, <3>1, <3>4 DEF Access
    <3> QED
      BY <3>2, <3>3, <3>4
  <2> QED
    BY <2>2, <2>3, <2>4
<1> QED
  BY <1>2, <1>3, <1>4, <1>6, <1>7, <1>8, <1>9, SameFieldsSameMeaning

-----------------------------------------------------------------------------
(* Every edit of a configuration is a configuration *)

LEMMA ResolvedTypes ==
  ASSUME NEW t \in Tables
  PROVE  /\ Resolved(t).vendor \in {"technitium", "cloudflare"}
         /\ Resolved(t).access \in SUBSET Rules
         /\ Resolved(t).show \in BOOLEAN
         /\ Resolved(t).dns \in Endpoints \cup {Unset}
         /\ Resolved(t).doh \in Endpoints \cup {Unset}
<1>1. Vendor(t) \in {"technitium", "cloudflare"}
  BY TableFields DEF Vendor
<1>2. /\ Transport(t, "dns") \in Endpoints \cup {Unset}
      /\ Transport(t, "doh") \in Endpoints \cup {Unset}
  BY TableFields DEF Transport, Endpoints
<1>3. (t.mcp.show = "yes") \in BOOLEAN
  OBVIOUS
<1> QED
  BY <1>1, <1>2, <1>3, AccessIsRules DEF Resolved

LEMMA RenderedTable ==
  ASSUME NEW t \in Tables PROVE Rendered(t) \in Tables
<1>1. Vendor(t) \in {"technitium", "cloudflare"} /\ Access(t) \in SUBSET Rules
  BY ResolvedTypes DEF Resolved
<1>2. NoMcp \in McpTables
  BY DEF McpTables
<1> QED
  BY <1>1, <1>2 DEF Rendered, Tables

LEMMA McpExcept ==
  ASSUME NEW m \in McpTables, m.here, NEW a \in (SUBSET Rules) \cup {{Unset}},
         NEW show \in {Unset, "yes", "no"}
  PROVE  [m EXCEPT !.access = a, !.show = show] \in McpTables
<1>0. m # NoMcp
  BY DEF NoMcp
<1>1. m \in [here : {TRUE}, access : (SUBSET Rules) \cup {{Unset}},
             show : {Unset, "yes", "no"}]
  BY <1>0 DEF McpTables
<1> QED
  BY <1>1 DEF McpTables

LEMMA FilledTable ==
  ASSUME NEW t \in Tables, NEW u \in Tables PROVE Filled(t, Resolved(u)) \in Tables
<1> DEFINE r == Resolved(u)
           vendor == IF t.vendor = Unset THEN r.vendor ELSE t.vendor
           base == IF t.base = Unset THEN DefaultUrl(r.vendor) ELSE t.base
           flat == IF t.flat = {Unset} /\ ~t.mcp.here THEN r.access ELSE t.flat
           a == IF t.mcp.access = {Unset} THEN r.access ELSE t.mcp.access
           show == IF t.mcp.show # Unset THEN t.mcp.show
                   ELSE IF r.show THEN "yes" ELSE "no"
           mcp == IF ~t.mcp.here THEN t.mcp
                  ELSE [t.mcp EXCEPT !.access = a, !.show = show]
           dns == IF t.dns = Unset THEN r.dns ELSE t.dns
           doh == IF t.doh = Unset THEN r.doh ELSE t.doh
<1>1. /\ r.vendor \in {"technitium", "cloudflare"} /\ r.access \in SUBSET Rules
      /\ r.dns \in Endpoints \cup {Unset} /\ r.doh \in Endpoints \cup {Unset}
  BY ResolvedTypes
<1> HIDE DEF r
<1>2. vendor \in {"technitium", "cloudflare", Unset} /\ flat \in (SUBSET Rules) \cup {{Unset}}
  BY <1>1, TableFields
<1>3. base \in {Unset, "env", "localhost", "remote"}
  BY <1>1, TableFields DEF DefaultUrl
<1>4. mcp \in McpTables
  <2>1. CASE ~t.mcp.here
    BY <2>1, TableFields
  <2>2. CASE t.mcp.here
    <3>1. a \in (SUBSET Rules) \cup {{Unset}} /\ show \in {Unset, "yes", "no"}
      BY <1>1, TableFields, McpFields
    <3> HIDE DEF a, show
    <3> QED
      BY <2>2, <3>1, TableFields, McpExcept
  <2> QED
    BY <2>1, <2>2
<1>5. dns \in Endpoints \cup {Unset} /\ doh \in Endpoints \cup {Unset}
  BY <1>1, TableFields
<1> HIDE DEF vendor, base, flat, mcp, dns, doh
<1>6. [t EXCEPT !.vendor = vendor, !.base = base, !.flat = flat, !.mcp = mcp,
                !.dns = dns, !.doh = doh] \in Tables
  BY <1>2, <1>3, <1>4, <1>5 DEF Tables
<1> USE DEF vendor, base, flat, mcp, dns, doh
<1>7. Filled(t, r) \in Tables
  BY <1>6 DEF Filled
<1> QED
  BY <1>7 DEF r

\* The server with a known id stands somewhere in the list.
LEMMA AtInDomain ==
  ASSUME NEW servers \in Seq(Tables), NEW id, Key[id] \in Keys(servers)
  PROVE  /\ At(servers, id) \in DOMAIN servers
         /\ Key[servers[At(servers, id)].id] = Key[id]
<1> DEFINE S == {n \in DOMAIN servers : Key[servers[n].id] = Key[id]}
<1>1. S \in SUBSET Nat
  BY DOMAIN servers = 1..Len(servers), Len(servers) \in Nat
<1>2. S # {}
  BY DEF Keys
<1> HIDE DEF S
<1>3. PICK m \in S : \A k \in S : m <= k
  BY <1>1, <1>2, NatMin
<1>4. \E n \in DOMAIN servers :
        /\ Key[servers[n].id] = Key[id]
        /\ \A k \in DOMAIN servers : Key[servers[k].id] = Key[id] => n <= k
  BY <1>3 DEF S
<1> QED
  BY <1>4 DEF At

\* The first server with an id is the only one if ids are unique.
LEMMA AtOwnId ==
  ASSUME NEW servers \in Seq(Tables), ValidServers(servers), NEW n \in DOMAIN servers
  PROVE  At(servers, servers[n].id) = n
<1>1. Key[servers[n].id] \in Keys(servers)
  BY DEF Keys
<1>2. /\ At(servers, servers[n].id) \in DOMAIN servers
      /\ Key[servers[At(servers, servers[n].id)].id] = Key[servers[n].id]
  BY <1>1, AtInDomain
<1> QED
  BY <1>2 DEF ValidServers

LEMMA EmptyTextType == EmptyText \in Texts
  BY EmptySeq DEF EmptyText, Texts

LEMMA AppendedText ==
  ASSUME NEW text \in Texts, NEW t \in Tables PROVE Appended(text, t) \in Texts
<1>1. Rendered(t) \in Tables
  BY RenderedTable
<1>2. text.servers \in Seq(Tables)
  BY DEF Texts
<1>3. Append(text.servers, Rendered(t)) \in Seq(Tables)
  BY <1>1, <1>2, AppendProperties
<1> QED
  BY <1>3 DEF Appended, Texts

\* Filling in keeps the list of servers, table by table.
LEMMA FilledInText ==
  ASSUME NEW text \in Texts, NEW loaded \in Texts
  PROVE  /\ FilledIn(text, loaded) \in Texts
         /\ Len(FilledIn(text, loaded).servers) = Len(text.servers)
         /\ DOMAIN FilledIn(text, loaded).servers = DOMAIN text.servers
         /\ \A n \in DOMAIN text.servers :
              Key[text.servers[n].id] \in Keys(loaded.servers) =>
                FilledIn(text, loaded).servers[n] =
                  Filled(text.servers[n],
                         Resolved(loaded.servers[At(loaded.servers, text.servers[n].id)]))
<1> DEFINE new(t) == IF Key[t.id] \in Keys(loaded.servers)
                     THEN Filled(t, Resolved(loaded.servers[At(loaded.servers, t.id)]))
                     ELSE t
           servers == [n \in DOMAIN text.servers |-> new(text.servers[n])]
<1>1. text.servers \in Seq(Tables) /\ loaded.servers \in Seq(Tables)
  BY DEF Texts
<1>2. \A t \in Tables : new(t) \in Tables
  <2> TAKE t \in Tables
  <2>1. CASE Key[t.id] \in Keys(loaded.servers)
    <3>1. At(loaded.servers, t.id) \in DOMAIN loaded.servers
      BY <1>1, <2>1, AtInDomain
    <3>2. loaded.servers[At(loaded.servers, t.id)] \in Tables
      BY <1>1, <3>1, ElementOfSeq, LenProperties
    <3> QED
      BY <2>1, <3>2, FilledTable
  <2> QED
    BY <2>1
<1>3. FilledIn(text, loaded) = [text EXCEPT !.servers = servers]
  BY DEF FilledIn
<1>4. FilledIn(text, loaded).servers = servers
  BY <1>3 DEF Texts
<1> HIDE DEF new
<1>5. Len(text.servers) \in Nat /\ DOMAIN text.servers = 1..Len(text.servers)
  BY <1>1, LenProperties
<1>6. \A n \in 1..Len(text.servers) : text.servers[n] \in Tables
  BY <1>1, <1>5, ElementOfSeq
<1>7. servers \in [1..Len(text.servers) -> Tables]
  BY <1>2, <1>5, <1>6
<1>8. servers \in Seq(Tables)
  BY <1>5, <1>7
<1>9. DOMAIN servers = DOMAIN text.servers /\ Len(servers) = Len(text.servers)
  BY <1>5, <1>7, <1>8, LenProperties
<1>10. FilledIn(text, loaded) \in Texts
  <2> HIDE DEF servers
  <2> QED
    BY <1>3, <1>8 DEF Texts
<1>11. \A n \in DOMAIN text.servers : servers[n] = new(text.servers[n])
  OBVIOUS
<1> QED
  BY <1>4, <1>9, <1>10, <1>11 DEF new

LEMMA WithEndpointText ==
  ASSUME NEW text \in Texts, NEW id, Key[id] \in Keys(text.servers),
         NEW transport \in Transports, NEW endpoint \in Endpoints \cup {Unset}
  PROVE  WithEndpoint(text, id, transport, endpoint) \in Texts
<1> DEFINE n == At(text.servers, id)
           new == [text.servers[n] EXCEPT ![transport] = endpoint]
<1>1. text.servers \in Seq(Tables)
  BY DEF Texts
<1>2. n \in 1..Len(text.servers)
  BY <1>1, AtInDomain, LenProperties
<1>3. text.servers[n] \in Tables
  BY <1>1, <1>2, ElementOfSeq
<1> HIDE DEF n
<1>4. new \in Tables
  <2>1. CASE transport = "dns"
    BY <1>3, <2>1 DEF Tables
  <2>2. CASE transport = "doh"
    BY <1>3, <2>2 DEF Tables
  <2> QED
    BY <2>1, <2>2 DEF Transports
<1> HIDE DEF new
<1>5. [text.servers EXCEPT ![n] = new] \in Seq(Tables)
  BY <1>1, <1>2, <1>4, ExceptSeq
<1>6. [text EXCEPT !.servers = [text.servers EXCEPT ![n] = new]] \in Texts
  BY <1>5 DEF Texts
<1> QED
  BY <1>6 DEF WithEndpoint, n, new

-----------------------------------------------------------------------------
(* Type correctness *)

NoCommand == [op |-> "none"]

States == [pc : Steps, cmd : CommandLines \cup {NoCommand}, loaded : Texts,
           endpoint : Endpoints \cup {Unset}, doc : Texts]

\* Which commands come to which step.
PcFits(s) ==
  /\ s.pc \in {"exists", "create"} => s.cmd.op \in {"init", "run"}
  /\ s.pc = "merge" => s.cmd.op = "endpoint"
  /\ s.pc \in {"validate", "raw"} => s.cmd.op \in {"add", "update", "endpoint"}

Types ==
  /\ file \in Files
  /\ client \in [Clients -> States]
  /\ clean \in BOOLEAN
  /\ added \subseteq {Key[id] : id \in Ids}
  /\ budget \in [commands : 0..MaxCommands, edits : 0..MaxEdits, faults : 0..MaxFaults]

TypeInv == Types /\ \A c \in Clients : PcFits(client[c])

LEMMA CommandFields ==
  ASSUME NEW cmd \in CommandLines \cup {NoCommand}
  PROVE  /\ cmd.op \in {"none", "init", "run", "update", "add", "endpoint"}
         /\ cmd.op = "add" => cmd.server \in Tables
         /\ cmd.op = "endpoint" =>
              /\ cmd.id \in Ids /\ cmd.transport \in Transports
              /\ cmd.flag \in {"clear", "disable", "address", "none"}
<1>1. CASE cmd \in [op : {"init"}, force : BOOLEAN] \cup [op : {"run", "update"}]
  BY <1>1
<1>2. CASE cmd \in [op : {"add"}, server : Tables]
  BY <1>2
<1>3. CASE cmd \in [op : {"endpoint"}, id : Ids, transport : Transports,
                    flag : {"clear", "disable", "address", "none"}]
  BY <1>3
<1>4. CASE cmd = NoCommand
  BY <1>4 DEF NoCommand
<1> QED
  BY <1>1, <1>2, <1>3, <1>4 DEF CommandLines

LEMMA IdleState == Idle \in States /\ PcFits(Idle)
  BY EmptyTextType DEF Idle, States, Steps, NoCommand, PcFits

LEMMA BegunState ==
  ASSUME NEW cmd \in CommandLines
  PROVE  /\ [Idle EXCEPT !.pc = FirstStep(cmd), !.cmd = cmd] \in States
         /\ PcFits([Idle EXCEPT !.pc = FirstStep(cmd), !.cmd = cmd])
<1>1. cmd.op \in {"init", "run", "update", "add", "endpoint"}
  BY DEF CommandLines
<1>2. FirstStep(cmd) \in Steps
  BY <1>1 DEF FirstStep, Steps
<1>3. [Idle EXCEPT !.pc = FirstStep(cmd), !.cmd = cmd] \in States
  <2> DEFINE pc == FirstStep(cmd)
  <2>1. pc \in Steps
    BY <1>2
  <2> HIDE DEF pc
  <2>2. [Idle EXCEPT !.pc = pc, !.cmd = cmd] \in States
    BY <2>1, IdleState DEF States
  <2> QED
    BY <2>2 DEF pc
<1>4. PcFits([Idle EXCEPT !.pc = FirstStep(cmd), !.cmd = cmd])
  BY <1>1 DEF PcFits, FirstStep, Idle
<1> QED
  BY <1>3, <1>4

LEMMA SavedFile ==
  ASSUME NEW text \in Texts
  PROVE  /\ Saved(text) \in Files
         /\ Saved(text).exists = TRUE /\ Saved(text).ok = TRUE
         /\ Saved(text).private = TRUE /\ Saved(text).text = text
  BY EmptyTextType DEF Saved, Absent, Files

\* Nothing happens to the other commands.
Others(c) == \A d \in Clients \ {c} : client'[d] = client[d]

\* What a step of a command leaves of it: one lemma per form of assignment.
LEMMA MovedTo ==
  ASSUME client \in [Clients -> States], NEW c \in Clients, NEW pc \in Steps,
         client' = [client EXCEPT ![c].pc = pc]
  PROVE  /\ client' \in [Clients -> States] /\ Others(c)
         /\ client'[c].pc = pc
         /\ client'[c].cmd = client[c].cmd
         /\ client'[c].loaded = client[c].loaded
         /\ client'[c].endpoint = client[c].endpoint
         /\ client'[c].doc = client[c].doc
  BY client[c] \in States DEF States, Others

LEMMA MovedWithText ==
  ASSUME client \in [Clients -> States], NEW c \in Clients, NEW pc \in Steps, NEW doc \in Texts,
         client' = [client EXCEPT ![c].pc = pc, ![c].doc = doc]
  PROVE  /\ client' \in [Clients -> States] /\ Others(c)
         /\ client'[c].pc = pc
         /\ client'[c].cmd = client[c].cmd
         /\ client'[c].loaded = client[c].loaded
         /\ client'[c].endpoint = client[c].endpoint
         /\ client'[c].doc = doc
  BY client[c] \in States DEF States, Others

LEMMA MovedWithLoaded ==
  ASSUME client \in [Clients -> States], NEW c \in Clients, NEW pc \in Steps, NEW loaded \in Texts,
         client' = [client EXCEPT ![c].pc = pc, ![c].loaded = loaded]
  PROVE  /\ client' \in [Clients -> States] /\ Others(c)
         /\ client'[c].pc = pc
         /\ client'[c].cmd = client[c].cmd
         /\ client'[c].loaded = loaded
         /\ client'[c].endpoint = client[c].endpoint
         /\ client'[c].doc = client[c].doc
  BY client[c] \in States DEF States, Others

LEMMA MovedWithEndpoint ==
  ASSUME client \in [Clients -> States], NEW c \in Clients, NEW pc \in Steps, NEW endpoint \in Endpoints \cup {Unset},
         client' = [client EXCEPT ![c].pc = pc, ![c].endpoint = endpoint]
  PROVE  /\ client' \in [Clients -> States] /\ Others(c)
         /\ client'[c].pc = pc
         /\ client'[c].cmd = client[c].cmd
         /\ client'[c].loaded = client[c].loaded
         /\ client'[c].endpoint = endpoint
         /\ client'[c].doc = client[c].doc
  BY client[c] \in States DEF States, Others

LEMMA Replaced ==
  ASSUME client \in [Clients -> States], NEW c \in Clients, NEW s \in States,
         client' = [client EXCEPT ![c] = s]
  PROVE  client' \in [Clients -> States] /\ Others(c) /\ client'[c] = s
  BY DEF Others

LEMMA Returned ==
  ASSUME client \in [Clients -> States], NEW c \in Clients, Return(c)
  PROVE  client' \in [Clients -> States] /\ Others(c) /\ client'[c] = Idle
  BY IdleState, Replaced DEF Return

LEMMA InitTypes == Init => TypeInv
<1> SUFFICES ASSUME Init PROVE TypeInv
  OBVIOUS
<1>1. file \in Files
  BY ConfigFileAssumption DEF Init
<1>2. client \in [Clients -> States] /\ \A c \in Clients : PcFits(client[c])
  BY IdleState DEF Init
<1>3. budget \in [commands : 0..MaxCommands, edits : 0..MaxEdits, faults : 0..MaxFaults]
  BY ConfigFileAssumption DEF Init
<1> QED
  BY <1>1, <1>2, <1>3 DEF Init, TypeInv, Types

\* A step of one command that changes neither file, additions nor budget.
LEMMA OwnStep ==
  ASSUME TypeInv, NEW c \in Clients, client' \in [Clients -> States], Others(c),
         PcFits(client'[c]), clean' \in BOOLEAN, UNCHANGED <<file, added, budget>>
  PROVE  TypeInv'
  BY DEF TypeInv, Types, Others

LEMMA BeginTypes ==
  ASSUME TypeInv, NEW c \in Clients, NEW cmd \in Commands, Begin(c, cmd)
  PROVE  TypeInv'
<1> DEFINE s == [Idle EXCEPT !.pc = FirstStep(cmd), !.cmd = cmd]
<1>1. s \in States /\ PcFits(s)
  BY BegunState, ConfigFileAssumption
<1>2. client' = [client EXCEPT ![c] = s]
  BY DEF Begin
<1> HIDE DEF s
<1>3. client' \in [Clients -> States] /\ Others(c) /\ client'[c] = s
  BY <1>1, <1>2, Replaced DEF TypeInv, Types
<1>4. budget' \in [commands : 0..MaxCommands, edits : 0..MaxEdits, faults : 0..MaxFaults]
  BY ConfigFileAssumption DEF Begin, TypeInv, Types
<1>5. clean' \in BOOLEAN /\ UNCHANGED <<file, added>>
  BY DEF Begin, TypeInv, Types
<1> QED
  BY <1>1, <1>3, <1>4, <1>5 DEF TypeInv, Types, Others


LEMMA CheckExistsTypes ==
  ASSUME TypeInv, NEW c \in Clients, CheckExists(c) PROVE TypeInv'
<1> DEFINE pc == IF file.exists THEN "load" ELSE "create"
<1>1. pc \in Steps /\ pc # "merge" /\ pc \notin {"validate", "raw", "exists"}
  BY DEF Steps
<1>2. client' = [client EXCEPT ![c].pc = pc]
  BY DEF CheckExists, Goto
<1>3. client[c].pc = "exists"
  BY DEF CheckExists
<1> HIDE DEF pc
<1>4. /\ client' \in [Clients -> States] /\ Others(c)
      /\ client'[c].pc = pc /\ client'[c].cmd = client[c].cmd
  BY <1>1, <1>2, MovedTo DEF TypeInv, Types
<1>5. PcFits(client'[c])
  BY <1>1, <1>3, <1>4 DEF TypeInv, PcFits
<1> QED
  BY <1>4, <1>5, OwnStep DEF CheckExists, TypeInv, Types

\* A command that ends before it has written anything.
LEMMA ReturnTypes ==
  ASSUME TypeInv, NEW c \in Clients, Return(c), UNCHANGED <<file, clean, added, budget>>
  PROVE  TypeInv'
<1>1. client' \in [Clients -> States] /\ Others(c) /\ client'[c] = Idle
  BY Returned DEF TypeInv, Types
<1> QED
  BY <1>1, IdleState, OwnStep DEF TypeInv, Types

LEMMA CreateStarterTypes ==
  ASSUME TypeInv, NEW c \in Clients, CreateStarter(c) PROVE TypeInv'
<1>1. CASE Return(c)
  BY <1>1, ReturnTypes DEF CreateStarter
<1>2. CASE client' = [client EXCEPT ![c].pc = "open", ![c].doc = Appended(EmptyText, Starter)]
  <2> DEFINE doc == Appended(EmptyText, Starter)
  <2>1. doc \in Texts
    BY EmptyTextType, AppendedText, ConfigFileAssumption
  <2>2. client' = [client EXCEPT ![c].pc = "open", ![c].doc = doc]
    BY <1>2
  <2> HIDE DEF doc
  <2>3. "open" \in Steps
    BY DEF Steps
  <2>4. /\ client' \in [Clients -> States] /\ Others(c)
        /\ client'[c].pc = "open" /\ client'[c].cmd = client[c].cmd
    BY <2>1, <2>2, <2>3, MovedWithText DEF TypeInv, Types
  <2>5. PcFits(client'[c])
    BY <2>4 DEF PcFits
  <2> QED
    BY <2>4, <2>5, OwnStep DEF CreateStarter, TypeInv, Types
<1> QED
  BY <1>1, <1>2 DEF CreateStarter

LEMMA LoadTypes ==
  ASSUME TypeInv, NEW c \in Clients, Load(c) PROVE TypeInv'
  BY ReturnTypes DEF Load, Return

LEMMA MergeTypes ==
  ASSUME TypeInv, NEW c \in Clients, Merge(c) PROVE TypeInv'
<1> DEFINE cmd == client[c].cmd
           servers == file.text.servers
           endpoint == Merged(Resolved(servers[At(servers, cmd.id)])[cmd.transport], cmd.flag)
<1>1. CASE Return(c)
  BY <1>1, ReturnTypes DEF Merge
<1>2. CASE /\ Key[cmd.id] \in Keys(servers)
           /\ client' = [client EXCEPT ![c].pc = "validate", ![c].endpoint = endpoint]
  <2>1. client[c].pc = "merge" /\ cmd.op = "endpoint"
    BY DEF Merge, TypeInv, PcFits
  <2>2. cmd \in CommandLines \cup {NoCommand} /\ servers \in Seq(Tables)
    BY DEF TypeInv, Types, States, Files, Texts
  <2>3. cmd.transport \in Transports /\ cmd.flag \in {"clear", "disable", "address", "none"}
    BY <2>1, <2>2, CommandFields
  <2>4. servers[At(servers, cmd.id)] \in Tables
    <3>1. At(servers, cmd.id) \in 1..Len(servers)
      BY <1>2, <2>2, AtInDomain, LenProperties
    <3> QED
      BY <2>2, <3>1, ElementOfSeq
  <2>5. Resolved(servers[At(servers, cmd.id)])[cmd.transport] \in Endpoints \cup {Unset}
    BY <2>3, <2>4, ResolvedTypes DEF Transports
  <2>6. endpoint \in Endpoints \cup {Unset}
    BY <2>3, <2>5 DEF Merged, Endpoints
  <2>7. client' = [client EXCEPT ![c].pc = "validate", ![c].endpoint = endpoint]
    BY <1>2
  <2>8. "validate" \in Steps
    BY DEF Steps
  <2> HIDE DEF endpoint
  <2>9. /\ client' \in [Clients -> States] /\ Others(c)
        /\ client'[c].pc = "validate" /\ client'[c].cmd = cmd
    BY <2>6, <2>7, <2>8, MovedWithEndpoint DEF TypeInv, Types
  <2>10. PcFits(client'[c])
    BY <2>1, <2>9 DEF PcFits
  <2> QED
    BY <2>9, <2>10, OwnStep DEF Merge, TypeInv, Types
<1> QED
  BY <1>1, <1>2 DEF Merge

LEMMA ValidateTypes ==
  ASSUME TypeInv, NEW c \in Clients, Validate(c) PROVE TypeInv'
<1>1. CASE Return(c)
  BY <1>1, ReturnTypes DEF Validate
<1>2. CASE client' = [client EXCEPT ![c].pc = "raw", ![c].loaded = file.text]
  <2>1. file.text \in Texts /\ "raw" \in Steps
    BY DEF TypeInv, Types, Files, Steps
  <2>2. /\ client' \in [Clients -> States] /\ Others(c)
        /\ client'[c].pc = "raw" /\ client'[c].cmd = client[c].cmd
    BY <1>2, <2>1, MovedWithLoaded DEF TypeInv, Types
  <2>3. PcFits(client'[c])
    BY <2>2 DEF Validate, TypeInv, PcFits
  <2> QED
    BY <2>2, <2>3, OwnStep DEF Validate, TypeInv, Types
<1> QED
  BY <1>1, <1>2 DEF Validate

LEMMA EditedText ==
  ASSUME NEW cmd \in CommandLines \cup {NoCommand}, cmd.op \in {"add", "update", "endpoint"},
         NEW endpoint \in Endpoints \cup {Unset}, NEW loaded \in Texts,
         file \in Files, Editable(cmd)
  PROVE  Edited(cmd, endpoint, loaded) \in Texts
<1>1. file.text \in Texts
  BY DEF Files
<1>2. CASE cmd.op = "add"
  <2>1. cmd.server \in Tables
    BY <1>2, CommandFields
  <2>2. Appended(file.text, cmd.server) \in Texts
    BY <1>1, <2>1, AppendedText
  <2> QED
    BY <1>2, <2>2 DEF Edited
<1>3. CASE cmd.op = "update"
  <2>1. FilledIn(file.text, loaded) \in Texts
    BY <1>1, FilledInText
  <2> QED
    BY <1>3, <2>1 DEF Edited
<1>4. CASE cmd.op = "endpoint"
  <2>1. cmd.transport \in Transports
    BY <1>4, CommandFields
  <2>2. Key[cmd.id] \in Keys(file.text.servers)
    BY <1>4 DEF Editable
  <2>3. WithEndpoint(file.text, cmd.id, cmd.transport, endpoint) \in Texts
    BY <1>1, <2>1, <2>2, WithEndpointText
  <2> QED
    BY <1>4, <2>3 DEF Edited
<1> QED
  BY <1>2, <1>3, <1>4

LEMMA ReadRawTypes ==
  ASSUME TypeInv, NEW c \in Clients, ReadRaw(c) PROVE TypeInv'
<1> DEFINE doc == Edited(client[c].cmd, client[c].endpoint, client[c].loaded)
<1>1. CASE Return(c)
  BY <1>1, ReturnTypes DEF ReadRaw
<1>2. CASE /\ Editable(client[c].cmd)
           /\ client' = [client EXCEPT ![c].pc = "open", ![c].doc = doc]
  <2>1. /\ client[c].cmd \in CommandLines \cup {NoCommand} /\ client[c].loaded \in Texts
        /\ client[c].endpoint \in Endpoints \cup {Unset} /\ file \in Files
    BY DEF TypeInv, Types, States
  <2>2. client[c].cmd.op \in {"add", "update", "endpoint"}
    BY DEF ReadRaw, TypeInv, PcFits
  <2>3. doc \in Texts
    BY <1>2, <2>1, <2>2, EditedText
  <2>4. client' = [client EXCEPT ![c].pc = "open", ![c].doc = doc]
    BY <1>2
  <2>5. "open" \in Steps
    BY DEF Steps
  <2> HIDE DEF doc
  <2>6. /\ client' \in [Clients -> States] /\ Others(c)
        /\ client'[c].pc = "open" /\ client'[c].cmd = client[c].cmd
    BY <2>3, <2>4, <2>5, MovedWithText DEF TypeInv, Types
  <2>7. PcFits(client'[c])
    BY <2>6 DEF PcFits
  <2> QED
    BY <2>6, <2>7, OwnStep DEF ReadRaw, TypeInv, Types
<1> QED
  BY <1>1, <1>2 DEF ReadRaw

\* Opening, writing and failing to write leave a file behind.
LEMMA WrittenFiles ==
  ASSUME file \in Files, NEW text \in Texts, NEW ok \in BOOLEAN
  PROVE  /\ [Saved(EmptyText) EXCEPT !.private = file.exists => file.private] \in Files
         /\ [Saved(text) EXCEPT !.ok = ok] \in Files
         /\ [file EXCEPT !.ok = ok] \in Files
<1>1. Saved(EmptyText) \in Files /\ Saved(text) \in Files
  BY EmptyTextType, SavedFile
<1>2. (file.exists => file.private) \in BOOLEAN
  OBVIOUS
<1> DEFINE private == file.exists => file.private
<1>3. private \in BOOLEAN
  BY <1>2
<1> HIDE DEF private
<1>4. [Saved(EmptyText) EXCEPT !.private = private] \in Files
  BY <1>1, <1>3 DEF Files
<1>5. [Saved(text) EXCEPT !.ok = ok] \in Files /\ [file EXCEPT !.ok = ok] \in Files
  BY <1>1 DEF Files
<1> QED
  BY <1>4, <1>5 DEF private

LEMMA OpenTypes ==
  ASSUME TypeInv, NEW c \in Clients, Open(c) PROVE TypeInv'
<1>1. file' \in Files
  BY WrittenFiles, EmptyTextType DEF Open, TypeInv, Types
<1>2. "write" \in Steps /\ client' = [client EXCEPT ![c].pc = "write"]
  BY DEF Open, Goto, Steps
<1>3. /\ client' \in [Clients -> States] /\ Others(c)
      /\ client'[c].pc = "write" /\ client'[c].cmd = client[c].cmd
  BY <1>2, MovedTo DEF TypeInv, Types
<1>4. PcFits(client'[c])
  BY <1>3 DEF PcFits
<1>5. added' \subseteq {Key[id] : id \in Ids} /\ UNCHANGED <<clean, budget>>
  BY DEF Open, TypeInv, Types
<1> QED
  BY <1>1, <1>3, <1>4, <1>5 DEF TypeInv, Types, Others

LEMMA WriteTypes ==
  ASSUME TypeInv, NEW c \in Clients, Write(c) PROVE TypeInv'
<1>1. file' \in Files
  <2>1. client[c].doc \in Texts /\ file \in Files
    BY DEF TypeInv, Types, States
  <2>2. PICK ok \in BOOLEAN : file' = [Saved(client[c].doc) EXCEPT !.ok = ok]
    BY DEF Write
  <2> QED
    BY <2>1, <2>2, WrittenFiles
<1>2. /\ client' \in [Clients -> States] /\ Others(c) /\ PcFits(client'[c])
  <2>1. CASE Return(c)
    BY <2>1, Returned, IdleState DEF TypeInv, Types
  <2>2. CASE Goto(c, "load")
    <3>1. "load" \in Steps /\ client' = [client EXCEPT ![c].pc = "load"]
      BY <2>2 DEF Goto, Steps
    <3>2. client' \in [Clients -> States] /\ Others(c) /\ client'[c].pc = "load"
      BY <3>1, MovedTo DEF TypeInv, Types
    <3> QED
      BY <3>2 DEF PcFits
  <2> QED
    BY <2>1, <2>2 DEF Write
<1>3. added' \subseteq {Key[id] : id \in Ids}
  <2>1. client[c].cmd \in CommandLines \cup {NoCommand}
    BY DEF TypeInv, Types, States
  <2>2. client[c].cmd.op = "add" => client[c].cmd.server.id \in Ids
    BY <2>1, CommandFields DEF Tables
  <2> QED
    BY <2>2 DEF Write, TypeInv, Types
<1>4. UNCHANGED <<clean, budget>>
  BY DEF Write
<1> QED
  BY <1>1, <1>2, <1>3, <1>4 DEF TypeInv, Types, Others

\* What a fault or an edit takes from the budget was there.
LEMMA BudgetTypes ==
  ASSUME budget \in [commands : 0..MaxCommands, edits : 0..MaxEdits, faults : 0..MaxFaults]
  PROVE  /\ budget.faults > 0 => [budget EXCEPT !.faults = @ - 1] \in
              [commands : 0..MaxCommands, edits : 0..MaxEdits, faults : 0..MaxFaults]
         /\ budget.edits > 0 => [budget EXCEPT !.edits = @ - 1] \in
              [commands : 0..MaxCommands, edits : 0..MaxEdits, faults : 0..MaxFaults]
  BY ConfigFileAssumption

LEMMA WriteFailsTypes ==
  ASSUME TypeInv, NEW c \in Clients, WriteFails(c) PROVE TypeInv'
<1>1. file' \in Files
  BY WrittenFiles, EmptyTextType DEF WriteFails, TypeInv, Types
<1>2. client' \in [Clients -> States] /\ Others(c) /\ client'[c] = Idle
  BY Returned DEF WriteFails, TypeInv, Types
<1>3. budget' \in [commands : 0..MaxCommands, edits : 0..MaxEdits, faults : 0..MaxFaults]
  BY BudgetTypes DEF WriteFails, TypeInv, Types
<1>4. clean' \in BOOLEAN /\ added' = added
  BY DEF WriteFails
<1> QED
  BY <1>1, <1>2, <1>3, <1>4, IdleState DEF TypeInv, Types, Others

LEMMA KillTypes ==
  ASSUME TypeInv, NEW c \in Clients, Kill(c) PROVE TypeInv'
<1>1. client' \in [Clients -> States] /\ Others(c) /\ client'[c] = Idle
  BY Returned DEF Kill, TypeInv, Types
<1>2. budget' \in [commands : 0..MaxCommands, edits : 0..MaxEdits, faults : 0..MaxFaults]
  BY BudgetTypes DEF Kill, TypeInv, Types
<1>3. clean' \in BOOLEAN /\ UNCHANGED <<file, added>>
  BY DEF Kill
<1> QED
  BY <1>1, <1>2, <1>3, IdleState DEF TypeInv, Types, Others

LEMMA HandEditTypes ==
  ASSUME TypeInv, NEW f \in HandEdits, HandEdit(f) PROVE TypeInv'
<1>1. file' \in Files
  BY ConfigFileAssumption DEF HandEdit
<1>2. budget' \in [commands : 0..MaxCommands, edits : 0..MaxEdits, faults : 0..MaxFaults]
  BY BudgetTypes DEF HandEdit, TypeInv, Types
<1>3. clean' \in BOOLEAN /\ added' \subseteq {Key[id] : id \in Ids} /\ client' = client
  BY DEF HandEdit, TypeInv, Types
<1> QED
  BY <1>1, <1>2, <1>3 DEF TypeInv, Types

LEMMA StepTypes == TypeInv /\ [Next]_vars => TypeInv'
<1> SUFFICES ASSUME TypeInv, [Next]_vars PROVE TypeInv'
  OBVIOUS
<1>1. ASSUME NEW c \in Clients, NEW cmd \in Commands, Begin(c, cmd) PROVE TypeInv'
  BY <1>1, BeginTypes
<1>2. ASSUME NEW c \in Clients,
             CheckExists(c) \/ CreateStarter(c) \/ Load(c) \/ Merge(c) \/ Validate(c)
      PROVE TypeInv'
  BY <1>2, CheckExistsTypes, CreateStarterTypes, LoadTypes, MergeTypes, ValidateTypes
<1>3. ASSUME NEW c \in Clients,
             ReadRaw(c) \/ Open(c) \/ Write(c) \/ WriteFails(c) \/ Kill(c)
      PROVE TypeInv'
  BY <1>3, ReadRawTypes, OpenTypes, WriteTypes, WriteFailsTypes, KillTypes
<1>4. ASSUME NEW f \in HandEdits, HandEdit(f) PROVE TypeInv'
  BY <1>4, HandEditTypes
<1>5. CASE UNCHANGED vars
  BY <1>5 DEF vars, TypeInv, Types
<1> QED
  BY <1>1, <1>2, <1>3, <1>4, <1>5 DEF Next

LEMMA AlwaysTypes == Spec => []TypeInv
  BY InitTypes, StepTypes, PTL DEF Spec

\* Every state of the file, of the processes and of their local variables has
\* the type the code gives it: At never looks for a server that is not there,
\* and each edit of a configuration is a configuration.
THEOREM TypeCorrect == Spec => []TypeOK
<1>1. TypeInv => TypeOK
  <2> SUFFICES ASSUME TypeInv PROVE TypeOK
    OBVIOUS
  <2>1. file.text \in Texts /\ {file.exists, file.private, file.ok, clean} \subseteq BOOLEAN
    BY DEF TypeInv, Types, Files
  <2>2. {file.text.servers[n] : n \in DOMAIN file.text.servers} \subseteq Tables
    BY <2>1, ElementOfSeq, LenProperties DEF Texts
  <2>3. file.text.refs \subseteq References
    BY <2>1 DEF Texts
  <2>4. \A c \in Clients : client[c].pc \in Steps /\ client[c].endpoint \in Endpoints \cup {Unset}
    BY DEF TypeInv, Types, States
  <2> QED
    BY <2>1, <2>2, <2>3, <2>4 DEF TypeInv, Types, TypeOK
<1> QED
  BY <1>1, AlwaysTypes, PTL

-----------------------------------------------------------------------------
(* What `config update` writes *)

Update(c) == client[c].cmd.op = "update" /\ client[c].pc \in {"open", "write"}

\* The text of an update was there before the step, or this step read it.
KeptText(c) ==
  /\ Update(c)
  /\ client'[c].doc = client[c].doc /\ client'[c].loaded = client[c].loaded
  /\ clean' => clean

NewText(c) ==
  /\ client[c].pc = "raw" /\ client[c].cmd.op = "update"
  /\ client'[c].doc = FilledIn(file.text, client[c].loaded)
  /\ client'[c].loaded = client[c].loaded
  /\ Valid(client'[c].doc)
  /\ clean' = clean

LEMMA ReadRawText ==
  ASSUME TypeInv, NEW c \in Clients, ReadRaw(c), Update(c)'
  PROVE  NewText(c)
<1>1. CASE Return(c)
  <2>1. client'[c] = Idle
    BY <1>1, Returned DEF TypeInv, Types
  <2> QED
    BY <2>1 DEF Update, Idle
<1> DEFINE doc == Edited(client[c].cmd, client[c].endpoint, client[c].loaded)
<1>2. CASE /\ Editable(client[c].cmd)
           /\ ~Refused(client[c].cmd, doc)
           /\ client' = [client EXCEPT ![c].pc = "open", ![c].doc = doc]
  <2>1. client[c].cmd \in CommandLines \cup {NoCommand} /\ client[c].loaded \in Texts
        /\ client[c].endpoint \in Endpoints \cup {Unset} /\ file \in Files
    BY DEF TypeInv, Types, States
  <2>2. client[c].cmd.op \in {"add", "update", "endpoint"} /\ client[c].pc = "raw"
    BY DEF ReadRaw, TypeInv, PcFits
  <2>3. doc \in Texts
    BY <1>2, <2>1, <2>2, EditedText
  <2>4. client' = [client EXCEPT ![c].pc = "open", ![c].doc = doc]
    BY <1>2
  <2>0. "open" \in Steps /\ client \in [Clients -> States]
    BY DEF Steps, TypeInv, Types
  <2>5. ~Refused(client[c].cmd, doc)
    BY <1>2
  <2>6. client[c].cmd.op = "update" => doc = FilledIn(file.text, client[c].loaded)
    BY DEF Edited
  <2> HIDE DEF doc
  <2>7. /\ client'[c].cmd = client[c].cmd /\ client'[c].doc = doc
        /\ client'[c].loaded = client[c].loaded
    <3>1. client[c] \in States
      BY <2>0
    <3> QED
      BY <2>0, <2>3, <2>4, <3>1 DEF States
  <2>8. client[c].cmd.op = "update"
    BY <2>7 DEF Update
  <2>9. Valid(doc)
    BY <2>5, <2>8 DEF Refused
  <2>10. clean' = clean
    BY DEF ReadRaw
  <2> QED
    BY <2>2, <2>6, <2>7, <2>8, <2>9, <2>10 DEF NewText
<1> QED
  BY <1>1, <1>2 DEF ReadRaw

\* What a command that is under way may do to the update it is.
Actor(c) ==
  /\ Others(c) /\ client[c].pc # "idle"
  /\ clean' => clean
  /\ client'[c].pc = "raw" => Validate(c)
  /\ Update(c)' => KeptText(c) \/ NewText(c)

LEMMA ReturnActs ==
  ASSUME TypeInv, NEW c \in Clients, Return(c)
  PROVE  Others(c) /\ client'[c].pc = "idle" /\ ~Update(c)'
<1>1. Others(c) /\ client'[c] = Idle
  BY Returned DEF TypeInv, Types
<1> QED
  BY <1>1 DEF Update, Idle

LEMMA LookingActs ==
  ASSUME TypeInv, NEW c \in Clients, CheckExists(c) \/ CreateStarter(c) \/ Load(c)
  PROVE  Actor(c)
<1>0. client \in [Clients -> States] /\ client[c] \in States
  BY DEF TypeInv, Types
<1>1. CASE CheckExists(c)
  <2>1. client'[c].pc \in {"load", "create"} /\ Others(c)
    BY <1>0, <1>1 DEF CheckExists, Goto, Others, States
  <2> QED
    BY <1>1, <2>1 DEF CheckExists, Actor, Update
<1>2. CASE CreateStarter(c) /\ ~Return(c)
  <2>1. client'[c].pc = "open" /\ client'[c].cmd = client[c].cmd /\ Others(c)
    BY <1>0, <1>2 DEF CreateStarter, Others, States
  <2>2. client[c].pc = "create" /\ client[c].cmd.op \in {"init", "run"} /\ clean' = clean
    BY <1>2 DEF CreateStarter, TypeInv, PcFits
  <2> QED
    BY <2>1, <2>2 DEF Actor, Update
<1>3. CASE Return(c) /\ (CreateStarter(c) \/ Load(c))
  <2>1. client[c].pc # "idle" /\ clean' = clean
    BY <1>3 DEF CreateStarter, Load
  <2> QED
    BY <1>3, <2>1, ReturnActs DEF Actor
<1> QED
  BY <1>1, <1>2, <1>3 DEF Load, Return

LEMMA CheckingActs ==
  ASSUME TypeInv, NEW c \in Clients, Merge(c) \/ Validate(c) \/ ReadRaw(c)
  PROVE  Actor(c)
<1>0. client \in [Clients -> States] /\ client[c] \in States
  BY DEF TypeInv, Types
<1>1. client[c].pc # "idle" /\ clean' = clean
  BY DEF Merge, Validate, ReadRaw
<1>2. CASE Return(c)
  BY <1>1, <1>2, ReturnActs DEF Actor
<1>3. CASE Merge(c) /\ ~Return(c)
  <2>1. client'[c].pc = "validate" /\ Others(c)
    BY <1>0, <1>3 DEF Merge, Others, States
  <2> QED
    BY <1>1, <2>1 DEF Actor, Update
<1>4. CASE Validate(c) /\ ~Return(c)
  <2>1. client'[c].pc = "raw" /\ Others(c)
    BY <1>0, <1>4 DEF Validate, Others, States
  <2> QED
    BY <1>1, <1>4, <2>1 DEF Actor, Update
<1>5. CASE ReadRaw(c) /\ ~Return(c)
  <2>1. client'[c].pc = "open" /\ Others(c)
    <3> DEFINE doc == Edited(client[c].cmd, client[c].endpoint, client[c].loaded)
    <3>1. client' = [client EXCEPT ![c].pc = "open", ![c].doc = doc]
      BY <1>5 DEF ReadRaw
    <3> HIDE DEF doc
    <3> QED
      BY <1>0, <3>1 DEF Others, States
  <2> QED
    BY <1>1, <1>5, <2>1, ReadRawText DEF Actor
<1> QED
  BY <1>2, <1>3, <1>4, <1>5

LEMMA WritingActs ==
  ASSUME TypeInv, NEW c \in Clients, Open(c) \/ Write(c) \/ WriteFails(c) \/ Kill(c)
  PROVE  Actor(c)
<1>0. client \in [Clients -> States] /\ client[c] \in States
  BY DEF TypeInv, Types
<1>1. client[c].pc # "idle" /\ (clean' => clean)
  <2>1. client[c].pc # "idle"
    BY DEF Open, Write, WriteFails, Kill
  <2>2. CASE Kill(c)
    <3>1. clean' = (clean /\ c \notin Writing)
      BY <2>2 DEF Kill
    <3> QED
      BY <2>1, <3>1
  <2>3. CASE Open(c) \/ Write(c) \/ WriteFails(c)
    <3>1. clean' = clean \/ clean' = FALSE
      BY <2>3 DEF Open, Write, WriteFails
    <3> QED
      BY <2>1, <3>1
  <2> QED
    BY <2>2, <2>3
<1>2. CASE Return(c)
  BY <1>1, <1>2, ReturnActs DEF Actor
<1>3. CASE Open(c)
  <2>1. /\ client'[c].pc = "write" /\ client'[c].cmd = client[c].cmd /\ Others(c)
        /\ client'[c].doc = client[c].doc /\ client'[c].loaded = client[c].loaded
    BY <1>0, <1>3 DEF Open, Goto, Others, States
  <2> QED
    BY <1>1, <1>3, <2>1 DEF Open, Actor, Update, KeptText
<1>4. CASE Write(c) /\ ~Return(c)
  <2>1. client'[c].pc = "load" /\ Others(c)
    BY <1>0, <1>4 DEF Write, Goto, Others, States
  <2> QED
    BY <1>1, <2>1 DEF Actor, Update
<1> QED
  BY <1>2, <1>3, <1>4 DEF WriteFails, Kill

\* A step begins a command, is one of a command under way, or is an edit.
LEMMA StepActs ==
  ASSUME TypeInv, Next
  PROVE  \/ \E c \in Clients, cmd \in Commands : Begin(c, cmd)
         \/ \E c \in Clients : Actor(c) /\ (file' = file \/ client[c].pc \in {"open", "write"})
         \/ \E f \in HandEdits : HandEdit(f)
<1>1. ASSUME NEW c \in Clients, CheckExists(c) \/ CreateStarter(c) \/ Load(c)
      PROVE  Actor(c) /\ file' = file
  BY <1>1, LookingActs DEF CheckExists, CreateStarter, Load
<1>2. ASSUME NEW c \in Clients, Merge(c) \/ Validate(c) \/ ReadRaw(c)
      PROVE  Actor(c) /\ file' = file
  BY <1>2, CheckingActs DEF Merge, Validate, ReadRaw
<1>3. ASSUME NEW c \in Clients, Open(c) \/ Write(c) \/ WriteFails(c) \/ Kill(c)
      PROVE  Actor(c) /\ (file' = file \/ client[c].pc \in {"open", "write"})
  BY <1>3, WritingActs DEF Open, Write, WriteFails, Kill
<1> QED
  BY <1>1, <1>2, <1>3 DEF Next

\* A command that begins is at its first step.
LEMMA BeginActs ==
  ASSUME TypeInv, NEW c \in Clients, NEW cmd \in Commands, Begin(c, cmd)
  PROVE  /\ Others(c) /\ client[c].pc = "idle"
         /\ client'[c].pc \notin {"raw", "open", "write"}
         /\ file' = file /\ clean' = (clean /\ Active = {})
<1>1. client'[c].pc = FirstStep(cmd) /\ Others(c)
  BY DEF Begin, TypeInv, Types, Idle, Others
<1>2. cmd.op \in {"init", "run", "update", "add", "endpoint"}
  BY ConfigFileAssumption DEF CommandLines
<1> QED
  BY <1>1, <1>2 DEF Begin, FirstStep

\* The text of an update was read in this step or kept from the one before.
LEMMA StepText ==
  ASSUME TypeInv, [Next]_vars, NEW c \in Clients, Update(c)'
  PROVE  KeptText(c) \/ NewText(c)
<1>1. CASE UNCHANGED vars
  BY <1>1 DEF vars, Update, KeptText
<1>2. ASSUME NEW d \in Clients, NEW cmd \in Commands, Begin(d, cmd)
      PROVE  KeptText(c)
  <2>1. Others(d) /\ client'[d].pc \notin {"open", "write"} /\ (clean' => clean)
    BY <1>2, BeginActs
  <2> QED
    BY <2>1 DEF Others, Update, KeptText
<1>3. ASSUME NEW d \in Clients, Actor(d)
      PROVE  KeptText(c) \/ NewText(c)
  BY <1>3 DEF Actor, Others, Update, KeptText
<1>4. ASSUME NEW f \in HandEdits, HandEdit(f)
      PROVE  KeptText(c)
  BY <1>4 DEF HandEdit, Update, KeptText
<1> QED
  BY <1>1, <1>2, <1>3, <1>4, StepActs

\* Whatever other commands, editors and faults do between the steps of
\* `config update`, the text it writes passes the validation that a later
\* load does: the text is checked after the defaults were filled into it.
THEOREM UpdateIsValid == Spec => []UpdateWritesValid
<1>1. Init => UpdateWritesValid
  BY DEF Init, UpdateWritesValid, Idle
<1>2. TypeInv /\ UpdateWritesValid /\ [Next]_vars => UpdateWritesValid'
  <2> SUFFICES ASSUME TypeInv, UpdateWritesValid, [Next]_vars, NEW c \in Clients, Update(c)'
               PROVE  Valid(client'[c].doc)
    BY DEF UpdateWritesValid, Update
  <2>1. CASE KeptText(c)
    BY <2>1 DEF KeptText, Update, UpdateWritesValid
  <2>2. CASE NewText(c)
    BY <2>2 DEF NewText
  <2> QED
    BY <2>1, <2>2, StepText
<1> QED
  BY <1>1, <1>2, AlwaysTypes, PTL DEF Spec

\* While commands have not overlapped, there is one at a time, and what it
\* validated is what the file still says when it reads it again.
Undisturbed ==
  /\ clean => \A c, d \in Active : c = d
  /\ \A c \in Clients :
       clean /\ client[c].pc = "raw" =>
         /\ client[c].loaded = file.text
         /\ client[c].cmd.op = "update" => Valid(file.text)

LEMMA ValidatedIsLoaded ==
  ASSUME TypeInv, NEW c \in Clients, Validate(c), client'[c].pc = "raw"
  PROVE  /\ client'[c].loaded = file.text /\ client'[c].cmd = client[c].cmd
         /\ file' = file
         /\ client[c].cmd.op = "update" => Valid(file.text)
<1>0. client \in [Clients -> States] /\ client[c] \in States
  BY DEF TypeInv, Types
<1>1. ~Return(c)
  BY Returned, <1>0 DEF Idle
<1>2. /\ WouldBeValid(client[c].cmd, client[c].endpoint)
      /\ client' = [client EXCEPT ![c].pc = "raw", ![c].loaded = file.text]
      /\ file' = file
  BY <1>1 DEF Validate
<1>3. client'[c].loaded = file.text /\ client'[c].cmd = client[c].cmd
  BY <1>0, <1>2 DEF States
<1>4. client[c].cmd.op = "update" => Loadable(file)
  BY <1>2 DEF WouldBeValid
<1> QED
  BY <1>2, <1>3, <1>4 DEF Loadable

LEMMA StepUndisturbed ==
  ASSUME TypeInv, Undisturbed, [Next]_vars PROVE Undisturbed'
<1>1. CASE UNCHANGED vars
  BY <1>1 DEF vars, Undisturbed, Active
<1>2. ASSUME NEW d \in Clients, NEW cmd \in Commands, Begin(d, cmd)
      PROVE  Undisturbed'
  <2>1. /\ Others(d) /\ client'[d].pc # "raw" /\ file' = file
        /\ clean' = (clean /\ Active = {})
    BY <1>2, BeginActs
  <2>2. clean' => \A c \in Clients \ {d} : client'[c].pc = "idle"
    BY <2>1 DEF Others, Active
  <2> QED
    BY <2>1, <2>2 DEF Undisturbed, Active
<1>3. ASSUME NEW d \in Clients, Actor(d), file' = file \/ client[d].pc \in {"open", "write"}
      PROVE  Undisturbed'
  <2>1. (clean' => clean) /\ Others(d) /\ d \in Active
    BY <1>3 DEF Actor, Active
  <2>2. ASSUME clean' PROVE \A c, e \in Active' : c = e
    <3>1. \A c \in Active' : c \in Active
      BY <1>3, <2>1, <2>2 DEF Actor, Others, Active
    <3> QED
      BY <2>1, <2>2, <3>1 DEF Undisturbed
  <2>3. ASSUME clean', NEW c \in Clients, client'[c].pc = "raw"
        PROVE  /\ client'[c].loaded = (file.text)'
               /\ client'[c].cmd.op = "update" => Valid(file.text)'
    <3>1. c = d
      <4> SUFFICES ASSUME c # d PROVE FALSE
        OBVIOUS
      <4>1. c \in Active
        BY <1>3, <2>3 DEF Actor, Others, Active
      <4> QED
        BY <2>1, <2>3, <4>1 DEF Undisturbed
    <3>2. Validate(d)
      BY <1>3, <2>3, <3>1 DEF Actor
    <3>3. /\ client'[d].loaded = file.text /\ client'[d].cmd = client[d].cmd
          /\ file' = file
          /\ client[d].cmd.op = "update" => Valid(file.text)
      BY <2>3, <3>1, <3>2, ValidatedIsLoaded
    <3> QED
      BY <3>1, <3>3
  <2> QED
    BY <2>2, <2>3 DEF Undisturbed
<1>4. ASSUME NEW f \in HandEdits, HandEdit(f)
      PROVE  Undisturbed'
  <2>1. client' = client /\ clean' = (clean /\ Active = {})
    BY <1>4 DEF HandEdit
  <2> QED
    BY <2>1 DEF Undisturbed, Active
<1> QED
  BY <1>1, <1>2, <1>3, <1>4, StepActs

\* Filling a valid text in with its own settings changes no setting.
LEMMA FilledInMeaning ==
  ASSUME NEW text \in Texts, Valid(text)
  PROVE  /\ Len(FilledIn(text, text).servers) = Len(text.servers)
         /\ \A n \in DOMAIN FilledIn(text, text).servers :
              Resolved(FilledIn(text, text).servers[n]) = Resolved(text.servers[n])
<1> DEFINE new == FilledIn(text, text).servers
<1>1. /\ Len(new) = Len(text.servers) /\ DOMAIN new = DOMAIN text.servers
      /\ \A n \in DOMAIN text.servers :
           Key[text.servers[n].id] \in Keys(text.servers) =>
             new[n] = Filled(text.servers[n],
                             Resolved(text.servers[At(text.servers, text.servers[n].id)]))
  BY FilledInText
<1> HIDE DEF new
<1>2. ASSUME NEW n \in DOMAIN new PROVE Resolved(new[n]) = Resolved(text.servers[n])
  <2>1. text.servers \in Seq(Tables) /\ n \in DOMAIN text.servers
    BY <1>1, <1>2 DEF Texts
  <2>2. text.servers[n] \in Tables
    BY <2>1, ElementOfSeq, LenProperties
  <2>3. Key[text.servers[n].id] \in Keys(text.servers)
    BY <2>1 DEF Keys
  <2>4. At(text.servers, text.servers[n].id) = n
    BY <2>1, AtOwnId DEF Valid
  <2>5. new[n] = Filled(text.servers[n], Resolved(text.servers[n]))
    BY <1>1, <2>1, <2>3, <2>4
  <2> QED
    BY <2>2, <2>5, FillKeepsMeaning
<1> QED
  BY <1>1, <1>2 DEF new

\* `config update` leaves every server with the URL, the permissions and the
\* endpoints it had, as long as no other command or editor comes between the
\* reads of the file: only then are the settings filled in those of the text.
THEOREM UpdateIsSilent == Spec => []UpdateKeepsMeaning
<1>1. Init => Undisturbed /\ UpdateKeepsMeaning
  BY DEF Init, Undisturbed, UpdateKeepsMeaning, Active, Idle
<1>2. TypeInv /\ Undisturbed /\ [Next]_vars => Undisturbed'
  BY StepUndisturbed
<1>3. TypeInv /\ Undisturbed /\ UpdateKeepsMeaning /\ [Next]_vars => UpdateKeepsMeaning'
  <2> DEFINE Same(c) ==
        /\ Len(client[c].doc.servers) = Len(client[c].loaded.servers)
        /\ \A n \in DOMAIN client[c].doc.servers :
             Resolved(client[c].doc.servers[n]) = Resolved(client[c].loaded.servers[n])
  <2> SUFFICES ASSUME TypeInv, Undisturbed, UpdateKeepsMeaning, [Next]_vars,
                      NEW c \in Clients, clean', Update(c)'
               PROVE  Same(c)'
    BY DEF UpdateKeepsMeaning, Update
  <2>1. CASE KeptText(c)
    BY <2>1 DEF KeptText, Update, UpdateKeepsMeaning
  <2>2. CASE NewText(c)
    <3>1. client[c].loaded = file.text /\ Valid(file.text)
      BY <2>2 DEF NewText, Undisturbed
    <3>2. /\ client'[c].loaded = file.text
          /\ client'[c].doc = FilledIn(file.text, file.text)
      BY <2>2, <3>1 DEF NewText
    <3>3. file.text \in Texts
      BY DEF TypeInv, Types, Files
    <3> QED
      BY <3>1, <3>2, <3>3, FilledInMeaning
  <2> QED
    BY <2>1, <2>2, StepText
<1> QED
  BY <1>1, <1>2, <1>3, AlwaysTypes, PTL DEF Spec

-----------------------------------------------------------------------------
(* What the commands leave behind when they do not overlap *)

\* Two tables that validation cannot tell apart.
Alike(t, u) ==
  /\ u.id = t.id /\ u.cluster = t.cluster
  /\ Transport(u, "dns") = Transport(t, "dns")
  /\ Transport(u, "doh") = Transport(t, "doh")

LEMMA AlikeServers ==
  ASSUME NEW old, NEW new, DOMAIN new = DOMAIN old,
         \A n \in DOMAIN old : Alike(old[n], new[n])
  PROVE  /\ ValidServers(old) => ValidServers(new)
         /\ Keys(new) = Keys(old)
  BY DEF Alike, ValidServers, Keys

\* How a server is rendered keeps what validation looks at.
LEMMA RenderedAlike ==
  ASSUME NEW t \in Tables PROVE Alike(t, Rendered(t))
<1> DEFINE r == Rendered(t)
<1>1. /\ r.id = t.id /\ r.cluster = t.cluster /\ r.vendor = Vendor(t)
      /\ r.base = t.base /\ r.dns = t.dns /\ r.doh = t.doh
  BY TableFields DEF Rendered
<1> HIDE DEF r
<1>2. Vendor(r) = Vendor(t)
  BY <1>1, TableFields DEF Vendor, Unset
<1>3. r["dns"] = t["dns"] /\ r["doh"] = t["doh"]
  BY <1>1
<1>4. Transport(r, "dns") = Transport(t, "dns") /\ Transport(r, "doh") = Transport(t, "doh")
  BY <1>1, <1>2, <1>3 DEF Transport
<1> QED
  BY <1>1, <1>4 DEF Alike, r

\* A server that was validated beside the others is valid as it is rendered,
\* and joins them.
LEMMA AppendedIsValid ==
  ASSUME NEW text \in Texts, NEW t \in Tables, ~text.inline,
         Valid([text EXCEPT !.servers = Append(@, t)])
  PROVE  /\ Valid(Appended(text, t))
         /\ Keys(Appended(text, t).servers) = Keys(text.servers) \cup {Key[t.id]}
         /\ Appended(text, t).inline = FALSE
<1> DEFINE old == Append(text.servers, t)
           new == Append(text.servers, Rendered(t))
<1>0. text.servers \in Seq(Tables) /\ Rendered(t) \in Tables /\ text.inline = FALSE
  BY RenderedTable DEF Texts
<1>1. /\ Len(old) = Len(text.servers) + 1 /\ Len(new) = Len(text.servers) + 1
      /\ old[Len(text.servers) + 1] = t /\ new[Len(text.servers) + 1] = Rendered(t)
      /\ \A n \in 1..Len(text.servers) : old[n] = text.servers[n] /\ new[n] = text.servers[n]
      /\ old \in Seq(Tables) /\ new \in Seq(Tables)
  BY <1>0, AppendProperties
<1>2. /\ DOMAIN old = DOMAIN text.servers \cup {Len(text.servers) + 1}
      /\ DOMAIN new = DOMAIN old
      /\ DOMAIN text.servers = 1..Len(text.servers)
  <2>1. DOMAIN old = 1..Len(old) /\ DOMAIN new = 1..Len(new)
        /\ DOMAIN text.servers = 1..Len(text.servers) /\ Len(text.servers) \in Nat
    BY <1>0, <1>1, LenProperties
  <2> QED
    BY <1>1, <2>1
<1>3. [text EXCEPT !.servers = Append(@, t)].servers = old
      /\ [text EXCEPT !.servers = Append(@, t)].refs = text.refs
  BY DEF Texts
<1>4. /\ Appended(text, t).servers = new /\ Appended(text, t).refs = text.refs
      /\ Appended(text, t).inline = FALSE
  BY <1>0 DEF Appended, Texts
<1>5. ValidServers(old) /\ \A ref \in text.refs : ValidReference(ref, old)
  BY <1>3 DEF Valid
<1> HIDE DEF old, new
<1>6. \A n \in DOMAIN old : Alike(old[n], new[n])
  <2> TAKE n \in DOMAIN old
  <2>1. CASE n = Len(text.servers) + 1
    BY <1>1, <2>1, RenderedAlike
  <2>2. CASE n # Len(text.servers) + 1
    BY <1>1, <1>2, <2>2 DEF Alike
  <2> QED
    BY <2>1, <2>2
<1>7. ValidServers(new) /\ Keys(new) = Keys(old)
  BY <1>2, <1>5, <1>6, AlikeServers
<1>8. Keys(old) = Keys(text.servers) \cup {Key[t.id]}
  BY <1>1, <1>2 DEF Keys
<1>9. \A ref \in text.refs : ValidReference(ref, new)
  BY <1>5, <1>7 DEF ValidReference
<1> QED
  BY <1>4, <1>7, <1>8, <1>9 DEF Valid

\* Filling in keeps the servers, and so does a new endpoint.
LEMMA FilledInKeys ==
  ASSUME NEW text \in Texts
  PROVE  /\ Keys(FilledIn(text, text).servers) = Keys(text.servers)
         /\ FilledIn(text, text).inline = text.inline
<1> DEFINE new == FilledIn(text, text).servers
<1>1. /\ DOMAIN new = DOMAIN text.servers
      /\ \A n \in DOMAIN text.servers :
           Key[text.servers[n].id] \in Keys(text.servers) =>
             new[n] = Filled(text.servers[n],
                             Resolved(text.servers[At(text.servers, text.servers[n].id)]))
  BY FilledInText
<1>2. FilledIn(text, text).inline = text.inline
  BY DEF FilledIn, Texts
<1> HIDE DEF new
<1>3. \A n \in DOMAIN text.servers : new[n].id = text.servers[n].id
  <2> TAKE n \in DOMAIN text.servers
  <2>1. text.servers[n] \in Tables
    BY ElementOfSeq, LenProperties DEF Texts
  <2>2. Key[text.servers[n].id] \in Keys(text.servers)
    BY DEF Keys
  <2> QED
    BY <1>1, <2>1, <2>2, FilledFields
<1> QED
  BY <1>1, <1>2, <1>3 DEF Keys, new

LEMMA WithEndpointKeys ==
  ASSUME NEW text \in Texts, NEW id, Key[id] \in Keys(text.servers),
         NEW transport \in Transports, NEW endpoint \in Endpoints \cup {Unset}
  PROVE  /\ Keys(WithEndpoint(text, id, transport, endpoint).servers) = Keys(text.servers)
         /\ WithEndpoint(text, id, transport, endpoint).inline = text.inline
<1> DEFINE n == At(text.servers, id)
           table == [text.servers[n] EXCEPT ![transport] = endpoint]
           new == [text.servers EXCEPT ![n] = table]
<1>1. text.servers \in Seq(Tables) /\ n \in DOMAIN text.servers
  BY AtInDomain DEF Texts
<1>2. text.servers[n] \in Tables
  BY <1>1, ElementOfSeq, LenProperties
<1>3. table.id = text.servers[n].id
  BY <1>2, TableFields DEF Transports
<1>4. /\ WithEndpoint(text, id, transport, endpoint).servers = new
      /\ WithEndpoint(text, id, transport, endpoint).inline = text.inline
  BY DEF WithEndpoint, Texts
<1> HIDE DEF n, table
<1>5. DOMAIN new = DOMAIN text.servers /\ new[n] = table
      /\ \A m \in DOMAIN text.servers : m # n => new[m] = text.servers[m]
  BY <1>1
<1> HIDE DEF new
<1>6. \A m \in DOMAIN text.servers : new[m].id = text.servers[m].id
  BY <1>3, <1>5
<1>7. Keys(new) = Keys(text.servers)
  BY <1>5, <1>6 DEF Keys
<1> QED
  BY <1>4, <1>7

\* `init --force` replaces the file and everything that was added to it.
Replacing(s) == s.cmd.op = "init" /\ s.cmd.force

\* What has to be in the text of a command once it is written.
Additions(s) == IF s.cmd.op = "add" THEN added \cup {Key[s.cmd.server.id]} ELSE added

Holds(s) == s.doc.inline \/ Additions(s) \subseteq Keys(s.doc.servers)

FileSound ==
  /\ ~file.exists => file.text = EmptyText
  /\ Writing = {} => /\ file.ok /\ Valid(file.text)
                     /\ file.text.inline \/ added \subseteq Keys(file.text.servers)

\* What a command has in hand is valid and complete, and what it validated
\* would still pass; a file that is being written is empty.
WorkSound(c) ==
  LET s == client[c]
  IN /\ s.pc = "raw" => WouldBeValid(s.cmd, s.endpoint)
     /\ s.pc = "open" => Valid(s.doc) /\ (Replacing(s) \/ Holds(s))
     /\ s.pc = "write" => /\ Valid(s.doc) /\ Holds(s)
                          /\ file.ok /\ file.text = EmptyText

SoundInv == clean => FileSound /\ \A c \in Clients : WorkSound(c)

\* While commands have not overlapped, whoever takes a step is alone.
LEMMA AloneAtWork ==
  ASSUME Undisturbed, clean, NEW c \in Clients, client[c].pc # "idle"
  PROVE  /\ \A d \in Clients \ {c} : client[d].pc = "idle"
         /\ Writing = {} <=> client[c].pc # "write"
<1>1. c \in Active /\ \A d \in Clients \ {c} : d \notin Active
  BY DEF Undisturbed, Active
<1>2. \A d \in Clients \ {c} : client[d].pc = "idle"
  BY <1>1 DEF Active
<1> QED
  BY <1>2 DEF Writing

LEMMA ActorSound ==
  ASSUME Undisturbed, SoundInv, NEW c \in Clients, client[c].pc # "idle", Others(c),
         clean' => clean, clean' => FileSound' /\ WorkSound(c)'
  PROVE  SoundInv'
<1> SUFFICES ASSUME clean' PROVE \A d \in Clients \ {c} : WorkSound(d)'
  BY DEF SoundInv
<1>1. \A d \in Clients \ {c} : client'[d].pc = "idle"
  BY AloneAtWork DEF Others
<1> QED
  BY <1>1 DEF WorkSound

\* A step that only looks: the file stays as it is.
LEMMA LookSound ==
  ASSUME Undisturbed, SoundInv, clean, NEW c \in Clients,
         client[c].pc \notin {"idle", "write"}, UNCHANGED <<file, added>>
  PROVE  FileSound'
<1>1. Writing = {}
  BY AloneAtWork
<1> QED
  BY <1>1 DEF SoundInv, FileSound

LEMMA ReturnSound ==
  ASSUME TypeInv, Undisturbed, SoundInv, NEW c \in Clients, Return(c),
         client[c].pc \notin {"idle", "write"}, UNCHANGED <<file, clean, added>>
  PROVE  SoundInv'
<1>1. Others(c) /\ client'[c].pc = "idle"
  BY ReturnActs
<1>2. clean' => WorkSound(c)'
  BY <1>1 DEF WorkSound
<1>3. clean' => FileSound'
  BY LookSound
<1> QED
  BY <1>1, <1>2, <1>3, ActorSound

\* The starter configuration is valid, and new additions start from it.
LEMMA StarterIsValid ==
  ASSUME SoundFiles
  PROVE  /\ Valid(Appended(EmptyText, Starter))
         /\ Keys(EmptyText.servers) = {}
<1>1. EmptyText \in Texts /\ Starter \in Tables /\ EmptyText.inline = FALSE
  BY EmptyTextType, ConfigFileAssumption DEF EmptyText
<1>2. Append(<< >>, Starter) = <<Starter>>
  OBVIOUS
<1>3. [EmptyText EXCEPT !.servers = Append(@, Starter)]
      = [EmptyText EXCEPT !.servers = <<Starter>>]
  BY <1>2 DEF EmptyText
<1>4. Keys(EmptyText.servers) = {}
  BY DEF EmptyText, Keys
<1> QED
  BY <1>1, <1>3, <1>4, AppendedIsValid DEF SoundFiles

LEMMA LookingSound ==
  ASSUME TypeInv, Undisturbed, SoundInv, SoundFiles, NEW c \in Clients,
         CheckExists(c) \/ CreateStarter(c) \/ Load(c) \/ Merge(c)
  PROVE  SoundInv'
<1>0. /\ client \in [Clients -> States] /\ client[c] \in States
      /\ client[c].pc \notin {"idle", "write"} /\ UNCHANGED <<file, clean, added>>
  BY DEF CheckExists, CreateStarter, Load, Merge, TypeInv, Types
<1>1. CASE Return(c)
  BY <1>0, <1>1, ReturnSound
<1>2. CASE CheckExists(c) \/ (Merge(c) /\ ~Return(c))
  <2>1. client'[c].pc \in {"load", "create", "validate"} /\ Others(c)
    BY <1>0, <1>2 DEF CheckExists, Merge, Goto, Others, States
  <2>2. WorkSound(c)'
    BY <2>1 DEF WorkSound
  <2> QED
    BY <1>0, <2>1, <2>2, LookSound, ActorSound
<1>3. CASE CreateStarter(c) /\ ~Return(c)
  <2> DEFINE doc == Appended(EmptyText, Starter)
  <2>1. /\ client' = [client EXCEPT ![c].pc = "open", ![c].doc = doc]
        /\ file.exists => client[c].cmd.op = "init" /\ client[c].cmd.force
        /\ client[c].cmd.op \in {"init", "run"}
    BY <1>3 DEF CreateStarter, TypeInv, PcFits
  <2>2. doc \in Texts /\ Valid(doc)
    BY EmptyTextType, AppendedText, ConfigFileAssumption, StarterIsValid
  <2> HIDE DEF doc
  <2>3. /\ Others(c) /\ client'[c].pc = "open" /\ client'[c].cmd = client[c].cmd
        /\ client'[c].doc = doc
    <3>1. "open" \in Steps
      BY DEF Steps
    <3>2. client' = [client EXCEPT ![c].pc = "open", ![c].doc = doc] /\ doc \in Texts
      BY <2>1, <2>2
    <3>3. client'[c].pc = "open" /\ client'[c].cmd = client[c].cmd /\ client'[c].doc = doc
      BY <1>0, <3>2 DEF States
    <3>4. Others(c)
      <4> SUFFICES ASSUME NEW d \in Clients \ {c} PROVE client'[d] = client[d]
        BY Zenon DEF Others
      <4> QED
        BY <1>0, <3>2
    <3> QED
      BY <3>3, <3>4
  <2>4. ASSUME clean', ~file.exists PROVE added = {}
    <3>1. file.text = EmptyText /\ Writing = {}
      BY <1>0, <2>4, AloneAtWork DEF SoundInv, FileSound
    <3> QED
      BY <1>0, <2>4, <3>1, StarterIsValid DEF SoundInv, FileSound, EmptyText
  <2>5. clean' => WorkSound(c)'
    BY <1>0, <2>1, <2>2, <2>3, <2>4 DEF WorkSound, Replacing, Holds, Additions
  <2> QED
    BY <1>0, <2>3, <2>5, LookSound, ActorSound
<1> QED
  BY <1>1, <1>2, <1>3 DEF Load, Return

LEMMA ValidateSound ==
  ASSUME TypeInv, Undisturbed, SoundInv, NEW c \in Clients, Validate(c)
  PROVE  SoundInv'
<1>0. /\ client \in [Clients -> States] /\ client[c] \in States
      /\ client[c].pc = "validate" /\ UNCHANGED <<file, clean, added>>
  BY DEF Validate, TypeInv, Types
<1>1. CASE Return(c)
  BY <1>0, <1>1, ReturnSound
<1>2. CASE ~Return(c)
  <2>1. /\ WouldBeValid(client[c].cmd, client[c].endpoint)
        /\ client' = [client EXCEPT ![c].pc = "raw", ![c].loaded = file.text]
    BY <1>2 DEF Validate
  <2>2. file.text \in Texts /\ "raw" \in Steps
    BY DEF TypeInv, Types, Files, Steps
  <2>3. /\ Others(c) /\ client'[c].pc = "raw" /\ client'[c].cmd = client[c].cmd
        /\ client'[c].endpoint = client[c].endpoint
    BY <1>0, <2>1, <2>2, MovedWithLoaded
  <2>4. WorkSound(c)'
    BY <1>0, <2>1, <2>3 DEF WorkSound, WouldBeValid
  <2> QED
    BY <1>0, <2>3, <2>4, LookSound, ActorSound
<1> QED
  BY <1>1, <1>2

\* What a command makes of a file that is valid and complete is valid and
\* complete, when nothing changed since it was validated.
LEMMA EditedSound ==
  ASSUME file \in Files, Valid(file.text), ~file.exists => file.text = EmptyText,
         file.text.inline \/ added \subseteq Keys(file.text.servers),
         NEW cmd \in CommandLines \cup {NoCommand}, cmd.op \in {"add", "update", "endpoint"},
         NEW endpoint \in Endpoints \cup {Unset},
         Editable(cmd), WouldBeValid(cmd, endpoint),
         NEW doc, doc = Edited(cmd, endpoint, file.text), ~Refused(cmd, doc)
  PROVE  /\ Valid(doc)
         /\ \/ doc.inline
            \/ (IF cmd.op = "add" THEN added \cup {Key[cmd.server.id]} ELSE added)
                 \subseteq Keys(doc.servers)
<1>1. file.text \in Texts
  BY DEF Files
<1>2. CASE cmd.op = "add"
  <2>1. doc = Appended(file.text, cmd.server) /\ cmd.server \in Tables
    BY <1>2, CommandFields DEF Edited
  <2>2. CASE file.text.inline
    BY <2>1, <2>2 DEF Appended
  <2>3. CASE ~file.text.inline
    <3>1. Valid([file.text EXCEPT !.servers = Append(@, cmd.server)])
      <4>1. CASE file.exists
        BY <1>2, <4>1 DEF WouldBeValid
      <4>2. CASE ~file.exists
        <5>1. Valid([EmptyText EXCEPT !.servers = <<cmd.server>>])
          BY <1>2, <4>2 DEF WouldBeValid, Loadable
        <5>2. [EmptyText EXCEPT !.servers = Append(@, cmd.server)]
              = [EmptyText EXCEPT !.servers = <<cmd.server>>]
          <6>1. Append(<< >>, cmd.server) = <<cmd.server>>
            OBVIOUS
          <6> QED
            BY <6>1 DEF EmptyText
        <5> QED
          BY <4>2, <5>1, <5>2
      <4> QED
        BY <4>1, <4>2
    <3>2. /\ Valid(Appended(file.text, cmd.server))
          /\ Keys(Appended(file.text, cmd.server).servers)
             = Keys(file.text.servers) \cup {Key[cmd.server.id]}
      BY <1>1, <2>1, <2>3, <3>1, AppendedIsValid
    <3> QED
      BY <1>2, <2>1, <2>3, <3>2
  <2> QED
    BY <2>2, <2>3
<1>3. CASE cmd.op = "update"
  <2>1. doc = FilledIn(file.text, file.text) /\ Valid(doc)
    BY <1>3 DEF Edited, Refused
  <2>2. Keys(doc.servers) = Keys(file.text.servers) /\ doc.inline = file.text.inline
    BY <1>1, <2>1, FilledInKeys
  <2> QED
    BY <1>3, <2>1, <2>2
<1>4. CASE cmd.op = "endpoint"
  <2>1. doc = WithEndpoint(file.text, cmd.id, cmd.transport, endpoint)
    BY <1>4 DEF Edited
  <2>2. /\ Valid(WithEndpoint(file.text, cmd.id, cmd.transport, endpoint))
        /\ Key[cmd.id] \in Keys(file.text.servers)
    BY <1>4 DEF WouldBeValid
  <2>3. cmd.transport \in Transports
    BY <1>4, CommandFields
  <2>4. Keys(doc.servers) = Keys(file.text.servers) /\ doc.inline = file.text.inline
    BY <1>1, <2>1, <2>2, <2>3, WithEndpointKeys
  <2> QED
    BY <1>4, <2>1, <2>2, <2>4
<1> QED
  BY <1>2, <1>3, <1>4

LEMMA ReadRawSound ==
  ASSUME TypeInv, Undisturbed, SoundInv, NEW c \in Clients, ReadRaw(c)
  PROVE  SoundInv'
<1>0. /\ client \in [Clients -> States] /\ client[c] \in States /\ file \in Files
      /\ client[c].pc = "raw" /\ UNCHANGED <<file, clean, added>>
      /\ client[c].cmd.op \in {"add", "update", "endpoint"}
  BY DEF ReadRaw, TypeInv, Types, PcFits
<1>1. CASE Return(c)
  BY <1>0, <1>1, ReturnSound
<1>2. CASE ~Return(c)
  <2>0. PICK doc : doc = Edited(client[c].cmd, client[c].endpoint, client[c].loaded)
    OBVIOUS
  <2>1. /\ Editable(client[c].cmd) /\ ~Refused(client[c].cmd, doc)
        /\ client' = [client EXCEPT ![c].pc = "open", ![c].doc = doc]
    BY <1>2, <2>0 DEF ReadRaw
  <2>2. /\ client[c].cmd \in CommandLines \cup {NoCommand}
        /\ client[c].endpoint \in Endpoints \cup {Unset} /\ client[c].loaded \in Texts
    BY <1>0 DEF States
  <2>3. /\ client'[c].pc = "open" /\ client'[c].cmd = client[c].cmd
        /\ client'[c].doc = doc
    BY <1>0, <2>1 DEF States
  <2>4. Others(c)
    <3> SUFFICES ASSUME NEW d \in Clients \ {c} PROVE client'[d] = client[d]
      BY Zenon DEF Others
    <3> QED
      BY <1>0, <2>1
  <2>5. ASSUME clean' PROVE FileSound' /\ WorkSound(c)'
    <3>1. clean /\ FileSound /\ WorkSound(c) /\ Writing = {}
      BY <1>0, <2>5, AloneAtWork DEF SoundInv
    <3>2. client[c].loaded = file.text
      BY <1>0, <3>1 DEF Undisturbed
    <3>3. WouldBeValid(client[c].cmd, client[c].endpoint)
      BY <1>0, <3>1 DEF WorkSound
    <3>4. /\ Valid(doc)
          /\ \/ doc.inline
             \/ (IF client[c].cmd.op = "add" THEN added \cup {Key[client[c].cmd.server.id]}
                                             ELSE added) \subseteq Keys(doc.servers)
      BY <1>0, <2>0, <2>1, <2>2, <3>1, <3>2, <3>3, EditedSound DEF FileSound
    <3>5. WorkSound(c)'
      BY <1>0, <2>3, <3>4 DEF WorkSound, Holds, Additions
    <3> QED
      BY <1>0, <3>1, <3>5, LookSound
  <2> QED
    BY <1>0, <2>4, <2>5, ActorSound
<1> QED
  BY <1>1, <1>2

LEMMA OpenSound ==
  ASSUME TypeInv, Undisturbed, SoundInv, NEW c \in Clients, Open(c)
  PROVE  SoundInv'
<1>0. /\ client \in [Clients -> States] /\ client[c] \in States
      /\ client[c].pc = "open" /\ clean' = clean /\ "write" \in Steps
      /\ client' = [client EXCEPT ![c].pc = "write"]
  BY DEF Open, Goto, TypeInv, Types, Steps
<1>1. /\ Others(c) /\ client'[c].pc = "write" /\ client'[c].cmd = client[c].cmd
      /\ client'[c].doc = client[c].doc
  BY <1>0, MovedTo
<1>2. file'.exists = TRUE /\ file'.ok = TRUE /\ file'.text = EmptyText
  <2>1. PICK private : private = (file.exists => file.private)
    OBVIOUS
  <2>2. file' = [Saved(EmptyText) EXCEPT !.private = private]
    BY <2>1 DEF Open
  <2> QED
    BY <2>2 DEF Saved, Absent
<1>3. added' = IF Replacing(client[c]) THEN {} ELSE added
  BY DEF Open, Replacing
<1>4. c \in Writing'
  BY <1>1 DEF Writing
<1>5. ASSUME clean' PROVE WorkSound(c)'
  <2>1. Valid(client[c].doc) /\ (Replacing(client[c]) \/ Holds(client[c]))
    BY <1>0, <1>5 DEF SoundInv, WorkSound
  <2>2. Holds(client[c])'
    <3>1. CASE Replacing(client[c])
      BY <1>1, <1>3, <3>1 DEF Replacing, Holds, Additions
    <3>2. CASE ~Replacing(client[c])
      BY <1>1, <1>3, <2>1, <3>2 DEF Holds, Additions
    <3> QED
      BY <3>1, <3>2
  <2> QED
    BY <1>1, <1>2, <2>1, <2>2 DEF WorkSound
<1>6. FileSound'
  BY <1>2, <1>4 DEF FileSound
<1> QED
  BY <1>0, <1>1, <1>5, <1>6, ActorSound

LEMMA WriteSound ==
  ASSUME TypeInv, Undisturbed, SoundInv, NEW c \in Clients, Write(c)
  PROVE  SoundInv'
<1>0. /\ client \in [Clients -> States] /\ client[c] \in States
      /\ client[c].pc = "write" /\ clean' = clean /\ added' = Additions(client[c])
  BY DEF Write, TypeInv, Types, Additions
<1>1. Others(c) /\ client'[c].pc \in {"load", "idle"}
  <2>1. CASE Return(c)
    BY <2>1, ReturnActs
  <2>2. CASE Goto(c, "load")
    <3>1. "load" \in Steps /\ client' = [client EXCEPT ![c].pc = "load"]
      BY <2>2 DEF Goto, Steps
    <3> QED
      BY <1>0, <3>1, MovedTo
  <2> QED
    BY <2>1, <2>2 DEF Write
<1>2. PICK whole \in BOOLEAN : /\ file.ok /\ file.text = EmptyText => whole
                               /\ file' = [Saved(client[c].doc) EXCEPT !.ok = whole]
  BY DEF Write
<1>3. file'.exists = TRUE /\ file'.ok = whole /\ file'.text = client[c].doc
  BY <1>2 DEF Saved, Absent
<1>4. ASSUME clean' PROVE FileSound'
  <2>1. Valid(client[c].doc) /\ Holds(client[c]) /\ whole = TRUE
    BY <1>0, <1>2, <1>4 DEF SoundInv, WorkSound
  <2> QED
    BY <1>0, <1>3, <2>1 DEF FileSound, Holds
<1>5. WorkSound(c)'
  BY <1>1 DEF WorkSound
<1> QED
  BY <1>0, <1>1, <1>4, <1>5, ActorSound

LEMMA FaultSound ==
  ASSUME TypeInv, Undisturbed, SoundInv, NEW c \in Clients, WriteFails(c) \/ Kill(c)
  PROVE  SoundInv'
<1>1. CASE WriteFails(c)
  BY <1>1 DEF WriteFails, SoundInv
<1>2. CASE Kill(c)
  <2>1. /\ client[c].pc # "idle" /\ Return(c) /\ UNCHANGED <<file, added>>
        /\ clean' => clean /\ c \notin Writing
    BY <1>2 DEF Kill
  <2>2. Others(c) /\ client'[c].pc = "idle"
    BY <2>1, ReturnActs
  <2>3. clean' => clean /\ client[c].pc # "write"
    BY <2>1 DEF Writing
  <2>4. clean' => FileSound'
    BY <2>1, <2>3, LookSound
  <2>5. WorkSound(c)'
    BY <2>2 DEF WorkSound
  <2> QED
    BY <2>1, <2>2, <2>4, <2>5, ActorSound
<1> QED
  BY <1>1, <1>2

LEMMA BeginSound ==
  ASSUME TypeInv, SoundInv, NEW c \in Clients, NEW cmd \in Commands, Begin(c, cmd)
  PROVE  SoundInv'
<1>1. /\ Others(c) /\ client'[c].pc \notin {"raw", "open", "write"}
      /\ UNCHANGED <<file, added>> /\ clean' = (clean /\ Active = {})
  BY BeginActs DEF Begin
<1> SUFFICES ASSUME clean' PROVE FileSound' /\ \A d \in Clients : WorkSound(d)'
  BY DEF SoundInv
<1>2. clean /\ \A d \in Clients : client[d].pc = "idle"
  BY <1>1 DEF Active
<1>3. \A d \in Clients : client'[d].pc \notin {"raw", "open", "write"}
  BY <1>1, <1>2 DEF Others
<1>4. FileSound'
  BY <1>1, <1>2, <1>3 DEF SoundInv, FileSound, Writing
<1> QED
  BY <1>3, <1>4 DEF WorkSound

LEMMA HandEditSound ==
  ASSUME TypeInv, SoundFiles, SoundInv, NEW f \in HandEdits, HandEdit(f)
  PROVE  SoundInv'
<1>1. /\ file' = f /\ client' = client /\ added' = added \cap Keys(f.text.servers)
      /\ clean' = (clean /\ Active = {})
  BY DEF HandEdit
<1> SUFFICES ASSUME clean' PROVE FileSound' /\ \A d \in Clients : WorkSound(d)'
  BY DEF SoundInv
<1>2. \A d \in Clients : client'[d].pc = "idle"
  BY <1>1 DEF Active
<1>3. FileSound'
  BY <1>1 DEF SoundFiles, FileSound
<1> QED
  BY <1>2, <1>3 DEF WorkSound

LEMMA StepSound ==
  ASSUME TypeInv, Undisturbed, SoundFiles, SoundInv, [Next]_vars PROVE SoundInv'
<1>1. CASE UNCHANGED vars
  BY <1>1 DEF vars, SoundInv, FileSound, WorkSound, Writing, Holds, Additions, Replacing,
              WouldBeValid, Loadable
<1>2. ASSUME NEW c \in Clients, CheckExists(c) \/ CreateStarter(c) \/ Load(c) \/ Merge(c)
      PROVE  SoundInv'
  BY <1>2, LookingSound
<1>3. ASSUME NEW c \in Clients,
             Validate(c) \/ ReadRaw(c) \/ Open(c) \/ Write(c) \/ WriteFails(c) \/ Kill(c)
      PROVE  SoundInv'
  BY <1>3, ValidateSound, ReadRawSound, OpenSound, WriteSound, FaultSound
<1>4. ASSUME NEW c \in Clients, NEW cmd \in Commands, Begin(c, cmd) PROVE SoundInv'
  BY <1>4, BeginSound
<1>5. ASSUME NEW f \in HandEdits, HandEdit(f) PROVE SoundInv'
  BY <1>5, HandEditSound
<1> QED
  BY <1>1, <1>2, <1>3, <1>4, <1>5 DEF Next

LEMMA InitUndisturbed == Init => Undisturbed
  BY DEF Init, Undisturbed, Active, Idle

LEMMA InitSound == ASSUME SoundFiles PROVE Init => SoundInv
<1> SUFFICES ASSUME Init PROVE SoundInv
  OBVIOUS
<1>1. FileSound
  BY DEF Init, SoundFiles, FileSound
<1>2. \A c \in Clients : WorkSound(c)
  BY DEF Init, Idle, WorkSound
<1> QED
  BY <1>1, <1>2 DEF SoundInv

LEMMA AlwaysSound == ASSUME SoundFiles PROVE Spec => [](TypeInv /\ SoundInv)
<1>1. Init => Undisturbed /\ SoundInv
  BY InitUndisturbed, InitSound
<1>2. TypeInv /\ Undisturbed /\ SoundInv /\ [Next]_vars => Undisturbed' /\ SoundInv'
  BY StepUndisturbed, StepSound
<1> QED
  BY <1>1, <1>2, AlwaysTypes, PTL DEF Spec

\* If the files that are found and saved by hand are valid, the commands
\* leave a valid one behind: whatever server is added, whatever endpoint is
\* changed and however the tables are rendered and filled in, ids stay unique
\* and every cluster and job still finds its servers.  Each command validates
\* the typed configuration and writes an edited text; the invariant carries
\* what the one says of the other from step to step.
THEOREM CommandsLeaveValid == ASSUME SoundFiles PROVE Spec => []ValidUnlessOverlapped
<1>1. SoundInv => ValidUnlessOverlapped
  BY DEF SoundInv, ValidUnlessOverlapped, Settled, FileSound
<1> QED
  BY <1>1, AlwaysSound, PTL

\* No other command removes a server whose addition was reported: only
\* `init --force` and an editor do, and an inline array never had it.
THEOREM AdditionsStay == ASSUME SoundFiles PROVE Spec => []AddedUnlessOverlapped
<1>1. SoundInv => AddedUnlessOverlapped
  BY DEF SoundInv, AddedUnlessOverlapped, Settled, FileSound
<1> QED
  BY <1>1, AlwaysSound, PTL
=============================================================================
