---------------------------- MODULE MCOperations ----------------------------
(***************************************************************************)
(* A small instance of Operations: a server of each vendor and a second    *)
(* Technitium, two zones, one caller that makes any call and one that      *)
(* works on records at the vendors whose operations take several requests. *)
(***************************************************************************)
EXTENDS Operations

CONSTANTS tech, spare, cloud, site, hole, org, \* servers
          c1, c2                               \* clients

MCServers  == {tech, spare, cloud, site, hole, org}
MCVendorOf ==
  [s \in MCServers |->
     CASE s \in {tech, spare} -> "technitium" [] s = cloud -> "cloudflare"
       [] s = site -> "unifi" [] s = hole -> "pihole" [] s = org -> "pangolin"]

\* The zones stand for domains of two labels, the labels for names of one.
MCZones   == {"home", "lab"}
\* Names under a zone, one of them deeper, and the zones' own.
MCNames   == {"home", "www.home", "mail.home", "a.www.home", "www.lab", "www.home.lab"}
MCZoneOf  == [n \in MCNames |-> IF n \in {"www.lab", "www.home.lab"} THEN "lab" ELSE "home"]
MCZonePlace == ("lab" :> 0) @@ ("home" :> 1)
MCLabels  == {"www", "mail"}
MCUnder   == ("home" :> [l \in MCLabels |-> IF l = "www" THEN "www.home" ELSE "mail.home"])
               @@ ("lab" :> (("www" :> "www.lab") @@ ("mail" :> "mail.lab")
                               @@ ("www.home" :> "www.home.lab")))
MCDomains == MCZones \cup MCNames \cup MCLabels \cup {"mail.lab", "home.lab"}

\* The domain one label up.
MCParent  ==
  [d \in MCDomains |->
     CASE d \in {"www.home", "mail.home"} -> "home" [] d \in {"www.lab", "mail.lab", "home.lab"} -> "lab"
       [] d = "a.www.home" -> "www.home" [] d = "www.home.lab" -> "home.lab" [] OTHER -> None]
MCWithin  ==
  [d \in MCDomains |->
     {d} \cup ({MCParent[d]} \ {None})
         \cup (CASE d = "a.www.home" -> {"home"} [] d = "www.home.lab" -> {"lab"} [] OTHER -> {})]

A(ip)   == [type |-> "A", value |-> [ipAddress |-> ip]]
Alias(t) == [type |-> "CNAME", value |-> [cname |-> t]]
Txt(t, split) == [type |-> "TXT", value |-> [text |-> t, splitText |-> split]]
Mx(x, p) == [type |-> "MX", value |-> [exchange |-> x, preference |-> p]]
Ns(n) == [type |-> "NS", value |-> [nameServer |-> n]]
Ds(alg, dig) == [type |-> "DS", value |-> [keyTag |-> "1", algorithm |-> alg,
                 digestType |-> dig, digest |-> "d"]]
Tlsa(u) == [type |-> "TLSA", value |-> [tlsaCertificateUsage |-> u,
            tlsaSelector |-> "SPKI", tlsaMatchingType |-> "SHA2-512",
            tlsaCertificateAssociationData |-> "c"]]
Fwd == [type |-> "FWD", value |-> [forwarder |-> "f", protocol |-> "Tls",
        forwarderPriority |-> "10", dnssecValidation |-> "true"]]

\* A selector that names the type alone.
AnyOf(t) == [type |-> t, value |-> << >>]

A1 == A("1.1.1.1")
A2 == A("2.2.2.2")

\* Every call's record, each field given a value.
Ask(op, s, n, d) ==
  [op |-> op, server |-> s, zone |-> MCZoneOf[n], name |-> n, data |-> d,
   query |-> [domain |-> MCZoneOf[n], zone |-> TRUE, all |-> TRUE],
   payload |-> "object", flag |-> "add", to |-> s]

\* A name of one zone, asked for under the other.
Outside(op, s) == [Ask(op, s, "www.lab", A2) EXCEPT !.name = "www.home"]

\* A listing, of a domain with or without its zone or of everything.
Listing(s, domain, zone, all) ==
  [Ask("list_records", s, "www.home", A1) EXCEPT
     !.query = [domain |-> domain, zone |-> zone, all |-> all]]

Listings(s, domains) ==
  {Listing(s, d, zone, all) : d \in domains \ {None}, zone \in BOOLEAN, all \in BOOLEAN}
    \cup {Listing(s, None, FALSE, all) : all \in (IF None \in domains THEN BOOLEAN ELSE {})}

Each(n, d) == {Ask(op, s, n, d) : op \in DnsService, s \in MCServers}

Added == {A2, Txt("t", "true"), Mx("m", "20"), Ns("ns"), Ds("ED25519", "SHA384"),
          Tlsa("DANE-TA"), Fwd}

Payloads == {[Ask(op, s, "www.home", A1) EXCEPT !.payload = p] :
               op \in {"set_settings", "set_zone_options"}, s \in {tech, cloud},
               p \in {"reserved", "other"}}

Transfers == {[Ask("transfer_zone", s, "www.home", A1) EXCEPT !.to = t, !.flag = f] :
                s \in {tech, cloud, site}, t \in {tech, spare, cloud, org},
                f \in {"add", "rrsets", "zone"}}

Imports == {[Ask("import_zone_file", s, "www.home", A2) EXCEPT !.flag = f] :
              s \in {tech, cloud}, f \in {"rrsets", "zone"}}

\* The options are none, or ones that narrow.
NoOptions == [allowed |-> {}, allowed_zones |-> {}]
Narrow    == [allowed |-> {"read", "write"}, allowed_zones |-> {"lab"}]

Alone(S) == (c1 :> S) @@ (c2 :> {})
Load(asks, shared, cli) == [asks |-> asks, shared |-> shared, cli |-> cli]
Through(mcp, S) == {[mcp |-> mcp, ask |-> a] : a \in S}

\* Through MCP any operation at any server; records in the other zone, and
\* names that are not in the zone they are asked for under.
Tools == Each("www.home", A1)
           \cup {Ask(op, s, "www.lab", A2) : s \in {tech, cloud},
                  op \in {"delete_zone", "add_record", "create_zone"}}
           \cup {Outside(op, s) : op \in {"add_record", "delete_record"},
                                  s \in {tech, cloud, site, hole}}
           \cup {Ask(op, spare, "www.lab", A1) : op \in {"create_zone", "disable_zone", "export_zone_file"}}
           \cup {a \in Transfers : a.flag = "zone"}

\* On the command line payloads, zone files and every form of data.
Lines == Payloads \cup Imports
           \cup {Ask("add_record", s, "www.home", d) : s \in MCServers, d \in Added}
           \cup {Ask("delete_record", s, "www.home", SelectorFor(d)) :
                   s \in MCServers \ {org}, d \in {A1, A2, Ns("ns"), Mx("m", "20")}}
           \cup {Ask("delete_record", s, "www.home", AnyOf("A")) : s \in MCServers \ {org}}

\* Calls of several requests, or that disturb them, at one server.
Records(s) ==
  Through(FALSE, {Ask(op, s, "www.home", A1) : op \in {"delete_record", "list_records"}}
    \cup {Ask("add_record", s, "www.home", A2)}
    \cup IF s = site THEN {}
         ELSE {Ask(op, s, "www.home", A2) : op \in {"delete_zone", "import_zone_file"}}
                \cup {Ask("delete_record", s, "www.home", SelectorFor(Ns("ns")))})

\* Listings across the zones while another caller deletes or creates a zone.
Searches(s) == Through(FALSE, Listings(s, {None, "www"}))
Rezones(s)  == Through(FALSE, {Ask("delete_zone", s, n, A1) : n \in {"www.home", "www.lab"}}
                                \cup {Ask("create_zone", s, "www.lab", A1)})

Everything == {None, "home", "www.home", "a.www.home", "www", "mail"}

\* One caller alone, one whose server others change, or two at one server.
MCWorkloads ==
  {Load(Alone(Through(TRUE, Tools)), {}, cli) : cli \in {NoOptions, Narrow}}
  \cup {Load(Alone(Through(FALSE, Lines)), {}, NoOptions)}
  \cup {Load(Alone(Through(FALSE, Transfers)), {s}, NoOptions) : s \in {tech, cloud}}
  \cup {Load(Alone(Through(TRUE, Listings(s, Everything))), {}, cli) :
           s \in MCServers \ {spare}, cli \in {NoOptions, Narrow}}
  \cup {Load(Alone(Searches(s)), {s}, NoOptions) : s \in {tech, org}}
  \cup {Load((c1 :> Searches(s)) @@ (c2 :> Rezones(s)), {}, NoOptions) : s \in {tech, cloud, spare}}
  \cup {Load(Alone(Records(s)), {s}, NoOptions) : s \in {tech, hole}}
  \cup {Load((c1 :> Records(s)) @@ (c2 :> Records(s)), {s}, NoOptions) : s \in {cloud, site}}

Rec(id, n, d) == [id |-> id, name |-> n, data |-> d]

MCInitHeld ==
  [s \in MCServers |->
     CASE s = tech  -> {Rec(0, "www.home", A1), Rec(0, "mail.home", Mx("m", "20")),
                         Rec(0, "home", Ns("ns")), Rec(0, "a.www.home", A1), Rec(0, "www.lab", A1)}
       [] s = spare -> {Rec(0, "www.home", A2)}
       [] s = cloud -> {Rec(1, "www.home", A1), Rec(2, "www.home", A2), Rec(3, "www.home", Ns("ns")),
                         Rec(7, "www.home", Ns("ns2"))}
       [] s = site  -> {Rec(4, "www.home", A1), Rec(5, "www.home", A2), Rec(6, "www.lab", A1)}
       [] s = hole  -> {Rec(0, "www.home", A1), Rec(0, "www.lab", Alias("x"))}
       [] s = org   -> {Rec(0, "home", Kept("pangolin", Ns("ns"))), Rec(0, "www.home", A1), Rec(0, "www.lab", A1)}]

MCInitZones ==
  [s \in MCServers |-> [z \in MCZones |->
     IF s \in {cloud, spare} THEN (IF z = "home" THEN 8 ELSE 0)
     ELSE IF z = "home" THEN 8 ELSE 9]]

MCOthers ==
  [s \in MCServers |->
     IF s \in {cloud, site} THEN {[name |-> "www.home", data |-> A2]}
     ELSE IF s = tech THEN {[name |-> "mail.home", data |-> A2]} ELSE {}]

\* The configuration grants the Technitium server "home" alone, and no
\* deletes at Cloudflare.
MCConf ==
  [s \in MCServers |->
     [allowed |-> IF s = cloud THEN {"read", "write"} ELSE PolicyRule,
      allowed_zones |-> IF s = tech THEN {"home"} ELSE {}]]

MCClients == {c1, c2}

Base == Added \cup {A1, Alias("x"), Ns("ns2")}

MCData == Base \cup {SelectorFor(d) : d \in Base} \cup {AnyOf("A")}

\* What each vendor makes of a record, and then Technitium or Cloudflare of
\* that, from one to the other.
Made    == UNION {{Kept(v, d) : d \in Given(v)} : v \in VendorKind}
MCForms ==
  LET after[n \in 0..6] ==
        IF n = 0 THEN Made
        ELSE after[n - 1] \cup {Kept(v, d) : v \in {"technitium", "cloudflare"}, d \in after[n - 1]}
  IN after[6]
=============================================================================
