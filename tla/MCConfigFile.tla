--------------------------- MODULE MCConfigFile ---------------------------
(* Commands, files and edits that make ConfigFile small. *)
EXTENDS ConfigFile, TLC

Symmetry == Permutations(Clients)

\* "Home" and "home" are one id.
MCIds == {"home", "Home", "cf"}
MCKey == [id \in MCIds |-> IF id = "Home" THEN "home" ELSE id]

Bare == [id |-> "home", vendor |-> Unset, base |-> Unset, flat |-> {Unset},
         readonly |-> FALSE, mcp |-> NoMcp, cluster |-> Unset,
         dns |-> Unset, doh |-> Unset]

Technitium == [Bare EXCEPT !.vendor = "technitium", !.base = "localhost",
                           !.flat = Rules]

\* Hand-written servers that leave things out in different ways.
ReadOnly   == [Bare EXCEPT !.readonly = TRUE, !.base = "env"]
Nested     == [Bare EXCEPT !.flat = {"read", "write"},
                           !.mcp = [here |-> TRUE, access |-> {Unset}, show |-> "yes"]]
Cloudflare == [Bare EXCEPT !.id = "cf", !.vendor = "cloudflare", !.dns = "off",
                           !.mcp = [here |-> TRUE, access |-> {"read"}, show |-> Unset]]
LocalProxy == [Cloudflare EXCEPT !.base = "localhost"]

With(servers) == Saved([EmptyText EXCEPT !.servers = servers])
Job           == [kind |-> "job", from |-> "Home", to |-> "cf"]

Add(server) == [op |-> "add", server |-> server]
Endpoint(id, transport, flag) ==
  [op |-> "endpoint", id |-> id, transport |-> transport, flag |-> flag]

MCCommands ==
  {[op |-> "init", force |-> FALSE], [op |-> "init", force |-> TRUE],
   [op |-> "run"], [op |-> "update"],
   Add([Technitium EXCEPT !.id = "Home"]), Add([Cloudflare EXCEPT !.flat = {"read"}]),
   Endpoint("cf", "dns", "address"), Endpoint("home", "doh", "disable"),
   Endpoint("Home", "doh", "none"), Endpoint("cf", "doh", "clear")}

\* An inline array of servers says the same as [[servers]] tables do.
MCInitialFiles ==
  {Absent, With(<<ReadOnly, Cloudflare>>), With(<<LocalProxy, Nested>>),
   [With(<<ReadOnly>>) EXCEPT !.text.inline = TRUE]}

MCHandEdits ==
  {Absent, [With(<<Cloudflare>>) EXCEPT !.private = FALSE],
   [With(<<ReadOnly, Cloudflare>>) EXCEPT !.text.refs = {Job}]}

\* No file or edit here is one a load refuses, as the theorems about commands
\* ask (with it, a file a load refuses is one that a command wrote).
ASSUME MCSound == SoundFiles
=============================================================================
