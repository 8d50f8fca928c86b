---------------------------- MODULE ConfigFile ----------------------------
(***************************************************************************)
(* The configuration file and the commands that read and change it.  Each  *)
(* command is a process: it looks at the file several times (to merge      *)
(* flags, to validate, to get the text that comments survive in), then     *)
(* truncates it and writes it.  There is no lock and no temporary file, so *)
(* every other command, an editor, a full disk or a kill can come between  *)
(* any two of these steps.                                                 *)
(***************************************************************************)
EXTENDS ConfigText, FiniteSets

CONSTANTS Clients,       \* processes that run commands
          Commands,      \* what they may be asked to do
          InitialFiles,  \* the file at the start
          HandEdits,     \* what an editor may save
          Starter,       \* the server of the starter configuration
          MaxCommands, MaxEdits, MaxFaults   \* bounds of the model

Absent   == [exists |-> FALSE, private |-> TRUE, ok |-> TRUE, text |-> EmptyText]
Saved(text) == [Absent EXCEPT !.exists = TRUE, !.text = text]

Files == [exists : BOOLEAN, private : BOOLEAN, ok : BOOLEAN, text : Texts]

CommandLines ==
  [op : {"init"}, force : BOOLEAN] \cup [op : {"run", "update"}] \cup
  [op : {"add"}, server : Tables] \cup
  [op : {"endpoint"}, id : Ids, transport : Transports,
   flag : {"clear", "disable", "address", "none"}]

ASSUME ConfigFileAssumption ==
  /\ InitialFiles \cup HandEdits \subseteq Files
  /\ Commands \subseteq CommandLines /\ Starter \in Tables
  /\ {MaxCommands, MaxEdits, MaxFaults} \subseteq Nat

VARIABLES file,    \* exists, owner-only, well-formed, and what it says
          client,  \* the command each process is in, and its local variables
          clean,   \* no two commands overlapped and no write broke off so far
          added,   \* keys of servers whose addition was reported
          budget   \* commands, edits and faults that are left

vars == <<file, client, clean, added, budget>>

Idle == [pc |-> "idle", cmd |-> [op |-> "none"], loaded |-> EmptyText,
         endpoint |-> Unset, doc |-> EmptyText]

Loadable(f) == f.exists /\ f.private /\ f.ok /\ Valid(f.text)

Active == {c \in Clients : client[c].pc # "idle"}
Writing == {c \in Clients : client[c].pc = "write"}

Goto(c, pc) == client' = [client EXCEPT ![c].pc = pc]
Return(c) == client' = [client EXCEPT ![c] = Idle]

Init ==
  /\ file \in InitialFiles
  /\ client = [c \in Clients |-> Idle]
  /\ clean = TRUE
  /\ added = {}
  /\ budget = [commands |-> MaxCommands, edits |-> MaxEdits, faults |-> MaxFaults]

FirstStep(cmd) ==
  CASE cmd.op = "init" -> "create"
    [] cmd.op = "run" -> "exists"
    [] cmd.op = "endpoint" -> "merge"
    [] OTHER -> "validate"

Begin(c, cmd) ==
  /\ client[c].pc = "idle"
  /\ budget.commands > 0
  /\ budget' = [budget EXCEPT !.commands = @ - 1]
  /\ client' = [client EXCEPT ![c] = [Idle EXCEPT !.pc = FirstStep(cmd), !.cmd = cmd]]
  /\ clean' = (clean /\ Active = {})
  /\ UNCHANGED <<file, added>>

\* Any command but `config` loads the file, and creates it if it is missing.
CheckExists(c) ==
  /\ client[c].pc = "exists"
  /\ Goto(c, IF file.exists THEN "load" ELSE "create")
  /\ UNCHANGED <<file, clean, added, budget>>

\* Slip: init replaces the file, with --force or without.
CreateStarterAnyway(c) ==
  /\ client[c].pc = "create"
  /\ client' = [client EXCEPT ![c].pc = "open", ![c].doc = Appended(EmptyText, Starter)]
  /\ UNCHANGED <<file, clean, added, budget>>

\* Without --force an existing file is left alone.
CreateStarter(c) ==
  /\ client[c].pc = "create"
  /\ IF file.exists /\ ~(client[c].cmd.op = "init" /\ client[c].cmd.force)
     THEN Return(c)
     ELSE client' = [client EXCEPT ![c].pc = "open",
                                   ![c].doc = Appended(EmptyText, Starter)]
  /\ UNCHANGED <<file, clean, added, budget>>

Load(c) ==
  /\ client[c].pc = "load"
  /\ client' = [client EXCEPT ![c] = Idle]
  /\ UNCHANGED <<file, clean, added, budget>>

\* Flags that are left out keep the value the endpoint has now.
Merge(c) ==
  LET cmd == client[c].cmd
      servers == file.text.servers
  IN /\ client[c].pc = "merge"
     /\ IF Loadable(file) /\ Key[cmd.id] \in Keys(servers)
        THEN client' = [client EXCEPT ![c].pc = "validate", ![c].endpoint =
               Merged(Resolved(servers[At(servers, cmd.id)])[cmd.transport], cmd.flag)]
        ELSE Return(c)
     /\ UNCHANGED <<file, clean, added, budget>>

\* Slip: the new server is not checked against the ones that are there.
WouldParse(cmd, endpoint) == cmd.op = "add" \/ Loadable(file)

\* The typed configuration with the change made to it has to be valid.
WouldBeValid(cmd, endpoint) ==
  CASE cmd.op = "add" ->
         \/ ~file.exists /\ Valid([EmptyText EXCEPT !.servers = <<cmd.server>>])
         \/ Loadable(file) /\ Valid([file.text EXCEPT !.servers = Append(@, cmd.server)])
    [] cmd.op = "update" -> Loadable(file)
    [] cmd.op = "endpoint" ->
         /\ Loadable(file)
         /\ Key[cmd.id] \in Keys(file.text.servers)
         /\ Valid(WithEndpoint(file.text, cmd.id, cmd.transport, endpoint))

Validate(c) ==
  /\ client[c].pc = "validate"
  /\ IF WouldBeValid(client[c].cmd, client[c].endpoint)
     THEN client' = [client EXCEPT ![c].pc = "raw", ![c].loaded = file.text]
     ELSE Return(c)
  /\ UNCHANGED <<file, clean, added, budget>>

\* The text is read once more, and the change made to it.
Edited(cmd, endpoint, loaded) ==
  CASE cmd.op = "add" -> Appended(file.text, cmd.server)
    [] cmd.op = "update" -> FilledIn(file.text, loaded)
    [] cmd.op = "endpoint" -> WithEndpoint(file.text, cmd.id, cmd.transport, endpoint)

Editable(cmd) ==
  CASE cmd.op = "add" -> file.ok
    [] cmd.op = "update" ->
         file.exists /\ file.ok /\ ~file.text.inline /\ file.text.servers # << >>
    [] cmd.op = "endpoint" ->
         /\ file.exists /\ file.ok /\ ~file.text.inline
         /\ Key[cmd.id] \in Keys(file.text.servers)

\* Slip: what the defaults are added to is not validated again.
RefusedIfSame(cmd, doc) == cmd.op = "update" /\ doc = file.text

\* Defaults are written only if there are any to add and the result is valid.
Refused(cmd, doc) == cmd.op = "update" /\ (doc = file.text \/ ~Valid(doc))

ReadRaw(c) ==
  LET s == client[c]
  IN /\ s.pc = "raw"
     /\ \/ /\ ~Editable(s.cmd)
           /\ Return(c)
        \/ /\ Editable(s.cmd)
           /\ LET doc == Edited(s.cmd, s.endpoint, s.loaded)
              IN IF Refused(s.cmd, doc) THEN Return(c)
                 ELSE client' = [client EXCEPT ![c].pc = "open", ![c].doc = doc]
     /\ UNCHANGED <<file, clean, added, budget>>

\* Opening the file to write it empties it; a new file is owner-only.
Open(c) ==
  /\ client[c].pc = "open"
  /\ file' = [Saved(EmptyText) EXCEPT !.private = file.exists => file.private]
  /\ added' = IF client[c].cmd.op = "init" /\ client[c].cmd.force THEN {} ELSE added
  /\ Goto(c, "write")
  /\ UNCHANGED <<clean, budget>>

\* What reaches the file lies over what another process wrote meanwhile; if
\* that was longer, its end stays behind.  Then the command reports success.
Write(c) ==
  LET s == client[c]
  IN /\ s.pc = "write"
     /\ \E whole \in BOOLEAN :
          /\ file.ok /\ file.text = EmptyText => whole
          /\ file' = [Saved(s.doc) EXCEPT !.ok = whole]
     /\ IF s.cmd.op = "run" THEN Goto(c, "load") ELSE Return(c)
     /\ added' = IF s.cmd.op = "add" THEN added \cup {Key[s.cmd.server.id]} ELSE added
     /\ UNCHANGED <<clean, budget>>

\* The disk is full: nothing or a part of the text is there.
WriteFails(c) ==
  /\ client[c].pc = "write"
  /\ budget.faults > 0
  /\ budget' = [budget EXCEPT !.faults = @ - 1]
  /\ \E ok \in BOOLEAN : file' = [file EXCEPT !.ok = ok]
  /\ Return(c)
  /\ clean' = FALSE
  /\ UNCHANGED added

Kill(c) ==
  /\ client[c].pc # "idle"
  /\ budget.faults > 0
  /\ budget' = [budget EXCEPT !.faults = @ - 1]
  /\ Return(c)
  /\ clean' = (clean /\ c \notin Writing)
  /\ UNCHANGED <<file, added>>

HandEdit(f) ==
  /\ budget.edits > 0
  /\ budget' = [budget EXCEPT !.edits = @ - 1]
  /\ file' = f
  /\ added' = added \cap Keys(f.text.servers)
  /\ clean' = (clean /\ Active = {})
  /\ UNCHANGED client

Next ==
  \/ \E c \in Clients :
       \/ \E cmd \in Commands : Begin(c, cmd)
       \/ CheckExists(c) \/ CreateStarter(c) \/ Load(c)
       \/ Merge(c) \/ Validate(c) \/ ReadRaw(c)
       \/ Open(c) \/ Write(c) \/ WriteFails(c) \/ Kill(c)
  \/ \E f \in HandEdits : HandEdit(f)

Spec == Init /\ [][Next]_vars

-----------------------------------------------------------------------------
Steps == {"idle", "exists", "create", "load", "merge", "validate", "raw",
          "open", "write"}

TypeOK ==
  /\ {file.exists, file.private, file.ok, clean} \subseteq BOOLEAN
  /\ {file.text.servers[n] : n \in DOMAIN file.text.servers} \subseteq Tables
  /\ file.text.refs \subseteq References
  /\ \A c \in Clients :
       /\ client[c].pc \in Steps
       /\ client[c].endpoint \in Endpoints \cup {Unset}
  /\ added \subseteq {Key[id] : id \in Ids}
  /\ budget \in [commands : 0..MaxCommands, edits : 0..MaxEdits, faults : 0..MaxFaults]

Settled == clean /\ Writing = {}

\* Files that are found, saved by hand or created for a start are accepted.
SoundFiles ==
  /\ \A f \in InitialFiles \cup HandEdits :
       f.ok /\ Valid(f.text) /\ (~f.exists => f.text = EmptyText)
  /\ Valid([EmptyText EXCEPT !.servers = <<Starter>>])

\* As long as commands run one after the other and no write breaks off, what
\* they leave behind is a valid configuration: unique ids, known references,
\* addresses where they are needed, although each command validates another
\* object than the text it writes.
ValidUnlessOverlapped == Settled => file.ok /\ Valid(file.text)

\* An added server stays until the file is replaced, whatever the other
\* commands fill in or change.  Not so if servers are written as an inline
\* array: the addition is then reported although nothing is added.
AddedUnlessOverlapped ==
  Settled /\ ~file.text.inline => added \subseteq Keys(file.text.servers)

\* Filling in defaults spells out what the program did anyway: no server
\* gets another URL, permission or endpoint from `config update`.
UpdateKeepsMeaning ==
  \A c \in Clients :
    LET s == client[c]
    IN clean /\ s.cmd.op = "update" /\ s.pc \in {"open", "write"} =>
         /\ Len(s.doc.servers) = Len(s.loaded.servers)
         /\ \A n \in DOMAIN s.doc.servers :
              Resolved(s.doc.servers[n]) = Resolved(s.loaded.servers[n])

\* However commands overlap, `config update` never writes a configuration
\* that would be refused when it is loaded.
UpdateWritesValid ==
  \A c \in Clients :
    client[c].cmd.op = "update" /\ client[c].pc \in {"open", "write"} =>
      Valid(client[c].doc)
=============================================================================
