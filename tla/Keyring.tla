-------------------------------- MODULE Keyring --------------------------------
(***************************************************************************)
(* Who may do what in a vault.  The keyring of the process that owns the   *)
(* vault keeps the agents, the digest of each one's bearer token, its      *)
(* grants and whether it is revoked; every change is made in memory and    *)
(* then saved to agents.json, which is all that the next owner reads.      *)
(*                                                                         *)
(* A tool call is authenticated, passes the identity gate, then asks for   *)
(* each scope it needs, and acts: administrators change the keyring        *)
(* between any two of these steps.  `tuskd agent setup` makes the agent or *)
(* replaces its token and puts an entry in the configuration of a client,  *)
(* which its user edits too.                                               *)
(*                                                                         *)
(* A token is the number of its minting, and a private key that of the     *)
(* token it was made with.  The scopes `user` and `org` behave as a        *)
(* project with one id.                                                    *)
(***************************************************************************)
EXTENDS Integers, FiniteSets

CONSTANTS
  Agent,
  Foreign,     \* authors of imported records, unknown to this keyring
  Project,
  Caller,      \* connections on which tools are called
  ANY,         \* the id of a `kind:*` pattern
  Asked,       \* patterns that administrators grant
  Imported,    \* records an import brought
  NONE,
  MaxTokens,   \* bound: tokens minted
  MaxGrants,   \* bound: grants asked for
  MaxNotes,    \* bound: records in the vault
  MaxSetups,   \* bound: runs of the setup
  MaxEdits,    \* bound: edits of the client's configuration by its user
  MaxFaults    \* bound: writes that fail or are cut

Scope == [kind : {"agent"}, id : Agent \cup Foreign] \cup [kind : {"project"}, id : Project]
Pattern == Scope \cup [kind : {"agent", "project"}, id : {ANY}]
Verb == {"read", "write", "promote"}
Note == [author : Agent \cup Foreign, scope : Scope]
Token == 1..MaxTokens
Entries == [token : Token, key : Token, revoked : BOOLEAN,
            grants : [Verb -> SUBSET Pattern]]

ASSUME KeyringAssumption ==
  /\ Agent \cap Foreign = {} /\ ANY \notin Agent \cup Foreign \cup Project
  /\ NONE \notin Agent \cup {ANY} \cup Nat /\ NONE \notin Entries
  /\ Asked \in SUBSET Pattern /\ Imported \in SUBSET Note
  /\ MaxTokens \in Nat /\ MaxGrants \in Nat /\ MaxNotes \in Nat /\ MaxSetups \in Nat
  /\ MaxEdits \in Nat /\ MaxFaults \in Nat

VARIABLES
  ring,      \* the keyring in memory
  disk,      \* agents.json
  keys,      \* the private key kept under keyring/keys/, per agent
  creating,  \* agents in the keyring whose key file is still to be written
  session,   \* per caller: the agent of its open session
  call,      \* per caller: the call being made
  notes,     \* the records of the vault: author and scope
  config,    \* the client's configuration file
  backups,   \* contents of it that a backup holds
  setup,     \* the run of `agent setup`
  minted, granted, setups, faults,
  handed,    \* history: the last token of an agent that anybody was told
  last,      \* history: the last token minted for an agent
  doubted,   \* history: agents somebody tried to revoke
  out,       \* history: agents whose revocation was acknowledged
  mine,      \* history: the last content the user gave the configuration
  exposed    \* history: that edit fell between a setup's read and its write

roster == <<ring, disk, keys, creating>>
calls == <<session, call, notes>>
client == <<config, backups, mine, exposed>>
counts == <<minted, granted, setups, faults>>
told == <<handed, last, doubted, out>>
vars == <<roster, calls, client, setup, counts, told>>

-----------------------------------------------------------------------------
(* The keyring.                                                            *)

pattern_matches(pattern, scope) ==
  \/ pattern = scope
  \/ pattern.id = ANY /\ pattern.kind = scope.kind

own(a) == [kind |-> "agent", id |-> a]

Known(a) == ring[a] # NONE
Live(a) == Known(a) /\ ~ring[a].revoked

can(a, verb, scope) ==
  /\ Live(a)
  /\ \/ verb \in {"read", "write"} /\ scope = own(a)
     \/ \E p \in ring[a].grants[verb] : pattern_matches(p, scope)

\* The agents that a token authenticates.
auth_by_token(token) == {a \in Agent : Live(a) /\ ring[a].token = token}

NoCall == [pc |-> "idle", agent |-> NONE, late |-> FALSE, verb |-> NONE,
           scopes |-> {}, note |-> NONE]

\* The owner of the vault ends, or gives it up; the next one opens agents.json.
\* Sessions are checked again when they come back.
Reopen(saved) ==
  /\ ring' = saved
  /\ creating' = {}
  /\ session' = [c \in Caller |-> NONE]
  /\ call' = [c \in Caller |-> NoCall]

Requester == {"cli", "setup"}

NoFile == [state |-> "missing", text |-> 0, entry |-> NONE]
Idle == [pc |-> "idle", agent |-> NONE, http |-> FALSE, token |-> 0,
         old |-> 0, new |-> NoFile]

\* A setup whose request is refused ends with an error.
Refused(who) == setup' = IF who = "setup" THEN Idle ELSE setup

\* The owner died: whoever waits for its answer gets none.
Cut(who) ==
  setup' = IF who = "setup" \/ setup.pc = "custody" THEN Idle ELSE setup

Fault == faults < MaxFaults /\ faults' = faults + 1

\* Mutant: the keyring is saved as it was before the change.
Save_Before(who, new, Then) ==
  \/ /\ ring' = new /\ disk' = ring
     /\ Then
     /\ UNCHANGED <<session, call, faults>>
  \/ /\ Fault
     /\ ring' = new /\ Refused(who)
     /\ UNCHANGED <<disk, creating, session, call, handed, out>>
  \/ /\ Fault
     /\ disk' = new /\ Reopen(new) /\ Cut(who)
     /\ UNCHANGED <<handed, out>>

\* with_state and save: memory first, then a new file renamed over the old.
\* Then is what the answer brings about; a save that fails is an error, and a
\* process that dies behind the rename answers nothing.
Save(who, new, Then) ==
  \/ /\ ring' = new /\ disk' = new
     /\ Then
     /\ UNCHANGED <<session, call, faults>>
  \/ /\ Fault
     /\ ring' = new /\ Refused(who)
     /\ UNCHANGED <<disk, creating, session, call, handed, out>>
  \/ /\ Fault
     /\ disk' = new /\ Reopen(new) /\ Cut(who)
     /\ UNCHANGED <<handed, out>>

open ==
  /\ Reopen(disk) /\ Cut("cli")
  /\ UNCHANGED <<disk, keys, notes, client, counts, told>>

Mint(a) ==
  /\ minted < MaxTokens
  /\ minted' = minted + 1
  /\ last' = [last EXCEPT ![a] = minted + 1]

-----------------------------------------------------------------------------
(* Administration.                                                         *)

\* DEFAULT_READ and DEFAULT_WRITE; what `agent create` is given comes from grant.
Default(who) ==
  [v \in Verb |-> IF who = "setup" /\ v # "promote"
                  THEN {[kind |-> "project", id |-> ANY]} ELSE {}]

\* Mutant: the key file is written before the agent is saved.
create_KeyFirst(who, a) ==
  /\ ~Known(a) /\ Mint(a)
  /\ Save(who, [ring EXCEPT ![a] = [token |-> minted + 1, key |-> minted + 1,
                                    revoked |-> FALSE, grants |-> Default(who)]],
          /\ creating' = creating \cup {<<a, who>>}
          /\ setup' = IF who = "setup" THEN [setup EXCEPT !.pc = "custody"] ELSE setup
          /\ UNCHANGED <<handed, out>>)
  /\ keys' = [keys EXCEPT ![a] = minted + 1]
  /\ UNCHANGED <<notes, client, granted, setups, doubted>>

\* Any entry of that id, a revoked one too, refuses a second.
create(who, a) ==
  /\ ~Known(a) /\ Mint(a)
  /\ Save(who, [ring EXCEPT ![a] = [token |-> minted + 1, key |-> minted + 1,
                                    revoked |-> FALSE, grants |-> Default(who)]],
          /\ creating' = creating \cup {<<a, who>>}
          /\ setup' = IF who = "setup" THEN [setup EXCEPT !.pc = "custody"] ELSE setup
          /\ UNCHANGED <<handed, out>>)
  /\ UNCHANGED <<keys, notes, client, granted, setups, doubted>>

\* The administrator, or the setup, is told the token.
Tell(who, a, token) ==
  /\ handed' = [handed EXCEPT ![a] = IF token > @ THEN token ELSE @]
  /\ setup' = IF who = "setup" THEN [setup EXCEPT !.pc = "edit",
                                       !.token = IF setup.http THEN token ELSE 0]
              ELSE setup

\* The key file is written behind the keyring (or the key only printed), and
\* the answer sent then: without the file, the token is told to nobody.
write_private(who, a) ==
  /\ <<a, who>> \in creating
  /\ creating' = creating \ {<<a, who>>}
  /\ \/ /\ keys' = [keys EXCEPT ![a] = ring[a].key]
        /\ Tell(who, a, ring[a].key)
        /\ UNCHANGED faults
     \/ /\ who = "cli"
        /\ Tell(who, a, ring[a].key)
        /\ UNCHANGED <<keys, faults>>
     \/ /\ Fault /\ Refused(who)
        /\ UNCHANGED <<keys, handed>>
  /\ UNCHANGED <<ring, disk, calls, client, minted, granted, setups, last, doubted, out>>

grant(a, verb, p) ==
  /\ Known(a) /\ granted < MaxGrants
  /\ granted' = granted + 1
  /\ Save("cli", [ring EXCEPT ![a].grants[verb] = @ \cup {p}],
          UNCHANGED <<creating, handed, out, setup>>)
  /\ UNCHANGED <<keys, notes, client, minted, setups, last, doubted>>

rotate_token(who, a) ==
  /\ Live(a) /\ Mint(a)
  /\ Save(who, [ring EXCEPT ![a].token = minted + 1],
          Tell(who, a, minted + 1) /\ UNCHANGED <<creating, out>>)
  /\ UNCHANGED <<keys, notes, client, granted, setups, doubted>>

revoke(a) ==
  /\ Known(a)
  /\ doubted' = doubted \cup {a}
  /\ Save("cli", [ring EXCEPT ![a].revoked = TRUE],
          out' = out \cup {a} /\ UNCHANGED <<creating, handed, setup>>)
  /\ UNCHANGED <<keys, notes, client, minted, granted, setups, last>>

-----------------------------------------------------------------------------
(* Tool calls.                                                             *)

Begin(c, a) ==
  call' = [call EXCEPT ![c] = [NoCall EXCEPT !.pc = "dispatch", !.agent = a,
                                             !.late = a \in out]]

Admit(c, verb, scopes, note) ==
  call' = [call EXCEPT ![c].pc = "act", ![c].verb = verb, ![c].scopes = scopes,
                       ![c].note = note]

Deny(c) == call' = [call EXCEPT ![c] = NoCall]

Others == <<roster, client, setup, counts, told>>

\* A session header, or an embedded session: the agent is looked up once.
handle_uds(c) ==
  /\ session[c] = NONE /\ call[c].pc = "idle"
  /\ \E a \in Agent : Live(a) /\ session' = [session EXCEPT ![c] = a]
  /\ UNCHANGED <<Others, call, notes>>

line(c) ==
  /\ session[c] # NONE /\ call[c].pc = "idle"
  /\ Begin(c, session[c])
  /\ UNCHANGED <<Others, session, notes>>

\* A request of its own, by the bearer of a token somebody was told.
http_mcp(c) ==
  /\ session[c] = NONE /\ call[c].pc = "idle"
  /\ \E x \in Agent : handed[x] # 0 /\ \E a \in auth_by_token(handed[x]) : Begin(c, a)
  /\ UNCHANGED <<Others, session, notes>>

\* Mutant: only the sessions' first check looks at revocation.
dispatch_Ungated(c) ==
  /\ call[c].pc = "dispatch"
  /\ IF Known(call[c].agent) THEN call' = [call EXCEPT ![c].pc = "tool"] ELSE Deny(c)
  /\ UNCHANGED <<Others, session, notes>>

dispatch(c) ==
  /\ call[c].pc = "dispatch"
  /\ IF Live(call[c].agent) THEN call' = [call EXCEPT ![c].pc = "tool"] ELSE Deny(c)
  /\ UNCHANGED <<Others, session, notes>>

Tool(c) == call[c].pc = "tool" /\ UNCHANGED <<Others, session, notes>>

\* A correction asks for the scope of the old record after that of the new.
memory_write(c) ==
  /\ Tool(c)
  /\ \E s \in Scope :
       IF can(call[c].agent, "write", s)
       THEN \/ Admit(c, "write", {s}, NONE)
            \/ \E n \in notes : call' = [call EXCEPT ![c].pc = "supersede",
                                                     ![c].scopes = {s}, ![c].note = n]
       ELSE Deny(c)

supersede(c) ==
  /\ call[c].pc = "supersede"
  /\ LET note == call[c].note IN
     IF can(call[c].agent, "write", note.scope)
     THEN Admit(c, "write", call[c].scopes \cup {note.scope}, NONE)
     ELSE Deny(c)
  /\ UNCHANGED <<Others, session, notes>>

\* The scopes of memory_search and skill_list when none are named: wildcards
\* are expanded against the scopes of the index.
entitled_read_scopes(a) ==
  {own(a)} \cup {s \in Scope : s \in ring[a].grants["read"]}
           \cup {n.scope : n \in {m \in notes : \E p \in ring[a].grants["read"] :
                                    p.id = ANY /\ pattern_matches(p, m.scope)}}

memory_search(c) ==
  /\ Tool(c)
  /\ \/ Admit(c, "read", entitled_read_scopes(call[c].agent), NONE)
     \/ \E s \in Scope : IF can(call[c].agent, "read", s)
                         THEN Admit(c, "read", {s}, NONE) ELSE Deny(c)

\* So does memory_feedback ask for the scope of the record it has read.
memory_get(c) ==
  /\ Tool(c)
  /\ \E n \in notes : IF can(call[c].agent, "read", n.scope)
                      THEN Admit(c, "read", {n.scope}, NONE) ELSE Deny(c)

memory_promote(c) ==
  /\ Tool(c)
  /\ \E s \in Scope : IF can(call[c].agent, "promote", s) \/ can(call[c].agent, "write", s)
                      THEN Admit(c, "promote", {s}, NONE) ELSE Deny(c)

\* No grant is asked for: authorship or the own scope.
memory_forget(c) ==
  /\ Tool(c)
  /\ \E n \in notes : IF n.scope = own(call[c].agent) \/ n.author = call[c].agent
                      THEN Admit(c, "forget", {n.scope}, n) ELSE Deny(c)

\* The call does what it was admitted to.
act(c) ==
  /\ call[c].pc = "act"
  /\ \/ call[c].verb \in {"read", "forget"}
     \/ Cardinality(notes) + Cardinality(call[c].scopes) <= MaxNotes
  /\ notes' = CASE call[c].verb = "forget" -> notes \ {call[c].note}
                [] call[c].verb \in {"write", "promote"} ->
                     notes \cup [author : {call[c].agent}, scope : call[c].scopes]
                [] OTHER -> notes
  /\ Deny(c)
  /\ UNCHANGED <<Others, session>>

-----------------------------------------------------------------------------
(* agent setup, and the configuration file it edits.                       *)

Over == {"idle", "done"}
Setup(l) == setup' = IF l = "idle" THEN Idle ELSE [setup EXCEPT !.pc = l]

run(a, http) ==
  /\ setup.pc \in Over /\ setups < MaxSetups
  /\ setups' = setups + 1
  /\ setup' = [Idle EXCEPT !.pc = "ensure", !.agent = a, !.http = http]
  /\ UNCHANGED <<roster, calls, client, minted, granted, faults, told>>

\* ensure_agent, and the token of a client that connects over HTTP.
ensure_agent ==
  /\ setup.pc = "ensure"
  /\ Setup(CASE ~Known(setup.agent) -> "create"
             [] Known(setup.agent) /\ ring[setup.agent].revoked -> "idle"
             [] OTHER -> IF setup.http THEN "rotate" ELSE "edit")
  /\ UNCHANGED <<roster, calls, client, counts, told>>

admin_route ==
  \/ setup.pc = "create" /\ create("setup", setup.agent)
  \/ setup.pc = "rotate" /\ rotate_token("setup", setup.agent)
  \/ /\ \/ setup.pc = "create" /\ Known(setup.agent)
        \/ setup.pc = "rotate" /\ ~Live(setup.agent)
     /\ Setup("idle")
     /\ UNCHANGED <<roster, calls, client, counts, told>>

\* --remove takes the entry out, and needs neither a vault nor an agent.
remove ==
  /\ setup.pc \in Over /\ setups < MaxSetups
  /\ setups' = setups + 1
  /\ setup' = [Idle EXCEPT !.pc = "remove"]
  /\ UNCHANGED <<roster, calls, client, minted, granted, faults, told>>

\* entry_for: the token that the client is to send, 0 for a stdio client.
Entry == IF setup.pc = "remove" THEN NONE ELSE setup.token

\* edit_json_file, edit_toml_file: everything but the entry stays; what cannot
\* be parsed is left alone, and what would not change is not written.
edit ==
  /\ setup.pc \in {"edit", "remove"}
  /\ LET new == [state |-> "text", text |-> config.text, entry |-> Entry]
         same == new = config \/ (setup.pc = "remove" /\ config.entry = NONE)
         next == CASE config.state = "garbled" -> "idle"
                   [] config.state # "garbled" /\ same ->
                        IF setup.pc = "remove" THEN "idle" ELSE "verify"
                   [] OTHER -> IF config.state = "text" THEN "backup" ELSE "write"
     IN IF next \in {"idle", "verify"} THEN Setup(next)
        ELSE setup' = [setup EXCEPT !.pc = next, !.old = config.text, !.new = new]
  /\ UNCHANGED <<roster, calls, client, counts, told>>

\* Mutant: the file is replaced without a backup.
backup_Skipped ==
  /\ setup.pc = "backup"
  /\ Setup("write")
  /\ UNCHANGED <<roster, calls, client, counts, told>>

\* write_with_backup: what was read is kept beside the file first.
backup ==
  /\ setup.pc = "backup"
  /\ \/ /\ backups' = backups \cup {setup.old}
        /\ Setup("write")
        /\ UNCHANGED faults
     \/ /\ Fault /\ Setup("idle")
        /\ UNCHANGED backups
  /\ UNCHANGED <<roster, calls, config, mine, exposed, minted, granted, setups, told>>

\* The file is truncated and written: a write that is cut leaves nothing, or a
\* part that cannot be parsed.
write_config ==
  /\ setup.pc = "write"
  /\ \/ /\ config' = setup.new
        /\ setup' = IF setup.agent = NONE THEN Idle
                    ELSE [setup EXCEPT !.pc = "verify", !.old = 0, !.new = NoFile]
        /\ UNCHANGED faults
     \/ /\ Fault /\ Setup("idle")
        /\ config' \in [state : {"empty", "garbled"}, text : {0}, entry : {NONE}]
  /\ UNCHANGED <<roster, calls, backups, mine, exposed, minted, granted, setups, told>>

\* An MCP handshake as that agent over stdio.
verify_handshake ==
  /\ setup.pc = "verify"
  /\ Setup(IF Live(setup.agent) THEN "done" ELSE "idle")
  /\ UNCHANGED <<roster, calls, client, counts, told>>

\* The user changes what is not ours in the file, or repairs it.
user_edit ==
  /\ mine < MaxEdits
  /\ mine' = mine + 1
  /\ config' = [state |-> "text", text |-> mine + 1, entry |-> config.entry]
  /\ exposed' = (setup.pc \in {"backup", "write"})
  /\ UNCHANGED <<roster, calls, backups, setup, counts, told>>

-----------------------------------------------------------------------------
(* The specification.                                                      *)

Init ==
  /\ ring = [a \in Agent |-> NONE] /\ disk = ring
  /\ keys = [a \in Agent |-> NONE] /\ creating = {}
  /\ session = [c \in Caller |-> NONE]
  /\ call = [c \in Caller |-> NoCall]
  /\ notes = Imported
  /\ config = NoFile /\ backups = {} /\ mine = 0 /\ exposed = FALSE
  /\ setup = Idle
  /\ minted = 0 /\ granted = 0 /\ setups = 0 /\ faults = 0
  /\ handed = [a \in Agent |-> 0] /\ last = handed
  /\ doubted = {} /\ out = {}

administer ==
  \/ \E a \in Agent : create("cli", a) \/ rotate_token("cli", a) \/ revoke(a)
  \/ \E a \in Agent, verb \in Verb, p \in Asked : grant(a, verb, p)
  \/ \E a \in Agent, who \in Requester : write_private(who, a)

tools(c) ==
  \/ handle_uds(c) \/ line(c) \/ http_mcp(c)
  \/ dispatch(c)
  \/ memory_write(c) \/ supersede(c) \/ memory_search(c) \/ memory_get(c)
  \/ memory_promote(c) \/ memory_forget(c)
  \/ act(c)

configure ==
  \/ \E a \in Agent, http \in BOOLEAN : run(a, http)
  \/ ensure_agent \/ admin_route \/ remove
  \/ edit \/ backup \/ write_config \/ verify_handshake
  \/ user_edit

Next == administer \/ configure \/ open \/ \E c \in Caller : tools(c)

Spec == Init /\ [][Next]_vars

-----------------------------------------------------------------------------
(* Properties.                                                             *)

File == [state : {"missing", "text", "empty", "garbled"}, text : 0..MaxEdits,
         entry : Token \cup {0, NONE}]

\* Type invariant: a roster of agents with minted tokens, a private key only for
\* an agent in it, calls and a setup at a point of their code.
TypeOK ==
  /\ ring \in [Agent -> Entries \cup {NONE}] /\ disk \in [Agent -> Entries \cup {NONE}]
  /\ keys \in [Agent -> Token \cup {NONE}]
  /\ \A a \in Agent : keys[a] # NONE => disk[a] # NONE /\ disk[a].key = keys[a]
  /\ creating \in SUBSET (Agent \X Requester)
  /\ session \in [Caller -> Agent \cup {NONE}]
  /\ call \in [Caller -> [pc : {"idle", "dispatch", "tool", "supersede", "act"},
                          agent : Agent \cup {NONE}, late : BOOLEAN,
                          verb : Verb \cup {"forget", NONE}, scopes : SUBSET Scope,
                          note : Note \cup {NONE}]]
  /\ notes \in SUBSET Note
  /\ config \in File /\ backups \in SUBSET (0..MaxEdits)
  /\ setup \in [pc : Over \cup {"ensure", "create", "rotate", "custody", "edit", "remove",
                                "backup", "write", "verify"},
                agent : Agent \cup {NONE}, http : BOOLEAN, token : Token \cup {0},
                old : 0..MaxEdits, new : File]
  /\ minted \in 0..MaxTokens /\ granted \in 0..MaxGrants /\ setups \in 0..MaxSetups
  /\ faults \in 0..MaxFaults
  /\ handed \in [Agent -> 0..MaxTokens] /\ last \in [Agent -> 0..MaxTokens]
  /\ doubted \in SUBSET Agent /\ out \in SUBSET doubted
  /\ mine \in 0..MaxEdits /\ exposed \in BOOLEAN

Covers(p, s) == p = s \/ p = [kind |-> s.kind, id |-> ANY]

\* No call acts for an agent whose revocation was acknowledged before the call
\* began, whether its session is older or the vault has changed hands since; and
\* it acts only in scopes that are its own or that its grants cover, or removes
\* what the agent wrote.
ActsEntitled ==
  \A c \in Caller : call[c].pc = "act" =>
    LET a == call[c].agent  verb == call[c].verb IN
    /\ ~call[c].late
    /\ \A s \in call[c].scopes :
         \/ s = own(a)
         \/ verb = "forget" /\ call[c].note.author = a
         \/ \E v \in IF verb = "promote" THEN {"promote", "write"} ELSE {verb} :
              v # "forget" /\ \E p \in ring[a].grants[v] : Covers(p, s)

\* Nobody holds a dead token for a live one: of the tokens told to anybody only
\* the last authenticates, in this owner of the vault and in those to come, and
\* it does unless somebody tried to replace it or to revoke the agent.  The same
\* is true of the token in the client's configuration after a setup that ended
\* well.
TokensHonest ==
  \A a \in Agent :
    /\ handed[a] # 0 => \A r \in {ring[a], disk[a]} : r # NONE /\ r.token >= handed[a]
    /\ handed[a] # 0 /\ handed[a] = last[a] /\ a \notin doubted =>
         \A r \in {ring[a], disk[a]} : r.token = handed[a] /\ ~r.revoked
    /\ setup.pc = "done" /\ setup.agent = a /\ setup.http => config.entry = setup.token

\* What the user last put in the configuration is in the file or in a backup,
\* wherever a setup stops: unless it was put there behind the setup's back,
\* between its reading and its writing.
ConfigKept ==
  exposed \/ mine = 0 \/ mine \in backups \/ (config.state = "text" /\ config.text = mine)

================================================================================
