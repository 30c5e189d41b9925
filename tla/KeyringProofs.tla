---------------------------- MODULE KeyringProofs -----------------------------
(* Proofs about Keyring, for any number of agents, projects and callers.   *)
EXTENDS Keyring, TLAPS

(***************************************************************************)
(* The inductive invariant, in parts.                                      *)
(***************************************************************************)

MaybeEntry == Entries \cup {NONE}

\* What memory, agents.json and the key file say of an agent, and what was told.
RosterTypes ==
  /\ ring \in [Agent -> MaybeEntry] /\ disk \in [Agent -> MaybeEntry]
  /\ keys \in [Agent -> Token \cup {NONE}]
  /\ creating \in SUBSET (Agent \X Requester)
  /\ minted \in 0 .. MaxTokens
  /\ handed \in [Agent -> 0 .. MaxTokens] /\ last \in [Agent -> 0 .. MaxTokens]
  /\ doubted \in SUBSET Agent /\ out \in SUBSET doubted

\* An entry is made with its key, and later tokens only replace the first.
EntryOK(r, a) == r # NONE =>
  /\ r.key <= r.token /\ r.token <= last[a] /\ handed[a] <= r.token
  /\ r.revoked => a \in doubted
  /\ a \in out => r.revoked

AgentOK(a) ==
  /\ EntryOK(ring[a], a) /\ EntryOK(disk[a], a)
  /\ handed[a] <= last[a] /\ last[a] <= minted
  /\ disk[a] # NONE => ring[a] # NONE /\ ring[a].key = disk[a].key
  /\ keys[a] # NONE => disk[a] # NONE /\ disk[a].key = keys[a]
  /\ \A who \in Requester : <<a, who>> \in creating => disk[a] # NONE
  /\ handed[a] # 0 => disk[a] # NONE
  /\ a \in out => disk[a] # NONE

RosterInv == RosterTypes /\ \A a \in Agent : AgentOK(a)

\* A call that has passed the gate is for an agent of the keyring, and what it was
\* admitted to is its own, or the agent's grants still cover it.
CallRecord == [pc : {"idle", "dispatch", "tool", "supersede", "act"},
               agent : Agent \cup {NONE}, late : BOOLEAN,
               verb : Verb \cup {"forget", NONE}, scopes : SUBSET Scope,
               note : Note \cup {NONE}]

CallTypes ==
  /\ session \in [Caller -> Agent \cup {NONE}]
  /\ call \in [Caller -> CallRecord]
  /\ notes \in SUBSET Note

Granted(a, v, s) == s = own(a) \/ \E p \in ring[a].grants[v] : Covers(p, s)

Admissible(a, verb, scopes, note) ==
  \A s \in scopes :
    \/ s = own(a)
    \/ verb = "forget" /\ note.author = a
    \/ \E v \in IF verb = "promote" THEN {"promote", "write"} ELSE {verb} :
         v \in Verb /\ \E p \in ring[a].grants[v] : Covers(p, s)

AdmittedOK(k) == Admissible(k.agent, k.verb, k.scopes, k.note)

CallOK(k) ==
  /\ k.pc # "idle" => k.agent \in Agent
  /\ k.late => k.agent \in out
  /\ k.pc \in {"tool", "supersede", "act"} => ~k.late /\ Known(k.agent)
  /\ k.pc = "supersede" =>
       k.note \in Note /\ \A s \in k.scopes : Granted(k.agent, "write", s)
  /\ k.pc = "act" => AdmittedOK(k)
  /\ k.pc = "act" /\ k.verb = "forget" => k.note \in Note

CallInv == CallTypes /\ \A c \in Caller : CallOK(call[c])

\* The setup, and the file it edits.
SetupRecord == [pc : Over \cup {"ensure", "create", "rotate", "custody", "edit", "remove",
                                "backup", "write", "verify"},
                agent : Agent \cup {NONE}, http : BOOLEAN, token : Token \cup {0},
                old : 0 .. MaxEdits, new : File]

SetupTypes ==
  /\ config \in File /\ backups \in SUBSET (0 .. MaxEdits)
  /\ setup \in SetupRecord
  /\ setups \in 0 .. MaxSetups
  /\ mine \in 0 .. MaxEdits /\ exposed \in BOOLEAN

SetupOK ==
  /\ setup.pc = "remove" => setup.agent = NONE
  /\ setup.pc \in {"ensure", "create", "rotate"} => setup.agent \in Agent
  /\ setup.pc \in {"backup", "write"} /\ setup.agent # NONE => setup.new.entry = setup.token
  /\ setup.pc \in {"verify", "done"} => config.entry = setup.token

\* What the user wrote is kept: a setup that has read it has it to back up.
KeptOK ==
  /\ ConfigKept
  /\ ~exposed /\ setup.pc = "backup" => mine \in backups \cup {0, setup.old}
  /\ ~exposed /\ setup.pc = "write" => mine \in backups \cup {0}

SetupInv == SetupTypes /\ SetupOK /\ KeptOK

CountTypes == granted \in 0 .. MaxGrants /\ faults \in 0 .. MaxFaults

IInv == RosterInv /\ CallInv /\ SetupInv /\ CountTypes

(***************************************************************************)
(* The roster.                                                             *)
(***************************************************************************)

\* What a change of one agent's entry respects: the entry, in memory and perhaps on
\* the disk; the history; and what is claimed only of a change that was saved.
Entered(a, e) ==
  /\ ring' = [ring EXCEPT ![a] = e] /\ disk' \in {disk, [ring EXCEPT ![a] = e]}
  /\ keys' = keys
  /\ e.key <= e.token /\ e.token <= last'[a] /\ handed'[a] <= e.token
  /\ disk[a] # NONE => e.key = disk[a].key
  /\ e.revoked => a \in doubted'

Told(a) ==
  /\ minted' \in 0 .. MaxTokens /\ minted <= minted'
  /\ handed' \in [Agent -> 0 .. MaxTokens] /\ last' \in [Agent -> 0 .. MaxTokens]
  /\ \A b \in Agent \ {a} : handed'[b] = handed[b] /\ last'[b] = last[b]
  /\ last[a] <= last'[a] /\ last'[a] <= minted' /\ handed[a] <= handed'[a]
  /\ doubted \subseteq doubted' /\ doubted' \subseteq Agent
  /\ out \subseteq out' /\ out' \subseteq out \cup {a} /\ out' \subseteq doubted'

Claimed(a, e) ==
  LET saved == disk' = [ring EXCEPT ![a] = e] IN
  /\ handed'[a] = handed[a] \/ saved
  /\ a \in out' => e.revoked /\ (a \in out \/ saved)
  /\ creating' \subseteq creating \cup ({a} \X Requester)
  /\ creating' \subseteq creating \/ saved

LEMMA RosterSaved ==
  ASSUME RosterInv, NEW a \in Agent, NEW e \in Entries,
         Entered(a, e), Told(a), Claimed(a, e)
  PROVE  RosterInv'
<1> USE DEF Entered, Told, Claimed
<1>1. e # NONE
  BY KeyringAssumption
<1>2. ring'[a] = e /\ \A b \in Agent \ {a} : ring'[b] = ring[b]
  BY DEF RosterInv, RosterTypes
<1>3. RosterTypes'
  <2>1. ring' \in [Agent -> MaybeEntry] /\ disk' \in [Agent -> MaybeEntry]
    BY DEF RosterInv, RosterTypes, MaybeEntry
  <2>2. creating' \in SUBSET (Agent \X Requester)
    <3>1. {a} \X Requester \subseteq Agent \X Requester
      OBVIOUS
    <3> QED BY <3>1 DEF RosterInv, RosterTypes
  <2> QED BY <2>1, <2>2 DEF RosterInv, RosterTypes
<1>4. /\ \A b \in Agent : handed[b] \in Nat /\ handed'[b] \in Nat
      /\ \A b \in Agent : last[b] \in Nat /\ last'[b] \in Nat
      /\ minted \in Nat /\ minted' \in Nat
  <2>1. \A n : n \in 0 .. MaxTokens => n \in Nat
    BY KeyringAssumption
  <2>2. /\ handed \in [Agent -> 0 .. MaxTokens] /\ last \in [Agent -> 0 .. MaxTokens]
        /\ minted \in 0 .. MaxTokens
    BY DEF RosterInv, RosterTypes
  <2> QED BY <2>1, <2>2
<1>5. \A r \in Entries : r.token \in Nat /\ r.key \in Nat
  BY KeyringAssumption DEF Entries, Token
<1>6. \A b \in Agent : /\ ring[b] # NONE => ring[b] \in Entries
                       /\ disk[b] # NONE => disk[b] \in Entries
  BY DEF RosterInv, RosterTypes, MaybeEntry
<1>7. ASSUME NEW b \in Agent \ {a}
      PROVE  AgentOK(b)'
  <2>1. disk'[b] = disk[b] \/ disk'[b] = ring[b]
    BY <1>2
  <2>2. AgentOK(b) /\ ring'[b] = ring[b]
    BY <1>2 DEF RosterInv
  <2>3. b \in out' <=> b \in out
    OBVIOUS
  <2>4. \A who : <<b, who>> \in creating' => <<b, who>> \in creating
    OBVIOUS
  <2>5. handed'[b] = handed[b] /\ last'[b] = last[b] /\ last[b] <= minted'
    BY <1>4, <2>2 DEF AgentOK
  <2>6. EntryOK(ring[b], b)' /\ EntryOK(disk[b], b)'
    BY <2>1, <2>2, <2>3, <2>5 DEF AgentOK, EntryOK
  <2> QED BY <2>1, <2>2, <2>3, <2>4, <2>5, <2>6 DEF AgentOK
<1>8. AgentOK(a)'
  <2>0. AgentOK(a)
    BY DEF RosterInv
  <2>1. CASE disk' = [ring EXCEPT ![a] = e]
    <3>1. disk'[a] = e
      BY <1>2, <2>1
    <3>2. EntryOK(ring[a], a)' /\ EntryOK(disk[a], a)'
      BY <1>2, <3>1 DEF EntryOK
    <3>3. keys[a] # NONE => e.key = keys[a]
      BY <2>0 DEF AgentOK
    <3> QED BY <1>1, <1>2, <1>4, <1>5, <3>1, <3>2, <3>3 DEF AgentOK
  <2>2. CASE disk' = disk /\ disk' # [ring EXCEPT ![a] = e]
    <3>1. /\ handed'[a] = handed[a] /\ (a \in out' => a \in out)
          /\ creating' \subseteq creating
      BY <2>2
    <3>2. EntryOK(ring[a], a)'
      BY <1>2 DEF EntryOK
    <3>3. EntryOK(disk[a], a)'
      BY <1>4, <1>5, <1>6, <2>0, <2>2, <3>1 DEF AgentOK, EntryOK
    <3>4. handed'[a] <= last'[a]
      BY <1>4, <1>5
    <3>5. disk'[a] # NONE => ring'[a] # NONE /\ ring'[a].key = disk'[a].key
      BY <1>1, <1>2, <2>2
    <3> QED BY <1>2, <2>0, <2>2, <3>1, <3>2, <3>3, <3>4, <3>5 DEF AgentOK
  <2> QED BY <2>1, <2>2
<1> QED BY <1>3, <1>7, <1>8 DEF RosterInv

\* The next owner of the vault has what the disk says.
LEMMA RosterReopened ==
  ASSUME RosterInv, Reopen(disk), disk' = disk, keys' = keys, minted' = minted,
         UNCHANGED told
  PROVE  RosterInv'
<1>1. RosterTypes'
  BY DEF Reopen, told, RosterInv, RosterTypes
<1>2. ASSUME NEW a \in Agent
      PROVE  AgentOK(a)'
  <2>1. AgentOK(a)
    BY DEF RosterInv
  <2> QED BY <2>1 DEF Reopen, told, AgentOK, EntryOK
<1> QED BY <1>1, <1>2 DEF RosterInv

\* Saving, whichever way it ends: memory has the change, the disk may have it, and
\* an answer that claims something is given only when it does.
LEMMA CreateRoster ==
  ASSUME RosterInv, NEW who \in Requester, NEW a \in Agent, create(who, a)
  PROVE  RosterInv'
<1> DEFINE e == [token |-> minted + 1, key |-> minted + 1, revoked |-> FALSE,
                 grants |-> Default(who)]
           new == [ring EXCEPT ![a] = e]
<1>1. /\ ring[a] = NONE /\ keys' = keys /\ doubted' = doubted
      /\ minted < MaxTokens /\ minted' = minted + 1
      /\ last' = [last EXCEPT ![a] = minted + 1]
  BY DEF create, Mint, Known
<1>2. /\ ring' = new /\ disk' \in {disk, new}
      /\ handed' = handed /\ out' = out
      /\ creating' \subseteq creating \/ (disk' = new /\ creating' = creating \cup {<<a, who>>})
  BY DEF create, Save, Reopen
<1>3. /\ minted \in Nat /\ minted + 1 \in 1 .. MaxTokens
      /\ handed \in [Agent -> 0 .. MaxTokens] /\ last \in [Agent -> 0 .. MaxTokens]
      /\ handed[a] \in Nat /\ last[a] \in Nat /\ last[a] <= minted /\ handed[a] <= last[a]
  BY <1>1, KeyringAssumption DEF RosterInv, RosterTypes, AgentOK
<1>4. e \in Entries
  <2>1. Default(who) \in [Verb -> SUBSET Pattern]
    BY DEF Default, Pattern
  <2>2. minted + 1 \in Token
    BY <1>3 DEF Token
  <2> QED BY <2>1, <2>2 DEF Entries
<1>5. disk[a] = NONE /\ a \notin out
  BY <1>1 DEF RosterInv, AgentOK
<1>6. /\ last' \in [Agent -> 0 .. MaxTokens] /\ last'[a] = minted + 1
      /\ \A b \in Agent \ {a} : last'[b] = last[b]
  BY <1>1, <1>3
<1>7. e.key = minted + 1 /\ e.token = minted + 1 /\ ~e.revoked
  OBVIOUS
<1>8. /\ out \subseteq doubted /\ doubted \subseteq Agent
      /\ creating' \subseteq creating \cup ({a} \X Requester)
  BY <1>2 DEF RosterInv, RosterTypes
<1> HIDE DEF e
<1>10. Entered(a, e)
  BY <1>1, <1>2, <1>3, <1>4, <1>5, <1>6, <1>7, <1>8 DEF Entered
<1>11. Told(a)
  BY <1>1, <1>2, <1>3, <1>4, <1>5, <1>6, <1>7, <1>8 DEF Told
<1>12. Claimed(a, e)
  BY <1>1, <1>2, <1>3, <1>4, <1>5, <1>6, <1>7, <1>8 DEF Claimed
<1> QED BY <1>4, <1>10, <1>11, <1>12, RosterSaved

LEMMA GrantRoster ==
  ASSUME RosterInv, NEW a \in Agent, NEW verb \in Verb, NEW p \in Asked, grant(a, verb, p)
  PROVE  RosterInv'
<1> DEFINE e == [ring[a] EXCEPT !.grants[verb] = @ \cup {p}]
           new == [ring EXCEPT ![a] = e]
<1>1. Known(a) /\ UNCHANGED <<keys, minted, last, doubted>>
  BY DEF grant
<1>2. /\ ring' = new /\ disk' \in {disk, new}
      /\ handed' = handed /\ out' = out /\ creating' \subseteq creating
  BY DEF grant, Save, Reopen
<1>3. ring[a] \in Entries
  BY <1>1 DEF RosterInv, RosterTypes, MaybeEntry, Known
<1>4. /\ e \in Entries /\ e.key = ring[a].key /\ e.token = ring[a].token
      /\ e.revoked = ring[a].revoked
  <2>1. p \in Pattern
    BY KeyringAssumption
  <2> QED BY <1>3, <2>1 DEF Entries
<1>5. AgentOK(a) /\ EntryOK(ring[a], a)
  BY DEF RosterInv, AgentOK
<1>6. /\ minted \in 0 .. MaxTokens /\ minted \in Nat
      /\ handed \in [Agent -> 0 .. MaxTokens] /\ last \in [Agent -> 0 .. MaxTokens]
      /\ handed[a] \in Nat /\ last[a] \in Nat
      /\ out \subseteq doubted /\ doubted \subseteq Agent
  BY KeyringAssumption DEF RosterInv, RosterTypes
<1> HIDE DEF e
<1>10. Entered(a, e)
  BY <1>1, <1>2, <1>3, <1>4, <1>5, <1>6 DEF Entered, AgentOK, EntryOK, Known
<1>11. Told(a)
  BY <1>1, <1>2, <1>3, <1>4, <1>5, <1>6 DEF Told, AgentOK, EntryOK, Known
<1>12. Claimed(a, e)
  BY <1>1, <1>2, <1>3, <1>4, <1>5, <1>6 DEF Claimed, AgentOK, EntryOK, Known
<1> QED BY <1>4, <1>10, <1>11, <1>12, RosterSaved

LEMMA RotateRoster ==
  ASSUME RosterInv, NEW who \in Requester, NEW a \in Agent, rotate_token(who, a)
  PROVE  RosterInv'
<1> DEFINE e == [ring[a] EXCEPT !.token = minted + 1]
           new == [ring EXCEPT ![a] = e]
<1>1. /\ Live(a) /\ UNCHANGED <<keys, doubted>>
      /\ minted < MaxTokens /\ minted' = minted + 1
      /\ last' = [last EXCEPT ![a] = minted + 1]
  BY DEF rotate_token, Mint
<1>2. /\ ring' = new /\ disk' \in {disk, new}
      /\ out' = out /\ creating' \subseteq creating
      /\ \/ handed' = handed
         \/ /\ disk' = new
            /\ handed' = [handed EXCEPT ![a] = IF minted + 1 > @ THEN minted + 1 ELSE @]
  BY DEF rotate_token, Save, Reopen, Tell
<1>3. ring[a] \in Entries /\ ~ring[a].revoked
  BY <1>1 DEF RosterInv, RosterTypes, MaybeEntry, Known, Live
<1>4. /\ minted \in Nat /\ minted + 1 \in 1 .. MaxTokens
      /\ handed \in [Agent -> 0 .. MaxTokens] /\ last \in [Agent -> 0 .. MaxTokens]
      /\ handed[a] \in Nat /\ last[a] \in Nat /\ last[a] <= minted /\ handed[a] <= last[a]
  BY <1>1, KeyringAssumption DEF RosterInv, RosterTypes, AgentOK
<1>5. /\ e \in Entries /\ e.key = ring[a].key /\ e.token = minted + 1 /\ ~e.revoked
      /\ ring[a].key \in Nat /\ ring[a].token \in Nat
  BY <1>3, <1>4 DEF Entries, Token
<1>6. AgentOK(a) /\ EntryOK(ring[a], a) /\ ring[a] # NONE
  BY <1>1 DEF RosterInv, AgentOK, Known, Live
<1>7. /\ ring[a].key <= minted + 1 /\ a \notin out
      /\ disk[a] # NONE => ring[a].key = disk[a].key
  BY <1>3, <1>4, <1>5, <1>6 DEF AgentOK, EntryOK
<1>8. /\ last' \in [Agent -> 0 .. MaxTokens] /\ last'[a] = minted + 1
      /\ \A b \in Agent \ {a} : last'[b] = last[b]
      /\ handed' \in [Agent -> 0 .. MaxTokens] /\ handed'[a] \in {handed[a], minted + 1}
      /\ \A b \in Agent \ {a} : handed'[b] = handed[b]
      /\ handed'[a] = handed[a] \/ disk' = new
  <2>1. CASE handed' = handed
    BY <1>1, <1>4, <2>1
  <2>2. CASE /\ disk' = new
             /\ handed' = [handed EXCEPT ![a] = IF minted + 1 > @ THEN minted + 1 ELSE @]
    BY <1>1, <1>4, <2>2
  <2> QED BY <1>2, <2>1, <2>2
<1>9. out \subseteq doubted /\ doubted \subseteq Agent
  BY DEF RosterInv, RosterTypes
<1> HIDE DEF e
<1>10. Entered(a, e)
  BY <1>1, <1>2, <1>4, <1>5, <1>7, <1>8, <1>9 DEF Entered
<1>11. Told(a)
  BY <1>1, <1>2, <1>4, <1>5, <1>7, <1>8, <1>9 DEF Told
<1>12. Claimed(a, e)
  BY <1>1, <1>2, <1>4, <1>5, <1>7, <1>8, <1>9 DEF Claimed
<1> QED BY <1>5, <1>10, <1>11, <1>12, RosterSaved

LEMMA RevokeRoster ==
  ASSUME RosterInv, NEW a \in Agent, revoke(a)
  PROVE  RosterInv'
<1> DEFINE e == [ring[a] EXCEPT !.revoked = TRUE]
           new == [ring EXCEPT ![a] = e]
<1>1. Known(a) /\ UNCHANGED <<keys, minted, last>> /\ doubted' = doubted \cup {a}
  BY DEF revoke
<1>2. /\ ring' = new /\ disk' \in {disk, new}
      /\ handed' = handed /\ creating' \subseteq creating
      /\ out' = out \/ (disk' = new /\ out' = out \cup {a})
  BY DEF revoke, Save, Reopen
<1>3. ring[a] \in Entries
  BY <1>1 DEF RosterInv, RosterTypes, MaybeEntry, Known
<1>4. /\ e \in Entries /\ e.key = ring[a].key /\ e.token = ring[a].token /\ e.revoked
  BY <1>3 DEF Entries
<1>5. AgentOK(a) /\ EntryOK(ring[a], a)
  BY DEF RosterInv, AgentOK
<1>6. /\ minted \in 0 .. MaxTokens /\ minted \in Nat
      /\ handed \in [Agent -> 0 .. MaxTokens] /\ last \in [Agent -> 0 .. MaxTokens]
      /\ handed[a] \in Nat /\ last[a] \in Nat
      /\ out \subseteq doubted /\ doubted \subseteq Agent
  BY KeyringAssumption DEF RosterInv, RosterTypes
<1> HIDE DEF e
<1>10. Entered(a, e)
  BY <1>1, <1>2, <1>3, <1>4, <1>5, <1>6 DEF Entered, AgentOK, EntryOK, Known
<1>11. Told(a)
  BY <1>1, <1>2, <1>3, <1>4, <1>5, <1>6 DEF Told, AgentOK, EntryOK, Known
<1>12. Claimed(a, e)
  BY <1>1, <1>2, <1>3, <1>4, <1>5, <1>6 DEF Claimed, AgentOK, EntryOK, Known
<1> QED BY <1>4, <1>10, <1>11, <1>12, RosterSaved

\* The key file is that of the entry on the disk, whose token is not older.
LEMMA WriteRoster ==
  ASSUME RosterInv, NEW who \in Requester, NEW a \in Agent, write_private(who, a)
  PROVE  RosterInv'
<1>1. /\ <<a, who>> \in creating /\ creating' \subseteq creating
      /\ ring' = ring /\ disk' = disk /\ minted' = minted
      /\ UNCHANGED <<last, doubted, out>>
  BY DEF write_private
<1>2. /\ keys' \in {keys, [keys EXCEPT ![a] = ring[a].key]}
      /\ handed' \in {handed, [handed EXCEPT ![a] = IF ring[a].key > @ THEN ring[a].key ELSE @]}
  BY DEF write_private, Tell
<1>3. AgentOK(a) /\ disk[a] # NONE /\ ring[a] # NONE /\ ring[a].key = disk[a].key
  BY <1>1 DEF RosterInv, AgentOK
<1>4. /\ ring[a] \in Entries /\ disk[a] \in Entries
      /\ ring[a].key \in Token /\ ring[a].key \in 0 .. MaxTokens /\ ring[a].key \in Nat
      /\ ring[a].token \in Nat /\ disk[a].token \in Nat
  BY <1>3, KeyringAssumption DEF RosterInv, RosterTypes, MaybeEntry, Entries, Token
<1>5. /\ handed \in [Agent -> 0 .. MaxTokens] /\ handed[a] \in Nat
      /\ last[a] \in Nat /\ keys \in [Agent -> Token \cup {NONE}]
  BY KeyringAssumption DEF RosterInv, RosterTypes
<1>6. /\ keys' \in [Agent -> Token \cup {NONE}]
      /\ keys'[a] \in {keys[a], ring[a].key}
      /\ \A b \in Agent \ {a} : keys'[b] = keys[b]
  BY <1>2, <1>4, <1>5
<1>7. /\ handed' \in [Agent -> 0 .. MaxTokens]
      /\ handed'[a] \in {handed[a], ring[a].key}
      /\ \A b \in Agent \ {a} : handed'[b] = handed[b]
  BY <1>2, <1>4, <1>5
<1>8. RosterTypes'
  BY <1>1, <1>6, <1>7 DEF RosterInv, RosterTypes
<1>9. AgentOK(a)'
  <2>1. EntryOK(ring[a], a)' /\ EntryOK(disk[a], a)' /\ handed'[a] <= last'[a]
    BY <1>1, <1>3, <1>4, <1>5, <1>7 DEF AgentOK, EntryOK
  <2> QED BY <2>1, <1>1, <1>3, <1>6 DEF AgentOK
<1>10. ASSUME NEW b \in Agent \ {a}
       PROVE  AgentOK(b)'
  BY <1>1, <1>6, <1>7 DEF RosterInv, AgentOK, EntryOK
<1> QED BY <1>8, <1>9, <1>10 DEF RosterInv

\* Every other step leaves the roster and what was told of it alone, or is the next
\* owner's first.
LEMMA RosterStep ==
  ASSUME IInv, [Next]_vars
  PROVE  RosterInv'
<1>0. RosterInv
  BY DEF IInv
<1>1. ASSUME UNCHANGED <<roster, told, minted>>
      PROVE  RosterInv'
  BY <1>0, <1>1 DEF roster, told, RosterInv, RosterTypes, AgentOK, EntryOK
<1>2. CASE administer
  <2>1. "cli" \in Requester
    BY DEF Requester
  <2> QED BY <1>0, <1>2, <2>1, KeyringAssumption, CreateRoster, GrantRoster, RotateRoster,
             RevokeRoster, WriteRoster DEF administer
<1>3. CASE configure
  <2>1. CASE admin_route
    <3>1. "setup" \in Requester
      BY DEF Requester
    <3>2. CASE setup.pc = "create" /\ create("setup", setup.agent)
      BY <1>0, <3>1, <3>2, CreateRoster DEF IInv, SetupInv, SetupOK
    <3>3. CASE setup.pc = "rotate" /\ rotate_token("setup", setup.agent)
      BY <1>0, <3>1, <3>3, RotateRoster DEF IInv, SetupInv, SetupOK
    <3> QED BY <1>1, <2>1, <3>2, <3>3 DEF admin_route, counts
  <2> QED BY <1>1, <1>3, <2>1 DEF configure, run, ensure_agent, remove, edit, backup,
            write_config, verify_handshake, user_edit, counts
<1>4. CASE open
  BY <1>0, <1>4, RosterReopened DEF open, counts
<1>5. ASSUME NEW c \in Caller, tools(c)
      PROVE  RosterInv'
  BY <1>1, <1>5 DEF tools, handle_uds, line, http_mcp, dispatch, memory_write, supersede,
     memory_search, memory_get, memory_promote, memory_forget, act, Tool, Others, counts
<1>6. CASE UNCHANGED vars
  BY <1>1, <1>6 DEF vars, counts
<1> QED BY <1>2, <1>3, <1>4, <1>5, <1>6 DEF Next

(***************************************************************************)
(* The calls.                                                              *)
(***************************************************************************)

\* What a call was admitted to outlives every change of the roster that leaves the
\* call alone: agents stay, grants are only added, revocations only acknowledged.
RosterGrows ==
  /\ out \subseteq out'
  /\ \A a \in Agent : ring[a] # NONE =>
       ring'[a] # NONE /\ \A v \in Verb : ring[a].grants[v] \subseteq ring'[a].grants[v]

LEMMA CallsKept ==
  ASSUME CallInv, UNCHANGED calls, RosterGrows
  PROVE  CallInv'
<1>1. CallTypes'
  BY DEF CallInv, CallTypes, calls
<1>2. ASSUME NEW c \in Caller
      PROVE  CallOK(call[c])'
  <2> DEFINE k == call[c]
  <2>1. CallOK(k) /\ call'[c] = k
    BY DEF CallInv, calls
  <2>2. ASSUME k.pc # "idle", Known(k.agent)
        PROVE  /\ k.agent \in Agent /\ Known(k.agent)'
               /\ \A v \in Verb : ring[k.agent].grants[v] \subseteq ring'[k.agent].grants[v]
    BY <2>1, <2>2 DEF CallOK, RosterGrows, Known, calls
  <2>3. ASSUME k.pc = "supersede", NEW s \in k.scopes
        PROVE  Granted(k.agent, "write", s)'
    BY <2>1, <2>2, <2>3 DEF CallOK, Granted, calls, Verb
  <2>4. ASSUME k.pc = "act"
        PROVE  AdmittedOK(k)'
    BY <2>1, <2>2, <2>4 DEF CallOK, AdmittedOK, Admissible, calls
  <2>5. k.late => k.agent \in out'
    BY <2>1 DEF CallOK, RosterGrows
  <2> QED BY <2>1, <2>2, <2>3, <2>4, <2>5 DEF CallOK, calls
<1> QED BY <1>1, <1>2 DEF CallInv

LEMMA NoCallOK == NoCall \in CallRecord /\ CallOK(NoCall)
BY DEF NoCall, CallRecord, CallOK

\* A new owner of the vault has no call under way.
LEMMA CallsReset ==
  ASSUME CallInv, NEW saved, Reopen(saved), notes' = notes
  PROVE  CallInv'
<1>1. CallTypes'
  BY NoCallOK DEF CallInv, CallTypes, Reopen
<1>2. ASSUME NEW c \in Caller
      PROVE  CallOK(call[c])'
  BY DEF Reopen, NoCall, CallOK
<1> QED BY <1>1, <1>2 DEF CallInv

\* A call that goes on, while nothing else does.
LEMMA CallChanged ==
  ASSUME CallInv, NEW c \in Caller, NEW k \in CallRecord, CallOK(k),
         call' = [call EXCEPT ![c] = k], ring' = ring, out' = out,
         session' \in [Caller -> Agent \cup {NONE}], notes' \in SUBSET Note
  PROVE  CallInv'
<1>1. CallTypes'
  BY DEF CallInv, CallTypes
<1>2. \A b \in Caller : CallOK(call'[b])
  BY DEF CallInv, CallTypes
<1>3. ASSUME NEW b \in Caller
      PROVE  CallOK(call[b])'
  <2>1. CallOK(call'[b])
    BY <1>2
  <2> QED BY <2>1 DEF CallOK, AdmittedOK, Admissible, Granted, Known
<1> QED BY <1>1, <1>3 DEF CallInv

\* A change of the roster leaves the calls alone, unless the vault has a new owner.
LEMMA AdministerCalls ==
  ASSUME RosterInv, CallInv, administer \/ admin_route,
         admin_route /\ setup.pc \in {"create", "rotate"} => setup.agent \in Agent
  PROVE  CallInv'
<1>1. ASSUME NEW a \in Agent, NEW e, e # NONE, ring' = [ring EXCEPT ![a] = e],
             ring[a] # NONE => \A v \in Verb : ring[a].grants[v] \subseteq e.grants[v],
             out \subseteq out'
      PROVE  RosterGrows
  BY <1>1 DEF RosterGrows, RosterInv, RosterTypes
<1>2. \A a \in Agent : ring[a] # NONE => ring[a] \in Entries
  BY DEF RosterInv, RosterTypes, MaybeEntry
<1>3. ASSUME NEW who \in Requester, NEW a \in Agent, create(who, a)
      PROVE  CallInv'
  <2> DEFINE e == [token |-> minted + 1, key |-> minted + 1, revoked |-> FALSE,
                   grants |-> Default(who)]
  <2>1. e # NONE
    <3>1. Default(who) \in [Verb -> SUBSET Pattern]
      BY DEF Default, Pattern
    <3>2. minted + 1 \in Token
      BY <1>3, KeyringAssumption DEF create, Mint, RosterInv, RosterTypes, Token
    <3>3. e \in Entries
      BY <3>1, <3>2 DEF Entries
    <3> HIDE DEF e
    <3> QED BY <3>3, KeyringAssumption
  <2>2. /\ notes' = notes /\ ring[a] = NONE /\ ring' = [ring EXCEPT ![a] = e] /\ out' = out
        /\ UNCHANGED <<session, call>> \/ Reopen(ring')
    BY <1>3 DEF create, Save, Known, Reopen
  <2> HIDE DEF e
  <2> QED BY <1>1, <2>1, <2>2, CallsKept, CallsReset DEF calls
<1>4. ASSUME NEW a \in Agent, NEW verb \in Verb, NEW p \in Asked, grant(a, verb, p)
      PROVE  CallInv'
  <2> DEFINE e == [ring[a] EXCEPT !.grants[verb] = @ \cup {p}]
  <2>1. ring[a] \in Entries
    BY <1>2, <1>4 DEF grant, Known
  <2>2. /\ e \in Entries
        /\ \A v \in Verb : ring[a].grants[v] \subseteq e.grants[v]
    BY <2>1, KeyringAssumption DEF Entries
  <2>3. /\ notes' = notes /\ ring' = [ring EXCEPT ![a] = e] /\ out' = out
        /\ UNCHANGED <<session, call>> \/ Reopen(ring')
    BY <1>4 DEF grant, Save, Reopen
  <2> HIDE DEF e
  <2> QED BY <1>1, <2>2, <2>3, CallsKept, CallsReset, KeyringAssumption DEF calls
<1>5. ASSUME NEW who \in Requester, NEW a \in Agent, rotate_token(who, a)
      PROVE  CallInv'
  <2> DEFINE e == [ring[a] EXCEPT !.token = minted + 1]
  <2>1. ring[a] \in Entries
    BY <1>2, <1>5 DEF rotate_token, Live, Known
  <2>2. minted + 1 \in Token
    BY <1>5, KeyringAssumption DEF rotate_token, Mint, RosterInv, RosterTypes, Token
  <2>3. e \in Entries /\ e.grants = ring[a].grants
    BY <2>1, <2>2 DEF Entries
  <2>4. /\ notes' = notes /\ ring' = [ring EXCEPT ![a] = e] /\ out' = out
        /\ UNCHANGED <<session, call>> \/ Reopen(ring')
    BY <1>5 DEF rotate_token, Save, Reopen
  <2> HIDE DEF e
  <2> QED BY <1>1, <2>3, <2>4, CallsKept, CallsReset, KeyringAssumption DEF calls
<1>6. ASSUME NEW a \in Agent, revoke(a)
      PROVE  CallInv'
  <2> DEFINE e == [ring[a] EXCEPT !.revoked = TRUE]
  <2>1. ring[a] \in Entries
    BY <1>2, <1>6 DEF revoke, Known
  <2>2. e \in Entries /\ e.grants = ring[a].grants
    BY <2>1 DEF Entries
  <2>3. /\ notes' = notes /\ ring' = [ring EXCEPT ![a] = e] /\ out \subseteq out'
        /\ UNCHANGED <<session, call>> \/ Reopen(ring')
    BY <1>6 DEF revoke, Save, Reopen
  <2> HIDE DEF e
  <2> QED BY <1>1, <2>2, <2>3, CallsKept, CallsReset, KeyringAssumption DEF calls
<1>7. ASSUME UNCHANGED <<ring, out, calls>>
      PROVE  CallInv'
  BY <1>7, CallsKept DEF RosterGrows
<1>8. "cli" \in Requester /\ "setup" \in Requester
  BY DEF Requester
<1>9. CASE administer
  <2>1. ASSUME NEW a \in Agent, NEW who \in Requester, write_private(who, a)
        PROVE  CallInv'
    BY <1>7, <2>1 DEF write_private
  <2> QED BY <1>3, <1>4, <1>5, <1>6, <1>8, <1>9, <2>1 DEF administer
<1>10. CASE admin_route
  <2>1. CASE setup.pc = "create" /\ create("setup", setup.agent)
    BY <1>3, <1>8, <1>10, <2>1
  <2>2. CASE setup.pc = "rotate" /\ rotate_token("setup", setup.agent)
    BY <1>5, <1>8, <1>10, <2>2
  <2> QED BY <1>7, <1>10, <2>1, <2>2 DEF admin_route, roster, told
<1> QED BY <1>9, <1>10

(***************************************************************************)
(* A pattern that matches covers.                                          *)
(***************************************************************************)

LEMMA MatchesCovers ==
  ASSUME NEW p \in Pattern, NEW s \in Scope, pattern_matches(p, s)
  PROVE  Covers(p, s)
<1>1. p = [kind |-> p.kind, id |-> p.id]
  BY DEF Pattern, Scope
<1> QED BY <1>1 DEF pattern_matches, Covers

LEMMA CanIsGranted ==
  ASSUME RosterInv, NEW a \in Agent, NEW v \in Verb, NEW s \in Scope, can(a, v, s)
  PROVE  /\ Live(a) /\ Granted(a, v, s)
         /\ v = "promote" => \E p \in ring[a].grants[v] : Covers(p, s)
<1>1. ring[a] \in Entries
  BY DEF can, Live, Known, RosterInv, RosterTypes, MaybeEntry
<1>2. ring[a].grants[v] \subseteq Pattern
  BY <1>1 DEF Entries
<1> QED BY <1>2, MatchesCovers DEF can, Granted

\* The gate: a live agent's revocation was not acknowledged.
LEMMA LiveNotOut ==
  ASSUME RosterInv, NEW a \in Agent, Live(a)
  PROVE  a \notin out
BY DEF RosterInv, AgentOK, EntryOK, Live, Known

LEMMA DenyCalls ==
  ASSUME CallInv, NEW c \in Caller, Deny(c), ring' = ring, out' = out, session' = session,
         notes' \in SUBSET Note
  PROVE  CallInv'
<1>1. session' \in [Caller -> Agent \cup {NONE}]
  BY DEF CallInv, CallTypes
<1> QED BY <1>1, NoCallOK, CallChanged DEF Deny

\* A call that passed the gate is admitted to scopes that it may touch.
LEMMA AdmitCalls ==
  ASSUME CallInv, NEW c \in Caller, call[c].pc \in {"tool", "supersede"},
         NEW verb \in {"read", "write", "promote", "forget"}, NEW scopes \in SUBSET Scope,
         NEW note \in Note \cup {NONE}, Admit(c, verb, scopes, note),
         ring' = ring, out' = out, session' = session, notes' = notes,
         verb = "forget" => note \in Note,
         Admissible(call[c].agent, verb, scopes, note)
  PROVE  CallInv'
<1> DEFINE k == [call[c] EXCEPT !.pc = "act", !.verb = verb, !.scopes = scopes, !.note = note]
<1>1. /\ call \in [Caller -> CallRecord] /\ call[c] \in CallRecord /\ CallOK(call[c])
      /\ session' \in [Caller -> Agent \cup {NONE}] /\ notes' \in SUBSET Note
  BY DEF CallInv, CallTypes
<1>2. /\ k \in CallRecord
      /\ k.pc = "act" /\ k.agent = call[c].agent /\ k.late = call[c].late
      /\ k.verb = verb /\ k.scopes = scopes /\ k.note = note
  BY <1>1 DEF CallRecord, Verb
<1>3. call' = [call EXCEPT ![c] = k]
  BY <1>1 DEF Admit
<1>4. CallOK(k)
  BY <1>1, <1>2 DEF CallOK, AdmittedOK
<1> HIDE DEF k
<1> QED BY <1>1, <1>2, <1>3, <1>4, CallChanged

LEMMA ToolCalls ==
  ASSUME RosterInv, CallInv, NEW c \in Caller, tools(c)
  PROVE  CallInv'
<1>1. /\ call \in [Caller -> CallRecord] /\ call[c] \in CallRecord /\ CallOK(call[c])
      /\ session \in [Caller -> Agent \cup {NONE}] /\ notes \in SUBSET Note
  BY DEF CallInv, CallTypes
<1>2. ring' = ring /\ out' = out
  BY DEF tools, handle_uds, line, http_mcp, dispatch, memory_write, supersede,
     memory_search, memory_get, memory_promote, memory_forget, act, Tool, Others,
     roster, told
<1>3. ASSUME call[c].pc = "tool"
      PROVE  call[c].agent \in Agent /\ ~call[c].late /\ Known(call[c].agent)
  BY <1>1, <1>3 DEF CallOK
<1>4. \A n \in notes : n \in Note /\ n.scope \in Scope
  BY <1>1 DEF Note
<1>5. \A a \in Agent : own(a) \in Scope
  BY DEF own, Scope
<1>6. ASSUME NEW a \in Agent, Begin(c, a), session' = session, notes' = notes
      PROVE  CallInv'
  <2> DEFINE k == [NoCall EXCEPT !.pc = "dispatch", !.agent = a, !.late = a \in out]
  <2>1. /\ k \in CallRecord /\ k.pc = "dispatch" /\ k.agent = a
        /\ k.late = (a \in out)
    <3>1. NoCall \in CallRecord
      BY NoCallOK
    <3>2. (a \in out) \in BOOLEAN
      OBVIOUS
    <3> QED BY <3>1, <3>2 DEF CallRecord
  <2>3. CallOK(k)
    BY <2>1 DEF CallOK
  <2>2. call' = [call EXCEPT ![c] = k]
    BY <1>6 DEF Begin
  <2> HIDE DEF k
  <2> QED BY <1>1, <1>2, <1>6, <2>1, <2>2, <2>3, CallChanged
<1>7. CASE handle_uds(c)
  <2>1. session' \in [Caller -> Agent \cup {NONE}] /\ call' = call /\ notes' = notes
    BY <1>1, <1>7 DEF handle_uds
  <2>2. call' = [call EXCEPT ![c] = call[c]]
    BY <1>1, <2>1
  <2> QED BY <1>1, <1>2, <2>1, <2>2, CallChanged
<1>8. CASE line(c)
  <2>1. session[c] \in Agent
    BY <1>1, <1>8 DEF line
  <2> QED BY <1>6, <1>8, <2>1 DEF line
<1>9. CASE http_mcp(c)
  BY <1>6, <1>9 DEF http_mcp, auth_by_token
<1>10. CASE dispatch(c)
  <2>1. CASE Live(call[c].agent)
    <3> DEFINE k == [call[c] EXCEPT !.pc = "tool"]
    <3>1. call' = [call EXCEPT ![c] = k]
      BY <1>1, <1>10, <2>1 DEF dispatch
    <3>2. call[c].agent \in Agent /\ call[c].agent \notin out /\ Known(call[c].agent)
      BY <1>1, <1>10, <2>1, LiveNotOut DEF dispatch, CallOK, Live
    <3>3. k \in CallRecord /\ CallOK(k)
      BY <1>1, <3>2 DEF CallRecord, CallOK
    <3> HIDE DEF k
    <3> QED BY <1>1, <1>2, <1>10, <3>1, <3>3, CallChanged DEF dispatch
  <2>2. CASE ~Live(call[c].agent)
    BY <1>1, <1>2, <1>10, <2>2, DenyCalls DEF dispatch
  <2> QED BY <2>1, <2>2
<1>11. CASE memory_write(c)
  <2>1. call[c].pc = "tool" /\ session' = session /\ notes' = notes
    BY <1>11 DEF memory_write, Tool
  <2>2. PICK s \in Scope :
          IF can(call[c].agent, "write", s)
          THEN \/ Admit(c, "write", {s}, NONE)
               \/ \E n \in notes : call' = [call EXCEPT ![c].pc = "supersede",
                                                        ![c].scopes = {s}, ![c].note = n]
          ELSE Deny(c)
    BY <1>11 DEF memory_write
  <2>3. CASE can(call[c].agent, "write", s) /\ Admit(c, "write", {s}, NONE)
    <3>1. Admissible(call[c].agent, "write", {s}, NONE)
      BY <1>3, <2>1, <2>3, CanIsGranted DEF Granted, Admissible, Verb
    <3> QED BY <1>2, <2>1, <2>3, <3>1, AdmitCalls
  <2>4. ASSUME can(call[c].agent, "write", s), NEW n \in notes,
               call' = [call EXCEPT ![c].pc = "supersede", ![c].scopes = {s}, ![c].note = n]
        PROVE  CallInv'
    <3> DEFINE k == [call[c] EXCEPT !.pc = "supersede", !.scopes = {s}, !.note = n]
    <3>1. call' = [call EXCEPT ![c] = k]
      BY <1>1, <2>4
    <3>2. /\ k \in CallRecord
          /\ k.pc = "supersede" /\ k.agent = call[c].agent /\ k.late = call[c].late
          /\ k.scopes = {s} /\ k.note = n
      BY <1>1, <1>4 DEF CallRecord
    <3>3. Granted(call[c].agent, "write", s)
      BY <1>3, <2>1, <2>4, CanIsGranted DEF Verb
    <3>4. CallOK(k)
      BY <1>1, <1>3, <1>4, <2>1, <3>2, <3>3 DEF CallOK
    <3> HIDE DEF k
    <3> QED BY <1>1, <1>2, <2>1, <3>1, <3>2, <3>4, CallChanged
  <2>5. CASE ~can(call[c].agent, "write", s)
    BY <1>1, <1>2, <2>1, <2>2, <2>5, DenyCalls
  <2> QED BY <2>2, <2>3, <2>4, <2>5
<1>12. CASE supersede(c)
  <2> DEFINE note == call[c].note
  <2>1. /\ call[c].pc = "supersede" /\ session' = session /\ notes' = notes
        /\ call[c].agent \in Agent /\ note \in Note /\ note.scope \in Scope
        /\ call[c].scopes \in SUBSET Scope
        /\ \A s \in call[c].scopes : Granted(call[c].agent, "write", s)
    BY <1>1, <1>12 DEF supersede, CallOK, CallRecord, Note
  <2>2. CASE can(call[c].agent, "write", note.scope)
    <3>1. Admit(c, "write", call[c].scopes \cup {note.scope}, NONE)
      BY <1>12, <2>2 DEF supersede
    <3>2. Granted(call[c].agent, "write", note.scope)
      BY <2>1, <2>2, CanIsGranted DEF Verb
    <3>3. Admissible(call[c].agent, "write", call[c].scopes \cup {note.scope}, NONE)
      BY <2>1, <3>2 DEF Granted, Admissible, Verb
    <3> QED BY <1>2, <2>1, <3>1, <3>3, AdmitCalls
  <2>3. CASE ~can(call[c].agent, "write", note.scope)
    BY <1>1, <1>2, <1>12, <2>1, <2>3, DenyCalls DEF supersede
  <2> QED BY <2>2, <2>3
<1>13. CASE memory_search(c)
  <2>1. call[c].pc = "tool" /\ session' = session /\ notes' = notes
    BY <1>13 DEF memory_search, Tool
  <2>2. CASE Admit(c, "read", entitled_read_scopes(call[c].agent), NONE)
    <3> DEFINE a == call[c].agent
               scopes == entitled_read_scopes(a)
    <3>1. ring[a] \in Entries /\ ring[a].grants["read"] \subseteq Pattern
      BY <1>3, <2>1 DEF Known, RosterInv, RosterTypes, MaybeEntry, Entries, Verb
    <3>2. scopes \in SUBSET Scope
      BY <1>3, <1>4, <1>5, <2>1 DEF entitled_read_scopes
    <3>3. ASSUME NEW s \in scopes, s # own(a)
          PROVE  \E p \in ring[a].grants["read"] : Covers(p, s)
      <4>1. CASE s \in ring[a].grants["read"]
        BY <4>1 DEF Covers
      <4>2. ASSUME NEW n \in notes, NEW p \in ring[a].grants["read"], p.id = ANY,
                   pattern_matches(p, n.scope), s = n.scope
            PROVE  \E q \in ring[a].grants["read"] : Covers(q, s)
        BY <1>4, <3>1, <4>2, MatchesCovers
      <4> QED BY <3>3, <4>1, <4>2 DEF entitled_read_scopes
    <3> HIDE DEF a, scopes
    <3>4. Admit(c, "read", scopes, NONE)
      BY <2>2 DEF a, scopes
    <3>5. Admissible(call[c].agent, "read", scopes, NONE)
      BY <3>3 DEF a, Admissible, Verb
    <3> QED BY <1>2, <2>1, <3>2, <3>4, <3>5, AdmitCalls
  <2>3. ASSUME NEW s \in Scope, can(call[c].agent, "read", s), Admit(c, "read", {s}, NONE)
        PROVE  CallInv'
    <3>1. Admissible(call[c].agent, "read", {s}, NONE)
      BY <1>3, <2>1, <2>3, CanIsGranted DEF Granted, Admissible, Verb
    <3> QED BY <1>2, <2>1, <2>3, <3>1, AdmitCalls
  <2>4. CASE Deny(c)
    BY <1>1, <1>2, <2>1, <2>4, DenyCalls
  <2> QED BY <1>13, <2>2, <2>3, <2>4 DEF memory_search
<1>14. CASE memory_get(c)
  <2>1. call[c].pc = "tool" /\ session' = session /\ notes' = notes
    BY <1>14 DEF memory_get, Tool
  <2>2. ASSUME NEW s \in Scope, can(call[c].agent, "read", s), Admit(c, "read", {s}, NONE)
        PROVE  CallInv'
    <3>1. Admissible(call[c].agent, "read", {s}, NONE)
      BY <1>3, <2>1, <2>2, CanIsGranted DEF Granted, Admissible, Verb
    <3> QED BY <1>2, <2>1, <2>2, <3>1, AdmitCalls
  <2>3. CASE Deny(c)
    BY <1>1, <1>2, <2>1, <2>3, DenyCalls
  <2> QED BY <1>4, <1>14, <2>2, <2>3 DEF memory_get
<1>15. CASE memory_promote(c)
  <2>1. call[c].pc = "tool" /\ session' = session /\ notes' = notes
    BY <1>15 DEF memory_promote, Tool
  <2>2. ASSUME NEW s \in Scope, Admit(c, "promote", {s}, NONE),
               can(call[c].agent, "promote", s) \/ can(call[c].agent, "write", s)
        PROVE  CallInv'
    <3>1. \/ s = own(call[c].agent)
          \/ \E v \in {"promote", "write"} :
               v \in Verb /\ \E p \in ring[call[c].agent].grants[v] : Covers(p, s)
      BY <1>3, <2>1, <2>2, CanIsGranted DEF Granted, Verb
    <3>2. Admissible(call[c].agent, "promote", {s}, NONE)
      BY <3>1 DEF Admissible
    <3> QED BY <1>2, <2>1, <2>2, <3>2, AdmitCalls
  <2>3. CASE Deny(c)
    BY <1>1, <1>2, <2>1, <2>3, DenyCalls
  <2> QED BY <1>15, <2>2, <2>3 DEF memory_promote
<1>16. CASE memory_forget(c)
  <2>1. call[c].pc = "tool" /\ session' = session /\ notes' = notes
    BY <1>16 DEF memory_forget, Tool
  <2>2. ASSUME NEW n \in notes, n.scope = own(call[c].agent) \/ n.author = call[c].agent,
               Admit(c, "forget", {n.scope}, n)
        PROVE  CallInv'
    <3>1. Admissible(call[c].agent, "forget", {n.scope}, n)
      BY <2>2 DEF Admissible
    <3> QED BY <1>2, <1>4, <2>1, <2>2, <3>1, AdmitCalls
  <2>3. CASE Deny(c)
    BY <1>1, <1>2, <2>1, <2>3, DenyCalls
  <2> QED BY <1>16, <2>2, <2>3 DEF memory_forget
<1>17. CASE act(c)
  <2>1. call[c].agent \in Agent /\ call[c].scopes \in SUBSET Scope
    BY <1>1, <1>17 DEF act, CallOK, CallRecord
  <2>2. [author : {call[c].agent}, scope : call[c].scopes] \subseteq Note
    BY <2>1 DEF Note
  <2>3. notes' \in SUBSET Note
    BY <1>1, <1>17, <2>2 DEF act
  <2> QED BY <1>2, <1>17, <2>3, DenyCalls DEF act
<1> QED BY <1>7, <1>8, <1>9, <1>10, <1>11, <1>12, <1>13, <1>14, <1>15, <1>16, <1>17 DEF tools

LEMMA CallStep ==
  ASSUME IInv, [Next]_vars
  PROVE  CallInv'
<1>0. RosterInv /\ CallInv
  BY DEF IInv
<1>1. ASSUME UNCHANGED <<ring, out, calls>>
      PROVE  CallInv'
  BY <1>0, <1>1, CallsKept DEF RosterGrows
<1>2. CASE administer \/ admin_route
  BY <1>0, <1>2, AdministerCalls DEF IInv, SetupInv, SetupOK
<1>3. CASE configure /\ ~admin_route
  BY <1>1, <1>3 DEF configure, run, ensure_agent, remove, edit, backup,
     write_config, verify_handshake, user_edit, roster, told
<1>4. CASE open
  BY <1>0, <1>4, CallsReset DEF open
<1>5. ASSUME NEW c \in Caller, tools(c)
      PROVE  CallInv'
  BY <1>0, <1>5, ToolCalls
<1>6. CASE UNCHANGED vars
  BY <1>1, <1>6 DEF vars, roster, told
<1> QED BY <1>2, <1>3, <1>4, <1>5, <1>6 DEF Next

(***************************************************************************)
(* The setup, and the file it edits.                                       *)
(***************************************************************************)

\* A setup that has no content of the file in hand goes to another such point.
LEMMA SetupGoes ==
  ASSUME SetupInv, NEW s \in SetupRecord, setup' = s, UNCHANGED client,
         setups' \in 0 .. MaxSetups,
         s.pc \notin {"backup", "write", "verify", "done"},
         s.pc = "remove" => s.agent = NONE,
         s.pc \in {"ensure", "create", "rotate"} => s.agent \in Agent
  PROVE  SetupInv'
<1>1. SetupTypes'
  BY DEF SetupInv, SetupTypes, client
<1>2. SetupOK'
  BY DEF SetupOK
<1>3. KeptOK'
  BY DEF SetupInv, KeptOK, ConfigKept, client
<1> QED BY <1>1, <1>2, <1>3 DEF SetupInv

LEMMA IdleIsSetup == /\ Idle \in SetupRecord /\ Idle.pc = "idle" /\ NoFile \in File
                     /\ Idle.agent = NONE
<1>1. 0 \in 0 .. MaxEdits
  BY KeyringAssumption
<1>2. NoFile \in File
  BY <1>1 DEF NoFile, File
<1> QED BY <1>1, <1>2 DEF Idle, SetupRecord, Over

\* What the roster's changes do to it: it is left alone, ends, or goes on to the
\* key file or to the edit.
LEMMA SetupAnswered ==
  ASSUME SetupInv, UNCHANGED <<client, setups>>,
         \/ setup' \in {setup, Idle}
         \/ setup' = [setup EXCEPT !.pc = "custody"]
         \/ \E token \in Token :
              setup' = [setup EXCEPT !.pc = "edit", !.token = IF setup.http THEN token ELSE 0]
  PROVE  SetupInv'
<1>0. setup \in SetupRecord /\ setups \in 0 .. MaxSetups
  BY DEF SetupInv, SetupTypes
<1>1. CASE setup' = setup
  <2>1. SetupTypes' /\ SetupOK' /\ KeptOK'
    BY <1>1 DEF SetupInv, SetupTypes, SetupOK, KeptOK, ConfigKept, client
  <2> QED BY <2>1 DEF SetupInv
<1>2. CASE setup' = Idle
  BY <1>0, <1>2, IdleIsSetup, SetupGoes
<1>3. CASE setup' = [setup EXCEPT !.pc = "custody"]
  <2>1. [setup EXCEPT !.pc = "custody"] \in SetupRecord
    BY <1>0 DEF SetupRecord
  <2>2. setup'.pc = "custody"
    BY <1>0, <1>3 DEF SetupRecord
  <2> QED BY <1>0, <1>3, <2>1, <2>2, SetupGoes
<1>4. ASSUME NEW token \in Token,
             setup' = [setup EXCEPT !.pc = "edit", !.token = IF setup.http THEN token ELSE 0]
      PROVE  SetupInv'
  <2> DEFINE s == [setup EXCEPT !.pc = "edit", !.token = IF setup.http THEN token ELSE 0]
  <2>1. s \in SetupRecord /\ s.pc = "edit"
    BY <1>0 DEF SetupRecord
  <2> HIDE DEF s
  <2>2. setup' = s
    BY <1>4 DEF s
  <2> QED BY <1>0, <1>4, <2>1, <2>2, SetupGoes
<1> QED BY <1>1, <1>2, <1>3, <1>4

LEMMA AdministerSetup ==
  ASSUME RosterInv, SetupInv, administer \/ admin_route
  PROVE  SetupInv'
<1>1. ASSUME NEW who, NEW a \in Agent, create(who, a)
      PROVE  SetupInv'
  <2>1. UNCHANGED <<client, setups>>
    BY <1>1 DEF create
  <2>2. setup' \in {setup, Idle} \/ setup' = [setup EXCEPT !.pc = "custody"]
    BY <1>1 DEF create, Save, Refused, Cut
  <2> QED BY <2>1, <2>2, SetupAnswered
<1>2. ASSUME NEW who, NEW a \in Agent, rotate_token(who, a)
      PROVE  SetupInv'
  <2>1. UNCHANGED <<client, setups>> /\ minted + 1 \in Token
    BY <1>2, KeyringAssumption DEF rotate_token, Mint, RosterInv, RosterTypes, Token
  <2>2. \/ setup' \in {setup, Idle}
        \/ setup' = [setup EXCEPT !.pc = "edit", !.token = IF setup.http THEN minted + 1 ELSE 0]
    BY <1>2 DEF rotate_token, Save, Refused, Cut, Tell
  <2> QED BY <2>1, <2>2, SetupAnswered
<1>3. ASSUME NEW a \in Agent, revoke(a) \/ \E verb \in Verb, p \in Asked : grant(a, verb, p)
      PROVE  SetupInv'
  <2>1. UNCHANGED <<client, setups>>
    BY <1>3 DEF grant, revoke
  <2>2. setup' \in {setup, Idle}
    BY <1>3 DEF grant, revoke, Save, Refused, Cut
  <2> QED BY <2>1, <2>2, SetupAnswered
<1>4. ASSUME NEW who \in Requester, NEW a \in Agent, write_private(who, a)
      PROVE  SetupInv'
  <2>1. UNCHANGED <<client, setups>>
    BY <1>4 DEF write_private
  <2>2. ring[a] \in Entries /\ ring[a].key \in Token
    BY <1>4 DEF write_private, RosterInv, RosterTypes, AgentOK, MaybeEntry, Entries
  <2>3. \/ setup' \in {setup, Idle}
        \/ setup' = [setup EXCEPT !.pc = "edit", !.token = IF setup.http THEN ring[a].key ELSE 0]
    BY <1>4 DEF write_private, Refused, Tell
  <2> QED BY <2>1, <2>2, <2>3, SetupAnswered
<1>5. CASE administer
  BY <1>1, <1>2, <1>3, <1>4, <1>5 DEF administer
<1>6. CASE admin_route
  <2>0. SetupOK
    BY DEF SetupInv
  <2>1. CASE setup.pc = "create" /\ create("setup", setup.agent)
    BY <1>1, <2>0, <2>1 DEF SetupOK
  <2>2. CASE setup.pc = "rotate" /\ rotate_token("setup", setup.agent)
    BY <1>2, <2>0, <2>2 DEF SetupOK
  <2>3. CASE Setup("idle") /\ UNCHANGED <<client, counts>>
    BY <2>3, SetupAnswered DEF Setup, counts
  <2> QED BY <1>6, <2>1, <2>2, <2>3 DEF admin_route
<1> QED BY <1>5, <1>6

\* Reading the file, the backup of what was read, and the write.
LEMMA ConfigureSetup ==
  ASSUME SetupInv, configure, ~admin_route
  PROVE  SetupInv'
<1>0. /\ setup \in SetupRecord /\ setups \in 0 .. MaxSetups /\ config \in File
      /\ backups \in SUBSET (0 .. MaxEdits) /\ mine \in 0 .. MaxEdits
      /\ setup.old \in 0 .. MaxEdits /\ setup.new \in File
  BY DEF SetupInv, SetupTypes, SetupRecord
<1>1. ASSUME NEW a \in Agent, NEW http \in BOOLEAN, run(a, http)
      PROVE  SetupInv'
  <2> DEFINE s == [Idle EXCEPT !.pc = "ensure", !.agent = a, !.http = http]
  <2>1. s \in SetupRecord /\ s.pc = "ensure" /\ s.agent = a
    BY IdleIsSetup DEF SetupRecord
  <2>2. setups' \in 0 .. MaxSetups /\ setup' = s /\ UNCHANGED client
    BY <1>0, <1>1, KeyringAssumption DEF run
  <2> HIDE DEF s
  <2> QED BY <2>1, <2>2, SetupGoes
<1>2. CASE ensure_agent
  <2>1. setup.pc = "ensure" /\ setup.agent \in Agent /\ UNCHANGED <<client, setups>>
    BY <1>2 DEF ensure_agent, SetupInv, SetupOK, counts
  <2>2. PICK l \in {"create", "idle", "rotate", "edit"} : Setup(l)
    BY <1>2 DEF ensure_agent
  <2>3. CASE l = "idle"
    BY <2>1, <2>2, <2>3, SetupAnswered DEF Setup
  <2>4. CASE l # "idle"
    <3> DEFINE s == [setup EXCEPT !.pc = l]
    <3>1. s \in SetupRecord /\ s.pc = l /\ s.agent = setup.agent
      BY <1>0, <2>4 DEF SetupRecord, Over
    <3>2. setup' = s
      BY <2>2, <2>4 DEF Setup
    <3> HIDE DEF s
    <3> QED BY <1>0, <2>1, <3>1, <3>2, SetupGoes
  <2> QED BY <2>3, <2>4
<1>3. CASE remove
  <2> DEFINE s == [Idle EXCEPT !.pc = "remove"]
  <2>1. s \in SetupRecord /\ s.pc = "remove" /\ s.agent = NONE
    BY IdleIsSetup DEF SetupRecord
  <2>2. setups' \in 0 .. MaxSetups /\ setup' = s /\ UNCHANGED client
    BY <1>0, <1>3, KeyringAssumption DEF remove
  <2> HIDE DEF s
  <2> QED BY <2>1, <2>2, SetupGoes
<1>4. CASE edit
  <2> DEFINE new == [state |-> "text", text |-> config.text, entry |-> Entry]
             s == [setup EXCEPT !.pc = "verify"]
  <2>0. /\ setup.pc \in {"edit", "remove"} /\ UNCHANGED <<client, setups>>
        /\ setup.pc = "remove" => setup.agent = NONE
        /\ ConfigKept
    BY <1>4 DEF edit, counts, SetupInv, SetupOK, KeptOK
  <2>1. /\ new \in File /\ new.entry = Entry /\ config.text \in 0 .. MaxEdits
        /\ setup.agent # NONE => Entry = setup.token
    BY <1>0, <2>0 DEF File, Entry, SetupRecord
  <2>2. \/ setup' = Idle
        \/ setup' = s /\ config = new /\ setup.pc # "remove"
        \/ \E l \in {"backup", "write"} :
             /\ setup' = [setup EXCEPT !.pc = l, !.old = config.text, !.new = new]
             /\ l = "backup" <=> config.state = "text"
    BY <1>4 DEF edit, Setup
  <2>3. CASE setup' = Idle
    BY <2>0, <2>3, SetupAnswered
  <2>4. CASE setup' = s /\ config = new /\ setup.pc # "remove"
    <3>1. s \in SetupRecord /\ s.pc = "verify" /\ s.token = setup.token /\ s.agent = setup.agent
      BY <1>0 DEF SetupRecord
    <3>2. config.entry = setup.token
      BY <2>1, <2>4 DEF Entry
    <3> HIDE DEF s, new
    <3>3. SetupTypes' /\ SetupOK' /\ KeptOK'
      BY <2>0, <2>4, <3>1, <3>2
      DEF SetupInv, SetupTypes, SetupOK, KeptOK, ConfigKept, client
    <3> QED BY <3>3 DEF SetupInv
  <2>5. ASSUME NEW l \in {"backup", "write"},
               setup' = [setup EXCEPT !.pc = l, !.old = config.text, !.new = new],
               l = "backup" <=> config.state = "text"
        PROVE  SetupInv'
    <3> HIDE DEF new
    <3> DEFINE t == [setup EXCEPT !.pc = l, !.old = config.text, !.new = new]
    <3>1. /\ t \in SetupRecord /\ t.pc = l /\ t.old = config.text /\ t.new = new
          /\ t.agent = setup.agent /\ t.token = setup.token
      BY <1>0, <2>1 DEF SetupRecord
    <3>2. setup' = t
      BY <2>5
    <3> HIDE DEF t
    <3>3. SetupTypes' /\ SetupOK'
      BY <2>0, <2>1, <3>1, <3>2 DEF SetupInv, SetupTypes, SetupOK, client
    <3>4. KeptOK'
      BY <2>0, <2>5, <3>1, <3>2 DEF KeptOK, ConfigKept, client
    <3> QED BY <3>3, <3>4 DEF SetupInv
  <2> HIDE DEF new, s
  <2> QED BY <2>2, <2>3, <2>4, <2>5
<1>5. CASE backup
  <2>1. CASE backups' = backups \cup {setup.old} /\ Setup("write")
    <3>1. /\ setup' = [setup EXCEPT !.pc = "write"] /\ setup.pc = "backup"
          /\ UNCHANGED <<config, mine, exposed, setups>>
      BY <1>5, <2>1 DEF backup, Setup
    <3>2. /\ setup' \in SetupRecord /\ setup'.pc = "write" /\ setup'.agent = setup.agent
          /\ setup'.new = setup.new /\ setup'.token = setup.token
      BY <1>0, <3>1 DEF SetupRecord
    <3>3. SetupTypes' /\ SetupOK'
      BY <1>0, <2>1, <3>1, <3>2 DEF SetupInv, SetupTypes, SetupOK
    <3>4. KeptOK'
      BY <2>1, <3>1, <3>2 DEF SetupInv, KeptOK, ConfigKept
    <3> QED BY <3>3, <3>4 DEF SetupInv
  <2>2. CASE backups' = backups /\ Setup("idle")
    BY <1>5, <2>2, SetupAnswered DEF backup, Setup, client
  <2> QED BY <1>5, <2>1, <2>2 DEF backup
<1>6. CASE write_config
  <2>0. setup.pc = "write" /\ UNCHANGED <<backups, mine, exposed, setups>>
    BY <1>6 DEF write_config
  <2>1. CASE /\ config' = setup.new
             /\ setup' = IF setup.agent = NONE THEN Idle
                         ELSE [setup EXCEPT !.pc = "verify", !.old = 0, !.new = NoFile]
    <3> DEFINE s == [setup EXCEPT !.pc = "verify", !.old = 0, !.new = NoFile]
    <3>0. 0 \in 0 .. MaxEdits
      BY KeyringAssumption
    <3>1. s \in SetupRecord /\ s.pc = "verify" /\ s.agent = setup.agent /\ s.token = setup.token
      BY <1>0, <3>0, IdleIsSetup DEF SetupRecord
    <3>2. setup' = IF setup.agent = NONE THEN Idle ELSE s
      BY <2>1
    <3> HIDE DEF s
    <3>3. setup'.pc \in {"idle", "verify"} /\ setup' \in SetupRecord
      BY <3>1, <3>2, IdleIsSetup
    <3>4. SetupTypes'
      BY <1>0, <2>0, <2>1, <3>3 DEF SetupInv, SetupTypes
    <3>5. SetupOK'
      <4>1. setup'.pc # "idle" => setup'.token = setup.token /\ setup.agent # NONE
        BY <3>1, <3>2, IdleIsSetup
      <4> QED BY <2>0, <2>1, <3>3, <4>1 DEF SetupInv, SetupOK
    <3>6. KeptOK'
      BY <2>0, <3>3 DEF SetupInv, KeptOK, ConfigKept
    <3> QED BY <3>4, <3>5, <3>6 DEF SetupInv
  <2>2. CASE /\ Setup("idle")
             /\ config' \in [state : {"empty", "garbled"}, text : {0}, entry : {NONE}]
    <3>1. setup' = Idle
      BY <2>2 DEF Setup
    <3>2. config' \in File
      BY <2>2, KeyringAssumption DEF File
    <3>3. SetupTypes' /\ SetupOK'
      BY <2>0, <3>1, <3>2, IdleIsSetup DEF SetupInv, SetupTypes, SetupOK
    <3>4. KeptOK'
      BY <2>0, <3>1, IdleIsSetup DEF SetupInv, KeptOK, ConfigKept
    <3> QED BY <3>3, <3>4 DEF SetupInv
  <2> QED BY <1>6, <2>1, <2>2 DEF write_config
<1>7. CASE verify_handshake
  <2>0. setup.pc = "verify" /\ UNCHANGED <<client, setups>>
    BY <1>7 DEF verify_handshake, counts
  <2>1. CASE setup' = Idle
    BY <2>0, <2>1, SetupAnswered
  <2>2. CASE setup' = [setup EXCEPT !.pc = "done"]
    <3>1. /\ setup' \in SetupRecord /\ setup'.pc = "done" /\ setup'.token = setup.token
      BY <1>0, <2>2 DEF SetupRecord, Over
    <3>2. SetupTypes' /\ SetupOK' /\ KeptOK'
      BY <2>0, <3>1 DEF SetupInv, SetupTypes, SetupOK, KeptOK, ConfigKept, client
    <3> QED BY <3>2 DEF SetupInv
  <2> QED BY <1>7, <2>1, <2>2 DEF verify_handshake, Setup
<1>8. CASE user_edit
  <2>1. mine' \in 0 .. MaxEdits /\ mine' = mine + 1
    BY <1>0, <1>8, KeyringAssumption DEF user_edit
  <2>2. /\ config' = [state |-> "text", text |-> mine', entry |-> config.entry]
        /\ exposed' = (setup.pc \in {"backup", "write"}) /\ exposed' \in BOOLEAN
        /\ UNCHANGED <<backups, setup, setups>>
    BY <1>8 DEF user_edit, counts
  <2>3. config' \in File
    BY <1>0, <2>1, <2>2 DEF File
  <2>4. SetupTypes' /\ SetupOK'
    BY <2>1, <2>2, <2>3 DEF SetupInv, SetupTypes, SetupOK
  <2>5. KeptOK'
    BY <2>2 DEF KeptOK, ConfigKept
  <2> QED BY <2>4, <2>5 DEF SetupInv
<1> QED BY <1>1, <1>2, <1>3, <1>4, <1>5, <1>6, <1>7, <1>8 DEF configure

LEMMA SetupStep ==
  ASSUME IInv, [Next]_vars
  PROVE  SetupInv'
<1>0. RosterInv /\ SetupInv
  BY DEF IInv
<1>1. ASSUME UNCHANGED <<client, setup, setups>>
      PROVE  SetupInv'
  BY <1>0, <1>1, SetupAnswered
<1>2. CASE administer \/ admin_route
  BY <1>0, <1>2, AdministerSetup
<1>3. CASE configure /\ ~admin_route
  BY <1>0, <1>3, ConfigureSetup
<1>4. CASE open
  <2>1. setup' \in {setup, Idle} /\ UNCHANGED <<client, setups>>
    BY <1>4 DEF open, Cut, counts
  <2> QED BY <1>0, <2>1, SetupAnswered
<1>5. ASSUME NEW c \in Caller, tools(c)
      PROVE  SetupInv'
  BY <1>1, <1>5 DEF tools, handle_uds, line, http_mcp, dispatch, memory_write, supersede,
     memory_search, memory_get, memory_promote, memory_forget, act, Tool, Others, counts
<1>6. CASE UNCHANGED vars
  BY <1>1, <1>6 DEF vars, counts
<1> QED BY <1>2, <1>3, <1>4, <1>5, <1>6 DEF Next

LEMMA CountStep ==
  ASSUME IInv, [Next]_vars
  PROVE  CountTypes'
<1>0. /\ granted \in 0 .. MaxGrants /\ faults \in 0 .. MaxFaults
      /\ MaxGrants \in Nat /\ MaxFaults \in Nat
  BY KeyringAssumption DEF IInv, CountTypes
<1>1. faults' = faults \/ Fault => faults' \in 0 .. MaxFaults
  BY <1>0 DEF Fault
<1>2. granted' = granted \/ (granted < MaxGrants /\ granted' = granted + 1)
        => granted' \in 0 .. MaxGrants
  BY <1>0
<1>3. ASSUME NEW who, NEW a \in Agent,
             \/ create(who, a) \/ rotate_token(who, a) \/ write_private(who, a) \/ revoke(a)
      PROVE  CountTypes'
  BY <1>1, <1>2, <1>3 DEF CountTypes, create, rotate_token, write_private, revoke, Save
<1>4. ASSUME NEW a \in Agent, NEW verb \in Verb, NEW p \in Asked, grant(a, verb, p)
      PROVE  CountTypes'
  BY <1>1, <1>2, <1>4 DEF CountTypes, grant, Save
<1>5. CASE administer
  BY <1>3, <1>4, <1>5 DEF administer
<1>6. CASE configure
  <2>1. setup.pc \in {"create", "rotate"} => setup.agent \in Agent
    BY DEF IInv, SetupInv, SetupOK
  <2>2. CASE admin_route
    BY <1>1, <1>2, <1>3, <2>1, <2>2 DEF admin_route, counts, CountTypes
  <2> QED BY <1>1, <1>2, <1>6, <2>2 DEF configure, run, ensure_agent, remove, edit, backup,
     write_config, verify_handshake, user_edit, counts, CountTypes
<1>7. ASSUME UNCHANGED counts
      PROVE  CountTypes'
  BY <1>1, <1>2, <1>7 DEF CountTypes, counts
<1>8. CASE open
  BY <1>7, <1>8 DEF open
<1>9. ASSUME NEW c \in Caller, tools(c)
      PROVE  CountTypes'
  BY <1>7, <1>9 DEF tools, handle_uds, line, http_mcp, dispatch, memory_write, supersede,
     memory_search, memory_get, memory_promote, memory_forget, act, Tool, Others
<1>10. CASE UNCHANGED vars
  BY <1>7, <1>10 DEF vars
<1> QED BY <1>5, <1>6, <1>8, <1>9, <1>10 DEF Next

LEMMA InitInv == Init => IInv
<1> SUFFICES ASSUME Init PROVE IInv
  OBVIOUS
<1>1. RosterTypes
  BY KeyringAssumption DEF Init, RosterTypes, MaybeEntry
<1>2. \A a \in Agent : AgentOK(a)
  BY KeyringAssumption DEF Init, AgentOK, EntryOK
<1>3. CallTypes
  BY KeyringAssumption, NoCallOK DEF Init, CallTypes
<1>4. \A c \in Caller : CallOK(call[c])
  BY NoCallOK DEF Init
<1>5. SetupTypes
  <2>1. 0 \in 0 .. MaxEdits /\ 0 \in 0 .. MaxSetups
    BY KeyringAssumption
  <2>2. /\ config = NoFile /\ backups = {} /\ mine = 0 /\ exposed = FALSE /\ setup = Idle
        /\ setups = 0
    BY DEF Init
  <2> QED BY <2>1, <2>2, IdleIsSetup DEF SetupTypes
<1>6. SetupOK /\ KeptOK
  BY IdleIsSetup DEF Init, SetupOK, KeptOK, ConfigKept
<1>7. CountTypes
  BY KeyringAssumption DEF Init, CountTypes
<1> QED BY <1>1, <1>2, <1>3, <1>4, <1>5, <1>6, <1>7 DEF IInv, RosterInv, CallInv, SetupInv

LEMMA Inductive == Spec => []IInv
<1>1. IInv /\ [Next]_vars => IInv'
  BY RosterStep, CallStep, SetupStep, CountStep DEF IInv
<1> QED BY <1>1, InitInv, PTL DEF Spec

(***************************************************************************)
(* What follows.                                                           *)
(***************************************************************************)

\* A roster of agents with minted tokens, a private key only for an agent on the
\* disk, and calls and a setup at points of their code.
THEOREM TypeCorrect == Spec => []TypeOK
<1>1. IInv => TypeOK
  <2> SUFFICES ASSUME IInv PROVE TypeOK
    OBVIOUS
  <2>1. \A a \in Agent : keys[a] # NONE => disk[a] # NONE /\ disk[a].key = keys[a]
    BY DEF IInv, RosterInv, AgentOK
  <2> QED BY <2>1 DEF TypeOK, IInv, RosterInv, RosterTypes, MaybeEntry, CallInv, CallTypes,
             CallRecord, SetupInv, SetupTypes, SetupRecord, CountTypes
<1> QED BY <1>1, Inductive, PTL

\* However administrators, setups, new owners and failing writes fall between the
\* steps of a call, it acts for an agent not known to be revoked when it began, and
\* only where the agent is entitled to.
THEOREM CallsEntitled == Spec => []ActsEntitled
<1>1. IInv => ActsEntitled
  <2> SUFFICES ASSUME IInv, NEW c \in Caller, call[c].pc = "act"
               PROVE  /\ ~call[c].late
                      /\ \A s \in call[c].scopes :
                           \/ s = own(call[c].agent)
                           \/ call[c].verb = "forget" /\ call[c].note.author = call[c].agent
                           \/ \E v \in IF call[c].verb = "promote" THEN {"promote", "write"}
                                       ELSE {call[c].verb} :
                                v # "forget"
                                /\ \E p \in ring[call[c].agent].grants[v] : Covers(p, s)
    BY DEF ActsEntitled
  <2>1. CallOK(call[c]) /\ "forget" \notin Verb
    BY DEF IInv, CallInv, Verb
  <2> QED BY <2>1 DEF CallOK, AdmittedOK, Admissible
<1> QED BY <1>1, Inductive, PTL

\* A token that somebody was told is the last one made, or it is known to be doubtful:
\* the keyring and agents.json never fall behind an answer.
THEOREM NoDeadToken == Spec => []TokensHonest
<1>1. IInv => TokensHonest
  <2> SUFFICES ASSUME IInv, NEW a \in Agent
               PROVE  /\ handed[a] # 0 =>
                           \A r \in {ring[a], disk[a]} : r # NONE /\ r.token >= handed[a]
                      /\ handed[a] # 0 /\ handed[a] = last[a] /\ a \notin doubted =>
                           \A r \in {ring[a], disk[a]} : r.token = handed[a] /\ ~r.revoked
                      /\ setup.pc = "done" /\ setup.agent = a /\ setup.http =>
                           config.entry = setup.token
    BY DEF TokensHonest
  <2>1. AgentOK(a) /\ SetupOK /\ ring \in [Agent -> MaybeEntry] /\ disk \in [Agent -> MaybeEntry]
        /\ handed[a] \in Nat /\ last[a] \in Nat
    BY KeyringAssumption DEF IInv, RosterInv, RosterTypes, SetupInv
  <2>2. ASSUME handed[a] # 0, NEW r \in {ring[a], disk[a]}
        PROVE  r \in Entries /\ r.token \in Nat /\ r # NONE /\ EntryOK(r, a)
    BY <2>1, <2>2, KeyringAssumption DEF AgentOK, MaybeEntry, Entries, Token
  <2> QED BY <2>1, <2>2 DEF EntryOK, SetupOK
<1> QED BY <1>1, Inductive, PTL

\* What the user last wrote in the client's configuration survives the setup.
THEOREM UserTextKept == Spec => []ConfigKept
<1>1. IInv => ConfigKept
  BY DEF IInv, SetupInv, KeptOK
<1> QED BY <1>1, Inductive, PTL
=============================================================================
