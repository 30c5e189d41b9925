---------------------------- MODULE RepoKeysProofs ----------------------------
(* Proofs about RepoKeys, for any number of devices and repositories.      *)
EXTENDS RepoKeys, TLAPS

(***************************************************************************)
(* The inductive invariant, in parts.                                      *)
(***************************************************************************)

\* Where a command goes on with a key, and where it has made that key its own.
Keyed == {"store_key", "store_label", "show", "list_pending", "approve", "reopen",
          "revoke", "reseal", "list", "rewrap", "table", "publish", "save"}
Commands == {"list_pending", "reopen", "table"}
Targeted == {"list_pending", "approve", "reopen", "revoke"}
Trusting == {"list_pending", "approve", "reopen", "revoke", "table", "publish", "save"}

\* What a command has found out so far is there when a step needs it.
LocalOK(d, j) ==
  /\ j.pc # "idle" => j.repo \in Repo
  /\ j.pc \in Keyed => j.key \in Key
  /\ j.pc = "config" => j.next = "idle" \/ (j.next = "show" /\ j.key \in Key)
  /\ j.pc \in {"manifest", "wrap"} => j.next \in Commands
  /\ j.pc \in {"store_key", "store_label"} =>
       j.next \in Commands \cup {"show", "idle", "list"}
  /\ j.pc = "reseal" => j.next = "list"
  /\ j.pc \in Targeted => j.target \in Device \ {d}
  /\ j.pc \in {"manifest", "wrap", "store_key", "store_label"}
       /\ j.next \in {"list_pending", "reopen"} => j.target \in Device \ {d}
LocalsOK == \A d \in Device : LocalOK(d, job[d])

\* Each revocation counts a generation and generates a key.
Counted == \A r \in Repo : server[r].generation <= minted + 1

TypeInv == TypeOK /\ LocalsOK /\ Counted

\* Every key there is has been generated.
Known(k) == k # NONE => k <= minted
KeysKnown ==
  /\ \A d \in Device : Known(job[d].key) /\ Known(rmk[d])
  /\ \A r \in Repo : \A k \in phrases[r] : k <= minted
  /\ \A r \in Repo : Known(server[r].manifest)
  /\ \A r \in Repo, d \in Device :
       server[r].wraps[d] # NONE => server[r].wraps[d].key <= minted

\* Nobody comes back who was revoked,
OutcastsOut ==
  \A r \in Repo :
    /\ server[r].state = "none" =>
         server[r] = NoRepo /\ \A k \in Key : outcast[r][k] = {}
    /\ server[r].state = "deleted" => server[r] = [NoRepo EXCEPT !.state = "deleted"]
    /\ server[r].state = "live" =>
         \A k \in Key : outcast[r][k] \subseteq WithStatus(r, "revoked")

\* and none of them is among those a command is about to send its key to.
ReceiversOK ==
  \A d \in Device :
    job[d].pc = "rewrap" => job[d].todo \cap outcast[job[d].repo][job[d].key] = {}

WrapsInv == OutcastsOut /\ ReceiversOK /\ WrapsForMembers

\* A command works on the repository its device is connected to, from a step on
\* with the key that the device has stored.
SettledWith(j, repo, key) ==
  /\ j.pc \in Trusting \cup {"manifest", "wrap", "reseal", "store_key", "store_label"} =>
       repo = j.repo
  /\ j.pc \in Trusting \cup {"store_label"} => key = j.key
  /\ j.pc = "revoke" => j.seen \in {NONE, j.key}
Settled == \A d \in Device : SettledWith(job[d], config[d], rmk[d])

\* What a command disconnects from is gone, and what connects was not connected.
Joining ==
  \A d \in Device :
    /\ job[d].pc = "forget" => server[job[d].repo].state = "deleted"
    /\ job[d].pc = "config" => spoiled \/ config[d] = NONE

SettledInv == Settled /\ Joining

\* Who has the key of a manifest and keeps it: a device that is not about to replace
\* its copy, or one that is about to store the key it has sealed the manifest under.
Keeps(d, r, k) ==
  /\ config[d] = r
  /\ server[r].status[d] = "approved"
  /\ \/ rmk[d] = k /\ job[d].pc \notin {"wrap", "store_key"}
     \/ job[d].pc = "store_key" /\ job[d].next = "list" /\ job[d].key = k

SomebodyKeeps ==
  \A r \in Repo :
    LET k == server[r].manifest IN
    server[r].state = "live" /\ k # NONE =>
      k \in phrases[r] \/ \E d \in Device : Keeps(d, r, k)

KeptInv == ~spoiled => SomebodyKeeps

\* When commands run one by one, what a step has read is still so.
OneByOne ==
  orderly =>
    /\ \A d \in Running, e \in Running : d = e
    /\ \A d \in Device :
         LET j == job[d] IN
         /\ j.pc = "publish" => server[j.repo].manifest \in {NONE, j.key}
         /\ j.pc = "reseal" /\ server[j.repo].manifest # NONE =>
              server[j.repo].manifest <= j.key

IInv == TypeInv /\ KeysKnown /\ WrapsInv /\ SettledInv /\ KeptInv /\ OneByOne

(***************************************************************************)
(* Types.                                                                  *)
(***************************************************************************)

\* A command that goes on leaves the commands of the other devices alone.
LEMMA Moves ==
  ASSUME TypeInv, NEW d \in Device, NEW j, Go(d, j)
  PROVE  /\ job'[d] = j
         /\ \A e \in Device \ {d} : job'[e] = job[e]
         /\ j \in Job => job' \in [Device -> Job]
         /\ LocalOK(d, j) => LocalsOK'
BY DEF TypeInv, TypeOK, LocalsOK, Go

LEMMA MovesTyped ==
  ASSUME TypeInv, NEW d \in Device, NEW j \in Job, LocalOK(d, j), Go(d, j)
  PROVE  job' \in [Device -> Job] /\ LocalsOK'
BY Moves

LEMMA IdleOK ==
  ASSUME KeysAssumption, NEW d \in Device
  PROVE  Idle \in Job /\ LocalOK(d, Idle)
BY DEF KeysAssumption, Idle, Job, Steps, Requests, Maybe, Generation, LocalOK, Keyed,
       Commands, Targeted

\* A command that gives up.
LEMMA GivesUpTyped ==
  ASSUME TypeInv, NEW d \in Device, GiveUp(d)
  PROVE  job' \in [Device -> Job] /\ LocalsOK' /\ {spoiled', orderly'} \subseteq BOOLEAN
<1>1. Idle \in Job /\ LocalOK(d, Idle)
  BY IdleOK, KeysAssumption
<1>2. job' \in [Device -> Job] /\ LocalsOK'
  BY <1>1, MovesTyped DEF GiveUp
<1> QED BY <1>2 DEF GiveUp, TypeInv, TypeOK

LEMMA InitTyped == Init => TypeInv
<1> SUFFICES ASSUME Init PROVE TypeInv
  OBVIOUS
<1>1. NoRepo \in Server
  BY KeysAssumption DEF NoRepo, Server, Generation, Maybe
<1>2. \A d \in Device : Idle \in Job /\ LocalOK(d, Idle)
  BY IdleOK, KeysAssumption
<1>3. TypeOK
  <2>1. server \in [Repo -> Server] /\ job \in [Device -> Job]
    BY <1>1, <1>2 DEF Init
  <2>2. /\ config \in [Device -> Maybe(Repo)] /\ rmk \in [Device -> Maybe(Key)]
        /\ label \in [Device -> Generation] /\ synced \subseteq Device
        /\ minted \in 0 .. MaxKeys /\ faults \in 0 .. MaxFaults
        /\ phrases \in [Repo -> SUBSET Key]
        /\ outcast \in [Repo -> [Key -> SUBSET Device]]
    BY KeysAssumption DEF Init, Maybe, Generation
  <2>3. {spoiled, orderly} \subseteq BOOLEAN
    BY Zenon DEF Init
  <2> QED BY <2>1, <2>2, <2>3 DEF TypeOK
<1>4. LocalsOK
  BY <1>2 DEF Init, LocalsOK
<1>5. Counted
  BY DEF Init, Counted, NoRepo
<1> QED BY <1>3, <1>4, <1>5 DEF TypeInv

\* What a step on a repository can rely on.
LEMMA InRepo ==
  ASSUME TypeInv, NEW d \in Device, job[d].pc # "idle"
  PROVE  /\ job[d] \in Job /\ LocalOK(d, job[d])
         /\ job[d].repo \in Repo /\ server[job[d].repo] \in Server
BY DEF TypeInv, TypeOK, LocalsOK, LocalOK

\* One change of what the server knows of a repository.
LEMMA ServerChanges ==
  ASSUME TypeInv, NEW r \in Repo, NEW v \in Server, server' = [server EXCEPT ![r] = v],
         v.generation <= server[r].generation, minted' = minted
  PROVE  server' \in [Repo -> Server] /\ Counted'
<1>1. server' \in [Repo -> Server]
  BY DEF TypeInv, TypeOK
<1>2. server[r] \in Server /\ minted \in Nat
  BY KeysAssumption DEF TypeInv, TypeOK
<1>3. \A q \in Repo : server'[q].generation <= minted + 1
  BY <1>2 DEF TypeInv, TypeOK, Counted, Server, Generation
<1> QED BY <1>1, <1>3 DEF Counted

\* A new command.
LEMMA TypeInit ==
  ASSUME TypeInv, NEW d \in Device, NEW r \in Repo, init(d, r)
  PROVE  TypeInv'
<1> DEFINE j == [Idle EXCEPT !.repo = r, !.key = minted + 1, !.pc = "config",
                             !.next = "show"]
           v == [server[r] EXCEPT !.state = "live", !.status[d] = "approved"]
<1>1. minted + 1 \in Key /\ minted \in Nat
  BY KeysAssumption DEF init, TypeInv, TypeOK, Key
<1>2. Idle \in Job
  BY IdleOK, KeysAssumption
<1>2a. j \in Job /\ j.pc = "config" /\ j.next = "show" /\ j.repo = r /\ j.key = minted + 1
  BY <1>1, <1>2 DEF Job, Steps, Maybe
<1>2b. LocalOK(d, j)
  BY <1>1, <1>2a DEF LocalOK, Keyed, Targeted
<1>3. job' \in [Device -> Job] /\ LocalsOK'
  BY <1>2a, <1>2b, MovesTyped DEF init, Begin
<1>4. server' = [server EXCEPT ![r] = v] /\ v \in Server /\ v.generation = server[r].generation
  BY DEF init, TypeInv, TypeOK, Server
<1>5. server' \in [Repo -> Server] /\ Counted'
  BY <1>4, <1>1 DEF init, TypeInv, TypeOK, Counted, Server, Generation
<1>6. minted' \in 0 .. MaxKeys
  BY <1>1 DEF init, Key
<1>7. {spoiled', orderly'} \subseteq BOOLEAN
  BY DEF init, Begin, Joins, TypeInv, TypeOK
<1> QED BY <1>3, <1>5, <1>6, <1>7 DEF init, Begin, files, TypeInv, TypeOK

LEMMA TypeConnect ==
  ASSUME TypeInv, NEW d \in Device, NEW r \in Repo, connect(d, r)
  PROVE  TypeInv'
<1> DEFINE v == [server[r] EXCEPT !.status[d] = "pending"]
<1>1. PICK k \in Maybe(phrases[r]) :
        Begin(d, [Idle EXCEPT !.repo = r, !.key = k, !.pc = "config"])
  BY DEF connect
<1> DEFINE j == [Idle EXCEPT !.repo = r, !.key = k, !.pc = "config"]
<1>2. k \in Maybe(Key)
  BY DEF TypeInv, TypeOK, Maybe
<1>3. Idle \in Job /\ Idle.next = "idle"
  BY IdleOK, KeysAssumption DEF Idle
<1>4. j \in Job /\ j.pc = "config" /\ j.next = "idle" /\ j.repo = r
  BY <1>2, <1>3 DEF Job, Steps, Maybe
<1>5. LocalOK(d, j)
  BY <1>4 DEF LocalOK, Keyed, Targeted
<1>6. job' \in [Device -> Job] /\ LocalsOK'
  BY <1>1, <1>4, <1>5, MovesTyped DEF Begin
<1>7. server' = [server EXCEPT ![r] = v] /\ v \in Server /\ v.generation = server[r].generation
  BY DEF connect, TypeInv, TypeOK, Server
<1>8. v.generation <= server[r].generation
  BY <1>7 DEF TypeInv, TypeOK, Server, Generation
<1>9. server' \in [Repo -> Server] /\ Counted'
  BY <1>7, <1>8, ServerChanges DEF connect
<1>10. {spoiled', orderly'} \subseteq BOOLEAN
  BY <1>1 DEF connect, Begin, Joins, TypeInv, TypeOK
<1> QED BY <1>1, <1>6, <1>9, <1>10 DEF connect, Begin, files, TypeInv, TypeOK

LEMMA TypeDelete ==
  ASSUME TypeInv, NEW d \in Device, NEW r \in Repo, delete_repo(d, r)
  PROVE  TypeInv'
<1> DEFINE v == [NoRepo EXCEPT !.state = "deleted"]
           j == [Idle EXCEPT !.repo = r, !.pc = "forget"]
<1>1. Idle \in Job
  BY IdleOK, KeysAssumption
<1>2. j \in Job /\ j.pc = "forget" /\ j.repo = r
  BY <1>1 DEF Job, Steps, Maybe
<1>3. LocalOK(d, j)
  BY <1>2 DEF LocalOK, Keyed, Targeted
<1>4. job' \in [Device -> Job] /\ LocalsOK'
  BY <1>2, <1>3, MovesTyped DEF delete_repo, Begin
<1>5. v \in Server /\ v.generation = 1
  BY KeysAssumption DEF NoRepo, Server, Generation, Maybe
<1>6. v.generation <= server[r].generation
  BY <1>5 DEF TypeInv, TypeOK, Server, Generation
<1>7. server' \in [Repo -> Server] /\ Counted'
  BY <1>5, <1>6, ServerChanges DEF delete_repo
<1>8. {spoiled', orderly'} \subseteq BOOLEAN
  BY DEF delete_repo, Begin, TypeInv, TypeOK
<1> QED BY <1>4, <1>7, <1>8 DEF delete_repo, Begin, files, TypeInv, TypeOK

LEMMA TypeStart ==
  ASSUME TypeInv, NEW d \in Device, NEW s \in Commands, NEW e \in Maybe(Device \ {d}),
         s # "table" => e \in Device \ {d}, start(d, s, e)
  PROVE  TypeInv'
<1> DEFINE j == [Idle EXCEPT !.repo = config[d], !.target = e, !.pc = "manifest",
                             !.next = s]
<1>1. Idle \in Job /\ config[d] \in Repo
  BY IdleOK, KeysAssumption DEF start, TypeInv, TypeOK, Maybe
<1>2. /\ j \in Job /\ j.pc = "manifest" /\ j.repo = config[d]
      /\ j.next = s /\ j.target = e
  BY ZenonT(40), <1>1 DEF Job, Steps, Requests, Commands, Maybe
<1>3. LocalOK(d, j)
  BY <1>1, <1>2 DEF LocalOK, Keyed, Targeted, Commands
<1>4. job' \in [Device -> Job] /\ LocalsOK'
  BY <1>2, <1>3, MovesTyped DEF start, Begin
<1>5. {spoiled', orderly'} \subseteq BOOLEAN
  BY DEF start, Begin, TypeInv, TypeOK
<1> QED BY <1>4, <1>5 DEF start, Begin, files, TypeInv, TypeOK, Counted

\* A command that goes on to a step with what it has.
LEMMA GotoTyped ==
  ASSUME TypeInv, NEW d \in Device, job[d].pc # "idle", NEW l \in Steps,
         Goto(d, l), LocalOK(d, [job[d] EXCEPT !.pc = l])
  PROVE  job' \in [Device -> Job] /\ LocalsOK'
<1>1. [job[d] EXCEPT !.pc = l] \in Job
  BY InRepo DEF Job
<1> QED BY <1>1, MovesTyped DEF Goto

LEMMA TypeFiles ==
  ASSUME TypeInv, NEW d \in Device,
         save_config(d) \/ store_key(d) \/ store_label(d) \/ print_recovery_phrase(d)
           \/ save(d) \/ clear_config(d)
  PROVE  TypeInv'
<1>1. CASE save_config(d)
  <2>1. job[d] \in Job /\ LocalOK(d, job[d]) /\ job[d].pc = "config"
    BY <1>1, InRepo DEF save_config, At
  <2>2. CASE job[d].key = NONE
    <3>1. job' \in [Device -> Job] /\ LocalsOK'
      BY <1>1, <2>2, IdleOK, KeysAssumption, MovesTyped DEF save_config
    <3> QED BY <1>1, <2>1, <3>1 DEF save_config, history, TypeInv, TypeOK, Counted, Job
  <2>3. CASE job[d].key # NONE
    <3>1. LocalOK(d, [job[d] EXCEPT !.pc = "store_key"])
      BY <2>1, <2>3 DEF LocalOK, Keyed, Targeted, Job, Maybe
    <3>2. job' \in [Device -> Job] /\ LocalsOK'
      BY <1>1, <2>1, <2>3, <3>1, GotoTyped DEF save_config, Steps
    <3> QED BY <1>1, <2>1, <3>2 DEF save_config, history, TypeInv, TypeOK, Counted, Job
  <2> QED BY <2>2, <2>3
<1>2. CASE store_key(d)
  <2>1. job[d] \in Job /\ LocalOK(d, job[d]) /\ job[d].pc = "store_key"
    BY <1>2, InRepo DEF store_key, At
  <2>2. LocalOK(d, [job[d] EXCEPT !.pc = "store_label"])
    BY <2>1 DEF LocalOK, Keyed, Targeted, Job
  <2>3. job' \in [Device -> Job] /\ LocalsOK'
    BY <1>2, <2>1, <2>2, GotoTyped DEF store_key, Steps
  <2> QED BY <1>2, <2>1, <2>3 DEF store_key, history, TypeInv, TypeOK, Counted, Job
<1>3. CASE store_label(d)
  <2>1. job[d] \in Job /\ LocalOK(d, job[d]) /\ job[d].pc = "store_label"
    BY <1>3, InRepo DEF store_label, At
  <2>2. CASE job[d].next = "idle"
    <3>1. job' \in [Device -> Job] /\ LocalsOK'
      BY <1>3, <2>2, IdleOK, KeysAssumption, MovesTyped DEF store_label
    <3> QED BY <1>3, <2>1, <3>1 DEF store_label, history, TypeInv, TypeOK, Counted, Job
  <2>3. CASE job[d].next # "idle"
    <3>1. LocalOK(d, [job[d] EXCEPT !.pc = job[d].next])
      BY <2>1, <2>3 DEF LocalOK, Keyed, Targeted, Commands, Job
    <3>2. job' \in [Device -> Job] /\ LocalsOK'
      BY <1>3, <2>1, <2>3, <3>1, GotoTyped DEF store_label, Job
    <3> QED BY <1>3, <2>1, <3>2 DEF store_label, history, TypeInv, TypeOK, Counted, Job
  <2> QED BY <2>2, <2>3
<1>4. CASE print_recovery_phrase(d)
  <2>1. job[d] \in Job /\ LocalOK(d, job[d]) /\ job[d].pc = "show"
    BY <1>4, InRepo DEF print_recovery_phrase, At
  <2>2. job' \in [Device -> Job] /\ LocalsOK'
    BY <1>4, IdleOK, KeysAssumption, MovesTyped DEF print_recovery_phrase
  <2>3. job[d].key \in Key /\ job[d].repo \in Repo
    BY <2>1 DEF LocalOK, Keyed
  <2> QED BY <1>4, <2>2, <2>3 DEF print_recovery_phrase, files, TypeInv, TypeOK, Counted
<1>5. CASE save(d)
  <2>1. job' \in [Device -> Job] /\ LocalsOK'
    BY <1>5, IdleOK, KeysAssumption, MovesTyped DEF save
  <2> QED BY <1>5, <2>1 DEF save, history, TypeInv, TypeOK, Counted
<1>6. CASE clear_config(d)
  <2>1. job' \in [Device -> Job] /\ LocalsOK'
    BY <1>6, IdleOK, KeysAssumption, MovesTyped DEF clear_config
  <2> QED BY <1>6, <2>1 DEF clear_config, history, TypeInv, TypeOK, Counted, Maybe
<1> QED BY <1>1, <1>2, <1>3, <1>4, <1>5, <1>6

\* The steps that change nothing but the place of the command.
LEMMA TypeReads ==
  ASSUME TypeInv, NEW d \in Device,
         current_rmk(d) \/ rmk_from_own_wrap(d) \/ list_pending(d) \/ reopen(d)
           \/ list_devices(d) \/ fetch_table(d) \/ refused(d) \/ fail(d)
  PROVE  TypeInv'
<1>0. job[d].pc # "idle"
  BY DEF current_rmk, rmk_from_own_wrap, list_pending, reopen, list_devices, fetch_table,
     refused, fail, At, Requests
<1>1. /\ job[d] \in Job /\ LocalOK(d, job[d])
      /\ job[d].repo \in Repo /\ server[job[d].repo] \in Server
  BY <1>0, InRepo
<1>2. rmk[d] \in Maybe(Key) /\ label[d] \in Generation
  BY DEF TypeInv, TypeOK
<1>3. ASSUME GiveUp(d), UNCHANGED <<server, files, minted, outcast, phrases>>,
             faults' \in 0 .. MaxFaults
      PROVE  TypeInv'
  <2>1. job' \in [Device -> Job] /\ LocalsOK' /\ {spoiled', orderly'} \subseteq BOOLEAN
    BY <1>3, GivesUpTyped
  <2> QED BY <1>3, <2>1 DEF files, TypeInv, TypeOK, Counted
<1>4. ASSUME NEW j \in Job, LocalOK(d, j), Go(d, j),
             UNCHANGED <<server, files, minted, history>>
      PROVE  TypeInv'
  <2>1. job' \in [Device -> Job] /\ LocalsOK'
    BY <1>4, MovesTyped
  <2> QED BY <1>4, <2>1 DEF files, history, TypeInv, TypeOK, Counted
<1>5. faults \in 0 .. MaxFaults
  BY DEF TypeInv, TypeOK
<1>6. CASE current_rmk(d)
  <2> DEFINE sealed == server[job[d].repo].manifest
             j == [job[d] EXCEPT !.key = rmk[d], !.generation = label[d],
                                 !.pc = job[d].next]
             w == [job[d] EXCEPT !.seen = sealed, !.pc = "wrap"]
  <2>1. job[d].pc = "manifest" /\ job[d].next \in Commands
    BY <1>1, <1>6 DEF current_rmk, At, LocalOK
  <2>2. CASE Go(d, j) /\ rmk[d] # NONE
    <3>1. rmk[d] \in Key
      BY <1>2, <2>2 DEF Maybe
    <3>2. j \in Job
      BY <1>1, <1>2, <3>1 DEF Job, Maybe
    <3>3. LocalOK(d, j)
      BY <1>1, <2>1, <3>1 DEF LocalOK, Job, Commands, Targeted, Keyed
    <3> QED BY <1>4, <1>6, <2>2, <3>2, <3>3 DEF current_rmk
  <2>3. CASE Go(d, w)
    <3>1. w \in Job
      BY <1>1 DEF Job, Server, Steps, Requests
    <3>2. LocalOK(d, w)
      BY <1>1, <2>1 DEF LocalOK, Job, Commands, Targeted, Keyed
    <3> QED BY <1>4, <1>6, <2>3, <3>1, <3>2 DEF current_rmk
  <2> QED BY <1>6, <2>2, <2>3 DEF current_rmk
<1>7. CASE rmk_from_own_wrap(d)
  <2> DEFINE wrap == server[job[d].repo].wraps[d]
             j == [job[d] EXCEPT !.key = wrap.key, !.generation = wrap.generation,
                                 !.seen = NONE, !.pc = "store_key"]
  <2>1. job[d].pc = "wrap" /\ job[d].next \in Commands
    BY <1>1, <1>7 DEF rmk_from_own_wrap, At, LocalOK
  <2>2. wrap # NONE => wrap \in DeviceWrap
    BY <1>1 DEF Server, Maybe
  <2>3. CASE wrap # NONE /\ Go(d, j) /\ Proceed
    <3>1. j \in Job /\ wrap.key \in Key
      BY <1>1, <2>2, <2>3 DEF Job, Steps, Maybe, DeviceWrap
    <3>2. LocalOK(d, j)
      BY <1>1, <2>1, <3>1 DEF LocalOK, Job, Commands, Targeted, Keyed
    <3> QED BY <1>4, <1>7, <2>3, <3>1, <3>2 DEF rmk_from_own_wrap, history, Proceed
  <2>4. CASE GiveUp(d)
    BY <1>3, <1>5, <1>7, <2>4 DEF rmk_from_own_wrap
  <2> QED BY <1>7, <2>3, <2>4 DEF rmk_from_own_wrap
<1>8. CASE list_pending(d)
  <2>1. CASE Goto(d, "approve") /\ Proceed
    <3>1. job[d].pc = "list_pending" /\ [job[d] EXCEPT !.pc = "approve"] \in Job
      BY <1>1, <1>8 DEF list_pending, At, Job, Steps, Requests
    <3>2. LocalOK(d, [job[d] EXCEPT !.pc = "approve"])
      BY <1>1, <3>1 DEF LocalOK, Job, Targeted, Keyed
    <3> QED BY <1>4, <1>8, <2>1, <3>1, <3>2 DEF list_pending, history, Proceed, Goto
  <2>2. CASE GiveUp(d)
    BY <1>3, <1>5, <1>8, <2>2 DEF list_pending
  <2> QED BY <1>8, <2>1, <2>2 DEF list_pending
<1>9. CASE reopen(d)
  <2> DEFINE j == [job[d] EXCEPT !.seen = server[job[d].repo].manifest, !.pc = "revoke"]
  <2>1. CASE Go(d, j) /\ Proceed
    <3>1. job[d].pc = "reopen" /\ j \in Job
      BY <1>1, <1>9 DEF reopen, At, Job, Steps, Requests, Server
    <3>2. LocalOK(d, j)
      BY <1>1, <3>1 DEF LocalOK, Job, Targeted, Keyed
    <3> QED BY <1>4, <1>9, <2>1, <3>1, <3>2 DEF reopen, history, Proceed
  <2>2. CASE GiveUp(d)
    BY <1>3, <1>5, <1>9, <2>2 DEF reopen
  <2> QED BY <1>9, <2>1, <2>2 DEF reopen
<1>10. CASE list_devices(d)
  <2> DEFINE l == IF Survivors(d) = {} THEN "show" ELSE "rewrap"
             j == [job[d] EXCEPT !.todo = Survivors(d), !.pc = l]
  <2>1. job[d].pc = "list" /\ Survivors(d) \subseteq Device /\ l \in Keyed
    BY <1>10 DEF list_devices, At, Survivors, WithStatus, Keyed
  <2>2. j \in Job /\ LocalOK(d, j)
    BY <1>1, <2>1 DEF LocalOK, Job, Targeted, Keyed, Steps, Requests
  <2> QED BY <1>4, <1>10, <2>2 DEF list_devices
<1>11. CASE fetch_table(d)
  <2>1. CASE GiveUp(d)
    BY <1>3, <1>5, <1>11, <2>1 DEF fetch_table
  <2>2. ASSUME NEW l \in {"publish", "save"}, Goto(d, l), Proceed
        PROVE  TypeInv'
    <3>1. job[d].pc = "table" /\ [job[d] EXCEPT !.pc = l] \in Job
      BY <1>1, <1>11, <2>2 DEF fetch_table, At, Job, Steps, Requests
    <3>2. LocalOK(d, [job[d] EXCEPT !.pc = l])
      BY <1>1, <3>1 DEF LocalOK, Job, Targeted, Keyed
    <3> QED BY <1>4, <1>11, <2>2, <3>1, <3>2 DEF fetch_table, history, Proceed, Goto
  <2> QED BY <1>11, <2>1, <2>2 DEF fetch_table
<1>12. CASE refused(d)
  BY <1>3, <1>5, <1>12 DEF refused
<1>13. CASE fail(d)
  BY <1>3, <1>5, <1>13, KeysAssumption DEF fail
<1> QED BY <1>6, <1>7, <1>8, <1>9, <1>10, <1>11, <1>12, <1>13

\* The requests that change what the server knows.
LEMMA TypeWrites ==
  ASSUME TypeInv, NEW d \in Device,
         approve_device(d) \/ reseal(d) \/ push_wrap(d) \/ publish(d)
  PROVE  TypeInv'
<1>0. job[d].pc # "idle"
  BY DEF approve_device, reseal, push_wrap, publish, At
<1>1. /\ job[d] \in Job /\ LocalOK(d, job[d])
      /\ job[d].repo \in Repo /\ server[job[d].repo] \in Server
  BY <1>0, InRepo
<1> DEFINE r == job[d].repo
           wrap == [key |-> job[d].key, generation |-> job[d].generation]
<1>2. ASSUME NEW v \in Server, server' = [server EXCEPT ![r] = v],
             v.generation = server[r].generation, minted' = minted,
             UNCHANGED <<files, outcast, phrases, faults>>,
             job' \in [Device -> Job], LocalsOK', {spoiled', orderly'} \subseteq BOOLEAN
      PROVE  TypeInv'
  <2>1. v.generation <= server[r].generation
    BY <1>1, <1>2 DEF Server, Generation
  <2>2. server' \in [Repo -> Server] /\ Counted'
    BY <1>1, <1>2, <2>1, ServerChanges
  <2> QED BY <1>2, <2>2 DEF files, TypeInv, TypeOK
<1>3. {spoiled, orderly} \subseteq BOOLEAN
  BY DEF TypeInv, TypeOK
<1>4. CASE approve_device(d)
  <2>1. CASE /\ server' = [server EXCEPT ![r].status[job[d].target] = "approved",
                                        ![r].wraps[job[d].target] = wrap]
             /\ Go(d, Idle) /\ Proceed
    <3> DEFINE v == [server[r] EXCEPT !.status[job[d].target] = "approved",
                                      !.wraps[job[d].target] = wrap]
    <3>1. job[d].pc = "approve" /\ job[d].key \in Key /\ job[d].target \in Device
      BY <1>1, <1>4 DEF approve_device, At, LocalOK, Keyed, Targeted
    <3>2. wrap \in DeviceWrap
      BY <1>1, <3>1 DEF DeviceWrap, Job
    <3>3. v \in Server /\ v.generation = server[r].generation
      BY <1>1, <3>1, <3>2 DEF Server, Maybe
    <3>4. server' = [server EXCEPT ![r] = v]
      BY <1>1, <2>1, <3>1 DEF TypeInv, TypeOK, Server
    <3>5. job' \in [Device -> Job] /\ LocalsOK'
      BY <2>1, IdleOK, KeysAssumption, MovesTyped
    <3> QED BY <1>2, <1>3, <1>4, <2>1, <3>3, <3>4, <3>5 DEF approve_device, Proceed
  <2>2. CASE GiveUp(d) /\ UNCHANGED server
    <3>1. job' \in [Device -> Job] /\ LocalsOK' /\ {spoiled', orderly'} \subseteq BOOLEAN
      BY <2>2, GivesUpTyped
    <3> QED BY <1>4, <2>2, <3>1 DEF approve_device, files, TypeInv, TypeOK, Counted
  <2> QED BY <1>4, <2>1, <2>2 DEF approve_device
<1>5. ASSUME NEW k \in Key
      PROVE  /\ [server[r] EXCEPT !.manifest = k] \in Server
             /\ [server[r] EXCEPT !.manifest = k].generation = server[r].generation
             /\ [server EXCEPT ![r].manifest = k]
                  = [server EXCEPT ![r] = [server[r] EXCEPT !.manifest = k]]
  BY <1>1, <1>5 DEF TypeInv, TypeOK, Server, Maybe
<1>6. CASE reseal(d)
  <2> DEFINE j == [job[d] EXCEPT !.seen = NONE, !.pc = "store_key"]
  <2>1. job[d].pc = "reseal" /\ job[d].key \in Key /\ job[d].next = "list"
    BY <1>1, <1>6 DEF reseal, At, LocalOK, Keyed
  <2>2. j \in Job
    BY <1>1 DEF Job, Steps, Maybe
  <2>3. LocalOK(d, j)
    BY <1>1, <2>1 DEF LocalOK, Job, Targeted, Keyed
  <2>4. job' \in [Device -> Job] /\ LocalsOK'
    BY <1>6, <2>2, <2>3, MovesTyped DEF reseal
  <2>5. {spoiled', orderly'} \subseteq BOOLEAN
    BY <1>3, <1>6 DEF reseal
  <2>6. server' = [server EXCEPT ![r] = [server[r] EXCEPT !.manifest = job[d].key]]
    BY <1>5, <1>6, <2>1 DEF reseal
  <2> QED BY <1>2, <1>5, <1>6, <2>1, <2>4, <2>5, <2>6 DEF reseal
<1>7. CASE publish(d)
  <2>1. job[d].pc = "publish" /\ job[d].key \in Key
    BY <1>1, <1>7 DEF publish, At, LocalOK, Keyed
  <2>2. LocalOK(d, [job[d] EXCEPT !.pc = "save"])
    BY <1>1, <2>1 DEF LocalOK, Job, Targeted, Keyed
  <2>3. job' \in [Device -> Job] /\ LocalsOK'
    BY <1>0, <1>7, <2>2, GotoTyped DEF publish, Steps
  <2>4. server' = [server EXCEPT ![r] = [server[r] EXCEPT !.manifest = job[d].key]]
    BY <1>5, <1>7, <2>1 DEF publish
  <2> QED BY <1>2, <1>3, <1>5, <1>7, <2>1, <2>3, <2>4 DEF publish, history
<1>8. CASE push_wrap(d)
  <2>1. PICK e \in job[d].todo :
          /\ server' = [server EXCEPT ![r].wraps[e] = Latest(@, wrap)]
          /\ Go(d, [job[d] EXCEPT !.todo = @ \ {e},
                      !.pc = IF job[d].todo = {e} THEN "show" ELSE "rewrap"])
    BY <1>8 DEF push_wrap
  <2> DEFINE l == IF job[d].todo = {e} THEN "show" ELSE "rewrap"
             j == [job[d] EXCEPT !.todo = @ \ {e}, !.pc = l]
             v == [server[r] EXCEPT !.wraps[e] = Latest(@, wrap)]
  <2>2. e \in Device /\ job[d].pc = "rewrap" /\ job[d].key \in Key
    BY <1>1, <1>8 DEF push_wrap, At, LocalOK, Keyed, Job
  <2>3. j \in Job /\ LocalOK(d, j)
    BY <1>1, <2>2 DEF Job, LocalOK, Targeted, Keyed, Steps, Requests
  <2>4. job' \in [Device -> Job] /\ LocalsOK'
    BY <2>1, <2>3, MovesTyped
  <2>5. wrap \in DeviceWrap /\ server[r].wraps[e] \in Maybe(DeviceWrap)
    BY <1>1, <2>2 DEF DeviceWrap, Job, Server
  <2>6. Latest(server[r].wraps[e], wrap) \in Maybe(DeviceWrap)
    BY <2>5 DEF Latest, Maybe
  <2>7. v \in Server /\ v.generation = server[r].generation
    BY <1>1, <2>2, <2>6 DEF Server
  <2>8. server' = [server EXCEPT ![r] = v]
    BY <1>1, <2>1, <2>2 DEF TypeInv, TypeOK, Server
  <2> QED BY <1>2, <1>3, <1>8, <2>4, <2>7, <2>8 DEF push_wrap, history
<1> QED BY <1>4, <1>6, <1>7, <1>8

LEMMA TypeRevoke ==
  ASSUME TypeInv, NEW d \in Device, revoke_device(d)
  PROVE  TypeInv'
<1> DEFINE r == job[d].repo
           t == job[d].target
           k == minted + 1
<1>1. /\ job[d] \in Job /\ LocalOK(d, job[d]) /\ job[d].pc = "revoke"
      /\ r \in Repo /\ server[r] \in Server
  BY InRepo DEF revoke_device, At
<1>2. t \in Device
  BY <1>1 DEF LocalOK, Targeted
<1>3. minted \in Nat /\ k \in Key /\ k \in 0 .. MaxKeys
  BY KeysAssumption DEF revoke_device, TypeInv, TypeOK, Key
<1>4. server[r].generation \in Nat /\ server[r].generation <= minted + 1
  BY <1>1 DEF Server, Generation, TypeInv, Counted
<1>5. server[r].generation + 1 \in Generation
  BY <1>3, <1>4, KeysAssumption DEF Generation, Key
<1> DEFINE l == IF job[d].seen = NONE THEN "store_key" ELSE "reseal"
           j == [job[d] EXCEPT !.key = k, !.generation = server[r].generation + 1,
                               !.pc = l, !.next = "list"]
           v == [server[r] EXCEPT !.status[t] = "revoked", !.generation = @ + 1]
<1>6. CASE server[r].status[t] \in {"pending", "approved"}
  <2>1. /\ server' = [server EXCEPT ![r].status[t] = "revoked", ![r].generation = @ + 1]
        /\ Go(d, j) /\ minted' = k
        /\ outcast' = [outcast EXCEPT ![r][k] = WithStatus(r, "revoked") \cup {t}]
    BY <1>6 DEF revoke_device
  <2>2. server' = [server EXCEPT ![r] = v] /\ v \in Server
        /\ v.generation = server[r].generation + 1
    BY <1>1, <1>2, <1>5, <2>1 DEF TypeInv, TypeOK, Server
  <2>3. server' \in [Repo -> Server]
    BY <1>1, <2>2 DEF TypeInv, TypeOK
  <2>4. \A q \in Repo : server'[q].generation <= k + 1
    <3> HIDE DEF v, j, l
    <3>1. server'[r] = v /\ \A q \in Repo \ {r} : server'[q] = server[q]
      BY <1>1, <2>2 DEF TypeInv, TypeOK
    <3>2. v.generation <= k + 1
      BY <1>3, <1>4, <2>2
    <3>3. ASSUME NEW q \in Repo \ {r} PROVE server'[q].generation <= k + 1
      <4>1. server[q] \in Server /\ server[q].generation <= minted + 1
        BY DEF TypeInv, TypeOK, Counted
      <4>2. server[q].generation \in Nat
        BY <4>1 DEF Server, Generation
      <4> QED BY <1>3, <3>1, <4>1, <4>2
    <3> QED BY <3>1, <3>2, <3>3
  <2>5. j \in Job
    BY <1>1, <1>3, <1>5 DEF Job, Steps, Requests, Maybe
  <2>6. LocalOK(d, j)
    BY <1>1, <1>3, <2>5 DEF LocalOK, Job, Targeted, Keyed
  <2>7. job' \in [Device -> Job] /\ LocalsOK'
    BY <2>1, <2>5, <2>6, MovesTyped
  <2>8. outcast' \in [Repo -> [Key -> SUBSET Device]]
    BY <1>2, <1>3, <2>1 DEF WithStatus, TypeInv, TypeOK
  <2>9. {spoiled', orderly'} \subseteq BOOLEAN
    BY <1>6 DEF revoke_device, TypeInv, TypeOK
  <2> QED BY <1>3, <2>1, <2>3, <2>4, <2>7, <2>8, <2>9
          DEF revoke_device, files, TypeInv, TypeOK, Counted
<1>7. CASE server[r].status[t] \notin {"pending", "approved"}
  <2>1. GiveUp(d) /\ UNCHANGED <<server, minted, outcast>>
    BY <1>7 DEF revoke_device
  <2>2. job' \in [Device -> Job] /\ LocalsOK' /\ {spoiled', orderly'} \subseteq BOOLEAN
    BY <2>1, GivesUpTyped
  <2> QED BY <2>1, <2>2 DEF revoke_device, files, TypeInv, TypeOK, Counted
<1> QED BY <1>6, <1>7

\* The types are kept by every step.
LEMMA TypeNext == TypeInv /\ [Next]_vars => TypeInv'
<1> SUFFICES ASSUME TypeInv, [Next]_vars PROVE TypeInv'
  OBVIOUS
<1>1. CASE UNCHANGED vars
  BY <1>1 DEF vars, files, history, TypeInv, TypeOK, LocalsOK, Counted
<1>2. ASSUME NEW d \in Device, step(d) PROVE TypeInv'
  BY <1>2, TypeFiles, TypeReads, TypeWrites, TypeRevoke DEF step
<1>3. ASSUME NEW d \in Device, fail(d) PROVE TypeInv'
  BY <1>3, TypeReads
<1>4. ASSUME NEW d \in Device, NEW r \in Repo,
             init(d, r) \/ connect(d, r) \/ delete_repo(d, r)
      PROVE  TypeInv'
  BY <1>4, TypeInit, TypeConnect, TypeDelete
<1>5. ASSUME NEW d \in Device, start(d, "table", NONE) PROVE TypeInv'
  BY <1>5, TypeStart DEF Commands, Maybe
<1>6. ASSUME NEW d \in Device, NEW e \in Device \ {d},
             start(d, "list_pending", e) \/ start(d, "reopen", e)
      PROVE  TypeInv'
  BY <1>6, TypeStart DEF Commands, Maybe
<1> QED BY <1>1, <1>2, <1>3, <1>4, <1>5, <1>6 DEF Next

(***************************************************************************)
(* Every key in use has been generated.                                    *)
(***************************************************************************)

LEMMA MintedTyped == TypeInv => minted \in Nat
BY KeysAssumption DEF TypeInv, TypeOK

\* What gives up or ends has no key.
LEMMA IdleKnown == Known(Idle.key)
BY DEF Known, Idle

\* A step that generates no key and changes one command.
LEMMA KnownMoves ==
  ASSUME TypeInv, KeysKnown, NEW d \in Device, NEW j, Go(d, j), Known(j.key),
         UNCHANGED <<server, rmk, phrases, minted>>
  PROVE  KeysKnown'
<1>1. \A e \in Device : Known(job'[e].key)
  BY Moves DEF KeysKnown
<1> QED BY <1>1 DEF KeysKnown, Known

LEMMA KnownGoto ==
  ASSUME TypeInv, KeysKnown, NEW d \in Device, NEW l, Goto(d, l) \/ Go(d, Idle),
         UNCHANGED minted
  PROVE  \A e \in Device : Known(job'[e].key)
<1>1. [job[d] EXCEPT !.pc = l].key = job[d].key
  BY DEF TypeInv, TypeOK, Job
<1>2. Known(Idle.key)
  BY IdleKnown
<1>3. PICK j : Go(d, j) /\ Known(j.key)
  BY <1>1, <1>2 DEF Goto, KeysKnown
<1>4. job'[d] = j /\ \A e \in Device \ {d} : job'[e] = job[e]
  BY <1>3, Moves
<1> QED BY <1>3, <1>4 DEF KeysKnown

\* A step that generates a key.
LEMMA KnownLater ==
  ASSUME TypeInv, KeysKnown, minted' = minted + 1, rmk' = rmk, phrases' = phrases,
         \A e \in Device : job'[e].key = minted + 1 \/ job'[e].key = job[e].key,
         \A q \in Repo : /\ server'[q].manifest = server[q].manifest
                         /\ server'[q].wraps = server[q].wraps
  PROVE  KeysKnown'
<1>1. minted \in Nat /\ \A k \in Nat : k <= minted => k <= minted'
  BY MintedTyped
<1>2. \A e \in Device : /\ rmk'[e] # NONE => rmk'[e] <= minted'
                        /\ job'[e].key # NONE => job'[e].key <= minted'
  BY SMTT(30), <1>1 DEF KeysKnown, Known, TypeInv, TypeOK, Job, Maybe, Key
<1>3. \A q \in Repo : \A k \in phrases'[q] : k <= minted'
  BY <1>1 DEF KeysKnown, TypeInv, TypeOK, Key
<1>4. \A q \in Repo : server'[q].manifest # NONE => server'[q].manifest <= minted'
  BY <1>1 DEF KeysKnown, Known, TypeInv, TypeOK, Server, Maybe, Key
<1>5. \A q \in Repo, e \in Device :
        server[q].wraps[e] # NONE => server[q].wraps[e].key \in Nat
  BY DEF TypeInv, TypeOK, Server, Maybe, DeviceWrap, Key
<1>6. \A q \in Repo, e \in Device :
        server'[q].wraps[e] # NONE => server'[q].wraps[e].key <= minted'
  BY <1>1, <1>5 DEF KeysKnown
<1> QED BY <1>2, <1>3, <1>4, <1>6 DEF KeysKnown, Known

LEMMA KnownNext == TypeInv /\ KeysKnown /\ [Next]_vars => KeysKnown'
<1> SUFFICES ASSUME TypeInv, KeysKnown, [Next]_vars PROVE KeysKnown'
  OBVIOUS
<1>0. minted \in Nat /\ \A d \in Device : job[d] \in Job
  BY MintedTyped DEF TypeInv, TypeOK
<1>1. CASE UNCHANGED vars
  BY <1>1 DEF vars, files, history, KeysKnown, Known
<1>2. ASSUME NEW d \in Device, GiveUp(d), UNCHANGED <<server, rmk, phrases, minted>>
      PROVE  KeysKnown'
  BY <1>2, KnownMoves, IdleKnown DEF GiveUp
<1>3. ASSUME NEW d \in Device, NEW l, Goto(d, l) \/ Go(d, Idle),
             UNCHANGED <<server, rmk, phrases, minted>>
      PROVE  KeysKnown'
  <2>1. \A e \in Device : Known(job'[e].key)
    BY <1>3, KnownGoto
  <2> QED BY <1>3, <2>1 DEF KeysKnown, Known
<1>4. ASSUME NEW d \in Device, step(d)
      PROVE  KeysKnown'
  <2>1. CASE save_config(d)
    BY <1>3, <2>1 DEF save_config, history
  <2>2. CASE store_key(d)
    <3>1. \A e \in Device : Known(job'[e].key)
      BY <2>2, KnownGoto DEF store_key
    <3>2. \A e \in Device : rmk'[e] = rmk[e] \/ rmk'[e] = job[d].key
      BY <2>2 DEF store_key, TypeInv, TypeOK
    <3> QED BY <2>2, <3>1, <3>2 DEF store_key, history, KeysKnown, Known
  <2>3. CASE store_label(d)
    BY <1>3, <2>3 DEF store_label, history
  <2>4. CASE print_recovery_phrase(d)
    <3>1. \A e \in Device : Known(job'[e].key)
      BY <2>4, KnownGoto DEF print_recovery_phrase
    <3>2. \A r \in Repo : phrases'[r] \subseteq phrases[r] \cup {job[d].key}
      BY <2>4 DEF print_recovery_phrase, TypeInv, TypeOK
    <3>3. job[d].key # NONE
      BY <2>4, InRepo, KeysAssumption
         DEF print_recovery_phrase, At, LocalOK, Keyed, Key
    <3> QED BY <2>4, <3>1, <3>2, <3>3
            DEF print_recovery_phrase, files, KeysKnown, Known
  <2>5. CASE current_rmk(d)
    <3> DEFINE sealed == server[job[d].repo].manifest
               j == [job[d] EXCEPT !.key = rmk[d], !.generation = label[d],
                                   !.pc = job[d].next]
               w == [job[d] EXCEPT !.seen = sealed, !.pc = "wrap"]
    <3>1. Known(j.key) /\ Known(w.key)
      BY <1>0 DEF KeysKnown, Job
    <3>2. Go(d, j) \/ Go(d, w)
      BY <2>5 DEF current_rmk
    <3>3. UNCHANGED <<server, rmk, phrases, minted>>
      BY <2>5 DEF current_rmk, files, history
    <3> QED BY <3>1, <3>2, <3>3, KnownMoves
  <2>6. CASE rmk_from_own_wrap(d)
    <3> DEFINE wrap == server[job[d].repo].wraps[d]
               j == [job[d] EXCEPT !.key = wrap.key, !.generation = wrap.generation,
                                   !.seen = NONE, !.pc = "store_key"]
    <3>1. UNCHANGED <<server, rmk, phrases, minted>>
      BY <2>6 DEF rmk_from_own_wrap, files
    <3>2. CASE wrap # NONE /\ Go(d, j)
      <4>1. job[d].repo \in Repo
        BY <2>6, InRepo DEF rmk_from_own_wrap, At
      <4>2. Known(j.key)
        BY <1>0, <3>2, <4>1 DEF KeysKnown, Known, Job
      <4> QED BY <3>1, <3>2, <4>2, KnownMoves
    <3>3. CASE GiveUp(d)
      BY <1>2, <3>1, <3>3
    <3> QED BY <2>6, <3>2, <3>3 DEF rmk_from_own_wrap
  <2>7. CASE list_pending(d)
    BY <1>2, <1>3, <2>7 DEF list_pending, files
  <2>8. CASE approve_device(d)
    <3> DEFINE r == job[d].repo
               t == job[d].target
               wrap == [key |-> job[d].key, generation |-> job[d].generation]
    <3>1. CASE /\ server' = [server EXCEPT ![r].status[t] = "approved",
                                          ![r].wraps[t] = wrap]
               /\ Go(d, Idle)
      <4>1. \A e \in Device : Known(job'[e].key)
        BY <2>8, <3>1, KnownGoto DEF approve_device
      <4>2. r \in Repo /\ job[d].key \in Key
        BY <2>8, InRepo DEF approve_device, At, LocalOK, Keyed
      <4>3. \A q \in Repo : server'[q].manifest = server[q].manifest
        BY <3>1, <4>2 DEF TypeInv, TypeOK, Server
      <4>4. \A q \in Repo, e \in Device :
              server'[q].wraps[e] \in {server[q].wraps[e], wrap}
        <5> HIDE DEF wrap
        <5>1. server[r] \in Server
          BY <4>2 DEF TypeInv, TypeOK
        <5>2. /\ server'[r].wraps = [server[r].wraps EXCEPT ![job[d].target] = wrap]
              /\ \A q \in Repo \ {r} : server'[q] = server[q]
          BY <3>1, <4>2, <5>1 DEF TypeInv, TypeOK, Server
        <5> QED BY <5>1, <5>2 DEF Server
      <4>5. wrap.key <= minted
        BY <4>2, KeysAssumption DEF KeysKnown, Known, Key
      <4> QED BY <2>8, <4>1, <4>3, <4>4, <4>5
              DEF approve_device, files, KeysKnown, Known
    <3>2. CASE GiveUp(d) /\ UNCHANGED server
      BY <1>2, <2>8, <3>2 DEF approve_device, files
    <3> QED BY <2>8, <3>1, <3>2 DEF approve_device
  <2>9. CASE reopen(d)
    <3> DEFINE j == [job[d] EXCEPT !.seen = server[job[d].repo].manifest,
                                   !.pc = "revoke"]
    <3>1. Known(j.key)
      BY <1>0 DEF KeysKnown, Job
    <3>2. Go(d, j) \/ GiveUp(d)
      BY <2>9 DEF reopen
    <3> QED BY <1>2, <2>9, <3>1, <3>2, KnownMoves DEF reopen, files
  <2>10. CASE revoke_device(d)
    <3> DEFINE r == job[d].repo
               t == job[d].target
               j == [job[d] EXCEPT !.key = minted + 1,
                       !.generation = server[r].generation + 1,
                       !.pc = IF job[d].seen = NONE THEN "store_key" ELSE "reseal",
                       !.next = "list"]
    <3>1. CASE server[r].status[t] \in {"pending", "approved"}
      <4>1. /\ server' = [server EXCEPT ![r].status[t] = "revoked",
                                        ![r].generation = @ + 1]
            /\ Go(d, j) /\ minted' = minted + 1 /\ rmk' = rmk /\ phrases' = phrases
        BY <2>10, <3>1 DEF revoke_device, files
      <4>2. j.key = minted + 1
        BY <1>0 DEF Job
      <4>3. \A e \in Device : job'[e].key = minted + 1 \/ job'[e].key = job[e].key
        BY <4>1, <4>2, Moves
      <4>4. \A q \in Repo : /\ server'[q].manifest = server[q].manifest
                            /\ server'[q].wraps = server[q].wraps
        BY <4>1 DEF TypeInv, TypeOK, Server
      <4> QED BY <4>1, <4>3, <4>4, KnownLater
    <3>2. CASE GiveUp(d) /\ UNCHANGED <<server, minted>>
      BY <1>2, <2>10, <3>2 DEF revoke_device, files
    <3> QED BY <2>10, <3>1, <3>2 DEF revoke_device
  <2>11. CASE reseal(d) \/ publish(d)
    <3> DEFINE j == [job[d] EXCEPT !.seen = NONE, !.pc = "store_key"]
    <3>1. j.key = job[d].key
      BY <1>0 DEF Job
    <3>2. \A e \in Device : Known(job'[e].key)
      <4>1. CASE publish(d)
        BY <4>1, KnownGoto DEF publish
      <4>2. CASE reseal(d)
        <5>1. Go(d, j) /\ Known(j.key)
          BY <3>1, <4>2 DEF reseal, KeysKnown
        <5> HIDE DEF j
        <5>2. job'[d] = j /\ \A e \in Device \ {d} : job'[e] = job[e]
          BY <5>1, Moves
        <5> QED BY <5>1, <5>2 DEF KeysKnown
      <4> QED BY <2>11, <4>1, <4>2
    <3>3. \A q \in Repo : /\ server'[q].manifest \in {server[q].manifest, job[d].key}
                          /\ server'[q].wraps = server[q].wraps
      <4>1. server' = [server EXCEPT ![job[d].repo].manifest = job[d].key]
        BY <2>11 DEF reseal, publish
      <4> QED BY <4>1 DEF TypeInv, TypeOK, Server
    <3> QED BY <2>11, <3>2, <3>3 DEF reseal, publish, files, history, KeysKnown, Known
  <2>12. CASE list_devices(d)
    <3> DEFINE j == [job[d] EXCEPT !.todo = Survivors(d),
                       !.pc = IF Survivors(d) = {} THEN "show" ELSE "rewrap"]
    <3>1. Known(j.key)
      BY <1>0 DEF KeysKnown, Job
    <3>2. Go(d, j) /\ UNCHANGED <<server, rmk, phrases, minted>>
      BY <2>12 DEF list_devices, files, history
    <3> QED BY <3>1, <3>2, KnownMoves
  <2>13. CASE push_wrap(d)
    <3> DEFINE r == job[d].repo
               wrap == [key |-> job[d].key, generation |-> job[d].generation]
    <3>1. PICK e \in job[d].todo :
            /\ server' = [server EXCEPT ![r].wraps[e] = Latest(@, wrap)]
            /\ Go(d, [job[d] EXCEPT !.todo = @ \ {e},
                        !.pc = IF job[d].todo = {e} THEN "show" ELSE "rewrap"])
      BY <2>13 DEF push_wrap
    <3> DEFINE j == [job[d] EXCEPT !.todo = @ \ {e},
                        !.pc = IF job[d].todo = {e} THEN "show" ELSE "rewrap"]
    <3>2. Go(d, j) /\ j.key = job[d].key
      BY <1>0, <3>1 DEF Job
    <3> HIDE DEF j
    <3>3. \A f \in Device : Known(job'[f].key)
      <4>1. job'[d] = j /\ \A f \in Device \ {d} : job'[f] = job[f]
        BY <3>2, Moves
      <4> QED BY <3>2, <4>1 DEF KeysKnown
    <3>4. r \in Repo /\ job[d].key \in Key
      BY <2>13, InRepo DEF push_wrap, At, LocalOK, Keyed
    <3>5. \A q \in Repo : server'[q].manifest = server[q].manifest
      BY <3>1, <3>4 DEF TypeInv, TypeOK, Server
    <3>6. wrap.key <= minted
      BY <3>4, KeysAssumption DEF KeysKnown, Known, Key
    <3> HIDE DEF wrap
    <3>7. \A q \in Repo, f \in Device : server'[q].wraps[f] \in {server[q].wraps[f], wrap}
      <4>1. server[r] \in Server
        BY <3>4 DEF TypeInv, TypeOK
      <4>2. /\ server'[r].wraps = [server[r].wraps EXCEPT ![e] = Latest(@, wrap)]
            /\ \A q \in Repo \ {r} : server'[q] = server[q]
        BY <3>1, <3>4, <4>1 DEF TypeInv, TypeOK, Server
      <4> QED BY <4>1, <4>2 DEF Server, Latest
    <3> QED BY <2>13, <3>3, <3>5, <3>6, <3>7
            DEF push_wrap, files, history, KeysKnown, Known
  <2>14. CASE fetch_table(d)
    BY <1>2, <1>3, <2>14 DEF fetch_table, files
  <2>15. CASE save(d) \/ clear_config(d)
    BY <1>3, <2>15 DEF save, clear_config, history
  <2>16. CASE refused(d)
    BY <1>2, <2>16 DEF refused, files
  <2> QED BY <1>4, <2>1, <2>2, <2>3, <2>4, <2>5, <2>6, <2>7, <2>8, <2>9, <2>10, <2>11,
             <2>12, <2>13, <2>14, <2>15, <2>16 DEF step
<1>5. ASSUME NEW d \in Device, fail(d) PROVE KeysKnown'
  BY <1>2, <1>5 DEF fail, files
<1>6. ASSUME NEW d \in Device, NEW r \in Repo, init(d, r)
      PROVE  KeysKnown'
  <2> DEFINE j == [Idle EXCEPT !.repo = r, !.key = minted + 1, !.pc = "config",
                               !.next = "show"]
  <2>1. Go(d, j) /\ minted' = minted + 1 /\ rmk' = rmk /\ phrases' = phrases
    BY <1>6 DEF init, Begin, files
  <2>2. j.key = minted + 1
    BY DEF Idle
  <2>3. \A e \in Device : job'[e].key = minted + 1 \/ job'[e].key = job[e].key
    BY <2>1, <2>2, Moves
  <2>4. \A q \in Repo : /\ server'[q].manifest = server[q].manifest
                        /\ server'[q].wraps = server[q].wraps
    BY <1>6 DEF init, TypeInv, TypeOK, Server
  <2> QED BY <1>0, <2>1, <2>3, <2>4, KnownLater
<1>7. ASSUME NEW d \in Device, NEW r \in Repo, connect(d, r)
      PROVE  KeysKnown'
  <2>1. PICK k \in Maybe(phrases[r]) :
          Go(d, [Idle EXCEPT !.repo = r, !.key = k, !.pc = "config"])
    BY <1>7 DEF connect, Begin
  <2>2. Known([Idle EXCEPT !.repo = r, !.key = k, !.pc = "config"].key)
    BY DEF Idle, Known, Maybe, KeysKnown
  <2>3. \A e \in Device : Known(job'[e].key)
    BY <2>1, <2>2, Moves DEF KeysKnown
  <2>4. \A q \in Repo : /\ server'[q].manifest = server[q].manifest
                        /\ server'[q].wraps = server[q].wraps
    BY <1>7 DEF connect, TypeInv, TypeOK, Server
  <2> QED BY <1>7, <2>3, <2>4 DEF connect, Begin, files, KeysKnown, Known
<1>8. ASSUME NEW d \in Device, NEW r \in Repo, delete_repo(d, r)
      PROVE  KeysKnown'
  <2>1. Go(d, [Idle EXCEPT !.repo = r, !.pc = "forget"])
        /\ Known([Idle EXCEPT !.repo = r, !.pc = "forget"].key)
    BY <1>8 DEF delete_repo, Begin, Idle, Known
  <2>2. \A e \in Device : Known(job'[e].key)
    BY <2>1, Moves DEF KeysKnown
  <2>3. \A q \in Repo : server'[q].manifest \in {server[q].manifest, NONE}
    BY <1>8 DEF delete_repo, TypeInv, TypeOK, Server, NoRepo
  <2>4. \A q \in Repo, e \in Device : server'[q].wraps[e] \in {server[q].wraps[e], NONE}
    BY <1>8 DEF delete_repo, TypeInv, TypeOK, Server, NoRepo
  <2> QED BY <1>8, <2>2, <2>3, <2>4 DEF delete_repo, Begin, files, KeysKnown, Known
<1>9. ASSUME NEW d \in Device, NEW s, NEW e, start(d, s, e)
      PROVE  KeysKnown'
  <2> DEFINE j == [Idle EXCEPT !.repo = config[d], !.target = e, !.pc = "manifest",
                               !.next = s]
  <2>1. Go(d, j) /\ Known(j.key)
    BY <1>9 DEF start, Begin, Idle, Known
  <2> QED BY <1>9, <2>1, KnownMoves DEF start, Begin, files
<1> QED BY <1>1, <1>4, <1>5, <1>6, <1>7, <1>8, <1>9 DEF Next

(***************************************************************************)
(* Keys are wrapped for members only.                                      *)
(***************************************************************************)

\* A step that leaves the server alone, and does not begin to send keys.
LEMMA WrapsQuiet ==
  ASSUME TypeInv, WrapsInv, NEW d \in Device, NEW j, Go(d, j), j.pc # "rewrap",
         UNCHANGED <<server, outcast>>
  PROVE  WrapsInv'
<1>1. OutcastsOut' /\ WrapsForMembers'
  BY DEF WrapsInv, OutcastsOut, WithStatus, WrapsForMembers
<1>2. ReceiversOK'
  BY Moves DEF WrapsInv, ReceiversOK
<1> QED BY <1>1, <1>2 DEF WrapsInv

\* A step that changes a live repository and brings nobody back.
LEMMA WrapsLive ==
  ASSUME TypeInv, WrapsInv, NEW d \in Device, NEW j, Go(d, j), j.pc # "rewrap",
         NEW r \in Repo, NEW v \in Server, server' = [server EXCEPT ![r] = v],
         server[r].state = "live", v.state = "live", UNCHANGED outcast,
         \A e \in Device :
           /\ server[r].status[e] = "revoked" => v.status[e] = "revoked"
           /\ \/ v.wraps[e] = server[r].wraps[e]
              \/ v.wraps[e] # NONE => e \notin outcast[r][v.wraps[e].key]
  PROVE  WrapsInv'
<1>1. server'[r] = v /\ \A q \in Repo \ {r} : server'[q] = server[q]
  BY DEF TypeInv, TypeOK
<1>2. OutcastsOut'
  BY <1>1 DEF WrapsInv, OutcastsOut, WithStatus
<1>3. WrapsForMembers'
  BY <1>1 DEF WrapsInv, WrapsForMembers
<1>4. ReceiversOK'
  BY Moves DEF WrapsInv, ReceiversOK
<1> QED BY <1>2, <1>3, <1>4 DEF WrapsInv

\* The same, by the command that sends its key.
LEMMA WrapsSent ==
  ASSUME TypeInv, WrapsInv, NEW d \in Device, push_wrap(d)
  PROVE  WrapsInv'
<1> DEFINE r == job[d].repo
           wrap == [key |-> job[d].key, generation |-> job[d].generation]
<1>0. /\ job[d] \in Job /\ job[d].pc = "rewrap" /\ r \in Repo /\ server[r] \in Server
      /\ job[d].key \in Key /\ server[r].state = "live"
  BY InRepo DEF push_wrap, At, LocalOK, Keyed, Requests, Admitted
<1>1. PICK e \in job[d].todo :
        /\ server' = [server EXCEPT ![r].wraps[e] = Latest(@, wrap)]
        /\ Go(d, [job[d] EXCEPT !.todo = @ \ {e},
                    !.pc = IF job[d].todo = {e} THEN "show" ELSE "rewrap"])
  BY DEF push_wrap
<1> DEFINE j == [job[d] EXCEPT !.todo = @ \ {e},
                    !.pc = IF job[d].todo = {e} THEN "show" ELSE "rewrap"]
<1>2. Go(d, j) /\ j.todo \subseteq job[d].todo /\ j.repo = r /\ j.key = job[d].key
  BY <1>0, <1>1 DEF Job
<1>3. e \in Device /\ e \notin outcast[r][job[d].key]
  BY <1>0 DEF WrapsInv, ReceiversOK, Job
<1>4. \A q \in Repo : /\ server'[q].state = server[q].state
                      /\ server'[q].status = server[q].status
                      /\ q # r => server'[q] = server[q]
  BY <1>0, <1>1 DEF TypeInv, TypeOK, Server
<1>5. \A q \in Repo, f \in Device :
        server'[q].wraps[f] = server[q].wraps[f]
          \/ (q = r /\ f = e /\ server'[q].wraps[f] = wrap)
  BY <1>0, <1>1, <1>3 DEF TypeInv, TypeOK, Server, Latest
<1>6. WrapsForMembers'
  <2> SUFFICES ASSUME NEW q \in Repo, NEW f \in Device, server'[q].wraps[f] # NONE
               PROVE  f \notin outcast'[q][server'[q].wraps[f].key]
    BY DEF WrapsForMembers
  <2>1. outcast' = outcast /\ wrap.key = job[d].key
    BY DEF push_wrap, history
  <2>2. CASE server'[q].wraps[f] = server[q].wraps[f]
    BY <2>1, <2>2 DEF WrapsInv, WrapsForMembers
  <2>3. CASE q = r /\ f = e /\ server'[q].wraps[f] = wrap
    BY <1>3, <2>1, <2>3
  <2> QED BY <1>5, <2>2, <2>3
<1>7. OutcastsOut'
  <2> HIDE DEF j, wrap
  <2>1. outcast' = outcast /\ server'[r].state = "live"
    BY <1>0, <1>4 DEF push_wrap, history
  <2>2. ASSUME NEW q \in Repo
        PROVE  /\ server'[q].state = "none" =>
                    server'[q] = NoRepo /\ \A k \in Key : outcast'[q][k] = {}
               /\ server'[q].state = "deleted" =>
                    server'[q] = [NoRepo EXCEPT !.state = "deleted"]
    <3>1. CASE q = r
      BY <2>1, <3>1
    <3>2. CASE q # r
      BY <1>4, <2>1, <3>2 DEF WrapsInv, OutcastsOut
    <3> QED BY <3>1, <3>2
  <2>3. ASSUME NEW q \in Repo, server'[q].state = "live", NEW k \in Key
        PROVE  outcast'[q][k] \subseteq WithStatus(q, "revoked")'
    BY <1>4, <2>1, <2>3 DEF WrapsInv, OutcastsOut, WithStatus
  <2> QED BY <2>2, <2>3 DEF OutcastsOut
<1>8. ReceiversOK'
  <2>1. \A f \in Device \ {d} : job'[f] = job[f]
    BY <1>2, Moves
  <2>2. job'[d] = j
    BY <1>2, Moves
  <2>3. j.todo \cap outcast[j.repo][j.key] = {}
    BY <1>0, <1>2 DEF WrapsInv, ReceiversOK
  <2> QED BY <2>1, <2>2, <2>3 DEF WrapsInv, ReceiversOK, push_wrap, history
<1> QED BY <1>6, <1>7, <1>8 DEF WrapsInv

\* A revocation adds an outcast for a key that nobody has yet.
LEMMA WrapsRevoked ==
  ASSUME TypeInv, KeysKnown, WrapsInv, NEW d \in Device, revoke_device(d)
  PROVE  WrapsInv'
<1>r. PICK r \in Repo : r = job[d].repo
  BY InRepo DEF revoke_device, At
<1>t. PICK t \in Device : t = job[d].target
  BY InRepo DEF revoke_device, At, LocalOK, Targeted
<1> DEFINE k == minted + 1
           j == [job[d] EXCEPT !.key = k, !.generation = server[r].generation + 1,
                   !.pc = IF job[d].seen = NONE THEN "store_key" ELSE "reseal",
                   !.next = "list"]
<1>0. /\ job[d] \in Job /\ job[d].pc = "revoke" /\ server[r] \in Server
      /\ server[r].state = "live" /\ minted \in Nat /\ k \in Key
  BY <1>r, InRepo, MintedTyped, KeysAssumption
     DEF revoke_device, At, Requests, Admitted, Key, TypeInv, TypeOK
<1>1. CASE server[r].status[t] \in {"pending", "approved"}
  <2>1. /\ server' = [server EXCEPT ![r].status[t] = "revoked", ![r].generation = @ + 1]
        /\ Go(d, j)
        /\ outcast' = [outcast EXCEPT ![r][k] = WithStatus(r, "revoked") \cup {t}]
    BY <1>r, <1>t, <1>1 DEF revoke_device
  <2>2. /\ \A q \in Repo \ {r} : server'[q] = server[q]
        /\ server'[r].state = "live" /\ server'[r].wraps = server[r].wraps
        /\ server'[r].status = [server[r].status EXCEPT ![t] = "revoked"]
    BY <1>0, <2>1 DEF TypeInv, TypeOK, Server
  <2>3. /\ \A q \in Repo \ {r} : outcast'[q] = outcast[q]
        /\ \A i \in Key \ {k} : outcast'[r][i] = outcast[r][i]
        /\ outcast'[r][k] = WithStatus(r, "revoked") \cup {t}
    BY <1>0, <2>1 DEF TypeInv, TypeOK
  <2>4. \A f \in Device :
          server'[r].status[f] = "revoked" <=> f = t \/ server[r].status[f] = "revoked"
    BY <1>0, <2>2 DEF Server
  <2>5. OutcastsOut'
    <3>1. ASSUME NEW q \in Repo \ {r}
          PROVE  server'[q] = server[q] /\ outcast'[q] = outcast[q]
                   /\ WithStatus(q, "revoked")' = WithStatus(q, "revoked")
      BY <2>2, <2>3 DEF WithStatus
    <3>2. ASSUME NEW i \in Key
          PROVE  outcast'[r][i] \subseteq WithStatus(r, "revoked")'
      <4>1. \A f \in outcast'[r][i] : f = t \/ server[r].status[f] = "revoked"
        BY <1>0, <2>3 DEF WrapsInv, OutcastsOut, WithStatus
      <4>2. outcast'[r][i] \subseteq Device
        BY <1>0, <2>3 DEF WithStatus, TypeInv, TypeOK
      <4>3. \A f \in outcast'[r][i] : f \in Device /\ server'[r].status[f] = "revoked"
        BY <2>4, <4>1, <4>2
      <4> QED BY <4>3 DEF WithStatus
    <3>3. ASSUME NEW q \in Repo \ {r}
          PROVE  /\ server'[q].state = "none" =>
                      server'[q] = NoRepo /\ \A i \in Key : outcast'[q][i] = {}
                 /\ server'[q].state = "deleted" =>
                      server'[q] = [NoRepo EXCEPT !.state = "deleted"]
                 /\ server'[q].state = "live" =>
                      \A i \in Key : outcast'[q][i] \subseteq WithStatus(q, "revoked")'
      BY <3>1 DEF WrapsInv, OutcastsOut
    <3> QED BY <2>2, <3>2, <3>3 DEF OutcastsOut
  <2>6. \A q \in Repo, f \in Device :
          server[q].wraps[f] # NONE =>
            server[q].wraps[f].key \in Key /\ server[q].wraps[f].key # k
    BY <1>0 DEF KeysKnown, TypeInv, TypeOK, Server, Maybe, DeviceWrap, Key
  <2>7. WrapsForMembers'
    <3> SUFFICES ASSUME NEW q \in Repo, NEW f \in Device, server'[q].wraps[f] # NONE
                 PROVE  f \notin outcast'[q][server'[q].wraps[f].key]
      BY DEF WrapsForMembers
    <3>1. server'[q].wraps = server[q].wraps
      BY <2>2
    <3>2. outcast'[q][server[q].wraps[f].key] = outcast[q][server[q].wraps[f].key]
      BY <2>3, <2>6, <3>1
    <3> QED BY <3>1, <3>2 DEF WrapsInv, WrapsForMembers
  <2>8. j.pc # "rewrap"
    BY <1>0 DEF Job
  <2>9. \A f \in Device :
          job[f].pc = "rewrap" =>
            job[f].repo \in Repo /\ job[f].key \in Key /\ job[f].key # k
    BY <1>0, KeysAssumption
       DEF KeysKnown, Known, TypeInv, LocalsOK, LocalOK, Keyed, Key
  <2>10. ReceiversOK'
    <3> SUFFICES ASSUME NEW f \in Device, job'[f].pc = "rewrap"
                 PROVE  job'[f].todo \cap outcast'[job'[f].repo][job'[f].key] = {}
      BY DEF ReceiversOK
    <3>1. job'[f] = job[f]
      BY <2>1, <2>8, Moves
    <3>2. outcast'[job[f].repo][job[f].key] = outcast[job[f].repo][job[f].key]
      BY <2>3, <2>9, <3>1
    <3> QED BY <3>1, <3>2 DEF WrapsInv, ReceiversOK
  <2> QED BY <2>5, <2>7, <2>10 DEF WrapsInv
<1>2. CASE Go(d, Idle) /\ UNCHANGED <<server, outcast>>
  BY <1>2, WrapsQuiet DEF Idle
<1> QED BY <1>r, <1>t, <1>1, <1>2 DEF revoke_device, GiveUp

\* A new repository has nobody to keep out, and a deleted one nobody at all.
LEMMA WrapsBegin ==
  ASSUME TypeInv, WrapsInv, NEW d \in Device, NEW r \in Repo,
         init(d, r) \/ connect(d, r) \/ delete_repo(d, r)
  PROVE  WrapsInv'
<1>0. server[r] \in Server
  BY DEF TypeInv, TypeOK
<1>1. CASE init(d, r)
  <2> DEFINE j == [Idle EXCEPT !.repo = r, !.key = minted + 1, !.pc = "config",
                               !.next = "show"]
             v == [server[r] EXCEPT !.state = "live", !.status[d] = "approved"]
  <2>1. Go(d, j) /\ j.pc = "config" /\ outcast' = outcast
    BY <1>1 DEF init, Begin, Idle
  <2>2. server' = [server EXCEPT ![r] = v] /\ v.state = "live"
        /\ v.wraps = server[r].wraps
    BY <1>0, <1>1 DEF init, TypeInv, TypeOK, Server
  <2>3. server'[r] = v /\ \A q \in Repo \ {r} : server'[q] = server[q]
    BY <2>2 DEF TypeInv, TypeOK
  <2>4. \A k \in Key : outcast[r][k] = {}
    BY <1>1 DEF init, WrapsInv, OutcastsOut
  <2> HIDE DEF j, v
  <2>5. OutcastsOut'
    <3>1. \A q \in Repo \ {r} : WithStatus(q, "revoked")' = WithStatus(q, "revoked")
      BY <2>3 DEF WithStatus
    <3>2. /\ server'[r].state = "live"
          /\ \A k \in Key : outcast'[r][k] \subseteq WithStatus(r, "revoked")'
      BY <2>1, <2>2, <2>3, <2>4
    <3> QED BY <2>1, <2>3, <3>1, <3>2 DEF WrapsInv, OutcastsOut
  <2>6. WrapsForMembers'
    BY <2>1, <2>2, <2>3 DEF WrapsInv, WrapsForMembers
  <2>7. ReceiversOK'
    BY <2>1, Moves DEF WrapsInv, ReceiversOK
  <2> QED BY <2>5, <2>6, <2>7 DEF WrapsInv
<1>2. CASE connect(d, r)
  <2>1. PICK k \in Maybe(phrases[r]) :
          Go(d, [Idle EXCEPT !.repo = r, !.key = k, !.pc = "config"])
    BY <1>2 DEF connect, Begin
  <2> DEFINE j == [Idle EXCEPT !.repo = r, !.key = k, !.pc = "config"]
             v == [server[r] EXCEPT !.status[d] = "pending"]
  <2>2. Go(d, j) /\ j.pc = "config"
    BY <2>1 DEF Idle
  <2>3. server' = [server EXCEPT ![r] = v] /\ v \in Server /\ v.state = "live"
        /\ v.wraps = server[r].wraps
        /\ \A e \in Device : server[r].status[e] = "revoked" => v.status[e] = "revoked"
    BY <1>0, <1>2 DEF connect, TypeInv, TypeOK, Server
  <2>4. server[r].state = "live" /\ outcast' = outcast
    BY <1>2 DEF connect, Begin
  <2> HIDE DEF j, v
  <2> QED BY <2>2, <2>3, <2>4, WrapsLive
<1>3. CASE delete_repo(d, r)
  <2> DEFINE j == [Idle EXCEPT !.repo = r, !.pc = "forget"]
             v == [NoRepo EXCEPT !.state = "deleted"]
  <2>1. Go(d, j) /\ j.pc = "forget" /\ outcast' = outcast
    BY <1>3 DEF delete_repo, Begin, Idle
  <2>2. server'[r] = v /\ \A q \in Repo \ {r} : server'[q] = server[q]
    BY <1>3 DEF delete_repo, TypeInv, TypeOK
  <2>3. v.state = "deleted" /\ \A e \in Device : v.wraps[e] = NONE
    BY DEF NoRepo
  <2>4. v = [NoRepo EXCEPT !.state = "deleted"]
    OBVIOUS
  <2> HIDE DEF j, v
  <2>5. OutcastsOut'
    <3>1. \A q \in Repo \ {r} : WithStatus(q, "revoked")' = WithStatus(q, "revoked")
      BY <2>2 DEF WithStatus
    <3>2. server'[r] = [NoRepo EXCEPT !.state = "deleted"] /\ server'[r].state = "deleted"
      BY <2>2, <2>3, <2>4
    <3>3. ASSUME NEW q \in Repo \ {r}
          PROVE  /\ server'[q].state = "none" =>
                      server'[q] = NoRepo /\ \A k \in Key : outcast'[q][k] = {}
                 /\ server'[q].state = "deleted" =>
                      server'[q] = [NoRepo EXCEPT !.state = "deleted"]
                 /\ server'[q].state = "live" =>
                      \A k \in Key : outcast'[q][k] \subseteq WithStatus(q, "revoked")'
      BY <2>1, <2>2, <3>1 DEF WrapsInv, OutcastsOut
    <3> QED BY <3>2, <3>3 DEF OutcastsOut
  <2>6. WrapsForMembers'
    BY <2>1, <2>2, <2>3 DEF WrapsInv, WrapsForMembers
  <2>7. ReceiversOK'
    BY <2>1, Moves DEF WrapsInv, ReceiversOK
  <2> QED BY <2>5, <2>6, <2>7 DEF WrapsInv
<1> QED BY <1>1, <1>2, <1>3

\* What a request of an approved device can rely on.
LEMMA Asked ==
  ASSUME TypeInv, NEW d \in Device, NEW l \in Requests, At(d, l)
  PROVE  /\ job[d] \in Job /\ LocalOK(d, job[d]) /\ job[d].pc = l
         /\ job[d].repo \in Repo /\ server[job[d].repo] \in Server
         /\ server[job[d].repo].state = "live"
         /\ server[job[d].repo].status[d] = "approved"
BY InRepo DEF At, Admitted, Requests

LEMMA WrapsWrites ==
  ASSUME TypeInv, WrapsInv, NEW d \in Device,
         approve_device(d) \/ reseal(d) \/ publish(d)
  PROVE  WrapsInv'
<1>i. Idle.pc = "idle"
  BY DEF Idle
<1>1. CASE approve_device(d)
  <2> DEFINE r == job[d].repo
             t == job[d].target
             wrap == [key |-> job[d].key, generation |-> job[d].generation]
             v == [server[r] EXCEPT !.status[t] = "approved", !.wraps[t] = wrap]
  <2>1. /\ job[d] \in Job /\ r \in Repo /\ server[r] \in Server /\ outcast' = outcast
        /\ server[r].state = "live" /\ t \in Device /\ job[d].key \in Key
    BY <1>1, Asked DEF approve_device, Requests, LocalOK, Keyed, Targeted
  <2>2. CASE /\ server[r].status[t] = "pending"
             /\ server' = [server EXCEPT ![r].status[t] = "approved", ![r].wraps[t] = wrap]
             /\ Go(d, Idle)
    <3>1. wrap \in DeviceWrap
      BY <2>1 DEF DeviceWrap, Job
    <3>2. v \in Server /\ v.state = "live"
      BY <2>1, <3>1 DEF Server, Maybe
    <3>3. server' = [server EXCEPT ![r] = v]
      BY <2>1, <2>2 DEF TypeInv, TypeOK, Server
    <3>4. t \notin outcast[r][job[d].key]
      BY <2>1, <2>2 DEF WrapsInv, OutcastsOut, WithStatus
    <3>5. \A e \in Device :
            /\ server[r].status[e] = "revoked" => v.status[e] = "revoked"
            /\ v.wraps[e] = IF e = t THEN wrap ELSE server[r].wraps[e]
      BY <2>1, <2>2 DEF Server
    <3>6. wrap.key = job[d].key
      OBVIOUS
    <3> HIDE DEF v, wrap
    <3>7. \A e \in Device :
            \/ v.wraps[e] = server[r].wraps[e]
            \/ v.wraps[e] # NONE => e \notin outcast[r][v.wraps[e].key]
      BY <3>4, <3>5, <3>6
    <3> QED BY <1>i, <2>1, <2>2, <3>2, <3>3, <3>5, <3>7, WrapsLive
  <2>3. CASE GiveUp(d) /\ UNCHANGED server
    BY <1>i, <2>1, <2>3, WrapsQuiet DEF GiveUp
  <2> QED BY <1>1, <2>2, <2>3 DEF approve_device
<1>2. CASE reseal(d) \/ publish(d)
  <2> DEFINE r == job[d].repo
             v == [server[r] EXCEPT !.manifest = job[d].key]
  <2>1. /\ job[d] \in Job /\ r \in Repo /\ server[r] \in Server /\ outcast' = outcast
        /\ server[r].state = "live" /\ job[d].key \in Key
    BY <1>2, Asked DEF reseal, publish, history, Requests, LocalOK, Keyed
  <2>2. server' = [server EXCEPT ![r] = v]
    <3>1. server' = [server EXCEPT ![r].manifest = job[d].key]
      BY <1>2 DEF reseal, publish
    <3> QED BY <2>1, <3>1 DEF TypeInv, TypeOK, Server
  <2>3. /\ v \in Server /\ v.state = "live" /\ v.wraps = server[r].wraps
        /\ v.status = server[r].status
    BY <2>1 DEF Server, Maybe
  <2>4. PICK j : Go(d, j) /\ j.pc # "rewrap"
    <3>1. [job[d] EXCEPT !.seen = NONE, !.pc = "store_key"].pc = "store_key"
          /\ [job[d] EXCEPT !.pc = "save"].pc = "save"
      BY <2>1 DEF Job
    <3> QED BY <1>2, <3>1 DEF reseal, publish, Goto
  <2> HIDE DEF v
  <2> QED BY <2>1, <2>2, <2>3, <2>4, WrapsLive
<1> QED BY <1>1, <1>2

\* The steps that leave the server alone go on, give up or end.
LEMMA WrapsReads ==
  ASSUME TypeInv, WrapsInv, NEW d \in Device,
         \/ save_config(d) \/ store_key(d) \/ store_label(d) \/ print_recovery_phrase(d)
         \/ save(d) \/ clear_config(d) \/ current_rmk(d) \/ rmk_from_own_wrap(d)
         \/ list_pending(d) \/ reopen(d) \/ fetch_table(d) \/ refused(d) \/ fail(d)
  PROVE  WrapsInv'
<1>1. UNCHANGED <<server, outcast>>
  BY DEF save_config, store_key, store_label, print_recovery_phrase, save, clear_config,
     current_rmk, rmk_from_own_wrap, list_pending, reopen, fetch_table, refused, fail,
     history
<1>2. job[d] \in Job /\ Idle.pc = "idle"
  BY DEF TypeInv, TypeOK, Idle
<1>3. ASSUME NEW l, Goto(d, l), l # "rewrap"
      PROVE  WrapsInv'
  <2>1. [job[d] EXCEPT !.pc = l].pc = l
    BY <1>2 DEF Job
  <2> QED BY <1>1, <1>3, <2>1, WrapsQuiet DEF Goto
<1>4. CASE Go(d, Idle)
  BY <1>1, <1>2, <1>4, WrapsQuiet
<1>5. CASE store_label(d)
  <2>1. job[d].next # "rewrap"
    BY <1>5, InRepo DEF store_label, At, LocalOK, Commands
  <2> QED BY <1>3, <1>4, <1>5, <2>1 DEF store_label
<1>6. CASE current_rmk(d)
  <2>1. job[d].next # "rewrap"
    BY <1>6, InRepo DEF current_rmk, At, LocalOK, Commands
  <2>2. [job[d] EXCEPT !.key = rmk[d], !.generation = label[d],
                       !.pc = job[d].next].pc = job[d].next
    BY <1>2 DEF Job
  <2>3. \A m : [job[d] EXCEPT !.seen = m, !.pc = "wrap"].pc = "wrap"
    BY <1>2 DEF Job
  <2> QED BY <1>1, <1>6, <2>1, <2>2, <2>3, WrapsQuiet DEF current_rmk
<1>7. CASE rmk_from_own_wrap(d)
  <2>1. \A k, g : [job[d] EXCEPT !.key = k, !.generation = g, !.seen = NONE,
                                 !.pc = "store_key"].pc = "store_key"
    BY <1>2 DEF Job
  <2> QED BY <1>1, <1>4, <1>7, <2>1, WrapsQuiet DEF rmk_from_own_wrap, GiveUp
<1>8. CASE reopen(d)
  <2>1. \A m : [job[d] EXCEPT !.seen = m, !.pc = "revoke"].pc = "revoke"
    BY <1>2 DEF Job
  <2> QED BY <1>1, <1>4, <1>8, <2>1, WrapsQuiet DEF reopen, GiveUp
<1>9. CASE fetch_table(d)
  BY <1>3, <1>4, <1>9 DEF fetch_table, GiveUp
<1>10. CASE \/ save_config(d) \/ store_key(d) \/ print_recovery_phrase(d) \/ save(d)
            \/ clear_config(d) \/ list_pending(d) \/ refused(d) \/ fail(d)
  BY <1>3, <1>4, <1>10
     DEF save_config, store_key, print_recovery_phrase, save, clear_config, list_pending,
         refused, fail, GiveUp
<1> QED BY <1>5, <1>6, <1>7, <1>8, <1>9, <1>10

\* The list of those a key is sent to has approved devices only.
LEMMA WrapsListed ==
  ASSUME TypeInv, WrapsInv, NEW d \in Device, list_devices(d)
  PROVE  WrapsInv'
<1> DEFINE j == [job[d] EXCEPT !.todo = Survivors(d),
                   !.pc = IF Survivors(d) = {} THEN "show" ELSE "rewrap"]
<1>1. /\ job[d] \in Job /\ job[d].repo \in Repo /\ server[job[d].repo].state = "live"
      /\ job[d].key \in Key
  BY Asked DEF list_devices, Requests, LocalOK, Keyed
<1>2. Go(d, j) /\ UNCHANGED <<server, outcast>>
  BY DEF list_devices, history
<1>3. j.todo = Survivors(d) /\ j.repo = job[d].repo /\ j.key = job[d].key
  BY <1>1 DEF Job
<1>4. Survivors(d) \cap outcast[job[d].repo][job[d].key] = {}
  BY <1>1 DEF Survivors, WithStatus, WrapsInv, OutcastsOut
<1>5. OutcastsOut' /\ WrapsForMembers'
  BY <1>2 DEF WrapsInv, OutcastsOut, WithStatus, WrapsForMembers
<1>6. ReceiversOK'
  <2>1. job'[d] = j /\ \A e \in Device \ {d} : job'[e] = job[e]
    BY <1>2, Moves
  <2> QED BY <1>2, <1>3, <1>4, <2>1 DEF WrapsInv, ReceiversOK
<1> QED BY <1>5, <1>6 DEF WrapsInv

LEMMA WrapsNext == TypeInv /\ KeysKnown /\ WrapsInv /\ [Next]_vars => WrapsInv'
<1> SUFFICES ASSUME TypeInv, KeysKnown, WrapsInv, [Next]_vars PROVE WrapsInv'
  OBVIOUS
<1>1. CASE UNCHANGED vars
  BY <1>1 DEF vars, history, WrapsInv, OutcastsOut, WithStatus, ReceiversOK,
     WrapsForMembers
<1>2. ASSUME NEW d \in Device, step(d) \/ fail(d) PROVE WrapsInv'
  BY <1>2, WrapsReads, WrapsWrites, WrapsListed, WrapsSent, WrapsRevoked DEF step
<1>3. ASSUME NEW d \in Device, NEW r \in Repo,
             init(d, r) \/ connect(d, r) \/ delete_repo(d, r)
      PROVE  WrapsInv'
  BY <1>3, WrapsBegin
<1>4. ASSUME NEW d \in Device, NEW s, NEW e, start(d, s, e)
      PROVE  WrapsInv'
  <2>1. [Idle EXCEPT !.repo = config[d], !.target = e, !.pc = "manifest",
                     !.next = s].pc = "manifest"
    BY DEF Idle
  <2> QED BY <1>4, <2>1, WrapsQuiet DEF start, Begin
<1> QED BY <1>1, <1>2, <1>3, <1>4 DEF Next

LEMMA WrapsInit == Init => KeysKnown /\ WrapsInv
<1> SUFFICES ASSUME Init PROVE KeysKnown /\ WrapsInv
  OBVIOUS
<1>1. \A r \in Repo : server[r] = NoRepo /\ NoRepo.state = "none" /\ NoRepo.manifest = NONE
                        /\ \A d \in Device : NoRepo.wraps[d] = NONE
  BY DEF Init, NoRepo
<1>2. \A d \in Device : job[d].key = NONE /\ job[d].pc = "idle"
  BY DEF Init, Idle
<1>3. KeysKnown
  BY <1>1, <1>2 DEF Init, KeysKnown, Known
<1>4. OutcastsOut
  BY <1>1 DEF Init, OutcastsOut
<1>5. ReceiversOK /\ WrapsForMembers
  BY <1>1, <1>2 DEF ReceiversOK, WrapsForMembers
<1> QED BY <1>3, <1>4, <1>5 DEF WrapsInv

(***************************************************************************)
(* Commands work with the repository and the key of their device.          *)
(***************************************************************************)

\* One command goes on, and only its device's files may change.
LEMMA SettledMoves ==
  ASSUME TypeInv, SettledInv, NEW d \in Device, NEW j, Go(d, j),
         SettledWith(j, config'[d], rmk'[d]),
         j.pc = "forget" => server'[j.repo].state = "deleted",
         j.pc = "config" => spoiled' \/ config'[d] = NONE,
         \A e \in Device \ {d} : config'[e] = config[e] /\ rmk'[e] = rmk[e],
         \A r \in Repo : server[r].state = "deleted" => server'[r].state = "deleted",
         spoiled => spoiled'
  PROVE  SettledInv'
<1>1. job'[d] = j /\ \A e \in Device \ {d} : job'[e] = job[e]
  BY Moves
<1>2. Settled'
  BY <1>1 DEF SettledInv, Settled
<1>3. ASSUME NEW e \in Device \ {d}, job[e].pc = "forget"
      PROVE  server'[job[e].repo].state = "deleted"
  BY <1>3, InRepo DEF SettledInv, Joining
<1>4. Joining'
  BY <1>1, <1>3 DEF SettledInv, Joining
<1> QED BY <1>2, <1>4 DEF SettledInv

LEMMA SettledIdle ==
  ASSUME NEW repo, NEW key
  PROVE  SettledWith(Idle, repo, key) /\ Idle.pc = "idle"
BY DEF SettledWith, Idle, Trusting

\* A deleted repository stays so, and what is spoiled.
LEMMA StaysGone ==
  ASSUME TypeInv, NEW d \in Device, step(d) \/ fail(d)
  PROVE  /\ \A r \in Repo : server[r].state = "deleted" => server'[r].state = "deleted"
         /\ spoiled => spoiled'
<1>1. \A r \in Repo : server[r].state = "deleted" => server'[r].state = "deleted"
  <2>1. CASE UNCHANGED server
    BY <2>1
  <2>2. CASE approve_device(d)
    <3>1. server[job[d].repo].state = "live"
      BY <2>2, Asked DEF approve_device, Requests
    <3>2. \A r \in Repo \ {job[d].repo} : server'[r] = server[r]
      BY <2>2 DEF approve_device, TypeInv, TypeOK
    <3> QED BY <3>1, <3>2
  <2>3. CASE revoke_device(d)
    <3>1. server[job[d].repo].state = "live"
      BY <2>3, Asked DEF revoke_device, Requests
    <3>2. \A r \in Repo \ {job[d].repo} : server'[r] = server[r]
      BY <2>3 DEF revoke_device, TypeInv, TypeOK
    <3> QED BY <3>1, <3>2
  <2>4. CASE reseal(d)
    BY <2>4 DEF reseal, TypeInv, TypeOK, Server
  <2>5. CASE push_wrap(d)
    BY <2>5 DEF push_wrap, TypeInv, TypeOK, Server
  <2>6. CASE publish(d)
    BY <2>6 DEF publish, TypeInv, TypeOK, Server
  <2> QED BY <2>1, <2>2, <2>3, <2>4, <2>5, <2>6
          DEF step, fail, save_config, store_key, store_label, print_recovery_phrase,
              current_rmk, rmk_from_own_wrap, list_pending, reopen, list_devices,
              fetch_table, save, clear_config, refused
<1>2. spoiled => spoiled'
  BY DEF step, fail, save_config, store_key, store_label, print_recovery_phrase,
         current_rmk, rmk_from_own_wrap, list_pending, approve_device, reopen,
         revoke_device, reseal, list_devices, push_wrap, fetch_table, publish, save,
         clear_config, refused, history, GiveUp, Proceed
<1> QED BY <1>1, <1>2

LEMMA SettledStep ==
  ASSUME TypeInv, SettledInv, NEW d \in Device, step(d) \/ fail(d)
  PROVE  SettledInv'
<1>0. /\ job[d] \in Job /\ SettledWith(job[d], config[d], rmk[d])
      /\ job[d].pc # "idle" => LocalOK(d, job[d])
  BY InRepo DEF TypeInv, TypeOK, SettledInv, Settled
<1>s. /\ \A r \in Repo : server[r].state = "deleted" => server'[r].state = "deleted"
      /\ spoiled => spoiled'
  BY StaysGone
<1>i. ASSUME Go(d, Idle), \A e \in Device \ {d} : config'[e] = config[e] /\ rmk'[e] = rmk[e]
      PROVE  SettledInv'
  BY <1>i, <1>s, SettledIdle, SettledMoves
<1>f. ASSUME UNCHANGED <<config, rmk>>, NEW j, Go(d, j), SettledWith(j, config[d], rmk[d]),
             j.pc \notin {"forget", "config"}
      PROVE  SettledInv'
  BY <1>f, <1>s, SettledMoves
<1>1. CASE save_config(d)
  <2> DEFINE j == [job[d] EXCEPT !.pc = "store_key"]
  <2>1. config'[d] = job[d].repo /\ rmk' = rmk
          /\ \A e \in Device \ {d} : config'[e] = config[e]
    BY <1>1 DEF save_config, TypeInv, TypeOK
  <2>2. SettledWith(j, job[d].repo, rmk[d]) /\ j.pc = "store_key"
    BY <1>0 DEF SettledWith, Job, Trusting
  <2>3. Go(d, Idle) \/ Go(d, j)
    BY <1>1 DEF save_config, Goto
  <2> HIDE DEF j
  <2> QED BY <1>i, <1>s, <2>1, <2>2, <2>3, SettledMoves
<1>2. CASE store_key(d)
  <2> DEFINE j == [job[d] EXCEPT !.pc = "store_label"]
  <2>1. rmk'[d] = job[d].key /\ config' = config
          /\ \A e \in Device \ {d} : rmk'[e] = rmk[e]
    BY <1>2 DEF store_key, TypeInv, TypeOK
  <2>2. SettledWith(j, config[d], job[d].key) /\ j.pc = "store_label"
    BY <1>0, <1>2 DEF SettledWith, Job, Trusting, store_key, At
  <2>3. Go(d, j)
    BY <1>2 DEF store_key, Goto
  <2> HIDE DEF j
  <2> QED BY <1>s, <2>1, <2>2, <2>3, SettledMoves
<1>3. CASE store_label(d)
  <2> DEFINE j == [job[d] EXCEPT !.pc = job[d].next]
  <2>1. job[d].pc = "store_label" /\ job[d].next \in Commands \cup {"show", "idle", "list"}
    BY <1>0, <1>3 DEF store_label, At, LocalOK
  <2>2. SettledWith(j, config[d], rmk[d]) /\ j.pc \notin {"forget", "config"}
    BY <1>0, <2>1 DEF SettledWith, Job, Trusting, Commands
  <2>3. Go(d, Idle) \/ Go(d, j)
    BY <1>3 DEF store_label, Goto
  <2> HIDE DEF j
  <2> QED BY <1>3, <1>i, <1>f, <2>2, <2>3 DEF store_label
<1>4. CASE current_rmk(d)
  <2> DEFINE j == [job[d] EXCEPT !.key = rmk[d], !.generation = label[d],
                                 !.pc = job[d].next]
             w == [job[d] EXCEPT !.seen = server[job[d].repo].manifest, !.pc = "wrap"]
  <2>1. job[d].pc = "manifest" /\ job[d].next \in Commands
    BY <1>0, <1>4 DEF current_rmk, At, LocalOK
  <2>2. SettledWith(j, config[d], rmk[d]) /\ j.pc \notin {"forget", "config"}
    BY <1>0, <2>1 DEF SettledWith, Job, Trusting, Commands
  <2>3. SettledWith(w, config[d], rmk[d]) /\ w.pc \notin {"forget", "config"}
    BY <1>0, <2>1 DEF SettledWith, Job, Trusting
  <2>4. Go(d, j) \/ Go(d, w)
    BY <1>4 DEF current_rmk
  <2> HIDE DEF j, w
  <2> QED BY <1>4, <1>f, <2>2, <2>3, <2>4 DEF current_rmk, files
<1>5. CASE rmk_from_own_wrap(d)
  <2> DEFINE wrap == server[job[d].repo].wraps[d]
             j == [job[d] EXCEPT !.key = wrap.key, !.generation = wrap.generation,
                                 !.seen = NONE, !.pc = "store_key"]
  <2>1. SettledWith(j, config[d], rmk[d]) /\ j.pc \notin {"forget", "config"}
    BY <1>0, <1>5 DEF rmk_from_own_wrap, At, SettledWith, Job, Trusting
  <2>2. Go(d, Idle) \/ Go(d, j)
    BY <1>5 DEF rmk_from_own_wrap, GiveUp
  <2> HIDE DEF j
  <2> QED BY <1>5, <1>i, <1>f, <2>1, <2>2 DEF rmk_from_own_wrap, files
<1>6. CASE list_pending(d)
  <2> DEFINE j == [job[d] EXCEPT !.pc = "approve"]
  <2>1. SettledWith(j, config[d], rmk[d]) /\ j.pc \notin {"forget", "config"}
    BY <1>0, <1>6 DEF list_pending, At, SettledWith, Job, Trusting
  <2>2. Go(d, Idle) \/ Go(d, j)
    BY <1>6 DEF list_pending, GiveUp, Goto
  <2> HIDE DEF j
  <2> QED BY <1>6, <1>i, <1>f, <2>1, <2>2 DEF list_pending, files
<1>7. CASE reopen(d)
  <2> DEFINE j == [job[d] EXCEPT !.seen = server[job[d].repo].manifest, !.pc = "revoke"]
  <2>1. CASE Go(d, j) /\ Fits(server[job[d].repo].manifest, job[d].key)
    <3>1. SettledWith(j, config[d], rmk[d]) /\ j.pc \notin {"forget", "config"}
      BY <1>0, <1>7, <2>1 DEF reopen, At, SettledWith, Job, Trusting, Fits
    <3> HIDE DEF j
    <3> QED BY <1>7, <1>f, <2>1, <3>1 DEF reopen, files
  <2>2. CASE Go(d, Idle)
    BY <1>7, <1>i, <2>2 DEF reopen, files
  <2> QED BY <1>7, <2>1, <2>2 DEF reopen, GiveUp
<1>8. CASE revoke_device(d)
  <2> DEFINE j == [job[d] EXCEPT !.key = minted + 1,
                     !.generation = server[job[d].repo].generation + 1,
                     !.pc = IF job[d].seen = NONE THEN "store_key" ELSE "reseal",
                     !.next = "list"]
  <2>1. SettledWith(j, config[d], rmk[d]) /\ j.pc \notin {"forget", "config"}
    BY <1>0, <1>8 DEF revoke_device, At, SettledWith, Job, Trusting
  <2>2. Go(d, Idle) \/ Go(d, j)
    BY <1>8 DEF revoke_device, GiveUp
  <2> HIDE DEF j
  <2> QED BY <1>8, <1>i, <1>f, <2>1, <2>2 DEF revoke_device, files
<1>9. CASE reseal(d)
  <2> DEFINE j == [job[d] EXCEPT !.seen = NONE, !.pc = "store_key"]
  <2>1. SettledWith(j, config[d], rmk[d]) /\ j.pc \notin {"forget", "config"}
    BY <1>0, <1>9 DEF reseal, At, SettledWith, Job, Trusting
  <2>2. Go(d, j)
    BY <1>9 DEF reseal
  <2> HIDE DEF j
  <2> QED BY <1>9, <1>f, <2>1, <2>2 DEF reseal, files
<1>10. CASE list_devices(d)
  <2> DEFINE j == [job[d] EXCEPT !.todo = Survivors(d),
                     !.pc = IF Survivors(d) = {} THEN "show" ELSE "rewrap"]
  <2>1. SettledWith(j, config[d], rmk[d]) /\ j.pc \notin {"forget", "config"}
    BY <1>0 DEF SettledWith, Job, Trusting
  <2>2. Go(d, j)
    BY <1>10 DEF list_devices
  <2> HIDE DEF j
  <2> QED BY <1>10, <1>f, <2>1, <2>2 DEF list_devices, files
<1>11. CASE push_wrap(d)
  <2>1. PICK e \in job[d].todo :
          Go(d, [job[d] EXCEPT !.todo = @ \ {e},
                   !.pc = IF job[d].todo = {e} THEN "show" ELSE "rewrap"])
    BY <1>11 DEF push_wrap
  <2> DEFINE j == [job[d] EXCEPT !.todo = @ \ {e},
                     !.pc = IF job[d].todo = {e} THEN "show" ELSE "rewrap"]
  <2>2. SettledWith(j, config[d], rmk[d]) /\ j.pc \notin {"forget", "config"} /\ Go(d, j)
    BY <1>0, <2>1 DEF SettledWith, Job, Trusting
  <2> HIDE DEF j
  <2> QED BY <1>11, <1>f, <2>2 DEF push_wrap, files
<1>12. CASE fetch_table(d) \/ publish(d)
  <2>1. ASSUME NEW l \in {"publish", "save"}, Goto(d, l)
        PROVE  SettledInv'
    <3> DEFINE j == [job[d] EXCEPT !.pc = l]
    <3>1. SettledWith(j, config[d], rmk[d]) /\ j.pc \notin {"forget", "config"}
      BY <1>0, <1>12 DEF fetch_table, publish, At, SettledWith, Job, Trusting
    <3>2. Go(d, j)
      BY <2>1 DEF Goto
    <3> HIDE DEF j
    <3> QED BY <1>12, <1>f, <3>1, <3>2 DEF fetch_table, publish, files
  <2>2. CASE Go(d, Idle)
    BY <1>12, <1>i, <2>2 DEF fetch_table, publish, files
  <2> QED BY <1>12, <2>1, <2>2 DEF fetch_table, publish, GiveUp
<1>13. CASE clear_config(d)
  <2>1. Go(d, Idle) /\ rmk' = rmk /\ \A e \in Device \ {d} : config'[e] = config[e]
    BY <1>13 DEF clear_config, TypeInv, TypeOK
  <2> QED BY <1>i, <2>1
<1>14. CASE approve_device(d) \/ print_recovery_phrase(d) \/ save(d) \/ refused(d) \/ fail(d)
  BY <1>14, <1>i DEF approve_device, print_recovery_phrase, save, refused, fail, GiveUp,
     files
<1> QED BY <1>1, <1>2, <1>3, <1>4, <1>5, <1>6, <1>7, <1>8, <1>9, <1>10, <1>11, <1>12,
           <1>13, <1>14 DEF step

LEMMA SettledNext == TypeInv /\ SettledInv /\ [Next]_vars => SettledInv'
<1> SUFFICES ASSUME TypeInv, SettledInv, [Next]_vars PROVE SettledInv'
  OBVIOUS
<1>1. CASE UNCHANGED vars
  BY <1>1 DEF vars, files, history, SettledInv, Settled, Joining
<1>2. ASSUME NEW d \in Device, step(d) \/ fail(d) PROVE SettledInv'
  BY <1>2, SettledStep
<1>3. ASSUME NEW d \in Device, NEW r \in Repo, init(d, r)
      PROVE  SettledInv'
  <2> DEFINE j == [Idle EXCEPT !.repo = r, !.key = minted + 1, !.pc = "config",
                               !.next = "show"]
  <2>1. Go(d, j) /\ config' = config /\ rmk' = rmk
    BY <1>3 DEF init, Begin, files
  <2>2. SettledWith(j, config[d], rmk[d]) /\ j.pc = "config"
    BY DEF SettledWith, Idle, Trusting
  <2>3. spoiled' \/ config'[d] = NONE
    BY <1>3 DEF init, Begin, files, Joins
  <2>4. \A q \in Repo : server[q].state = "deleted" => server'[q].state = "deleted"
    BY <1>3 DEF init, TypeInv, TypeOK
  <2>5. spoiled => spoiled'
    BY <1>3 DEF init, Joins
  <2> HIDE DEF j
  <2> QED BY <2>1, <2>2, <2>3, <2>4, <2>5, SettledMoves
<1>4. ASSUME NEW d \in Device, NEW r \in Repo, connect(d, r)
      PROVE  SettledInv'
  <2>1. PICK k \in Maybe(phrases[r]) :
          Begin(d, [Idle EXCEPT !.repo = r, !.key = k, !.pc = "config"])
    BY <1>4 DEF connect
  <2> DEFINE j == [Idle EXCEPT !.repo = r, !.key = k, !.pc = "config"]
  <2>2. Go(d, j) /\ config' = config /\ rmk' = rmk
    BY <2>1 DEF Begin, files
  <2>3. SettledWith(j, config[d], rmk[d]) /\ j.pc = "config"
    BY DEF SettledWith, Idle, Trusting
  <2>4. (spoiled' \/ config'[d] = NONE) /\ (spoiled => spoiled')
    BY <1>4, <2>2 DEF connect, Joins
  <2>5. \A q \in Repo : server[q].state = "deleted" => server'[q].state = "deleted"
    BY <1>4 DEF connect, TypeInv, TypeOK
  <2> HIDE DEF j
  <2> QED BY <2>2, <2>3, <2>4, <2>5, SettledMoves
<1>5. ASSUME NEW d \in Device, NEW r \in Repo, delete_repo(d, r)
      PROVE  SettledInv'
  <2> DEFINE j == [Idle EXCEPT !.repo = r, !.pc = "forget"]
  <2>1. Go(d, j) /\ config' = config /\ rmk' = rmk /\ spoiled' = spoiled
    BY <1>5 DEF delete_repo, Begin, files
  <2>2. SettledWith(j, config[d], rmk[d]) /\ j.pc = "forget" /\ j.repo = r
    BY DEF SettledWith, Idle, Trusting
  <2>3. server'[r].state = "deleted"
          /\ \A q \in Repo \ {r} : server'[q] = server[q]
    BY <1>5 DEF delete_repo, NoRepo, TypeInv, TypeOK
  <2>4. \A q \in Repo : server[q].state = "deleted" => server'[q].state = "deleted"
    BY <2>3
  <2> HIDE DEF j
  <2> QED BY <2>1, <2>2, <2>3, <2>4, SettledMoves
<1>6. ASSUME NEW d \in Device, NEW s \in Commands, NEW e, start(d, s, e)
      PROVE  SettledInv'
  <2> DEFINE j == [Idle EXCEPT !.repo = config[d], !.target = e, !.pc = "manifest",
                               !.next = s]
  <2>1. /\ Go(d, j) /\ config' = config /\ rmk' = rmk /\ spoiled' = spoiled
        /\ server' = server
    BY <1>6 DEF start, Begin, files
  <2>2. SettledWith(j, config[d], rmk[d]) /\ j.pc = "manifest"
    BY DEF SettledWith, Idle, Trusting
  <2> HIDE DEF j
  <2> QED BY <2>1, <2>2, SettledMoves
<1> QED BY <1>1, <1>2, <1>3, <1>4, <1>5, <1>6 DEF Next, Commands

(***************************************************************************)
(* Nobody loses the key of a manifest.                                     *)
(***************************************************************************)

\* What KeptInv asks of one repository: its manifest is the same as before, and who
\* kept its key keeps it, or somebody keeps the key of the new one.
StillKept(r) ==
  \/ server'[r].state # "live" \/ server'[r].manifest = NONE
  \/ \E d \in Device : Keeps(d, r, server[r].manifest)'
  \/ /\ server[r].state = "live" /\ server[r].manifest # NONE
     /\ server'[r].manifest = server[r].manifest /\ phrases[r] \subseteq phrases'[r]
     /\ \A d \in Device :
          Keeps(d, r, server[r].manifest) => Keeps(d, r, server[r].manifest)'

LEMMA KeptByAll ==
  ASSUME SomebodyKeeps, \A r \in Repo : StillKept(r)
  PROVE  SomebodyKeeps'
<1> SUFFICES ASSUME NEW r \in Repo, server'[r].state = "live", server'[r].manifest # NONE
             PROVE  server'[r].manifest \in phrases'[r]
                      \/ \E d \in Device : Keeps(d, r, server[r].manifest)'
  BY DEF SomebodyKeeps
<1>1. StillKept(r)
  OBVIOUS
<1>2. CASE \E d \in Device : Keeps(d, r, server[r].manifest)'
  BY <1>2
<1>3. CASE /\ server[r].state = "live" /\ server[r].manifest # NONE
           /\ server'[r].manifest = server[r].manifest /\ phrases[r] \subseteq phrases'[r]
           /\ \A d \in Device :
                Keeps(d, r, server[r].manifest) => Keeps(d, r, server[r].manifest)'
  BY <1>3 DEF SomebodyKeeps
<1> QED BY <1>1, <1>2, <1>3 DEF StillKept

\* The other devices keep what they keep, as long as nobody is revoked.
LEMMA OthersKeep ==
  ASSUME TypeInv, NEW d \in Device, NEW j, Go(d, j), NEW r \in Repo,
         \A e \in Device \ {d} :
           /\ config'[e] = config[e] /\ rmk'[e] = rmk[e]
           /\ server[r].status[e] = "approved" => server'[r].status[e] = "approved",
         server'[r].manifest = server[r].manifest,
         NEW e \in Device \ {d}, Keeps(e, r, server[r].manifest)
  PROVE  Keeps(e, r, server[r].manifest)'
<1>1. job'[e] = job[e]
  BY Moves
<1> QED BY <1>1 DEF Keeps

\* Neither does a device that goes on to a step other than those that replace its copy.
LEMMA ItselfKeeps ==
  ASSUME TypeInv, NEW d \in Device, NEW j, Go(d, j), NEW r \in Repo,
         j.pc \notin {"wrap", "store_key"}, job[d].pc # "store_key",
         config'[d] = config[d] \/ config[d] # r, rmk' = rmk,
         server'[r].status[d] = server[r].status[d],
         server'[r].manifest = server[r].manifest,
         Keeps(d, r, server[r].manifest)
  PROVE  Keeps(d, r, server[r].manifest)'
<1>1. job'[d] = j
  BY Moves
<1> QED BY <1>1 DEF Keeps

\* A step that changes one command, and no repository.
LEMMA KeptQuiet ==
  ASSUME TypeInv, SomebodyKeeps, NEW d \in Device, NEW j, Go(d, j), server' = server,
         UNCHANGED <<config, rmk>>, \A r \in Repo : phrases[r] \subseteq phrases'[r],
         \A r \in Repo : Keeps(d, r, server[r].manifest) /\ server[r].state = "live"
                           /\ server[r].manifest # NONE =>
                           j.pc \notin {"wrap", "store_key"} /\ job[d].pc # "store_key"
  PROVE  SomebodyKeeps'
<1> SUFFICES ASSUME NEW r \in Repo, server[r].state = "live", server[r].manifest # NONE
             PROVE  StillKept(r)
  BY KeptByAll DEF StillKept
<1>1. ASSUME NEW e \in Device, Keeps(e, r, server[r].manifest)
      PROVE  Keeps(e, r, server[r].manifest)'
  <2>1. CASE e = d
    BY <1>1, <2>1, ItselfKeeps
  <2>2. CASE e # d
    BY <1>1, <2>2, OthersKeep
  <2> QED BY <2>1, <2>2
<1> QED BY <1>1 DEF StillKept

\* The steps that leave the server alone.
LEMMA KeptReads ==
  ASSUME TypeInv, SettledInv, SomebodyKeeps, ~spoiled', NEW d \in Device,
         \/ store_label(d) \/ print_recovery_phrase(d) \/ save(d) \/ current_rmk(d)
         \/ rmk_from_own_wrap(d) \/ list_pending(d) \/ reopen(d) \/ list_devices(d)
         \/ fetch_table(d) \/ refused(d) \/ fail(d)
  PROVE  SomebodyKeeps'
<1>0. /\ job[d] \in Job /\ SettledWith(job[d], config[d], rmk[d])
      /\ job[d].pc # "idle" => LocalOK(d, job[d])
      /\ Idle.pc = "idle"
  BY InRepo DEF TypeInv, TypeOK, SettledInv, Settled, Idle
<1>1. server' = server /\ UNCHANGED <<config, rmk>>
  BY DEF store_label, print_recovery_phrase, save, current_rmk, rmk_from_own_wrap,
         list_pending, reopen, list_devices, fetch_table, refused, fail, files
<1>2. \A r \in Repo : phrases[r] \subseteq phrases'[r]
  BY DEF store_label, print_recovery_phrase, save, current_rmk, rmk_from_own_wrap,
         list_pending, reopen, list_devices, fetch_table, refused, fail, history,
         TypeInv, TypeOK
<1>3. ASSUME NEW j, Go(d, j), j.pc \notin {"wrap", "store_key"}, job[d].pc # "store_key"
      PROVE  SomebodyKeeps'
  BY <1>1, <1>2, <1>3, KeptQuiet
<1>4. CASE GiveUp(d)
  <2>1. ASSUME NEW r \in Repo, Keeps(d, r, server[r].manifest)
        PROVE  job[d].pc # "store_key"
    BY <1>4, <2>1 DEF GiveUp, Keeps
  <2> QED BY <1>0, <1>1, <1>2, <1>4, <2>1, KeptQuiet DEF GiveUp
<1>5. ASSUME NEW l, Goto(d, l), l \notin {"wrap", "store_key"}, job[d].pc # "store_key"
      PROVE  SomebodyKeeps'
  <2>1. [job[d] EXCEPT !.pc = l].pc = l
    BY <1>0 DEF Job
  <2> QED BY <1>3, <1>5, <2>1 DEF Goto
<1>6. CASE store_label(d)
  <2>1. job[d].pc = "store_label" /\ job[d].next \notin {"wrap", "store_key"}
    BY <1>0, <1>6 DEF store_label, At, LocalOK, Commands
  <2> QED BY <1>0, <1>3, <1>5, <1>6, <2>1 DEF store_label
<1>7. CASE print_recovery_phrase(d) \/ save(d)
  BY <1>0, <1>3, <1>7 DEF print_recovery_phrase, save, At
<1>8. CASE current_rmk(d)
  <2> DEFINE sealed == server[job[d].repo].manifest
             j == [job[d] EXCEPT !.key = rmk[d], !.generation = label[d],
                                 !.pc = job[d].next]
             w == [job[d] EXCEPT !.seen = sealed, !.pc = "wrap"]
  <2>1. job[d].pc = "manifest" /\ job[d].next \in Commands /\ config[d] = job[d].repo
    BY <1>0, <1>8 DEF current_rmk, At, LocalOK, SettledWith
  <2>2. CASE Go(d, j)
    <3>1. j.pc \notin {"wrap", "store_key"}
      BY <1>0, <2>1 DEF Job, Commands
    <3> HIDE DEF j
    <3> QED BY <1>3, <2>1, <2>2, <3>1
  <2>3. CASE Go(d, w) /\ ~(rmk[d] # NONE /\ Fits(sealed, rmk[d]))
    <3>1. ASSUME NEW r \in Repo, Keeps(d, r, server[r].manifest),
                 server[r].manifest # NONE
          PROVE  FALSE
      BY <2>1, <2>3, <3>1 DEF Keeps, Fits
    <3> HIDE DEF w
    <3> QED BY <1>1, <1>2, <2>3, <3>1, KeptQuiet
  <2> QED BY <1>8, <2>2, <2>3 DEF current_rmk
<1>9. CASE rmk_from_own_wrap(d)
  <2>1. job[d].pc = "wrap"
    BY <1>9 DEF rmk_from_own_wrap, At
  <2>2. ASSUME NEW r \in Repo, Keeps(d, r, server[r].manifest)
        PROVE  FALSE
    BY <2>1, <2>2 DEF Keeps
  <2>3. PICK j : Go(d, j)
    BY <1>9 DEF rmk_from_own_wrap, GiveUp
  <2> QED BY <1>1, <1>2, <2>2, <2>3, KeptQuiet
<1>10. CASE list_pending(d)
  BY <1>4, <1>5, <1>10 DEF list_pending, At
<1>11. CASE reopen(d)
  <2>1. [job[d] EXCEPT !.seen = server[job[d].repo].manifest, !.pc = "revoke"].pc = "revoke"
    BY <1>0 DEF Job
  <2> QED BY <1>3, <1>4, <1>11, <2>1 DEF reopen, At
<1>12. CASE list_devices(d)
  <2>1. [job[d] EXCEPT !.todo = Survivors(d),
           !.pc = IF Survivors(d) = {} THEN "show" ELSE "rewrap"].pc \in {"show", "rewrap"}
    BY <1>0 DEF Job
  <2> QED BY <1>3, <1>12, <2>1 DEF list_devices, At
<1>13. CASE fetch_table(d)
  BY <1>4, <1>5, <1>13 DEF fetch_table, At
<1>14. CASE refused(d) \/ fail(d)
  BY <1>4, <1>14 DEF refused, fail
<1> QED BY <1>6, <1>7, <1>8, <1>9, <1>10, <1>11, <1>12, <1>13, <1>14

\* The steps on the device's own files.
LEMMA KeptFiles ==
  ASSUME TypeInv, SettledInv, SomebodyKeeps, ~spoiled, NEW d \in Device,
         save_config(d) \/ store_key(d) \/ clear_config(d)
  PROVE  SomebodyKeeps'
<1>0. /\ job[d] \in Job /\ SettledWith(job[d], config[d], rmk[d])
      /\ job[d].pc # "idle" => job[d].repo \in Repo
      /\ Idle.pc = "idle"
  BY InRepo DEF TypeInv, TypeOK, SettledInv, Settled, Idle
<1>1. server' = server /\ phrases' = phrases
  BY DEF save_config, store_key, clear_config, history
<1>2. PICK j : Go(d, j)
  BY DEF save_config, store_key, clear_config, Goto
<1>3. \A e \in Device \ {d} : config'[e] = config[e] /\ rmk'[e] = rmk[e]
  BY DEF save_config, store_key, clear_config, TypeInv, TypeOK
<1>4. ASSUME NEW r \in Repo, server[r].state = "live", server[r].manifest # NONE,
             Keeps(d, r, server[r].manifest)
      PROVE  Keeps(d, r, server[r].manifest)'
  <2>1. CASE save_config(d)
    <3>1. job[d].pc = "config" /\ config[d] = NONE
      BY <2>1 DEF save_config, At, SettledInv, Joining
    <3> QED BY <1>4, <3>1, KeysAssumption DEF Keeps
  <2>2. CASE store_key(d)
    <3>1. job[d].pc = "store_key" /\ job[d].key = server[r].manifest
      BY <1>4, <2>2 DEF store_key, At, Keeps
    <3>2. rmk'[d] = job[d].key /\ config' = config
      BY <2>2 DEF store_key, TypeInv, TypeOK
    <3>3. job'[d].pc = "store_label"
      <4>1. [job[d] EXCEPT !.pc = "store_label"].pc = "store_label"
        BY <1>0 DEF Job
      <4> QED BY <2>2, <4>1, Moves DEF store_key, Goto
    <3> QED BY <1>1, <1>4, <3>1, <3>2, <3>3 DEF Keeps
  <2>3. CASE clear_config(d)
    <3>1. job[d].pc = "forget" /\ server[job[d].repo].state = "deleted"
      BY <2>3 DEF clear_config, At, SettledInv, Joining
    <3>2. config'[d] = config[d] /\ rmk' = rmk
      BY <1>4, <2>3, <3>1 DEF clear_config, Keeps, TypeInv, TypeOK
    <3>3. Go(d, Idle)
      BY <2>3 DEF clear_config
    <3> QED BY <1>0, <1>1, <1>4, <3>1, <3>2, <3>3, ItselfKeeps
  <2> QED BY <2>1, <2>2, <2>3
<1>5. ASSUME NEW r \in Repo, server[r].state = "live", server[r].manifest # NONE
      PROVE  StillKept(r)
  BY <1>1, <1>2, <1>3, <1>4, <1>5, OthersKeep DEF StillKept
<1>6. \A r \in Repo : StillKept(r)
  BY <1>1, <1>5 DEF StillKept
<1> QED BY <1>6, KeptByAll

\* A request that changes what the server knows of a repository, not its manifest nor
\* who is approved.
LEMMA KeptRequests ==
  ASSUME TypeInv, SomebodyKeeps, ~spoiled', NEW d \in Device,
         approve_device(d) \/ push_wrap(d)
  PROVE  SomebodyKeeps'
<1>1. /\ job[d] \in Job /\ LocalOK(d, job[d]) /\ job[d].pc \in {"approve", "rewrap"}
      /\ job[d].repo \in Repo /\ server[job[d].repo] \in Server
  BY Asked DEF approve_device, push_wrap, Requests
<1>2. UNCHANGED <<config, rmk, phrases>>
  BY DEF approve_device, push_wrap, files, history
<1>3. \A r \in Repo :
        /\ server'[r].state = server[r].state /\ server'[r].manifest = server[r].manifest
        /\ \A e \in Device :
             server[r].status[e] = "approved" => server'[r].status[e] = "approved"
  <2>1. CASE approve_device(d)
    <3>1. job[d].target \in Device
      BY <1>1, <2>1 DEF approve_device, At, LocalOK, Targeted
    <3>2. \/ server' = server
          \/ server' = [server EXCEPT
               ![job[d].repo].status[job[d].target] = "approved",
               ![job[d].repo].wraps[job[d].target] =
                 [key |-> job[d].key, generation |-> job[d].generation]]
      BY <2>1 DEF approve_device
    <3>3. CASE server' = server
      BY <3>3
    <3>4. CASE server' # server
      <4> DEFINE q == job[d].repo
                 wrap == [key |-> job[d].key, generation |-> job[d].generation]
                 v == [server[q] EXCEPT !.status[job[d].target] = "approved",
                                        !.wraps[job[d].target] = wrap]
      <4>1. server' = [server EXCEPT ![q] = v]
        BY <1>1, <3>1, <3>2, <3>4 DEF TypeInv, TypeOK, Server
      <4>2. /\ v.state = server[q].state /\ v.manifest = server[q].manifest
            /\ v.status = [server[q].status EXCEPT ![job[d].target] = "approved"]
        BY <1>1, <3>1 DEF Server
      <4> HIDE DEF v
      <4>3. server'[q] = v /\ \A r \in Repo \ {q} : server'[r] = server[r]
        BY <1>1, <4>1 DEF TypeInv, TypeOK
      <4>4. \A e \in Device : server[q].status[e] = "approved" => v.status[e] = "approved"
        BY <1>1, <3>1, <4>2 DEF Server
      <4> QED BY <4>2, <4>3, <4>4
    <3> QED BY <3>3, <3>4
  <2>2. CASE push_wrap(d)
    <3>1. PICK e, w : server' = [server EXCEPT ![job[d].repo].wraps[e] = w]
      BY <2>2 DEF push_wrap
    <3> QED BY <1>1, <3>1 DEF TypeInv, TypeOK, Server
  <2> QED BY <2>1, <2>2
<1>4. PICK j : Go(d, j) /\ j.pc \notin {"wrap", "store_key"}
  <2>1. CASE approve_device(d)
    <3>1. Go(d, Idle)
      BY <2>1 DEF approve_device, GiveUp
    <3>2. Idle.pc = "idle"
      BY DEF Idle
    <3> QED BY <3>1, <3>2
  <2>2. CASE push_wrap(d)
    <3>1. PICK e \in job[d].todo :
            Go(d, [job[d] EXCEPT !.todo = @ \ {e},
                     !.pc = IF job[d].todo = {e} THEN "show" ELSE "rewrap"])
      BY <2>2 DEF push_wrap
    <3>2. [job[d] EXCEPT !.todo = @ \ {e},
             !.pc = IF job[d].todo = {e} THEN "show" ELSE "rewrap"].pc
            \in {"show", "rewrap"}
      BY <1>1 DEF Job
    <3> QED BY <3>1, <3>2
  <2> QED BY <2>1, <2>2
<1>5. ASSUME NEW r \in Repo, NEW e \in Device, Keeps(e, r, server[r].manifest)
      PROVE  Keeps(e, r, server[r].manifest)'
  <2>1. CASE e # d
    BY <1>2, <1>3, <1>4, <1>5, <2>1, OthersKeep
  <2>2. CASE e = d
    <3>1. job'[d] = j
      BY <1>4, Moves
    <3>2. rmk[d] = server[r].manifest
      BY <1>1, <1>5, <2>2 DEF Keeps
    <3> QED BY <1>2, <1>3, <1>4, <1>5, <2>2, <3>1, <3>2 DEF Keeps
  <2> QED BY <2>1, <2>2
<1>6. \A r \in Repo : StillKept(r)
  BY <1>2, <1>3, <1>5 DEF StillKept
<1> QED BY <1>6, KeptByAll

\* A manifest that is sealed again: by the device that has its key, or is about to.
LEMMA KeptSeals ==
  ASSUME TypeInv, SettledInv, SomebodyKeeps, NEW d \in Device, reseal(d) \/ publish(d)
  PROVE  SomebodyKeeps'
<1>r. PICK r \in Repo : r = job[d].repo
  BY InRepo DEF reseal, publish, At
<1>1. /\ job[d] \in Job /\ LocalOK(d, job[d]) /\ job[d].pc \in {"reseal", "publish"}
      /\ server[r] \in Server /\ server[r].status[d] = "approved"
      /\ SettledWith(job[d], config[d], rmk[d])
  BY <1>r, Asked DEF reseal, publish, Requests, SettledInv, Settled
<1>2. server' = [server EXCEPT ![r].manifest = job[d].key]
      /\ UNCHANGED <<config, rmk, phrases>>
  BY <1>r DEF reseal, publish, files, history
<1>3. /\ server'[r].manifest = job[d].key /\ server'[r].status = server[r].status
      /\ \A q \in Repo \ {r} : server'[q] = server[q]
  BY <1>1, <1>2 DEF TypeInv, TypeOK, Server
<1>4. config[d] = r
  BY <1>r, <1>1 DEF SettledWith, Trusting
<1>5. Keeps(d, r, server[r].manifest)'
  <2>1. CASE reseal(d)
    <3>1. job'[d] = [job[d] EXCEPT !.seen = NONE, !.pc = "store_key"]
      BY <2>1, Moves DEF reseal
    <3>2. job[d].next = "list"
      BY <1>1, <2>1 DEF reseal, At, LocalOK
    <3>3. job'[d].pc = "store_key" /\ job'[d].next = "list" /\ job'[d].key = job[d].key
      BY <1>1, <3>1, <3>2 DEF Job
    <3> QED BY <1>1, <1>2, <1>3, <1>4, <3>3 DEF Keeps
  <2>2. CASE publish(d)
    <3>1. job'[d] = [job[d] EXCEPT !.pc = "save"]
      BY <2>2, Moves DEF publish, Goto
    <3>2. job'[d].pc = "save"
      BY <1>1, <3>1 DEF Job
    <3>3. rmk[d] = job[d].key
      BY <1>1, <2>2 DEF publish, At, SettledWith, Trusting
    <3> QED BY <1>1, <1>2, <1>3, <1>4, <3>2, <3>3 DEF Keeps
  <2> QED BY <2>1, <2>2
<1>6. ASSUME NEW q \in Repo \ {r}
      PROVE  StillKept(q)
  <2>1. PICK j : Go(d, j)
    BY DEF reseal, publish, Goto
  <2>2. \A e \in Device :
          Keeps(e, q, server[q].manifest) => Keeps(e, q, server[q].manifest)'
    BY <1>2, <1>3, <1>4, <2>1, OthersKeep DEF Keeps
  <2> QED BY <1>2, <1>3, <2>2 DEF StillKept
<1>7. \A q \in Repo : StillKept(q)
  BY <1>5, <1>6 DEF StillKept
<1> QED BY <1>7, KeptByAll

\* A revocation takes the key from the revoked, but the revoker has opened the
\* manifest and keeps its key.
LEMMA KeptRevokes ==
  ASSUME TypeInv, SettledInv, SomebodyKeeps, ~spoiled', NEW d \in Device,
         revoke_device(d)
  PROVE  SomebodyKeeps'
<1>r. PICK r \in Repo : r = job[d].repo
  BY InRepo DEF revoke_device, At
<1>t. PICK t \in Device \ {d} : t = job[d].target
  BY InRepo DEF revoke_device, At, LocalOK, Targeted
<1>1. /\ job[d] \in Job /\ job[d].pc = "revoke"
      /\ server[r] \in Server /\ server[r].status[d] = "approved"
      /\ SettledWith(job[d], config[d], rmk[d])
  BY <1>r, Asked DEF revoke_device, Requests, SettledInv, Settled
<1>2. config[d] = r /\ rmk[d] = job[d].key /\ job[d].seen \in {NONE, rmk[d]}
  BY <1>r, <1>1 DEF SettledWith, Trusting
<1>3. UNCHANGED <<config, rmk, phrases>>
  BY DEF revoke_device, files
<1> DEFINE j == [job[d] EXCEPT !.key = minted + 1, !.generation = server[r].generation + 1,
                   !.pc = IF job[d].seen = NONE THEN "store_key" ELSE "reseal",
                   !.next = "list"]
<1>4. CASE /\ server' = [server EXCEPT ![r].status[t] = "revoked", ![r].generation = @ + 1]
           /\ Go(d, j) /\ server[r].manifest = job[d].seen
  <2>1. /\ \A q \in Repo \ {r} : server'[q] = server[q]
        /\ server'[r].manifest = server[r].manifest
        /\ server'[r].status[d] = "approved"
    BY <1>1, <1>4 DEF TypeInv, TypeOK, Server
  <2>2. ASSUME NEW q \in Repo \ {r}
        PROVE  StillKept(q)
    <3>1. PICK i : Go(d, i)
      BY <1>4
    <3>2. \A e \in Device :
            Keeps(e, q, server[q].manifest) => Keeps(e, q, server[q].manifest)'
      BY <1>2, <1>3, <2>1, <3>1, OthersKeep DEF Keeps
    <3> QED BY <1>3, <2>1, <3>2 DEF StillKept
  <2>3. StillKept(r)
    <3>1. CASE job[d].seen = NONE
      BY <1>4, <2>1, <3>1 DEF StillKept
    <3>2. CASE job[d].seen # NONE
      <4>1. job'[d].pc = "reseal"
        <5>1. j.pc = "reseal"
          BY <1>1, <3>2 DEF Job
        <5> QED BY <1>4, <5>1, Moves
      <4>2. rmk[d] = server[r].manifest
        BY <1>2, <1>4, <3>2
      <4>3. Keeps(d, r, server[r].manifest)'
        BY <1>2, <1>3, <2>1, <4>1, <4>2 DEF Keeps
      <4> QED BY <4>3 DEF StillKept
    <3> QED BY <3>1, <3>2
  <2>4. \A q \in Repo : StillKept(q)
    BY <2>2, <2>3
  <2> QED BY <2>4, KeptByAll
<1>5. CASE Go(d, Idle) /\ server' = server
  <2>1. \A q \in Repo : phrases[q] \subseteq phrases'[q]
    BY <1>3
  <2> QED BY <1>1, <1>3, <1>5, <2>1, KeptQuiet DEF Idle
<1>6. spoiled' = (spoiled \/ server[r].manifest # job[d].seen) \/ GiveUp(d)
  BY <1>r, <1>t DEF revoke_device
<1> QED BY <1>r, <1>t, <1>4, <1>5, <1>6 DEF revoke_device, GiveUp

\* A device that joins or leaves has no part in who keeps what.
LEMMA KeptBegin ==
  ASSUME TypeInv, WrapsInv, SomebodyKeeps, NEW d \in Device, NEW r \in Repo,
         init(d, r) \/ connect(d, r) \/ delete_repo(d, r)
  PROVE  SomebodyKeeps'
<1>1. PICK j : Go(d, j) /\ j.pc \in {"config", "forget"}
  <2>1. CASE init(d, r)
    <3> DEFINE i == [Idle EXCEPT !.repo = r, !.key = minted + 1, !.pc = "config",
                                 !.next = "show"]
    <3>1. Go(d, i) /\ i.pc = "config"
      BY <2>1 DEF init, Begin, Idle
    <3> HIDE DEF i
    <3> QED BY <3>1
  <2>2. CASE connect(d, r)
    <3>1. PICK k \in Maybe(phrases[r]) :
            Go(d, [Idle EXCEPT !.repo = r, !.key = k, !.pc = "config"])
      BY <2>2 DEF connect, Begin
    <3> DEFINE i == [Idle EXCEPT !.repo = r, !.key = k, !.pc = "config"]
    <3>2. Go(d, i) /\ i.pc = "config"
      BY <3>1 DEF Idle
    <3> HIDE DEF i
    <3> QED BY <3>2
  <2>3. CASE delete_repo(d, r)
    <3> DEFINE i == [Idle EXCEPT !.repo = r, !.pc = "forget"]
    <3>1. Go(d, i) /\ i.pc = "forget"
      BY <2>3 DEF delete_repo, Begin, Idle
    <3> HIDE DEF i
    <3> QED BY <3>1
  <2> QED BY <2>1, <2>2, <2>3
<1>2. UNCHANGED <<config, rmk, phrases>> /\ job[d].pc = "idle"
  BY DEF init, connect, delete_repo, Begin, files
<1>3. \A q \in Repo \ {r} : server'[q] = server[q]
  BY DEF init, connect, delete_repo, TypeInv, TypeOK
<1>4. ASSUME NEW q \in Repo \ {r}
      PROVE  StillKept(q)
  <2>1. ASSUME NEW e \in Device, Keeps(e, q, server[q].manifest)
        PROVE  Keeps(e, q, server[q].manifest)'
    <3>1. CASE e # d
      BY <1>1, <1>2, <1>3, <2>1, <3>1, OthersKeep
    <3>2. CASE e = d
      BY <1>1, <1>2, <1>3, <2>1, <3>2, ItselfKeeps
    <3> QED BY <3>1, <3>2
  <2> QED BY <1>2, <1>3, <2>1 DEF StillKept
<1>5. StillKept(r)
  <2>1. CASE init(d, r)
    <3>1. server[r].manifest = NONE
      BY <2>1 DEF init, WrapsInv, OutcastsOut, NoRepo
    <3>2. server'[r].manifest = NONE
      BY <2>1, <3>1 DEF init, TypeInv, TypeOK, Server
    <3> QED BY <3>2 DEF StillKept
  <2>2. CASE delete_repo(d, r)
    <3>1. server'[r].state = "deleted"
      BY <2>2 DEF delete_repo, NoRepo, TypeInv, TypeOK
    <3> QED BY <3>1 DEF StillKept
  <2>3. CASE connect(d, r)
    <3>1. /\ server'[r].state = server[r].state /\ server'[r].manifest = server[r].manifest
          /\ \A e \in Device \ {d} : server'[r].status[e] = server[r].status[e]
          /\ server[r].status[d] # "approved"
      BY <2>3 DEF connect, TypeInv, TypeOK, Server
    <3>2. ASSUME NEW e \in Device, Keeps(e, r, server[r].manifest)
          PROVE  Keeps(e, r, server[r].manifest)'
      <4>1. e # d
        BY <3>1, <3>2 DEF Keeps
      <4> QED BY <1>1, <1>2, <3>1, <3>2, <4>1, OthersKeep
    <3> QED BY <1>2, <3>1, <3>2 DEF StillKept
  <2> QED BY <2>1, <2>2, <2>3
<1>6. \A q \in Repo : StillKept(q)
  BY <1>4, <1>5
<1> QED BY <1>6, KeptByAll

LEMMA KeptNext ==
  TypeInv /\ WrapsInv /\ SettledInv /\ KeptInv /\ [Next]_vars => KeptInv'
<1> SUFFICES ASSUME TypeInv, WrapsInv, SettledInv, KeptInv, [Next]_vars, ~spoiled'
             PROVE  SomebodyKeeps'
  BY DEF KeptInv
<1>1. CASE UNCHANGED vars
  <2>1. ~spoiled
    BY <1>1 DEF vars, history
  <2> QED BY <1>1, <2>1 DEF vars, files, history, KeptInv, SomebodyKeeps, Keeps
<1>2. ASSUME NEW d \in Device, step(d) \/ fail(d)
      PROVE  SomebodyKeeps'
  <2>1. ~spoiled /\ SomebodyKeeps
    BY <1>2, StaysGone DEF KeptInv
  <2> QED BY <1>2, <2>1, KeptReads, KeptFiles, KeptRequests, KeptSeals, KeptRevokes
          DEF step
<1>3. ASSUME NEW d \in Device, NEW r \in Repo,
             init(d, r) \/ connect(d, r) \/ delete_repo(d, r)
      PROVE  SomebodyKeeps'
  <2>1. SomebodyKeeps
    BY <1>3 DEF init, connect, delete_repo, Joins, KeptInv
  <2> QED BY <1>3, <2>1, KeptBegin
<1>4. ASSUME NEW d \in Device, NEW s, NEW e, start(d, s, e)
      PROVE  SomebodyKeeps'
  <2> DEFINE j == [Idle EXCEPT !.repo = config[d], !.target = e, !.pc = "manifest",
                               !.next = s]
  <2>1. Go(d, j) /\ j.pc = "manifest" /\ job[d].pc = "idle"
    BY <1>4 DEF start, Begin, Idle
  <2>2. /\ server' = server /\ UNCHANGED <<config, rmk>> /\ SomebodyKeeps
        /\ \A r \in Repo : phrases[r] \subseteq phrases'[r]
    BY <1>4 DEF start, Begin, files, KeptInv
  <2> HIDE DEF j
  <2> QED BY <2>1, <2>2, KeptQuiet
<1> QED BY <1>1, <1>2, <1>3, <1>4 DEF Next

LEMMA KeptOpens == SettledInv /\ SomebodyKeeps => SomebodyOpens
<1> SUFFICES ASSUME SettledInv, SomebodyKeeps, NEW r \in Repo,
                    server[r].state = "live", server[r].manifest # NONE,
                    server[r].manifest \notin phrases[r]
             PROVE  \E d \in WithStatus(r, "approved") :
                      \/ config[d] = r /\ rmk[d] = server[r].manifest
                      \/ server[r].wraps[d] # NONE
                           /\ server[r].wraps[d].key = server[r].manifest
                      \/ job[d].repo = r /\ job[d].key = server[r].manifest
  BY DEF SomebodyOpens
<1>1. PICK d \in Device : Keeps(d, r, server[r].manifest)
  BY DEF SomebodyKeeps
<1>2. d \in WithStatus(r, "approved")
  BY <1>1 DEF Keeps, WithStatus
<1>3. CASE rmk[d] = server[r].manifest
  BY <1>1, <1>2, <1>3 DEF Keeps
<1>4. CASE job[d].pc = "store_key" /\ job[d].key = server[r].manifest
  <2>1. job[d].repo = r
    BY <1>1, <1>4 DEF Keeps, SettledInv, Settled, SettledWith
  <2> QED BY <1>2, <1>4, <2>1
<1> QED BY <1>1, <1>3, <1>4 DEF Keeps

LEMMA SettledInit == Init => SettledInv /\ KeptInv
<1> SUFFICES ASSUME Init PROVE SettledInv /\ KeptInv
  OBVIOUS
<1>1. \A d \in Device : job[d] = Idle /\ Idle.pc = "idle"
  BY DEF Init, Idle
<1>2. \A r \in Repo : server[r].state = "none"
  BY DEF Init, NoRepo
<1>3. SettledInv
  BY <1>1, SettledIdle DEF SettledInv, Settled, Joining
<1> QED BY <1>2, <1>3 DEF KeptInv, SomebodyKeeps

(***************************************************************************)
(* Commands that run one by one do not put back an older manifest.         *)
(***************************************************************************)

\* A step of a command that does not begin now is the only one's.
LEMMA Alone ==
  ASSUME TypeInv, OneByOne, orderly, NEW d \in Device, job[d].pc # "idle"
  PROVE  \A e \in Device \ {d} : job[e].pc = "idle"
BY DEF OneByOne, Running

\* The one command that runs goes on to another step.
LEMMA AloneMoves ==
  ASSUME TypeInv, OneByOne, NEW d \in Device, NEW j, Go(d, j),
         orderly' => orderly /\ \A e \in Device \ {d} : job[e].pc = "idle",
         orderly' /\ j.pc = "publish" => server'[j.repo].manifest \in {NONE, j.key},
         orderly' /\ j.pc = "reseal" /\ server'[j.repo].manifest # NONE =>
           server'[j.repo].manifest <= j.key
  PROVE  OneByOne'
<1>1. job'[d] = j /\ \A e \in Device \ {d} : job'[e] = job[e]
  BY Moves
<1> QED BY <1>1 DEF OneByOne, Running

\* What one step of a command does to the order of things.
LEMMA OrderlyStep ==
  ASSUME TypeInv, OneByOne, NEW d \in Device, step(d) \/ fail(d)
  PROVE  orderly' => orderly /\ \A e \in Device \ {d} : job[e].pc = "idle"
<1>1. job[d].pc # "idle"
  BY DEF step, fail, save_config, store_key, store_label, print_recovery_phrase,
         current_rmk, rmk_from_own_wrap, list_pending, approve_device, reopen,
         revoke_device, reseal, list_devices, push_wrap, fetch_table, publish, save,
         clear_config, refused, At, Requests
<1>2. orderly' => orderly
  BY DEF step, fail, save_config, store_key, store_label, print_recovery_phrase,
         current_rmk, rmk_from_own_wrap, list_pending, approve_device, reopen,
         revoke_device, reseal, list_devices, push_wrap, fetch_table, publish, save,
         clear_config, refused, history, GiveUp, Proceed
<1> QED BY <1>1, <1>2, Alone

LEMMA ManifestStays ==
  ASSUME TypeInv, NEW d \in Device,
         approve_device(d) \/ revoke_device(d) \/ push_wrap(d)
  PROVE  \A r \in Repo : server'[r].manifest = server[r].manifest
<1>1. PICK q \in Repo : q = job[d].repo
  BY InRepo DEF approve_device, revoke_device, push_wrap, At
<1>2. server[q] \in Server
  BY DEF TypeInv, TypeOK
<1>3. CASE server' = server
  BY <1>3
<1>4. CASE \E t, w : server' = [server EXCEPT ![q].status[t] = "approved", ![q].wraps[t] = w]
  <2>1. PICK t, w :
          server' = [server EXCEPT ![q].status[t] = "approved", ![q].wraps[t] = w]
    BY <1>4
  <2> DEFINE v == [server[q] EXCEPT !.status[t] = "approved", !.wraps[t] = w]
  <2>2. server' = [server EXCEPT ![q] = v]
    BY <1>2, <2>1 DEF TypeInv, TypeOK, Server
  <2>3. v.manifest = server[q].manifest
    BY <1>2 DEF Server
  <2> HIDE DEF v
  <2> QED BY <2>2, <2>3 DEF TypeInv, TypeOK
<1>5. CASE \E t : server' = [server EXCEPT ![q].status[t] = "revoked", ![q].generation = @ + 1]
  <2>1. PICK t :
          server' = [server EXCEPT ![q].status[t] = "revoked", ![q].generation = @ + 1]
    BY <1>5
  <2> DEFINE v == [server[q] EXCEPT !.status[t] = "revoked", !.generation = @ + 1]
  <2>2. server' = [server EXCEPT ![q] = v]
    BY <1>2, <2>1 DEF TypeInv, TypeOK, Server
  <2>3. v.manifest = server[q].manifest
    BY <1>2 DEF Server
  <2> HIDE DEF v
  <2> QED BY <2>2, <2>3 DEF TypeInv, TypeOK
<1>6. CASE push_wrap(d)
  <2>1. PICK e, w : server' = [server EXCEPT ![job[d].repo].wraps[e] = w]
    BY <1>6 DEF push_wrap
  <2> QED BY <1>1, <1>2, <2>1 DEF TypeInv, TypeOK, Server
<1>7. CASE approve_device(d)
  <2> DEFINE wrap == [key |-> job[d].key, generation |-> job[d].generation]
  <2>1. CASE server' = [server EXCEPT ![q].status[job[d].target] = "approved",
                                      ![q].wraps[job[d].target] = wrap]
    <3> HIDE DEF wrap
    <3> QED BY <1>4, <2>1
  <2> QED BY <1>1, <1>3, <1>7, <2>1 DEF approve_device
<1>8. CASE revoke_device(d)
  BY <1>1, <1>3, <1>5, <1>8 DEF revoke_device
<1> QED BY <1>6, <1>7, <1>8

LEMMA OneByOneNext ==
  TypeInv /\ KeysKnown /\ OneByOne /\ [Next]_vars => OneByOne'
<1> SUFFICES ASSUME TypeInv, KeysKnown, OneByOne, [Next]_vars PROVE OneByOne'
  OBVIOUS
<1>1. CASE UNCHANGED vars
  BY <1>1 DEF vars, history, OneByOne, Running
<1>2. ASSUME NEW d \in Device, step(d) \/ fail(d)
      PROVE  OneByOne'
  <2>o. orderly' => orderly /\ \A e \in Device \ {d} : job[e].pc = "idle"
    BY <1>2, OrderlyStep
  <2>0. job[d] \in Job /\ Idle.pc = "idle" /\ (job[d].pc # "idle" => LocalOK(d, job[d]))
    BY InRepo DEF TypeInv, TypeOK, Idle
  <2>1. ASSUME NEW j, Go(d, j), j.pc \notin {"publish", "reseal"}
        PROVE  OneByOne'
    BY <2>o, <2>1, AloneMoves
  <2>2. ASSUME NEW l, Goto(d, l), l \notin {"publish", "reseal"}
        PROVE  OneByOne'
    <3>1. [job[d] EXCEPT !.pc = l].pc = l
      BY <2>0 DEF Job
    <3> QED BY <2>1, <2>2, <3>1 DEF Goto
  <2>3. CASE Go(d, Idle)
    BY <2>0, <2>1, <2>3
  <2>4. CASE store_label(d)
    <3>1. job[d].next \notin {"publish", "reseal"}
      BY <2>0, <2>4 DEF store_label, At, LocalOK, Commands
    <3> QED BY <2>2, <2>3, <2>4, <3>1 DEF store_label
  <2>5. CASE current_rmk(d)
    <3> DEFINE j == [job[d] EXCEPT !.key = rmk[d], !.generation = label[d],
                                   !.pc = job[d].next]
               w == [job[d] EXCEPT !.seen = server[job[d].repo].manifest, !.pc = "wrap"]
    <3>1. j.pc \notin {"publish", "reseal"} /\ w.pc = "wrap"
      BY <2>0, <2>5 DEF current_rmk, At, LocalOK, Commands, Job
    <3>2. Go(d, j) \/ Go(d, w)
      BY <2>5 DEF current_rmk
    <3> HIDE DEF j, w
    <3> QED BY <2>1, <3>1, <3>2
  <2>6. CASE rmk_from_own_wrap(d) \/ reopen(d) \/ list_devices(d) \/ push_wrap(d)
               \/ reseal(d)
    <3>1. \A k, g : [job[d] EXCEPT !.key = k, !.generation = g, !.seen = NONE,
                                   !.pc = "store_key"].pc = "store_key"
      BY <2>0 DEF Job
    <3>2. \A m : [job[d] EXCEPT !.seen = m, !.pc = "revoke"].pc = "revoke"
      BY <2>0 DEF Job
    <3>3. \A t, l : [job[d] EXCEPT !.todo = t, !.pc = l].pc = l
      BY <2>0 DEF Job
    <3>4. [job[d] EXCEPT !.seen = NONE, !.pc = "store_key"].pc = "store_key"
      BY <2>0 DEF Job
    <3>5. CASE rmk_from_own_wrap(d)
      BY <2>1, <2>3, <3>1, <3>5 DEF rmk_from_own_wrap, GiveUp
    <3>6. CASE reopen(d)
      BY <2>1, <2>3, <3>2, <3>6 DEF reopen, GiveUp
    <3>7. CASE list_devices(d)
      BY <2>1, <3>3, <3>7 DEF list_devices
    <3>8. CASE push_wrap(d)
      <4>1. PICK e \in job[d].todo :
              Go(d, [job[d] EXCEPT !.todo = @ \ {e},
                       !.pc = IF job[d].todo = {e} THEN "show" ELSE "rewrap"])
        BY <3>8 DEF push_wrap
      <4> DEFINE j == [job[d] EXCEPT !.todo = @ \ {e},
                         !.pc = IF job[d].todo = {e} THEN "show" ELSE "rewrap"]
      <4>2. Go(d, j) /\ j.pc \in {"show", "rewrap"}
        BY <2>0, <4>1 DEF Job
      <4> HIDE DEF j
      <4> QED BY <2>1, <4>2
    <3>9. CASE reseal(d)
      BY <2>1, <3>4, <3>9 DEF reseal
    <3> QED BY <2>6, <3>5, <3>6, <3>7, <3>8, <3>9
  <2>7. CASE revoke_device(d)
    <3> DEFINE r == job[d].repo
               j == [job[d] EXCEPT !.key = minted + 1,
                       !.generation = server[r].generation + 1,
                       !.pc = IF job[d].seen = NONE THEN "store_key" ELSE "reseal",
                       !.next = "list"]
    <3>1. CASE Go(d, j) /\ server[r].status[job[d].target] \in {"pending", "approved"}
      <4>1. /\ j.pc # "publish" /\ j.key = minted + 1 /\ j.repo = r
            /\ r \in Repo /\ minted \in Nat
        BY <2>0, <2>7, InRepo, MintedTyped DEF Job, revoke_device, At
      <4>2. server'[r].manifest = server[r].manifest
        BY <2>7, <4>1, ManifestStays
      <4>3. server[r].manifest # NONE => server[r].manifest <= minted + 1
        BY <4>1 DEF KeysKnown, Known, TypeInv, TypeOK, Server, Maybe, Key
      <4> HIDE DEF j
      <4> QED BY <2>o, <3>1, <4>1, <4>2, <4>3, AloneMoves
    <3> QED BY <2>3, <2>7, <3>1 DEF revoke_device, GiveUp
  <2>8. CASE fetch_table(d)
    <3>1. CASE Goto(d, "publish") /\ Fits(server[job[d].repo].manifest, job[d].key)
      <4> DEFINE j == [job[d] EXCEPT !.pc = "publish"]
      <4>1. Go(d, j) /\ j.pc = "publish" /\ j.repo = job[d].repo /\ j.key = job[d].key
        BY <2>0, <3>1 DEF Goto, Job
      <4>2. server' = server /\ server[job[d].repo].manifest \in {NONE, job[d].key}
        BY <2>8, <3>1 DEF fetch_table, Fits
      <4> HIDE DEF j
      <4> QED BY <2>o, <4>1, <4>2, AloneMoves
    <3>2. CASE Goto(d, "save")
      BY <2>2, <3>2
    <3> QED BY <2>3, <2>8, <3>1, <3>2 DEF fetch_table, GiveUp
  <2>9. CASE save_config(d) \/ store_key(d) \/ list_pending(d) \/ publish(d)
    BY <2>2, <2>3, <2>9 DEF save_config, store_key, list_pending, publish, GiveUp
  <2>10. CASE print_recovery_phrase(d) \/ approve_device(d) \/ save(d) \/ clear_config(d)
                \/ refused(d) \/ fail(d)
    BY <2>3, <2>10
       DEF print_recovery_phrase, approve_device, save, clear_config, refused, fail, GiveUp
  <2> QED BY <1>2, <2>4, <2>5, <2>6, <2>7, <2>8, <2>9, <2>10 DEF step
<1>3. ASSUME NEW d \in Device, NEW j, Begin(d, j), j.pc \notin {"publish", "reseal"}
      PROVE  OneByOne'
  <2>1. orderly' => orderly /\ \A e \in Device \ {d} : job[e].pc = "idle"
    BY <1>3 DEF Begin, Running
  <2>2. Go(d, j)
    BY <1>3 DEF Begin
  <2> QED BY <1>3, <2>1, <2>2, AloneMoves
<1>4. ASSUME NEW d \in Device, NEW r \in Repo,
             init(d, r) \/ connect(d, r) \/ delete_repo(d, r)
      PROVE  OneByOne'
  <2>1. [Idle EXCEPT !.repo = r, !.key = minted + 1, !.pc = "config",
                     !.next = "show"].pc = "config"
    BY DEF Idle
  <2>2. \A k : [Idle EXCEPT !.repo = r, !.key = k, !.pc = "config"].pc = "config"
    BY DEF Idle
  <2>3. [Idle EXCEPT !.repo = r, !.pc = "forget"].pc = "forget"
    BY DEF Idle
  <2>4. CASE init(d, r)
    BY <1>3, <2>1, <2>4 DEF init
  <2>5. CASE connect(d, r)
    BY <1>3, <2>2, <2>5 DEF connect
  <2>6. CASE delete_repo(d, r)
    BY <1>3, <2>3, <2>6 DEF delete_repo
  <2> QED BY <1>4, <2>4, <2>5, <2>6
<1>5. ASSUME NEW d \in Device, NEW s, NEW e, start(d, s, e)
      PROVE  OneByOne'
  <2>1. [Idle EXCEPT !.repo = config[d], !.target = e, !.pc = "manifest",
                     !.next = s].pc = "manifest"
    BY DEF Idle
  <2> QED BY <1>3, <1>5, <2>1 DEF start
<1> QED BY <1>1, <1>2, <1>4, <1>5 DEF Next

\* The manifest that a step leaves is no older than the one it found.
LEMMA NotClobbered ==
  ASSUME TypeInv, OneByOne, [Next]_vars, orderly', NEW r \in Repo,
         server[r].manifest # NONE, server'[r].state = "live"
  PROVE  server'[r].manifest >= server[r].manifest
<1>0. server[r].manifest \in Nat
  BY DEF TypeInv, TypeOK, Server, Maybe, Key
<1>1. CASE server'[r].manifest = server[r].manifest
  BY <1>0, <1>1
<1>2. ASSUME NEW d \in Device, reseal(d) \/ publish(d)
      PROVE  server'[r].manifest >= server[r].manifest
  <2>1. /\ job[d].repo \in Repo /\ job[d].key \in Nat /\ orderly
        /\ server' = [server EXCEPT ![job[d].repo].manifest = job[d].key]
    <3>1. CASE reseal(d)
      <4>1. At(d, "reseal") /\ orderly' = orderly
        BY <3>1 DEF reseal
      <4>2. job[d].repo \in Repo /\ job[d].key \in Key
        BY <4>1, Asked DEF Requests, LocalOK, Keyed
      <4> QED BY <3>1, <4>1, <4>2 DEF reseal, Key
    <3>2. CASE publish(d)
      <4>1. At(d, "publish") /\ orderly' = orderly
        BY <3>2 DEF publish, history
      <4>2. job[d].repo \in Repo /\ job[d].key \in Key
        BY <4>1, Asked DEF Requests, LocalOK, Keyed
      <4> QED BY <3>2, <4>1, <4>2 DEF publish, Key
    <3> QED BY <1>2, <3>1, <3>2
  <2>2. CASE r # job[d].repo
    BY <1>1, <2>1, <2>2 DEF TypeInv, TypeOK
  <2>3. CASE r = job[d].repo
    <3>1. server'[r].manifest = job[d].key
      BY <2>1, <2>3 DEF TypeInv, TypeOK, Server
    <3>2. job[d].pc \in {"publish", "reseal"}
      BY <1>2 DEF reseal, publish, At
    <3> QED BY <1>0, <2>1, <2>3, <3>1, <3>2 DEF OneByOne
  <2> QED BY <2>2, <2>3
<1>3. CASE UNCHANGED vars
  BY <1>1, <1>3 DEF vars
<1>4. ASSUME NEW d \in Device, step(d) \/ fail(d), ~(reseal(d) \/ publish(d))
      PROVE  server'[r].manifest = server[r].manifest
  <2>1. CASE server' = server
    BY <2>1
  <2>2. CASE approve_device(d) \/ revoke_device(d) \/ push_wrap(d)
    BY <2>2, ManifestStays
  <2> QED BY <1>4, <2>1, <2>2
          DEF step, fail, save_config, store_key, store_label, print_recovery_phrase,
              current_rmk, rmk_from_own_wrap, list_pending, reopen, list_devices,
              fetch_table, save, clear_config, refused
<1>5. ASSUME NEW d \in Device, NEW q \in Repo,
             init(d, q) \/ connect(d, q) \/ delete_repo(d, q)
      PROVE  server'[r].manifest = server[r].manifest
  <2>1. CASE init(d, q)
    BY <2>1 DEF init, TypeInv, TypeOK, Server
  <2>2. CASE connect(d, q)
    BY <2>2 DEF connect, TypeInv, TypeOK, Server
  <2>3. CASE delete_repo(d, q)
    <3>1. q # r
      BY <2>3 DEF delete_repo, NoRepo, TypeInv, TypeOK
    <3> QED BY <2>3, <3>1 DEF delete_repo, TypeInv, TypeOK
  <2> QED BY <1>5, <2>1, <2>2, <2>3
<1>6. ASSUME NEW d \in Device, NEW s, NEW e, start(d, s, e)
      PROVE  server'[r].manifest = server[r].manifest
  BY <1>6 DEF start
<1> QED BY <1>1, <1>2, <1>3, <1>4, <1>5, <1>6 DEF Next

(***************************************************************************)
(* The invariant, and what follows from it.                                *)
(***************************************************************************)

LEMMA IInvInit == Init => IInv
<1>1. Idle.pc = "idle"
  BY DEF Idle
<1>2. Init => OneByOne
  BY <1>1 DEF Init, OneByOne, Running
<1> QED BY <1>2, InitTyped, WrapsInit, SettledInit DEF IInv

LEMMA IInvNext == IInv /\ [Next]_vars => IInv'
BY TypeNext, KnownNext, WrapsNext, SettledNext, KeptNext, OneByOneNext DEF IInv

LEMMA Invariant == Spec => []IInv
BY IInvInit, IInvNext, PTL DEF Spec

\* Type correctness: in particular a command has a key wherever it uses one, and a
\* generation never outgrows the keys that were generated.
THEOREM TypeCorrect == Spec => [](TypeOK /\ LocalsOK)
<1>1. IInv => TypeOK /\ LocalsOK
  BY DEF IInv, TypeInv
<1> QED BY <1>1, Invariant, PTL

\* A key is never wrapped for a device that was revoked before the key was generated,
\* however the commands of the devices interleave and wherever they stop.
THEOREM RevokedStayOut == Spec => []WrapsForMembers
<1>1. IInv => WrapsForMembers
  BY DEF IInv, WrapsInv
<1> QED BY <1>1, Invariant, PTL

\* Whatever runs at the same time and wherever it stops, somebody can still open the
\* manifest, unless a revocation stops between sealing it and storing its key, or seals
\* it in the place of one that it has not opened, or a device leaves for another
\* repository.
THEOREM SomebodyHasTheKey == Spec => []KeyNeverLost
<1>1. IInv => KeyNeverLost
  BY KeptOpens DEF IInv, KeptInv, KeyNeverLost
<1> QED BY <1>1, Invariant, PTL

\* As long as commands run one by one, no device puts the manifest of an older key in
\* the place of a newer one's.
THEOREM NewerKeysStay == Spec => NeverClobbered
<1>1. IInv /\ [Next]_vars =>
        [orderly' => \A r \in Repo :
           server[r].manifest # NONE /\ server'[r].state = "live" =>
             server'[r].manifest >= server[r].manifest]_server
  BY NotClobbered DEF IInv
<1> QED BY <1>1, Invariant, PTL DEF Spec, NeverClobbered


(***************************************************************************)
(* One repository whose commands run one by one: every member gets its     *)
(* newest key.                                                             *)
(***************************************************************************)

\* There is one repository.
OneRepo == \A q, r \in Repo : q = r

\* Before it is created nothing has happened.
Untouched ==
  \A r \in Repo : server[r].state = "none" =>
    /\ minted = 0
    /\ \A d \in Device : config[d] = NONE /\ job[d] = Idle /\ label[d] = 1

\* The key that was generated last is the one of the manifest, or about to be.
Sealed(r) ==
  /\ server[r].manifest = NONE => minted <= 1
  /\ server[r].manifest \in {NONE, minted} \/ \E d \in Device : job[d].pc = "reseal"

\* No copy claims a later generation than the server's.
Bounded(r) ==
  \A d \in Device :
    LET g == server[r].generation  wrap == server[r].wraps[d] IN
    label[d] <= g /\ job[d].generation <= g /\ (wrap # NONE => wrap.generation <= g)

\* A command works with the key that was generated last, unless it is connecting
\* with an older phrase and not approved yet.
Storing == {"config", "store_key", "store_label"}
Connecting(j) == j.pc \in Storing /\ j.next = "idle"
Rewrapping(j) ==
  j.pc \in {"reseal", "list", "rewrap"} \/ (j.pc \in {"store_key", "store_label"} /\ j.next = "list")
UpToDate(d, r) ==
  LET j == job[d]  s == server[r] IN
  /\ j.pc \in {"wrap", "revoke"} => j.seen = s.manifest
  /\ j.pc = "reseal" => s.manifest # NONE
  /\ Connecting(j) => s.status[d] = "pending"
  /\ j.pc \in Keyed \cup Storing /\ ~Connecting(j) => j.key = minted
  /\ Rewrapping(j) => j.generation = s.generation

\* A member has that key, or the command that generated it has still to give it to
\* the member.
Has(d, r) ==
  \/ rmk[d] = minted
  \/ server[r].wraps[d] # NONE /\ server[r].wraps[d].key = minted
Awaits(d, e, j) ==
  \/ j.pc = "reseal"
  \/ j.pc = "store_key" /\ j.next = "list"
  \/ j.pc = "store_label" /\ j.next = "list" /\ d # e
  \/ j.pc = "list" /\ d # e
  \/ j.pc = "rewrap" /\ d \in j.todo
  \/ d = e /\ j.pc \in {"config", "store_key"} /\ j.next = "show"
Reached(r) ==
  \A d \in Members(r) : Has(d, r) \/ \E e \in Device : Awaits(d, e, job[e])

Newest(r) == Sealed(r) /\ Bounded(r) /\ (\A d \in Device : UpToDate(d, r)) /\ Reached(r)
NewestInv == orderly => \A r \in Repo : server[r].state = "live" => Newest(r)

\* The invariant at rest.
LEMMA NewestOpens == TypeInv /\ WrapsInv /\ NewestInv => EverybodyOpens
<1> SUFFICES ASSUME TypeInv, WrapsInv, NewestInv, orderly, Quiet, NEW r \in Repo, NEW d \in Members(r)
             PROVE  LET k == server[r].manifest  wrap == server[r].wraps[d] IN
                    k = NONE \/ rmk[d] = k \/ (wrap # NONE /\ wrap.key = k)
  BY DEF EverybodyOpens
<1>1. CASE server[r].state # "live"
  <2>1. server[r].manifest = NONE
    BY <1>1 DEF WrapsInv, OutcastsOut, NoRepo, TypeInv, TypeOK, Server
  <2> QED BY <2>1
<1>2. CASE server[r].state = "live"
  <2>1. Newest(r) /\ \A e \in Device : job[e].pc = "idle"
    BY <1>2 DEF NewestInv, Quiet
  <2>2. server[r].manifest \in {NONE, minted}
    BY <2>1 DEF Newest, Sealed
  <2>3. \A e \in Device : ~Awaits(d, e, job[e])
    BY <2>1 DEF Awaits
  <2> QED BY <2>1, <2>2, <2>3 DEF Newest, Reached, Has
<1> QED BY <1>1, <1>2


\* A command under way neither creates nor deletes a repository.
LEMMA StateStays ==
  ASSUME TypeInv, NEW d \in Device, step(d) \/ fail(d)
  PROVE  \A r \in Repo : server'[r].state = server[r].state
<1>1. CASE server' = server
  BY <1>1
<1>2. CASE approve_device(d) \/ revoke_device(d)
  <2> DEFINE q == job[d].repo  t == job[d].target
  <2>1. q \in Repo /\ server[q] \in Server
    BY <1>2, Asked DEF approve_device, revoke_device, Requests
  <2>2. \A r \in Repo \ {q} : server'[r] = server[r]
    BY <1>2, <2>1 DEF approve_device, revoke_device, TypeInv, TypeOK
  <2>3. server'[q].state = server[q].state
    <3>1. CASE approve_device(d)
      <4> DEFINE wrap == [key |-> job[d].key, generation |-> job[d].generation]
      <4>1. \/ server' = server
            \/ server' = [server EXCEPT ![q].status[t] = "approved", ![q].wraps[t] = wrap]
        BY <3>1 DEF approve_device
      <4> HIDE DEF wrap
      <4> DEFINE v == [server[q] EXCEPT !.status[t] = "approved", !.wraps[t] = wrap]
      <4>2. server' = server \/ server' = [server EXCEPT ![q] = v]
        BY <2>1, <4>1 DEF TypeInv, TypeOK, Server
      <4>3. v.state = server[q].state
        BY <2>1 DEF Server
      <4> HIDE DEF v
      <4> QED BY <2>1, <4>2, <4>3 DEF TypeInv, TypeOK
    <3>2. CASE revoke_device(d)
      <4>1. \/ server' = server
            \/ server' = [server EXCEPT ![q].status[t] = "revoked", ![q].generation = @ + 1]
        BY <3>2 DEF revoke_device
      <4> DEFINE v == [server[q] EXCEPT !.status[t] = "revoked", !.generation = @ + 1]
      <4>2. server' = server \/ server' = [server EXCEPT ![q] = v]
        BY <2>1, <4>1 DEF TypeInv, TypeOK, Server
      <4>3. v.state = server[q].state
        BY <2>1 DEF Server
      <4> HIDE DEF v
      <4> QED BY <2>1, <4>2, <4>3 DEF TypeInv, TypeOK
    <3> QED BY <1>2, <3>1, <3>2
  <2> QED BY <2>2, <2>3
<1>3. CASE reseal(d) \/ publish(d)
  <2>1. server' = [server EXCEPT ![job[d].repo].manifest = job[d].key]
    BY <1>3 DEF reseal, publish
  <2> QED BY <2>1 DEF TypeInv, TypeOK, Server
<1>4. CASE push_wrap(d)
  <2>1. PICK e, w : server' = [server EXCEPT ![job[d].repo].wraps[e] = w]
    BY <1>4 DEF push_wrap
  <2> QED BY <2>1 DEF TypeInv, TypeOK, Server
<1> QED BY <1>1, <1>2, <1>3, <1>4
        DEF step, fail, save_config, store_key, store_label, print_recovery_phrase,
            current_rmk, rmk_from_own_wrap, list_pending, reopen, list_devices,
            fetch_table, save, clear_config, refused

LEMMA UntouchedNext ==
  ASSUME OneRepo, TypeInv, Untouched, [Next]_vars
  PROVE  Untouched'
<1>i. Idle.pc = "idle"
  BY DEF Idle
<1>1. SUFFICES ASSUME NEW r \in Repo, server'[r].state = "none", ~UNCHANGED vars
               PROVE  FALSE
  BY DEF vars, files, Untouched
<1>2. ASSUME NEW d \in Device, step(d) \/ fail(d) PROVE FALSE
  <2>1. server[r].state = "none"
    BY <1>1, <1>2, StateStays
  <2>2. job[d].pc = "idle"
    BY <1>i, <2>1 DEF Untouched
  <2> QED BY <1>2, <2>2
          DEF step, fail, save_config, store_key, store_label, print_recovery_phrase,
              current_rmk, rmk_from_own_wrap, list_pending, approve_device, reopen,
              revoke_device, reseal, list_devices, push_wrap, fetch_table, publish, save,
              clear_config, refused, At, Requests
<1>3. ASSUME NEW d \in Device, NEW q \in Repo, init(d, q) PROVE FALSE
  BY <1>1, <1>3 DEF init, OneRepo, TypeInv, TypeOK, Server
<1>4. ASSUME NEW d \in Device, NEW q \in Repo, connect(d, q) PROVE FALSE
  BY <1>1, <1>4 DEF connect, OneRepo, TypeInv, TypeOK, Server
<1>5. ASSUME NEW d \in Device, NEW q \in Repo, delete_repo(d, q) PROVE FALSE
  BY <1>1, <1>5 DEF delete_repo, OneRepo, TypeInv, TypeOK, Server, NoRepo
<1>6. ASSUME NEW d \in Device, NEW s, NEW e, start(d, s, e) PROVE FALSE
  BY <1>1, <1>6 DEF start, Untouched
<1> QED BY <1>1, <1>2, <1>3, <1>4, <1>5, <1>6 DEF Next

\* The one command that runs goes on, and generates no key: whoever has waited for
\* it, or has just become a member, has the key or goes on waiting.
LEMMA NewestMoves ==
  ASSUME TypeInv, NEW r \in Repo, Newest(r), NEW d \in Device, NEW j, Go(d, j),
         \A e \in Device \ {d} : job[e].pc = "idle",
         \A e \in Device \ {d} : rmk'[e] = rmk[e] /\ label'[e] = label[e],
         UNCHANGED minted, server'[r].generation = server[r].generation,
         \A e \in Device :
           \/ server'[r].wraps[e] = server[r].wraps[e]
           \/ /\ server'[r].wraps[e] # NONE /\ server'[r].wraps[e].key = minted
              /\ server'[r].wraps[e].generation <= server[r].generation,
         rmk'[d] \in {rmk[d], minted} \/ server'[r].status[d] # "approved",
         label'[d] <= server[r].generation, j.generation <= server[r].generation,
         Sealed(r)', UpToDate(d, r)',
         \A e \in Members(r)' :
           Awaits(e, d, job[d]) \/ e \notin Members(r) => Awaits(e, d, j) \/ Has(e, r)'
  PROVE  Newest(r)'
<1>1. job'[d] = j /\ \A e \in Device \ {d} : job'[e] = job[e]
  BY Moves
<1>2. Bounded(r)'
  BY <1>1 DEF Newest, Bounded
<1>3. ASSUME NEW e \in Device PROVE UpToDate(e, r)'
  <2>1. CASE e # d
    BY <1>1, <2>1 DEF UpToDate, Keyed, Storing, Connecting, Rewrapping
  <2> QED BY <2>1
<1>4. ASSUME NEW e \in Members(r)' PROVE Has(e, r)' \/ \E f \in Device : Awaits(e, f, job[f])'
  <2>0. e \in Device /\ server'[r].status[e] = "approved"
    BY DEF Members, WithStatus
  <2>1. CASE Awaits(e, d, job[d]) \/ e \notin Members(r)
    BY <1>1, <2>1 DEF Awaits
  <2>2. CASE ~Awaits(e, d, job[d]) /\ e \in Members(r)
    <3>1. \A f \in Device \ {d} : ~Awaits(e, f, job[f])
      BY DEF Awaits
    <3>2. Has(e, r)
      BY <2>2, <3>1 DEF Newest, Reached
    <3> QED BY <2>0, <3>2 DEF Has
  <2> QED BY <2>1, <2>2
<1>5. Reached(r)'
  BY <1>4 DEF Reached
<1> QED BY <1>2, <1>3, <1>5 DEF Newest

\* A copy that opens the manifest is the key that was generated last.
LEMMA OpensNewest ==
  ASSUME TypeInv, NEW r \in Repo, Sealed(r), \A d \in Device : job[d].pc # "reseal",
         NEW k \in Key, k <= minted, Fits(server[r].manifest, k)
  PROVE  k = minted
<1>1. minted \in Nat /\ k \in Nat /\ k >= 1
  BY MintedTyped DEF Key
<1>2. CASE server[r].manifest = NONE
  BY <1>1, <1>2 DEF Sealed
<1>3. CASE server[r].manifest # NONE
  BY <1>3 DEF Sealed, Fits
<1> QED BY <1>2, <1>3

\* What is true of the one command that runs.
LEMMA Working ==
  ASSUME OneRepo, TypeInv, KeysKnown, NEW r \in Repo, Newest(r), NEW d \in Device,
         job[d].pc # "idle"
  PROVE  /\ job[d] \in Job /\ LocalOK(d, job[d]) /\ job[d].repo = r /\ server[r] \in Server
         /\ UpToDate(d, r)
         /\ label[d] <= server[r].generation /\ job[d].generation <= server[r].generation
BY InRepo DEF OneRepo, Newest, Bounded


\* The steps that leave the server and the files alone.
LEMMA NewestReads ==
  ASSUME OneRepo, TypeInv, KeysKnown, NEW r \in Repo, Newest(r), NEW d \in Device,
         \A e \in Device \ {d} : job[e].pc = "idle", orderly',
         \/ current_rmk(d) \/ rmk_from_own_wrap(d) \/ list_pending(d) \/ reopen(d)
         \/ list_devices(d) \/ fetch_table(d) \/ print_recovery_phrase(d) \/ save(d)
  PROVE  Newest(r)'
<1>0. job[d].pc # "idle" /\ job[d].pc # "reseal"
  BY DEF current_rmk, rmk_from_own_wrap, list_pending, reopen, list_devices, fetch_table,
         print_recovery_phrase, save, At
<1>1. UNCHANGED <<server, config, rmk, label, minted>>
  BY DEF current_rmk, rmk_from_own_wrap, list_pending, reopen, list_devices, fetch_table,
         print_recovery_phrase, save, files, history
<1>2. /\ job[d] \in Job /\ LocalOK(d, job[d]) /\ job[d].repo = r /\ server[r] \in Server
      /\ UpToDate(d, r)
      /\ label[d] <= server[r].generation /\ job[d].generation <= server[r].generation
  BY <1>0, Working
<1>3. ~GiveUp(d)
  BY DEF GiveUp
<1>4. Sealed(r)
  BY DEF Newest
<1>5. Sealed(r)' /\ Members(r)' = Members(r)
  <2>1. \A e \in Device : job[e].pc # "reseal"
    BY <1>0
  <2> QED BY <1>1, <1>4, <2>1 DEF Sealed, Members, WithStatus
<1>6. ASSUME NEW j, Go(d, j), j.generation <= server[r].generation,
             j.pc \in {"wrap", "revoke"} => j.seen = server[r].manifest,
             j.pc \in Keyed => ~Connecting(j) /\ j.key = minted,
             Rewrapping(j) => j.pc = "rewrap" /\ Rewrapping(job[d])
                              /\ j.generation = job[d].generation,
             j.pc \notin {"config", "reseal"},
             \A e \in Members(r) : Awaits(e, d, job[d]) => Awaits(e, d, j)
      PROVE  Newest(r)'
  <2>1. job'[d] = j
    BY <1>6, Moves
  <2>2. UpToDate(d, r)'
    BY <1>1, <1>2, <1>6, <2>1 DEF UpToDate, Keyed, Storing, Connecting
  <2> QED BY <1>1, <1>2, <1>5, <1>6, <2>2, NewestMoves
<1>7. ASSUME Go(d, Idle), job[d].pc # "list" PROVE Newest(r)'
  <2>1. /\ Idle.pc = "idle" /\ Idle.generation = 1
        /\ 1 <= server[r].generation
    BY <1>2 DEF Idle, Server, Generation
  <2>2. \A e \in Members(r) : ~Awaits(e, d, job[d])
    BY <1>7 DEF current_rmk, rmk_from_own_wrap, list_pending, reopen, list_devices,
         fetch_table, print_recovery_phrase, save, At, Awaits
  <2> QED BY <1>6, <1>7, <2>1, <2>2 DEF Keyed, Connecting, Rewrapping, Storing
<1>8. ASSUME NEW k \in Key, k <= minted, Fits(server[r].manifest, k) PROVE k = minted
  <2>1. \A e \in Device : job[e].pc # "reseal"
    BY <1>0
  <2> QED BY <1>4, <1>8, <2>1, OpensNewest
<1>9. CASE current_rmk(d)
  <2> DEFINE j == [job[d] EXCEPT !.key = rmk[d], !.generation = label[d],
                                 !.pc = job[d].next]
             w == [job[d] EXCEPT !.seen = server[r].manifest, !.pc = "wrap"]
  <2>1. job[d].pc = "manifest" /\ job[d].next \in Commands
    BY <1>2, <1>9 DEF current_rmk, At, LocalOK
  <2>2. \A e \in Members(r) : ~Awaits(e, d, job[d])
    BY <2>1 DEF Awaits
  <2>3. CASE rmk[d] # NONE /\ Fits(server[r].manifest, rmk[d]) /\ Go(d, j)
    <3>1. rmk[d] = minted
      BY <1>8, <2>3 DEF KeysKnown, Known, TypeInv, TypeOK, Maybe
    <3>2. j.pc = job[d].next /\ j.key = rmk[d] /\ j.generation = label[d]
      BY <1>2 DEF Job
    <3> HIDE DEF j
    <3> QED BY <1>2, <1>6, <2>1, <2>2, <2>3, <3>1, <3>2
            DEF Commands, Connecting, Storing, Rewrapping
  <2>4. CASE Go(d, w)
    <3>1. w.pc = "wrap" /\ w.seen = server[r].manifest /\ w.generation = job[d].generation
      BY <1>2 DEF Job
    <3> HIDE DEF w
    <3> QED BY <1>2, <1>6, <2>2, <2>4, <3>1 DEF Keyed, Rewrapping
  <2> QED BY <1>2, <1>9, <2>3, <2>4 DEF current_rmk
<1>10. CASE rmk_from_own_wrap(d)
  <2> DEFINE wrap == server[r].wraps[d]
             j == [job[d] EXCEPT !.key = wrap.key, !.generation = wrap.generation,
                                 !.seen = NONE, !.pc = "store_key"]
  <2>1. /\ job[d].pc = "wrap" /\ job[d].next \in Commands
        /\ job[d].seen = server[r].manifest
    BY <1>2, <1>10 DEF rmk_from_own_wrap, At, LocalOK, UpToDate
  <2>2. wrap # NONE /\ Fits(server[r].manifest, wrap.key) /\ Go(d, j)
    BY <1>2, <1>3, <1>10, <2>1 DEF rmk_from_own_wrap
  <2>3. wrap.key = minted /\ wrap.generation <= server[r].generation
    <3>1. wrap.key \in Key /\ wrap.key <= minted
      BY <1>2, <2>2 DEF KeysKnown, Server, Maybe, DeviceWrap
    <3> QED BY <1>8, <2>2, <3>1 DEF Newest, Bounded
  <2>4. /\ j.pc = "store_key" /\ j.key = wrap.key /\ j.generation = wrap.generation
        /\ j.next = job[d].next
    BY <1>2 DEF Job
  <2>5. \A e \in Members(r) : ~Awaits(e, d, job[d])
    BY <2>1 DEF Awaits
  <2> HIDE DEF j, wrap
  <2> QED BY <1>2, <1>6, <2>1, <2>2, <2>3, <2>4, <2>5
          DEF Commands, Connecting, Rewrapping
<1>11. CASE list_pending(d)
  <2> DEFINE j == [job[d] EXCEPT !.pc = "approve"]
  <2>1. job[d].pc = "list_pending" /\ Go(d, j)
    BY <1>3, <1>11 DEF list_pending, At, Goto
  <2>2. j.pc = "approve" /\ j.key = job[d].key /\ j.generation = job[d].generation
    BY <1>2 DEF Job
  <2>3. job[d].key = minted /\ \A e \in Members(r) : ~Awaits(e, d, job[d])
    BY <1>2, <2>1 DEF UpToDate, Keyed, Connecting, Storing, Awaits
  <2> HIDE DEF j
  <2> QED BY <1>2, <1>6, <2>1, <2>2, <2>3 DEF Connecting, Storing, Rewrapping
<1>12. CASE reopen(d)
  <2> DEFINE j == [job[d] EXCEPT !.seen = server[r].manifest, !.pc = "revoke"]
  <2>1. job[d].pc = "reopen" /\ Go(d, j)
    BY <1>2, <1>3, <1>12 DEF reopen, At
  <2>2. /\ j.pc = "revoke" /\ j.key = job[d].key /\ j.generation = job[d].generation
        /\ j.seen = server[r].manifest
    BY <1>2 DEF Job
  <2>3. job[d].key = minted /\ \A e \in Members(r) : ~Awaits(e, d, job[d])
    BY <1>2, <2>1 DEF UpToDate, Keyed, Connecting, Storing, Awaits
  <2> HIDE DEF j
  <2> QED BY <1>2, <1>6, <2>1, <2>2, <2>3 DEF Connecting, Storing, Rewrapping
<1>13. CASE list_devices(d)
  <2> DEFINE j == [job[d] EXCEPT !.todo = Survivors(d),
                     !.pc = IF Survivors(d) = {} THEN "show" ELSE "rewrap"]
  <2>1. job[d].pc = "list" /\ Go(d, j)
    BY <1>13 DEF list_devices, At
  <2>2. /\ j.pc = IF Survivors(d) = {} THEN "show" ELSE "rewrap"
        /\ j.key = job[d].key /\ j.generation = job[d].generation /\ j.todo = Survivors(d)
    BY <1>2 DEF Job
  <2>3. job[d].key = minted /\ Rewrapping(job[d])
    BY <1>2, <2>1 DEF UpToDate, Keyed, Connecting, Storing, Rewrapping
  <2>4. \A e \in Members(r) : Awaits(e, d, job[d]) => e \in Survivors(d)
    BY <1>2, <2>1 DEF Awaits, Survivors, Members
  <2> HIDE DEF j
  <2>5. \A e \in Members(r) : Awaits(e, d, job[d]) => Awaits(e, d, j)
    BY <2>2, <2>4 DEF Awaits
  <2> QED BY <1>2, <1>6, <2>1, <2>2, <2>3, <2>5 DEF Connecting, Storing, Rewrapping
<1>14. CASE fetch_table(d)
  <2>1. PICK l \in {"publish", "save"} : Goto(d, l)
    BY <1>3, <1>14 DEF fetch_table
  <2> DEFINE j == [job[d] EXCEPT !.pc = l]
  <2>2. job[d].pc = "table" /\ Go(d, j)
    BY <1>14, <2>1 DEF fetch_table, At, Goto
  <2>3. j.pc = l /\ j.key = job[d].key /\ j.generation = job[d].generation
    BY <1>2 DEF Job
  <2>4. job[d].key = minted /\ \A e \in Members(r) : ~Awaits(e, d, job[d])
    BY <1>2, <2>2 DEF UpToDate, Keyed, Connecting, Storing, Awaits
  <2> HIDE DEF j
  <2> QED BY <1>2, <1>6, <2>2, <2>3, <2>4 DEF Connecting, Storing, Rewrapping
<1>15. CASE print_recovery_phrase(d) \/ save(d)
  BY <1>7, <1>15 DEF print_recovery_phrase, save, At
<1> QED BY <1>9, <1>10, <1>11, <1>12, <1>13, <1>14, <1>15


\* The steps that change the device's files.
LEMMA NewestFiles ==
  ASSUME OneRepo, TypeInv, KeysKnown, NEW r \in Repo, Newest(r), NEW d \in Device,
         \A e \in Device \ {d} : job[e].pc = "idle",
         save_config(d) \/ store_key(d) \/ store_label(d) \/ clear_config(d)
  PROVE  Newest(r)'
<1>0. /\ job[d].pc # "idle" /\ job[d].pc # "reseal" /\ UNCHANGED <<server, minted>>
      /\ \A e \in Device \ {d} : UNCHANGED <<config[e], rmk[e], label[e]>>
  BY DEF save_config, store_key, store_label, clear_config, At, TypeInv, TypeOK
<1>1. /\ job[d] \in Job /\ LocalOK(d, job[d]) /\ job[d].repo = r /\ server[r] \in Server
      /\ UpToDate(d, r)
      /\ label[d] <= server[r].generation /\ job[d].generation <= server[r].generation
  BY <1>0, Working
<1>2. Sealed(r)'
  BY <1>0 DEF Newest, Sealed
<1>3. /\ Idle.pc = "idle" /\ Idle.generation <= server[r].generation
  BY <1>1 DEF Idle, Server, Generation
<1>4. ASSUME NEW j, Go(d, j), j.pc = "idle" \/ UpToDate(d, r)', j.generation <= server[r].generation,
             rmk'[d] \in {rmk[d], minted} \/ server[r].status[d] # "approved",
             label'[d] <= server[r].generation,
             \A e \in Members(r)' :
               Awaits(e, d, job[d]) \/ e \notin Members(r) => Awaits(e, d, j) \/ Has(e, r)'
      PROVE  Newest(r)'
  <2>1. job'[d] = j
    BY <1>4, Moves
  <2>2. UpToDate(d, r)'
    BY <1>4, <2>1 DEF UpToDate, Keyed, Storing, Connecting, Rewrapping
  <2> QED BY <1>0, <1>2, <1>4, <2>2, NewestMoves
<1>5. Members(r)' \subseteq Members(r) \cup {d}
  BY <1>0 DEF Members, WithStatus
<1>6. ASSUME NEW j, Go(d, j), j.key = job[d].key, j.next = job[d].next,
             j.generation = job[d].generation, j.seen = job[d].seen
      PROVE  j.pc \in {"store_key", "store_label"} /\ job[d].pc \in Storing => UpToDate(d, r)'
  <2>1. job'[d] = j
    BY <1>6, Moves
  <2> SUFFICES ASSUME j.pc \in {"store_key", "store_label"}, job[d].pc \in Storing
               PROVE  UpToDate(d, r)'
    OBVIOUS
  <2>2. job[d].pc \in {"store_key", "store_label"} \/ j.next # "list"
    BY <1>1, <1>6 DEF Storing, LocalOK
  <2> QED BY <1>0, <1>1, <1>6, <2>1, <2>2
          DEF UpToDate, Keyed, Storing, Connecting, Rewrapping
<1>7. CASE save_config(d)
  <2> DEFINE j == [job[d] EXCEPT !.pc = "store_key"]
  <2>1. job[d].pc = "config" /\ rmk' = rmk /\ label' = label
    BY <1>7 DEF save_config, At
  <2>2. ASSUME job[d].next = "idle" PROVE d \notin Members(r)'
    <3>1. server[r].status[d] = "pending"
      BY <1>1, <2>1, <2>2 DEF UpToDate, Connecting, Storing
    <3> QED BY <1>0, <3>1 DEF Members, WithStatus
  <2>3. CASE Go(d, Idle) /\ job[d].key = NONE
    <3>1. job[d].next = "idle"
      BY <1>1, <2>1, <2>3, KeysAssumption DEF LocalOK, Key
    <3>2. \A e \in Members(r)' : ~Awaits(e, d, job[d]) /\ e \in Members(r)
      BY <1>5, <2>1, <2>2, <3>1 DEF Awaits
    <3> QED BY <1>1, <1>3, <1>4, <2>1, <2>3, <3>2
  <2>4. CASE Go(d, j)
    <3>1. /\ j.pc = "store_key" /\ j.key = job[d].key /\ j.next = job[d].next
          /\ j.generation = job[d].generation /\ j.seen = job[d].seen
      BY <1>1 DEF Job
    <3> HIDE DEF j
    <3>2. UpToDate(d, r)'
      BY <1>6, <2>1, <2>4, <3>1 DEF Storing
    <3>3. job[d].next # "idle" => Awaits(d, d, j)
      BY <1>1, <2>1, <3>1 DEF LocalOK, Awaits
    <3>4. \A e \in Members(r)' :
            Awaits(e, d, job[d]) \/ e \notin Members(r) => Awaits(e, d, j)
      BY <1>5, <2>1, <2>2, <3>3 DEF Awaits
    <3> QED BY <1>1, <1>4, <2>1, <2>4, <3>1, <3>2, <3>4
  <2> QED BY <1>7, <2>3, <2>4 DEF save_config, Goto
<1>8. CASE store_key(d)
  <2> DEFINE j == [job[d] EXCEPT !.pc = "store_label"]
  <2>1. /\ job[d].pc = "store_key" /\ Go(d, j) /\ config' = config /\ label' = label
        /\ rmk'[d] = job[d].key
    BY <1>8 DEF store_key, At, Goto, TypeInv, TypeOK
  <2>2. /\ j.pc = "store_label" /\ j.key = job[d].key /\ j.next = job[d].next
        /\ j.generation = job[d].generation /\ j.seen = job[d].seen
    BY <1>1 DEF Job
  <2> HIDE DEF j
  <2>3. UpToDate(d, r)'
    BY <1>6, <2>1, <2>2 DEF Storing
  <2>4. rmk'[d] = minted \/ server[r].status[d] = "pending"
    BY <1>1, <2>1 DEF UpToDate, Connecting, Storing, Keyed
  <2>5. Members(r)' = Members(r)
    BY <1>0, <2>1 DEF Members, WithStatus
  <2>6. ASSUME NEW e \in Members(r), Awaits(e, d, job[d]) PROVE Awaits(e, d, j) \/ Has(e, r)'
    <3>1. e = d => rmk'[d] = minted
      BY <2>4 DEF Members, WithStatus
    <3> QED BY <1>0, <2>1, <2>2, <2>6, <3>1 DEF Awaits, Has
  <2> QED BY <1>1, <1>4, <2>1, <2>2, <2>3, <2>4, <2>5, <2>6
<1>9. CASE store_label(d)
  <2> DEFINE j == [job[d] EXCEPT !.pc = job[d].next]
  <2>1. /\ job[d].pc = "store_label" /\ config' = config /\ rmk' = rmk
        /\ label'[d] = job[d].generation
        /\ job[d].next \in Commands \cup {"show", "idle", "list"}
    BY <1>1, <1>9 DEF store_label, At, LocalOK, TypeInv, TypeOK
  <2>2. Members(r)' = Members(r)
    BY <1>0, <2>1 DEF Members, WithStatus
  <2>3. CASE job[d].next = "idle" /\ Go(d, Idle)
    <3>1. \A e \in Members(r) : ~Awaits(e, d, job[d])
      BY <2>1, <2>3 DEF Awaits
    <3> QED BY <1>1, <1>3, <1>4, <2>1, <2>2, <2>3, <3>1
  <2>4. CASE job[d].next # "idle" /\ Go(d, j)
    <3>1. /\ j.pc = job[d].next /\ j.key = job[d].key
          /\ j.generation = job[d].generation /\ j.seen = job[d].seen
      BY <1>1 DEF Job
    <3> HIDE DEF j
    <3>2. job[d].key = minted /\ (j.pc = "list" => j.generation = server[r].generation)
      BY <1>1, <2>1, <2>4, <3>1 DEF UpToDate, Keyed, Storing, Connecting, Rewrapping
    <3>3. job'[d] = j
      BY <2>4, Moves
    <3>4. UpToDate(d, r)'
      BY <1>0, <2>1, <3>1, <3>2, <3>3
         DEF UpToDate, Commands, Storing, Connecting, Rewrapping
    <3>5. \A e \in Members(r) : Awaits(e, d, job[d]) => Awaits(e, d, j)
      BY <2>1, <3>1 DEF Awaits
    <3> QED BY <1>1, <1>4, <2>1, <2>2, <2>4, <3>1, <3>4, <3>5
  <2> QED BY <1>9, <2>3, <2>4 DEF store_label, Goto
<1>10. CASE clear_config(d)
  <2>1. /\ Go(d, Idle) /\ rmk' = rmk /\ label' = label /\ job[d].pc = "forget"
        /\ config'[d] \in {config[d], NONE}
    BY <1>10 DEF clear_config, At, TypeInv, TypeOK
  <2>2. Members(r)' \subseteq Members(r)
    BY <1>0, <1>5, <2>1, KeysAssumption DEF Members, WithStatus
  <2>3. \A e \in Members(r)' : ~Awaits(e, d, job[d]) /\ e \in Members(r)
    BY <2>1, <2>2 DEF Awaits
  <2> QED BY <1>1, <1>3, <1>4, <2>1, <2>3
<1> QED BY <1>7, <1>8, <1>9, <1>10


\* The requests that write the manifest or a wrap.
LEMMA NewestWrites ==
  ASSUME OneRepo, TypeInv, KeysKnown, NEW r \in Repo, Newest(r), NEW d \in Device,
         \A e \in Device \ {d} : job[e].pc = "idle", orderly',
         approve_device(d) \/ reseal(d) \/ push_wrap(d) \/ publish(d)
  PROVE  Newest(r)'
<1>0. /\ job[d].pc # "idle" /\ UNCHANGED <<config, rmk, label, minted>>
  BY DEF approve_device, reseal, push_wrap, publish, At, files, history
<1>1. /\ job[d] \in Job /\ LocalOK(d, job[d]) /\ job[d].repo = r /\ server[r] \in Server
      /\ UpToDate(d, r)
      /\ label[d] <= server[r].generation /\ job[d].generation <= server[r].generation
  BY <1>0, Working
<1>2. job[d].key = minted /\ job[d].key \in Key /\ NONE # minted
  <2>1. job[d].pc \in Keyed /\ ~Connecting(job[d])
    BY DEF approve_device, reseal, push_wrap, publish, At, Keyed, Connecting, Storing
  <2>2. job[d].key = minted /\ job[d].key \in Key
    BY <1>1, <2>1 DEF UpToDate, LocalOK
  <2> QED BY <2>2, KeysAssumption DEF Key
<1>3. ~GiveUp(d)
  BY DEF GiveUp
<1>4. ASSUME NEW v \in Server, server' = [server EXCEPT ![r] = v],
             v.generation = server[r].generation,
             NEW j, Go(d, j), j.generation <= server[r].generation,
             UpToDate(d, r)', v.manifest \in {NONE, minted} /\ (v.manifest = NONE => minted <= 1),
             \A e \in Device :
               \/ v.wraps[e] = server[r].wraps[e]
               \/ /\ v.wraps[e] # NONE /\ v.wraps[e].key = minted
                  /\ v.wraps[e].generation <= server[r].generation,
             \A e \in Device : v.status[e] = "approved" =>
               \/ server[r].status[e] = "approved" /\ ~Awaits(e, d, job[d])
               \/ Awaits(e, d, j)
               \/ v.wraps[e] # NONE /\ v.wraps[e].key = minted
      PROVE  Newest(r)'
  <2>1. server'[r] = v
    BY <1>4 DEF TypeInv, TypeOK
  <2>2. Sealed(r)'
    BY <1>0, <1>4, <2>1 DEF Sealed
  <2>3. \A e \in Members(r)' :
          Awaits(e, d, job[d]) \/ e \notin Members(r) => Awaits(e, d, j) \/ Has(e, r)'
    BY <1>0, <1>4, <2>1 DEF Members, WithStatus, Has
  <2>4. /\ \A e \in Device \ {d} : rmk'[e] = rmk[e] /\ label'[e] = label[e]
        /\ rmk'[d] = rmk[d] /\ label'[d] <= server[r].generation
    BY <1>0, <1>1
  <2> QED BY <1>0, <1>4, <2>1, <2>2, <2>3, <2>4, NewestMoves
<1>5. CASE reseal(d) \/ publish(d)
  <2> DEFINE v == [server[r] EXCEPT !.manifest = job[d].key]
             s == [job[d] EXCEPT !.seen = NONE, !.pc = "store_key"]
             p == [job[d] EXCEPT !.pc = "save"]
  <2>1. server' = [server EXCEPT ![r] = v]
    <3>1. server' = [server EXCEPT ![r].manifest = job[d].key]
      BY <1>1, <1>5 DEF reseal, publish
    <3> QED BY <1>1, <3>1 DEF TypeInv, TypeOK, Server
  <2>2. /\ v \in Server /\ v.generation = server[r].generation /\ v.manifest = minted
        /\ v.wraps = server[r].wraps /\ v.status = server[r].status
    BY <1>1, <1>2 DEF Server, Maybe
  <2>3. /\ s.pc = "store_key" /\ s.next = job[d].next /\ s.key = job[d].key
        /\ s.generation = job[d].generation
        /\ p.pc = "save" /\ p.key = job[d].key /\ p.generation = job[d].generation
    BY <1>1 DEF Job
  <2> HIDE DEF v, s, p
  <2>4. server'[r] = v
    BY <2>1 DEF TypeInv, TypeOK
  <2>5. CASE reseal(d)
    <3>1. job[d].pc = "reseal" /\ job[d].next = "list" /\ Go(d, s)
      BY <1>1, <1>5, <2>5 DEF reseal, At, LocalOK, s
    <3>2. s.generation = server[r].generation
      BY <1>1, <2>3, <3>1 DEF UpToDate, Rewrapping
    <3>3. job'[d] = s
      BY <3>1, Moves
    <3>4. UpToDate(d, r)'
      BY <1>0, <1>2, <2>2, <2>3, <2>4, <3>1, <3>2, <3>3
         DEF UpToDate, Connecting, Rewrapping
    <3>5. \A e \in Device : Awaits(e, d, s)
      BY <2>3, <3>1 DEF Awaits
    <3> QED BY <1>1, <1>2, <1>4, <2>1, <2>2, <2>3, <3>1, <3>4, <3>5
  <2>6. CASE publish(d)
    <3>1. job[d].pc = "publish" /\ Go(d, p)
      BY <2>6 DEF publish, At, Goto, p
    <3>2. job'[d] = p
      BY <3>1, Moves
    <3>3. UpToDate(d, r)'
      BY <1>0, <1>2, <2>3, <3>2 DEF UpToDate, Connecting, Rewrapping, Storing
    <3>4. \A e \in Device : ~Awaits(e, d, job[d])
      BY <3>1 DEF Awaits
    <3> QED BY <1>1, <1>2, <1>4, <2>1, <2>2, <2>3, <3>1, <3>3, <3>4
  <2> QED BY <1>5, <2>5, <2>6
<1> DEFINE wrap == [key |-> job[d].key, generation |-> job[d].generation]
<1>6. wrap \in DeviceWrap /\ wrap.key = minted /\ wrap.generation = job[d].generation
  BY <1>1, <1>2 DEF DeviceWrap, Job
<1>7. wrap # NONE
  BY <1>6, KeysAssumption DEF DeviceWrap, Key, Generation
<1>8. job[d].pc # "reseal" => server[r].manifest \in {NONE, minted}
                              /\ (server[r].manifest = NONE => minted <= 1)
  BY DEF Newest, Sealed
<1>9. CASE approve_device(d)
  <2> DEFINE t == job[d].target
             v == [server[r] EXCEPT !.status[t] = "approved", !.wraps[t] = wrap]
  <2>1. /\ job[d].pc = "approve" /\ t \in Device /\ Go(d, Idle)
        /\ server' = [server EXCEPT ![r].status[t] = "approved", ![r].wraps[t] = wrap]
    BY <1>1, <1>3, <1>9 DEF approve_device, At, LocalOK, Targeted
  <2> HIDE DEF wrap
  <2>2. server' = [server EXCEPT ![r] = v]
    BY <1>1, <2>1 DEF TypeInv, TypeOK, Server
  <2>3. /\ v \in Server /\ v.generation = server[r].generation
        /\ v.manifest = server[r].manifest
        /\ \A e \in Device : /\ v.wraps[e] = IF e = t THEN wrap ELSE server[r].wraps[e]
                             /\ v.status[e] = IF e = t THEN "approved"
                                              ELSE server[r].status[e]
    BY <1>1, <1>6, <2>1 DEF Server, Maybe
  <2> HIDE DEF v
  <2>4. Idle.pc = "idle" /\ Idle.generation <= server[r].generation
    BY <1>1 DEF Idle, Server, Generation
  <2>5. job'[d] = Idle
    BY <2>1, Moves
  <2>6. UpToDate(d, r)'
    BY <2>4, <2>5 DEF UpToDate, Keyed, Storing, Connecting, Rewrapping
  <2>7. \A e \in Device : ~Awaits(e, d, job[d])
    BY <2>1 DEF Awaits
  <2>8. v.manifest \in {NONE, minted} /\ (v.manifest = NONE => minted <= 1)
    BY <1>8, <2>1, <2>3
  <2>9. \A e \in Device :
          \/ v.wraps[e] = server[r].wraps[e]
          \/ /\ v.wraps[e] # NONE /\ v.wraps[e].key = minted
             /\ v.wraps[e].generation <= server[r].generation
    BY <1>1, <1>6, <1>7, <2>3
  <2>10. \A e \in Device : v.status[e] = "approved" =>
           \/ server[r].status[e] = "approved" /\ ~Awaits(e, d, job[d])
           \/ Awaits(e, d, Idle)
           \/ v.wraps[e] # NONE /\ v.wraps[e].key = minted
    BY <1>6, <1>7, <2>3, <2>7
  <2>11. Go(d, Idle) /\ v \in Server /\ v.generation = server[r].generation
    BY <2>1, <2>3
  <2> QED BY <1>4, <2>2, <2>4, <2>6, <2>8, <2>9, <2>10, <2>11
<1>10. CASE push_wrap(d)
  <2>1. PICK e \in job[d].todo :
          /\ server' = [server EXCEPT ![r].wraps[e] = Latest(@, wrap)]
          /\ Go(d, [job[d] EXCEPT !.todo = @ \ {e},
                      !.pc = IF job[d].todo = {e} THEN "show" ELSE "rewrap"])
    BY <1>1, <1>10 DEF push_wrap
  <2> DEFINE j == [job[d] EXCEPT !.todo = @ \ {e},
                     !.pc = IF job[d].todo = {e} THEN "show" ELSE "rewrap"]
             v == [server[r] EXCEPT !.wraps[e] = wrap]
  <2>2. job[d].pc = "rewrap" /\ e \in Device /\ Go(d, j)
    BY <1>1, <1>10, <2>1 DEF push_wrap, At, Job
  <2>3. /\ j.todo = job[d].todo \ {e} /\ j.key = job[d].key
        /\ j.generation = job[d].generation
        /\ j.pc = IF job[d].todo = {e} THEN "show" ELSE "rewrap"
    BY <1>1 DEF Job
  <2>4. job[d].generation = server[r].generation
    BY <1>1, <2>2 DEF UpToDate, Rewrapping
  <2> HIDE DEF j, wrap
  <2>5. Latest(server[r].wraps[e], wrap) = wrap
    <3>1. server[r].wraps[e] # NONE =>
            /\ server[r].wraps[e].generation <= wrap.generation
            /\ server[r].wraps[e].generation \in Nat /\ wrap.generation \in Nat
      BY <1>1, <1>6, <2>2, <2>4
         DEF Newest, Bounded, Server, Maybe, DeviceWrap, Generation
    <3> QED BY <3>1 DEF Latest
  <2>6. server' = [server EXCEPT ![r] = v]
    BY <1>1, <2>1, <2>2, <2>5 DEF TypeInv, TypeOK, Server
  <2>7. /\ v \in Server /\ v.generation = server[r].generation
        /\ v.manifest = server[r].manifest /\ v.status = server[r].status
        /\ \A f \in Device : v.wraps[f] = IF f = e THEN wrap ELSE server[r].wraps[f]
    BY <1>1, <1>6, <2>2 DEF Server, Maybe
  <2> HIDE DEF v
  <2>8. job'[d] = j
    BY <2>2, Moves
  <2>9. server'[r] = v
    BY <2>6 DEF TypeInv, TypeOK
  <2>10. UpToDate(d, r)'
    BY <1>0, <1>2, <2>3, <2>4, <2>7, <2>8, <2>9
       DEF UpToDate, Keyed, Storing, Connecting, Rewrapping
  <2>11. \A f \in Device : Awaits(f, d, job[d]) => f = e \/ Awaits(f, d, j)
    BY <2>2, <2>3 DEF Awaits
  <2>12. v.manifest \in {NONE, minted} /\ (v.manifest = NONE => minted <= 1)
    BY <1>8, <2>2, <2>7
  <2>13. \A f \in Device :
           \/ v.wraps[f] = server[r].wraps[f]
           \/ /\ v.wraps[f] # NONE /\ v.wraps[f].key = minted
              /\ v.wraps[f].generation <= server[r].generation
    BY <1>1, <1>6, <1>7, <2>7
  <2>14. \A f \in Device : v.status[f] = "approved" =>
           \/ server[r].status[f] = "approved" /\ ~Awaits(f, d, job[d])
           \/ Awaits(f, d, j)
           \/ v.wraps[f] # NONE /\ v.wraps[f].key = minted
    BY <1>6, <1>7, <2>7, <2>11
  <2>15. j.generation <= server[r].generation
    BY <1>1, <2>3
  <2> QED BY <1>4, <2>2, <2>6, <2>7, <2>10, <2>12, <2>13, <2>14, <2>15
<1> QED BY <1>5, <1>9, <1>10


\* A revocation generates a key that nobody has yet, and goes on to seal the manifest.
LEMMA NewestRevokes ==
  ASSUME OneRepo, TypeInv, KeysKnown, NEW r \in Repo, Newest(r), NEW d \in Device,
         \A e \in Device \ {d} : job[e].pc = "idle", orderly', revoke_device(d)
  PROVE  Newest(r)'
<1>0. job[d].pc = "revoke"
  BY DEF revoke_device, At
<1>1. /\ job[d] \in Job /\ LocalOK(d, job[d]) /\ job[d].repo = r /\ server[r] \in Server
      /\ UpToDate(d, r)
      /\ label[d] <= server[r].generation /\ job[d].generation <= server[r].generation
  BY <1>0, Working
<1> DEFINE t == job[d].target
           g == server[r].generation + 1
           j == [job[d] EXCEPT !.key = minted + 1, !.generation = g,
                   !.pc = IF job[d].seen = NONE THEN "store_key" ELSE "reseal",
                   !.next = "list"]
           v == [server[r] EXCEPT !.status[t] = "revoked", !.generation = @ + 1]
<1>2. /\ server' = [server EXCEPT ![r].status[t] = "revoked", ![r].generation = @ + 1]
      /\ Go(d, j) /\ minted' = minted + 1 /\ UNCHANGED files /\ job[d].seen # NONE
  BY <1>1 DEF revoke_device, GiveUp
<1>3. server' = [server EXCEPT ![r] = v]
  BY <1>1, <1>2 DEF TypeInv, TypeOK, Server
<1>4. /\ v.generation = g /\ v.manifest = server[r].manifest /\ v.wraps = server[r].wraps
  BY <1>1 DEF Server
<1>5. j.pc = "reseal" /\ j.key = minted' /\ j.generation = g
  BY <1>1, <1>2 DEF Job
<1> HIDE DEF j, v
<1>6. server'[r] = v /\ job'[d] = j /\ \A e \in Device \ {d} : job'[e] = job[e]
  BY <1>2, <1>3, Moves DEF TypeInv, TypeOK
<1>7. v.manifest # NONE
  BY <1>0, <1>1, <1>2, <1>4 DEF UpToDate
<1>8. Sealed(r)' /\ Reached(r)'
  BY <1>5, <1>6, <1>7 DEF Sealed, Reached, Awaits, Members
<1>9. Bounded(r)'
  <2>1. server[r].generation \in Nat
    BY <1>1 DEF Server, Generation
  <2>2. ASSUME NEW e \in Device
        PROVE  /\ label[e] \in Nat /\ label[e] <= server[r].generation
               /\ job[e].generation \in Nat /\ job[e].generation <= server[r].generation
               /\ server[r].wraps[e] # NONE =>
                    /\ server[r].wraps[e].generation \in Nat
                    /\ server[r].wraps[e].generation <= server[r].generation
    <3>1. Generation \subseteq Nat
      BY DEF Generation
    <3>2. label[e] \in Generation /\ job[e].generation \in Generation
      BY DEF TypeInv, TypeOK, Job
    <3>3. server[r].wraps[e] \in Maybe(DeviceWrap)
      BY <1>1 DEF Server
    <3>4. server[r].wraps[e] # NONE => server[r].wraps[e].generation \in Generation
      BY <3>3 DEF Maybe, DeviceWrap
    <3> QED BY <3>1, <3>2, <3>4 DEF Newest, Bounded
  <2>3. label' = label
    BY <1>2 DEF files
  <2>4. ASSUME NEW e \in Device
        PROVE  /\ label'[e] <= g /\ job'[e].generation <= g
               /\ v.wraps[e] # NONE => v.wraps[e].generation <= g
    BY <1>4, <1>5, <1>6, <2>1, <2>2, <2>3
  <2> QED BY <1>4, <1>6, <2>4 DEF Bounded
<1>10. ASSUME NEW e \in Device PROVE UpToDate(e, r)'
  <2>1. CASE e = d
    BY <1>4, <1>5, <1>6, <1>7, <2>1 DEF UpToDate, Connecting, Storing, Rewrapping
  <2>2. CASE e # d
    BY <1>6, <2>2 DEF UpToDate, Keyed, Storing, Connecting, Rewrapping
  <2> QED BY <2>1, <2>2
<1> QED BY <1>8, <1>9, <1>10 DEF Newest

\* A command that begins when no other runs.
LEMMA NewestBegins ==
  ASSUME OneRepo, TypeInv, Untouched, WrapsInv, NewestInv, NEW d \in Device, orderly',
         NEW r \in Repo, server'[r].state = "live",
         \/ \E q \in Repo : init(d, q) \/ connect(d, q) \/ delete_repo(d, q)
         \/ \E s, e : start(d, s, e)
  PROVE  Newest(r)'
<1>1. orderly /\ \A e \in Device : job[e].pc = "idle"
  BY DEF init, connect, delete_repo, start, Begin, Running
<1>2. /\ server[r] \in Server /\ UNCHANGED <<config, rmk, label>>
      /\ job[d].pc = "idle" /\ Idle.generation = 1 /\ Idle.next = "idle"
  BY <1>1 DEF init, connect, delete_repo, start, Begin, files, TypeInv, TypeOK, Idle
<1>3. ASSUME server[r].state = "live", UNCHANGED minted,
             server'[r].generation = server[r].generation,
             server'[r].wraps = server[r].wraps,
             server'[r].manifest = server[r].manifest,
             \A e \in Device : server'[r].status[e] = "approved" =>
                                 server[r].status[e] = "approved",
             NEW j, Go(d, j), j.generation = 1,
             j.pc = "manifest" \/ (Connecting(j) /\ j.pc = "config" /\ server'[r].status[d] = "pending")
      PROVE  Newest(r)'
  <2>1. Newest(r)
    BY <1>1, <1>3 DEF NewestInv
  <2>2. job'[d] = j
    BY <1>3, Moves
  <2>3. UpToDate(d, r)'
    BY <1>3, <2>2 DEF UpToDate, Keyed, Storing, Connecting, Rewrapping
  <2>4. Sealed(r)'
    BY <1>1, <1>3, <2>1 DEF Newest, Sealed
  <2>5. Members(r)' \subseteq Members(r)
    BY <1>2, <1>3 DEF Members, WithStatus
  <2>6. \A e \in Device : ~Awaits(e, d, job[d])
    BY <1>2 DEF Awaits
  <2>7. label'[d] <= server[r].generation /\ j.generation <= server[r].generation
    BY <1>2, <1>3, <2>1 DEF Newest, Bounded, Server, Generation
  <2>8. /\ Go(d, j) /\ UNCHANGED minted /\ server'[r].generation = server[r].generation
        /\ \A e \in Device \ {d} : job[e].pc = "idle"
        /\ \A e \in Device \ {d} : rmk'[e] = rmk[e] /\ label'[e] = label[e]
        /\ \A e \in Device : server'[r].wraps[e] = server[r].wraps[e]
        /\ rmk'[d] = rmk[d] /\ label'[d] <= server[r].generation
    BY <1>1, <1>2, <1>3, <2>7
  <2>9. \A e \in Members(r)' : ~(Awaits(e, d, job[d]) \/ e \notin Members(r))
    BY <2>5, <2>6 DEF Members, WithStatus
  <2> QED BY <2>1, <2>3, <2>4, <2>7, <2>8, <2>9, NewestMoves
<1>4. ASSUME NEW s, NEW e, start(d, s, e) PROVE Newest(r)'
  <2> DEFINE j == [Idle EXCEPT !.repo = config[d], !.target = e, !.pc = "manifest",
                               !.next = s]
  <2>1. Go(d, j) /\ j.pc = "manifest" /\ j.generation = 1
    BY <1>4 DEF start, Begin, Idle
  <2>2. UNCHANGED <<server, minted>>
    BY <1>4 DEF start
  <2> HIDE DEF j
  <2> QED BY <1>3, <2>1, <2>2
<1>5. ASSUME NEW q \in Repo, connect(d, q) PROVE Newest(r)'
  <2>1. q = r
    BY DEF OneRepo
  <2>2. PICK k : Go(d, [Idle EXCEPT !.repo = r, !.key = k, !.pc = "config"])
    BY <1>5, <2>1 DEF connect, Begin
  <2> DEFINE j == [Idle EXCEPT !.repo = r, !.key = k, !.pc = "config"]
  <2>3. Go(d, j) /\ j.pc = "config" /\ j.next = "idle" /\ j.generation = 1
    BY <2>2 DEF Idle
  <2>4. /\ server[r].state = "live" /\ minted' = minted
        /\ server' = [server EXCEPT ![r].status[d] = "pending"]
    BY <1>5, <2>1 DEF connect
  <2>5. /\ server'[r].generation = server[r].generation
        /\ server'[r].wraps = server[r].wraps /\ server'[r].manifest = server[r].manifest
        /\ server'[r].status = [server[r].status EXCEPT ![d] = "pending"]
    BY <1>2, <2>4 DEF TypeInv, TypeOK, Server
  <2>6. \A e \in Device :
          server'[r].status[e] = IF e = d THEN "pending" ELSE server[r].status[e]
    BY <1>2, <2>5 DEF Server
  <2> HIDE DEF j
  <2> QED BY <1>3, <2>3, <2>4, <2>5, <2>6 DEF Connecting, Storing
<1>6. ASSUME NEW q \in Repo, delete_repo(d, q) PROVE Newest(r)'
  <2>1. q = r
    BY DEF OneRepo
  <2>2. server'[r].state = "deleted"
    BY <1>6, <2>1 DEF delete_repo, TypeInv, TypeOK, NoRepo
  <2> QED BY <2>2
<1>7. ASSUME NEW q \in Repo, init(d, q) PROVE Newest(r)'
  <2> DEFINE j == [Idle EXCEPT !.repo = r, !.key = minted + 1, !.pc = "config",
                               !.next = "show"]
  <2>1. q = r
    BY DEF OneRepo
  <2>2. /\ server[r].state = "none" /\ Go(d, j) /\ minted' = minted + 1
        /\ server' = [server EXCEPT ![r].state = "live", ![r].status[d] = "approved"]
    BY <1>7, <2>1 DEF init, Begin
  <2>3. /\ server[r] = NoRepo /\ minted = 0
        /\ \A e \in Device : label[e] = 1 /\ config[e] = NONE
    BY <2>2 DEF Untouched, WrapsInv, OutcastsOut
  <2>4. /\ j.pc = "config" /\ j.next = "show" /\ j.key = minted' /\ j.generation = 1
    BY <2>2 DEF Idle
  <2> HIDE DEF j
  <2>5. job'[d] = j /\ \A e \in Device \ {d} : job'[e] = job[e]
    BY <2>2, Moves
  <2>6. /\ server'[r].generation = 1 /\ server'[r].manifest = NONE
        /\ \A e \in Device : server'[r].wraps[e] = NONE
    BY <1>2, <2>2, <2>3 DEF NoRepo, TypeInv, TypeOK, Server
  <2>7. \A e \in Device \ {d} : job[e] = Idle
    BY <2>2 DEF Untouched
  <2>8. Sealed(r)' /\ Bounded(r)'
    <3>1. Sealed(r)'
      BY <2>2, <2>3, <2>6 DEF Sealed
    <3>2. \A e \in Device : label'[e] = 1 /\ job'[e].generation = 1
      BY <1>2, <2>3, <2>4, <2>5, <2>7
    <3> QED BY <2>6, <3>1, <3>2 DEF Bounded
  <2>9. ASSUME NEW e \in Device PROVE UpToDate(e, r)'
    <3>1. CASE e = d
      BY <2>4, <2>5, <3>1 DEF UpToDate, Connecting, Storing, Rewrapping
    <3>2. CASE e # d
      BY <1>1, <2>5, <3>2 DEF UpToDate, Keyed, Storing, Connecting, Rewrapping
    <3> QED BY <3>1, <3>2
  <2>10. Members(r)' = {}
    BY <1>2, <2>3, KeysAssumption DEF Members, WithStatus
  <2> QED BY <2>8, <2>9, <2>10 DEF Newest, Reached
<1> QED BY <1>4, <1>5, <1>6, <1>7

LEMMA NewestNext ==
  ASSUME OneRepo, TypeInv, KeysKnown, WrapsInv, OneByOne, Untouched, NewestInv, [Next]_vars
  PROVE  NewestInv'
<1>1. CASE UNCHANGED vars
  BY <1>1 DEF vars, files, history, NewestInv, Newest, Sealed, Bounded, UpToDate, Reached,
              Members, WithStatus, Has
<1> SUFFICES ASSUME orderly', NEW r \in Repo, server'[r].state = "live", ~UNCHANGED vars
             PROVE  Newest(r)'
  BY <1>1 DEF NewestInv
<1>2. ASSUME NEW d \in Device, step(d) \/ fail(d) PROVE Newest(r)'
  <2>1. orderly /\ \A e \in Device \ {d} : job[e].pc = "idle"
    BY <1>2, OrderlyStep
  <2>2. Newest(r)
    <3>1. server[r].state = "live"
      BY <1>2, StateStays
    <3> QED BY <2>1, <3>1 DEF NewestInv
  <2>3. CASE refused(d) \/ fail(d)
    BY <2>3 DEF refused, fail, GiveUp
  <2>4. CASE \/ current_rmk(d) \/ rmk_from_own_wrap(d) \/ list_pending(d) \/ reopen(d)
             \/ list_devices(d) \/ fetch_table(d) \/ print_recovery_phrase(d) \/ save(d)
    BY <2>1, <2>2, <2>4, NewestReads
  <2>5. CASE save_config(d) \/ store_key(d) \/ store_label(d) \/ clear_config(d)
    BY <2>1, <2>2, <2>5, NewestFiles
  <2>6. CASE approve_device(d) \/ reseal(d) \/ push_wrap(d) \/ publish(d)
    BY <2>1, <2>2, <2>6, NewestWrites
  <2>7. CASE revoke_device(d)
    BY <2>1, <2>2, <2>7, NewestRevokes
  <2> QED BY <1>2, <2>3, <2>4, <2>5, <2>6, <2>7 DEF step
<1> QED BY <1>2, NewestBegins DEF Next

\* With one repository, and as long as commands run one by one to their ends and a key
\* is only replaced when there is a manifest, every member gets the key of the manifest:
\* from its own copy or from the wrap the server keeps for it.
THEOREM MembersGetTheKey == OneRepo => (Spec => []EverybodyOpens)
<1> SUFFICES ASSUME OneRepo PROVE Spec => []EverybodyOpens
  OBVIOUS
<1>1. Init => Untouched /\ NewestInv
  <2>1. NoRepo.state = "none"
    BY DEF NoRepo
  <2> QED BY <2>1 DEF Init, Untouched, NewestInv
<1>2. IInv /\ Untouched /\ NewestInv /\ [Next]_vars => Untouched' /\ NewestInv'
  BY UntouchedNext, NewestNext DEF IInv
<1>3. IInv /\ NewestInv => EverybodyOpens
  BY NewestOpens DEF IInv
<1> QED BY <1>1, <1>2, <1>3, Invariant, PTL DEF Spec
===============================================================================
