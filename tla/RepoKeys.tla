------------------------------ MODULE RepoKeys -------------------------------
(***************************************************************************)
(* How devices join a repository in the cloud, leave it, and agree on its  *)
(* key (tuskd/src/sync_cloud.rs, over the device calls of                  *)
(* tusk-sync/src/cloud.rs and the wraps of tusk-sync/src/wrap.rs).         *)
(*                                                                         *)
(* The contents of a repository are a manifest sealed under the repository *)
(* key, and the server holds, for each approved device, that key wrapped   *)
(* for it alone.  A device keeps a copy of the key and of its generation,  *)
(* in two files, and trusts the copy as long as it opens the manifest.     *)
(* Revoking a device replaces the key: the manifest is sealed again and    *)
(* the new key wrapped for everyone who is left, one request at a time.    *)
(*                                                                         *)
(* Each device runs one command, or one cycle of its worker, at a time;    *)
(* each step is one request or one file, so that the commands of several   *)
(* devices interleave, and any of them may stop after any step.  A key is  *)
(* a number, in the order in which keys are generated.                     *)
(***************************************************************************)
EXTENDS Naturals, FiniteSets

CONSTANTS
  Device,         \* the vaults, each with the one device key it enrolls with
  Repo,           \* the repositories that may be created
  NONE,           \* no key, no repository, no manifest, no wrap, no state
  MaxKeys,        \* how many repository keys are generated
  MaxFaults,      \* how many commands stop halfway
  MaxRunning      \* how many commands run at the same time

ASSUME KeysAssumption ==
  /\ {MaxKeys, MaxFaults, MaxRunning} \subseteq Nat
  /\ NONE \notin Nat \cup Repo /\ NONE \notin [key : Nat, generation : Nat]

VARIABLES
  server,         \* what the server knows of each repository
  config,         \* cloud.json: the repository a device is connected to
  rmk,            \* rmk.otsk: the device's copy of the repository key
  label,          \* rmk.gen: the generation the device takes it to be
  synced,         \* the devices that have a state.json, from a complete cycle
  job,            \* the command that each device is running
  minted,         \* how many keys have been generated
  outcast,        \* outcast[r][k]: who had been revoked from repository r when
                  \* key k was generated for it
  phrases,        \* the keys whose recovery phrase was shown, by repository
  faults,         \* how many commands have stopped halfway
  spoiled,        \* whether a revocation stopped before it stored its key, or met
                  \* another manifest than the one it had opened, or a device
                  \* went from the repository it was connected to to another
  orderly         \* whether commands have run one by one and to their ends, and
                  \* no key was replaced before there was a manifest

files == <<config, rmk, label, synced>>
history == <<outcast, phrases, faults, spoiled, orderly>>
vars == <<server, files, job, minted, history>>

-----------------------------------------------------------------------------
(* Types.                                                                  *)

Key == 1 .. MaxKeys
Maybe(S) == S \cup {NONE}
Generation == 1 .. MaxKeys + 1

\* The key wrapped for a device, under the generation its sender gave it.
DeviceWrap == [key : Key, generation : Generation]

Server ==
  [state : {"none", "live", "deleted"},
   generation : Generation,
   manifest : Maybe(Key),
   status : [Device -> {"unknown", "pending", "approved", "revoked"}],
   wraps : [Device -> Maybe(DeviceWrap)]]

\* The steps that are signed requests, and the others.
Requests == {"manifest", "wrap", "list_pending", "approve", "reopen", "revoke",
             "reseal", "list", "rewrap", "table", "publish"}
Steps == Requests \cup {"idle", "config", "store_key", "store_label", "show", "save",
                       "forget"}

Job == [pc : Steps, next : Steps, repo : Maybe(Repo), target : Maybe(Device),
        key : Maybe(Key), generation : Generation, seen : Maybe(Key),
        todo : SUBSET Device]

TypeOK ==
  /\ server \in [Repo -> Server]
  /\ config \in [Device -> Maybe(Repo)]
  /\ rmk \in [Device -> Maybe(Key)]
  /\ label \in [Device -> Generation]
  /\ synced \subseteq Device
  /\ job \in [Device -> Job]
  /\ minted \in 0 .. MaxKeys
  /\ outcast \in [Repo -> [Key -> SUBSET Device]]
  /\ phrases \in [Repo -> SUBSET Key]
  /\ faults \in 0 .. MaxFaults
  /\ {spoiled, orderly} \subseteq BOOLEAN

-----------------------------------------------------------------------------
(* Helpers.                                                                *)

NoRepo == [state |-> "none", generation |-> 1, manifest |-> NONE,
           status |-> [d \in Device |-> "unknown"],
           wraps |-> [d \in Device |-> NONE]]

Idle_Zero == [pc |-> "idle", next |-> "idle", repo |-> NONE, target |-> NONE,
              key |-> NONE, generation |-> 0, seen |-> NONE, todo |-> {}]
Idle == [pc |-> "idle", next |-> "idle", repo |-> NONE, target |-> NONE,
         key |-> NONE, generation |-> 1, seen |-> NONE, todo |-> {}]

\* The server answers the signed requests of approved devices only.
Admitted(d, r) == server[r].state = "live" /\ server[r].status[d] = "approved"

\* Key k opens the manifest that was fetched, or there was none to open.
Fits_Any(sealed, k) == TRUE
Fits(sealed, k) == sealed \in {NONE, k}

\* Device d is at a step, and the server, where it is asked, answers.
At(d, pc) ==
  /\ job[d].pc = pc
  /\ pc \in Requests => Admitted(d, job[d].repo)

\* Device d goes on as j says.
Go(d, j) == job' = [job EXCEPT ![d] = j]
Goto(d, pc) == Go(d, [job[d] EXCEPT !.pc = pc])

\* The command of device d ends with an error.
GiveUp(d) ==
  /\ Go(d, Idle)
  /\ spoiled' = (spoiled \/ (job[d].pc = "store_key" /\ job[d].next = "list"))
  /\ orderly' = FALSE
Proceed == UNCHANGED <<spoiled, orderly>>

Running == {d \in Device : job[d].pc # "idle"}

\* A command of device d begins.
Begin(d, j) ==
  /\ job[d].pc = "idle"
  /\ Cardinality(Running) < MaxRunning
  /\ Go(d, j)
  /\ orderly' = (orderly /\ Running = {})
  /\ UNCHANGED <<files, outcast, phrases, faults>>

\* Nothing keeps a connected device from joining another repository.
Joins(d) == spoiled' = (spoiled \/ config[d] # NONE)

\* The server gives out the wrap of the latest generation.
Latest(old, wrap) ==
  IF old # NONE /\ old.generation > wrap.generation THEN old ELSE wrap

\* The devices that a list of the repository shows with a status.
WithStatus(r, status) == {d \in Device : server[r].status[d] = status}

-----------------------------------------------------------------------------
(* Joining.                                                                *)

\* init: create_repo makes this device its first and approved one.
init(d, r) ==
  /\ server[r].state = "none" /\ minted < MaxKeys
  /\ Begin(d, [Idle EXCEPT !.repo = r, !.key = minted + 1, !.pc = "config",
                           !.next = "show"])
  /\ Joins(d)
  /\ minted' = minted + 1
  /\ server' = [server EXCEPT ![r].state = "live", ![r].status[d] = "approved"]

\* connect: enroll_device, with or without a recovery phrase.
connect(d, r) ==
  /\ server[r].state = "live" /\ server[r].status[d] = "unknown"
  /\ \E k \in Maybe(phrases[r]) :
       Begin(d, [Idle EXCEPT !.repo = r, !.key = k, !.pc = "config"])
  /\ Joins(d)
  /\ server' = [server EXCEPT ![r].status[d] = "pending"]
  /\ UNCHANGED minted

save_config(d) ==
  /\ At(d, "config")
  /\ config' = [config EXCEPT ![d] = job[d].repo]
  /\ IF job[d].key = NONE THEN Go(d, Idle) ELSE Goto(d, "store_key")
  /\ UNCHANGED <<server, rmk, label, synced, minted, history>>

\* store_rmk: the key, and then its generation.
store_key_IfAbsent(d) ==
  /\ At(d, "store_key")
  /\ rmk' = IF rmk[d] = NONE THEN [rmk EXCEPT ![d] = job[d].key] ELSE rmk
  /\ Goto(d, "store_label")
  /\ UNCHANGED <<server, config, label, synced, minted, history>>
store_key(d) ==
  /\ At(d, "store_key")
  /\ rmk' = [rmk EXCEPT ![d] = job[d].key]
  /\ Goto(d, "store_label")
  /\ UNCHANGED <<server, config, label, synced, minted, history>>

store_label(d) ==
  /\ At(d, "store_label")
  /\ label' = [label EXCEPT ![d] = job[d].generation]
  /\ IF job[d].next = "idle" THEN Go(d, Idle) ELSE Goto(d, job[d].next)
  /\ UNCHANGED <<server, config, rmk, synced, minted, history>>

\* The last step of init and revoke: the phrase is shown, once.
print_recovery_phrase(d) ==
  /\ At(d, "show")
  /\ phrases' = [phrases EXCEPT ![job[d].repo] = @ \cup {job[d].key}]
  /\ Go(d, Idle)
  /\ UNCHANGED <<server, files, minted, outcast, faults, spoiled, orderly>>

-----------------------------------------------------------------------------
(* The current key.                                                        *)

\* A cycle, an approval or a revocation begins with the current key.
start(d, step, target) ==
  /\ config[d] # NONE
  /\ Begin(d, [Idle EXCEPT !.repo = config[d], !.target = target, !.pc = "manifest",
                           !.next = step])
  /\ UNCHANGED <<server, minted, spoiled>>

\* current_rmk: the device's copy is good if it opens the manifest.
current_rmk(d) ==
  LET sealed == server[job[d].repo].manifest IN
  /\ At(d, "manifest")
  /\ Go(d, IF rmk[d] # NONE /\ Fits(sealed, rmk[d])
           THEN [job[d] EXCEPT !.key = rmk[d], !.generation = label[d],
                               !.pc = job[d].next]
           ELSE [job[d] EXCEPT !.seen = sealed, !.pc = "wrap"])
  /\ UNCHANGED <<server, files, minted, history>>

\* rmk_from_own_wrap: else the one wrapped for it has to open that manifest.
rmk_from_own_wrap(d) ==
  LET wrap == server[job[d].repo].wraps[d] IN
  /\ At(d, "wrap")
  /\ IF wrap # NONE /\ Fits(job[d].seen, wrap.key)
     THEN /\ Go(d, [job[d] EXCEPT !.key = wrap.key, !.generation = wrap.generation,
                                  !.seen = NONE, !.pc = "store_key"])
          /\ Proceed
     ELSE GiveUp(d)
  /\ UNCHANGED <<server, files, minted, outcast, phrases, faults>>

-----------------------------------------------------------------------------
(* Approval.                                                               *)

\* approve: the list of devices has to show the target as pending.
list_pending(d) ==
  LET j == job[d] IN
  /\ At(d, "list_pending")
  /\ IF server[j.repo].status[j.target] = "pending"
     THEN Goto(d, "approve") /\ Proceed
     ELSE GiveUp(d)
  /\ UNCHANGED <<server, files, minted, outcast, phrases, faults>>

\* approve_device: the wrap goes along.  Whether the server takes one of an
\* older generation cannot be told from this side.
approve_device(d) ==
  LET j == job[d]  wrap == [key |-> j.key, generation |-> j.generation] IN
  /\ At(d, "approve")
  /\ \/ /\ server[j.repo].status[j.target] = "pending"
        /\ server' = [server EXCEPT ![j.repo].status[j.target] = "approved",
                                    ![j.repo].wraps[j.target] = wrap]
        /\ Go(d, Idle) /\ Proceed
     \/ /\ \/ server[j.repo].status[j.target] # "pending"
           \/ server[j.repo].generation # j.generation
        /\ GiveUp(d) /\ UNCHANGED server
  /\ UNCHANGED <<files, minted, outcast, phrases, faults>>

-----------------------------------------------------------------------------
(* Revocation.                                                             *)

\* revoke opens the manifest again, before anything is changed.
reopen(d) ==
  LET sealed == server[job[d].repo].manifest IN
  /\ At(d, "reopen")
  /\ IF Fits(sealed, job[d].key)
     THEN Go(d, [job[d] EXCEPT !.seen = sealed, !.pc = "revoke"]) /\ Proceed
     ELSE GiveUp(d)
  /\ UNCHANGED <<server, files, minted, outcast, phrases, faults>>

\* revoke_device: the server counts a generation, and the device makes its key.
revoke_device(d) ==
  LET j == job[d]  r == j.repo  k == minted + 1 IN
  /\ At(d, "revoke") /\ minted < MaxKeys
  /\ IF server[r].status[j.target] \in {"pending", "approved"}
     THEN /\ server' = [server EXCEPT ![r].status[j.target] = "revoked",
                                      ![r].generation = @ + 1]
          /\ Go(d, [j EXCEPT !.key = k, !.generation = server[r].generation + 1,
                      !.pc = IF j.seen = NONE THEN "store_key" ELSE "reseal",
                      !.next = "list"])
          /\ minted' = k
          /\ outcast' = [outcast EXCEPT ![r][k] =
                            WithStatus(r, "revoked") \cup {j.target}]
          /\ orderly' = (orderly /\ j.seen # NONE)
          /\ spoiled' = (spoiled \/ server[r].manifest # j.seen)
     ELSE GiveUp(d) /\ UNCHANGED <<server, minted, outcast>>
  /\ UNCHANGED <<files, phrases, faults>>

\* The table that was opened is sealed under the new key, and announced.
reseal(d) ==
  /\ At(d, "reseal")
  /\ server' = [server EXCEPT ![job[d].repo].manifest = job[d].key]
  /\ Go(d, [job[d] EXCEPT !.seen = NONE, !.pc = "store_key"])
  /\ spoiled' = (spoiled \/ server[job[d].repo].manifest # job[d].seen)
  /\ UNCHANGED <<files, minted, outcast, phrases, faults, orderly>>

\* Once the key is stored, it is wrapped for each other approved device.
Survivors_All(d) == Device \ {d}
Survivors_Pending(d) == WithStatus(job[d].repo, "pending") \ {d}
Survivors(d) == WithStatus(job[d].repo, "approved") \ {d}

list_devices(d) ==
  /\ At(d, "list")
  /\ Go(d, [job[d] EXCEPT !.todo = Survivors(d),
                           !.pc = IF Survivors(d) = {} THEN "show" ELSE "rewrap"])
  /\ UNCHANGED <<server, files, minted, history>>

push_wrap(d) ==
  LET j == job[d]  wrap == [key |-> j.key, generation |-> j.generation] IN
  /\ At(d, "rewrap")
  /\ \E e \in j.todo :
       /\ server' = [server EXCEPT ![j.repo].wraps[e] = Latest(@, wrap)]
       /\ Go(d, [j EXCEPT !.todo = @ \ {e},
                          !.pc = IF j.todo = {e} THEN "show" ELSE "rewrap"])
  /\ UNCHANGED <<files, minted, history>>

-----------------------------------------------------------------------------
(* A cycle of the worker, as far as it reads and writes the manifest: all  *)
(* of a vault is new to it when there is no state, CloudSync has the rest. *)

Changed(d, sealed) == IF d \notin synced /\ sealed = NONE THEN {TRUE} ELSE BOOLEAN

fetch_table(d) ==
  LET sealed == server[job[d].repo].manifest IN
  /\ At(d, "table")
  /\ IF ~Fits(sealed, job[d].key)
     THEN GiveUp(d)
     ELSE /\ \E changed \in Changed(d, sealed) :
               Goto(d, IF changed THEN "publish" ELSE "save")
          /\ Proceed
  /\ UNCHANGED <<server, files, minted, outcast, phrases, faults>>

publish(d) ==
  /\ At(d, "publish")
  /\ server' = [server EXCEPT ![job[d].repo].manifest = job[d].key]
  /\ Goto(d, "save")
  /\ UNCHANGED <<files, minted, history>>

save(d) ==
  /\ At(d, "save")
  /\ synced' = synced \cup {d}
  /\ Go(d, Idle)
  /\ UNCHANGED <<server, config, rmk, label, minted, history>>

-----------------------------------------------------------------------------
(* Deletion, refusals and faults.                                          *)

\* delete_repo: every device loses the cloud's copy.  If the vault was connected
\* to the repository, it is no longer; its other files stay.
delete_repo(d, r) ==
  /\ server[r].state = "live"
  /\ Begin(d, [Idle EXCEPT !.repo = r, !.pc = "forget"])
  /\ server' = [server EXCEPT ![r] = [NoRepo EXCEPT !.state = "deleted"]]
  /\ UNCHANGED <<minted, spoiled>>

clear_config(d) ==
  /\ At(d, "forget")
  /\ config' = [config EXCEPT ![d] = IF @ = job[d].repo THEN NONE ELSE @]
  /\ Go(d, Idle)
  /\ UNCHANGED <<server, rmk, label, synced, minted, history>>

refused(d) ==
  /\ job[d].pc \in Requests /\ ~Admitted(d, job[d].repo)
  /\ GiveUp(d)
  /\ UNCHANGED <<server, files, minted, outcast, phrases, faults>>

fail(d) ==
  /\ job[d].pc # "idle"
  /\ faults < MaxFaults
  /\ faults' = faults + 1
  /\ GiveUp(d)
  /\ UNCHANGED <<server, files, minted, outcast, phrases>>

-----------------------------------------------------------------------------
(* The specification.                                                      *)

Init ==
  /\ server = [r \in Repo |-> NoRepo]
  /\ config = [d \in Device |-> NONE]
  /\ rmk = [d \in Device |-> NONE]
  /\ label = [d \in Device |-> 1]
  /\ synced = {}
  /\ job = [d \in Device |-> Idle]
  /\ minted = 0
  /\ outcast = [r \in Repo |-> [k \in Key |-> {}]]
  /\ phrases = [r \in Repo |-> {}]
  /\ faults = 0
  /\ spoiled = FALSE
  /\ orderly = TRUE

step(d) ==
  \/ save_config(d)
  \/ store_key(d)
  \/ store_label(d)
  \/ print_recovery_phrase(d)
  \/ current_rmk(d)
  \/ rmk_from_own_wrap(d)
  \/ list_pending(d)
  \/ approve_device(d)
  \/ reopen(d)
  \/ revoke_device(d)
  \/ reseal(d)
  \/ list_devices(d)
  \/ push_wrap(d)
  \/ fetch_table(d)
  \/ publish(d)
  \/ save(d)
  \/ clear_config(d)
  \/ refused(d)

Next ==
  \E d \in Device :
    \/ step(d)
    \/ fail(d)
    \/ \E r \in Repo : init(d, r) \/ connect(d, r) \/ delete_repo(d, r)
    \/ start(d, "table", NONE)
    \/ \E e \in Device \ {d} : start(d, "list_pending", e) \/ start(d, "reopen", e)

Spec == Init /\ [][Next]_vars

-----------------------------------------------------------------------------
(* Properties.                                                             *)

Quiet == \A d \in Device : job[d].pc = "idle"
Members(r) == {d \in WithStatus(r, "approved") : config[d] = r}

\* A key of a repository is never wrapped for a device that was revoked from it
\* before the key was generated, whoever else is being approved or revoked.
WrapsForMembers ==
  \A r \in Repo, d \in Device :
    LET wrap == server[r].wraps[d] IN wrap # NONE => d \notin outcast[r][wrap.key]

\* Somebody has the key of every manifest: a device that may ask for it, the wrap
\* of one, a running command, or whoever wrote down a phrase.
SomebodyOpens ==
  \A r \in Repo :
    LET k == server[r].manifest IN
    server[r].state = "live" /\ k # NONE =>
      \/ k \in phrases[r]
      \/ \E d \in WithStatus(r, "approved") :
           \/ config[d] = r /\ rmk[d] = k
           \/ server[r].wraps[d] # NONE /\ server[r].wraps[d].key = k
           \/ job[d].repo = r /\ job[d].key = k

\* So it is, whatever runs at the same time and wherever it stops, unless a
\* revocation stops between sealing the manifest and storing the key, or puts its
\* manifest in the place of one that it has not opened, or a device with the only
\* copy leaves for another repository.
KeyNeverLost == ~spoiled => SomebodyOpens

\* As long as commands ran one by one to their ends, and a key was replaced only
\* when there was a manifest, every approved device gets the key of the manifest.
EverybodyOpens ==
  orderly /\ Quiet =>
    \A r \in Repo : \A d \in Members(r) :
      LET k == server[r].manifest  wrap == server[r].wraps[d] IN
      k = NONE \/ rmk[d] = k \/ (wrap # NONE /\ wrap.key = k)

\* And no device puts an older key's manifest in the place of a newer one's.
NeverClobbered ==
  [][orderly' => \A r \in Repo :
       server[r].manifest # NONE /\ server'[r].state = "live" =>
         server'[r].manifest >= server[r].manifest]_server

\* A cycle that ends well leaves a manifest in the repository it is connected to.
EndsBackedUp ==
  \A d \in Device : job[d].pc = "save" => server[job[d].repo].manifest # NONE

=============================================================================
