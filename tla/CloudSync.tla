------------------------------ MODULE CloudSync ------------------------------
(***************************************************************************)
(* Devices that keep one vault in step through a repository in the cloud   *)
(* (tuskd/src/sync_worker.rs, sync_state.rs, over the client of            *)
(* tusk-sync/src/cloud.rs and the key table of tusk-sync/src/crypto.rs).   *)
(*                                                                         *)
(* The repository has a slot for each encrypted file (blobs), one manifest *)
(* that names the slot and the data key of each path, sealed under the     *)
(* repository key, and a log of signed operations.  Each device has its    *)
(* files, the key it last used and the state it saved after its last       *)
(* cycle.  A worker is a process that runs cycles, or the manual push and  *)
(* pull, on one device: each of its steps is one request to the server or  *)
(* one access to a local file, so that workers, and the people who edit    *)
(* the files, interleave between any two of them, and an error or a death  *)
(* may end a cycle at any point.                                           *)
(*                                                                         *)
(* A file's contents are a version, numbered in the order of the edits;    *)
(* its hash is the version itself.  A slot's name is derived from the      *)
(* repository key and the path, and a key is named by its generation.      *)
(***************************************************************************)
EXTENDS Naturals, Sequences, FiniteSets

CONSTANTS
  Device,         \* the devices connected to the repository
  Worker,         \* the processes that sync
  Home,           \* [Worker -> Device], whose vault a worker syncs
  Verbs,          \* what workers do: "cycle", "push", "pull"
  Path,           \* the paths of files
  Dek,            \* the data keys that may be minted
  NONE,           \* no file, no slot, no state, no manifest
  Overlap,        \* whether two workers may be in a cycle at the same time
  MaxEdits,       \* how often people write or remove a file
  MaxFaults,      \* how often a cycle is cut short by an error or a death
  MaxRotations,   \* how often the repository key is rotated
  MaxOps          \* no worker starts when the log is this long

ASSUME CloudAssumption ==
  /\ Home \in [Worker -> Device]
  /\ Verbs \subseteq {"cycle", "push", "pull"}
  /\ {MaxEdits, MaxFaults, MaxRotations, MaxOps} \subseteq Nat
  /\ Overlap \in BOOLEAN
  /\ Dek \subseteq Nat
  /\ NONE \notin Nat \cup [dek : Nat, version : Nat]

VARIABLES
  disk,           \* the version of each path on each device
  saved,          \* .tusk/sync/state.json of each device
  key,            \* .tusk/sync/rmk.otsk of each device
  blobs,          \* the slots of the repository
  manifest,       \* the sealed key table of the repository
  log,            \* the operations of the repository
  generation,     \* the repository key that is wrapped for every device
  job,            \* what each worker is doing
  parents,        \* parents[v]: the versions that v was written over
  sent,           \* the versions that have been in a slot
  had,            \* the versions of each path that each device has had
  faults,         \* how many cycles were cut short from outside
  cut,            \* whether some cycle has ended without saving its state
  torn            \* whether one has ended between an upload and saving its state

cloud == <<blobs, manifest, log, generation>>
device == <<disk, saved, key>>
history == <<parents, sent, had, faults, cut, torn>>
vars == <<cloud, device, job, history>>

-----------------------------------------------------------------------------
(* Types.                                                                  *)

Version == 1 .. MaxEdits
Maybe(S) == S \cup {NONE}
Key == 1 .. MaxRotations + 1
Name == [key : Key, path : Path]
Blob == [dek : Dek, version : Version]

\* Which slot holds a path, and under which data key.
Entry == [blob : Name, dek : Dek]
KeyTable == [Path -> Maybe(Entry)]

\* A file as of the last time this device agreed with the cloud about it.
FileState == [hash : Version, blob : Name]
SyncState ==
  [cursor : Nat, generation : Key, files : [Path -> Maybe(FileState)]]

OpPayload ==
  [by : Device, put : SUBSET Name, del : SUBSET Name, manifest : BOOLEAN]

\* The contents a write will give a path, and what the comparison before it saw.
Write == [path : Path, version : Maybe(Version), seen : Maybe(Version)]

ASSUME NoneAssumption ==
  NONE \notin Entry \cup FileState \cup SyncState \cup [key : Key, table : KeyTable]

Steps == {"idle", "latest", "adopt_fetch", "adopt", "adopt_write", "adopt_save",
          "ops", "pull_fetch", "pull", "drop", "pull_write", "settle", "scan",
          "push_fetch", "put", "rekey", "rekey_put", "rekey_delete",
          "publish", "announce", "save"}

Job == [pc : Steps, verb : {"cycle", "push", "pull"}, key : Key, state : SyncState,
        table : Maybe(KeyTable), puts : SUBSET Name, dels : SUBSET Name,
        flag : BOOLEAN, todo : SUBSET Path, left : SUBSET Name,
        gone : SUBSET Path, found : [Path -> Maybe(Version)],
        got : Maybe(Write)]

TypeOK ==
  /\ disk \in [Device -> [Path -> Maybe(Version)]]
  /\ saved \in [Device -> Maybe(SyncState)]
  /\ key \in [Device -> Key]
  /\ blobs \in [Name -> Maybe(Blob)]
  /\ manifest \in Maybe([key : Key, table : KeyTable])
  /\ log \in Seq(OpPayload)
  /\ generation \in Key
  /\ job \in [Worker -> Job]
  /\ parents \in Seq(SUBSET Version)
  /\ sent \subseteq Version
  /\ had \in [Device -> [Path -> SUBSET Version]]
  /\ faults \in 0 .. MaxFaults
  /\ {cut, torn} \subseteq BOOLEAN

-----------------------------------------------------------------------------
(* Helpers.                                                                *)

NoFiles == [p \in Path |-> NONE]
EmptyTable == [p \in Path |-> NONE]

NewState_Unset(k) == [cursor |-> 0, generation |-> 0, files |-> NoFiles]
NewState(k) == [cursor |-> 0, generation |-> k, files |-> NoFiles]

Idle == [pc |-> "idle", verb |-> "cycle", key |-> 1, state |-> NewState(1),
         table |-> NONE, puts |-> {}, dels |-> {}, flag |-> FALSE, todo |-> {},
         left |-> {}, gone |-> {}, found |-> NoFiles, got |-> NONE]

\* The slot of a path under a repository key.
blob_name(k, p) == [key |-> k, path |-> p]

\* The paths a function says something of.
Known(f) == {p \in Path : f[p] # NONE}

\* The data keys that nothing is encrypted under yet.  Dek bounds the model: a
\* key is minted only while one is left.
UnusedDeks ==
  LET tables == {job[w].table : w \in Worker} \cup
                {IF manifest = NONE THEN NONE ELSE manifest.table}
      used == (UNION {{t[p].dek : p \in Known(t)} : t \in tables \ {NONE}}) \cup
              {blobs[n].dek : n \in {m \in Name : blobs[m] # NONE}}
  IN  Dek \ used

FreshDek == CHOOSE dek \in UnusedDeks : TRUE

\* The entry of a path, minted if the table has none.
TableEntry_Fresh(table, k, p) == [blob |-> blob_name(k, p), dek |-> FreshDek]
TableEntry(table, k, p) ==
  IF table[p] # NONE THEN table[p] ELSE [blob |-> blob_name(k, p), dek |-> FreshDek]

\* Whether the slot that an entry names holds something its data key opens.
Opens(entry) == blobs[entry.blob] # NONE /\ blobs[entry.blob].dek = entry.dek

\* The path that a table gives a slot to, as a set of at most one.
PathOf(table, n) == {p \in Known(table) : table[p].blob = n}

\* The repository key a session of device d works with: its own if that opens
\* the manifest, else the one wrapped for it, if that does.
SessionKeys(d) ==
  IF manifest = NONE \/ manifest.key = key[d] THEN {key[d]}
  ELSE {generation} \cap {manifest.key}

\* The effects of the operations of other devices past the cursor: of a slot
\* that is put and deleted, the last counts, and within an operation the delete.
Foreign_OffByOne(d, cursor) == {i \in cursor + 2 .. Len(log) : log[i].by # d}
Foreign(d, cursor) == {i \in cursor + 1 .. Len(log) : log[i].by # d}
NetDels_AnyOrder(ops) == UNION {log[i].del : i \in ops}
NetDels(ops) ==
  {n \in UNION {log[i].del : i \in ops} :
     \E i \in ops : n \in log[i].del /\ \A j \in ops : n \in log[j].put => j <= i}
NetPuts(ops) == (UNION {log[i].put : i \in ops}) \ NetDels(ops)

\* The local copy of a path is as this device last agreed on with the cloud.
Clean_IfKnown(j, local, p) == local = NONE \/ j.state.files[p] # NONE
Clean(j, local, p) ==
  local = NONE \/ (j.state.files[p] # NONE /\ local = j.state.files[p].hash)

\* A pull records that version v of a path, held by slot n, is agreed on.
Agreed_NotKept(j, p, v, n) == j
Agreed(j, p, v, n) == [j EXCEPT !.state.files[p] = [hash |-> v, blob |-> n]]

\* The files that are gone here since the last agreement.
Deleted_ByTable(d, j) ==
  IF manifest = NONE THEN {} ELSE {p \in Known(manifest.table) : disk[d][p] = NONE}
Deleted(d, j) == {p \in Known(j.state.files) : disk[d][p] = NONE}

\* Worker w goes on as r says.
Go(w, r) == job' = [job EXCEPT ![w] = r]

\* A push that has changed a slot and not saved its state.
Uploading(j) ==
  /\ j.pc \in {"put", "rekey", "rekey_put", "rekey_delete",
              "publish", "announce", "save"}
  /\ j.puts \cup j.dels # {}

\* The cycle of worker w ends with an error; nothing of its state is saved.
GiveUp(w) ==
  /\ Go(w, Idle)
  /\ cut' = TRUE
  /\ torn' = (torn \/ Uploading(job[w]))

\* Edits, cycles and rotations may be kept apart.
Apart == Overlap \/ \A w \in Worker : job[w].pc = "idle"

SetFile(d, p, v) ==
  /\ disk' = [disk EXCEPT ![d][p] = v]
  /\ had' = [had EXCEPT ![d][p] = @ \cup ({v} \ {NONE})]

-----------------------------------------------------------------------------
(* A session, and the first cycle of a device.                             *)

\* cycle, push_only, pull_all: open a session and load the state.
start(w, verb) ==
  LET d == Home[w] IN
  /\ job[w].pc = "idle"
  /\ Len(log) < MaxOps
  /\ Apart
  /\ \E k \in SessionKeys(d) :
       /\ key' = [key EXCEPT ![d] = k]
       /\ Go(w, [Idle EXCEPT
            !.verb = verb, !.key = k,
            !.state = IF saved[d] = NONE THEN NewState(k) ELSE saved[d],
            !.pc = CASE verb = "push" -> "scan"
                     [] verb = "pull" -> "adopt_fetch"
                     [] verb = "cycle" /\ saved[d] = NONE -> "latest"
                     [] verb = "cycle" /\ saved[d] # NONE -> "ops"])
  /\ UNCHANGED <<cloud, disk, saved, history>>

\* initial_sync: the cursor skips history before the manifest is read.
latest_seq(w) ==
  /\ job[w].pc = "latest"
  /\ Go(w, [job[w] EXCEPT !.state.cursor = Len(log), !.pc = "adopt_fetch"])
  /\ UNCHANGED <<cloud, device, history>>

\* fetch_table, for a phase whose next step is `next`.  Whether there is no
\* manifest or an empty one matters to the manual pull only, which gives up.
fetch_table(w, phase, next) ==
  LET sealed == IF manifest = NONE THEN EmptyTable ELSE manifest.table IN
  /\ job[w].pc = phase
  /\ IF \/ manifest # NONE /\ manifest.key # job[w].key
        \/ manifest = NONE /\ job[w].verb = "pull"
     THEN GiveUp(w)
     ELSE /\ Go(w, [job[w] EXCEPT
               !.table = sealed, !.pc = next,
               !.todo = IF next = "adopt" THEN Known(sealed) ELSE @])
          /\ UNCHANGED <<cut, torn>>
  /\ UNCHANGED <<cloud, device, parents, sent, had, faults>>

\* initial_sync, pull_all: fetch one file.  The first takes it only if the path
\* is free, the second in any case; both record what the cloud has.
adopt(w) ==
  LET d == Home[w]  j == job[w] IN
  /\ j.pc = "adopt" /\ j.todo # {}
  /\ \E p \in j.todo :
       IF ~Opens(j.table[p])
       THEN GiveUp(w)
       ELSE LET v == blobs[j.table[p].blob].version
                r == Agreed([j EXCEPT !.todo = @ \ {p}], p, v, j.table[p].blob)
            IN  /\ UNCHANGED <<cut, torn>>
                /\ IF j.verb = "pull" \/ disk[d][p] = NONE
                   THEN Go(w, [r EXCEPT !.pc = "adopt_write",
                          !.got = [path |-> p, version |-> v, seen |-> disk[d][p]]])
                   ELSE Go(w, r)
  /\ UNCHANGED <<cloud, device, parents, sent, had, faults>>

\* The manual pull is done once its state is saved; the first cycle goes on.
adopt_save(w) ==
  LET d == Home[w]  j == job[w] IN
  /\ j.pc = "adopt" /\ j.todo = {}
  /\ saved' = [saved EXCEPT ![d] = j.state]
  /\ Go(w, IF j.verb = "pull" THEN Idle ELSE [j EXCEPT !.table = NONE, !.pc = "ops"])
  /\ UNCHANGED <<cloud, disk, key, history>>

-----------------------------------------------------------------------------
(* Pull.                                                                   *)

\* ops_since, and the collapse of the batch into net effects.
ops_since(w) ==
  LET d == Home[w]  j == job[w]  ops == Foreign(d, j.state.cursor)
      r == [j EXCEPT !.state.cursor = Len(log), !.puts = NetPuts(ops),
              !.left = NetPuts(ops), !.dels = NetDels(ops),
              !.flag = \E i \in ops : log[i].manifest]
  IN  /\ j.pc = "ops"
      /\ Go(w, [r EXCEPT !.pc = IF r.puts = {} /\ r.dels = {} /\ ~r.flag
                                THEN "scan" ELSE "pull_fetch"])
      /\ UNCHANGED <<cloud, device, history>>

\* A slot that was put: fetch it, and take it if the local copy is clean.
pull(w) ==
  LET d == Home[w]  j == job[w] IN
  /\ j.pc = "pull" /\ j.left # {}
  /\ \E n \in j.left :
     LET r == [j EXCEPT !.left = @ \ {n}] IN
     IF PathOf(j.table, n) = {}
     THEN Go(w, r) /\ UNCHANGED <<cut, torn>>
     ELSE \E p \in PathOf(j.table, n) :
          IF ~Opens(j.table[p])
          THEN GiveUp(w)
          ELSE LET v == blobs[n].version
                   local == disk[d][p]
                   agreed == Agreed(r, p, v, n)
               IN  /\ UNCHANGED <<cut, torn>>
                   /\ Go(w, IF local = v THEN agreed
                            ELSE IF Clean(j, local, p)
                            THEN [agreed EXCEPT !.pc = "pull_write",
                                    !.got = [path |-> p, version |-> v, seen |-> local]]
                            ELSE r)
  /\ UNCHANGED <<cloud, device, parents, sent, had, faults>>

\* Once the puts are done, the deletes follow.
pull_done(w) ==
  /\ job[w].pc = "pull" /\ job[w].left = {}
  /\ Go(w, [job[w] EXCEPT !.left = job[w].dels, !.puts = {}, !.pc = "drop"])
  /\ UNCHANGED <<cloud, device, history>>

\* A slot that was deleted: the file it held goes, unless it is dirty, and then
\* it is forgotten, so that push uploads it again.
drop(w) ==
  LET d == Home[w]  j == job[w] IN
  /\ j.pc = "drop" /\ j.left # {}
  /\ \E n \in j.left :
     LET r == [j EXCEPT !.left = @ \ {n}]
         rels == {p \in Known(j.state.files) : j.state.files[p].blob = n}
     IN  IF \A p \in rels : j.table[p] # NONE
         THEN Go(w, r)
         ELSE \E p \in rels :
              LET forgotten == [r EXCEPT !.state.files[p] = NONE] IN
              Go(w, IF disk[d][p] # NONE /\ Clean(j, disk[d][p], p)
                    THEN [forgotten EXCEPT !.pc = "pull_write",
                            !.got = [path |-> p, version |-> NONE, seen |-> disk[d][p]]]
                    ELSE forgotten)
  /\ UNCHANGED <<cloud, device, history>>

drop_done(w) ==
  /\ job[w].pc = "drop" /\ job[w].left = {}
  /\ Go(w, [job[w] EXCEPT !.pc = IF job[w].flag THEN "settle" ELSE "scan",
              !.dels = IF job[w].flag THEN @ ELSE {}])
  /\ UNCHANGED <<cloud, device, history>>

\* write_atomic, remove_file: the local file changes after it was compared.
write_file(w) ==
  LET j == job[w] IN
  /\ j.pc \in {"adopt_write", "pull_write"}
  /\ SetFile(Home[w], j.got.path, j.got.version)
  /\ Go(w, [j EXCEPT !.got = NONE,
              !.pc = CASE j.pc = "adopt_write" -> "adopt"
                       [] j.pc = "pull_write" /\ j.got.version # NONE -> "pull"
                       [] j.pc = "pull_write" /\ j.got.version = NONE -> "drop"])
  /\ UNCHANGED <<cloud, saved, key, parents, sent, faults, cut, torn>>

\* A foreign manifest may have dropped entries of ours: what is here, is not in
\* it and was not deleted is forgotten, so that push restores it.
settle(w) ==
  LET d == Home[w]  j == job[w]
      clobbered == {p \in Known(j.state.files) :
                      /\ j.table[p] = NONE
                      /\ j.state.files[p].blob \notin j.dels
                      /\ disk[d][p] # NONE}
  IN  /\ j.pc = "settle"
      /\ Go(w, [j EXCEPT !.state.files = [p \in Path |->
                             IF p \in clobbered THEN NONE ELSE @[p]],
                         !.dels = {}, !.flag = FALSE, !.pc = "scan"])
      /\ UNCHANGED <<cloud, device, history>>

-----------------------------------------------------------------------------
(* Push.                                                                   *)

Rekeys(j) == j.state.generation # j.key

\* Read the files and compare them with the state.
scan(w) ==
  LET d == Home[w]  j == job[w]
      changed == {p \in Known(disk[d]) : ~Clean(j, disk[d][p], p)}
      deleted == Deleted(d, j)
  IN  /\ j.pc = "scan"
      /\ Go(w, [j EXCEPT
           !.found = [p \in Path |-> IF p \in changed THEN disk[d][p] ELSE NONE],
           !.todo = changed, !.gone = deleted,
           !.pc = IF changed = {} /\ deleted = {} /\ ~Rekeys(j) THEN "save"
                  ELSE IF j.table # NONE THEN "put" ELSE "push_fetch"])
      /\ UNCHANGED <<cloud, device, history>>

\* Upload one changed file into its slot.  The flag now says that the manifest
\* has to be written.
put(w) ==
  LET j == job[w] IN
  /\ j.pc = "put" /\ j.todo # {}
  /\ \E p \in j.todo :
       /\ j.table[p] # NONE \/ UnusedDeks # {}
       /\ LET entry == TableEntry(j.table, j.key, p)
              v == j.found[p]
          IN  /\ blobs' = [blobs EXCEPT ![entry.blob] = [dek |-> entry.dek, version |-> v]]
              /\ sent' = sent \cup {v}
              /\ Go(w, [j EXCEPT !.todo = @ \ {p}, !.found[p] = NONE,
                          !.flag = @ \/ j.table[p] = NONE,
                          !.table[p] = entry,
                          !.puts = @ \cup {entry.blob},
                          !.state.files[p] = [hash |-> v, blob |-> entry.blob]])
  /\ UNCHANGED <<manifest, log, generation, device, parents, had, faults, cut, torn>>

\* After the uploads, delete the slot of one file that is gone here.
tombstone(w) ==
  LET j == job[w] IN
  /\ j.pc = "put" /\ j.todo = {} /\ j.gone # {}
  /\ \E p \in j.gone :
       LET r == [j EXCEPT !.gone = @ \ {p}, !.state.files[p] = NONE] IN
       IF j.table[p] = NONE
       THEN Go(w, r) /\ UNCHANGED blobs
       ELSE /\ blobs' = [blobs EXCEPT ![j.table[p].blob] = NONE]
            /\ Go(w, [r EXCEPT !.table[p] = NONE, !.flag = TRUE,
                        !.dels = @ \cup {j.table[p].blob}])
  /\ UNCHANGED <<manifest, log, generation, device, history>>

\* After a rotation, every entry whose slot is not the one the key derives is
\* read, written under a fresh data key to the slot that is, and deleted.
Stale(j) == {p \in Known(j.table) : j.table[p].blob # blob_name(j.key, p)}

rekey(w) ==
  LET j == job[w] IN
  /\ \/ j.pc = "put" /\ j.todo = {} /\ j.gone = {}
     \/ j.pc = "rekey"
  /\ IF ~Rekeys(j) \/ Stale(j) = {}
     THEN /\ UNCHANGED <<cut, torn>>
          /\ Go(w, [j EXCEPT !.pc = IF j.flag THEN "publish" ELSE "announce"])
     ELSE \E p \in Stale(j) :
          IF ~Opens(j.table[p])
          THEN GiveUp(w)
          ELSE /\ UNCHANGED <<cut, torn>>
               /\ Go(w, [j EXCEPT !.pc = "rekey_put",
                    !.got = [path |-> p, seen |-> NONE,
                             version |-> blobs[j.table[p].blob].version]])
  /\ UNCHANGED <<cloud, device, parents, sent, had, faults>>

rekey_put(w) ==
  LET j == job[w]  p == j.got.path
      entry == [blob |-> blob_name(j.key, p), dek |-> FreshDek]
  IN  /\ j.pc = "rekey_put" /\ UnusedDeks # {}
      /\ blobs' = [blobs EXCEPT ![entry.blob] =
                      [dek |-> entry.dek, version |-> j.got.version]]
      /\ Go(w, [j EXCEPT !.table[p] = entry, !.flag = TRUE, !.pc = "rekey_delete",
                  !.puts = @ \cup {entry.blob}, !.left = {j.table[p].blob},
                  !.state.files[p] = IF @ = NONE THEN NONE
                                     ELSE [@ EXCEPT !.blob = entry.blob]])
      /\ UNCHANGED <<manifest, log, generation, device, history>>

rekey_delete(w) ==
  LET j == job[w] IN
  /\ j.pc = "rekey_delete"
  /\ blobs' = [n \in Name |-> IF n \in j.left THEN NONE ELSE blobs[n]]
  /\ Go(w, [j EXCEPT !.dels = @ \cup j.left, !.left = {}, !.got = NONE,
              !.pc = "rekey"])
  /\ UNCHANGED <<manifest, log, generation, device, history>>

\* Write the manifest, whatever it has become since it was read.
publish(w) ==
  LET j == job[w] IN
  /\ j.pc = "publish"
  /\ manifest' = [key |-> j.key, table |-> j.table]
  /\ Go(w, [j EXCEPT !.pc = "announce"])
  /\ UNCHANGED <<blobs, log, generation, device, history>>

\* One signed operation names the slots that changed.
append_op(w) ==
  LET j == job[w] IN
  /\ j.pc = "announce"
  /\ log' = IF j.puts = {} /\ j.dels = {} THEN log
            ELSE Append(log, [by |-> Home[w], put |-> j.puts, del |-> j.dels,
                              manifest |-> j.flag])
  /\ Go(w, [j EXCEPT !.pc = "save"])
  /\ UNCHANGED <<blobs, manifest, generation, device, history>>

\* The end of a cycle or a manual push.
save(w) ==
  LET d == Home[w]  j == job[w] IN
  /\ j.pc = "save"
  /\ saved' = [saved EXCEPT ![d] = [j.state EXCEPT !.generation = j.key]]
  /\ Go(w, Idle)
  /\ UNCHANGED <<cloud, disk, key, history>>

-----------------------------------------------------------------------------
(* People, faults and rotations.                                           *)

\* A file is written or removed on a device, by a tool call or by hand.
edit(d, p) ==
  LET v == Len(parents) + 1
      old == disk[d][p]
  IN  /\ Len(parents) < MaxEdits /\ Apart
      /\ SetFile(d, p, v)
      /\ parents' = Append(parents, IF old = NONE THEN {} ELSE parents[old] \cup {old})
      /\ UNCHANGED <<cloud, saved, key, job, sent, faults, cut, torn>>

remove(d, p) ==
  /\ Len(parents) < MaxEdits /\ Apart
  /\ disk[d][p] # NONE
  /\ SetFile(d, p, NONE)
  /\ parents' = Append(parents, {})
  /\ UNCHANGED <<cloud, saved, key, job, sent, faults, cut, torn>>

\* A request fails, or the process dies: what the cycle did stays done.
fail(w) ==
  /\ job[w].pc # "idle"
  /\ faults < MaxFaults
  /\ faults' = faults + 1
  /\ GiveUp(w)
  /\ UNCHANGED <<cloud, device, parents, sent, had>>

\* revoke on device d, in one step (RepoKeys has its steps): a new key is
\* wrapped for everyone else, the manifest is sealed under it and announced.
rotate(d) ==
  /\ generation <= MaxRotations /\ Apart
  /\ \A w \in Worker : Home[w] = d => job[w].pc = "idle"
  /\ SessionKeys(d) # {}
  /\ generation' = generation + 1
  /\ key' = [key EXCEPT ![d] = generation + 1]
  /\ IF manifest = NONE
     THEN UNCHANGED <<manifest, log>>
     ELSE /\ manifest' = [manifest EXCEPT !.key = generation + 1]
          /\ log' = Append(log, [by |-> d, put |-> {}, del |-> {}, manifest |-> TRUE])
  /\ UNCHANGED <<blobs, disk, saved, job, history>>

-----------------------------------------------------------------------------
(* The specification.                                                      *)

Init ==
  /\ disk = [d \in Device |-> NoFiles]
  /\ saved = [d \in Device |-> NONE]
  /\ key = [d \in Device |-> 1]
  /\ blobs = [n \in Name |-> NONE]
  /\ manifest = NONE
  /\ log = << >>
  /\ generation = 1
  /\ job = [w \in Worker |-> Idle]
  /\ parents = << >>
  /\ sent = {}
  /\ had = [d \in Device |-> [p \in Path |-> {}]]
  /\ faults = 0
  /\ cut = FALSE
  /\ torn = FALSE

\* The next step of worker w, once it has started.
step(w) ==
  \/ latest_seq(w)
  \/ fetch_table(w, "adopt_fetch", "adopt")
  \/ fetch_table(w, "pull_fetch", "pull")
  \/ fetch_table(w, "push_fetch", "put")
  \/ adopt(w)
  \/ adopt_save(w)
  \/ ops_since(w)
  \/ pull(w)
  \/ pull_done(w)
  \/ drop(w)
  \/ drop_done(w)
  \/ write_file(w)
  \/ settle(w)
  \/ scan(w)
  \/ put(w)
  \/ tombstone(w)
  \/ rekey(w)
  \/ rekey_put(w)
  \/ rekey_delete(w)
  \/ publish(w)
  \/ append_op(w)
  \/ save(w)

Next ==
  \/ \E w \in Worker : step(w)
  \/ \E w \in Worker, verb \in Verbs : start(w, verb)
  \/ \E w \in Worker : fail(w)
  \/ \E d \in Device, p \in Path : edit(d, p)
  \/ \E d \in Device, p \in Path : remove(d, p)
  \/ \E d \in Device : rotate(d)

\* The worker starts a cycle at every interval, and the runtime runs it.
Fairness ==
  \A w \in Worker : WF_vars(step(w)) /\ SF_vars(start(w, "cycle"))

Spec == Init /\ [][Next]_vars
FairSpec == Spec /\ Fairness

-----------------------------------------------------------------------------
(* Safety.                                                                 *)

\* A version that a worker replaces or removes, as it saw it when it compared,
\* has been in the cloud: a pull destroys no edit that was not yet uploaded.
\* (What is written between the comparison and the replacement is lost.)
NothingDestroyed ==
  \A w \in Worker : LET got == job[w].got IN
    job[w].pc = "pull_write" /\ got.seen # NONE => got.seen \in sent

\* A slot is tombstoned by a device only for a path it has had itself: a fresh
\* or wiped vault cannot empty the repository.
TombstonesOwn ==
  \A w \in Worker : job[w].pc = "put" =>
    \A p \in job[w].gone : had[Home[w]][p] # {}

\* A device tombstones no version that it has never had: a deletion does not
\* take an edit with it that was made elsewhere in the meantime.
TombstonesSeen ==
  [][\A w \in Worker, n \in Name :
       job[w].pc = "put" /\ blobs[n] # NONE /\ blobs'[n] = NONE /\ ~cut =>
         blobs[n].version \in had[Home[w]][n.path]]_vars

\* The manual pull is the one step that may undo an edit.
Reverts ==
  /\ \E d \in Device, p \in Path :
       disk[d][p] # NONE /\ disk'[d][p] # NONE /\ disk'[d][p] \in parents[disk[d][p]]
  /\ \A w \in Worker : job'[w] # job[w] => job[w].verb # "pull"

\* A cycle takes no file back to a version that it was written over.
NeverReverted == [][~Reverts]_vars

\* The same, as long as every cycle that ended has saved its state, and no
\* rotation has moved the slots.
NoRevertUncut == [][~cut /\ generation = 1 => ~Reverts]_vars

\* Every entry of the manifest opens what its slot holds.
Readable ==
  (\A w \in Worker : job[w].pc = "idle") /\ manifest # NONE /\ ~cut =>
     \A p \in Known(manifest.table) : Opens(manifest.table[p])

-----------------------------------------------------------------------------
(* Liveness.                                                               *)

\* Every slot in use is one that the current key derives and the manifest names.
AllRekeyed ==
  \A n \in Name : blobs[n] # NONE =>
    /\ n.key = generation
    /\ manifest # NONE /\ n \in {manifest.table[p].blob : p \in Known(manifest.table)}

LosesKey == \E d \in Device : SessionKeys(d) = {}

\* Once people stop, all devices have the same files for good, and nothing is
\* left under the slot names of an older key: unless a device has lost the key,
\* or a push was cut between an upload and the save of its state.
Converges ==
  \/ <>[](AllRekeyed /\ \A d, e \in Device : disk[d] = disk[e])
  \/ <>torn
  \/ <>LosesKey

\* Every entry of the manifest ends up readable for good, however cycles are cut.
Recovers ==
  <>[](manifest # NONE => \A p \in Known(manifest.table) : Opens(manifest.table[p]))
  \/ <>LosesKey

=============================================================================
