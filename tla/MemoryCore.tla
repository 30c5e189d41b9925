------------------------------ MODULE MemoryCore ------------------------------
(***************************************************************************)
(* The memory core of tuskd: the vault (one file per record), the SQLite   *)
(* index derived from it, the promotion gate with its review queue, the    *)
(* graduation scanner and the file watcher.                                *)
(*                                                                         *)
(* The daemon serves every session on a multi-threaded runtime and takes   *)
(* no lock around a tool call, so calls interleave between any two file or *)
(* database accesses.  A call is a thread whose program counter pc[t]      *)
(* stands before its next access; the locals it carries are call[t].       *)
(* Access control happens before a call touches the vault: the calls here  *)
(* are the ones it lets through.  An error that changes nothing is not a   *)
(* step; an error after the first change ends the call (Abort).            *)
(***************************************************************************)
EXTENDS Integers, FiniteSets

CONSTANTS
    Threads,       \* calls the runtime can serve at the same time
    Ids,           \* record ids (ULIDs); bounds the records ever written
    Bodies,        \* trimmed bodies; equal bodies have equal hashes
    Near,          \* pairs of bodies whose token overlap exceeds 0.7
    Scopes,        \* scopes a record can live in
    ReviewScopes,  \* scopes whose policy is Review
    Kinds,         \* record types the callers use
    Ops,           \* the calls made in this instance
    MinUses,       \* GraduationConfig.min_uses
    MinRate,       \* GraduationConfig.min_success_rate, in percent
    MaxCalls,      \* bound: calls started
    MaxCrashes,    \* bound: process crashes
    MaxClock,      \* bound: clock ticks
    NONE

AllOps == {"write", "feedback", "forget", "promote", "approve", "reject",
           "graduate", "rebuild"}

\* A graduated candidate's body names its source and the telemetry it had (and
\* the day, which is left out).
AllBodies == Bodies \cup [src : Ids, uses : Nat]

\* successes is counted in halves: success 2, partial 1, failure 0.
Record == [body : AllBodies, scope : Scopes,
           kind : {"semantic", "procedural", "skill"},
           from : Ids \cup {NONE}, supersedes : Ids \cup {NONE},
           invalid_at : Nat \cup {NONE}, uses : Nat, successes : Nat]

ASSUME ConstantsAssumption ==
    /\ Near \subseteq Bodies \X Bodies
    /\ ReviewScopes \subseteq Scopes
    /\ Kinds \subseteq {"semantic", "procedural", "skill"}
    /\ Ops \subseteq AllOps
    /\ MinUses \in Nat /\ MinRate \in Nat
    /\ MaxCalls \in Nat /\ MaxCrashes \in Nat /\ MaxClock \in Nat
    /\ NONE \notin Ids \cup Threads \cup Bodies \cup Scopes \cup Nat /\ NONE \notin Record

VARIABLES
    file,     \* vault/memory: id -> record on disk, or NONE
    tmp,      \* .<id>.md.tmp: contents of a record's temporary file, or NONE
    index,    \* index.db: id -> row (a copy of a record), or NONE
    queue,    \* queue/review.json: set of queue items
    qlock,    \* Gate::queue_lock: the thread holding it, or NONE
    skills,   \* ids that have a materialized SKILL.md
    dirty,    \* ids whose file-system event the watcher has not drained
    wbuf,     \* the watcher's loaded <<id, contents>>, or NONE
    clock,
    pc, call, \* per thread
    snap,     \* per thread: the queue file as loaded under the lock
    calls, crashes,  \* bounded counters
    used,     \* history: ids of records ever written
    links,    \* history: <<new, old>> for every superseding record written
    gone,     \* history: ids forgotten
    acked,    \* history: successful memory_feedback calls per id
    gated,    \* history: ids committed by the gate
    approved, \* history: ids committed by an approved review
    issued,   \* history: number of qids ever queued; the qids are 1..issued
    taken,    \* history: qids removed from the queue by a review
    dropped   \* history: approved qids whose commit failed before any write

disk == <<file, tmp, index, queue, skills>>
watcher == <<dirty, wbuf>>
histories == <<used, links, gone, acked, gated, approved, issued, taken, dropped>>
bounds == <<clock, calls, crashes>>
vars == <<disk, watcher, qlock, pc, call, snap, bounds, histories>>

-----------------------------------------------------------------------------
(* Data.                                                                   *)

Candidate == [body : AllBodies, scope : Scopes,
              kind : {"semantic", "procedural", "skill"},
              from : Ids \cup {NONE}, corrects : Ids \cup {NONE}]

QueueItem == [qid : Nat, cand : Candidate]

IsValid(r) == r # NONE /\ r.invalid_at = NONE

new_record(c) ==
    [body |-> c.body, scope |-> c.scope, kind |-> c.kind, from |-> c.from,
     supersedes |-> c.corrects, invalid_at |-> NONE, uses |-> 0, successes |-> 0]

\* Gate step 1: the valid rows of the scope with the candidate's body hash.
find_valid_by_body_hash(c) ==
    {id \in Ids : IsValid(index[id]) /\ index[id].scope = c.scope
                                     /\ index[id].body = c.body}

\* Mutant: the scope's policy decides for skills too.
policy_for_ByScope(c) == IF c.scope \in ReviewScopes THEN "review" ELSE "auto"

\* Gate step 3: skills always go to review, other candidates by scope.
policy_for(c) ==
    IF c.kind = "skill" \/ c.scope \in ReviewScopes THEN "review" ELSE "auto"

\* The outcomes of token_overlap(b, c) > 0.7; what a graduation trailer adds
\* to a body can push the overlap to either side.
token_overlap(b, c) ==
    IF b \in Bodies /\ c \in Bodies THEN {b = c \/ <<b, c>> \in Near}
                                    ELSE BOOLEAN

\* Thresholds of the graduation scanner; the success rate of an unused record is 0.
Proven(r) == /\ IsValid(r) /\ r.kind = "procedural"
             /\ r.uses >= MinUses
             /\ IF r.uses = 0 THEN MinRate = 0
                              ELSE 100 * r.successes >= MinRate * 2 * r.uses

Blank == [op |-> "none", new |-> NONE, old |-> NONE, buf |-> NONE,
          patch |-> NONE, cand |-> NONE, qid |-> NONE, gain |-> NONE,
          walk |-> NONE, todo |-> {}]

Fresh == Ids \ (used \cup {call[t].new : t \in Threads})

-----------------------------------------------------------------------------
(* Program counters.                                                       *)

At(t, l) == pc[t] = l
Goto(t, l) == pc' = [pc EXCEPT ![t] = l]

\* The call fails: what it already changed stays.
Abort(t) == /\ Goto(t, "idle")
            /\ call' = [call EXCEPT ![t] = Blank]

\* The call, or one submission of a graduation scan, returns.
Return(t) ==
    IF call[t].todo = {}
    THEN Abort(t)
    ELSE /\ Goto(t, "graduate_next")
         /\ call' = [call EXCEPT ![t] =
                        [Blank EXCEPT !.op = call[t].op, !.todo = call[t].todo]]

Begin(t, op, l, locals) ==
    /\ op \in Ops
    /\ At(t, "idle")
    /\ calls < MaxCalls
    /\ calls' = calls + 1
    /\ Goto(t, l)
    /\ call' = [call EXCEPT ![t] = locals]
    /\ UNCHANGED <<disk, watcher, qlock, snap, clock, crashes, histories>>

-----------------------------------------------------------------------------
(* Calls begin.                                                            *)

\* memory_write: a new record, superseding old if the caller names one.
memory_write(t) ==
    \E id \in Fresh, b \in Bodies, s \in Scopes, k \in Kinds,
       old \in {NONE} \cup {i \in Ids : file[i] # NONE} :
        LET c == [body |-> b, scope |-> s, kind |-> k, from |-> NONE, corrects |-> old]
        IN  Begin(t, "write", "vault_write",
                  [Blank EXCEPT !.op = "write", !.new = id, !.old = old,
                                !.buf = new_record(c)])

memory_feedback(t) ==
    \E id \in {i \in Ids : file[i] # NONE}, gain \in 0..2 :
        Begin(t, "feedback", "patch_get",
              [Blank EXCEPT !.op = "feedback", !.old = id, !.gain = gain])

memory_forget(t) ==
    \E id \in {i \in Ids : file[i] # NONE} :
        Begin(t, "forget", "forget_file", [Blank EXCEPT !.op = "forget", !.old = id])

\* memory_promote, and each candidate of memory_reflect: corrects is whatever
\* id the caller names, unchecked until the commit.
memory_promote(t) ==
    \E id \in Fresh, b \in Bodies, s \in Scopes, k \in Kinds, old \in {NONE} \cup used :
        Begin(t, "promote", "dedup",
              [Blank EXCEPT !.op = "promote", !.new = id,
                            !.cand = [body |-> b, scope |-> s, kind |-> k,
                                      from |-> NONE, corrects |-> old]])

\* review(qid, approve): the qid is one the reviewer has seen listed.
review(t) ==
    \E q \in 1..issued :
        \/ \E id \in Fresh :
              Begin(t, "approve", "queue_lock",
                    [Blank EXCEPT !.op = "approve", !.new = id, !.qid = q])
        \/ Begin(t, "reject", "queue_lock", [Blank EXCEPT !.op = "reject", !.qid = q])

graduate(t) == Begin(t, "graduate", "graduate_walk", [Blank EXCEPT !.op = "graduate"])

rebuild(t) == Begin(t, "rebuild", "rebuild_walk", [Blank EXCEPT !.op = "rebuild"])

-----------------------------------------------------------------------------
(* Vault steps.  write_file is create-or-truncate of the temporary file    *)
(* followed by a rename; every rename or removal raises a watcher event.   *)

Changed(id) == dirty' = dirty \cup {id}

\* VaultStore::write of a record nobody else knows yet: its temporary file is
\* this thread's alone, so writing and renaming it is one step.
vault_write(t) ==
    LET c == call[t] IN
    /\ At(t, "vault_write")
    /\ file' = [file EXCEPT ![c.new] = c.buf]
    /\ Changed(c.new)
    /\ used' = used \cup {c.new}
    /\ links' = IF c.old = NONE THEN links ELSE links \cup {<<c.new, c.old>>}
    /\ gated' = IF c.op = "write" THEN gated ELSE gated \cup {c.new}
    /\ approved' = IF c.op = "approve" THEN approved \cup {c.new} ELSE approved
    /\ Goto(t, IF c.old = NONE THEN "ingest_new" ELSE "patch_get")
    /\ UNCHANGED <<tmp, index, queue, skills, wbuf, qlock, call, snap, bounds,
                   gone, acked, issued, taken, dropped>>

\* Mutants of the record update: a failure is charged as a negative success;
\* the use is not counted; telemetry rebuilds the record as a current one.
Patched_Penalty(c, r) ==
    IF c.op = "feedback"
    THEN [r EXCEPT !.uses = @ + 1, !.successes = @ + c.gain - 1]
    ELSE [r EXCEPT !.invalid_at = clock]

Patched_Uncounted(c, r) ==
    IF c.op = "feedback"
    THEN [r EXCEPT !.successes = @ + c.gain]
    ELSE [r EXCEPT !.invalid_at = clock]

Patched_Revalidates(c, r) ==
    IF c.op = "feedback"
    THEN [r EXCEPT !.uses = @ + 1, !.successes = @ + c.gain, !.invalid_at = NONE]
    ELSE [r EXCEPT !.invalid_at = clock]

\* invalidate and update_telemetry: read the record, change the copy.
Patched(c, r) ==
    IF c.op = "feedback"
    THEN [r EXCEPT !.uses = @ + 1, !.successes = @ + c.gain]
    ELSE [r EXCEPT !.invalid_at = clock]

patch_get(t) ==
    LET c == call[t] IN
    /\ At(t, "patch_get")
    /\ \/ /\ file[c.old] = NONE
          /\ Abort(t)
       \/ /\ file[c.old] # NONE
          /\ Goto(t, "patch_tmp")
          /\ call' = [call EXCEPT ![t].patch = Patched(c, file[c.old])]
    /\ UNCHANGED <<disk, watcher, qlock, snap, bounds, histories>>

patch_tmp(t) ==
    LET c == call[t] IN
    /\ At(t, "patch_tmp")
    /\ tmp' = [tmp EXCEPT ![c.old] = c.patch]
    /\ Goto(t, "patch_rename")
    /\ UNCHANGED <<file, index, queue, skills, watcher, qlock, call, snap, bounds, histories>>

\* The temporary file's name is the record's: a second writer of the record
\* may have overwritten it, or renamed it away, in which case rename fails.
patch_rename(t) ==
    LET c == call[t] IN
    /\ At(t, "patch_rename")
    /\ \/ /\ tmp[c.old] = NONE
          /\ Abort(t)
          /\ UNCHANGED <<file, tmp, dirty>>
       \/ /\ tmp[c.old] # NONE
          /\ file' = [file EXCEPT ![c.old] = tmp[c.old]]
          /\ tmp' = [tmp EXCEPT ![c.old] = NONE]
          /\ Changed(c.old)
          /\ Goto(t, CASE c.op = "feedback" -> "feedback_path"
                       [] c.op = "write" -> "get_old"
                       [] OTHER -> "ingest_new")
          /\ UNCHANGED call
    /\ UNCHANGED <<index, queue, skills, wbuf, qlock, snap, bounds, histories>>

\* Mutant: only the index row is deleted.
forget_file_IndexOnly(t) ==
    /\ At(t, "forget_file")
    /\ gone' = gone \cup {call[t].old}
    /\ Goto(t, "forget_index")
    /\ UNCHANGED <<disk, watcher, qlock, call, snap, bounds, used, links, acked,
                   gated, approved, issued, taken, dropped>>

forget_file(t) ==
    LET c == call[t] IN
    /\ At(t, "forget_file")
    /\ \/ /\ file[c.old] = NONE
          /\ Abort(t)
          /\ UNCHANGED <<file, dirty, gone>>
       \/ /\ file[c.old] # NONE
          /\ file' = [file EXCEPT ![c.old] = NONE]
          /\ Changed(c.old)
          /\ gone' = gone \cup {c.old}
          /\ Goto(t, "forget_index")
          /\ UNCHANGED call
    /\ UNCHANGED <<tmp, index, queue, skills, wbuf, qlock, snap, bounds, used,
                   links, acked, gated, approved, issued, taken, dropped>>

-----------------------------------------------------------------------------
(* Index steps; each is one statement or transaction under the connection  *)
(* mutex.  The row written is the copy in the caller's memory.             *)

Ingest(id, r) == index' = [index EXCEPT ![id] = r]

OnlyIndex == UNCHANGED <<file, tmp, queue, skills, watcher, qlock, snap, bounds>>

\* A committed skill is materialized last; any other commit is done.
Committed(t) ==
    IF call[t].op # "write" /\ call[t].buf.kind = "skill"
    THEN Goto(t, "materialize_skill") /\ UNCHANGED call
    ELSE Return(t)

\* memory_write ingests the old record first, Gate::commit the new one.
ingest_new(t) ==
    LET c == call[t] IN
    /\ At(t, "ingest_new")
    /\ Ingest(c.new, c.buf)
    /\ IF c.op # "write" /\ c.old # NONE
       THEN Goto(t, "get_old") /\ UNCHANGED call
       ELSE Committed(t)
    /\ OnlyIndex /\ UNCHANGED histories

get_old(t) ==
    LET c == call[t] IN
    /\ At(t, "get_old")
    /\ \/ /\ file[c.old] = NONE
          /\ Abort(t)
       \/ /\ file[c.old] # NONE
          /\ Goto(t, "ingest_old")
          /\ call' = [call EXCEPT ![t].patch = file[c.old]]
    /\ UNCHANGED <<disk, watcher, qlock, snap, bounds, histories>>

ingest_old(t) ==
    LET c == call[t] IN
    /\ At(t, "ingest_old")
    /\ Ingest(c.old, c.patch)
    /\ IF c.op = "write" THEN Goto(t, "ingest_new") /\ UNCHANGED call
                         ELSE Committed(t)
    /\ OnlyIndex /\ UNCHANGED histories

\* memory_feedback looks the path up again before it ingests its copy.
feedback_path(t) ==
    LET c == call[t] IN
    /\ At(t, "feedback_path")
    /\ \/ file[c.old] = NONE /\ Abort(t)
       \/ file[c.old] # NONE /\ Goto(t, "feedback_ingest") /\ UNCHANGED call
    /\ UNCHANGED <<disk, watcher, qlock, snap, bounds, histories>>

feedback_ingest(t) ==
    /\ At(t, "feedback_ingest")
    /\ Ingest(call[t].old, call[t].patch)
    /\ Return(t)
    /\ acked' = [acked EXCEPT ![call[t].old] = @ + 1]
    /\ OnlyIndex
    /\ UNCHANGED <<used, links, gone, gated, approved, issued, taken, dropped>>

forget_index(t) ==
    /\ At(t, "forget_index")
    /\ Ingest(call[t].old, NONE)
    /\ Return(t)
    /\ OnlyIndex /\ UNCHANGED histories

\* Indexer::rebuild walks the vault before it takes the connection.
rebuild_walk(t) ==
    /\ At(t, "rebuild_walk")
    /\ call' = [call EXCEPT ![t].walk = file]
    /\ Goto(t, "rebuild_commit")
    /\ UNCHANGED <<disk, watcher, qlock, snap, bounds, histories>>

rebuild_commit(t) ==
    /\ At(t, "rebuild_commit")
    /\ index' = call[t].walk
    /\ Return(t)
    /\ OnlyIndex /\ UNCHANGED histories

-----------------------------------------------------------------------------
(* The gate.                                                               *)

Local == UNCHANGED <<disk, watcher, qlock, snap, bounds, histories>>

\* Mutant: an approved item is committed without the re-check.
dedup_NoRecheck(t) ==
    LET c == call[t]
        dup == c.op # "approve" /\ find_valid_by_body_hash(c.cand) # {}
    IN
    /\ At(t, "dedup")
    /\ \/ dup /\ Return(t)
       \/ /\ ~dup
          /\ Goto(t, IF c.op = "approve" THEN "commit" ELSE "probe")
          /\ UNCHANGED call
    /\ Local

\* Step 1 of submit, and the re-check of an approved item.
dedup(t) ==
    LET c == call[t] IN
    /\ At(t, "dedup")
    /\ \/ /\ find_valid_by_body_hash(c.cand) # {}
          /\ Return(t)
       \/ /\ find_valid_by_body_hash(c.cand) = {}
          /\ Goto(t, CASE c.op = "approve" -> "commit"
                       [] c.op # "approve" /\ c.cand.corrects = NONE -> "probe"
                       [] OTHER -> "policy")
          /\ UNCHANGED call
    /\ Local

\* Step 2: the top hit of a search in the candidate's scope.  The ranking is
\* left open; a record that overlaps shares terms, so it is always a hit.
probe(t) ==
    LET c == call[t]
        hits == {id \in Ids : IsValid(index[id]) /\ index[id].scope = c.cand.scope}
        none == \A id \in hits : FALSE \in token_overlap(c.cand.body, index[id].body)
    IN
    /\ At(t, "probe")
    /\ \E top \in hits \cup (IF none THEN {NONE} ELSE {}) :
          /\ Goto(t, IF top = NONE THEN "policy" ELSE "probe_get")
          /\ call' = [call EXCEPT ![t].old = top]
    /\ Local

probe_get(t) ==
    LET c == call[t] IN
    /\ At(t, "probe_get")
    /\ \E near \in IF file[c.old] = NONE THEN {FALSE}
                   ELSE token_overlap(c.cand.body, file[c.old].body) :
          call' = [call EXCEPT ![t].old = NONE,
                               ![t].cand.corrects = IF near THEN c.old ELSE NONE]
    /\ Goto(t, "policy")
    /\ Local

policy(t) ==
    /\ At(t, "policy")
    /\ Goto(t, IF policy_for(call[t].cand) = "review" THEN "queue_lock" ELSE "commit")
    /\ UNCHANGED call
    /\ Local

\* Mutant: review.json is loaded and saved without the lock.
queue_lock_Unguarded(t) ==
    /\ At(t, "queue_lock")
    /\ snap' = [snap EXCEPT ![t] = queue]
    /\ Goto(t, IF call[t].op \in {"approve", "reject"} THEN "queue_take" ELSE "queue_push")
    /\ UNCHANGED <<disk, watcher, qlock, call, bounds, histories>>

\* Lock, then load review.json.
queue_lock(t) ==
    /\ At(t, "queue_lock")
    /\ qlock = NONE
    /\ qlock' = t
    /\ snap' = [snap EXCEPT ![t] = queue]
    /\ Goto(t, IF call[t].op \in {"approve", "reject"} THEN "queue_take" ELSE "queue_push")
    /\ UNCHANGED <<disk, watcher, call, bounds, histories>>

Unlock(t) == /\ qlock' = NONE
             /\ snap' = [snap EXCEPT ![t] = {}]

\* save_queue with the candidate appended, under a fresh qid.
queue_push(t) ==
    /\ At(t, "queue_push")
    /\ issued' = issued + 1
    /\ queue' = snap[t] \cup {[qid |-> issued + 1, cand |-> call[t].cand]}
    /\ Unlock(t)
    /\ Return(t)
    /\ UNCHANGED <<file, tmp, index, skills, watcher, bounds, used, links, gone,
                   acked, gated, approved, taken, dropped>>

\* save_queue without the item; a reject ends here, an approval goes on to
\* commit it outside the lock.
queue_take(t) ==
    LET c == call[t]
        mine == {i \in snap[t] : i.qid = c.qid}
    IN
    /\ At(t, "queue_take")
    /\ Unlock(t)
    /\ \/ /\ mine = {}
          /\ Abort(t)
          /\ UNCHANGED <<queue, taken>>
       \/ /\ \E item \in mine :
                /\ queue' = snap[t] \ {item}
                /\ IF c.op = "reject" THEN Return(t)
                   ELSE /\ call' = [call EXCEPT ![t].cand = item.cand]
                        /\ Goto(t, "dedup")
          /\ taken' = taken \cup {c.qid}
    /\ UNCHANGED <<file, tmp, index, skills, watcher, bounds, used, links, gone,
                   acked, gated, approved, issued, dropped>>

\* Mutant: the corrected record is invalidated before the new one is written.
commit_InvalidateFirst(t) ==
    /\ At(t, "commit")
    /\ Goto(t, IF call[t].cand.corrects = NONE THEN "vault_write" ELSE "patch_get")
    /\ call' = [call EXCEPT ![t].buf = new_record(call[t].cand),
                            ![t].old = call[t].cand.corrects]
    /\ Local

\* Gate::commit up to the write: supersede refuses a corrected id that is no
\* longer in the vault.
commit(t) ==
    LET c == call[t]
        stale == c.cand.corrects # NONE /\ file[c.cand.corrects] = NONE
    IN
    /\ At(t, "commit")
    /\ \/ /\ stale
          /\ Abort(t)
          /\ dropped' = IF c.op = "approve" THEN dropped \cup {c.qid} ELSE dropped
       \/ /\ ~stale
          /\ Goto(t, "vault_write")
          /\ call' = [call EXCEPT ![t].buf = new_record(c.cand),
                                  ![t].old = c.cand.corrects]
          /\ UNCHANGED dropped
    /\ UNCHANGED <<disk, watcher, qlock, snap, bounds, used, links, gone, acked,
                   gated, approved, issued, taken>>

materialize_skill(t) ==
    /\ At(t, "materialize_skill")
    /\ skills' = skills \cup {call[t].new}
    /\ Return(t)
    /\ UNCHANGED <<file, tmp, index, queue, watcher, qlock, snap, bounds, histories>>

\* graduate: the vault is walked, then the queue is loaded without the lock,
\* then every proven record without a from: marker is submitted in turn.
graduate_walk(t) ==
    /\ At(t, "graduate_walk")
    /\ call' = [call EXCEPT ![t].walk = file]
    /\ Goto(t, "graduate_queue")
    /\ Local

\* Mutant: candidates already waiting for review are not looked at.
graduate_queue_IgnoresQueue(t) ==
    LET walk == call[t].walk
        seen == {id \in Ids : walk[id] # NONE}
    IN
    /\ At(t, "graduate_queue")
    /\ call' = [call EXCEPT
                 ![t].walk = NONE,
                 ![t].todo = {[body |-> [src |-> id, uses |-> walk[id].uses],
                               scope |-> walk[id].scope, kind |-> "skill",
                               from |-> id, corrects |-> NONE] :
                              id \in {i \in seen : Proven(walk[i])}}]
    /\ Goto(t, "graduate_next")
    /\ Local

\* Mutant: the queue is read under the lock, which the submissions take again.
graduate_queue_KeepsLock(t) ==
    /\ At(t, "graduate_queue")
    /\ qlock = NONE
    /\ qlock' = t
    /\ call' = [call EXCEPT
                 ![t].walk = NONE,
                 ![t].todo = {[body |-> [src |-> id, uses |-> call[t].walk[id].uses],
                               scope |-> call[t].walk[id].scope, kind |-> "skill",
                               from |-> id, corrects |-> NONE] :
                              id \in {i \in Ids : Proven(call[t].walk[i])}}]
    /\ Goto(t, "graduate_next")
    /\ UNCHANGED <<disk, watcher, snap, bounds, histories>>

graduate_queue(t) ==
    LET walk == call[t].walk
        seen == {id \in Ids : walk[id] # NONE}
        already == {i.cand.from : i \in queue} \cup {walk[id].from : id \in seen}
    IN
    /\ At(t, "graduate_queue")
    /\ call' = [call EXCEPT
                 ![t].walk = NONE,
                 ![t].todo = {[body |-> [src |-> id, uses |-> walk[id].uses],
                               scope |-> walk[id].scope, kind |-> "skill",
                               from |-> id, corrects |-> NONE] :
                              id \in {i \in seen : Proven(walk[i]) /\ i \notin already}}]
    /\ Goto(t, "graduate_next")
    /\ Local

graduate_next(t) ==
    /\ At(t, "graduate_next")
    /\ \/ /\ call[t].todo = {}
          /\ Abort(t)
       \/ \E cand \in call[t].todo :
             /\ call' = [call EXCEPT ![t].cand = cand, ![t].todo = @ \ {cand}]
             /\ Goto(t, "dedup")
    /\ Local

-----------------------------------------------------------------------------
(* The watcher thread, the clock and a crash.                              *)

\* refresh_path, first half: pop a pending path and load the file.
watch_load ==
    /\ wbuf = NONE
    /\ \E id \in dirty :
          /\ dirty' = dirty \ {id}
          /\ wbuf' = <<id, file[id]>>
    /\ UNCHANGED <<disk, qlock, pc, call, snap, bounds, histories>>

\* Mutant: an event for a file that no longer exists is skipped.
watch_apply_KeepsMissing ==
    /\ wbuf # NONE
    /\ IF wbuf[2] = NONE THEN UNCHANGED index ELSE Ingest(wbuf[1], wbuf[2])
    /\ wbuf' = NONE
    /\ UNCHANGED <<file, tmp, queue, skills, dirty, qlock, pc, call, snap, bounds, histories>>

\* Second half: ingest what was loaded, or remove the row of a missing file.
watch_apply ==
    /\ wbuf # NONE
    /\ Ingest(wbuf[1], wbuf[2])
    /\ wbuf' = NONE
    /\ UNCHANGED <<file, tmp, queue, skills, dirty, qlock, pc, call, snap, bounds, histories>>

Tick ==
    /\ clock < MaxClock
    /\ clock' = clock + 1
    /\ UNCHANGED <<disk, watcher, qlock, pc, call, snap, calls, crashes, histories>>

\* The process dies between two steps and is started again.  Opening the core
\* rebuilds the index before anything is served; a temporary file left behind
\* is never read, since every rename follows a write of that file.
Crash ==
    /\ crashes < MaxCrashes
    /\ crashes' = crashes + 1
    /\ pc' = [t \in Threads |-> "idle"]
    /\ call' = [t \in Threads |-> Blank]
    /\ snap' = [t \in Threads |-> {}]
    /\ qlock' = NONE
    /\ dirty' = {} /\ wbuf' = NONE
    /\ tmp' = [id \in Ids |-> NONE]
    /\ index' = file
    /\ UNCHANGED <<file, queue, skills, clock, calls, histories>>

-----------------------------------------------------------------------------
Init ==
    /\ file = [id \in Ids |-> NONE]
    /\ tmp = [id \in Ids |-> NONE]
    /\ index = [id \in Ids |-> NONE]
    /\ queue = {} /\ qlock = NONE /\ skills = {}
    /\ dirty = {} /\ wbuf = NONE
    /\ clock = 0 /\ calls = 0 /\ crashes = 0
    /\ pc = [t \in Threads |-> "idle"]
    /\ call = [t \in Threads |-> Blank]
    /\ snap = [t \in Threads |-> {}]
    /\ used = {} /\ links = {} /\ gone = {}
    /\ acked = [id \in Ids |-> 0]
    /\ gated = {} /\ approved = {}
    /\ issued = 0 /\ taken = {} /\ dropped = {}

Start(t) ==
    \/ memory_write(t) \/ memory_feedback(t) \/ memory_forget(t)
    \/ memory_promote(t) \/ review(t) \/ graduate(t) \/ rebuild(t)

Step(t) ==
    \/ vault_write(t) \/ patch_get(t) \/ patch_tmp(t) \/ patch_rename(t)
    \/ forget_file(t) \/ forget_index(t)
    \/ ingest_new(t) \/ get_old(t) \/ ingest_old(t)
    \/ feedback_path(t) \/ feedback_ingest(t)
    \/ rebuild_walk(t) \/ rebuild_commit(t)
    \/ dedup(t) \/ probe(t) \/ probe_get(t) \/ policy(t)
    \/ queue_lock(t) \/ queue_push(t) \/ queue_take(t)
    \/ commit(t) \/ materialize_skill(t)
    \/ graduate_walk(t) \/ graduate_queue(t) \/ graduate_next(t)

Watch == watch_load \/ watch_apply

Next == \/ \E t \in Threads : Start(t) \/ Step(t)
        \/ Watch \/ Tick \/ Crash

Spec == Init /\ [][Next]_vars

\* The runtime keeps running every call it has accepted, and the watcher
\* thread keeps draining; nothing obliges anyone to make another call.
FairSpec == Spec /\ (\A t \in Threads : WF_vars(Step(t))) /\ WF_vars(Watch)

-----------------------------------------------------------------------------
(* Properties.                                                             *)

PCs == {"idle", "vault_write", "patch_get", "patch_tmp", "patch_rename",
        "forget_file", "forget_index", "ingest_new", "get_old", "ingest_old",
        "feedback_path", "feedback_ingest", "rebuild_walk", "rebuild_commit",
        "dedup", "probe", "probe_get", "policy", "queue_lock", "queue_push",
        "queue_take", "commit", "materialize_skill", "graduate_walk",
        "graduate_queue", "graduate_next"}

Rows == [Ids -> Record \cup {NONE}]

Call == [op : AllOps \cup {"none"}, new : Ids \cup {NONE}, old : Ids \cup {NONE},
         buf : Record \cup {NONE}, patch : Record \cup {NONE},
         cand : Candidate \cup {NONE}, qid : Nat \cup {NONE},
         gain : (0..2) \cup {NONE}, walk : Rows \cup {NONE},
         todo : SUBSET Candidate]

\* Type invariant: every file, row, queue item and local of a call is a value
\* the code could have written there.
TypeOK ==
    /\ file \in Rows /\ tmp \in Rows /\ index \in Rows
    /\ queue \in SUBSET QueueItem
    /\ qlock \in Threads \cup {NONE}
    /\ skills \in SUBSET Ids /\ dirty \in SUBSET Ids
    /\ wbuf \in (Ids \X (Record \cup {NONE})) \cup {NONE}
    /\ clock \in Nat /\ calls \in Nat /\ crashes \in Nat
    /\ pc \in [Threads -> PCs]
    /\ call \in [Threads -> Call]
    /\ snap \in [Threads -> SUBSET QueueItem]
    /\ used \in SUBSET Ids /\ gone \in SUBSET Ids
    /\ links \in SUBSET (Ids \X Ids)
    /\ acked \in [Ids -> Nat]
    /\ gated \in SUBSET Ids /\ approved \in SUBSET Ids
    /\ issued \in Nat /\ taken \in SUBSET Nat /\ dropped \in SUBSET Nat

Deciding(t) == call[t].op = "approve" /\ call[t].cand # NONE

\* Review queue: whatever submissions, reviews and scans interleave, and
\* wherever the process dies, every item ever queued is either still in
\* review.json or was taken out by a review, never both and never neither;
\* and no two reviewers are committing the same item.
QueueConserved ==
    /\ {i.qid : i \in queue} \cup taken = 1..issued
    /\ {i.qid : i \in queue} \cap taken = {}
    /\ \A t, u \in Threads : Deciding(t) /\ Deciding(u) /\ t # u
                                => call[t].qid # call[u].qid

\* Supersession leaves no gap: a record is only ever invalid on disk after a
\* record that supersedes it has been written, and that record stays in the
\* vault until somebody forgets it.
NoGap ==
    \A id \in Ids :
        file[id] # NONE /\ file[id].invalid_at # NONE
            => \E s \in Ids : <<s, id>> \in links /\ (file[s] # NONE \/ s \in gone)

\* A SKILL.md exists only for a record a reviewer approved, and only after
\* its record reached the vault and the index call returned.
SkillsReviewed == skills \subseteq approved

\* Exact dedup: two records that both came through the gate, and of which
\* neither corrects the other, are never valid in one scope with one body.
NoDuplicateValid ==
    \A i, j \in gated :
        i # j /\ IsValid(file[i]) /\ IsValid(file[j]) /\ {<<i, j>>, <<j, i>>} \cap links = {}
            => file[i].scope # file[j].scope \/ file[i].body # file[j].body

\* A superseded record never becomes valid again.
InvalidStaysInvalid ==
    [][\A id \in Ids : file[id] # NONE /\ file[id].invalid_at # NONE
                         => ~IsValid(file'[id])]_vars

\* A forgotten record does not come back.
ForgottenStaysGone == \A id \in gone : file[id] = NONE

\* No acknowledged feedback is lost.
FeedbackCounted == \A id \in Ids : file[id] # NONE => acked[id] <= file[id].uses

\* A procedural record graduates once: at any time it has at most one skill
\* candidate waiting for review or skill record in the vault.
GraduatedOnce ==
    \A id \in Ids :
        /\ \A i, j \in queue : i.cand.from = id /\ j.cand.from = id => i = j
        /\ \A i, j \in {r \in Ids : file[r] # NONE} :
                file[i].from = id /\ file[j].from = id => i = j
        /\ \A i \in queue, j \in {r \in Ids : file[r] # NONE} :
                i.cand.from = id => file[j].from # id

\* An approved item is committed or recognised as a duplicate.
ApprovedIsCommitted == dropped = {}

\* Every accepted call returns: nothing waits for the queue lock forever.
CallsReturn == \A t \in Threads : pc[t] # "idle" ~> pc[t] = "idle"

\* Once the calls are over, the index agrees with the vault for good.
IndexConverges == <>[](index = file)
===============================================================================
