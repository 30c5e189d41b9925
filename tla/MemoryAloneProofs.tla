--------------------------- MODULE MemoryAloneProofs ---------------------------
(***************************************************************************)
(* Proofs about MemoryCore for calls that are made one at a time, which is *)
(* how an embedded session makes them, for any ids, bodies, policies and   *)
(* bounds.  The watcher runs beside the call, and the process may die in   *)
(* the middle of it.                                                       *)
(***************************************************************************)
EXTENDS MemoryCoreProofs

\* There is one caller.
OneCaller == \A t, u \in Threads : t = u

-----------------------------------------------------------------------------
(* The vault under a call.                                                 *)

\* The call holds an id nobody has written.
Unwritten == {"vault_write", "dedup", "probe", "probe_get", "policy", "queue_lock",
              "queue_push", "queue_take", "commit", "graduate_walk", "graduate_queue",
              "graduate_next"}

\* The call works on an old record that is there.
Holding == {"vault_write", "patch_get", "patch_tmp", "patch_rename", "ingest_new",
            "get_old", "ingest_old", "feedback_path", "feedback_ingest"}

\* What a later version of a record keeps of an earlier one.
Follows(new, old) ==
    /\ new # NONE
    /\ new.body = old.body /\ new.scope = old.scope /\ new.from = old.from
    /\ old.invalid_at # NONE => new.invalid_at # NONE
    /\ new.uses >= old.uses

\* What the call has read is still so: the copy it writes follows the file.
VaultLocals(l, c) ==
    /\ l \in Unwritten => c.new \notin used
    /\ l \in Holding /\ c.old # NONE => file[c.old] # NONE
    /\ l \in {"patch_tmp", "patch_rename"} =>
            /\ Follows(c.patch, file[c.old])
            /\ c.op = "feedback" => c.patch.uses > file[c.old].uses
    /\ l = "patch_rename" => tmp[c.old] = c.patch

VaultInv ==
    /\ \A id \in Ids : file[id] # NONE => id \in used
    /\ gone \subseteq used
    /\ ForgottenStaysGone
    /\ \A t \in Threads : VaultLocals(pc[t], call[t])

-----------------------------------------------------------------------------
(* Feedback.                                                               *)

FeedbackInv ==
    /\ FeedbackCounted
    /\ \A id \in Ids \ used : acked[id] = 0
    /\ \A t \in Threads : pc[t] \in {"feedback_path", "feedback_ingest"}
            => acked[call[t].old] < file[call[t].old].uses

-----------------------------------------------------------------------------
(* Duplicates.                                                             *)

\* A copy that tells the gate of record id, if it is valid.
Shows(r, id) == IsValid(file[id]) =>
    IsValid(r) /\ r.body = file[id].body /\ r.scope = file[id].scope

NoTwin(r) == \A id \in Ids :
    IsValid(file[id]) => file[id].body # r.body \/ file[id].scope # r.scope

\* The call has written its new record and not yet ingested it.
Unindexed(l, c) ==
    \/ l \in {"patch_get", "patch_tmp", "patch_rename"} /\ c.op # "feedback"
    \/ l \in {"get_old", "ingest_old"} /\ c.op = "write"
    \/ l = "ingest_new"

MirrorLocals(l, c) ==
    /\ Unindexed(l, c) => file[c.new] = c.buf /\ c.new # c.old
    /\ l \in {"feedback_path", "feedback_ingest", "ingest_old"} => c.patch = file[c.old]
    /\ l = "forget_index" => file[c.old] = NONE
    /\ l = "rebuild_commit" => c.walk = file
    /\ l \in {"probe", "probe_get", "policy", "commit"} => NoTwin(c.cand)
    /\ l = "vault_write" /\ c.op # "write" => NoTwin(c.buf)

MirrorInv ==
    /\ dirty \subseteq used /\ gated \subseteq used
    /\ wbuf # NONE => wbuf[1] \in used /\ Shows(wbuf[2], wbuf[1])
    /\ \A id \in Ids : \/ Shows(index[id], id)
                       \/ \E t \in Threads : Unindexed(pc[t], call[t]) /\ call[t].new = id
    /\ NoDuplicateValid
    /\ \A t \in Threads : MirrorLocals(pc[t], call[t])

-----------------------------------------------------------------------------
(* Graduation.                                                             *)

\* Nothing is made of record id: neither a candidate nor a skill.
Unmarked(id) ==
    /\ \A i \in queue : i.cand.from # id
    /\ \A r \in Ids : file[r] # NONE => file[r].from # id

\* The call carries a candidate through the gate.
Carries(l, c) ==
    \/ l \in {"dedup", "probe", "probe_get", "policy", "queue_push", "commit"}
    \/ l = "queue_lock" /\ c.op \notin {"approve", "reject"}

\* A candidate that comes of a record is the first to do so, and so is each that
\* the scan has still to submit.
GraduateLocals(l, c) ==
    /\ l = "graduate_queue" => c.walk = file
    /\ Carries(l, c) /\ c.cand.from # NONE =>
            Unmarked(c.cand.from) /\ \A k \in c.todo : k.from # c.cand.from
    /\ l = "vault_write" /\ c.buf.from # NONE => Unmarked(c.buf.from)
    /\ \A k \in c.todo : k.from \in Ids /\ Unmarked(k.from)
    /\ \A k, m \in c.todo : k.from = m.from => k = m

GraduateInv ==
    /\ GraduatedOnce
    /\ \A t \in Threads : pc[t] \in Locked => snap[t] = queue
    /\ \A t \in Threads : GraduateLocals(pc[t], call[t])


-----------------------------------------------------------------------------
(* VaultInv is kept.                                                       *)

\* A step after which the call's locals are as claimed.
LEMMA VaultKeeps ==
  ASSUME OneCaller, VaultInv, NEW t \in Threads, UNCHANGED <<file, used, gone>>,
         VaultLocals(pc[t], call[t])'
  PROVE  VaultInv'
<1>1. \A u \in Threads : u = t
  BY DEF OneCaller
<1> QED BY <1>1 DEF VaultInv, ForgottenStaysGone

\* A step that reads at most: the new id stays unwritten, the old record stays.
LEMMA CalmVault ==
  ASSUME OneCaller, VaultInv, NEW t \in Threads, UNCHANGED <<file, used, gone>>,
         pc'[t] \notin {"patch_tmp", "patch_rename"},
         pc'[t] \in Unwritten => pc[t] \in Unwritten /\ call'[t].new = call[t].new,
         pc'[t] \in Holding => pc[t] \in Holding /\ call'[t].old = call[t].old
  PROVE  VaultInv'
<1>1. VaultLocals(pc[t], call[t])
  BY DEF VaultInv
<1>2. PICK n, o : n = call'[t].new /\ o = call'[t].old
  OBVIOUS
<1>3. pc'[t] \in Unwritten => n \notin used'
  BY <1>1, <1>2 DEF VaultLocals
<1>4. pc'[t] \in Holding /\ o # NONE => file'[o] # NONE
  BY <1>1, <1>2 DEF VaultLocals
<1>5. VaultLocals(pc[t], call[t])'
  BY <1>2, <1>3, <1>4 DEF VaultLocals, Unwritten, Holding
<1> QED BY <1>5, VaultKeeps

\* A call that returns holds nothing.
LEMMA ReturnVault ==
  ASSUME TypeOK, OneCaller, VaultInv, NEW t \in Threads, Abort(t) \/ Return(t),
         UNCHANGED <<file, used, gone>>
  PROVE  VaultInv'
<1>1. call'[t].new = NONE
  <2>1. CASE Abort(t)
    BY <2>1 DEF Abort, Blank, TypeOK
  <2>2. CASE Return(t) /\ ~Abort(t)
    <3> DEFINE c == [Blank EXCEPT !.op = call[t].op, !.todo = call[t].todo]
    <3>1. call' = [call EXCEPT ![t] = c]
      BY <2>2 DEF Return
    <3>2. c.new = NONE
      BY DEF Blank
    <3> HIDE DEF c
    <3> QED BY <3>1, <3>2 DEF TypeOK
  <2> QED BY <2>1, <2>2
<1>2. pc'[t] \in {"idle", "graduate_next"}
  BY ReturnEnds DEF TypeOK, CallTypes
<1>3. NONE \notin used'
  BY ConstantsAssumption DEF TypeOK
<1>4. VaultLocals(pc[t], call[t])'
  BY <1>1, <1>2, <1>3 DEF VaultLocals, Holding
<1> QED BY <1>4, VaultKeeps

LEMMA StartVault ==
  ASSUME TypeOK, OneCaller, VaultInv, NEW t \in Threads, Start(t)
  PROVE  VaultInv'
<1>0. CallTypes /\ NONE \notin used
  BY ConstantsAssumption DEF TypeOK, CallTypes
<1>1. ASSUME NEW op, NEW l, NEW c, Begin(t, op, l, c),
             l \notin {"patch_tmp", "patch_rename"},
             l \in Unwritten => c.new \notin used,
             l \in Holding /\ c.old # NONE => file[c.old] # NONE
      PROVE  VaultInv'
  <2>1. /\ pc'[t] = l /\ call'[t] = c /\ UNCHANGED <<file, used, gone>>
    BY <1>0, <1>1 DEF Begin, Goto, CallTypes, disk, histories
  <2>2. VaultLocals(pc[t], call[t])'
    BY <1>1, <2>1 DEF VaultLocals
  <2> QED BY <2>1, <2>2, VaultKeeps
<1>2. CASE memory_write(t)
  <2>1. PICK id \in Fresh, b \in Bodies, s \in Scopes, k \in Kinds,
             old \in {NONE} \cup {i \in Ids : file[i] # NONE} :
           Begin(t, "write", "vault_write",
                 [Blank EXCEPT !.op = "write", !.new = id, !.old = old,
                               !.buf = new_record([body |-> b, scope |-> s, kind |-> k,
                                                   from |-> NONE, corrects |-> old])])
    BY <1>2 DEF memory_write
  <2> DEFINE r == new_record([body |-> b, scope |-> s, kind |-> k,
                              from |-> NONE, corrects |-> old])
             c == [Blank EXCEPT !.op = "write", !.new = id, !.old = old, !.buf = r]
  <2>2. Begin(t, "write", "vault_write", c)
    BY <2>1
  <2> HIDE DEF r
  <2>3. c.new = id /\ c.old = old
    BY DEF Blank
  <2> HIDE DEF c
  <2>4. id \notin used
    BY DEF Fresh
  <2> QED BY <1>1, <2>2, <2>3, <2>4
<1>3. CASE memory_feedback(t)
  <2>1. PICK id \in {i \in Ids : file[i] # NONE}, gain \in 0..2 :
           Begin(t, "feedback", "patch_get",
                 [Blank EXCEPT !.op = "feedback", !.old = id, !.gain = gain])
    BY <1>3 DEF memory_feedback
  <2> DEFINE c == [Blank EXCEPT !.op = "feedback", !.old = id, !.gain = gain]
  <2>2. Begin(t, "feedback", "patch_get", c)
    BY <2>1
  <2>3. c.old = id
    BY DEF Blank
  <2> HIDE DEF c
  <2> QED BY <1>1, <2>2, <2>3 DEF Unwritten
<1>4. CASE memory_forget(t)
  BY <1>1, <1>4 DEF memory_forget, Unwritten, Holding
<1>5. CASE memory_promote(t)
  <2>1. PICK id \in Fresh, b \in Bodies, s \in Scopes, k \in Kinds,
             old \in {NONE} \cup used :
           Begin(t, "promote", "dedup",
                 [Blank EXCEPT !.op = "promote", !.new = id,
                               !.cand = [body |-> b, scope |-> s, kind |-> k,
                                         from |-> NONE, corrects |-> old]])
    BY <1>5 DEF memory_promote
  <2> DEFINE d == [body |-> b, scope |-> s, kind |-> k, from |-> NONE, corrects |-> old]
             c == [Blank EXCEPT !.op = "promote", !.new = id, !.cand = d]
  <2>2. Begin(t, "promote", "dedup", c)
    BY <2>1
  <2> HIDE DEF d
  <2>3. c.new = id
    BY DEF Blank
  <2> HIDE DEF c
  <2>4. id \notin used
    BY DEF Fresh
  <2> QED BY <1>1, <2>2, <2>3, <2>4 DEF Holding
<1>6. CASE review(t)
  <2>1. PICK q \in 1..issued :
          \/ \E id \in Fresh :
                Begin(t, "approve", "queue_lock",
                      [Blank EXCEPT !.op = "approve", !.new = id, !.qid = q])
          \/ Begin(t, "reject", "queue_lock", [Blank EXCEPT !.op = "reject", !.qid = q])
    BY <1>6 DEF review
  <2>2. ASSUME NEW id \in Fresh,
               Begin(t, "approve", "queue_lock",
                     [Blank EXCEPT !.op = "approve", !.new = id, !.qid = q])
        PROVE  VaultInv'
    <3> DEFINE c == [Blank EXCEPT !.op = "approve", !.new = id, !.qid = q]
    <3>1. c.new \notin used /\ Begin(t, "approve", "queue_lock", c)
      BY <2>2 DEF Blank, Fresh
    <3> HIDE DEF c
    <3> QED BY <1>1, <3>1 DEF Holding
  <2>3. CASE Begin(t, "reject", "queue_lock", [Blank EXCEPT !.op = "reject", !.qid = q])
    <3> DEFINE c == [Blank EXCEPT !.op = "reject", !.qid = q]
    <3>1. c.new \notin used /\ Begin(t, "reject", "queue_lock", c)
      BY <1>0, <2>3 DEF Blank
    <3> HIDE DEF c
    <3> QED BY <1>1, <3>1 DEF Holding
  <2> QED BY <2>1, <2>2, <2>3
<1>7. CASE graduate(t)
  <2> DEFINE c == [Blank EXCEPT !.op = "graduate"]
  <2>1. c.new \notin used /\ Begin(t, "graduate", "graduate_walk", c)
    BY <1>0, <1>7 DEF Blank, graduate
  <2> HIDE DEF c
  <2> QED BY <1>1, <2>1 DEF Holding
<1>8. CASE rebuild(t)
  BY <1>1, <1>8 DEF rebuild, Unwritten, Holding
<1> QED BY <1>2, <1>3, <1>4, <1>5, <1>6, <1>7, <1>8 DEF Start


\* The calls' reads, the index and the gate.
LEMMA CalmSteps ==
  ASSUME TypeOK, OneCaller, VaultInv, NEW t \in Threads,
         \/ forget_index(t) \/ ingest_new(t) \/ get_old(t) \/ ingest_old(t)
         \/ feedback_path(t) \/ feedback_ingest(t) \/ rebuild_walk(t) \/ rebuild_commit(t)
         \/ dedup(t) \/ probe(t) \/ probe_get(t) \/ policy(t)
         \/ queue_lock(t) \/ queue_push(t) \/ queue_take(t) \/ materialize_skill(t)
         \/ graduate_walk(t) \/ graduate_queue(t) \/ graduate_next(t)
  PROVE  VaultInv' /\ UNCHANGED <<file, tmp, used, gone, links, gated>>
<1>1. CallTypes /\ call[t] \in Call
  BY DEF TypeOK, CallTypes
<1>2. UNCHANGED <<file, tmp, used, gone, links, gated>>
  <2>1. CASE \/ forget_index(t) \/ ingest_new(t) \/ get_old(t) \/ ingest_old(t)
             \/ feedback_path(t) \/ feedback_ingest(t) \/ rebuild_walk(t)
             \/ rebuild_commit(t)
    BY <2>1 DEF forget_index, ingest_new, get_old, ingest_old, feedback_path,
                feedback_ingest, rebuild_walk, rebuild_commit, OnlyIndex, disk, histories
  <2>2. CASE ~(\/ forget_index(t) \/ ingest_new(t) \/ get_old(t) \/ ingest_old(t)
               \/ feedback_path(t) \/ feedback_ingest(t) \/ rebuild_walk(t)
               \/ rebuild_commit(t))
    BY <2>2 DEF dedup, probe, probe_get, policy, queue_lock, queue_push, queue_take,
                materialize_skill, graduate_walk, graduate_queue, graduate_next, Local,
                disk, histories
  <2> QED BY <2>1, <2>2
<1>3. CASE Abort(t) \/ Return(t)
  BY <1>2, <1>3, ReturnVault
<1>4. ASSUME ~Abort(t), ~Return(t) PROVE VaultInv'
  <2>1. ASSUME pc[t] \in Unwritten, pc'[t] \in Unwritten \ {"vault_write"},
               call'[t].new = call[t].new
        PROVE  VaultInv'
    BY <1>2, <2>1, CalmVault DEF Unwritten, Holding
  <2>2. ASSUME pc[t] \in Holding,
               pc'[t] \in {"get_old", "ingest_old", "ingest_new", "feedback_ingest",
                           "materialize_skill"},
               call'[t].old = call[t].old
        PROVE  VaultInv'
    BY <1>2, <2>2, CalmVault DEF Unwritten
  <2>3. CASE dedup(t) \/ policy(t) \/ queue_lock(t)
    <3>1. /\ \E l \in Unwritten \ {"vault_write"} : Goto(t, l)
          /\ pc[t] \in Unwritten /\ call' = call
      BY <1>4, <2>3 DEF dedup, policy, queue_lock, At, Unwritten
    <3> QED BY <1>1, <2>1, <3>1 DEF Goto, CallTypes
  <2>4. CASE probe(t) \/ probe_get(t) \/ queue_take(t)
    <3>1. /\ \E l \in Unwritten \ {"vault_write"} : Goto(t, l)
          /\ pc[t] \in Unwritten
      BY <1>4, <2>4 DEF probe, probe_get, queue_take, At, Unwritten
    <3>2. \E o, d : \/ call' = [call EXCEPT ![t].old = o]
                    \/ call' = [call EXCEPT ![t].old = NONE, ![t].cand.corrects = d]
                    \/ call' = [call EXCEPT ![t].cand = d]
      BY <1>4, <2>4 DEF probe, probe_get, queue_take
    <3>3. call'[t].new = call[t].new
      BY <1>1, <3>2 DEF CallTypes, Call
    <3> QED BY <1>1, <2>1, <3>1, <3>3 DEF Goto, CallTypes
  <2>5. CASE graduate_walk(t) \/ graduate_queue(t) \/ graduate_next(t)
    <3>1. /\ \E l \in Unwritten \ {"vault_write"} : Goto(t, l)
          /\ pc[t] \in Unwritten
      BY <1>4, <2>5 DEF graduate_walk, graduate_queue, graduate_next, At, Unwritten
    <3>2. \E w, d : \/ call' = [call EXCEPT ![t].walk = w]
                    \/ call' = [call EXCEPT ![t].walk = w, ![t].todo = d]
                    \/ call' = [call EXCEPT ![t].cand = w, ![t].todo = @ \ {w}]
      BY <1>4, <2>5 DEF graduate_walk, graduate_queue, graduate_next
    <3>3. call'[t].new = call[t].new
      BY <1>1, <3>2 DEF CallTypes, Call
    <3> QED BY <1>1, <2>1, <3>1, <3>3 DEF Goto, CallTypes
  <2>6. CASE ingest_new(t) \/ ingest_old(t) \/ feedback_path(t)
    <3>1. /\ \E l \in {"get_old", "ingest_new", "feedback_ingest", "materialize_skill"} :
                Goto(t, l)
          /\ pc[t] \in Holding /\ call' = call
      BY <1>4, <2>6 DEF ingest_new, ingest_old, feedback_path, Committed, At, Holding
    <3> QED BY <1>1, <2>2, <3>1 DEF Goto, CallTypes
  <2>7. CASE get_old(t)
    <3>1. Goto(t, "ingest_old") /\ pc[t] \in Holding
          /\ \E r : call' = [call EXCEPT ![t].patch = r]
      BY <1>4, <2>7 DEF get_old, At, Holding
    <3>2. call'[t].old = call[t].old
      BY <1>1, <3>1 DEF CallTypes, Call
    <3> QED BY <1>1, <2>2, <3>1, <3>2 DEF Goto, CallTypes
  <2>8. CASE rebuild_walk(t)
    <3>1. Goto(t, "rebuild_commit")
      BY <2>8 DEF rebuild_walk
    <3>2. pc'[t] = "rebuild_commit"
      BY <1>1, <3>1 DEF Goto, CallTypes
    <3> QED BY <1>2, <3>2, CalmVault DEF Unwritten, Holding
  <2>9. forget_index(t) \/ feedback_ingest(t) \/ rebuild_commit(t) \/ queue_push(t)
        \/ materialize_skill(t) => Return(t)
    BY DEF forget_index, feedback_ingest, rebuild_commit, queue_push, materialize_skill
  <2> QED BY <1>4, <2>3, <2>4, <2>5, <2>6, <2>7, <2>8, <2>9
<1> QED BY <1>2, <1>3, <1>4


LEMMA PatchFollows ==
  ASSUME NEW c, NEW r \in Record, clock \in Nat, c.op = "feedback" => c.gain \in 0..2
  PROVE  /\ Follows(Patched(c, r), r)
         /\ c.op = "feedback" => Patched(c, r).uses > r.uses
<1>0. Patched(c, r) # NONE
  BY PatchedType, ConstantsAssumption
<1>1. CASE c.op = "feedback"
  <2> DEFINE u == r.uses + 1
             s == r.successes + c.gain
  <2>1. Patched(c, r) = [r EXCEPT !.uses = u, !.successes = s]
    BY <1>1 DEF Patched
  <2>2. u > r.uses /\ u >= r.uses
    BY DEF Record
  <2> HIDE DEF u, s
  <2>3. /\ Patched(c, r).body = r.body /\ Patched(c, r).scope = r.scope
        /\ Patched(c, r).from = r.from /\ Patched(c, r).invalid_at = r.invalid_at
        /\ Patched(c, r).uses = u
    BY <2>1 DEF Record
  <2> QED BY <1>0, <2>2, <2>3 DEF Follows
<1>2. CASE c.op # "feedback"
  <2>1. /\ Patched(c, r).body = r.body /\ Patched(c, r).scope = r.scope
        /\ Patched(c, r).from = r.from /\ Patched(c, r).invalid_at = clock
        /\ Patched(c, r).uses = r.uses
    BY <1>2 DEF Patched, Record
  <2>2. clock # NONE /\ r.uses >= r.uses
    BY ConstantsAssumption DEF Record
  <2> QED BY <1>0, <1>2, <2>1, <2>2 DEF Follows
<1> QED BY <1>1, <1>2

\* The gate lets a correction through only to a record that is there.
LEMMA CommitVault ==
  ASSUME TypeOK, OneCaller, VaultInv, NEW t \in Threads, commit(t)
  PROVE  VaultInv' /\ UNCHANGED <<file, tmp, used, gone, links, gated>>
<1>1. CallTypes /\ call[t] \in Call
  BY DEF TypeOK, CallTypes
<1>2. UNCHANGED <<file, tmp, used, gone, links, gated>>
  BY DEF commit, disk
<1>3. CASE Abort(t)
  BY <1>2, <1>3, ReturnVault
<1>4. CASE ~Abort(t)
  <2> DEFINE r == new_record(call[t].cand)
             x == call[t].cand.corrects
  <2>1. /\ pc[t] = "commit" /\ Goto(t, "vault_write")
        /\ call' = [call EXCEPT ![t].buf = r, ![t].old = x]
        /\ x = NONE \/ file[x] # NONE
    BY <1>4 DEF commit, At
  <2> HIDE DEF r, x
  <2>2. pc'[t] = "vault_write" /\ call'[t].old = x /\ call'[t].new = call[t].new
    BY <1>1, <2>1 DEF Goto, CallTypes, Call
  <2>3. call[t].new \notin used
    BY <2>1 DEF VaultInv, VaultLocals, Unwritten
  <2>4. VaultLocals(pc[t], call[t])'
    BY <1>2, <2>1, <2>2, <2>3 DEF VaultLocals
  <2> QED BY <1>2, <2>4, VaultKeeps
<1> QED BY <1>2, <1>3, <1>4

\* An old record is patched on a copy of what is still in its file.
LEMMA PatchVault ==
  ASSUME TypeOK, LocalsOK, OneCaller, VaultInv, NEW t \in Threads,
         patch_get(t) \/ patch_tmp(t)
  PROVE  VaultInv' /\ UNCHANGED <<file, used, gone, links, gated>>
<1> DEFINE c == call[t]
           o == c.old
<1>0. /\ CallTypes /\ c \in Call /\ VaultLocals(pc[t], c) /\ Locals(pc[t], c)
      /\ file \in Rows /\ tmp \in Rows /\ clock \in Nat
  BY DEF TypeOK, CallTypes, VaultInv, LocalsOK
<1>1. UNCHANGED <<file, used, gone, links, gated>>
  BY DEF patch_get, patch_tmp, disk, histories
<1>2. CASE patch_get(t)
  <2> DEFINE r == Patched(c, file[o])
  <2>1. pc[t] = "patch_get" /\ o \in Ids /\ file[o] # NONE
    BY <1>0, <1>2, ConstantsAssumption DEF patch_get, At, Locals, VaultLocals, Holding
  <2>2. Goto(t, "patch_tmp") /\ call' = [call EXCEPT ![t].patch = r]
    BY <1>2, <2>1 DEF patch_get
  <2>3. file[o] \in Record
    BY <1>0, <2>1 DEF Rows
  <2>4. Follows(r, file[o]) /\ (c.op = "feedback" => r.uses > file[o].uses)
    BY <1>0, <2>1, <2>3, PatchFollows DEF Locals
  <2> HIDE DEF r
  <2>5. /\ pc'[t] = "patch_tmp" /\ call'[t].patch = r /\ call'[t].old = o
        /\ call'[t].op = c.op
    BY <1>0, <2>2 DEF Goto, CallTypes, Call
  <2>6. VaultLocals(pc[t], call[t])'
    BY <1>1, <2>1, <2>4, <2>5 DEF VaultLocals, Unwritten
  <2> QED BY <1>1, <2>6, VaultKeeps
<1>3. CASE patch_tmp(t)
  <2>1. /\ pc[t] = "patch_tmp" /\ o \in Ids /\ tmp' = [tmp EXCEPT ![o] = c.patch]
        /\ Goto(t, "patch_rename") /\ call' = call
    BY <1>0, <1>3 DEF patch_tmp, At, Locals
  <2>2. tmp'[o] = c.patch /\ pc'[t] = "patch_rename"
    BY <1>0, <2>1 DEF Rows, Goto, CallTypes
  <2>3. VaultLocals(pc[t], call[t])'
    BY <1>0, <1>1, <2>1, <2>2 DEF VaultLocals, Unwritten, Holding
  <2> QED BY <1>1, <2>3, VaultKeeps
<1> QED BY <1>1, <1>2, <1>3

\* The rename puts the copy in place.
LEMMA RenameVault ==
  ASSUME TypeOK, LocalsOK, OneCaller, VaultInv, NEW t \in Threads, patch_rename(t)
  PROVE  /\ VaultInv' /\ UNCHANGED <<used, gone, links, gated, queue, call>>
         /\ call[t].old \in Ids /\ file[call[t].old] # NONE
         /\ file' = [file EXCEPT ![call[t].old] = call[t].patch]
         /\ pc[t] = "patch_rename"
         /\ pc'[t] = CASE call[t].op = "feedback" -> "feedback_path"
                       [] call[t].op = "write" -> "get_old"
                       [] OTHER -> "ingest_new"
<1> DEFINE c == call[t]
           o == c.old
           l == CASE c.op = "feedback" -> "feedback_path"
                  [] c.op = "write" -> "get_old"
                  [] OTHER -> "ingest_new"
<1>0. /\ CallTypes /\ c \in Call /\ VaultLocals(pc[t], c) /\ Locals(pc[t], c)
      /\ file \in Rows
  BY DEF TypeOK, CallTypes, VaultInv, LocalsOK
<1>1. /\ pc[t] = "patch_rename" /\ o \in Ids /\ file[o] # NONE /\ tmp[o] = c.patch
      /\ Follows(c.patch, file[o])
  BY <1>0, ConstantsAssumption DEF patch_rename, At, Locals, VaultLocals, Holding
<1>2. c.patch # NONE
  BY <1>1 DEF Follows
<1>3. /\ file' = [file EXCEPT ![o] = c.patch] /\ Goto(t, l) /\ call' = call
      /\ UNCHANGED <<used, gone, links, gated, queue>>
  BY <1>1, <1>2 DEF patch_rename, histories
<1>4. pc'[t] = l
  BY <1>0, <1>3 DEF Goto, CallTypes
<1>5. l \in {"feedback_path", "get_old", "ingest_new"}
  OBVIOUS
<1> HIDE DEF l
<1>6. file'[o] = c.patch /\ \A id \in Ids \ {o} : file'[id] = file[id]
  BY <1>0, <1>1, <1>3 DEF Rows
<1>7. VaultLocals(pc[t], call[t])'
  BY <1>2, <1>3, <1>4, <1>5, <1>6 DEF VaultLocals, Unwritten
<1>8. /\ \A id \in Ids : file'[id] # NONE => id \in used
      /\ \A id \in gone' : file'[id] = NONE
      /\ gone \subseteq used
  BY <1>1, <1>3, <1>6 DEF VaultInv, ForgottenStaysGone, TypeOK
<1>9. VaultInv'
  BY <1>3, <1>7, <1>8 DEF VaultInv, ForgottenStaysGone, OneCaller
<1> QED BY <1>1, <1>3, <1>4, <1>9 DEF l

\* A new record takes an id that no record ever had.
LEMMA WriteVault ==
  ASSUME TypeOK, LocalsOK, OneCaller, VaultInv, NEW t \in Threads, vault_write(t)
  PROVE  VaultInv' /\ call[t].new \in Ids \ used /\ file[call[t].new] = NONE
<1> DEFINE c == call[t]
<1>0. /\ CallTypes /\ c \in Call /\ VaultLocals(pc[t], c) /\ Locals(pc[t], c)
      /\ file \in Rows
  BY DEF TypeOK, CallTypes, VaultInv, LocalsOK
<1>1. /\ pc[t] = "vault_write" /\ c.new \in Ids \ used /\ c.buf \in Record /\ c.buf # NONE
      /\ c.old # NONE => file[c.old] # NONE /\ c.old \in Ids
  BY <1>0, ConstantsAssumption
     DEF vault_write, At, Locals, VaultLocals, Unwritten, Holding, Call
<1>2. /\ file' = [file EXCEPT ![c.new] = c.buf] /\ used' = used \cup {c.new}
      /\ gone' = gone /\ call' = call
      /\ Goto(t, IF c.old = NONE THEN "ingest_new" ELSE "patch_get")
  BY DEF vault_write
<1>3. file[c.new] = NONE
  BY <1>1 DEF VaultInv
<1>4. file'[c.new] = c.buf /\ \A id \in Ids \ {c.new} : file'[id] = file[id]
  BY <1>0, <1>1, <1>2 DEF Rows
<1>5. pc'[t] = IF c.old = NONE THEN "ingest_new" ELSE "patch_get"
  BY <1>0, <1>2 DEF Goto, CallTypes
<1>6. VaultLocals(pc[t], call[t])'
  BY <1>1, <1>2, <1>4, <1>5 DEF VaultLocals, Unwritten
<1>7. /\ \A id \in Ids : file'[id] # NONE => id \in used'
      /\ gone \subseteq used'
      /\ \A id \in gone' : file'[id] = NONE
  BY <1>1, <1>2, <1>4 DEF VaultInv, ForgottenStaysGone, TypeOK
<1>8. VaultInv'
  BY <1>2, <1>6, <1>7 DEF VaultInv, ForgottenStaysGone, OneCaller
<1> QED BY <1>1, <1>3, <1>8

LEMMA ForgetVault ==
  ASSUME TypeOK, LocalsOK, OneCaller, VaultInv, NEW t \in Threads, forget_file(t)
  PROVE  /\ VaultInv' /\ UNCHANGED <<used, links, gated, queue>>
         /\ call[t].old \in Ids
         /\ file' = [file EXCEPT ![call[t].old] = NONE]
<1> DEFINE c == call[t]
           o == c.old
<1>0. /\ CallTypes /\ c \in Call /\ Locals(pc[t], c) /\ file \in Rows
  BY DEF TypeOK, CallTypes, LocalsOK
<1>1. pc[t] = "forget_file" /\ o \in Ids /\ UNCHANGED <<used, links, gated, queue>>
  BY <1>0 DEF forget_file, At, Locals
<1>2. CASE file[o] = NONE
  <2>1. Abort(t) /\ UNCHANGED <<file, used, gone>>
    BY <1>2 DEF forget_file
  <2>2. file' = [file EXCEPT ![o] = NONE]
    BY <1>0, <1>1, <1>2, <2>1 DEF Rows
  <2> QED BY <1>1, <2>1, <2>2, ReturnVault
<1>3. CASE file[o] # NONE
  <2>1. /\ file' = [file EXCEPT ![o] = NONE] /\ gone' = gone \cup {o}
        /\ Goto(t, "forget_index")
    BY <1>3 DEF forget_file
  <2>2. pc'[t] = "forget_index"
    BY <1>0, <2>1 DEF Goto, CallTypes
  <2>3. file'[o] = NONE /\ \A id \in Ids \ {o} : file'[id] = file[id]
    BY <1>0, <1>1, <2>1 DEF Rows
  <2>4. VaultLocals(pc[t], call[t])'
    BY <2>2 DEF VaultLocals, Unwritten, Holding
  <2>5. /\ \A id \in Ids : file'[id] # NONE => id \in used'
        /\ gone' \subseteq used'
        /\ \A id \in gone' : file'[id] = NONE
    BY <1>1, <1>3, <2>1, <2>3 DEF VaultInv, ForgottenStaysGone, TypeOK
  <2>6. VaultInv'
    BY <2>4, <2>5 DEF VaultInv, ForgottenStaysGone, OneCaller
  <2> QED BY <1>1, <2>1, <2>6
<1> QED BY <1>2, <1>3


LEMMA VaultStep ==
  ASSUME TypeOK, LocalsOK, OneCaller, VaultInv, [Next]_vars
  PROVE  VaultInv'
<1>1. ASSUME NEW t \in Threads, Start(t) PROVE VaultInv'
  BY <1>1, StartVault
<1>2. ASSUME NEW t \in Threads, Step(t) PROVE VaultInv'
  BY <1>2, CalmSteps, CommitVault, PatchVault, RenameVault, WriteVault, ForgetVault
     DEF Step
<1>3. CASE Watch \/ Tick \/ UNCHANGED vars
  <2>1. UNCHANGED <<file, tmp, used, gone, pc, call>>
    BY <1>3 DEF Watch, watch_load, watch_apply, Tick, vars, disk, histories
  <2> QED BY <2>1 DEF VaultInv, ForgottenStaysGone, VaultLocals
<1>4. CASE Crash
  <2>1. UNCHANGED <<file, used, gone>> /\ \A t \in Threads : pc'[t] = "idle"
    BY <1>4 DEF Crash, histories
  <2> QED BY <2>1 DEF VaultInv, ForgottenStaysGone, VaultLocals, Unwritten, Holding
<1> QED BY <1>1, <1>2, <1>3, <1>4 DEF Next

LEMMA InitVault == Init => VaultInv
<1> SUFFICES ASSUME Init PROVE VaultInv
  OBVIOUS
<1>1. (\A id \in Ids : file[id] = NONE) /\ gone = {} /\ \A t \in Threads : pc[t] = "idle"
  BY DEF Init
<1> QED BY <1>1 DEF VaultInv, ForgottenStaysGone, VaultLocals, Unwritten, Holding

\* Every record in the vault follows what it was; only a write adds one.
Followed ==
    \A id \in Ids : file'[id] # NONE => file[id] # NONE /\ Follows(file'[id], file[id])

LEMMA SameFollowed ==
  ASSUME TypeOK, UNCHANGED file
  PROVE  Followed
<1> SUFFICES ASSUME NEW id \in Ids, file[id] # NONE PROVE Follows(file[id], file[id])
  BY DEF Followed
<1>1. file[id] \in Record
  BY DEF TypeOK, Rows
<1>2. file[id].uses >= file[id].uses
  BY <1>1 DEF Record
<1> QED BY <1>2 DEF Follows

LEMMA StepFollowed ==
  ASSUME TypeOK, LocalsOK, OneCaller, VaultInv, NEW t \in Threads,
         Step(t), ~vault_write(t)
  PROVE  Followed
<1>0. file \in Rows
  BY DEF TypeOK
<1>1. CASE patch_rename(t)
  <2> DEFINE o == call[t].old
  <2>1. /\ pc[t] = "patch_rename" /\ o \in Ids /\ file[o] # NONE
        /\ file' = [file EXCEPT ![o] = call[t].patch]
    BY <1>1, RenameVault
  <2>2. Follows(call[t].patch, file[o])
    BY <2>1 DEF VaultInv, VaultLocals
  <2>3. \A id \in Ids : file'[id] = IF id = o THEN call[t].patch ELSE file[id]
    BY <1>0, <2>1 DEF Rows
  <2>4. \A id \in Ids : file[id] # NONE => Follows(file[id], file[id])
    BY SameFollowed DEF Follows, TypeOK, Rows, Record
  <2> QED BY <2>1, <2>2, <2>3, <2>4 DEF Followed
<1>2. CASE forget_file(t)
  <2> DEFINE o == call[t].old
  <2>1. o \in Ids /\ file' = [file EXCEPT ![o] = NONE]
    BY <1>2, ForgetVault
  <2>2. \A id \in Ids : file'[id] # NONE => file'[id] = file[id]
    BY <1>0, <2>1 DEF Rows
  <2>4. \A id \in Ids : file[id] # NONE => Follows(file[id], file[id])
    BY DEF Follows, TypeOK, Rows, Record
  <2> QED BY <2>2, <2>4 DEF Followed
<1>3. CASE ~patch_rename(t) /\ ~forget_file(t)
  <2>1. UNCHANGED file
    BY <1>3, CalmSteps, CommitVault, PatchVault DEF Step
  <2> QED BY <2>1, SameFollowed
<1> QED BY <1>1, <1>2, <1>3

\* With calls made one at a time, a forgotten record does not come back: a call
\* writes a copy of an old record only over a file that is there, and a new one only
\* under an id that no record had.
THEOREM ForgottenIsForgotten == OneCaller => (Spec => []ForgottenStaysGone)
<1> SUFFICES ASSUME OneCaller PROVE Spec => []ForgottenStaysGone
  OBVIOUS
<1>1. TypeOK /\ LocalsOK /\ VaultInv /\ [Next]_vars => VaultInv'
  BY VaultStep
<1>2. VaultInv => ForgottenStaysGone
  BY DEF VaultInv
<1> QED BY InitVault, <1>1, <1>2, TypeCorrect, PTL DEF Spec

\* With calls made one at a time, a superseded record never becomes valid again,
\* whatever feedback it gets and whatever the watcher does.
THEOREM SupersededForGood == OneCaller => (Spec => InvalidStaysInvalid)
<1> SUFFICES ASSUME OneCaller PROVE Spec => InvalidStaysInvalid
  OBVIOUS
<1>1. TypeOK /\ LocalsOK /\ VaultInv /\ [Next]_vars => VaultInv'
  BY VaultStep
<1>2. TypeOK /\ LocalsOK /\ VaultInv /\ [Next]_vars
      => [\A id \in Ids : file[id] # NONE /\ file[id].invalid_at # NONE
                            => ~IsValid(file'[id])]_vars
  <2> SUFFICES ASSUME TypeOK, LocalsOK, VaultInv, Next, NEW id \in Ids,
                      file[id] # NONE, file[id].invalid_at # NONE
               PROVE  ~IsValid(file'[id])
    OBVIOUS
  <2>1. CASE Followed
    BY <2>1 DEF Followed, Follows, IsValid
  <2>2. CASE UNCHANGED file
    BY <2>2, SameFollowed, <2>1
  <2>3. ASSUME NEW t \in Threads, vault_write(t) PROVE ~IsValid(file'[id])
    <3>1. call[t].new \in Ids /\ file[call[t].new] = NONE
      BY <2>3, WriteVault
    <3>2. file'[id] = file[id]
      BY <2>3, <3>1 DEF vault_write, TypeOK, Rows
    <3> QED BY <3>2 DEF IsValid
  <2>4. ASSUME NEW t \in Threads, Step(t), ~vault_write(t) PROVE ~IsValid(file'[id])
    BY <2>1, <2>4, StepFollowed
  <2>5. ASSUME NEW t \in Threads, Start(t) PROVE UNCHANGED file
    BY <2>5 DEF Start, memory_write, memory_feedback, memory_forget, memory_promote,
                review, graduate, rebuild, Begin, disk
  <2>6. Watch \/ Tick \/ Crash => UNCHANGED file
    BY DEF Watch, watch_load, watch_apply, Tick, Crash, disk
  <2> QED BY <2>2, <2>3, <2>4, <2>5, <2>6 DEF Next
<1> QED BY InitVault, <1>1, <1>2, TypeCorrect, PTL DEF Spec, InvalidStaysInvalid


-----------------------------------------------------------------------------
(* The points of a call.                                                   *)

\* The order in which a call passes them.
Flows(l, m) ==
    \/ m \in {"idle", "graduate_next"}
    \/ l = "vault_write" /\ m \in {"ingest_new", "patch_get"}
    \/ l = "patch_get" /\ m = "patch_tmp"
    \/ l = "patch_tmp" /\ m = "patch_rename"
    \/ l = "patch_rename" /\ m \in {"feedback_path", "get_old", "ingest_new"}
    \/ l = "forget_file" /\ m = "forget_index"
    \/ l = "ingest_new" /\ m \in {"get_old", "materialize_skill"}
    \/ l = "get_old" /\ m = "ingest_old"
    \/ l = "ingest_old" /\ m \in {"ingest_new", "materialize_skill"}
    \/ l = "feedback_path" /\ m = "feedback_ingest"
    \/ l = "rebuild_walk" /\ m = "rebuild_commit"
    \/ l = "dedup" /\ m \in {"commit", "probe", "policy"}
    \/ l = "probe" /\ m \in {"probe_get", "policy"}
    \/ l = "probe_get" /\ m = "policy"
    \/ l = "policy" /\ m \in {"queue_lock", "commit"}
    \/ l = "queue_lock" /\ m \in {"queue_take", "queue_push"}
    \/ l = "queue_take" /\ m = "dedup"
    \/ l = "commit" /\ m = "vault_write"
    \/ l = "graduate_walk" /\ m = "graduate_queue"
    \/ l = "graduate_next" /\ m = "dedup"

LEMMA StepFlows ==
  ASSUME CallTypes, NEW t \in Threads, Step(t)
  PROVE  Flows(pc[t], pc'[t])
<1>1. CASE Abort(t) \/ Return(t)
  BY <1>1, ReturnEnds DEF Flows
<1>2. CASE ~Abort(t) /\ ~Return(t)
  <2>1. \E m : Goto(t, m) /\ Flows(pc[t], m)
    <3>1. CASE vault_write(t) \/ patch_get(t) \/ patch_tmp(t)
      BY <1>2, <3>1 DEF vault_write, patch_get, patch_tmp, At, Flows
    <3>2. CASE patch_rename(t) \/ forget_file(t)
      <4>1. CASE patch_rename(t)
        <5> DEFINE l == CASE call[t].op = "feedback" -> "feedback_path"
                          [] call[t].op = "write" -> "get_old"
                          [] OTHER -> "ingest_new"
        <5>1. Goto(t, l) /\ pc[t] = "patch_rename"
          BY <1>2, <4>1 DEF patch_rename, At
        <5>2. l \in {"feedback_path", "get_old", "ingest_new"}
          OBVIOUS
        <5> QED BY <5>1, <5>2 DEF Flows
      <4>2. CASE forget_file(t)
        BY <1>2, <4>2 DEF forget_file, At, Flows
      <4> QED BY <3>2, <4>1, <4>2
    <3>3. CASE ingest_new(t) \/ get_old(t) \/ ingest_old(t)
      BY <1>2, <3>3 DEF ingest_new, get_old, ingest_old, Committed, At, Flows
    <3>4. CASE feedback_path(t) \/ rebuild_walk(t)
      BY <1>2, <3>4 DEF feedback_path, rebuild_walk, At, Flows
    <3>5. CASE dedup(t)
      BY <1>2, <3>5 DEF dedup, At, Flows
    <3>6. CASE probe(t) \/ probe_get(t) \/ policy(t)
      BY <1>2, <3>6 DEF probe, probe_get, policy, At, Flows
    <3>7. CASE queue_lock(t) \/ queue_take(t) \/ commit(t)
      BY <1>2, <3>7 DEF queue_lock, queue_take, commit, At, Flows
    <3>8. CASE graduate_walk(t) \/ graduate_queue(t) \/ graduate_next(t)
      BY <1>2, <3>8 DEF graduate_walk, graduate_queue, graduate_next, At, Flows
    <3>9. forget_index(t) \/ feedback_ingest(t) \/ rebuild_commit(t) \/ queue_push(t)
          \/ materialize_skill(t) => Return(t)
      BY DEF forget_index, feedback_ingest, rebuild_commit, queue_push, materialize_skill
    <3> QED BY <1>2, <3>1, <3>2, <3>3, <3>4, <3>5, <3>6, <3>7, <3>8, <3>9 DEF Step
  <2>2. PICK m : Goto(t, m) /\ Flows(pc[t], m)
    BY <2>1
  <2>3. pc'[t] = m
    BY <2>2 DEF Goto, CallTypes
  <2> QED BY <2>2, <2>3
<1> QED BY <1>1, <1>2

\* Where a call begins; it takes nothing from an earlier one.
LEMMA StartFlows ==
  ASSUME CallTypes, NEW t \in Threads, Start(t)
  PROVE  /\ pc'[t] \in {"vault_write", "patch_get", "forget_file", "dedup", "queue_lock",
                        "graduate_walk", "rebuild_walk"}
         /\ UNCHANGED <<disk, watcher, qlock, snap, histories>>
<1> DEFINE Points == {"vault_write", "patch_get", "forget_file", "dedup", "queue_lock",
                      "graduate_walk", "rebuild_walk"}
           Goal == /\ pc'[t] \in Points
                   /\ UNCHANGED <<disk, watcher, qlock, snap, histories>>
<1> SUFFICES Goal
  OBVIOUS
<1>1. ASSUME NEW op, NEW l \in Points, NEW c, Begin(t, op, l, c) PROVE Goal
  BY <1>1 DEF Begin, Goto, CallTypes
<1> HIDE DEF Goal
<1>2. CASE memory_write(t)
  BY <1>1, <1>2 DEF memory_write
<1>3. CASE memory_feedback(t)
  BY <1>1, <1>3 DEF memory_feedback
<1>4. CASE memory_forget(t)
  BY <1>1, <1>4 DEF memory_forget
<1>5. CASE memory_promote(t)
  BY <1>1, <1>5 DEF memory_promote
<1>6. CASE review(t)
  BY <1>1, <1>6 DEF review
<1>7. CASE graduate(t)
  BY <1>1, <1>7 DEF graduate
<1>8. CASE rebuild(t)
  BY <1>1, <1>8 DEF rebuild
<1> QED BY <1>2, <1>3, <1>4, <1>5, <1>6, <1>7, <1>8 DEF Start

-----------------------------------------------------------------------------
(* FeedbackInv is kept.                                                    *)

LEMMA FeedbackKeeps ==
  ASSUME OneCaller, FeedbackInv, NEW t \in Threads, UNCHANGED <<file, used, acked>>,
         pc'[t] \in {"feedback_path", "feedback_ingest"} =>
            pc[t] \in {"feedback_path", "feedback_ingest"} /\ call'[t].old = call[t].old
  PROVE  FeedbackInv'
<1>1. \A u \in Threads : u = t
  BY DEF OneCaller
<1>2. PICK o : o = call'[t].old
  OBVIOUS
<1>3. pc'[t] \in {"feedback_path", "feedback_ingest"} => acked'[o] < file'[o].uses
  BY <1>2 DEF FeedbackInv
<1> QED BY <1>1, <1>2, <1>3 DEF FeedbackInv, FeedbackCounted

LEMMA FeedbackStep ==
  ASSUME TypeOK, LocalsOK, OneCaller, VaultInv, VaultInv', TypeOK', FeedbackInv,
         NEW t \in Threads, Step(t)
  PROVE  FeedbackInv'
<1> DEFINE c == call[t]
           o == c.old
<1>0. /\ CallTypes /\ c \in Call /\ VaultLocals(pc[t], c) /\ Locals(pc[t], c)
      /\ file \in Rows /\ acked \in [Ids -> Nat]
  BY DEF TypeOK, CallTypes, VaultInv, LocalsOK
<1>a. \A u \in Threads : u = t
  BY DEF OneCaller
<1>1. Flows(pc[t], pc'[t])
  BY <1>0, StepFlows
<1>2. CASE vault_write(t)
  <2>1. /\ c.new \in Ids \ used /\ c.buf \in Record /\ pc[t] = "vault_write"
    BY <1>0, <1>2, WriteVault DEF vault_write, At, Locals
  <2>2. /\ file' = [file EXCEPT ![c.new] = c.buf] /\ used' = used \cup {c.new}
        /\ acked' = acked
    BY <1>2 DEF vault_write
  <2>3. acked[c.new] = 0 /\ c.buf.uses \in Nat
    BY <2>1 DEF FeedbackInv, Record
  <2>4. \A id \in Ids : file'[id] = IF id = c.new THEN c.buf ELSE file[id]
    BY <1>0, <2>1, <2>2 DEF Rows
  <2>5. FeedbackCounted'
    BY <2>1, <2>2, <2>3, <2>4 DEF FeedbackInv, FeedbackCounted
  <2>6. pc'[t] \notin {"feedback_path", "feedback_ingest"}
    BY <1>1, <2>1 DEF Flows
  <2> QED BY <1>a, <2>2, <2>5, <2>6 DEF FeedbackInv
<1>3. CASE patch_rename(t)
  <2>1. /\ pc[t] = "patch_rename" /\ o \in Ids /\ file[o] # NONE /\ call' = call
        /\ file' = [file EXCEPT ![o] = c.patch] /\ used' = used
        /\ pc'[t] = CASE c.op = "feedback" -> "feedback_path"
                      [] c.op = "write" -> "get_old"
                      [] OTHER -> "ingest_new"
    BY <1>3, RenameVault
  <2>2. c.patch \in Record /\ file[o] \in Record
    BY <1>0, <2>1 DEF Locals, Rows
  <2>3. /\ c.patch.uses >= file[o].uses
        /\ c.op = "feedback" => c.patch.uses > file[o].uses
    BY <1>0, <2>1 DEF VaultLocals, Follows
  <2>4. /\ c.patch.uses \in Nat /\ file[o].uses \in Nat /\ acked[o] \in Nat
        /\ acked[o] <= file[o].uses /\ acked' = acked
    BY <1>0, <1>3, <2>1, <2>2 DEF Record, FeedbackInv, FeedbackCounted, patch_rename, histories
  <2>5. /\ acked[o] <= c.patch.uses
        /\ c.op = "feedback" => acked[o] < c.patch.uses
    BY <2>3, <2>4
  <2>6. \A id \in Ids : file'[id] = IF id = o THEN c.patch ELSE file[id]
    BY <1>0, <2>1 DEF Rows
  <2>7. FeedbackCounted'
    BY <2>4, <2>5, <2>6 DEF FeedbackInv, FeedbackCounted
  <2>8. pc'[t] \in {"feedback_path", "feedback_ingest"} => c.op = "feedback"
    BY <2>1
  <2>9. file'[o] = c.patch
    BY <2>1, <2>6
  <2> QED BY <1>a, <2>1, <2>4, <2>5, <2>7, <2>8, <2>9 DEF FeedbackInv
<1>4. CASE forget_file(t)
  <2>1. /\ o \in Ids /\ file' = [file EXCEPT ![o] = NONE] /\ used' = used
        /\ acked' = acked /\ pc[t] = "forget_file"
    BY <1>4, ForgetVault DEF forget_file, At
  <2>2. \A id \in Ids : file'[id] = IF id = o THEN NONE ELSE file[id]
    BY <1>0, <2>1 DEF Rows
  <2>3. pc'[t] \notin {"feedback_path", "feedback_ingest"}
    BY <1>1, <2>1 DEF Flows
  <2> QED BY <1>a, <2>1, <2>2, <2>3 DEF FeedbackInv, FeedbackCounted
<1>5. CASE feedback_ingest(t)
  <2>1. /\ pc[t] = "feedback_ingest" /\ o \in Ids /\ file[o] # NONE
        /\ acked[o] < file[o].uses
    BY <1>0, <1>5, ConstantsAssumption
       DEF feedback_ingest, At, Locals, FeedbackInv, VaultLocals, Holding
  <2>2. /\ acked' = [acked EXCEPT ![o] = @ + 1] /\ file' = file /\ used' = used
        /\ Return(t)
    BY <1>5 DEF feedback_ingest, OnlyIndex
  <2>3. file[o].uses \in Nat /\ o \in used
    BY <1>0, <2>1 DEF Rows, Record, VaultInv
  <2>4. \A id \in Ids : acked'[id] = IF id = o THEN acked[o] + 1 ELSE acked[id]
    BY <1>0, <2>2
  <2>5. acked[o] + 1 <= file[o].uses
    BY <1>0, <2>1, <2>3
  <2>6. pc'[t] \notin {"feedback_path", "feedback_ingest"}
    BY <1>0, <2>2, ReturnEnds
  <2>7. FeedbackCounted'
    BY <2>2, <2>4, <2>5 DEF FeedbackInv, FeedbackCounted
  <2>8. \A id \in Ids \ used' : acked'[id] = 0
    BY <2>2, <2>3, <2>4 DEF FeedbackInv
  <2> QED BY <1>a, <2>6, <2>7, <2>8 DEF FeedbackInv
<1>6. CASE feedback_path(t)
  <2>1. /\ pc[t] = "feedback_path" /\ file[o] # NONE
    BY <1>0, <1>6, ConstantsAssumption DEF feedback_path, At, Locals, VaultLocals, Holding
  <2>2. call' = call /\ UNCHANGED <<file, used, acked>>
    BY <1>6, <2>1 DEF feedback_path, disk, histories
  <2> QED BY <2>1, <2>2, FeedbackKeeps
<1>7. CASE ~(vault_write(t) \/ patch_rename(t) \/ forget_file(t) \/ feedback_ingest(t)
             \/ feedback_path(t))
  <2>1. UNCHANGED <<file, used>>
    BY <1>7, CalmSteps, CommitVault, PatchVault DEF Step
  <2>2. acked' = acked
    BY <1>7 DEF Step, patch_get, patch_tmp, forget_index, ingest_new, get_old, ingest_old,
                rebuild_walk, rebuild_commit, dedup, probe, probe_get, policy, queue_lock,
                queue_push, queue_take, commit, materialize_skill, graduate_walk,
                graduate_queue, graduate_next, Local, histories
  <2>3. pc[t] \notin {"patch_rename", "feedback_path"}
    BY <1>7 DEF Step, patch_get, patch_tmp, forget_index, ingest_new, get_old, ingest_old,
                rebuild_walk, rebuild_commit, dedup, probe, probe_get, policy, queue_lock,
                queue_push, queue_take, commit, materialize_skill, graduate_walk,
                graduate_queue, graduate_next, At
  <2>4. pc'[t] \notin {"feedback_path", "feedback_ingest"}
    BY <1>1, <2>3 DEF Flows
  <2> QED BY <2>1, <2>2, <2>4, FeedbackKeeps
<1> QED BY <1>2, <1>3, <1>4, <1>5, <1>6, <1>7

\* With calls made one at a time, no acknowledged feedback is lost: a call that is
\* about to acknowledge has a use in the file that is not acknowledged yet.
THEOREM FeedbackIsCounted == OneCaller => (Spec => []FeedbackCounted)
<1> SUFFICES ASSUME OneCaller PROVE Spec => []FeedbackCounted
  OBVIOUS
<1>1. Init => FeedbackInv
  <2> SUFFICES ASSUME Init PROVE FeedbackInv
    OBVIOUS
  <2>1. (\A id \in Ids : file[id] = NONE /\ acked[id] = 0)
        /\ \A t \in Threads : pc[t] = "idle"
    BY DEF Init
  <2> QED BY <2>1 DEF FeedbackInv, FeedbackCounted
<1>2. TypeOK /\ LocalsOK /\ VaultInv /\ [Next]_vars => VaultInv'
  BY VaultStep
<1>3. /\ TypeOK /\ LocalsOK /\ VaultInv /\ FeedbackInv
      /\ TypeOK' /\ VaultInv' /\ [Next]_vars
      => FeedbackInv'
  <2> SUFFICES ASSUME TypeOK, LocalsOK, VaultInv, FeedbackInv, TypeOK', VaultInv',
                      [Next]_vars
               PROVE  FeedbackInv'
    OBVIOUS
  <2>1. ASSUME NEW t \in Threads, Start(t) PROVE FeedbackInv'
    <3>1. pc'[t] \notin {"feedback_path", "feedback_ingest"} /\ UNCHANGED <<file, used, acked>>
      BY <2>1, StartFlows DEF TypeOK, CallTypes, disk, histories
    <3> QED BY <3>1, FeedbackKeeps
  <2>2. ASSUME NEW t \in Threads, Step(t) PROVE FeedbackInv'
    BY <2>2, FeedbackStep
  <2>3. CASE Watch \/ Tick \/ UNCHANGED vars
    <3>1. UNCHANGED <<file, used, acked, pc, call>>
      BY <2>3 DEF Watch, watch_load, watch_apply, Tick, vars, disk, histories
    <3> QED BY <3>1 DEF FeedbackInv, FeedbackCounted
  <2>4. CASE Crash
    <3>1. UNCHANGED <<file, used, acked>> /\ \A t \in Threads : pc'[t] = "idle"
      BY <2>4 DEF Crash, histories
    <3> QED BY <3>1 DEF FeedbackInv, FeedbackCounted
  <2> QED BY <2>1, <2>2, <2>3, <2>4 DEF Next
<1>4. FeedbackInv => FeedbackCounted
  BY DEF FeedbackInv
<1> QED BY InitVault, <1>1, <1>2, <1>3, <1>4, TypeCorrect, PTL DEF Spec


-----------------------------------------------------------------------------
(* MirrorInv is kept.                                                      *)

\* What told the gate of a record tells it of what follows it.
LEMMA ShowsStays ==
  ASSUME Followed, NEW id \in Ids, NEW r
  PROVE  Shows(r, id) => Shows(r, id)'
BY DEF Followed, Follows, Shows, IsValid

LEMMA NoTwinStays ==
  ASSUME Followed, NEW r
  PROVE  NoTwin(r) => NoTwin(r)'
BY DEF Followed, Follows, NoTwin, IsValid

\* No duplicate appears without a new record.
LEMMA NoDuplicateAppears ==
  ASSUME TypeOK, Followed, NoDuplicateValid, gated' = gated, links \subseteq links'
  PROVE  NoDuplicateValid'
<1> SUFFICES ASSUME NEW i \in gated, NEW j \in gated, i # j, IsValid(file'[i]),
                    IsValid(file'[j]), {<<i, j>>, <<j, i>>} \cap links = {},
                    file'[i].scope = file'[j].scope, file'[i].body = file'[j].body
             PROVE  FALSE
  BY DEF NoDuplicateValid
<1>1. i \in Ids /\ j \in Ids
  BY DEF TypeOK
<1>2. ASSUME NEW k \in Ids, IsValid(file'[k])
      PROVE  IsValid(file[k]) /\ file[k].scope = file'[k].scope /\ file[k].body = file'[k].body
  BY <1>2 DEF Followed, Follows, IsValid
<1> QED BY <1>1, <1>2 DEF NoDuplicateValid

\* A step that leaves the index alone, and writes no new record.
LEMMA MirrorKeeps ==
  ASSUME TypeOK, OneCaller, MirrorInv, NEW t \in Threads, Followed,
         UNCHANGED <<index, wbuf, used, links, gated>>, dirty' \subseteq used,
         Unindexed(pc[t], call[t]) =>
            Unindexed(pc[t], call[t])' /\ call'[t].new = call[t].new,
         MirrorLocals(pc[t], call[t])'
  PROVE  MirrorInv'
<1>1. \A u \in Threads : u = t
  BY DEF OneCaller
<1>2. ASSUME NEW id \in Ids
      PROVE  Shows(index[id], id)' \/ (Unindexed(pc[t], call[t])' /\ call'[t].new = id)
  <2>1. CASE Shows(index[id], id)
    <3>1. PICK r : r = index[id]
      OBVIOUS
    <3>2. Shows(r, id)'
      BY <2>1, <3>1, ShowsStays
    <3> QED BY <3>1, <3>2 DEF Shows
  <2>2. CASE ~Shows(index[id], id)
    BY <1>1, <2>2 DEF MirrorInv
  <2> QED BY <2>1, <2>2
<1>3. wbuf' # NONE => wbuf'[1] \in used' /\ Shows(wbuf[2], wbuf[1])'
  <2> SUFFICES ASSUME wbuf # NONE PROVE wbuf[1] \in used /\ Shows(wbuf[2], wbuf[1])'
    OBVIOUS
  <2>1. PICK id, r : id = wbuf[1] /\ r = wbuf[2]
    OBVIOUS
  <2>2. id \in used /\ id \in Ids /\ Shows(r, id)
    BY <2>1 DEF MirrorInv, TypeOK
  <2>3. Shows(r, id)'
    BY <2>2, ShowsStays
  <2> QED BY <2>1, <2>2, <2>3 DEF Shows
<1>4. NoDuplicateValid'
  BY NoDuplicateAppears DEF MirrorInv
<1> QED BY <1>1, <1>2, <1>3, <1>4 DEF MirrorInv

\* A step of a call that is not about a record it has written.
LEMMA AwayMirror ==
  ASSUME TypeOK, OneCaller, MirrorInv, NEW t \in Threads,
         UNCHANGED <<file, index, wbuf, dirty, used, links, gated>>,
         ~Unindexed(pc[t], call[t]), MirrorLocals(pc[t], call[t])'
  PROVE  MirrorInv'
BY SameFollowed, MirrorKeeps DEF MirrorInv

\* The points at which nothing is claimed of the files.
Idle == {"idle", "graduate_next", "dedup", "queue_lock", "queue_push", "queue_take",
         "forget_file", "graduate_walk", "graduate_queue", "rebuild_walk",
         "materialize_skill"}

LEMMA IdleLocals ==
  ASSUME NEW l \in Idle, NEW c
  PROVE  MirrorLocals(l, c)'
BY DEF Idle, MirrorLocals, Unindexed

\* A write begins before its record exists, a feedback has none.
LEMMA StartMirror ==
  ASSUME TypeOK, OneCaller, MirrorInv, NEW t \in Threads, Start(t)
  PROVE  MirrorInv'
<1>0. CallTypes
  BY DEF TypeOK, CallTypes
<1>1. UNCHANGED <<file, index, wbuf, dirty, used, links, gated>>
  BY <1>0, StartFlows DEF disk, watcher, histories
<1>2. pc[t] = "idle"
  BY DEF Start, memory_write, memory_feedback, memory_forget, memory_promote, review,
         graduate, rebuild, Begin, At
<1>3. MirrorLocals(pc[t], call[t])'
  <2>1. CASE memory_write(t)
    <3>1. pc'[t] = "vault_write" /\ call'[t].op = "write"
      <4>1. PICK id \in Fresh, b \in Bodies, s \in Scopes, k \in Kinds,
                 old \in {NONE} \cup {i \in Ids : file[i] # NONE} :
               Begin(t, "write", "vault_write",
                     [Blank EXCEPT !.op = "write", !.new = id, !.old = old,
                                   !.buf = new_record([body |-> b, scope |-> s, kind |-> k,
                                                       from |-> NONE, corrects |-> old])])
        BY <2>1 DEF memory_write
      <4> DEFINE r == new_record([body |-> b, scope |-> s, kind |-> k,
                                  from |-> NONE, corrects |-> old])
                 c == [Blank EXCEPT !.op = "write", !.new = id, !.old = old, !.buf = r]
      <4>2. Begin(t, "write", "vault_write", c)
        BY <4>1
      <4> HIDE DEF r
      <4>3. c.op = "write"
        BY DEF Blank
      <4> HIDE DEF c
      <4> QED BY <1>0, <4>2, <4>3 DEF Begin, Goto, CallTypes
    <3> QED BY <3>1 DEF MirrorLocals, Unindexed
  <2>2. CASE memory_feedback(t)
    <3>1. pc'[t] = "patch_get" /\ call'[t].op = "feedback"
      <4>1. PICK id \in {i \in Ids : file[i] # NONE}, gain \in 0..2 :
               Begin(t, "feedback", "patch_get",
                     [Blank EXCEPT !.op = "feedback", !.old = id, !.gain = gain])
        BY <2>2 DEF memory_feedback
      <4> DEFINE c == [Blank EXCEPT !.op = "feedback", !.old = id, !.gain = gain]
      <4>2. c.op = "feedback" /\ Begin(t, "feedback", "patch_get", c)
        BY <4>1 DEF Blank
      <4> HIDE DEF c
      <4> QED BY <1>0, <4>2 DEF Begin, Goto, CallTypes
    <3> QED BY <3>1 DEF MirrorLocals, Unindexed
  <2>3. CASE ~memory_write(t) /\ ~memory_feedback(t)
    <3>1. ASSUME NEW op, NEW l \in {"forget_file", "dedup", "queue_lock", "graduate_walk",
                                    "rebuild_walk"},
                 NEW c, Begin(t, op, l, c)
          PROVE  MirrorLocals(pc[t], call[t])'
      <4>1. pc'[t] = l /\ call'[t] = c
        BY <1>0, <3>1 DEF Begin, Goto, CallTypes
      <4>2. l \in Idle
        BY DEF Idle
      <4> QED BY <4>1, <4>2, IdleLocals DEF MirrorLocals, Unindexed, Idle
    <3>2. CASE memory_forget(t)
      BY <3>1, <3>2 DEF memory_forget
    <3>3. CASE memory_promote(t)
      BY <3>1, <3>3 DEF memory_promote
    <3>4. CASE review(t)
      BY <3>1, <3>4 DEF review
    <3>5. CASE graduate(t)
      BY <3>1, <3>5 DEF graduate
    <3>6. CASE rebuild(t)
      BY <3>1, <3>6 DEF rebuild
    <3> QED BY <2>3, <3>2, <3>3, <3>4, <3>5, <3>6 DEF Start
  <2> QED BY <2>1, <2>2, <2>3
<1>4. ~Unindexed(pc[t], call[t])
  BY <1>2 DEF Unindexed
<1> QED BY <1>1, <1>3, <1>4, AwayMirror


\* What the gate finds similar changes what a candidate corrects, and nothing else.
LEMMA ProbeGetCandidate ==
  ASSUME CallTypes, NEW t \in Threads, call[t].cand \in Candidate, NEW d,
         call' = [call EXCEPT ![t].old = NONE, ![t].cand.corrects = d]
  PROVE  /\ call'[t].cand.body = call[t].cand.body
         /\ call'[t].cand.scope = call[t].cand.scope
         /\ call'[t].cand.from = call[t].cand.from
         /\ call'[t].todo = call[t].todo
<1>1. call'[t].cand = [call[t].cand EXCEPT !.corrects = d]
  BY SMTT(30) DEF CallTypes, Call
<1>2. call'[t].todo = call[t].todo
  BY SMTT(30) DEF CallTypes, Call
<1> DEFINE k == [call[t].cand EXCEPT !.corrects = d]
<1>3. k.body = call[t].cand.body /\ k.scope = call[t].cand.scope /\ k.from = call[t].cand.from
  BY DEF Candidate
<1> HIDE DEF k
<1>4. call'[t].cand = k
  BY <1>1 DEF k
<1> QED BY <1>2, <1>3, <1>4

\* The gate reads the index after the last call has ingested what it wrote, so a
\* record that passes step 1 has no valid twin in the vault.
LEMMA GateMirror ==
  ASSUME TypeOK, LocalsOK, OneCaller, VaultInv, MirrorInv, NEW t \in Threads,
         \/ dedup(t) \/ probe(t) \/ probe_get(t) \/ policy(t)
         \/ queue_lock(t) \/ queue_push(t) \/ queue_take(t)
         \/ commit(t) \/ materialize_skill(t)
         \/ graduate_walk(t) \/ graduate_queue(t) \/ graduate_next(t)
  PROVE  MirrorInv'
<1> DEFINE c == call[t]
<1>0. /\ CallTypes /\ c \in Call /\ MirrorLocals(pc[t], c) /\ Locals(pc[t], c)
      /\ Flows(pc[t], pc'[t])
  BY StepFlows DEF TypeOK, CallTypes, MirrorInv, LocalsOK, Step
<1>1. UNCHANGED <<file, index, wbuf, dirty, used, links, gated>>
  BY DEF dedup, probe, probe_get, policy, queue_lock, queue_push, queue_take, commit,
         materialize_skill, graduate_walk, graduate_queue, graduate_next, Local,
         disk, watcher, histories
<1>2. pc[t] \in {"dedup", "probe", "probe_get", "policy", "queue_lock", "queue_push",
                 "queue_take", "commit", "materialize_skill", "graduate_walk",
                 "graduate_queue", "graduate_next"}
  BY DEF dedup, probe, probe_get, policy, queue_lock, queue_push, queue_take, commit,
         materialize_skill, graduate_walk, graduate_queue, graduate_next, At
<1>3. ~Unindexed(pc[t], c)
  BY <1>2 DEF Unindexed
<1> SUFFICES MirrorLocals(pc[t], call[t])'
  BY <1>1, <1>3, AwayMirror
<1>4. ASSUME pc'[t] \in Idle PROVE MirrorLocals(pc[t], call[t])'
  BY <1>4 DEF MirrorLocals, Unindexed, Idle
<1>5. ASSUME pc'[t] \in {"probe", "probe_get", "policy", "commit"}, NEW d \in Candidate,
             NoTwin(d), call'[t].cand.body = d.body, call'[t].cand.scope = d.scope
      PROVE  MirrorLocals(pc[t], call[t])'
  <2>1. NoTwin(call'[t].cand)
    BY <1>5 DEF NoTwin
  <2>2. NoTwin(call[t].cand)'
    BY <1>1, <2>1 DEF NoTwin
  <2> QED BY <1>5, <2>2 DEF MirrorLocals, Unindexed
<1>6. CASE dedup(t) /\ pc'[t] \notin Idle
  <2>1. /\ pc[t] = "dedup" /\ c.cand \in Candidate
        /\ pc'[t] \in {"probe", "policy", "commit"}
    BY <1>0, <1>6 DEF dedup, At, Locals, Flows, Idle
  <2>2. ~Return(t)
    BY <1>0, <1>6, ReturnEnds DEF Idle
  <2>3. find_valid_by_body_hash(c.cand) = {} /\ call' = call
    BY <1>6, <2>2 DEF dedup
  <2>4. \A id \in Ids : Shows(index[id], id)
    BY <1>3 DEF MirrorInv, OneCaller
  <2>5. NoTwin(c.cand)
    BY <2>3, <2>4 DEF NoTwin, Shows, find_valid_by_body_hash
  <2> QED BY <1>5, <2>1, <2>3, <2>5
<1>7. CASE probe(t) /\ pc'[t] \notin Idle
  <2>1. /\ pc[t] = "probe" /\ c.cand \in Candidate
        /\ pc'[t] \in {"probe_get", "policy"} /\ \E o : call' = [call EXCEPT ![t].old = o]
    BY <1>0, <1>7 DEF probe, At, Locals, Flows, Idle
  <2>2. call'[t].cand = c.cand
    BY <1>0, <2>1 DEF CallTypes, Call
  <2>3. NoTwin(c.cand)
    BY <1>0, <2>1 DEF MirrorLocals
  <2> QED BY <1>5, <2>1, <2>2, <2>3
<1>8. CASE probe_get(t) /\ pc'[t] \notin Idle
  <2>1. pc[t] = "probe_get"
    BY <1>8 DEF probe_get, At
  <2>2. c.cand \in Candidate
    BY <1>0, <2>1 DEF Locals
  <2>3. pc'[t] = "policy"
    BY <1>0, <1>8, <2>1 DEF Flows, Idle
  <2>4. \E d : call' = [call EXCEPT ![t].old = NONE, ![t].cand.corrects = d]
    BY <1>8 DEF probe_get
  <2>5. call'[t].cand.body = c.cand.body /\ call'[t].cand.scope = c.cand.scope
    BY <1>0, <2>2, <2>4, ProbeGetCandidate
  <2>6. NoTwin(c.cand)
    BY <1>0, <2>1 DEF MirrorLocals
  <2> QED BY <1>5, <2>2, <2>3, <2>5, <2>6
<1>9. CASE policy(t) /\ pc'[t] \notin Idle
  <2>1. /\ pc[t] = "policy" /\ c.cand \in Candidate /\ pc'[t] = "commit" /\ call' = call
    BY <1>0, <1>9 DEF policy, At, Locals, Flows, Idle
  <2>2. NoTwin(c.cand)
    BY <1>0, <2>1 DEF MirrorLocals
  <2> QED BY <1>5, <2>1, <2>2
<1>10. CASE commit(t) /\ pc'[t] \notin Idle
  <2>1. /\ pc[t] = "commit" /\ c.cand \in Candidate /\ pc'[t] = "vault_write"
    BY <1>0, <1>10 DEF commit, At, Locals, Flows, Idle
  <2>2. ~Abort(t)
    BY <1>0, <1>10, ReturnEnds DEF Idle
  <2> DEFINE r == new_record(c.cand)
             x == c.cand.corrects
  <2>3. call' = [call EXCEPT ![t].buf = r, ![t].old = x]
    BY <1>10, <2>2 DEF commit
  <2>4. r.body = c.cand.body /\ r.scope = c.cand.scope
    BY DEF new_record
  <2> HIDE DEF r, x
  <2>5. call'[t].buf = r
    BY <1>0, <2>3 DEF CallTypes, Call
  <2>6. NoTwin(c.cand)
    BY <1>0, <2>1 DEF MirrorLocals
  <2>7. NoTwin(call[t].buf)'
    BY <1>1, <2>4, <2>5, <2>6 DEF NoTwin
  <2> QED BY <2>1, <2>7 DEF MirrorLocals, Unindexed
<1>11. CASE ~(dedup(t) \/ probe(t) \/ probe_get(t) \/ policy(t) \/ commit(t))
  <2>1. pc[t] \in {"queue_lock", "queue_push", "queue_take", "materialize_skill",
                   "graduate_walk", "graduate_queue", "graduate_next"}
    BY <1>11 DEF queue_lock, queue_push, queue_take, materialize_skill, graduate_walk,
                 graduate_queue, graduate_next, At
  <2> QED BY <1>0, <1>4, <2>1 DEF Flows, Idle
<1> QED BY <1>4, <1>6, <1>7, <1>8, <1>9, <1>10, <1>11

\* The reads and the temporary file.
LEMMA ReadMirror ==
  ASSUME TypeOK, LocalsOK, OneCaller, VaultInv, MirrorInv, NEW t \in Threads,
         patch_get(t) \/ patch_tmp(t) \/ get_old(t) \/ feedback_path(t) \/ rebuild_walk(t)
  PROVE  MirrorInv'
<1> DEFINE c == call[t]
<1>0. /\ CallTypes /\ c \in Call /\ MirrorLocals(pc[t], c) /\ Locals(pc[t], c)
      /\ VaultLocals(pc[t], c)
  BY DEF TypeOK, CallTypes, MirrorInv, LocalsOK, VaultInv
<1>1. UNCHANGED <<file, index, wbuf, dirty, used, links, gated>>
  BY DEF patch_get, patch_tmp, get_old, feedback_path, rebuild_walk, disk, watcher,
         histories
<1>2. ASSUME Unindexed(pc[t], c) => Unindexed(pc[t], call[t])' /\ call'[t].new = c.new,
             MirrorLocals(pc[t], call[t])'
      PROVE  MirrorInv'
  BY <1>1, <1>2, SameFollowed, MirrorKeeps DEF MirrorInv
<1>3. CASE patch_get(t)
  <2>1. pc[t] = "patch_get" /\ file[c.old] # NONE
    BY <1>0, <1>3, ConstantsAssumption DEF patch_get, At, Locals, VaultLocals, Holding
  <2>2. Goto(t, "patch_tmp") /\ \E r : call' = [call EXCEPT ![t].patch = r]
    BY <1>3, <2>1 DEF patch_get
  <2>3. /\ pc'[t] = "patch_tmp" /\ call'[t].new = c.new /\ call'[t].old = c.old
        /\ call'[t].op = c.op /\ call'[t].buf = c.buf
    BY <1>0, <2>2 DEF Goto, CallTypes, Call
  <2>4. Unindexed(pc[t], call[t])' <=> c.op # "feedback"
    BY <2>3 DEF Unindexed
  <2>5. MirrorLocals(pc[t], call[t])'
    BY <1>0, <1>1, <2>1, <2>3, <2>4 DEF MirrorLocals, Unindexed
  <2> QED BY <1>2, <2>1, <2>3, <2>4, <2>5 DEF Unindexed
<1>4. CASE patch_tmp(t)
  <2>1. pc[t] = "patch_tmp" /\ pc'[t] = "patch_rename" /\ call' = call
    BY <1>0, <1>4 DEF patch_tmp, At, Goto, CallTypes
  <2>2. MirrorLocals(pc[t], call[t])'
    BY <1>0, <1>1, <2>1 DEF MirrorLocals, Unindexed
  <2> QED BY <1>2, <2>1, <2>2 DEF Unindexed
<1>5. CASE get_old(t)
  <2>1. pc[t] = "get_old" /\ file[c.old] # NONE
    BY <1>0, <1>5, ConstantsAssumption DEF get_old, At, Locals, VaultLocals, Holding
  <2>2. Goto(t, "ingest_old") /\ call' = [call EXCEPT ![t].patch = file[c.old]]
    BY <1>5, <2>1 DEF get_old
  <2>3. /\ pc'[t] = "ingest_old" /\ call'[t].new = c.new /\ call'[t].old = c.old
        /\ call'[t].op = c.op /\ call'[t].buf = c.buf /\ call'[t].patch = file[c.old]
    BY <1>0, <2>2 DEF Goto, CallTypes, Call
  <2>4. Unindexed(pc[t], call[t])' <=> c.op = "write"
    BY <2>3 DEF Unindexed
  <2>5. MirrorLocals(pc[t], call[t])'
    BY <1>0, <1>1, <2>1, <2>3, <2>4 DEF MirrorLocals, Unindexed
  <2> QED BY <1>2, <2>1, <2>3, <2>4, <2>5 DEF Unindexed
<1>6. CASE feedback_path(t)
  <2>1. pc[t] = "feedback_path" /\ file[c.old] # NONE
    BY <1>0, <1>6, ConstantsAssumption DEF feedback_path, At, Locals, VaultLocals, Holding
  <2>2. pc'[t] = "feedback_ingest" /\ call' = call
    BY <1>0, <1>6, <2>1 DEF feedback_path, Goto, CallTypes
  <2>3. MirrorLocals(pc[t], call[t])'
    BY <1>0, <1>1, <2>1, <2>2 DEF MirrorLocals, Unindexed
  <2> QED BY <1>2, <2>1, <2>3 DEF Unindexed
<1>7. CASE rebuild_walk(t)
  <2>1. pc[t] = "rebuild_walk" /\ pc'[t] = "rebuild_commit" /\ call'[t].walk = file
    BY <1>0, <1>7 DEF rebuild_walk, At, Goto, CallTypes, Call
  <2>2. MirrorLocals(pc[t], call[t])'
    BY <1>1, <2>1 DEF MirrorLocals, Unindexed
  <2> QED BY <1>2, <2>1, <2>2 DEF Unindexed
<1> QED BY <1>3, <1>4, <1>5, <1>6, <1>7


\* A row that is replaced by what the gate should see.
LEMMA RowMirror ==
  ASSUME TypeOK, OneCaller, MirrorInv, NEW t \in Threads, NEW id \in Ids, NEW r,
         index' = [index EXCEPT ![id] = r], Shows(r, id),
         UNCHANGED <<file, wbuf, dirty, used, links, gated>>,
         Unindexed(pc[t], call[t]) =>
            call[t].new = id \/ (Unindexed(pc[t], call[t])' /\ call'[t].new = call[t].new),
         MirrorLocals(pc[t], call[t])'
  PROVE  MirrorInv'
<1>1. \A u \in Threads : u = t
  BY DEF OneCaller
<1>2. \A i \in Ids : index'[i] = IF i = id THEN r ELSE index[i]
  BY DEF TypeOK, Rows
<1>3. ASSUME NEW i \in Ids
      PROVE  Shows(index[i], i)' \/ (Unindexed(pc[t], call[t])' /\ call'[t].new = i)
  <2>1. CASE i = id
    BY <1>2, <2>1 DEF Shows
  <2>2. CASE i # id
    <3>1. Shows(index[i], i) \/ (Unindexed(pc[t], call[t]) /\ call[t].new = i)
      BY <1>1 DEF MirrorInv
    <3>2. index'[i] = index[i]
      BY <1>2, <2>2
    <3> QED BY <2>2, <3>1, <3>2 DEF Shows
  <2> QED BY <2>1, <2>2
<1>4. wbuf' # NONE => wbuf'[1] \in used' /\ Shows(wbuf[2], wbuf[1])'
  BY DEF MirrorInv, Shows
<1>5. NoDuplicateValid'
  BY DEF MirrorInv, NoDuplicateValid
<1> QED BY <1>1, <1>3, <1>4, <1>5 DEF MirrorInv

\* What a call ingests is what is in the file.
LEMMA IngestMirror ==
  ASSUME TypeOK, LocalsOK, OneCaller, VaultInv, MirrorInv, NEW t \in Threads,
         ingest_new(t) \/ ingest_old(t) \/ feedback_ingest(t) \/ forget_index(t)
  PROVE  MirrorInv'
<1> DEFINE c == call[t]
<1>0. /\ CallTypes /\ c \in Call /\ MirrorLocals(pc[t], c) /\ Locals(pc[t], c)
      /\ Flows(pc[t], pc'[t])
  BY StepFlows DEF TypeOK, CallTypes, MirrorInv, LocalsOK, Step
<1>1. UNCHANGED <<file, wbuf, dirty, used, links, gated>>
  BY DEF ingest_new, ingest_old, feedback_ingest, forget_index, OnlyIndex, watcher, histories
<1>2. ASSUME pc'[t] \in Idle PROVE MirrorLocals(pc[t], call[t])'
  BY <1>2 DEF MirrorLocals, Unindexed, Idle
<1>3. CASE ingest_new(t)
  <2>1. /\ pc[t] = "ingest_new" /\ c.new \in Ids /\ c.buf = file[c.new]
        /\ index' = [index EXCEPT ![c.new] = c.buf]
    BY <1>0, <1>3 DEF ingest_new, At, Locals, MirrorLocals, Unindexed, Ingest
  <2>2. Shows(c.buf, c.new)
    BY <2>1 DEF Shows
  <2>3. CASE pc'[t] \in Idle
    BY <1>1, <1>2, <2>1, <2>2, <2>3, RowMirror
  <2>4. CASE pc'[t] \notin Idle
    <3>1. pc'[t] = "get_old"
      BY <1>0, <2>1, <2>4 DEF Flows, Idle
    <3>2. call' = call /\ c.op # "write"
      <4>1. ~Return(t)
        BY <1>0, <2>4, ReturnEnds DEF Idle
      <4>2. ~Goto(t, "materialize_skill")
        BY <1>0, <3>1 DEF Goto, CallTypes
      <4> QED BY <1>3, <4>1, <4>2 DEF ingest_new, Committed
    <3>3. MirrorLocals(pc[t], call[t])'
      BY <3>1, <3>2 DEF MirrorLocals, Unindexed
    <3> QED BY <1>1, <2>1, <2>2, <3>3, RowMirror
  <2> QED BY <2>3, <2>4
<1>4. CASE ingest_old(t)
  <2>1. /\ pc[t] = "ingest_old" /\ c.old \in Ids /\ c.patch = file[c.old]
        /\ index' = [index EXCEPT ![c.old] = c.patch]
    BY <1>0, <1>4 DEF ingest_old, At, Locals, MirrorLocals, Ingest
  <2>2. Shows(c.patch, c.old)
    BY <2>1 DEF Shows
  <2>3. CASE c.op = "write"
    <3>1. pc'[t] = "ingest_new" /\ call' = call
      BY <1>0, <1>4, <2>3 DEF ingest_old, Goto, CallTypes
    <3>2. file[c.new] = c.buf /\ c.new # c.old
      BY <1>0, <2>1, <2>3 DEF MirrorLocals, Unindexed
    <3>3. MirrorLocals(pc[t], call[t])'
      BY <1>1, <3>1, <3>2 DEF MirrorLocals, Unindexed
    <3>4. Unindexed(pc[t], call[t])'
      BY <3>1 DEF Unindexed
    <3> QED BY <1>1, <2>1, <2>2, <3>1, <3>3, <3>4, RowMirror
  <2>4. CASE c.op # "write"
    <3>1. ~Unindexed(pc[t], c)
      BY <2>1, <2>4 DEF Unindexed
    <3>2. Committed(t)
      BY <1>4, <2>4 DEF ingest_old
    <3>3. pc'[t] \in Idle
      BY <1>0, <3>2, ReturnEnds DEF Committed, Goto, CallTypes, Idle
    <3> QED BY <1>1, <1>2, <2>1, <2>2, <3>1, <3>3, RowMirror
  <2> QED BY <2>3, <2>4
<1>5. CASE feedback_ingest(t)
  <2>1. /\ pc[t] = "feedback_ingest" /\ c.old \in Ids /\ c.patch = file[c.old]
        /\ index' = [index EXCEPT ![c.old] = c.patch]
    BY <1>0, <1>5 DEF feedback_ingest, At, Locals, MirrorLocals, Ingest
  <2>2. Shows(c.patch, c.old) /\ ~Unindexed(pc[t], c) /\ pc'[t] \in Idle
    BY <1>0, <2>1 DEF Shows, Unindexed, Flows, Idle
  <2> QED BY <1>1, <1>2, <2>1, <2>2, RowMirror
<1>6. CASE forget_index(t)
  <2>1. /\ pc[t] = "forget_index" /\ c.old \in Ids /\ file[c.old] = NONE
        /\ index' = [index EXCEPT ![c.old] = NONE]
    BY <1>0, <1>6 DEF forget_index, At, Locals, MirrorLocals, Ingest
  <2>2. Shows(NONE, c.old) /\ ~Unindexed(pc[t], c) /\ pc'[t] \in Idle
    BY <1>0, <2>1 DEF Shows, IsValid, Unindexed, Flows, Idle
  <2> QED BY <1>1, <1>2, <2>1, <2>2, RowMirror
<1> QED BY <1>3, <1>4, <1>5, <1>6

\* A rebuild installs what it has read, which is still what is in the vault.
LEMMA RebuildMirror ==
  ASSUME TypeOK, OneCaller, MirrorInv, NEW t \in Threads, rebuild_commit(t)
  PROVE  MirrorInv'
<1>1. /\ index' = file /\ Return(t) /\ UNCHANGED <<file, wbuf, dirty, used, links, gated>>
  BY DEF rebuild_commit, At, OnlyIndex, watcher, histories, MirrorInv, MirrorLocals
<1>2. pc'[t] \in {"idle", "graduate_next"}
  BY <1>1, ReturnEnds DEF TypeOK, CallTypes
<1>3. MirrorLocals(pc[t], call[t])'
  BY <1>2 DEF MirrorLocals, Unindexed
<1>4. \A id \in Ids : Shows(index[id], id)'
  BY <1>1 DEF Shows
<1>5. wbuf' # NONE => wbuf'[1] \in used' /\ Shows(wbuf[2], wbuf[1])'
  BY <1>1 DEF MirrorInv, Shows
<1>6. NoDuplicateValid'
  BY <1>1 DEF MirrorInv, NoDuplicateValid
<1> QED BY <1>1, <1>3, <1>4, <1>5, <1>6 DEF MirrorInv, OneCaller

\* The files that are patched or removed.
LEMMA ChangeMirror ==
  ASSUME TypeOK, LocalsOK, OneCaller, VaultInv, MirrorInv, NEW t \in Threads,
         patch_rename(t) \/ forget_file(t)
  PROVE  MirrorInv'
<1> DEFINE c == call[t]
           o == c.old
<1>0. /\ CallTypes /\ c \in Call /\ MirrorLocals(pc[t], c) /\ Locals(pc[t], c)
      /\ file \in Rows
  BY DEF TypeOK, CallTypes, MirrorInv, LocalsOK
<1>1. Followed
  BY StepFollowed DEF Step, vault_write, patch_rename, forget_file, At
<1>2. CASE patch_rename(t)
  <2>1. /\ pc[t] = "patch_rename" /\ o \in Ids /\ file[o] # NONE /\ call' = call
        /\ file' = [file EXCEPT ![o] = c.patch] /\ UNCHANGED <<used, links, gated>>
        /\ pc'[t] = CASE c.op = "feedback" -> "feedback_path"
                      [] c.op = "write" -> "get_old"
                      [] OTHER -> "ingest_new"
    BY <1>2, RenameVault
  <2>2. UNCHANGED <<index, wbuf>> /\ dirty' \subseteq dirty \cup {o}
    BY <1>2 DEF patch_rename, Changed
  <2>3. dirty' \subseteq used
    BY <2>1, <2>2 DEF MirrorInv, VaultInv
  <2>4. \A id \in Ids : file'[id] = IF id = o THEN c.patch ELSE file[id]
    BY <1>0, <2>1 DEF Rows
  <2>5. c.op # "feedback" => file[c.new] = c.buf /\ c.new # o /\ c.new \in Ids
    BY <1>0, <2>1 DEF MirrorLocals, Unindexed, Locals
  <2>6. c.op # "feedback" => file'[c.new] = c.buf
    BY <2>4, <2>5
  <2>7. MirrorLocals(pc[t], call[t])'
    <3>1. CASE c.op = "feedback"
      <4>1. pc'[t] = "feedback_path" /\ c.patch = file'[o]
        BY <2>1, <2>4, <3>1
      <4> QED BY <2>1, <4>1 DEF MirrorLocals, Unindexed
    <3>2. CASE c.op # "feedback"
      <4>1. pc'[t] \in {"get_old", "ingest_new"}
        BY <2>1, <3>2
      <4> QED BY <2>1, <2>5, <2>6, <3>2, <4>1 DEF MirrorLocals, Unindexed
    <3> QED BY <3>1, <3>2
  <2>8. c.op # "feedback" => Unindexed(pc[t], call[t])'
    BY <2>1 DEF Unindexed
  <2> QED BY <1>1, <2>1, <2>2, <2>3, <2>7, <2>8, MirrorKeeps DEF Unindexed
<1>3. CASE forget_file(t)
  <2>1. /\ pc[t] = "forget_file" /\ o \in Ids /\ UNCHANGED <<used, links, gated>>
        /\ file' = [file EXCEPT ![o] = NONE]
    BY <1>3, ForgetVault DEF forget_file, At
  <2>2. /\ UNCHANGED <<index, wbuf>>
        /\ dirty' = dirty \/ (dirty' = dirty \cup {o} /\ file[o] # NONE)
    BY <1>3 DEF forget_file, Changed
  <2>3. dirty' \subseteq used
    BY <2>1, <2>2 DEF MirrorInv, VaultInv
  <2>4. ~Unindexed(pc[t], c)
    BY <2>1 DEF Unindexed
  <2>5. MirrorLocals(pc[t], call[t])'
    <3>1. CASE file[o] = NONE
      <4>1. Abort(t)
        BY <1>3, <3>1 DEF forget_file
      <4>2. pc'[t] \in {"idle", "graduate_next"}
        BY <1>0, <4>1, ReturnEnds
      <4> QED BY <4>2 DEF MirrorLocals, Unindexed
    <3>2. CASE file[o] # NONE
      <4>1. pc'[t] = "forget_index" /\ call' = call /\ file'[o] = NONE
        BY <1>0, <1>3, <2>1, <3>2 DEF forget_file, Goto, CallTypes, Rows
      <4> QED BY <4>1 DEF MirrorLocals, Unindexed
    <3> QED BY <3>1, <3>2
  <2> QED BY <1>1, <2>1, <2>2, <2>3, <2>4, <2>5, MirrorKeeps
<1> QED BY <1>2, <1>3


\* A record the gate writes has no valid twin, and until it is ingested the call
\* that wrote it is the only one.
LEMMA WriteMirror ==
  ASSUME TypeOK, LocalsOK, OneCaller, VaultInv, MirrorInv, NEW t \in Threads,
         vault_write(t)
  PROVE  MirrorInv'
<1> DEFINE c == call[t]
<1>a. \A u \in Threads : u = t
  BY DEF OneCaller
<1>0. /\ CallTypes /\ c \in Call /\ MirrorLocals(pc[t], c) /\ Locals(pc[t], c)
      /\ VaultLocals(pc[t], c) /\ file \in Rows
  BY DEF TypeOK, CallTypes, MirrorInv, LocalsOK, VaultInv
<1>1. /\ pc[t] = "vault_write" /\ c.new \in Ids \ used /\ file[c.new] = NONE
      /\ c.buf \in Record /\ c.op # "feedback"
      /\ c.old # NONE => file[c.old] # NONE
      /\ c.op # "write" => NoTwin(c.buf)
  BY <1>0, WriteVault DEF vault_write, At, Locals, MirrorLocals, VaultLocals, Holding
<1>2. /\ file' = [file EXCEPT ![c.new] = c.buf] /\ used' = used \cup {c.new}
      /\ dirty' = dirty \cup {c.new} /\ call' = call /\ UNCHANGED <<index, wbuf>>
      /\ links \subseteq links'
      /\ gated' = IF c.op = "write" THEN gated ELSE gated \cup {c.new}
      /\ Goto(t, IF c.old = NONE THEN "ingest_new" ELSE "patch_get")
  BY DEF vault_write, Changed
<1>3. pc'[t] = IF c.old = NONE THEN "ingest_new" ELSE "patch_get"
  BY <1>0, <1>2 DEF Goto, CallTypes
<1>4. file'[c.new] = c.buf /\ \A id \in Ids \ {c.new} : file'[id] = file[id]
  BY <1>0, <1>1, <1>2 DEF Rows
<1>5. c.new # c.old
  BY <1>1, ConstantsAssumption
<1>6. Unindexed(pc[t], call[t])' /\ MirrorLocals(pc[t], call[t])'
  BY <1>1, <1>2, <1>3, <1>4, <1>5 DEF Unindexed, MirrorLocals
<1>7. ASSUME NEW id \in Ids PROVE Shows(index[id], id)' \/ call'[t].new = id
  <2>1. ~Unindexed(pc[t], c)
    BY <1>1 DEF Unindexed
  <2>2. Shows(index[id], id)
    BY <1>a, <2>1 DEF MirrorInv
  <2>3. CASE id # c.new
    BY <1>2, <1>4, <2>2, <2>3 DEF Shows
  <2> QED BY <1>2, <2>3
<1>8. wbuf' # NONE => wbuf'[1] \in used' /\ Shows(wbuf[2], wbuf[1])'
  <2> SUFFICES ASSUME wbuf # NONE PROVE wbuf[1] \in used' /\ Shows(wbuf[2], wbuf[1])'
    BY <1>2
  <2>1. wbuf[1] \in used /\ wbuf[1] \in Ids /\ Shows(wbuf[2], wbuf[1])
    BY DEF MirrorInv, TypeOK
  <2>2. file'[wbuf[1]] = file[wbuf[1]]
    BY <1>1, <1>4, <2>1
  <2> QED BY <1>2, <2>1, <2>2 DEF Shows
<1>9. gated' \subseteq used' /\ dirty' \subseteq used'
  BY <1>2 DEF MirrorInv
<1>10. NoDuplicateValid'
  <2> SUFFICES ASSUME NEW i \in gated', NEW j \in gated', i # j, IsValid(file'[i]),
                      IsValid(file'[j]), {<<i, j>>, <<j, i>>} \cap links' = {}
               PROVE  file'[i].scope # file'[j].scope \/ file'[i].body # file'[j].body
    BY DEF NoDuplicateValid
  <2>1. ASSUME NEW k \in gated', k # c.new PROVE k \in gated /\ k \in Ids /\ file'[k] = file[k]
    BY <1>2, <1>4, <2>1 DEF TypeOK
  <2>2. c.new \notin gated
    BY <1>1 DEF MirrorInv
  <2>3. c.new \in gated' => NoTwin(c.buf)
    BY <1>1, <1>2, <2>2
  <2>4. CASE i # c.new /\ j # c.new
    <3>1. {<<i, j>>, <<j, i>>} \cap links = {}
      BY <1>2
    <3> QED BY <2>1, <2>4, <3>1 DEF MirrorInv, NoDuplicateValid
  <2>5. CASE i = c.new
    BY <1>4, <2>1, <2>3, <2>5 DEF NoTwin
  <2>6. CASE j = c.new
    BY <1>4, <2>1, <2>3, <2>6 DEF NoTwin
  <2> QED BY <2>4, <2>5, <2>6
<1> QED BY <1>a, <1>6, <1>7, <1>8, <1>9, <1>10 DEF MirrorInv

\* The watcher installs what it has loaded, which is at worst an earlier state.
LEMMA WatchMirror ==
  ASSUME TypeOK, MirrorInv, Watch
  PROVE  MirrorInv'
<1>1. UNCHANGED <<file, used, links, gated, pc, call>>
  BY DEF Watch, watch_load, watch_apply, disk, histories
<1>2. NoDuplicateValid' /\ \A t \in Threads : MirrorLocals(pc[t], call[t])'
  BY <1>1 DEF MirrorInv, NoDuplicateValid, MirrorLocals, Unindexed, NoTwin
<1>3. CASE watch_load
  <2>1. PICK id \in dirty : dirty' = dirty \ {id} /\ wbuf' = <<id, file[id]>> /\ index' = index
    BY <1>3 DEF watch_load, disk
  <2>2. wbuf'[1] \in used' /\ Shows(wbuf[2], wbuf[1])'
    BY <1>1, <2>1 DEF MirrorInv, Shows
  <2>3. \A i \in Ids : \/ Shows(index[i], i)'
                       \/ \E t \in Threads : Unindexed(pc'[t], call'[t]) /\ call'[t].new = i
    BY <1>1, <2>1 DEF MirrorInv, Shows
  <2> QED BY <1>1, <1>2, <2>1, <2>2, <2>3 DEF MirrorInv
<1>4. CASE watch_apply
  <2> DEFINE id == wbuf[1]
             r == wbuf[2]
  <2>1. /\ wbuf # NONE /\ wbuf' = NONE /\ dirty' = dirty /\ id \in Ids
        /\ index' = [index EXCEPT ![id] = r] /\ Shows(r, id)
    BY <1>4 DEF watch_apply, Ingest, TypeOK, MirrorInv
  <2> HIDE DEF id, r
  <2>2. \A i \in Ids : index'[i] = IF i = id THEN r ELSE index[i]
    BY <2>1 DEF TypeOK, Rows
  <2>3. ASSUME NEW i \in Ids
        PROVE  \/ Shows(index[i], i)'
               \/ \E t \in Threads : Unindexed(pc'[t], call'[t]) /\ call'[t].new = i
    <3>1. CASE i = id
      BY <1>1, <2>1, <2>2, <3>1 DEF Shows
    <3>2. CASE i # id
      BY <1>1, <2>2, <3>2 DEF MirrorInv, Shows
    <3> QED BY <3>1, <3>2
  <2> QED BY <1>1, <1>2, <2>1, <2>3 DEF MirrorInv
<1> QED BY <1>3, <1>4 DEF Watch

\* Opening the core rebuilds the index.
LEMMA CrashMirror ==
  ASSUME MirrorInv, Crash
  PROVE  MirrorInv'
<1>1. /\ UNCHANGED <<file, used, links, gated>> /\ dirty' = {} /\ wbuf' = NONE
      /\ index' = file /\ \A t \in Threads : pc'[t] = "idle"
  BY DEF Crash, histories
<1>2. \A id \in Ids : Shows(index[id], id)'
  BY <1>1 DEF Shows
<1>3. \A t \in Threads : MirrorLocals(pc[t], call[t])'
  BY <1>1 DEF MirrorLocals, Unindexed
<1>4. NoDuplicateValid'
  BY <1>1 DEF MirrorInv, NoDuplicateValid
<1> QED BY <1>1, <1>2, <1>3, <1>4 DEF MirrorInv

\* With calls made one at a time, exact dedup holds: of two records that came
\* through the gate, neither correcting the other, one is invalid or they differ in
\* scope or body.  The index the gate asks may be behind or ahead of the vault, but
\* it never misses a valid record, whatever the watcher has still to apply.
THEOREM DedupHolds == OneCaller => (Spec => []NoDuplicateValid)
<1> SUFFICES ASSUME OneCaller PROVE Spec => []NoDuplicateValid
  OBVIOUS
<1>1. Init => MirrorInv
  <2> SUFFICES ASSUME Init PROVE MirrorInv
    OBVIOUS
  <2>1. /\ \A id \in Ids : file[id] = NONE
        /\ dirty = {} /\ wbuf = NONE /\ gated = {}
        /\ \A t \in Threads : pc[t] = "idle"
    BY DEF Init
  <2>2. \A id \in Ids : Shows(index[id], id)
    BY <2>1 DEF Shows, IsValid
  <2> QED BY <2>1, <2>2 DEF MirrorInv, NoDuplicateValid, MirrorLocals, Unindexed
<1>2. TypeOK /\ LocalsOK /\ VaultInv /\ [Next]_vars => VaultInv'
  BY VaultStep
<1>3. TypeOK /\ LocalsOK /\ VaultInv /\ MirrorInv /\ [Next]_vars => MirrorInv'
  <2> SUFFICES ASSUME TypeOK, LocalsOK, VaultInv, MirrorInv, [Next]_vars
               PROVE  MirrorInv'
    OBVIOUS
  <2>1. ASSUME NEW t \in Threads, Start(t) PROVE MirrorInv'
    BY <2>1, StartMirror
  <2>2. ASSUME NEW t \in Threads, Step(t) PROVE MirrorInv'
    BY <2>2, GateMirror, ReadMirror, IngestMirror, RebuildMirror, ChangeMirror, WriteMirror
       DEF Step
  <2>3. CASE Tick \/ UNCHANGED vars
    <3>1. UNCHANGED <<file, index, dirty, wbuf, used, links, gated, pc, call>>
      BY <2>3 DEF Tick, vars, disk, watcher, histories
    <3> QED BY <3>1 DEF MirrorInv, NoDuplicateValid, MirrorLocals, Shows, Unindexed, NoTwin
  <2> QED BY <2>1, <2>2, <2>3, WatchMirror, CrashMirror DEF Next
<1>4. MirrorInv => NoDuplicateValid
  BY DEF MirrorInv
<1> QED BY InitVault, <1>1, <1>2, <1>3, <1>4, TypeCorrect, PTL DEF Spec


-----------------------------------------------------------------------------
(* GraduateInv is kept.                                                    *)

\* No record is marked without a new candidate or a new record.
LEMMA UnmarkedStays ==
  ASSUME Followed, queue' \subseteq queue, NEW id
  PROVE  Unmarked(id) => Unmarked(id)'
BY DEF Followed, Follows, Unmarked

LEMMA GraduatedStays ==
  ASSUME Followed, queue' \subseteq queue, GraduatedOnce
  PROVE  GraduatedOnce'
<1>1. \A r \in Ids : file'[r] # NONE => file[r] # NONE /\ file'[r].from = file[r].from
  BY DEF Followed, Follows
<1> QED BY <1>1 DEF GraduatedOnce

\* A step that queues nothing, writes no new record and puts no other candidate
\* into the call's hands.
LEMMA GraduateKeeps ==
  ASSUME OneCaller, GraduateInv, NEW t \in Threads, Followed, queue' \subseteq queue,
         pc'[t] \in Locked => snap'[t] = queue',
         pc'[t] \notin {"vault_write", "graduate_queue"},
         call'[t].todo \subseteq call[t].todo,
         Carries(pc[t], call[t])' =>
            Carries(pc[t], call[t]) /\ call'[t].cand.from = call[t].cand.from
  PROVE  GraduateInv'
<1>1. GraduateLocals(pc[t], call[t])
  BY DEF GraduateInv
<1>2. PICK x, D : x = call'[t].cand.from /\ D = call'[t].todo
  OBVIOUS
<1>3. Carries(pc[t], call[t])' /\ x # NONE => Unmarked(x) /\ \A k \in D : k.from # x
  BY <1>1, <1>2 DEF GraduateLocals
<1>4. Carries(pc[t], call[t])' /\ x # NONE => Unmarked(x)' /\ \A k \in D : k.from # x
  BY <1>3, UnmarkedStays
<1>5. \A k \in D : k.from \in Ids /\ Unmarked(k.from)
  BY <1>1, <1>2 DEF GraduateLocals
<1>6. ASSUME NEW k \in D PROVE k.from \in Ids /\ Unmarked(k.from)'
  <2>1. PICK y : y = k.from
    OBVIOUS
  <2>2. y \in Ids /\ Unmarked(y)
    BY <1>5, <2>1
  <2>3. Unmarked(y)'
    BY <2>2, UnmarkedStays
  <2> QED BY <2>1, <2>2, <2>3 DEF Unmarked
<1>7. \A k, m \in D : k.from = m.from => k = m
  BY <1>1, <1>2 DEF GraduateLocals
<1>8. Carries(pc[t], call[t])' /\ call'[t].cand.from # NONE =>
        Unmarked(call[t].cand.from)' /\ \A k \in D : k.from # call'[t].cand.from
  BY <1>2, <1>4 DEF Unmarked
<1>9. GraduateLocals(pc[t], call[t])'
  BY <1>2, <1>6, <1>7, <1>8 DEF GraduateLocals
<1>10. GraduatedOnce'
  BY GraduatedStays DEF GraduateInv
<1> QED BY <1>9, <1>10 DEF GraduateInv, OneCaller

\* A scan that goes on keeps what it has still to submit.
LEMMA ReturnTodo ==
  ASSUME CallTypes, NEW t \in Threads, Abort(t) \/ Return(t)
  PROVE  call'[t].todo \subseteq call[t].todo
<1>1. CASE Abort(t)
  BY <1>1 DEF Abort, Blank, CallTypes
<1>2. CASE Return(t) /\ ~Abort(t)
  <2> DEFINE c == [Blank EXCEPT !.op = call[t].op, !.todo = call[t].todo]
  <2>1. call' = [call EXCEPT ![t] = c]
    BY <1>2 DEF Return
  <2>2. c.todo = call[t].todo
    BY DEF Blank
  <2> HIDE DEF c
  <2> QED BY <2>1, <2>2 DEF CallTypes
<1> QED BY <1>1, <1>2

LEMMA ReturnGraduate ==
  ASSUME CallTypes, OneCaller, GraduateInv, NEW t \in Threads, Abort(t) \/ Return(t),
         Followed, queue' \subseteq queue
  PROVE  GraduateInv'
<1>1. pc'[t] \in {"idle", "graduate_next"}
  BY ReturnEnds
<1> QED BY <1>1, ReturnTodo, GraduateKeeps DEF Locked, Carries

\* The steps that neither queue, commit nor scan.
LEMMA CalmGraduate ==
  ASSUME TypeOK, LocalsOK, OneCaller, VaultInv, GraduateInv, NEW t \in Threads,
         \/ patch_get(t) \/ patch_tmp(t) \/ patch_rename(t)
         \/ forget_file(t) \/ forget_index(t)
         \/ ingest_new(t) \/ get_old(t) \/ ingest_old(t)
         \/ feedback_path(t) \/ feedback_ingest(t)
         \/ rebuild_walk(t) \/ rebuild_commit(t)
         \/ dedup(t) \/ probe(t) \/ probe_get(t) \/ policy(t)
         \/ queue_lock(t) \/ materialize_skill(t)
  PROVE  GraduateInv'
<1> DEFINE c == call[t]
<1>0. /\ CallTypes /\ c \in Call /\ Locals(pc[t], c) /\ Flows(pc[t], pc'[t])
  BY StepFlows DEF TypeOK, CallTypes, LocalsOK, Step
<1>1. Followed
  BY StepFollowed DEF Step, vault_write, patch_get, patch_tmp, patch_rename, forget_file,
     forget_index, ingest_new, get_old, ingest_old, feedback_path, feedback_ingest,
     rebuild_walk, rebuild_commit, dedup, probe, probe_get, policy, queue_lock,
     materialize_skill, At
<1>2. queue' = queue
  BY DEF patch_get, patch_tmp, patch_rename, forget_file,
     forget_index, ingest_new, get_old, ingest_old, feedback_path, feedback_ingest,
     rebuild_walk, rebuild_commit, dedup, probe, probe_get, policy, queue_lock,
     materialize_skill, OnlyIndex, Local, disk
<1>3. CASE Abort(t) \/ Return(t)
  BY <1>0, <1>1, <1>2, <1>3, ReturnGraduate
<1>4. CASE /\ ~Abort(t) /\ ~Return(t)
           /\ \/ patch_get(t) \/ patch_tmp(t) \/ patch_rename(t) \/ forget_file(t)
              \/ forget_index(t) \/ ingest_new(t) \/ get_old(t) \/ ingest_old(t)
              \/ feedback_path(t) \/ feedback_ingest(t)
              \/ rebuild_walk(t) \/ rebuild_commit(t)
  <2>1. pc[t] \in {"patch_get", "patch_tmp", "patch_rename", "forget_file", "forget_index",
                   "ingest_new", "get_old", "ingest_old", "feedback_path",
                   "feedback_ingest", "rebuild_walk", "rebuild_commit"}
    BY <1>4 DEF patch_get, patch_tmp, patch_rename, forget_file, forget_index, ingest_new,
                get_old, ingest_old, feedback_path, feedback_ingest, rebuild_walk,
                rebuild_commit, At
  <2>2. /\ pc'[t] \notin Locked \cup {"vault_write", "graduate_queue"}
        /\ ~Carries(pc[t], call[t])'
    BY <1>0, <2>1 DEF Flows, Locked, Carries
  <2>3. \/ call' = call
        \/ \E r : call' = [call EXCEPT ![t].patch = r] \/ call' = [call EXCEPT ![t].walk = r]
    <3>1. CASE patch_get(t) \/ get_old(t) \/ rebuild_walk(t)
      BY <1>4, <3>1 DEF patch_get, get_old, rebuild_walk
    <3>2. CASE patch_tmp(t) \/ patch_rename(t) \/ forget_file(t) \/ feedback_path(t)
      BY <1>4, <3>2 DEF patch_tmp, patch_rename, forget_file, feedback_path
    <3>3. CASE ingest_new(t) \/ ingest_old(t)
      BY <1>4, <3>3 DEF ingest_new, ingest_old, Committed
    <3>4. forget_index(t) \/ feedback_ingest(t) \/ rebuild_commit(t) => Return(t)
      BY DEF forget_index, feedback_ingest, rebuild_commit
    <3> QED BY <1>4, <3>1, <3>2, <3>3, <3>4
  <2>4. call'[t].todo = c.todo
    BY <1>0, <2>3 DEF CallTypes, Call
  <2> QED BY <1>1, <1>2, <2>2, <2>4, GraduateKeeps
<1>5. CASE dedup(t) /\ ~Return(t)
  <2>1. pc[t] = "dedup" /\ call' = call
    BY <1>5 DEF dedup, At
  <2>2. pc'[t] \notin Locked \cup {"vault_write", "graduate_queue"}
    BY <1>0, <2>1 DEF Flows, Locked
  <2> QED BY <1>1, <1>2, <2>1, <2>2, GraduateKeeps DEF Carries
<1>6. CASE probe(t)
  <2>1. pc[t] = "probe" /\ \E o : call' = [call EXCEPT ![t].old = o]
    BY <1>6 DEF probe, At
  <2>2. call'[t].cand = c.cand /\ call'[t].todo = c.todo
    BY <1>0, <2>1 DEF CallTypes, Call
  <2>3. pc'[t] \notin Locked \cup {"vault_write", "graduate_queue"}
    BY <1>0, <2>1 DEF Flows, Locked
  <2> QED BY <1>1, <1>2, <2>1, <2>2, <2>3, GraduateKeeps DEF Carries
<1>7. CASE probe_get(t)
  <2>1. /\ pc[t] = "probe_get" /\ c.cand \in Candidate
        /\ \E d : call' = [call EXCEPT ![t].old = NONE, ![t].cand.corrects = d]
    BY <1>0, <1>7 DEF probe_get, At, Locals
  <2>2. call'[t].cand.from = c.cand.from /\ call'[t].todo = c.todo
    BY <1>0, <2>1, ProbeGetCandidate
  <2>3. pc'[t] \notin Locked \cup {"vault_write", "graduate_queue"}
    BY <1>0, <2>1 DEF Flows, Locked
  <2> QED BY <1>1, <1>2, <2>1, <2>2, <2>3, GraduateKeeps DEF Carries
<1>8. CASE policy(t)
  <2>1. pc[t] = "policy" /\ call' = call
    BY <1>8 DEF policy, At
  <2>2. pc'[t] \notin Locked \cup {"vault_write", "graduate_queue"}
    BY <1>0, <2>1 DEF Flows, Locked
  <2> QED BY <1>1, <1>2, <2>1, <2>2, GraduateKeeps DEF Carries
<1>9. CASE queue_lock(t)
  <2>1. /\ pc[t] = "queue_lock" /\ call' = call /\ snap' = [snap EXCEPT ![t] = queue]
        /\ Goto(t, IF c.op \in {"approve", "reject"} THEN "queue_take" ELSE "queue_push")
    BY <1>9 DEF queue_lock, At
  <2>2. /\ pc'[t] = IF c.op \in {"approve", "reject"} THEN "queue_take" ELSE "queue_push"
        /\ snap'[t] = queue
    BY <1>0, <2>1 DEF Goto, CallTypes, TypeOK
  <2> QED BY <1>1, <1>2, <2>1, <2>2, GraduateKeeps DEF Carries
<1>10. materialize_skill(t) => Return(t)
  BY DEF materialize_skill
<1>11. patch_get(t) \/ patch_tmp(t) \/ patch_rename(t) \/ forget_file(t)
       \/ forget_index(t) \/ ingest_new(t) \/ get_old(t) \/ ingest_old(t)
       \/ feedback_path(t) \/ feedback_ingest(t) \/ rebuild_walk(t) \/ rebuild_commit(t)
       => GraduateInv'
  BY <1>3, <1>4
<1> QED BY <1>3, <1>5, <1>6, <1>7, <1>8, <1>9, <1>10, <1>11


\* A candidate is queued only while nothing is made of its record.
LEMMA PushGraduate ==
  ASSUME TypeOK, LocalsOK, OneCaller, GraduateInv, NEW t \in Threads, queue_push(t)
  PROVE  GraduateInv'
<1> DEFINE c == call[t]
           x == c.cand.from
           item == [qid |-> issued + 1, cand |-> c.cand]
<1>a. \A u \in Threads : u = t
  BY DEF OneCaller
<1>0. CallTypes /\ GraduateLocals(pc[t], c)
  BY DEF TypeOK, CallTypes, GraduateInv
<1>1. /\ pc[t] = "queue_push" /\ Return(t) /\ UNCHANGED file
      /\ queue' = queue \cup {item}
  BY DEF queue_push, At, GraduateInv, Locked
<1>2. item.cand.from = x
  OBVIOUS
<1>3. x # NONE => Unmarked(x) /\ \A k \in c.todo : k.from # x
  BY <1>0, <1>1 DEF GraduateLocals, Carries
<1> HIDE DEF item
<1>4. pc'[t] \in {"idle", "graduate_next"} /\ call'[t].todo \subseteq c.todo
  BY <1>0, <1>1, ReturnEnds, ReturnTodo
<1>5. ASSUME NEW k \in c.todo PROVE k.from \in Ids /\ Unmarked(k.from)'
  <2>1. k.from \in Ids /\ Unmarked(k.from) /\ k.from # x
    BY <1>0, <1>3, ConstantsAssumption DEF GraduateLocals
  <2>2. PICK y : y = k.from
    OBVIOUS
  <2>3. Unmarked(y)'
    BY <1>1, <1>2, <2>1, <2>2 DEF Unmarked
  <2> QED BY <2>1, <2>2, <2>3 DEF Unmarked
<1>6. \A k, m \in c.todo : k.from = m.from => k = m
  BY <1>0 DEF GraduateLocals
<1>7. GraduateLocals(pc[t], call[t])'
  BY <1>4, <1>5, <1>6 DEF GraduateLocals, Carries
<1>8. GraduatedOnce'
  <2>1. x \in Ids => Unmarked(x)
    BY <1>3, ConstantsAssumption
  <2>2. GraduatedOnce
    BY DEF GraduateInv
  <2>3. ASSUME NEW id \in Ids
        PROVE  /\ \A i, j \in queue' : i.cand.from = id /\ j.cand.from = id => i = j
               /\ \A i \in queue', j \in {r \in Ids : file[r] # NONE} :
                     i.cand.from = id => file[j].from # id
    <3>1. CASE id = x
      BY <1>1, <1>2, <2>1, <3>1 DEF Unmarked
    <3>2. CASE id # x
      BY <1>1, <1>2, <2>2, <3>2 DEF GraduatedOnce
    <3> QED BY <3>1, <3>2
  <2> QED BY <1>1, <2>2, <2>3 DEF GraduatedOnce
<1>9. pc'[t] \notin Locked
  BY <1>4 DEF Locked
<1> QED BY <1>a, <1>7, <1>8, <1>9 DEF GraduateInv

\* A reviewed candidate that leaves the queue was the only one of its record.
LEMMA TakeGraduate ==
  ASSUME TypeOK, LocalsOK, OneCaller, VaultInv, GraduateInv, NEW t \in Threads,
         queue_take(t)
  PROVE  GraduateInv'
<1> DEFINE c == call[t]
<1>a. \A u \in Threads : u = t
  BY DEF OneCaller
<1>0. /\ CallTypes /\ c \in Call /\ Locals(pc[t], c) /\ Flows(pc[t], pc'[t])
  BY StepFlows DEF TypeOK, CallTypes, LocalsOK, Step
<1>1. /\ pc[t] = "queue_take" /\ UNCHANGED file /\ snap[t] = queue /\ queue' \subseteq queue
      /\ c.todo = {}
  BY <1>0 DEF queue_take, At, GraduateInv, Locked, Locals
<1>2. Followed
  BY <1>1, SameFollowed
<1>3. CASE Abort(t) \/ Return(t)
  BY <1>0, <1>1, <1>2, <1>3, ReturnGraduate
<1>4. CASE ~Abort(t) /\ ~Return(t)
  <2>1. PICK item \in queue : /\ queue' = queue \ {item}
                              /\ call' = [call EXCEPT ![t].cand = item.cand]
                              /\ Goto(t, "dedup")
    BY <1>1, <1>4 DEF queue_take
  <2>2. /\ pc'[t] = "dedup" /\ call'[t].cand = item.cand /\ call'[t].todo = {}
    BY <1>0, <1>1, <2>1 DEF Goto, CallTypes, Call
  <2> DEFINE x == item.cand.from
  <2>3. x \in Ids \cup {NONE}
    BY DEF TypeOK, QueueItem, Candidate
  <2>4. x \in Ids => Unmarked(x)'
    BY <1>1, <2>1 DEF GraduateInv, GraduatedOnce, Unmarked
  <2>5. GraduateLocals(pc[t], call[t])'
    BY <2>2, <2>3, <2>4 DEF GraduateLocals, Unmarked
  <2>6. GraduatedOnce' /\ pc'[t] \notin Locked
    BY <1>1, <1>2, <2>2, GraduatedStays DEF GraduateInv, Locked
  <2> QED BY <1>a, <2>5, <2>6 DEF GraduateInv
<1> QED BY <1>3, <1>4

LEMMA CommitGraduate ==
  ASSUME TypeOK, LocalsOK, OneCaller, VaultInv, GraduateInv, NEW t \in Threads, commit(t)
  PROVE  GraduateInv'
<1> DEFINE c == call[t]
<1>a. \A u \in Threads : u = t
  BY DEF OneCaller
<1>0. /\ CallTypes /\ c \in Call /\ Locals(pc[t], c) /\ GraduateLocals(pc[t], c)
  BY DEF TypeOK, CallTypes, LocalsOK, GraduateInv
<1>1. pc[t] = "commit" /\ UNCHANGED <<file, queue>>
  BY DEF commit, At, disk
<1>2. Followed
  BY <1>1, SameFollowed
<1>3. CASE Abort(t)
  BY <1>0, <1>1, <1>2, <1>3, ReturnGraduate
<1>4. CASE ~Abort(t)
  <2> DEFINE r == new_record(c.cand)
             x == c.cand.corrects
  <2>1. Goto(t, "vault_write") /\ call' = [call EXCEPT ![t].buf = r, ![t].old = x]
    BY <1>4 DEF commit
  <2>2. r.from = c.cand.from
    BY DEF new_record
  <2>3. c.cand.from # NONE => Unmarked(c.cand.from)
    BY <1>0, <1>1 DEF GraduateLocals, Carries
  <2> HIDE DEF r, x
  <2>4. pc'[t] = "vault_write" /\ call'[t].buf = r /\ call'[t].todo = c.todo
    BY <1>0, <2>1 DEF Goto, CallTypes, Call
  <2>5. GraduateLocals(pc[t], call[t])'
    BY <1>0, <1>1, <2>2, <2>3, <2>4 DEF GraduateLocals, Carries, Unmarked
  <2>6. GraduatedOnce' /\ pc'[t] \notin Locked
    BY <1>1, <1>2, <2>4, GraduatedStays DEF GraduateInv, Locked
  <2> QED BY <1>a, <2>5, <2>6 DEF GraduateInv
<1> QED BY <1>3, <1>4

\* A record that comes of another is written only while nothing else does.
LEMMA WriteGraduate ==
  ASSUME TypeOK, LocalsOK, OneCaller, VaultInv, GraduateInv, NEW t \in Threads,
         vault_write(t)
  PROVE  GraduateInv'
<1> DEFINE c == call[t]
           x == c.buf.from
<1>a. \A u \in Threads : u = t
  BY DEF OneCaller
<1>0. /\ CallTypes /\ c \in Call /\ Locals(pc[t], c) /\ GraduateLocals(pc[t], c)
      /\ Flows(pc[t], pc'[t]) /\ file \in Rows
  BY StepFlows DEF TypeOK, CallTypes, LocalsOK, GraduateInv, Step
<1>1. /\ pc[t] = "vault_write" /\ call' = call /\ queue' = queue
      /\ file' = [file EXCEPT ![c.new] = c.buf] /\ c.new \in Ids /\ file[c.new] = NONE
      /\ c.todo = {}
  BY <1>0, WriteVault DEF vault_write, At, Locals
<1>2. \A id \in Ids : file'[id] = IF id = c.new THEN c.buf ELSE file[id]
  BY <1>0, <1>1 DEF Rows
<1>3. \A id \in Ids : x = id => Unmarked(x)
  BY <1>0, <1>1, ConstantsAssumption DEF GraduateLocals
<1>4. pc'[t] \notin Locked \cup {"vault_write", "graduate_queue"} /\ ~Carries(pc[t], call[t])'
  <2>1. pc'[t] \in {"idle", "graduate_next", "ingest_new", "patch_get"}
    BY <1>0, <1>1 DEF Flows
  <2> QED BY <2>1 DEF Locked, Carries
<1>5. GraduateLocals(pc[t], call[t])'
  BY <1>1, <1>4 DEF GraduateLocals
<1>6. GraduatedOnce'
  <2>1. GraduatedOnce
    BY DEF GraduateInv
  <2>2. ASSUME NEW id \in Ids
        PROVE  /\ \A i, j \in {r \in Ids : file'[r] # NONE} :
                     file'[i].from = id /\ file'[j].from = id => i = j
               /\ \A i \in queue, j \in {r \in Ids : file'[r] # NONE} :
                     i.cand.from = id => file'[j].from # id
    <3>1. CASE id = x
      BY <1>2, <1>3, <3>1 DEF Unmarked
    <3>2. CASE id # x
      BY <1>2, <2>1, <3>2 DEF GraduatedOnce
    <3> QED BY <3>1, <3>2
  <2> QED BY <1>1, <2>1, <2>2 DEF GraduatedOnce
<1> QED BY <1>a, <1>4, <1>5, <1>6 DEF GraduateInv

\* The scan leaves out the records that something was made of, and submits each of
\* the others once.
LEMMA ScanGraduate ==
  ASSUME TypeOK, OneCaller, GraduateInv, NEW t \in Threads,
         graduate_walk(t) \/ graduate_queue(t) \/ graduate_next(t)
  PROVE  GraduateInv'
<1> DEFINE c == call[t]
<1>a. \A u \in Threads : u = t
  BY DEF OneCaller
<1>0. CallTypes /\ c \in Call /\ GraduateLocals(pc[t], c)
  BY DEF TypeOK, CallTypes, GraduateInv
<1>1. UNCHANGED <<file, queue, snap>>
  BY DEF graduate_walk, graduate_queue, graduate_next, Local, disk
<1>2. Followed
  BY <1>1, SameFollowed
<1>3. GraduatedOnce'
  BY <1>1, <1>2, GraduatedStays DEF GraduateInv
<1>4. ASSUME NEW D, D = call'[t].todo,
             \A k \in D : k.from \in Ids /\ Unmarked(k.from),
             \A k, m \in D : k.from = m.from => k = m
      PROVE  /\ \A k \in call'[t].todo : k.from \in Ids /\ Unmarked(k.from)'
             /\ \A k, m \in call'[t].todo : k.from = m.from => k = m
  BY <1>1, <1>4 DEF Unmarked
<1>5. CASE graduate_walk(t)
  <2>1. pc'[t] = "graduate_queue" /\ call'[t].walk = file /\ call'[t].todo = c.todo
    BY <1>0, <1>5 DEF graduate_walk, Goto, CallTypes, Call
  <2>2. /\ \A k \in call'[t].todo : k.from \in Ids /\ Unmarked(k.from)'
        /\ \A k, m \in call'[t].todo : k.from = m.from => k = m
    BY <1>0, <1>4, <2>1 DEF GraduateLocals
  <2>3. GraduateLocals(pc[t], call[t])'
    BY <1>1, <2>1, <2>2 DEF GraduateLocals, Carries
  <2> QED BY <1>a, <1>3, <2>1, <2>3 DEF GraduateInv, Locked
<1>6. CASE graduate_queue(t)
  <2> DEFINE already == {i.cand.from : i \in queue}
                          \cup {file[id].from : id \in {i \in Ids : file[i] # NONE}}
             S == {i \in {j \in Ids : file[j] # NONE} : Proven(file[i]) /\ i \notin already}
             Made(id) == [body |-> [src |-> id, uses |-> file[id].uses],
                          scope |-> file[id].scope, kind |-> "skill",
                          from |-> id, corrects |-> NONE]
             D == {Made(id) : id \in S}
  <2>1. /\ pc[t] = "graduate_queue" /\ Goto(t, "graduate_next")
        /\ call' = [call EXCEPT ![t].walk = NONE, ![t].todo = D]
    <3>1. pc[t] = "graduate_queue"
      BY <1>6 DEF graduate_queue, At
    <3>2. c.walk = file
      BY <1>0, <3>1 DEF GraduateLocals
    <3> QED BY <1>6, <3>1, <3>2 DEF graduate_queue
  <2>2. \A id \in S : id \in Ids /\ Unmarked(id)
    BY DEF Unmarked
  <2>3. \A id \in S : Made(id).from = id
    OBVIOUS
  <2>4. ASSUME NEW k \in D PROVE \E id \in S : k = Made(id) /\ k.from = id
    BY <2>3
  <2> HIDE DEF S, Made
  <2>5. /\ \A k \in D : k.from \in Ids /\ Unmarked(k.from)
        /\ \A k, m \in D : k.from = m.from => k = m
    BY <2>2, <2>4
  <2> HIDE DEF D
  <2>6. pc'[t] = "graduate_next" /\ call'[t].todo = D
    BY <1>0, <2>1 DEF Goto, CallTypes, Call
  <2>7. /\ \A k \in call'[t].todo : k.from \in Ids /\ Unmarked(k.from)'
        /\ \A k, m \in call'[t].todo : k.from = m.from => k = m
    BY <1>4, <2>5, <2>6
  <2>8. GraduateLocals(pc[t], call[t])'
    BY <2>6, <2>7 DEF GraduateLocals, Carries
  <2> QED BY <1>a, <1>3, <2>6, <2>8 DEF GraduateInv, Locked
<1>7. CASE graduate_next(t) /\ Abort(t)
  BY <1>0, <1>1, <1>2, <1>7, ReturnGraduate
<1>8. CASE graduate_next(t) /\ ~Abort(t)
  <2>1. PICK k0 \in c.todo : /\ call' = [call EXCEPT ![t].cand = k0, ![t].todo = @ \ {k0}]
                             /\ Goto(t, "dedup")
    BY <1>8 DEF graduate_next
  <2>2. /\ pc'[t] = "dedup" /\ call'[t].cand = k0 /\ call'[t].todo = c.todo \ {k0}
    BY <1>0, <2>1 DEF Goto, CallTypes, Call
  <2>3. /\ \A k \in c.todo : k.from \in Ids /\ Unmarked(k.from)
        /\ \A k, m \in c.todo : k.from = m.from => k = m
    BY <1>0 DEF GraduateLocals
  <2>4. /\ \A k \in call'[t].todo : k.from \in Ids /\ Unmarked(k.from)'
        /\ \A k, m \in call'[t].todo : k.from = m.from => k = m
    BY <1>4, <2>2, <2>3
  <2>5. Unmarked(k0.from)
    BY <2>3
  <2>6. Unmarked(call[t].cand.from)' /\ \A k \in call'[t].todo : k.from # call'[t].cand.from
    BY <1>1, <2>2, <2>3, <2>5 DEF Unmarked
  <2>7. GraduateLocals(pc[t], call[t])'
    BY <2>2, <2>4, <2>6 DEF GraduateLocals
  <2> QED BY <1>a, <1>3, <2>2, <2>7 DEF GraduateInv, Locked
<1> QED BY <1>5, <1>6, <1>7, <1>8


\* A caller's own candidate or record comes of none.
LEMMA StartGraduate ==
  ASSUME TypeOK, OneCaller, GraduateInv, NEW t \in Threads, Start(t)
  PROVE  GraduateInv'
<1>a. \A u \in Threads : u = t
  BY DEF OneCaller
<1>0. CallTypes
  BY DEF TypeOK, CallTypes
<1>1. /\ UNCHANGED <<file, queue, snap>>
      /\ pc'[t] \in {"vault_write", "patch_get", "forget_file", "dedup", "queue_lock",
                     "graduate_walk", "rebuild_walk"}
  BY <1>0, StartFlows DEF disk
<1>2. ASSUME NEW op, NEW l, NEW c, Begin(t, op, l, c), c.todo = {},
             l = "dedup" => c.cand.from = NONE,
             l = "queue_lock" => c.op \in {"approve", "reject"},
             l = "vault_write" => c.buf.from = NONE
      PROVE  GraduateInv'
  <2>1. pc'[t] = l /\ call'[t] = c
    BY <1>0, <1>2 DEF Begin, Goto, CallTypes
  <2>2. GraduateLocals(pc[t], call[t])'
    BY <1>1, <1>2, <2>1 DEF GraduateLocals, Carries
  <2>3. GraduatedOnce' /\ pc'[t] \notin Locked
    BY <1>1 DEF GraduateInv, GraduatedOnce, Locked
  <2> QED BY <1>a, <2>2, <2>3 DEF GraduateInv
<1>3. CASE memory_write(t)
  <2>1. PICK id \in Fresh, b \in Bodies, s \in Scopes, k \in Kinds,
             old \in {NONE} \cup {i \in Ids : file[i] # NONE} :
           Begin(t, "write", "vault_write",
                 [Blank EXCEPT !.op = "write", !.new = id, !.old = old,
                               !.buf = new_record([body |-> b, scope |-> s, kind |-> k,
                                                   from |-> NONE, corrects |-> old])])
    BY <1>3 DEF memory_write
  <2> DEFINE r == new_record([body |-> b, scope |-> s, kind |-> k,
                              from |-> NONE, corrects |-> old])
             c == [Blank EXCEPT !.op = "write", !.new = id, !.old = old, !.buf = r]
  <2>2. Begin(t, "write", "vault_write", c) /\ r.from = NONE
    BY <2>1 DEF new_record
  <2> HIDE DEF r
  <2>3. c.buf = r /\ c.todo = {}
    BY DEF Blank
  <2> HIDE DEF c
  <2> QED BY <1>2, <2>2, <2>3
<1>4. CASE memory_feedback(t)
  <2>1. PICK id \in {i \in Ids : file[i] # NONE}, gain \in 0..2 :
           Begin(t, "feedback", "patch_get",
                 [Blank EXCEPT !.op = "feedback", !.old = id, !.gain = gain])
    BY <1>4 DEF memory_feedback
  <2> DEFINE c == [Blank EXCEPT !.op = "feedback", !.old = id, !.gain = gain]
  <2>2. c.todo = {} /\ Begin(t, "feedback", "patch_get", c)
    BY <2>1 DEF Blank
  <2> HIDE DEF c
  <2> QED BY <1>2, <2>2
<1>5. CASE memory_forget(t)
  <2>1. PICK id \in {i \in Ids : file[i] # NONE} :
           Begin(t, "forget", "forget_file", [Blank EXCEPT !.op = "forget", !.old = id])
    BY <1>5 DEF memory_forget
  <2> DEFINE c == [Blank EXCEPT !.op = "forget", !.old = id]
  <2>2. c.todo = {} /\ Begin(t, "forget", "forget_file", c)
    BY <2>1 DEF Blank
  <2> HIDE DEF c
  <2> QED BY <1>2, <2>2
<1>6. CASE memory_promote(t)
  <2>1. PICK id \in Fresh, b \in Bodies, s \in Scopes, k \in Kinds,
             old \in {NONE} \cup used :
           Begin(t, "promote", "dedup",
                 [Blank EXCEPT !.op = "promote", !.new = id,
                               !.cand = [body |-> b, scope |-> s, kind |-> k,
                                         from |-> NONE, corrects |-> old]])
    BY <1>6 DEF memory_promote
  <2> DEFINE d == [body |-> b, scope |-> s, kind |-> k, from |-> NONE, corrects |-> old]
             c == [Blank EXCEPT !.op = "promote", !.new = id, !.cand = d]
  <2>2. Begin(t, "promote", "dedup", c) /\ d.from = NONE
    BY <2>1
  <2> HIDE DEF d
  <2>3. c.cand = d /\ c.todo = {}
    BY DEF Blank
  <2> HIDE DEF c
  <2> QED BY <1>2, <2>2, <2>3
<1>7. CASE review(t)
  <2>1. PICK q \in 1..issued :
          \/ \E id \in Fresh :
                Begin(t, "approve", "queue_lock",
                      [Blank EXCEPT !.op = "approve", !.new = id, !.qid = q])
          \/ Begin(t, "reject", "queue_lock", [Blank EXCEPT !.op = "reject", !.qid = q])
    BY <1>7 DEF review
  <2>2. ASSUME NEW id \in Fresh,
               Begin(t, "approve", "queue_lock",
                     [Blank EXCEPT !.op = "approve", !.new = id, !.qid = q])
        PROVE  GraduateInv'
    <3> DEFINE c == [Blank EXCEPT !.op = "approve", !.new = id, !.qid = q]
    <3>1. c.todo = {} /\ c.op = "approve" /\ Begin(t, "approve", "queue_lock", c)
      BY <2>2 DEF Blank
    <3> HIDE DEF c
    <3> QED BY <1>2, <3>1
  <2>3. CASE Begin(t, "reject", "queue_lock", [Blank EXCEPT !.op = "reject", !.qid = q])
    <3> DEFINE c == [Blank EXCEPT !.op = "reject", !.qid = q]
    <3>1. c.todo = {} /\ c.op = "reject" /\ Begin(t, "reject", "queue_lock", c)
      BY <2>3 DEF Blank
    <3> HIDE DEF c
    <3> QED BY <1>2, <3>1
  <2> QED BY <2>1, <2>2, <2>3
<1>8. CASE graduate(t)
  <2> DEFINE c == [Blank EXCEPT !.op = "graduate"]
  <2>1. c.todo = {} /\ Begin(t, "graduate", "graduate_walk", c)
    BY <1>8 DEF Blank, graduate
  <2> HIDE DEF c
  <2> QED BY <1>2, <2>1
<1>9. CASE rebuild(t)
  <2> DEFINE c == [Blank EXCEPT !.op = "rebuild"]
  <2>1. c.todo = {} /\ Begin(t, "rebuild", "rebuild_walk", c)
    BY <1>9 DEF Blank, rebuild
  <2> HIDE DEF c
  <2> QED BY <1>2, <2>1
<1> QED BY <1>3, <1>4, <1>5, <1>6, <1>7, <1>8, <1>9 DEF Start

\* With calls made one at a time, a procedural record graduates once: at any time at
\* most one candidate or skill is made of it, because a scan submits none whose
\* marker is in the queue or in the vault, and an approval moves the marker from the
\* one to the other.
THEOREM GraduatesOnce == OneCaller => (Spec => []GraduatedOnce)
<1> SUFFICES ASSUME OneCaller PROVE Spec => []GraduatedOnce
  OBVIOUS
<1>1. Init => GraduateInv
  <2> SUFFICES ASSUME Init PROVE GraduateInv
    OBVIOUS
  <2>1. /\ \A id \in Ids : file[id] = NONE
        /\ queue = {} /\ \A t \in Threads : pc[t] = "idle" /\ call[t].todo = {}
    BY DEF Init, Blank
  <2> QED BY <2>1 DEF GraduateInv, GraduatedOnce, GraduateLocals, Carries, Locked
<1>2. TypeOK /\ LocalsOK /\ VaultInv /\ [Next]_vars => VaultInv'
  BY VaultStep
<1>3. TypeOK /\ LocalsOK /\ VaultInv /\ GraduateInv /\ [Next]_vars => GraduateInv'
  <2> SUFFICES ASSUME TypeOK, LocalsOK, VaultInv, GraduateInv, [Next]_vars
               PROVE  GraduateInv'
    OBVIOUS
  <2>1. ASSUME NEW t \in Threads, Start(t) PROVE GraduateInv'
    BY <2>1, StartGraduate
  <2>2. ASSUME NEW t \in Threads, Step(t) PROVE GraduateInv'
    BY <2>2, CalmGraduate, PushGraduate, TakeGraduate, CommitGraduate, WriteGraduate,
       ScanGraduate DEF Step
  <2>3. CASE Watch \/ Tick \/ UNCHANGED vars
    <3>1. UNCHANGED <<file, queue, snap, pc, call>>
      BY <2>3 DEF Watch, watch_load, watch_apply, Tick, vars, disk
    <3> QED BY <3>1 DEF GraduateInv, GraduatedOnce, GraduateLocals, Unmarked
  <2>4. CASE Crash
    <3>1. /\ UNCHANGED <<file, queue>>
          /\ \A t \in Threads : pc'[t] = "idle" /\ call'[t].todo = {}
      BY <2>4 DEF Crash, Blank
    <3> QED BY <3>1 DEF GraduateInv, GraduatedOnce, GraduateLocals, Carries, Locked
  <2> QED BY <2>1, <2>2, <2>3, <2>4 DEF Next
<1>4. GraduateInv => GraduatedOnce
  BY DEF GraduateInv
<1> QED BY InitVault, <1>1, <1>2, <1>3, <1>4, TypeCorrect, PTL DEF Spec
===============================================================================
