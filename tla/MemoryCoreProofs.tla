---------------------------- MODULE MemoryCoreProofs ----------------------------
(***************************************************************************)
(* Proofs about MemoryCore for any number of concurrent calls, any ids,    *)
(* bodies and policies, and any bounds.                                    *)
(***************************************************************************)
EXTENDS MemoryCore, TLAPS

-----------------------------------------------------------------------------
(* Types.                                                                  *)

\* What the locals of a call are at each point of its code.
Locals(l, c) ==
    /\ l \in {"forget_file", "forget_index", "patch_get", "patch_tmp", "patch_rename",
              "get_old", "ingest_old", "feedback_path", "feedback_ingest", "probe_get"}
         => c.old \in Ids
    /\ l = "patch_get" /\ c.op = "feedback" => c.gain \in 0..2
    /\ l \in {"patch_tmp", "patch_rename", "ingest_old", "feedback_path", "feedback_ingest"}
         => c.patch \in Record
    /\ l \in {"vault_write", "ingest_new", "get_old", "ingest_old", "materialize_skill"}
         => c.new \in Ids /\ c.buf \in Record
    /\ l \in {"patch_get", "patch_tmp", "patch_rename"} /\ c.op # "feedback"
         => c.new \in Ids /\ c.buf \in Record
    /\ l = "vault_write" => c.op \in {"write", "promote", "approve"}
    /\ l \in {"dedup", "probe", "probe_get", "policy", "commit"} =>
            /\ c.op \in {"promote", "approve", "graduate"}
            /\ c.cand \in Candidate
            /\ IF c.op = "graduate" THEN c.cand.kind = "skill" ELSE c.new \in Ids
    /\ l = "commit" => c.op # "graduate"
    /\ l \in {"probe", "probe_get", "policy"} => c.op # "approve"
    /\ l = "queue_push" => c.cand \in Candidate
    /\ l = "queue_lock" /\ c.op \notin {"approve", "reject"} => c.cand \in Candidate
    /\ l \in {"queue_lock", "queue_take"} /\ c.op = "approve" => c.new \in Ids
    /\ l = "queue_take" => c.op \in {"approve", "reject"}
    /\ c.op \in {"approve", "reject"} => c.qid \in Nat
    /\ l \in {"graduate_queue", "rebuild_commit"} => c.walk \in Rows
    /\ l \in {"graduate_walk", "graduate_queue", "graduate_next"} => c.op = "graduate"
    /\ c.todo # {} => c.op = "graduate"
    /\ \A k \in c.todo : k.kind = "skill"

LocalsOK == \A t \in Threads : Locals(pc[t], call[t])

\* A step of one call puts that call at a new point with new locals.
Moves(t, l, c) ==
    /\ pc' = [pc EXCEPT ![t] = l] /\ call' = [call EXCEPT ![t] = c]
    /\ l \in PCs /\ c \in Call /\ Locals(l, c)

CallTypes == pc \in [Threads -> PCs] /\ call \in [Threads -> Call]

LEMMA MovesKeep ==
  ASSUME CallTypes, LocalsOK, NEW t \in Threads, NEW l, NEW c, Moves(t, l, c)
  PROVE  CallTypes' /\ LocalsOK'
<1>1. CallTypes'
  BY DEF Moves, CallTypes
<1>2. ASSUME NEW u \in Threads PROVE Locals(pc'[u], call'[u])
  <2>1. CASE u = t
    BY <2>1 DEF Moves, CallTypes
  <2>2. CASE u # t
    BY <2>2 DEF Moves, CallTypes, LocalsOK
  <2> QED BY <2>1, <2>2
<1> QED BY <1>1, <1>2 DEF LocalsOK

LEMMA BlankType ==
  /\ Blank \in Call
  /\ \A l \in {"idle", "rebuild_walk"} : Locals(l, Blank)
BY DEF Blank, Call, Locals, AllOps

LEMMA AbortMoves ==
  ASSUME CallTypes, NEW t \in Threads, Abort(t)
  PROVE  Moves(t, "idle", Blank)
BY BlankType DEF Abort, Goto, Moves, PCs

LEMMA ReturnMoves ==
  ASSUME CallTypes, LocalsOK, NEW t \in Threads, Return(t)
  PROVE  \E l, c : Moves(t, l, c)
<1>1. CASE call[t].todo = {}
  BY <1>1, AbortMoves DEF Return
<1>2. CASE call[t].todo # {}
  <2> DEFINE c == [Blank EXCEPT !.op = call[t].op, !.todo = call[t].todo]
  <2>1. call[t] \in Call /\ Locals(pc[t], call[t])
    BY DEF CallTypes, LocalsOK
  <2>2. c \in Call
    BY <2>1 DEF Blank, Call
  <2>3. call[t].op = "graduate" /\ \A k \in call[t].todo : k.kind = "skill"
    BY <2>1, <1>2 DEF Locals
  <2>4. Locals("graduate_next", c)
    BY <2>3 DEF Locals, Blank
  <2>5. pc' = [pc EXCEPT ![t] = "graduate_next"] /\ call' = [call EXCEPT ![t] = c]
    BY <1>2 DEF Return, Goto
  <2> QED BY <2>2, <2>4, <2>5 DEF Moves, PCs
<1> QED BY <1>1, <1>2

LEMMA BeginMoves ==
  ASSUME NEW t \in Threads, NEW op, NEW l \in PCs, NEW c \in Call,
         Begin(t, op, l, c), Locals(l, c)
  PROVE  Moves(t, l, c)
BY DEF Begin, Moves, Goto

LEMMA StartMoves ==
  ASSUME TypeOK, NEW t \in Threads, Start(t)
  PROVE  \E l, c : Moves(t, l, c)
<1> USE ConstantsAssumption
<1>1. CASE memory_write(t)
  <2>1. PICK id \in Fresh, b \in Bodies, s \in Scopes, k \in Kinds,
             old \in {NONE} \cup {i \in Ids : file[i] # NONE} :
          Begin(t, "write", "vault_write",
                [Blank EXCEPT !.op = "write", !.new = id, !.old = old,
                    !.buf = new_record([body |-> b, scope |-> s, kind |-> k,
                                        from |-> NONE, corrects |-> old])])
    BY <1>1 DEF memory_write
  <2> DEFINE r == new_record([body |-> b, scope |-> s, kind |-> k,
                              from |-> NONE, corrects |-> old])
             c == [Blank EXCEPT !.op = "write", !.new = id, !.old = old, !.buf = r]
  <2>2. id \in Ids
    BY DEF Fresh
  <2>3. r \in Record
    BY DEF new_record, Record, AllBodies
  <2>4. c \in Call
    BY <2>2, <2>3 DEF Blank, Call, AllOps
  <2>5. Locals("vault_write", c)
    BY <2>2, <2>3 DEF Blank, Locals
  <2> QED BY <2>1, <2>4, <2>5, BeginMoves DEF PCs
<1>2. CASE memory_feedback(t)
  <2>1. PICK id \in {i \in Ids : file[i] # NONE}, gain \in 0..2 :
          Begin(t, "feedback", "patch_get",
                [Blank EXCEPT !.op = "feedback", !.old = id, !.gain = gain])
    BY <1>2 DEF memory_feedback
  <2> DEFINE c == [Blank EXCEPT !.op = "feedback", !.old = id, !.gain = gain]
  <2>2. c \in Call /\ Locals("patch_get", c)
    BY DEF Blank, Call, AllOps, Locals
  <2> QED BY <2>1, <2>2, BeginMoves DEF PCs
<1>3. CASE memory_forget(t)
  <2>1. PICK id \in {i \in Ids : file[i] # NONE} :
          Begin(t, "forget", "forget_file", [Blank EXCEPT !.op = "forget", !.old = id])
    BY <1>3 DEF memory_forget
  <2> DEFINE c == [Blank EXCEPT !.op = "forget", !.old = id]
  <2>2. c \in Call /\ Locals("forget_file", c)
    BY DEF Blank, Call, AllOps, Locals
  <2> QED BY <2>1, <2>2, BeginMoves DEF PCs
<1>4. CASE memory_promote(t)
  <2>1. PICK id \in Fresh, b \in Bodies, s \in Scopes, k \in Kinds,
             old \in {NONE} \cup used :
          Begin(t, "promote", "dedup",
                [Blank EXCEPT !.op = "promote", !.new = id,
                    !.cand = [body |-> b, scope |-> s, kind |-> k,
                              from |-> NONE, corrects |-> old]])
    BY <1>4 DEF memory_promote
  <2> DEFINE d == [body |-> b, scope |-> s, kind |-> k, from |-> NONE, corrects |-> old]
             c == [Blank EXCEPT !.op = "promote", !.new = id, !.cand = d]
  <2>2. id \in Ids
    BY DEF Fresh
  <2>3. d \in Candidate
    BY DEF Candidate, AllBodies, TypeOK
  <2>4. c \in Call
    BY <2>2, <2>3 DEF Blank, Call, AllOps
  <2>5. Locals("dedup", c)
    BY <2>2, <2>3 DEF Blank, Locals
  <2> QED BY <2>1, <2>4, <2>5, BeginMoves DEF PCs
<1>5. CASE review(t)
  <2>1. PICK q \in 1..issued :
          \/ \E id \in Fresh :
                Begin(t, "approve", "queue_lock",
                      [Blank EXCEPT !.op = "approve", !.new = id, !.qid = q])
          \/ Begin(t, "reject", "queue_lock", [Blank EXCEPT !.op = "reject", !.qid = q])
    BY <1>5 DEF review
  <2>2. q \in Nat
    BY DEF TypeOK
  <2>3. ASSUME NEW id \in Fresh,
               Begin(t, "approve", "queue_lock",
                     [Blank EXCEPT !.op = "approve", !.new = id, !.qid = q])
        PROVE  \E l, c : Moves(t, l, c)
    <3> DEFINE c == [Blank EXCEPT !.op = "approve", !.new = id, !.qid = q]
    <3>1. id \in Ids
      BY DEF Fresh
    <3>2. c \in Call /\ Locals("queue_lock", c)
      BY <2>2, <3>1 DEF Blank, Call, AllOps, Locals
    <3> QED BY <2>3, <3>2, BeginMoves DEF PCs
  <2>4. ASSUME Begin(t, "reject", "queue_lock", [Blank EXCEPT !.op = "reject", !.qid = q])
        PROVE  \E l, c : Moves(t, l, c)
    <3> DEFINE c == [Blank EXCEPT !.op = "reject", !.qid = q]
    <3>1. c \in Call /\ Locals("queue_lock", c)
      BY <2>2 DEF Blank, Call, AllOps, Locals
    <3> QED BY <2>4, <3>1, BeginMoves DEF PCs
  <2> QED BY <2>1, <2>3, <2>4
<1>6. CASE graduate(t)
  <2> DEFINE c == [Blank EXCEPT !.op = "graduate"]
  <2>1. c \in Call /\ Locals("graduate_walk", c)
    BY DEF Blank, Call, AllOps, Locals
  <2>2. Begin(t, "graduate", "graduate_walk", c)
    BY <1>6 DEF graduate
  <2> QED BY <2>1, <2>2, BeginMoves DEF PCs
<1>7. CASE rebuild(t)
  <2> DEFINE c == [Blank EXCEPT !.op = "rebuild"]
  <2>1. c \in Call /\ Locals("rebuild_walk", c)
    BY DEF Blank, Call, AllOps, Locals
  <2>2. Begin(t, "rebuild", "rebuild_walk", c)
    BY <1>7 DEF rebuild
  <2> QED BY <2>1, <2>2, BeginMoves DEF PCs
<1> QED BY <1>1, <1>2, <1>3, <1>4, <1>5, <1>6, <1>7 DEF Start

LEMMA GotoMoves ==
  ASSUME CallTypes, NEW t \in Threads, NEW l \in PCs, Goto(t, l), call' = call,
         Locals(l, call[t])
  PROVE  Moves(t, l, call[t])
<1>1. call = [call EXCEPT ![t] = call[t]]
  BY DEF CallTypes
<1> QED BY <1>1 DEF Goto, Moves, CallTypes

LEMMA SetMoves ==
  ASSUME CallTypes, NEW t \in Threads, NEW l \in PCs, NEW c \in Call, Goto(t, l),
         call' = [call EXCEPT ![t] = c], Locals(l, c)
  PROVE  Moves(t, l, c)
BY DEF Goto, Moves

LEMMA PatchedType ==
  ASSUME NEW c, NEW r \in Record, clock \in Nat, c.op = "feedback" => c.gain \in 0..2
  PROVE  Patched(c, r) \in Record
<1>1. CASE c.op = "feedback"
  <2>1. r.uses + 1 \in Nat /\ r.successes + c.gain \in Nat
    BY <1>1 DEF Record
  <2> DEFINE u == r.uses + 1
             s == r.successes + c.gain
  <2>2. Patched(c, r) = [r EXCEPT !.uses = u, !.successes = s]
    BY <1>1 DEF Patched
  <2>3. u \in Nat /\ s \in Nat
    BY <2>1
  <2> HIDE DEF u, s
  <2> QED BY <2>2, <2>3 DEF Record
<1>2. CASE c.op # "feedback"
  BY <1>2 DEF Patched, Record
<1> QED BY <1>1, <1>2

\* The steps that read or write the vault and the index.
LEMMA VaultMoves ==
  ASSUME TypeOK, LocalsOK, NEW t \in Threads,
         \/ vault_write(t) \/ patch_get(t) \/ patch_tmp(t) \/ patch_rename(t)
         \/ forget_file(t) \/ forget_index(t)
         \/ ingest_new(t) \/ get_old(t) \/ ingest_old(t)
         \/ feedback_path(t) \/ feedback_ingest(t)
         \/ rebuild_walk(t) \/ rebuild_commit(t)
  PROVE  \E l, c : Moves(t, l, c)
<1> USE ConstantsAssumption
<1> DEFINE d == call[t]
<1>a. CallTypes
  BY DEF TypeOK, CallTypes
<1>b. d \in Call /\ Locals(pc[t], d)
  BY DEF TypeOK, LocalsOK
<1>1. CASE vault_write(t)
  <2>1. pc[t] = "vault_write"
    BY <1>1 DEF vault_write, At
  <2>2. /\ call' = call
        /\ d.old = NONE => Goto(t, "ingest_new")
        /\ d.old # NONE => Goto(t, "patch_get")
    BY <1>1 DEF vault_write, Goto
  <2>3. d.old = NONE => Locals("ingest_new", d)
    BY <1>b, <2>1 DEF Locals
  <2>4. d.old # NONE => Locals("patch_get", d)
    <3>1. d.op # "feedback" /\ d.new \in Ids /\ d.buf \in Record
      BY <1>b, <2>1 DEF Locals
    <3>2. d.old # NONE => d.old \in Ids
      BY <1>b DEF Call
    <3>3. /\ d.todo # {} => d.op = "graduate"
          /\ \A k \in d.todo : k.kind = "skill"
          /\ d.op \in {"approve", "reject"} => d.qid \in Nat
      BY <1>b DEF Locals
    <3> QED BY <3>1, <3>2, <3>3 DEF Locals
  <2>5. CASE d.old = NONE
    <3>1. Moves(t, "ingest_new", d)
      BY <1>a, <2>2, <2>3, <2>5, GotoMoves DEF PCs
    <3> QED BY <3>1
  <2>6. CASE d.old # NONE
    <3>1. Moves(t, "patch_get", d)
      BY <1>a, <2>2, <2>4, <2>6, GotoMoves DEF PCs
    <3> QED BY <3>1
  <2> QED BY <2>5, <2>6
<1>2. CASE patch_get(t)
  <2>1. pc[t] = "patch_get"
    BY <1>2 DEF patch_get, At
  <2>2. CASE Abort(t)
    BY <1>a, <2>2, AbortMoves
  <2>3. CASE /\ file[d.old] # NONE /\ Goto(t, "patch_tmp")
             /\ call' = [call EXCEPT ![t].patch = Patched(d, file[d.old])]
    <3> DEFINE r == Patched(d, file[d.old])
               c == [d EXCEPT !.patch = r]
    <3>1. d.old \in Ids /\ (d.op = "feedback" => d.gain \in 0..2)
      BY <1>b, <2>1 DEF Locals
    <3>2. file[d.old] \in Record /\ clock \in Nat
      BY <2>3, <3>1 DEF TypeOK, Rows
    <3>3. r \in Record
      BY <3>1, <3>2, PatchedType
    <3> HIDE DEF r
    <3>4. c \in Call
      BY <1>b, <3>3 DEF Call
    <3>5. Locals("patch_tmp", c)
      BY <1>b, <2>1, <3>3 DEF Locals, Call
    <3>6. call' = [call EXCEPT ![t] = c]
      BY <2>3 DEF r
    <3> HIDE DEF c
    <3>7. Moves(t, "patch_tmp", c)
      BY <1>a, <2>3, <3>4, <3>5, <3>6, SetMoves DEF PCs
    <3> QED BY <3>7
  <2> QED BY <1>2, <2>2, <2>3 DEF patch_get
<1>3. CASE patch_tmp(t)
  <2>1. pc[t] = "patch_tmp" /\ call' = call /\ Goto(t, "patch_rename")
    BY <1>3 DEF patch_tmp, At
  <2>2. Locals("patch_rename", d)
    BY <1>b, <2>1 DEF Locals
  <2> QED BY <1>a, <2>1, <2>2, GotoMoves DEF PCs
<1>4. CASE patch_rename(t)
  <2>1. pc[t] = "patch_rename"
    BY <1>4 DEF patch_rename, At
  <2>2. CASE Abort(t)
    BY <1>a, <2>2, AbortMoves
  <2>3. CASE /\ call' = call
             /\ d.op = "feedback" => Goto(t, "feedback_path")
             /\ d.op = "write" => Goto(t, "get_old")
             /\ d.op \notin {"feedback", "write"} => Goto(t, "ingest_new")
    <3>1. /\ d.op = "feedback" => Locals("feedback_path", d)
          /\ d.op = "write" => Locals("get_old", d)
          /\ d.op \notin {"feedback", "write"} => Locals("ingest_new", d)
      BY <1>b, <2>1 DEF Locals
    <3>2. CASE d.op = "feedback"
      <4>1. Moves(t, "feedback_path", d)
        BY <1>a, <2>3, <3>1, <3>2, GotoMoves DEF PCs
      <4> QED BY <4>1
    <3>3. CASE d.op = "write"
      <4>1. Moves(t, "get_old", d)
        BY <1>a, <2>3, <3>1, <3>3, GotoMoves DEF PCs
      <4> QED BY <4>1
    <3>4. CASE d.op \notin {"feedback", "write"}
      <4>1. Moves(t, "ingest_new", d)
        BY <1>a, <2>3, <3>1, <3>4, GotoMoves DEF PCs
      <4> QED BY <4>1
    <3> QED BY <3>2, <3>3, <3>4
  <2> QED BY <1>4, <2>2, <2>3 DEF patch_rename, Goto
<1>5. CASE forget_file(t)
  <2>1. pc[t] = "forget_file"
    BY <1>5 DEF forget_file, At
  <2>2. Locals("forget_index", d)
    BY <1>b, <2>1 DEF Locals
  <2>3. Abort(t) \/ (call' = call /\ Goto(t, "forget_index"))
    BY <1>5 DEF forget_file
  <2> QED BY <1>a, <2>2, <2>3, AbortMoves, GotoMoves DEF PCs
<1>6. CASE forget_index(t) \/ feedback_ingest(t) \/ rebuild_commit(t)
  BY <1>a, <1>6, ReturnMoves DEF forget_index, feedback_ingest, rebuild_commit
<1>7. ASSUME Committed(t), pc[t] \in {"ingest_new", "ingest_old"}
      PROVE  \E l, c : Moves(t, l, c)
  <2>1. Locals("materialize_skill", d)
    BY <1>b, <1>7 DEF Locals
  <2>2. (Goto(t, "materialize_skill") /\ call' = call) \/ Return(t)
    BY <1>7 DEF Committed
  <2> QED BY <1>a, <2>1, <2>2, GotoMoves, ReturnMoves DEF PCs
<1>8. CASE ingest_new(t)
  <2>1. pc[t] = "ingest_new"
    BY <1>8 DEF ingest_new, At
  <2>2. d.old # NONE => Locals("get_old", d)
    BY <1>b, <2>1 DEF Locals, Call
  <2>3. (d.old # NONE /\ Goto(t, "get_old") /\ call' = call) \/ Committed(t)
    BY <1>8 DEF ingest_new
  <2> QED BY <1>a, <1>7, <2>1, <2>2, <2>3, GotoMoves DEF PCs
<1>9. CASE get_old(t)
  <2>1. pc[t] = "get_old"
    BY <1>9 DEF get_old, At
  <2>2. CASE Abort(t)
    BY <1>a, <2>2, AbortMoves
  <2>3. CASE /\ file[d.old] # NONE /\ Goto(t, "ingest_old")
             /\ call' = [call EXCEPT ![t].patch = file[d.old]]
    <3> DEFINE c == [d EXCEPT !.patch = file[d.old]]
    <3>1. file[d.old] \in Record
      BY <1>b, <2>1, <2>3 DEF Locals, TypeOK, Rows
    <3>2. c \in Call
      BY <1>b, <3>1 DEF Call
    <3>3. Locals("ingest_old", c)
      BY <1>b, <2>1, <3>1 DEF Locals, Call
    <3>4. call' = [call EXCEPT ![t] = c]
      BY <2>3
    <3> HIDE DEF c
    <3>5. Moves(t, "ingest_old", c)
      BY <1>a, <2>3, <3>2, <3>3, <3>4, SetMoves DEF PCs
    <3> QED BY <3>5
  <2> QED BY <1>9, <2>2, <2>3 DEF get_old
<1>10. CASE ingest_old(t)
  <2>1. pc[t] = "ingest_old"
    BY <1>10 DEF ingest_old, At
  <2>2. Locals("ingest_new", d)
    BY <1>b, <2>1 DEF Locals
  <2>3. (Goto(t, "ingest_new") /\ call' = call) \/ Committed(t)
    BY <1>10 DEF ingest_old
  <2> QED BY <1>a, <1>7, <2>1, <2>2, <2>3, GotoMoves DEF PCs
<1>11. CASE feedback_path(t)
  <2>1. pc[t] = "feedback_path"
    BY <1>11 DEF feedback_path, At
  <2>2. Locals("feedback_ingest", d)
    BY <1>b, <2>1 DEF Locals
  <2>3. Abort(t) \/ (Goto(t, "feedback_ingest") /\ call' = call)
    BY <1>11 DEF feedback_path
  <2> QED BY <1>a, <2>2, <2>3, AbortMoves, GotoMoves DEF PCs
<1>12. CASE rebuild_walk(t)
  <2> DEFINE c == [d EXCEPT !.walk = file]
  <2>1. /\ pc[t] = "rebuild_walk" /\ Goto(t, "rebuild_commit")
        /\ call' = [call EXCEPT ![t] = c]
    BY <1>12 DEF rebuild_walk, At
  <2>2. file \in Rows
    BY DEF TypeOK
  <2>3. c \in Call
    BY <1>b, <2>2 DEF Call
  <2>4. Locals("rebuild_commit", c)
    BY <1>b, <2>1, <2>2 DEF Locals, Call
  <2> HIDE DEF c
  <2>5. Moves(t, "rebuild_commit", c)
    BY <1>a, <2>1, <2>3, <2>4, SetMoves DEF PCs
  <2> QED BY <2>5
<1> QED BY <1>1, <1>2, <1>3, <1>4, <1>5, <1>6, <1>8, <1>9, <1>10, <1>11, <1>12

\* The steps of the gate.
LEMMA GateMoves ==
  ASSUME TypeOK, LocalsOK, NEW t \in Threads,
         \/ dedup(t) \/ probe(t) \/ probe_get(t) \/ policy(t)
         \/ queue_lock(t) \/ queue_push(t) \/ queue_take(t)
         \/ commit(t) \/ materialize_skill(t)
         \/ graduate_walk(t) \/ graduate_queue(t) \/ graduate_next(t)
  PROVE  \E l, c : Moves(t, l, c)
<1> USE ConstantsAssumption
<1> DEFINE d == call[t]
<1>a. CallTypes
  BY DEF TypeOK, CallTypes
<1>b. d \in Call /\ Locals(pc[t], d)
  BY DEF TypeOK, LocalsOK
<1>c. /\ d.todo # {} => d.op = "graduate"
      /\ \A k \in d.todo : k.kind = "skill"
  BY <1>b DEF Locals
<1>1. CASE dedup(t)
  <2>1. pc[t] = "dedup"
    BY <1>1 DEF dedup, At
  <2>2. \/ Return(t)
        \/ call' = call /\ \/ d.op = "approve" /\ Goto(t, "commit")
                           \/ d.op # "approve" /\ Goto(t, "probe")
                           \/ d.op # "approve" /\ Goto(t, "policy")
    BY <1>1 DEF dedup, Goto
  <2>3. /\ d.op = "approve" => Locals("commit", d)
        /\ d.op # "approve" => Locals("probe", d) /\ Locals("policy", d)
    BY <1>b, <2>1 DEF Locals
  <2>4. CASE Return(t)
    BY <1>a, <2>4, ReturnMoves
  <2>5. CASE call' = call /\ d.op = "approve" /\ Goto(t, "commit")
    <3>1. Moves(t, "commit", d)
      BY <1>a, <2>3, <2>5, GotoMoves DEF PCs
    <3> QED BY <3>1
  <2>6. CASE call' = call /\ d.op # "approve" /\ Goto(t, "probe")
    <3>1. Moves(t, "probe", d)
      BY <1>a, <2>3, <2>6, GotoMoves DEF PCs
    <3> QED BY <3>1
  <2>7. CASE call' = call /\ d.op # "approve" /\ Goto(t, "policy")
    <3>1. Moves(t, "policy", d)
      BY <1>a, <2>3, <2>7, GotoMoves DEF PCs
    <3> QED BY <3>1
  <2> QED BY <2>2, <2>4, <2>5, <2>6, <2>7
<1>2. CASE probe(t)
  <2>1. pc[t] = "probe"
    BY <1>2 DEF probe, At
  <2>2. PICK top \in Ids \cup {NONE} :
            /\ Goto(t, IF top = NONE THEN "policy" ELSE "probe_get")
            /\ call' = [call EXCEPT ![t].old = top]
    BY <1>2 DEF probe
  <2> DEFINE c == [d EXCEPT !.old = top]
  <2>3. c \in Call
    BY <1>b DEF Call
  <2>4. /\ top = NONE => Locals("policy", c)
        /\ top # NONE => Locals("probe_get", c)
    BY <1>b, <2>1 DEF Locals, Call
  <2>5. call' = [call EXCEPT ![t] = c]
    BY <2>2
  <2> HIDE DEF c
  <2>6. CASE top = NONE
    <3>1. Goto(t, "policy")
      BY <2>2, <2>6
    <3>2. Moves(t, "policy", c)
      BY <1>a, <2>3, <2>4, <2>5, <2>6, <3>1, SetMoves DEF PCs
    <3> QED BY <3>2
  <2>7. CASE top # NONE
    <3>1. Goto(t, "probe_get")
      BY <2>2, <2>7
    <3>2. Moves(t, "probe_get", c)
      BY <1>a, <2>3, <2>4, <2>5, <2>7, <3>1, SetMoves DEF PCs
    <3> QED BY <3>2
  <2> QED BY <2>6, <2>7
<1>3. CASE probe_get(t)
  <2>1. pc[t] = "probe_get" /\ Goto(t, "policy")
    BY <1>3 DEF probe_get, At
  <2>2. PICK x \in {d.old, NONE} :
            call' = [call EXCEPT ![t].old = NONE, ![t].cand.corrects = x]
    BY <1>3 DEF probe_get
  <2> DEFINE k == [d.cand EXCEPT !.corrects = x]
             c == [d EXCEPT !.old = NONE, !.cand = k]
  <2>3. d.old \in Ids /\ d.cand \in Candidate
    BY <1>b, <2>1 DEF Locals
  <2>4. k \in Candidate /\ k.kind = d.cand.kind
    BY <2>3 DEF Candidate
  <2>5. call' = [call EXCEPT ![t] = c]
    BY <1>a, <1>b, <2>2 DEF CallTypes, Call
  <2> HIDE DEF k
  <2>6. c \in Call
    BY <1>b, <2>4 DEF Call
  <2>7. Locals("policy", c)
    BY <1>b, <2>1, <2>4 DEF Locals, Call
  <2> HIDE DEF c
  <2>8. Moves(t, "policy", c)
    BY <1>a, <2>1, <2>5, <2>6, <2>7, SetMoves DEF PCs
  <2> QED BY <2>8
<1>4. CASE policy(t)
  <2>1. pc[t] = "policy" /\ call' = call
    BY <1>4 DEF policy, At
  <2>2. /\ Locals("queue_lock", d)
        /\ policy_for(d.cand) # "review" => Locals("commit", d)
    BY <1>b, <2>1 DEF Locals, policy_for
  <2>3. CASE policy_for(d.cand) = "review"
    <3>1. Goto(t, "queue_lock")
      BY <1>4, <2>3 DEF policy
    <3>2. Moves(t, "queue_lock", d)
      BY <1>a, <2>1, <2>2, <3>1, GotoMoves DEF PCs
    <3> QED BY <3>2
  <2>4. CASE policy_for(d.cand) # "review"
    <3>1. Goto(t, "commit")
      BY <1>4, <2>4 DEF policy
    <3>2. Moves(t, "commit", d)
      BY <1>a, <2>1, <2>2, <2>4, <3>1, GotoMoves DEF PCs
    <3> QED BY <3>2
  <2> QED BY <2>3, <2>4
<1>5. CASE queue_lock(t)
  <2>1. pc[t] = "queue_lock" /\ call' = call
    BY <1>5 DEF queue_lock, At
  <2>2. CASE d.op \in {"approve", "reject"}
    <3>1. Goto(t, "queue_take")
      BY <1>5, <2>2 DEF queue_lock
    <3>2. Locals("queue_take", d)
      BY <1>b, <2>1, <2>2 DEF Locals
    <3>3. Moves(t, "queue_take", d)
      BY <1>a, <2>1, <3>1, <3>2, GotoMoves DEF PCs
    <3> QED BY <3>3
  <2>3. CASE d.op \notin {"approve", "reject"}
    <3>1. Goto(t, "queue_push")
      BY <1>5, <2>3 DEF queue_lock
    <3>2. Locals("queue_push", d)
      BY <1>b, <2>1, <2>3 DEF Locals
    <3>3. Moves(t, "queue_push", d)
      BY <1>a, <2>1, <3>1, <3>2, GotoMoves DEF PCs
    <3> QED BY <3>3
  <2> QED BY <2>2, <2>3
<1>6. CASE queue_push(t) \/ materialize_skill(t)
  BY <1>a, <1>6, ReturnMoves DEF queue_push, materialize_skill
<1>7. CASE queue_take(t)
  <2>1. pc[t] = "queue_take"
    BY <1>7 DEF queue_take, At
  <2>2. CASE Abort(t) \/ Return(t)
    BY <1>a, <2>2, AbortMoves, ReturnMoves
  <2>3. ASSUME NEW item \in snap[t], d.op # "reject", Goto(t, "dedup"),
               call' = [call EXCEPT ![t].cand = item.cand]
        PROVE  \E l, c : Moves(t, l, c)
    <3> DEFINE c == [d EXCEPT !.cand = item.cand]
    <3>1. item.cand \in Candidate
      BY <2>3 DEF TypeOK, QueueItem
    <3>2. c \in Call
      BY <1>b, <3>1 DEF Call
    <3>3. d.op = "approve" /\ d.new \in Ids
      BY <1>b, <2>1, <2>3 DEF Locals
    <3>4. Locals("dedup", c)
      BY <1>b, <1>c, <2>1, <3>1, <3>3 DEF Locals, Call
    <3>5. call' = [call EXCEPT ![t] = c]
      BY <2>3
    <3> HIDE DEF c
    <3>6. Moves(t, "dedup", c)
      BY <1>a, <2>3, <3>2, <3>4, <3>5, SetMoves DEF PCs
    <3> QED BY <3>6
  <2> QED BY <1>7, <2>2, <2>3 DEF queue_take
<1>8. CASE commit(t)
  <2>1. pc[t] = "commit"
    BY <1>8 DEF commit, At
  <2>2. CASE Abort(t)
    BY <1>a, <2>2, AbortMoves
  <2>3. CASE /\ Goto(t, "vault_write")
             /\ call' = [call EXCEPT ![t].buf = new_record(d.cand),
                                     ![t].old = d.cand.corrects]
    <3> DEFINE r == new_record(d.cand)
               x == d.cand.corrects
               c == [d EXCEPT !.buf = r, !.old = x]
    <3>1. d.cand \in Candidate /\ d.op \in {"promote", "approve"} /\ d.new \in Ids
      BY <1>b, <2>1 DEF Locals
    <3>2. r \in Record /\ x \in Ids \cup {NONE}
      BY <3>1 DEF new_record, Record, Candidate
    <3>3. call' = [call EXCEPT ![t] = c]
      BY <1>a, <1>b, <2>3 DEF CallTypes, Call
    <3> HIDE DEF r, x
    <3>4. c \in Call
      BY <1>b, <3>2 DEF Call
    <3>5. Locals("vault_write", c)
      BY <1>b, <1>c, <3>1, <3>2 DEF Locals, Call
    <3> HIDE DEF c
    <3>6. Moves(t, "vault_write", c)
      BY <1>a, <2>3, <3>3, <3>4, <3>5, SetMoves DEF PCs
    <3> QED BY <3>6
  <2> QED BY <1>8, <2>2, <2>3 DEF commit
<1>9. CASE graduate_walk(t)
  <2> DEFINE c == [d EXCEPT !.walk = file]
  <2>1. /\ pc[t] = "graduate_walk" /\ Goto(t, "graduate_queue")
        /\ call' = [call EXCEPT ![t] = c]
    BY <1>9 DEF graduate_walk, At
  <2>2. c \in Call /\ file \in Rows
    BY SMTT(30), <1>b DEF Call, TypeOK
  <2>3. Locals("graduate_queue", c)
    BY <1>b, <2>1, <2>2 DEF Locals, Call
  <2> HIDE DEF c
  <2>4. Moves(t, "graduate_queue", c)
    BY <1>a, <2>1, <2>2, <2>3, SetMoves DEF PCs
  <2> QED BY <2>4
<1>10. CASE graduate_queue(t)
  <2> DEFINE ready == {i \in Ids : d.walk[i] # NONE /\ Proven(d.walk[i])
                               /\ i \notin {j.cand.from : j \in queue}
                                           \cup {d.walk[id].from : id \in {j \in Ids : d.walk[j] # NONE}}}
             k(id) == [body |-> [src |-> id, uses |-> d.walk[id].uses],
                       scope |-> d.walk[id].scope, kind |-> "skill",
                       from |-> id, corrects |-> NONE]
             todo == {k(id) : id \in ready}
             c == [d EXCEPT !.walk = NONE, !.todo = todo]
  <2>1. pc[t] = "graduate_queue" /\ Goto(t, "graduate_next")
    BY <1>10 DEF graduate_queue, At
  <2>2. d.walk \in Rows /\ d.op = "graduate"
    BY <1>b, <2>1 DEF Locals
  <2>3. ASSUME NEW id \in ready PROVE k(id) \in Candidate /\ k(id).kind = "skill"
    <3>1. d.walk[id] \in Record
      BY <2>2, <2>3 DEF Rows
    <3>2. d.walk[id].uses \in Nat /\ d.walk[id].scope \in Scopes
      BY <3>1 DEF Record
    <3> QED BY <2>3, <3>2 DEF Candidate, AllBodies
  <2>4. call' = [call EXCEPT ![t] = c]
    BY <1>10 DEF graduate_queue
  <2> HIDE DEF ready, k
  <2>5. todo \in SUBSET Candidate /\ \A x \in todo : x.kind = "skill"
    BY <2>3
  <2> HIDE DEF todo
  <2>6. c \in Call
    BY <1>b, <2>5 DEF Call
  <2>7. Locals("graduate_next", c)
    BY <1>b, <2>2, <2>5 DEF Locals, Call
  <2> HIDE DEF c
  <2>8. Moves(t, "graduate_next", c)
    BY <1>a, <2>1, <2>4, <2>6, <2>7, SetMoves DEF PCs
  <2> QED BY <2>8
<1>11. CASE graduate_next(t)
  <2>1. pc[t] = "graduate_next"
    BY <1>11 DEF graduate_next, At
  <2>2. CASE Abort(t)
    BY <1>a, <2>2, AbortMoves
  <2>3. ASSUME NEW k \in d.todo, Goto(t, "dedup"),
               call' = [call EXCEPT ![t].cand = k, ![t].todo = @ \ {k}]
        PROVE  \E l, c : Moves(t, l, c)
    <3> DEFINE rest == d.todo \ {k}
               c == [d EXCEPT !.cand = k, !.todo = rest]
    <3>1. k \in Candidate /\ rest \in SUBSET Candidate /\ k.kind = "skill"
      BY <1>b, <1>c, <2>3 DEF Call
    <3>2. d.op = "graduate" /\ \A x \in rest : x.kind = "skill"
      BY <1>b, <1>c, <2>1 DEF Locals
    <3>3. call' = [call EXCEPT ![t] = c]
      BY <1>a, <1>b, <2>3 DEF CallTypes, Call
    <3> HIDE DEF rest
    <3>4. c \in Call
      BY <1>b, <3>1 DEF Call
    <3>5. Locals("dedup", c)
      BY <1>b, <3>1, <3>2 DEF Locals, Call
    <3> HIDE DEF c
    <3>6. Moves(t, "dedup", c)
      BY <1>a, <2>3, <3>3, <3>4, <3>5, SetMoves DEF PCs
    <3> QED BY <3>6
  <2> QED BY <1>11, <2>2, <2>3 DEF graduate_next
<1> QED BY <1>1, <1>2, <1>3, <1>4, <1>5, <1>6, <1>7, <1>8, <1>9, <1>10, <1>11

\* The rest of the type invariant: everything outside the calls' own locals.
DataTypes ==
    /\ file \in Rows /\ tmp \in Rows /\ index \in Rows
    /\ queue \in SUBSET QueueItem
    /\ qlock \in Threads \cup {NONE}
    /\ skills \in SUBSET Ids /\ dirty \in SUBSET Ids
    /\ wbuf \in (Ids \X (Record \cup {NONE})) \cup {NONE}
    /\ clock \in Nat /\ calls \in Nat /\ crashes \in Nat
    /\ snap \in [Threads -> SUBSET QueueItem]
    /\ used \in SUBSET Ids /\ gone \in SUBSET Ids
    /\ links \in SUBSET (Ids \X Ids)
    /\ acked \in [Ids -> Nat]
    /\ gated \in SUBSET Ids /\ approved \in SUBSET Ids
    /\ issued \in Nat /\ taken \in SUBSET Nat /\ dropped \in SUBSET Nat

LEMMA StartData ==
  ASSUME DataTypes, NEW t \in Threads, Start(t)
  PROVE  DataTypes'
<1>1. /\ calls' = calls + 1
      /\ UNCHANGED <<disk, watcher, qlock, snap, clock, crashes, histories>>
  BY DEF Start, memory_write, memory_feedback, memory_forget, memory_promote,
         review, graduate, rebuild, Begin
<1> QED BY <1>1 DEF DataTypes, disk, watcher, histories

LEMMA VaultData ==
  ASSUME TypeOK, LocalsOK, NEW t \in Threads,
         \/ vault_write(t) \/ patch_get(t) \/ patch_tmp(t) \/ patch_rename(t)
         \/ forget_file(t) \/ forget_index(t)
         \/ ingest_new(t) \/ get_old(t) \/ ingest_old(t)
         \/ feedback_path(t) \/ feedback_ingest(t)
         \/ rebuild_walk(t) \/ rebuild_commit(t)
  PROVE  DataTypes'
<1> USE ConstantsAssumption
<1> DEFINE d == call[t]
<1>a. DataTypes
  BY DEF TypeOK, DataTypes
<1>b. d \in Call /\ Locals(pc[t], d)
  BY DEF TypeOK, LocalsOK
<1>1. CASE vault_write(t)
  <2>1. d.new \in Ids /\ d.buf \in Record /\ (d.old # NONE => d.old \in Ids)
    BY <1>b, <1>1 DEF vault_write, At, Locals, Call
  <2>2. /\ file' = [file EXCEPT ![d.new] = d.buf]
        /\ dirty' = dirty \cup {d.new} /\ used' = used \cup {d.new}
        /\ links' = IF d.old = NONE THEN links ELSE links \cup {<<d.new, d.old>>}
        /\ gated' \subseteq gated \cup {d.new}
        /\ approved' \subseteq approved \cup {d.new}
        /\ UNCHANGED <<tmp, index, queue, skills, wbuf, qlock, snap, bounds,
                       gone, acked, issued, taken, dropped>>
    BY <1>1 DEF vault_write, Changed
  <2>3. file' \in Rows /\ links' \in SUBSET (Ids \X Ids)
    BY <1>a, <2>1, <2>2 DEF DataTypes, Rows
  <2> QED BY <1>a, <2>1, <2>2, <2>3 DEF DataTypes, bounds
<1>2. CASE patch_get(t) \/ get_old(t) \/ feedback_path(t) \/ rebuild_walk(t)
  BY <1>a, <1>2 DEF patch_get, get_old, feedback_path, rebuild_walk, DataTypes,
                    disk, watcher, bounds, histories
<1>3. CASE patch_tmp(t)
  <2>1. d.old \in Ids /\ d.patch \in Record
    BY <1>b, <1>3 DEF patch_tmp, At, Locals
  <2>2. tmp' = [tmp EXCEPT ![d.old] = d.patch]
    BY <1>3 DEF patch_tmp
  <2>3. tmp' \in Rows
    BY <1>a, <2>1, <2>2 DEF DataTypes, Rows
  <2> QED BY <1>a, <1>3, <2>3 DEF patch_tmp, DataTypes, watcher, bounds, histories
<1>4. CASE patch_rename(t)
  <2>1. d.old \in Ids
    BY <1>b, <1>4 DEF patch_rename, At, Locals
  <2>2. \/ UNCHANGED <<file, tmp, dirty>>
        \/ /\ tmp[d.old] # NONE
           /\ file' = [file EXCEPT ![d.old] = tmp[d.old]]
           /\ tmp' = [tmp EXCEPT ![d.old] = NONE]
           /\ dirty' = dirty \cup {d.old}
    BY <1>4 DEF patch_rename, Changed
  <2>3. file' \in Rows /\ tmp' \in Rows /\ dirty' \in SUBSET Ids
    BY <1>a, <2>1, <2>2 DEF DataTypes, Rows
  <2> QED BY <1>a, <1>4, <2>3 DEF patch_rename, DataTypes, bounds, histories
<1>5. CASE forget_file(t)
  <2>1. d.old \in Ids
    BY <1>b, <1>5 DEF forget_file, At, Locals
  <2>2. \/ UNCHANGED <<file, dirty, gone>>
        \/ /\ file' = [file EXCEPT ![d.old] = NONE]
           /\ dirty' = dirty \cup {d.old} /\ gone' = gone \cup {d.old}
    BY <1>5 DEF forget_file, Changed
  <2>3. file' \in Rows /\ dirty' \in SUBSET Ids /\ gone' \in SUBSET Ids
    BY <1>a, <2>1, <2>2 DEF DataTypes, Rows
  <2> QED BY <1>a, <1>5, <2>3 DEF forget_file, DataTypes, bounds
<1>6. ASSUME NEW id \in Ids, NEW r \in Record \cup {NONE}, Ingest(id, r), OnlyIndex,
             UNCHANGED <<used, links, gone, gated, approved, issued, taken, dropped>>,
             acked' \in [Ids -> Nat]
      PROVE  DataTypes'
  <2>1. index' \in Rows
    BY <1>a, <1>6 DEF Ingest, DataTypes, Rows
  <2> QED BY <1>a, <1>6, <2>1 DEF OnlyIndex, DataTypes, watcher, bounds
<1>7. CASE ingest_new(t)
  <2>1. d.new \in Ids /\ d.buf \in Record
    BY <1>b, <1>7 DEF ingest_new, At, Locals
  <2> QED BY <1>a, <1>6, <1>7, <2>1 DEF ingest_new, DataTypes, histories
<1>8. CASE ingest_old(t)
  <2>1. d.old \in Ids /\ d.patch \in Record
    BY <1>b, <1>8 DEF ingest_old, At, Locals
  <2> QED BY <1>a, <1>6, <1>8, <2>1 DEF ingest_old, DataTypes, histories
<1>9. CASE feedback_ingest(t)
  <2>1. d.old \in Ids /\ d.patch \in Record
    BY <1>b, <1>9 DEF feedback_ingest, At, Locals
  <2>2. acked' = [acked EXCEPT ![d.old] = @ + 1]
    BY <1>9 DEF feedback_ingest
  <2>3. acked' \in [Ids -> Nat]
    BY <1>a, <2>1, <2>2 DEF DataTypes
  <2> QED BY <1>a, <1>6, <1>9, <2>1, <2>3 DEF feedback_ingest, DataTypes
<1>10. CASE forget_index(t)
  <2>1. d.old \in Ids
    BY <1>b, <1>10 DEF forget_index, At, Locals
  <2> QED BY <1>a, <1>6, <1>10, <2>1 DEF forget_index, DataTypes, histories
<1>11. CASE rebuild_commit(t)
  <2>1. d.walk \in Rows
    BY <1>b, <1>11 DEF rebuild_commit, At, Locals
  <2> QED BY <1>a, <1>11, <2>1 DEF rebuild_commit, OnlyIndex, DataTypes, watcher,
                                   bounds, histories
<1> QED BY <1>1, <1>2, <1>3, <1>4, <1>5, <1>7, <1>8, <1>9, <1>10, <1>11

LEMMA GateData ==
  ASSUME TypeOK, LocalsOK, NEW t \in Threads,
         \/ dedup(t) \/ probe(t) \/ probe_get(t) \/ policy(t)
         \/ queue_lock(t) \/ queue_push(t) \/ queue_take(t)
         \/ commit(t) \/ materialize_skill(t)
         \/ graduate_walk(t) \/ graduate_queue(t) \/ graduate_next(t)
  PROVE  DataTypes'
<1> USE ConstantsAssumption
<1> DEFINE d == call[t]
<1>a. DataTypes
  BY DEF TypeOK, DataTypes
<1>b. d \in Call /\ Locals(pc[t], d)
  BY DEF TypeOK, LocalsOK
<1>1. CASE \/ dedup(t) \/ probe(t) \/ probe_get(t) \/ policy(t)
           \/ graduate_walk(t) \/ graduate_queue(t) \/ graduate_next(t)
  <2>1. Local
    BY <1>1 DEF dedup, probe, probe_get, policy, graduate_walk, graduate_queue,
                graduate_next
  <2> QED BY <1>a, <2>1 DEF Local, DataTypes, disk, watcher, bounds, histories
<1>2. CASE queue_lock(t)
  <2>1. qlock' = t /\ snap' = [snap EXCEPT ![t] = queue]
    BY <1>2 DEF queue_lock
  <2> QED BY <1>a, <1>2, <2>1 DEF queue_lock, DataTypes, disk, watcher, bounds, histories
<1>3. CASE queue_push(t)
  <2> DEFINE item == [qid |-> issued + 1, cand |-> d.cand]
  <2>1. d.cand \in Candidate
    BY <1>b, <1>3 DEF queue_push, At, Locals
  <2>2. item \in QueueItem /\ issued + 1 \in Nat
    BY <1>a, <2>1 DEF QueueItem, DataTypes
  <2>3. /\ queue' = snap[t] \cup {item} /\ issued' = issued + 1
        /\ qlock' = NONE /\ snap' = [snap EXCEPT ![t] = {}]
    BY <1>3 DEF queue_push, Unlock
  <2> HIDE DEF item
  <2>4. queue' \in SUBSET QueueItem
    BY <1>a, <2>2, <2>3 DEF DataTypes
  <2> QED BY <1>a, <1>3, <2>2, <2>3, <2>4 DEF queue_push, DataTypes, watcher, bounds
<1>4. CASE queue_take(t)
  <2>1. d.qid \in Nat
    BY <1>b, <1>4 DEF queue_take, At, Locals
  <2>2. /\ queue' \in {queue} \cup {snap[t] \ {i} : i \in snap[t]}
        /\ taken' \subseteq taken \cup {d.qid}
        /\ qlock' = NONE /\ snap' = [snap EXCEPT ![t] = {}]
    BY <1>4 DEF queue_take, Unlock
  <2>3. queue' \in SUBSET QueueItem /\ taken' \in SUBSET Nat
    BY <1>a, <2>1, <2>2 DEF DataTypes
  <2> QED BY <1>a, <1>4, <2>2, <2>3 DEF queue_take, DataTypes, watcher, bounds
<1>5. CASE commit(t)
  <2>1. dropped' = dropped \/ (d.op = "approve" /\ dropped' = dropped \cup {d.qid})
    BY <1>5 DEF commit
  <2>2. dropped' \in SUBSET Nat
    BY <1>a, <1>b, <2>1 DEF Locals, DataTypes
  <2> QED BY <1>a, <1>5, <2>2 DEF commit, DataTypes, disk, watcher, bounds
<1>6. CASE materialize_skill(t)
  <2>1. d.new \in Ids
    BY <1>b, <1>6 DEF materialize_skill, At, Locals
  <2> QED BY <1>a, <1>6, <2>1 DEF materialize_skill, DataTypes, watcher, bounds, histories
<1> QED BY <1>1, <1>2, <1>3, <1>4, <1>5, <1>6

LEMMA OtherData ==
  ASSUME TypeOK, Watch \/ Tick \/ Crash
  PROVE  DataTypes'
<1>a. DataTypes
  BY DEF TypeOK, DataTypes
<1>1. CASE watch_load
  <2>1. PICK id \in dirty : dirty' = dirty \ {id} /\ wbuf' = <<id, file[id]>>
    BY <1>1 DEF watch_load
  <2>2. wbuf' \in Ids \X (Record \cup {NONE})
    BY <1>a, <2>1 DEF DataTypes, Rows
  <2> QED BY <1>a, <1>1, <2>1, <2>2 DEF watch_load, DataTypes, disk, bounds, histories
<1>2. CASE watch_apply
  <2>1. wbuf \in Ids \X (Record \cup {NONE}) /\ wbuf' = NONE
        /\ index' = [index EXCEPT ![wbuf[1]] = wbuf[2]]
    BY <1>a, <1>2 DEF watch_apply, Ingest, DataTypes
  <2>2. index' \in Rows
    BY <1>a, <2>1 DEF DataTypes, Rows
  <2> QED BY <1>a, <1>2, <2>1, <2>2 DEF watch_apply, DataTypes, bounds, histories
<1>3. CASE Tick
  BY <1>a, <1>3 DEF Tick, DataTypes, disk, watcher, histories
<1>4. CASE Crash
  <2>1. /\ file' = file /\ index' = file /\ tmp' = [id \in Ids |-> NONE]
        /\ snap' = [u \in Threads |-> {}] /\ qlock' = NONE
        /\ dirty' = {} /\ wbuf' = NONE /\ crashes' = crashes + 1
        /\ UNCHANGED <<queue, skills, clock, calls, histories>>
    BY <1>4 DEF Crash
  <2>2. tmp' \in Rows
    BY <2>1 DEF Rows
  <2> QED BY <1>a, <2>1, <2>2 DEF DataTypes, histories
<1> QED BY <1>1, <1>2, <1>3, <1>4 DEF Watch

\* Type correctness: in every reachable state, whatever calls interleave and
\* wherever the process dies, every file, row, queue item and local is a value
\* the code could have written there, and the locals a call carries are those
\* its point in the code relies on.
THEOREM TypeCorrect == Spec => [](TypeOK /\ LocalsOK)
<1>1. Init => TypeOK /\ LocalsOK
  <2> SUFFICES ASSUME Init PROVE TypeOK /\ LocalsOK
    OBVIOUS
  <2>1. file \in Rows /\ tmp \in Rows /\ index \in Rows
    BY DEF Init, Rows
  <2>2. CallTypes
    BY BlankType DEF Init, CallTypes, PCs
  <2>3. LocalsOK
    BY BlankType DEF Init, LocalsOK
  <2> QED BY <2>1, <2>2, <2>3 DEF Init, TypeOK, CallTypes
<1>2. TypeOK /\ LocalsOK /\ [Next]_vars => (TypeOK /\ LocalsOK)'
  <2> SUFFICES ASSUME TypeOK, LocalsOK, [Next]_vars PROVE TypeOK' /\ LocalsOK'
    OBVIOUS
  <2>a. DataTypes /\ CallTypes
    BY DEF TypeOK, DataTypes, CallTypes
  <2>b. DataTypes' /\ CallTypes' => TypeOK'
    BY DEF TypeOK, DataTypes, CallTypes
  <2>1. ASSUME NEW t \in Threads, Start(t) PROVE TypeOK' /\ LocalsOK'
    BY <2>a, <2>b, <2>1, StartMoves, StartData, MovesKeep
  <2>2. ASSUME NEW t \in Threads, Step(t) PROVE TypeOK' /\ LocalsOK'
    <3>1. \E l, c : Moves(t, l, c)
      BY <2>2, VaultMoves, GateMoves DEF Step
    <3>2. DataTypes'
      BY <2>2, VaultData, GateData DEF Step
    <3> QED BY <2>a, <2>b, <3>1, <3>2, MovesKeep
  <2>3. CASE Watch \/ Tick
    <3>1. pc' = pc /\ call' = call
      BY <2>3 DEF Watch, watch_load, watch_apply, Tick
    <3> QED BY <2>a, <2>b, <2>3, <3>1, OtherData DEF CallTypes, LocalsOK
  <2>4. CASE Crash
    <3>1. pc' = [t \in Threads |-> "idle"] /\ call' = [t \in Threads |-> Blank]
      BY <2>4 DEF Crash
    <3>2. CallTypes' /\ LocalsOK'
      BY <3>1, BlankType DEF CallTypes, LocalsOK, PCs
    <3> QED BY <2>a, <2>b, <2>4, <3>2, OtherData
  <2>5. CASE UNCHANGED vars
    BY <2>a, <2>5 DEF vars, disk, watcher, bounds, histories, TypeOK, LocalsOK
  <2> QED BY <2>1, <2>2, <2>3, <2>4, <2>5 DEF Next
<1> QED BY <1>1, <1>2, PTL DEF Spec

-----------------------------------------------------------------------------
(* The review queue.                                                       *)

\* The two points of a call that hold the queue lock.
Locked == {"queue_push", "queue_take"}

\* Between a load and a save of review.json nobody else saves it; qids are
\* unique; and whoever is committing a reviewed item took it out himself.
QueueInv ==
    /\ \A t \in Threads : pc[t] \in Locked <=> qlock = t
    /\ \A t \in Threads : qlock = t => snap[t] = queue
    /\ \A i, j \in queue : i.qid = j.qid => i = j
    /\ \A t \in Threads : Deciding(t) => call[t].qid \in taken
    /\ QueueConserved

\* A step of one call away from the queue: it neither takes nor gives up the
\* lock, leaves the queue alone, and makes nobody the committer of an item.
Outside(t) ==
    /\ pc[t] \notin Locked /\ pc'[t] \notin Locked
    /\ \A u \in Threads : u # t => pc'[u] = pc[u] /\ call'[u] = call[u]
    /\ Deciding(t)' => Deciding(t) /\ call'[t].qid = call[t].qid
    /\ UNCHANGED <<queue, qlock, snap, issued, taken>>

LEMMA OutsideKeeps ==
  ASSUME CallTypes, QueueInv, NEW t \in Threads, Outside(t)
  PROVE  QueueInv'
<1>1. ASSUME NEW u \in Threads
      PROVE  /\ pc'[u] \in Locked <=> pc[u] \in Locked
             /\ Deciding(u)' => Deciding(u) /\ call'[u].qid = call[u].qid
  <2>1. CASE u = t
    BY <2>1 DEF Outside
  <2>2. CASE u # t
    BY <2>2 DEF Outside, Deciding
  <2> QED BY <2>1, <2>2
<1>2. UNCHANGED <<queue, qlock, snap, issued, taken>>
  BY DEF Outside
<1>3. /\ {i.qid : i \in queue'} \cup taken' = 1..issued'
      /\ {i.qid : i \in queue'} \cap taken' = {}
  BY <1>2 DEF QueueInv, QueueConserved
<1>4. \A u \in Threads : Deciding(u)' => call'[u].qid \in taken'
  BY <1>1, <1>2 DEF QueueInv
<1>5. \A u, v \in Threads : Deciding(u)' /\ Deciding(v)' /\ u # v => call'[u].qid # call'[v].qid
  BY <1>1 DEF QueueInv, QueueConserved
<1> QED BY <1>1, <1>2, <1>3, <1>4, <1>5 DEF QueueInv, QueueConserved

\* What the end of a call, or of a submission of a scan, leaves behind.
LEMMA ReturnEnds ==
  ASSUME CallTypes, NEW t \in Threads, Abort(t) \/ Return(t)
  PROVE  /\ pc'[t] \in {"idle", "graduate_next"} /\ call'[t].cand = NONE
         /\ \A u \in Threads : u # t => pc'[u] = pc[u] /\ call'[u] = call[u]
<1>1. CASE Abort(t)
  BY <1>1 DEF Abort, Goto, Blank, CallTypes
<1>2. CASE Return(t) /\ ~Abort(t)
  <2> DEFINE c == [Blank EXCEPT !.op = call[t].op, !.todo = call[t].todo]
  <2>1. pc' = [pc EXCEPT ![t] = "graduate_next"] /\ call' = [call EXCEPT ![t] = c]
    BY <1>2 DEF Return, Goto
  <2>2. c.cand = NONE
    BY DEF Blank
  <2> HIDE DEF c
  <2> QED BY <2>1, <2>2 DEF CallTypes
<1> QED BY <1>1, <1>2

LEMMA StartOutside ==
  ASSUME CallTypes, NEW t \in Threads, Start(t)
  PROVE  Outside(t)
<1>1. ASSUME NEW op, NEW l, NEW c, Begin(t, op, l, c), l \notin Locked,
             c.op # "approve" \/ c.cand = NONE
      PROVE  Outside(t)
  BY <1>1 DEF Begin, At, Goto, CallTypes, Outside, Locked, Deciding, disk, histories
<1>2. CASE memory_write(t)
  <2>1. PICK id, r, old : Begin(t, "write", "vault_write",
                                [Blank EXCEPT !.op = "write", !.new = id, !.old = old, !.buf = r])
    BY <1>2 DEF memory_write
  <2> DEFINE c == [Blank EXCEPT !.op = "write", !.new = id, !.old = old, !.buf = r]
  <2>2. c.cand = NONE
    BY DEF Blank
  <2>3. Begin(t, "write", "vault_write", c)
    BY <2>1
  <2> HIDE DEF c
  <2> QED BY <1>1, <2>2, <2>3 DEF Locked
<1>3. CASE memory_feedback(t)
  <2>1. PICK id, gain : Begin(t, "feedback", "patch_get",
                              [Blank EXCEPT !.op = "feedback", !.old = id, !.gain = gain])
    BY <1>3 DEF memory_feedback
  <2> DEFINE c == [Blank EXCEPT !.op = "feedback", !.old = id, !.gain = gain]
  <2>2. c.cand = NONE
    BY DEF Blank
  <2>3. Begin(t, "feedback", "patch_get", c)
    BY <2>1
  <2> HIDE DEF c
  <2> QED BY <1>1, <2>2, <2>3 DEF Locked
<1>4. CASE memory_forget(t)
  <2>1. PICK id : Begin(t, "forget", "forget_file", [Blank EXCEPT !.op = "forget", !.old = id])
    BY <1>4 DEF memory_forget
  <2> DEFINE c == [Blank EXCEPT !.op = "forget", !.old = id]
  <2>2. c.cand = NONE
    BY DEF Blank
  <2>3. Begin(t, "forget", "forget_file", c)
    BY <2>1
  <2> HIDE DEF c
  <2> QED BY <1>1, <2>2, <2>3 DEF Locked
<1>5. CASE memory_promote(t)
  <2>1. PICK id, k : Begin(t, "promote", "dedup",
                           [Blank EXCEPT !.op = "promote", !.new = id, !.cand = k])
    BY <1>5 DEF memory_promote
  <2> DEFINE c == [Blank EXCEPT !.op = "promote", !.new = id, !.cand = k]
  <2>2. c.op # "approve"
    BY DEF Blank
  <2>3. Begin(t, "promote", "dedup", c)
    BY <2>1
  <2> HIDE DEF c
  <2> QED BY <1>1, <2>2, <2>3 DEF Locked
<1>6. CASE review(t)
  <2>1. PICK q : \/ \E id : Begin(t, "approve", "queue_lock",
                                  [Blank EXCEPT !.op = "approve", !.new = id, !.qid = q])
                 \/ Begin(t, "reject", "queue_lock", [Blank EXCEPT !.op = "reject", !.qid = q])
    BY <1>6 DEF review
  <2>2. ASSUME NEW id, Begin(t, "approve", "queue_lock",
                             [Blank EXCEPT !.op = "approve", !.new = id, !.qid = q])
        PROVE  Outside(t)
    <3> DEFINE c == [Blank EXCEPT !.op = "approve", !.new = id, !.qid = q]
    <3>1. c.cand = NONE
      BY DEF Blank
    <3>2. Begin(t, "approve", "queue_lock", c)
      BY <2>2
    <3> HIDE DEF c
    <3> QED BY <1>1, <3>1, <3>2 DEF Locked
  <2>3. ASSUME Begin(t, "reject", "queue_lock", [Blank EXCEPT !.op = "reject", !.qid = q])
        PROVE  Outside(t)
    <3> DEFINE c == [Blank EXCEPT !.op = "reject", !.qid = q]
    <3>1. c.cand = NONE
      BY DEF Blank
    <3>2. Begin(t, "reject", "queue_lock", c)
      BY <2>3
    <3> HIDE DEF c
    <3> QED BY <1>1, <3>1, <3>2 DEF Locked
  <2> QED BY <2>1, <2>2, <2>3
<1>7. CASE graduate(t) \/ rebuild(t)
  <2> DEFINE g == [Blank EXCEPT !.op = "graduate"]
             r == [Blank EXCEPT !.op = "rebuild"]
  <2>1. Begin(t, "graduate", "graduate_walk", g) \/ Begin(t, "rebuild", "rebuild_walk", r)
    BY <1>7 DEF graduate, rebuild
  <2>2. g.cand = NONE /\ r.cand = NONE
    BY DEF Blank
  <2> HIDE DEF g, r
  <2> QED BY <1>1, <2>1, <2>2 DEF Locked
<1> QED BY <1>2, <1>3, <1>4, <1>5, <1>6, <1>7 DEF Start

LEMMA VaultOutside ==
  ASSUME CallTypes, NEW t \in Threads,
         \/ vault_write(t) \/ patch_get(t) \/ patch_tmp(t) \/ patch_rename(t)
         \/ forget_file(t) \/ forget_index(t)
         \/ ingest_new(t) \/ get_old(t) \/ ingest_old(t)
         \/ feedback_path(t) \/ feedback_ingest(t)
         \/ rebuild_walk(t) \/ rebuild_commit(t)
  PROVE  Outside(t)
<1>1. pc[t] \notin Locked
  BY DEF vault_write, patch_get, patch_tmp, patch_rename, forget_file, forget_index,
         ingest_new, get_old, ingest_old, feedback_path, feedback_ingest,
         rebuild_walk, rebuild_commit, At, Locked
<1>2. UNCHANGED <<queue, qlock, snap, issued, taken>>
  BY DEF vault_write, patch_get, patch_tmp, patch_rename, forget_file, forget_index,
         ingest_new, get_old, ingest_old, feedback_path, feedback_ingest,
         rebuild_walk, rebuild_commit, OnlyIndex, disk, histories
<1>3. \/ Abort(t) \/ Return(t)
      \/ /\ \E l : Goto(t, l) /\ l \notin Locked
         /\ \/ call' = call
            \/ \E r : call' = [call EXCEPT ![t].patch = r]
            \/ \E r : call' = [call EXCEPT ![t].walk = r]
  <2>1. CASE vault_write(t) \/ patch_get(t) \/ patch_tmp(t) \/ patch_rename(t)
    BY <2>1 DEF vault_write, patch_get, patch_tmp, patch_rename, Locked, Goto
  <2>2. CASE \/ forget_file(t) \/ forget_index(t) \/ feedback_path(t) \/ feedback_ingest(t)
             \/ rebuild_walk(t) \/ rebuild_commit(t)
    BY <2>2 DEF forget_file, forget_index, feedback_path, feedback_ingest,
                rebuild_walk, rebuild_commit, Locked
  <2>3. CASE ingest_new(t) \/ get_old(t) \/ ingest_old(t)
    BY <2>3 DEF ingest_new, get_old, ingest_old, Committed, Locked
  <2> QED BY <2>1, <2>2, <2>3
<1>4. CASE Abort(t) \/ Return(t)
  BY <1>1, <1>2, <1>4, ReturnEnds DEF Outside, Locked, Deciding
<1>5. CASE /\ \E l : Goto(t, l) /\ l \notin Locked
           /\ \/ call' = call
              \/ \E r : call' = [call EXCEPT ![t].patch = r]
              \/ \E r : call' = [call EXCEPT ![t].walk = r]
  <2>1. call[t] \in Call
    BY DEF CallTypes
  <2>2. /\ pc'[t] \notin Locked
        /\ \A u \in Threads : u # t => pc'[u] = pc[u] /\ call'[u] = call[u]
    BY <1>5 DEF Goto, CallTypes
  <2>3. /\ call'[t].op = call[t].op /\ call'[t].cand = call[t].cand
        /\ call'[t].qid = call[t].qid
    BY <1>5, <2>1 DEF CallTypes, Call
  <2> QED BY <1>1, <1>2, <2>2, <2>3 DEF Outside, Deciding
<1> QED BY <1>3, <1>4, <1>5

LEMMA GateOutside ==
  ASSUME CallTypes, LocalsOK, NEW t \in Threads,
         \/ dedup(t) \/ probe(t) \/ probe_get(t) \/ policy(t)
         \/ commit(t) \/ materialize_skill(t)
         \/ graduate_walk(t) \/ graduate_queue(t) \/ graduate_next(t)
  PROVE  Outside(t)
<1>1. pc[t] \notin Locked
  BY DEF dedup, probe, probe_get, policy, commit, materialize_skill, graduate_walk,
         graduate_queue, graduate_next, At, Locked
<1>2. UNCHANGED <<queue, qlock, snap, issued, taken>>
  BY DEF dedup, probe, probe_get, policy, commit, materialize_skill, graduate_walk,
         graduate_queue, graduate_next, Local, disk, histories
<1>3. call[t] \in Call /\ Locals(pc[t], call[t])
  BY DEF CallTypes, LocalsOK
<1>4. CASE Abort(t) \/ Return(t)
  BY <1>1, <1>2, <1>4, ReturnEnds DEF Outside, Locked, Deciding
<1>5. ASSUME NEW l, Goto(t, l), l \notin Locked, NEW c, call' = [call EXCEPT ![t] = c],
             c.op = "approve" => c.op = call[t].op /\ c.cand = call[t].cand
                                                  /\ c.qid = call[t].qid
      PROVE  Outside(t)
  BY <1>1, <1>2, <1>5 DEF Goto, CallTypes, Outside, Deciding
<1>6. call = [call EXCEPT ![t] = call[t]]
  BY DEF CallTypes
<1>7. CASE (dedup(t) \/ materialize_skill(t)) /\ ~Return(t)
  <2>1. call' = call /\ (Goto(t, "commit") \/ Goto(t, "probe") \/ Goto(t, "policy"))
    BY <1>7 DEF dedup, materialize_skill, Goto
  <2> QED BY <1>5, <1>6, <2>1 DEF Locked
<1>8. CASE policy(t)
  <2>1. call' = call /\ (Goto(t, "queue_lock") \/ Goto(t, "commit"))
    BY <1>8 DEF policy, Goto
  <2> QED BY <1>5, <1>6, <2>1 DEF Locked
<1>9. CASE probe(t)
  <2>1. PICK top \in Ids \cup {NONE} :
            /\ Goto(t, IF top = NONE THEN "policy" ELSE "probe_get")
            /\ call' = [call EXCEPT ![t].old = top]
    BY <1>9 DEF probe
  <2> DEFINE c == [call[t] EXCEPT !.old = top]
             l == IF top = NONE THEN "policy" ELSE "probe_get"
  <2>2. c.op = call[t].op /\ c.cand = call[t].cand /\ c.qid = call[t].qid
    BY <1>3 DEF Call
  <2>3. call' = [call EXCEPT ![t] = c] /\ Goto(t, l) /\ l \notin Locked
    BY <2>1 DEF Locked
  <2> HIDE DEF c, l
  <2> QED BY <1>5, <2>2, <2>3
<1>10. CASE probe_get(t)
  <2>1. PICK x : /\ Goto(t, "policy")
                 /\ call' = [call EXCEPT ![t].old = NONE, ![t].cand.corrects = x]
    BY <1>10 DEF probe_get
  <2>2. call[t].op # "approve"
    BY <1>3, <1>10 DEF probe_get, At, Locals
  <2> DEFINE c == [call[t] EXCEPT !.old = NONE, !.cand.corrects = x]
  <2>3. c.op # "approve"
    BY <1>3, <2>2 DEF Call
  <2>4. call' = [call EXCEPT ![t] = c]
    BY <1>3, <2>1 DEF CallTypes, Call
  <2> HIDE DEF c
  <2> QED BY <1>5, <2>1, <2>3, <2>4 DEF Locked
<1>11. CASE commit(t) /\ ~Abort(t)
  <2> DEFINE r == new_record(call[t].cand)
             x == call[t].cand.corrects
             c == [call[t] EXCEPT !.buf = r, !.old = x]
  <2>1. Goto(t, "vault_write") /\ call' = [call EXCEPT ![t].buf = r, ![t].old = x]
    BY <1>11 DEF commit
  <2> HIDE DEF r, x
  <2>2. c.op = call[t].op /\ c.cand = call[t].cand /\ c.qid = call[t].qid
    BY <1>3 DEF Call
  <2>3. call' = [call EXCEPT ![t] = c]
    BY <1>3, <2>1 DEF CallTypes, Call
  <2> HIDE DEF c
  <2> QED BY <1>5, <2>1, <2>2, <2>3 DEF Locked
<1>12. CASE graduate_walk(t)
  <2> DEFINE c == [call[t] EXCEPT !.walk = file]
  <2>1. c.op = call[t].op /\ c.cand = call[t].cand /\ c.qid = call[t].qid
    BY <1>3 DEF Call
  <2>2. call' = [call EXCEPT ![t] = c] /\ Goto(t, "graduate_queue")
    BY <1>12 DEF graduate_walk
  <2> HIDE DEF c
  <2> QED BY <1>5, <2>1, <2>2 DEF Locked
<1>13. CASE graduate_queue(t)
  <2>1. PICK todo : /\ call' = [call EXCEPT ![t].walk = NONE, ![t].todo = todo]
                    /\ Goto(t, "graduate_next")
    BY <1>13 DEF graduate_queue
  <2> DEFINE c == [call[t] EXCEPT !.walk = NONE, !.todo = todo]
  <2>2. c.op = call[t].op /\ c.cand = call[t].cand /\ c.qid = call[t].qid
    BY <1>3 DEF Call
  <2>3. call' = [call EXCEPT ![t] = c]
    BY <1>3, <2>1 DEF CallTypes, Call
  <2> HIDE DEF c
  <2> QED BY <1>5, <2>1, <2>2, <2>3 DEF Locked
<1>14. CASE graduate_next(t) /\ ~Abort(t)
  <2>1. PICK k : /\ call' = [call EXCEPT ![t].cand = k, ![t].todo = @ \ {k}]
                 /\ Goto(t, "dedup")
    BY <1>14 DEF graduate_next
  <2>2. call[t].op = "graduate"
    BY <1>3, <1>14 DEF graduate_next, At, Locals
  <2> DEFINE rest == call[t].todo \ {k}
             c == [call[t] EXCEPT !.cand = k, !.todo = rest]
  <2>3. call' = [call EXCEPT ![t] = c]
    BY <1>3, <2>1 DEF CallTypes, Call
  <2> HIDE DEF rest
  <2>4. c.op # "approve"
    BY <1>3, <2>2 DEF Call
  <2> HIDE DEF c
  <2> QED BY <1>5, <2>1, <2>3, <2>4 DEF Locked
<1> QED BY <1>4, <1>7, <1>8, <1>9, <1>10, <1>11, <1>12, <1>13, <1>14

LEMMA LockKeeps ==
  ASSUME TypeOK, QueueInv, NEW t \in Threads, queue_lock(t)
  PROVE  QueueInv'
<1> USE ConstantsAssumption
<1>1. \A u \in Threads : pc[u] \notin Locked
  BY DEF queue_lock, QueueInv
<1>2. /\ qlock' = t /\ snap'[t] = queue /\ pc'[t] \in Locked
      /\ \A u \in Threads : u # t => pc'[u] = pc[u]
      /\ UNCHANGED <<queue, call, issued, taken>>
  BY DEF queue_lock, Goto, Locked, TypeOK, disk, histories
<1>3. QueueConserved' /\ \A u \in Threads : Deciding(u)' => call'[u].qid \in taken'
  BY <1>2 DEF QueueInv, QueueConserved, Deciding
<1> QED BY <1>1, <1>2, <1>3 DEF QueueInv

\* The holder of the lock saves review.json and lets go of the lock.
LEMMA SaveKeeps ==
  ASSUME CallTypes, QueueInv, NEW t \in Threads, pc[t] \in Locked,
         qlock' = NONE, pc'[t] \notin Locked,
         \A u \in Threads : u # t => pc'[u] = pc[u] /\ call'[u] = call[u],
         \A i, j \in queue' : i.qid = j.qid => i = j,
         {i.qid : i \in queue'} \cup taken' = 1..issued',
         {i.qid : i \in queue'} \cap taken' = {},
         taken \subseteq taken',
         Deciding(t)' => call'[t].qid \in taken' \ taken
  PROVE  QueueInv'
<1> USE ConstantsAssumption
<1>1. ASSUME NEW u \in Threads PROVE pc'[u] \notin Locked
  <2>1. u # t => pc[u] \notin Locked
    BY DEF QueueInv
  <2> QED BY <2>1
<1>2. ASSUME NEW u \in Threads, u # t, Deciding(u)' PROVE call'[u].qid \in taken
  BY <1>2 DEF QueueInv, Deciding
<1>3. \A u \in Threads : Deciding(u)' => call'[u].qid \in taken'
  BY <1>2
<1>4. ASSUME NEW u \in Threads, NEW v \in Threads, Deciding(u)', Deciding(v)', u # v
      PROVE  call'[u].qid # call'[v].qid
  <2>1. CASE u = t
    BY <1>2, <1>4, <2>1
  <2>2. CASE v = t
    BY <1>2, <1>4, <2>2
  <2>3. CASE u # t /\ v # t
    BY <1>4, <2>3 DEF QueueInv, QueueConserved, Deciding
  <2> QED BY <2>1, <2>2, <2>3
<1>5. QueueConserved'
  BY <1>4 DEF QueueConserved
<1> QED BY <1>1, <1>3, <1>5 DEF QueueInv

LEMMA PushKeeps ==
  ASSUME TypeOK, QueueInv, NEW t \in Threads, queue_push(t)
  PROVE  QueueInv'
<1>a. CallTypes
  BY DEF TypeOK, CallTypes
<1>1. pc[t] \in Locked /\ snap[t] = queue
  BY DEF queue_push, At, Locked, QueueInv
<1> DEFINE q == issued + 1
           item == [qid |-> q, cand |-> call[t].cand]
<1>2. queue' = queue \cup {item} /\ issued' = q /\ taken' = taken /\ qlock' = NONE
  BY <1>1 DEF queue_push, Unlock
<1>3. /\ pc'[t] \notin Locked /\ ~Deciding(t)'
      /\ \A u \in Threads : u # t => pc'[u] = pc[u] /\ call'[u] = call[u]
  BY <1>a, ReturnEnds DEF queue_push, Locked, Deciding
<1>4. issued \in Nat /\ q \notin 1..issued /\ 1..q = 1..issued \cup {q}
  BY DEF TypeOK
<1>5. q \notin taken /\ \A i \in queue : i.qid # q
  BY <1>4 DEF QueueInv, QueueConserved
<1>6. item.qid = q
  OBVIOUS
<1> HIDE DEF q, item
<1>7. {i.qid : i \in queue'} = {i.qid : i \in queue} \cup {q}
  BY <1>2, <1>6
<1>8. {i.qid : i \in queue'} \cup taken' = 1..issued'
  BY <1>2, <1>4, <1>7 DEF QueueInv, QueueConserved
<1>9. {i.qid : i \in queue'} \cap taken' = {}
  BY <1>2, <1>5, <1>7 DEF QueueInv, QueueConserved
<1>10. \A i, j \in queue' : i.qid = j.qid => i = j
  BY <1>2, <1>5, <1>6 DEF QueueInv
<1> QED BY <1>a, <1>1, <1>2, <1>3, <1>8, <1>9, <1>10, SaveKeeps

LEMMA TakeKeeps ==
  ASSUME TypeOK, LocalsOK, QueueInv, NEW t \in Threads, queue_take(t)
  PROVE  QueueInv'
<1>a. CallTypes
  BY DEF TypeOK, CallTypes
<1>1. pc[t] \in Locked /\ snap[t] = queue /\ qlock' = NONE /\ issued' = issued
  BY DEF queue_take, At, Locked, QueueInv, Unlock
<1>2. CASE Abort(t) /\ UNCHANGED <<queue, taken>>
  <2>1. /\ pc'[t] \notin Locked /\ ~Deciding(t)'
        /\ \A u \in Threads : u # t => pc'[u] = pc[u] /\ call'[u] = call[u]
    BY <1>a, <1>2, ReturnEnds DEF Locked, Deciding
  <2>2. /\ {i.qid : i \in queue'} \cup taken' = 1..issued'
        /\ {i.qid : i \in queue'} \cap taken' = {}
        /\ \A i, j \in queue' : i.qid = j.qid => i = j
    BY <1>1, <1>2 DEF QueueInv, QueueConserved
  <2> QED BY <1>a, <1>1, <1>2, <2>1, <2>2, SaveKeeps
<1>3. CASE ~(Abort(t) /\ UNCHANGED <<queue, taken>>)
  <2> DEFINE q == call[t].qid
  <2>1. PICK item \in queue :
            /\ item.qid = q /\ queue' = queue \ {item} /\ taken' = taken \cup {q}
            /\ \/ Return(t)
               \/ /\ call' = [call EXCEPT ![t].cand = item.cand]
                  /\ Goto(t, "dedup")
    BY <1>1, <1>3 DEF queue_take
  <2>2. /\ pc'[t] \notin Locked
        /\ \A u \in Threads : u # t => pc'[u] = pc[u] /\ call'[u] = call[u]
        /\ Deciding(t)' => call'[t].qid = q
    <3>1. CASE Return(t)
      BY <1>a, <3>1, ReturnEnds DEF Locked, Deciding
    <3>2. CASE call' = [call EXCEPT ![t].cand = item.cand] /\ Goto(t, "dedup")
      BY <1>a, <3>2 DEF Goto, CallTypes, Call, Locked
    <3> QED BY <2>1, <3>1, <3>2
  <2>3. q \notin taken /\ q \in 1..issued
    BY <2>1 DEF QueueInv, QueueConserved
  <2> HIDE DEF q
  <2>4. {i.qid : i \in queue'} = {i.qid : i \in queue} \ {q}
    BY <2>1 DEF QueueInv
  <2>5. /\ {i.qid : i \in queue'} \cup taken' = 1..issued'
        /\ {i.qid : i \in queue'} \cap taken' = {}
    BY <1>1, <2>1, <2>3, <2>4 DEF QueueInv, QueueConserved
  <2>6. \A i, j \in queue' : i.qid = j.qid => i = j
    BY <2>1 DEF QueueInv
  <2>7. Deciding(t)' => call'[t].qid \in taken' \ taken
    BY <2>1, <2>2, <2>3
  <2> QED BY <1>a, <1>1, <2>1, <2>2, <2>5, <2>6, <2>7, SaveKeeps
<1> QED BY <1>2, <1>3

\* Every item ever queued for review is either still in review.json or was
\* taken out by a review, never both and never neither, and no two reviewers
\* commit the same item: for any number of concurrent submissions, reviews and
\* scans, and any number of crashes.  It is Gate::queue_lock that makes it so:
\* whoever holds it has loaded what review.json contains, and nobody else saves.
THEOREM QueueIsConserved == Spec => []QueueConserved
<1>1. Init => QueueInv
  <2> SUFFICES ASSUME Init PROVE QueueInv
    OBVIOUS
  <2>1. \A t \in Threads : pc[t] = "idle" /\ call[t].op = "none" /\ qlock # t
    BY ConstantsAssumption DEF Init, Blank
  <2>2. queue = {} /\ taken = {} /\ 1..issued = {}
    BY DEF Init
  <2> QED BY <2>1, <2>2 DEF QueueInv, QueueConserved, Deciding, Locked
<1>2. TypeOK /\ LocalsOK /\ QueueInv /\ [Next]_vars => QueueInv'
  <2> SUFFICES ASSUME TypeOK, LocalsOK, QueueInv, [Next]_vars PROVE QueueInv'
    OBVIOUS
  <2>a. CallTypes
    BY DEF TypeOK, CallTypes
  <2>1. ASSUME NEW t \in Threads, Start(t) PROVE QueueInv'
    BY <2>a, <2>1, StartOutside, OutsideKeeps
  <2>2. ASSUME NEW t \in Threads, Step(t) PROVE QueueInv'
    <3>1. \/ Outside(t)
          \/ queue_lock(t) \/ queue_push(t) \/ queue_take(t)
      BY <2>a, <2>2, VaultOutside, GateOutside DEF Step
    <3> QED BY <2>a, <3>1, OutsideKeeps, LockKeeps, PushKeeps, TakeKeeps
  <2>3. CASE Watch \/ Tick \/ UNCHANGED vars
    <3>1. UNCHANGED <<pc, call, queue, qlock, snap, issued, taken>>
      BY <2>3 DEF Watch, watch_load, watch_apply, Tick, vars, disk, histories
    <3> QED BY <3>1 DEF QueueInv, QueueConserved, Deciding
  <2>4. CASE Crash
    <3>1. /\ \A t \in Threads : pc'[t] = "idle" /\ ~Deciding(t)'
          /\ qlock' = NONE /\ UNCHANGED <<queue, issued, taken>>
      BY <2>4 DEF Crash, Deciding, Blank, histories
    <3> QED BY <3>1, ConstantsAssumption DEF QueueInv, QueueConserved, Locked
  <2> QED BY <2>1, <2>2, <2>3, <2>4 DEF Next
<1>3. QueueInv => QueueConserved
  BY DEF QueueInv
<1> QED BY <1>1, <1>2, <1>3, TypeCorrect, PTL DEF Spec

-----------------------------------------------------------------------------
(* Skills and their reviews.                                               *)

\* The points of a call that writes a record and indexes it.
Writing == {"patch_get", "patch_tmp", "patch_rename", "ingest_new", "get_old", "ingest_old"}

\* A skill gets past the policy only with an approval, and an approval is on
\* record from the moment the record is written.
Reviewed(l, c) ==
    /\ l = "commit" /\ c.op # "approve" => c.cand.kind # "skill"
    /\ l \in Writing \cup {"vault_write"} /\ c.op \notin {"approve", "write", "feedback"}
         => c.buf.kind # "skill"
    /\ l \in Writing /\ c.op = "approve" => c.new \in approved
    /\ l = "materialize_skill" => c.new \in approved
    /\ l \in {"ingest_new", "get_old", "ingest_old"} => c.op # "feedback"

SkillInv ==
    /\ SkillsReviewed
    /\ \A t \in Threads : Reviewed(pc[t], call[t])

\* The points of a call at which Reviewed says something.
Watched == Writing \cup {"commit", "vault_write", "materialize_skill"}

LEMMA SkillKeeps ==
  ASSUME CallTypes, SkillInv, NEW t \in Threads,
         \A u \in Threads : u # t => pc'[u] = pc[u] /\ call'[u] = call[u],
         approved \subseteq approved', skills' \subseteq approved',
         Reviewed(pc[t], call[t])'
  PROVE  SkillInv'
<1>1. ASSUME NEW u \in Threads PROVE Reviewed(pc[u], call[u])'
  <2>1. CASE u = t
    BY <2>1
  <2>2. CASE u # t
    <3>1. pc'[u] = pc[u] /\ call'[u] = call[u] /\ Reviewed(pc[u], call[u])
      BY <2>2 DEF SkillInv
    <3> QED BY <3>1 DEF Reviewed
  <2> QED BY <2>1, <2>2
<1> QED BY <1>1 DEF SkillInv, SkillsReviewed

\* A step to a point where nothing has to be known.
LEMMA UnwatchedKeeps ==
  ASSUME CallTypes, SkillInv, NEW t \in Threads, pc'[t] \notin Watched,
         \A u \in Threads : u # t => pc'[u] = pc[u] /\ call'[u] = call[u],
         UNCHANGED approved, skills' \subseteq approved
  PROVE  SkillInv'
<1>1. Reviewed(pc[t], call[t])'
  BY DEF Reviewed, Watched, Writing
<1> QED BY <1>1, SkillKeeps

LEMMA ReturnSkills ==
  ASSUME CallTypes, SkillInv, NEW t \in Threads, Abort(t) \/ Return(t),
         UNCHANGED approved, skills' \subseteq approved
  PROVE  SkillInv'
BY ReturnEnds, UnwatchedKeeps DEF Watched, Writing

\* A step to point l by which op, new, buf and cand stay what they are.
LEMMA SameSkills ==
  ASSUME CallTypes, SkillInv, NEW t \in Threads, NEW l, Goto(t, l),
         \/ call' = call
         \/ \E r : call' = [call EXCEPT ![t].patch = r],
         UNCHANGED <<approved, skills>>, Reviewed(l, call[t])
  PROVE  SkillInv'
<1>1. call[t] \in Call
  BY DEF CallTypes
<1>2. /\ pc'[t] = l
      /\ \A u \in Threads : u # t => pc'[u] = pc[u] /\ call'[u] = call[u]
  BY DEF Goto, CallTypes
<1>3. /\ call'[t].op = call[t].op /\ call'[t].new = call[t].new
      /\ call'[t].buf = call[t].buf /\ call'[t].cand = call[t].cand
  BY <1>1 DEF CallTypes, Call
<1>4. Reviewed(pc[t], call[t])'
  BY <1>2, <1>3 DEF Reviewed
<1> QED BY <1>2, <1>4, SkillKeeps DEF SkillInv, SkillsReviewed

LEMMA StartSkills ==
  ASSUME CallTypes, SkillInv, NEW t \in Threads, Start(t)
  PROVE  SkillInv'
<1>1. skills \subseteq approved
  BY DEF SkillInv, SkillsReviewed
<1>2. UNCHANGED <<skills, approved>>
  BY DEF Start, memory_write, memory_feedback, memory_forget, memory_promote, review,
         graduate, rebuild, Begin, disk, histories
<1>3. ASSUME NEW op, NEW l, NEW c, Begin(t, op, l, c), Reviewed(l, c)
      PROVE  SkillInv'
  <2>1. /\ pc'[t] = l /\ call'[t] = c
        /\ \A u \in Threads : u # t => pc'[u] = pc[u] /\ call'[u] = call[u]
    BY <1>3 DEF Begin, Goto, CallTypes
  <2>2. Reviewed(pc[t], call[t])'
    BY <1>2, <1>3, <2>1 DEF Reviewed
  <2> QED BY <1>1, <1>2, <2>1, <2>2, SkillKeeps
<1>4. \A l, c : l \notin Watched => Reviewed(l, c)
  BY DEF Reviewed, Watched, Writing
<1>5. CASE memory_write(t)
  <2>1. PICK id, r, old : Begin(t, "write", "vault_write",
                                [Blank EXCEPT !.op = "write", !.new = id, !.old = old, !.buf = r])
    BY <1>5 DEF memory_write
  <2> DEFINE c == [Blank EXCEPT !.op = "write", !.new = id, !.old = old, !.buf = r]
  <2>2. c.op = "write"
    BY DEF Blank
  <2>3. Reviewed("vault_write", c)
    BY <2>2 DEF Reviewed, Writing
  <2>4. Begin(t, "write", "vault_write", c)
    BY <2>1
  <2> HIDE DEF c
  <2> QED BY <1>3, <2>3, <2>4
<1>6. CASE memory_feedback(t)
  <2>1. PICK id, gain : Begin(t, "feedback", "patch_get",
                              [Blank EXCEPT !.op = "feedback", !.old = id, !.gain = gain])
    BY <1>6 DEF memory_feedback
  <2> DEFINE c == [Blank EXCEPT !.op = "feedback", !.old = id, !.gain = gain]
  <2>2. c.op = "feedback"
    BY DEF Blank
  <2>3. Reviewed("patch_get", c)
    BY <2>2 DEF Reviewed, Writing
  <2>4. Begin(t, "feedback", "patch_get", c)
    BY <2>1
  <2> HIDE DEF c
  <2> QED BY <1>3, <2>3, <2>4
<1>7. CASE \/ memory_forget(t) \/ memory_promote(t) \/ review(t)
           \/ graduate(t) \/ rebuild(t)
  <2>1. \E l, c : Goto(t, l) /\ l \notin Watched /\ call' = [call EXCEPT ![t] = c]
    BY <1>7 DEF memory_forget, memory_promote, review, graduate, rebuild, Begin,
                Watched, Writing
  <2> QED BY <1>1, <1>2, <2>1, UnwatchedKeeps DEF Goto, CallTypes
<1> QED BY <1>5, <1>6, <1>7 DEF Start

LEMMA VaultSkills ==
  ASSUME CallTypes, LocalsOK, SkillInv, NEW t \in Threads,
         \/ vault_write(t) \/ patch_get(t) \/ patch_tmp(t) \/ patch_rename(t)
         \/ forget_file(t) \/ forget_index(t)
         \/ ingest_new(t) \/ get_old(t) \/ ingest_old(t)
         \/ feedback_path(t) \/ feedback_ingest(t)
         \/ rebuild_walk(t) \/ rebuild_commit(t)
  PROVE  SkillInv'
<1>1. /\ Reviewed(pc[t], call[t]) /\ Locals(pc[t], call[t]) /\ call[t] \in Call
      /\ skills \subseteq approved
  BY DEF SkillInv, SkillsReviewed, LocalsOK, CallTypes
<1>2. skills' = skills /\ (~vault_write(t) => approved' = approved)
  BY DEF vault_write, patch_get, patch_tmp, patch_rename, forget_file, forget_index,
         ingest_new, get_old, ingest_old, feedback_path, feedback_ingest,
         rebuild_walk, rebuild_commit, OnlyIndex, disk, histories
<1>3. CASE Abort(t) \/ Return(t)
  <2>1. ~vault_write(t)
    BY <1>3, ReturnEnds DEF vault_write, Goto, CallTypes
  <2> QED BY <1>1, <1>2, <1>3, <2>1, ReturnSkills
<1>4. CASE vault_write(t)
  <2>1. /\ pc[t] = "vault_write" /\ call' = call
        /\ call[t].op \in {"write", "promote", "approve"}
        /\ Goto(t, "ingest_new") \/ Goto(t, "patch_get")
    BY <1>1, <1>4 DEF vault_write, At, Locals, Goto
  <2>2. approved' = IF call[t].op = "approve" THEN approved \cup {call[t].new} ELSE approved
    BY <1>4 DEF vault_write
  <2>3. /\ pc'[t] \in {"ingest_new", "patch_get"} /\ call'[t] = call[t]
        /\ \A u \in Threads : u # t => pc'[u] = pc[u] /\ call'[u] = call[u]
    BY <2>1 DEF Goto, CallTypes
  <2>4. Reviewed(pc[t], call[t])'
    BY <1>1, <2>1, <2>2, <2>3 DEF Reviewed, Writing
  <2> QED BY <1>1, <1>2, <2>2, <2>3, <2>4, SkillKeeps
<1>5. CASE patch_get(t) /\ ~Abort(t)
  <2>1. /\ pc[t] = "patch_get" /\ Goto(t, "patch_tmp")
        /\ \E r : call' = [call EXCEPT ![t].patch = r]
    BY <1>5 DEF patch_get, At
  <2>2. Reviewed("patch_tmp", call[t])
    BY <1>1, <2>1 DEF Reviewed, Writing
  <2> QED BY <1>2, <1>5, <2>1, <2>2, SameSkills DEF patch_get, histories
<1>6. CASE patch_tmp(t)
  <2>1. pc[t] = "patch_tmp" /\ Goto(t, "patch_rename") /\ call' = call /\ approved' = approved
    BY <1>6 DEF patch_tmp, At, histories
  <2>2. Reviewed("patch_rename", call[t])
    BY <1>1, <2>1 DEF Reviewed, Writing
  <2> QED BY <1>2, <2>1, <2>2, SameSkills
<1>7. CASE patch_rename(t) /\ ~Abort(t)
  <2>1. /\ pc[t] = "patch_rename" /\ call' = call /\ approved' = approved
        /\ \/ Goto(t, "feedback_path")
           \/ Goto(t, "get_old") /\ call[t].op = "write"
           \/ Goto(t, "ingest_new") /\ call[t].op # "feedback"
    BY <1>7 DEF patch_rename, At, Goto, histories
  <2>2. /\ Reviewed("feedback_path", call[t])
        /\ call[t].op # "feedback" => Reviewed("get_old", call[t]) /\ Reviewed("ingest_new", call[t])
    BY <1>1, <2>1 DEF Reviewed, Writing
  <2> QED BY <1>2, <2>1, <2>2, SameSkills
<1>8. CASE \/ (forget_file(t) \/ feedback_path(t)) /\ ~Abort(t)
           \/ rebuild_walk(t)
  <2>1. \E l, c : Goto(t, l) /\ l \notin Watched /\ call' = [call EXCEPT ![t] = c]
    <3>1. call = [call EXCEPT ![t] = call[t]]
      BY DEF CallTypes
    <3> QED BY <1>8, <3>1 DEF forget_file, feedback_path, rebuild_walk, Watched, Writing
  <2>2. approved' = approved
    BY <1>8 DEF forget_file, feedback_path, rebuild_walk, histories
  <2> QED BY <1>1, <1>2, <2>1, <2>2, UnwatchedKeeps DEF Goto, CallTypes
<1>9. ASSUME pc[t] \in {"ingest_new", "ingest_old"}, Committed(t), approved' = approved
      PROVE  SkillInv'
  <2>1. CASE Return(t)
    BY <1>3, <2>1
  <2>2. CASE /\ call[t].op # "write" /\ call[t].buf.kind = "skill"
             /\ Goto(t, "materialize_skill") /\ call' = call
    <3>1. Reviewed("materialize_skill", call[t])
      BY <1>1, <1>9, <2>2 DEF Reviewed, Writing
    <3> QED BY <1>2, <1>9, <2>2, <3>1, SameSkills
  <2> QED BY <1>9, <2>1, <2>2 DEF Committed
<1>10. CASE ingest_new(t)
  <2>1. /\ pc[t] = "ingest_new" /\ approved' = approved
        /\ (Goto(t, "get_old") /\ call' = call) \/ Committed(t)
    BY <1>10 DEF ingest_new, At, histories
  <2>2. Reviewed("get_old", call[t])
    BY <1>1, <2>1 DEF Reviewed, Writing
  <2> QED BY <1>2, <1>9, <2>1, <2>2, SameSkills
<1>11. CASE get_old(t) /\ ~Abort(t)
  <2>1. /\ pc[t] = "get_old" /\ Goto(t, "ingest_old") /\ approved' = approved
        /\ \E r : call' = [call EXCEPT ![t].patch = r]
    BY <1>11 DEF get_old, At, histories
  <2>2. Reviewed("ingest_old", call[t])
    BY <1>1, <2>1 DEF Reviewed, Writing
  <2> QED BY <1>2, <2>1, <2>2, SameSkills
<1>12. CASE ingest_old(t)
  <2>1. /\ pc[t] = "ingest_old" /\ approved' = approved
        /\ (Goto(t, "ingest_new") /\ call' = call) \/ Committed(t)
    BY <1>12 DEF ingest_old, At, histories
  <2>2. Reviewed("ingest_new", call[t])
    BY <1>1, <2>1 DEF Reviewed, Writing
  <2> QED BY <1>2, <1>9, <2>1, <2>2, SameSkills
<1>13. forget_index(t) \/ feedback_ingest(t) \/ rebuild_commit(t) => Return(t)
  BY DEF forget_index, feedback_ingest, rebuild_commit
<1> QED BY <1>3, <1>4, <1>5, <1>6, <1>7, <1>8, <1>10, <1>11, <1>12, <1>13

LEMMA GateSkills ==
  ASSUME TypeOK, LocalsOK, SkillInv, NEW t \in Threads,
         \/ dedup(t) \/ probe(t) \/ probe_get(t) \/ policy(t)
         \/ queue_lock(t) \/ queue_push(t) \/ queue_take(t)
         \/ commit(t) \/ materialize_skill(t)
         \/ graduate_walk(t) \/ graduate_queue(t) \/ graduate_next(t)
  PROVE  SkillInv'
<1>a. CallTypes
  BY DEF TypeOK, CallTypes
<1>1. /\ Reviewed(pc[t], call[t]) /\ Locals(pc[t], call[t]) /\ call[t] \in Call
      /\ skills \subseteq approved
  BY <1>a DEF SkillInv, SkillsReviewed, LocalsOK, CallTypes
<1>2. approved' = approved /\ (~materialize_skill(t) => skills' = skills)
  BY DEF dedup, probe, probe_get, policy, queue_lock, queue_push, queue_take, commit,
         materialize_skill, graduate_walk, graduate_queue, graduate_next, Local,
         disk, histories
<1>3. CASE materialize_skill(t)
  <2>1. Return(t) /\ skills' = skills \cup {call[t].new} /\ call[t].new \in approved
    BY <1>1, <1>3 DEF materialize_skill, At, Reviewed
  <2> QED BY <1>a, <1>1, <1>2, <2>1, ReturnSkills
<1>4. CASE (Abort(t) \/ Return(t)) /\ ~materialize_skill(t)
  BY <1>a, <1>1, <1>2, <1>4, ReturnSkills
<1>5. CASE dedup(t) /\ ~Return(t)
  <2>1. /\ pc[t] = "dedup" /\ call' = call
        /\ \/ Goto(t, "commit") /\ call[t].op = "approve"
           \/ Goto(t, "probe") \/ Goto(t, "policy")
    BY <1>5 DEF dedup, At, Goto
  <2>2. /\ call[t].op = "approve" => Reviewed("commit", call[t])
        /\ Reviewed("probe", call[t]) /\ Reviewed("policy", call[t])
    BY DEF Reviewed, Writing
  <2>3. skills' = skills
    BY <1>5 DEF dedup, Local, disk
  <2> QED BY <1>a, <1>2, <2>1, <2>2, <2>3, SameSkills
<1>6. CASE policy(t)
  <2>1. /\ call' = call
        /\ \/ Goto(t, "queue_lock")
           \/ Goto(t, "commit") /\ call[t].cand.kind # "skill"
    BY <1>6 DEF policy, policy_for
  <2>2. /\ Reviewed("queue_lock", call[t])
        /\ call[t].cand.kind # "skill" => Reviewed("commit", call[t])
    BY DEF Reviewed, Writing
  <2>3. skills' = skills
    BY <1>6 DEF policy, Local, disk
  <2> QED BY <1>a, <1>2, <2>1, <2>2, <2>3, SameSkills
<1>7. CASE commit(t) /\ ~Abort(t)
  <2> DEFINE r == new_record(call[t].cand)
             x == call[t].cand.corrects
             c == [call[t] EXCEPT !.buf = r, !.old = x]
  <2>1. /\ pc[t] = "commit" /\ Goto(t, "vault_write") /\ skills' = skills
        /\ call' = [call EXCEPT ![t].buf = r, ![t].old = x]
    BY <1>7 DEF commit, At, disk
  <2>2. call[t].op # "approve" => r.kind # "skill"
    BY <1>1, <2>1 DEF Reviewed, new_record
  <2> HIDE DEF r, x
  <2>3. c.op = call[t].op /\ c.buf = r
    BY <1>1 DEF Call
  <2>4. call' = [call EXCEPT ![t] = c]
    BY <1>a, <1>1, <2>1 DEF CallTypes, Call
  <2> HIDE DEF c
  <2>5. /\ pc'[t] = "vault_write" /\ call'[t] = c
        /\ \A u \in Threads : u # t => pc'[u] = pc[u] /\ call'[u] = call[u]
    BY <1>a, <2>1, <2>4 DEF Goto, CallTypes
  <2>6. Reviewed(pc[t], call[t])'
    BY <2>2, <2>3, <2>5 DEF Reviewed, Writing
  <2> QED BY <1>a, <1>1, <1>2, <2>1, <2>5, <2>6, SkillKeeps
<1>8. CASE \/ probe(t) \/ probe_get(t) \/ queue_lock(t)
           \/ queue_take(t) /\ ~Abort(t) /\ ~Return(t)
           \/ graduate_walk(t) \/ graduate_queue(t)
           \/ graduate_next(t) /\ ~Abort(t)
  <2>1. \E l \in {"policy", "probe_get", "queue_take", "queue_push", "dedup",
                  "graduate_queue", "graduate_next"} : Goto(t, l)
    <3>1. CASE probe(t) \/ probe_get(t)
      BY <3>1 DEF probe, probe_get
    <3>2. CASE queue_lock(t)
      BY <3>2 DEF queue_lock
    <3>3. CASE queue_take(t) /\ ~Abort(t) /\ ~Return(t)
      BY <3>3 DEF queue_take
    <3>4. CASE graduate_walk(t) \/ graduate_queue(t) \/ (graduate_next(t) /\ ~Abort(t))
      BY <3>4 DEF graduate_walk, graduate_queue, graduate_next
    <3> QED BY <1>8, <3>1, <3>2, <3>3, <3>4
  <2>2. \A u \in Threads : u # t => call'[u] = call[u]
    BY <1>a, <1>8 DEF probe, probe_get, queue_lock, queue_take, graduate_walk,
                      graduate_queue, graduate_next, CallTypes
  <2>3. skills' = skills
    BY <1>8 DEF probe, probe_get, queue_lock, queue_take, graduate_walk, graduate_queue,
                graduate_next, Local, disk
  <2> QED BY <1>a, <1>1, <1>2, <2>1, <2>2, <2>3, UnwatchedKeeps
             DEF Goto, CallTypes, Watched, Writing
<1>9. queue_push(t) => Return(t)
  BY DEF queue_push
<1>10. CASE ~materialize_skill(t) /\ ~Abort(t) /\ ~Return(t)
  BY <1>5, <1>6, <1>7, <1>8, <1>9, <1>10
<1> QED BY <1>3, <1>4, <1>10

\* A SKILL.md exists only for a record that a reviewer approved, whoever
\* submitted it and however the calls interleave or die: the gate sends every
\* skill to the queue whatever its scope's policy, and only a commit out of the
\* queue goes on to materialize one.
THEOREM SkillsAreReviewed == Spec => []SkillsReviewed
<1>1. Init => SkillInv
  BY DEF Init, SkillInv, SkillsReviewed, Reviewed, Writing
<1>2. TypeOK /\ LocalsOK /\ SkillInv /\ [Next]_vars => SkillInv'
  <2> SUFFICES ASSUME TypeOK, LocalsOK, SkillInv, [Next]_vars PROVE SkillInv'
    OBVIOUS
  <2>a. CallTypes
    BY DEF TypeOK, CallTypes
  <2>1. ASSUME NEW t \in Threads, Start(t) PROVE SkillInv'
    BY <2>a, <2>1, StartSkills
  <2>2. ASSUME NEW t \in Threads, Step(t) PROVE SkillInv'
    BY <2>a, <2>2, VaultSkills, GateSkills DEF Step
  <2>3. CASE Watch \/ Tick \/ UNCHANGED vars
    <3>1. UNCHANGED <<pc, call, skills, approved>>
      BY <2>3 DEF Watch, watch_load, watch_apply, Tick, vars, disk, histories
    <3> QED BY <3>1 DEF SkillInv, SkillsReviewed, Reviewed
  <2>4. CASE Crash
    <3>1. (\A t \in Threads : pc'[t] = "idle") /\ UNCHANGED <<skills, approved>>
      BY <2>4 DEF Crash, histories
    <3> QED BY <3>1 DEF SkillInv, SkillsReviewed, Reviewed, Writing
  <2> QED BY <2>1, <2>2, <2>3, <2>4 DEF Next
<1>3. SkillInv => SkillsReviewed
  BY DEF SkillInv
<1> QED BY <1>1, <1>2, <1>3, TypeCorrect, PTL DEF Spec

-----------------------------------------------------------------------------
(* Supersession.                                                           *)

\* Some record that supersedes id was written, and was removed by a forget only.
Superseded(id) == \E s \in Ids : <<s, id>> \in links /\ (file[s] # NONE \/ s \in gone)

\* A copy of record id that is marked invalid has its reason.
Explained(r, id) == r # NONE /\ r.invalid_at # NONE => Superseded(id)

\* A call writes new records valid, and marks a copy of an old one invalid only
\* after it has written the new one.
Careful(l, c) ==
    /\ l = "vault_write" => c.buf.invalid_at = NONE
    /\ l = "patch_get" /\ c.op # "feedback" => Superseded(c.old)
    /\ l = "patch_tmp" => Explained(c.patch, c.old)

\* NoGap for the files, and for all copies that may still be renamed over them.
GapInv ==
    /\ \A id \in Ids : Explained(file[id], id) /\ Explained(tmp[id], id)
    /\ \A t \in Threads : Careful(pc[t], call[t])

\* Whatever removes a record says so.
Remembers ==
    /\ links \subseteq links' /\ gone \subseteq gone'
    /\ \A s \in Ids : file[s] # NONE => file'[s] # NONE \/ s \in gone'

\* What has a reason keeps it.
LEMMA StaysExplained ==
  ASSUME Remembers, NEW id
  PROVE  Superseded(id) => Superseded(id)'
BY DEF Remembers, Superseded

\* A step of one call leaves what is claimed of the others.
LEMMA GapKeeps ==
  ASSUME GapInv, Remembers, NEW t \in Threads,
         \A u \in Threads : u # t => pc'[u] = pc[u] /\ call'[u] = call[u],
         \A id \in Ids : Explained(file[id], id)' /\ Explained(tmp[id], id)',
         Careful(pc[t], call[t])'
  PROVE  GapInv'
<1>1. ASSUME NEW u \in Threads PROVE Careful(pc[u], call[u])'
  <2>1. CASE u = t
    BY <2>1
  <2>2. CASE u # t
    <3>1. pc'[u] = pc[u] /\ call'[u] = call[u] /\ Careful(pc[u], call[u])
      BY <2>2 DEF GapInv
    <3>2. PICK o : o = call[u].old
      OBVIOUS
    <3>3. call'[u].old = o /\ call'[u].buf = call[u].buf /\ call'[u].patch = call[u].patch
          /\ call'[u].op = call[u].op
      BY <3>1, <3>2
    <3>4. Superseded(o) => Superseded(o)'
      BY StaysExplained
    <3>5. Careful(pc[u], call[u])'
      <4>1. CASE pc[u] = "patch_get"
        BY <3>1, <3>2, <3>3, <3>4, <4>1 DEF Careful, Superseded
      <4>2. CASE pc[u] = "patch_tmp"
        BY <3>1, <3>2, <3>3, <3>4, <4>2 DEF Careful, Explained, Superseded
      <4>3. CASE pc[u] \notin {"patch_get", "patch_tmp"}
        BY <3>1, <3>3, <4>3 DEF Careful
      <4> QED BY <4>1, <4>2, <4>3
    <3> QED BY <3>5
  <2> QED BY <2>1, <2>2
<1> QED BY <1>1 DEF GapInv

\* A step that touches no file of a record.
LEMMA QuietKeeps ==
  ASSUME GapInv, NEW t \in Threads, UNCHANGED <<file, tmp, links, gone>>,
         \A u \in Threads : u # t => pc'[u] = pc[u] /\ call'[u] = call[u],
         Careful(pc[t], call[t])'
  PROVE  GapInv'
<1>1. Remembers
  BY DEF Remembers
<1>2. \A id \in Ids : Explained(file[id], id)' /\ Explained(tmp[id], id)'
  BY DEF GapInv, Explained, Superseded
<1> QED BY <1>1, <1>2, GapKeeps

LEMMA ReturnKeeps ==
  ASSUME CallTypes, GapInv, NEW t \in Threads, Abort(t) \/ Return(t),
         UNCHANGED <<file, tmp, links, gone>>
  PROVE  GapInv'
<1>1. /\ pc'[t] \in {"idle", "graduate_next"}
      /\ \A u \in Threads : u # t => pc'[u] = pc[u] /\ call'[u] = call[u]
  BY ReturnEnds
<1>2. Careful(pc[t], call[t])'
  BY <1>1 DEF Careful
<1> QED BY <1>1, <1>2, QuietKeeps

LEMMA StartGap ==
  ASSUME CallTypes, GapInv, NEW t \in Threads, Start(t)
  PROVE  GapInv'
<1>1. UNCHANGED <<file, tmp, links, gone>>
  BY DEF Start, memory_write, memory_feedback, memory_forget, memory_promote, review,
         graduate, rebuild, Begin, disk, histories
<1>2. ASSUME NEW op, NEW l, NEW c, Begin(t, op, l, c), l # "patch_tmp",
             l = "vault_write" => c.buf.invalid_at = NONE,
             l = "patch_get" => c.op = "feedback"
      PROVE  GapInv'
  <2>1. /\ pc'[t] = l /\ call'[t] = c
        /\ \A u \in Threads : u # t => pc'[u] = pc[u] /\ call'[u] = call[u]
    BY <1>2 DEF Begin, Goto, CallTypes
  <2>2. Careful(pc[t], call[t])'
    BY <1>2, <2>1 DEF Careful
  <2> QED BY <1>1, <2>1, <2>2, QuietKeeps
<1>3. CASE memory_write(t)
  <2>1. PICK id, b, s, k, old :
           Begin(t, "write", "vault_write",
                 [Blank EXCEPT !.op = "write", !.new = id, !.old = old,
                               !.buf = new_record([body |-> b, scope |-> s, kind |-> k,
                                                   from |-> NONE, corrects |-> old])])
    BY <1>3 DEF memory_write
  <2> DEFINE r == new_record([body |-> b, scope |-> s, kind |-> k,
                              from |-> NONE, corrects |-> old])
             c == [Blank EXCEPT !.op = "write", !.new = id, !.old = old, !.buf = r]
  <2>2. r.invalid_at = NONE
    BY DEF new_record
  <2>3. c.buf = r
    BY DEF Blank
  <2>4. Begin(t, "write", "vault_write", c)
    BY <2>1
  <2> HIDE DEF r, c
  <2> QED BY <1>2, <2>2, <2>3, <2>4
<1>4. CASE memory_feedback(t)
  <2>1. PICK id, gain : Begin(t, "feedback", "patch_get",
                              [Blank EXCEPT !.op = "feedback", !.old = id, !.gain = gain])
    BY <1>4 DEF memory_feedback
  <2> DEFINE c == [Blank EXCEPT !.op = "feedback", !.old = id, !.gain = gain]
  <2>2. c.op = "feedback"
    BY DEF Blank
  <2>3. Begin(t, "feedback", "patch_get", c)
    BY <2>1
  <2> HIDE DEF c
  <2> QED BY <1>2, <2>2, <2>3
<1>5. CASE \/ memory_forget(t) \/ memory_promote(t) \/ review(t)
           \/ graduate(t) \/ rebuild(t)
  <2>1. ASSUME NEW op, NEW l \in {"forget_file", "dedup", "queue_lock", "graduate_walk",
                                  "rebuild_walk"},
               NEW c, Begin(t, op, l, c)
        PROVE  GapInv'
    BY <1>2, <2>1
  <2>2. CASE memory_forget(t)
    BY <2>1, <2>2 DEF memory_forget
  <2>3. CASE memory_promote(t)
    BY <2>1, <2>3 DEF memory_promote
  <2>4. CASE review(t)
    BY <2>1, <2>4 DEF review
  <2>5. CASE graduate(t)
    BY <2>1, <2>5 DEF graduate
  <2>6. CASE rebuild(t)
    BY <2>1, <2>6 DEF rebuild
  <2> QED BY <1>5, <2>2, <2>3, <2>4, <2>5, <2>6
<1> QED BY <1>3, <1>4, <1>5 DEF Start

\* A step to a point where nothing is claimed.
LEMMA GoesOnKeeps ==
  ASSUME CallTypes, GapInv, NEW t \in Threads, UNCHANGED <<file, tmp, links, gone>>,
         NEW l, Goto(t, l), l \notin {"vault_write", "patch_get", "patch_tmp"},
         \A u \in Threads : u # t => call'[u] = call[u]
  PROVE  GapInv'
<1>1. pc'[t] = l /\ \A u \in Threads : u # t => pc'[u] = pc[u]
  BY DEF Goto, CallTypes
<1>2. Careful(pc[t], call[t])'
  BY <1>1 DEF Careful
<1> QED BY <1>1, <1>2, QuietKeeps

\* The new record is there before the old one is touched.
LEMMA WriteGap ==
  ASSUME TypeOK, LocalsOK, GapInv, NEW t \in Threads, vault_write(t)
  PROVE  GapInv'
<1> DEFINE c == call[t]
<1>0. pc \in [Threads -> PCs] /\ call \in [Threads -> Call] /\ file \in Rows
  BY DEF TypeOK
<1>1. /\ c.new \in Ids /\ c.buf \in Record /\ c.buf # NONE /\ c.buf.invalid_at = NONE
      /\ c.old \in Ids \cup {NONE}
  BY <1>0, ConstantsAssumption DEF vault_write, At, LocalsOK, Locals, GapInv, Careful, Call
<1>2. /\ file' = [file EXCEPT ![c.new] = c.buf] /\ tmp' = tmp /\ call' = call
      /\ gone' = gone
      /\ links' = IF c.old = NONE THEN links ELSE links \cup {<<c.new, c.old>>}
      /\ Goto(t, IF c.old = NONE THEN "ingest_new" ELSE "patch_get")
  BY DEF vault_write
<1>3. /\ file'[c.new] = c.buf /\ \A id \in Ids \ {c.new} : file'[id] = file[id]
  BY <1>0, <1>1, <1>2 DEF Rows
<1>4. Remembers
  BY <1>1, <1>2, <1>3 DEF Remembers
<1>5. \A id \in Ids : Superseded(id) => Superseded(id)'
  BY <1>4, StaysExplained
<1>6. ASSUME NEW id \in Ids PROVE Explained(file[id], id)' /\ Explained(tmp[id], id)'
  <2>1. Explained(tmp[id], id)'
    BY <1>2, <1>5 DEF GapInv, Explained
  <2>2. CASE id = c.new
    BY <1>1, <1>3, <2>1, <2>2 DEF Explained
  <2>3. CASE id # c.new
    BY <1>3, <1>5, <2>1, <2>3 DEF GapInv, Explained
  <2> QED BY <2>2, <2>3
<1>7. /\ pc'[t] = (IF c.old = NONE THEN "ingest_new" ELSE "patch_get")
      /\ \A u \in Threads : u # t => pc'[u] = pc[u] /\ call'[u] = call[u]
  BY <1>0, <1>2 DEF Goto
<1>8. Careful(pc[t], call[t])'
  <2>1. CASE c.old = NONE
    BY <1>7, <2>1 DEF Careful
  <2>2. CASE c.old # NONE
    <3>1. <<c.new, c.old>> \in links' /\ file'[c.new] # NONE
      BY <1>1, <1>2, <1>3, <2>2
    <3>2. PICK o \in Ids : o = c.old
      BY <1>1, <2>2
    <3>3. Superseded(o)'
      BY <1>1, <3>1, <3>2 DEF Superseded
    <3> QED BY <1>2, <1>7, <2>2, <3>2, <3>3 DEF Careful, Superseded
  <2> QED BY <2>1, <2>2
<1> QED BY <1>4, <1>6, <1>7, <1>8, GapKeeps

\* The copy of an old record is marked invalid where its successor is written; a
\* telemetry copy is as valid as the file it was made of.
LEMMA CopyGap ==
  ASSUME TypeOK, LocalsOK, GapInv, NEW t \in Threads, patch_get(t), ~Abort(t)
  PROVE  GapInv'
<1> DEFINE c == call[t]
           r == Patched(c, file[c.old])
<1>0. /\ pc \in [Threads -> PCs] /\ call \in [Threads -> Call] /\ file \in Rows
      /\ CallTypes
  BY DEF TypeOK, CallTypes
<1>1. /\ pc[t] = "patch_get" /\ file[c.old] # NONE /\ Goto(t, "patch_tmp")
      /\ call' = [call EXCEPT ![t].patch = r] /\ UNCHANGED <<file, tmp, links, gone>>
  BY DEF patch_get, At, disk, histories
<1>2. PICK o \in Ids : o = c.old
  BY <1>0, <1>1 DEF LocalsOK, Locals
<1>3. file[o] \in Record /\ Explained(file[o], o)
  BY <1>0, <1>1, <1>2 DEF GapInv, Rows
<1>4. c.op # "feedback" => Superseded(o)
  BY <1>1, <1>2 DEF GapInv, Careful
<1>5. c.op = "feedback" => r.invalid_at = file[o].invalid_at
  BY <1>2, <1>3 DEF Patched, Record
<1>6. r # NONE /\ r.invalid_at # NONE => Superseded(o)
  BY <1>1, <1>2, <1>3, <1>4, <1>5 DEF Explained
<1> HIDE DEF r
<1>7. /\ pc'[t] = "patch_tmp" /\ call'[t].patch = r /\ call'[t].old = o
      /\ \A u \in Threads : u # t => pc'[u] = pc[u] /\ call'[u] = call[u]
  BY <1>0, <1>1, <1>2 DEF Goto, Call
<1>8. Superseded(o) => Superseded(o)'
  BY <1>1 DEF Superseded
<1>9. Careful(pc[t], call[t])'
  BY <1>6, <1>7, <1>8 DEF Careful, Explained, Superseded
<1> QED BY <1>1, <1>7, <1>9, QuietKeeps

LEMMA RenameGap ==
  ASSUME TypeOK, LocalsOK, GapInv, NEW t \in Threads,
         patch_tmp(t) \/ (patch_rename(t) /\ ~Abort(t)) \/ (forget_file(t) /\ ~Abort(t))
  PROVE  GapInv'
<1> DEFINE c == call[t]
<1>0. /\ pc \in [Threads -> PCs] /\ call \in [Threads -> Call] /\ file \in Rows
      /\ tmp \in Rows
  BY DEF TypeOK
<1>1. PICK o \in Ids : o = c.old
  BY <1>0 DEF patch_tmp, patch_rename, forget_file, At, LocalsOK, Locals
<1>2. /\ call' = call /\ links' = links /\ gone \subseteq gone'
      /\ \E l \in {"patch_rename", "feedback_path", "get_old", "ingest_new",
                   "forget_index"} : Goto(t, l)
  BY DEF patch_tmp, patch_rename, forget_file, histories
<1>3. /\ pc'[t] \in {"patch_rename", "feedback_path", "get_old", "ingest_new",
                     "forget_index"}
      /\ \A u \in Threads : u # t => pc'[u] = pc[u] /\ call'[u] = call[u]
  BY <1>0, <1>2 DEF Goto
<1>4. Careful(pc[t], call[t])'
  BY <1>3 DEF Careful
<1>5. CASE patch_tmp(t)
  <2>1. /\ tmp'[o] = c.patch /\ \A id \in Ids \ {o} : tmp'[id] = tmp[id]
        /\ file' = file /\ gone' = gone /\ pc[t] = "patch_tmp"
    BY <1>0, <1>1, <1>5 DEF patch_tmp, At, Rows, histories
  <2>2. Explained(c.patch, o)
    BY <1>1, <2>1 DEF GapInv, Careful
  <2>3. \A id \in Ids : Explained(file[id], id)' /\ Explained(tmp[id], id)'
    BY <1>2, <2>1, <2>2 DEF GapInv, Explained, Superseded
  <2>4. Remembers
    BY <1>2, <2>1 DEF Remembers
  <2> QED BY <1>3, <1>4, <2>3, <2>4, GapKeeps
<1>6. CASE patch_rename(t) /\ ~Abort(t)
  <2>1. /\ file'[o] = tmp[o] /\ \A id \in Ids \ {o} : file'[id] = file[id]
        /\ tmp'[o] = NONE /\ \A id \in Ids \ {o} : tmp'[id] = tmp[id]
        /\ tmp[o] # NONE /\ gone' = gone
    BY <1>0, <1>1, <1>6 DEF patch_rename, Rows, histories
  <2>2. Remembers
    BY <1>2, <2>1 DEF Remembers
  <2>3. \A id \in Ids : Superseded(id) => Superseded(id)'
    BY <2>2, StaysExplained
  <2>4. \A id \in Ids : Explained(file[id], id)' /\ Explained(tmp[id], id)'
    BY <2>1, <2>3 DEF GapInv, Explained
  <2> QED BY <1>3, <1>4, <2>2, <2>4, GapKeeps
<1>7. CASE forget_file(t) /\ ~Abort(t)
  <2>1. /\ file'[o] = NONE /\ \A id \in Ids \ {o} : file'[id] = file[id]
        /\ tmp' = tmp /\ gone' = gone \cup {o}
    BY <1>0, <1>1, <1>7 DEF forget_file, Rows
  <2>2. Remembers
    BY <1>2, <2>1 DEF Remembers
  <2>3. \A id \in Ids : Superseded(id) => Superseded(id)'
    BY <2>2, StaysExplained
  <2>4. \A id \in Ids : Explained(file[id], id)' /\ Explained(tmp[id], id)'
    BY <2>1, <2>3 DEF GapInv, Explained
  <2> QED BY <1>3, <1>4, <2>2, <2>4, GapKeeps
<1> QED BY <1>5, <1>6, <1>7


\* A call that finds its record missing ends without touching a file.
LEMMA MissingGap ==
  ASSUME TypeOK, GapInv, NEW t \in Threads, Abort(t),
         patch_get(t) \/ patch_rename(t) \/ forget_file(t)
  PROVE  GapInv'
<1>1. CallTypes
  BY DEF TypeOK, CallTypes
<1>2. \A l : Goto(t, l) => l = "idle"
  BY <1>1 DEF Abort, Goto, CallTypes
<1>3. UNCHANGED <<file, tmp, links, gone>>
  BY <1>2 DEF patch_get, patch_rename, forget_file, disk, histories
<1> QED BY <1>1, <1>3, ReturnKeeps

\* The index steps of a call touch no file.
LEMMA IndexGap ==
  ASSUME TypeOK, GapInv, NEW t \in Threads,
         \/ forget_index(t) \/ ingest_new(t) \/ get_old(t) \/ ingest_old(t)
         \/ feedback_path(t) \/ feedback_ingest(t) \/ rebuild_walk(t) \/ rebuild_commit(t)
  PROVE  GapInv'
<1>1. CallTypes
  BY DEF TypeOK, CallTypes
<1>2. UNCHANGED <<file, tmp, links, gone>>
  BY DEF forget_index, ingest_new, get_old, ingest_old, feedback_path, feedback_ingest,
         rebuild_walk, rebuild_commit, OnlyIndex, disk, histories
<1>3. CASE Abort(t) \/ Return(t)
  BY <1>1, <1>2, <1>3, ReturnKeeps
<1>4. CASE ~Abort(t) /\ ~Return(t)
  <2>1. \E l \in {"get_old", "ingest_old", "ingest_new", "feedback_ingest",
                  "rebuild_commit", "materialize_skill"} : Goto(t, l)
    BY <1>4 DEF forget_index, ingest_new, get_old, ingest_old, feedback_path,
                feedback_ingest, rebuild_walk, rebuild_commit, Committed
  <2>2. \A u \in Threads : u # t => call'[u] = call[u]
    <3>1. CASE get_old(t) \/ rebuild_walk(t)
      BY <1>1, <1>4, <3>1 DEF get_old, rebuild_walk, CallTypes
    <3>2. CASE ingest_new(t) \/ ingest_old(t) \/ feedback_path(t)
      BY <1>4, <3>2 DEF ingest_new, ingest_old, feedback_path, Committed
    <3>3. CASE forget_index(t) \/ feedback_ingest(t) \/ rebuild_commit(t)
      BY <1>4, <3>3 DEF forget_index, feedback_ingest, rebuild_commit
    <3> QED BY <3>1, <3>2, <3>3
  <2> QED BY <1>1, <1>2, <2>1, <2>2, GoesOnKeeps
<1> QED BY <1>3, <1>4

\* The gate decides what is written, and what it writes is valid.
LEMMA GateGap ==
  ASSUME TypeOK, GapInv, NEW t \in Threads,
         \/ dedup(t) \/ probe(t) \/ probe_get(t) \/ policy(t)
         \/ queue_lock(t) \/ queue_push(t) \/ queue_take(t)
         \/ commit(t) \/ materialize_skill(t)
         \/ graduate_walk(t) \/ graduate_queue(t) \/ graduate_next(t)
  PROVE  GapInv'
<1>1. CallTypes
  BY DEF TypeOK, CallTypes
<1>2. UNCHANGED <<file, tmp, links, gone>>
  BY DEF dedup, probe, probe_get, policy, queue_lock, queue_push, queue_take, commit,
         materialize_skill, graduate_walk, graduate_queue, graduate_next, Local,
         disk, histories
<1>3. CASE Abort(t) \/ Return(t)
  BY <1>1, <1>2, <1>3, ReturnKeeps
<1>4. CASE commit(t) /\ ~Abort(t)
  <2> DEFINE r == new_record(call[t].cand)
             x == call[t].cand.corrects
  <2>1. /\ Goto(t, "vault_write")
        /\ call' = [call EXCEPT ![t].buf = r, ![t].old = x]
    BY <1>4 DEF commit
  <2>2. r.invalid_at = NONE
    BY DEF new_record
  <2> HIDE DEF r, x
  <2>3. call[t] \in Call
    BY <1>1 DEF CallTypes
  <2>4. /\ pc'[t] = "vault_write" /\ call'[t].buf = r
        /\ \A u \in Threads : u # t => pc'[u] = pc[u] /\ call'[u] = call[u]
    BY <1>1, <2>1, <2>3 DEF Goto, CallTypes, Call
  <2>5. Careful(pc[t], call[t])'
    BY <2>2, <2>4 DEF Careful
  <2> QED BY <1>2, <2>4, <2>5, QuietKeeps
<1>5. CASE ~commit(t) /\ ~Abort(t) /\ ~Return(t)
  <2>1. \E l \in {"commit", "probe", "policy", "probe_get", "queue_lock", "queue_take",
                  "queue_push", "dedup", "graduate_queue", "graduate_next"} : Goto(t, l)
    <3>1. CASE dedup(t) \/ policy(t)
      BY <1>5, <3>1 DEF dedup, policy
    <3>2. CASE probe(t) \/ probe_get(t) \/ queue_lock(t)
      BY <3>2 DEF probe, probe_get, queue_lock
    <3>3. CASE queue_take(t) \/ queue_push(t) \/ materialize_skill(t)
      BY <1>5, <3>3 DEF queue_take, queue_push, materialize_skill
    <3>4. CASE graduate_walk(t) \/ graduate_queue(t) \/ graduate_next(t)
      BY <1>5, <3>4 DEF graduate_walk, graduate_queue, graduate_next
    <3> QED BY <1>5, <3>1, <3>2, <3>3, <3>4
  <2>2. \A u \in Threads : u # t => call'[u] = call[u]
    <3>1. CASE dedup(t) \/ policy(t) \/ queue_lock(t)
      BY <1>5, <3>1 DEF dedup, policy, queue_lock
    <3>2. CASE probe(t) \/ probe_get(t)
      BY <1>1, <3>2 DEF probe, probe_get, CallTypes
    <3>3. CASE queue_take(t) \/ queue_push(t) \/ materialize_skill(t)
      BY <1>1, <1>5, <3>3 DEF queue_take, queue_push, materialize_skill, CallTypes
    <3>4. CASE graduate_walk(t) \/ graduate_queue(t) \/ graduate_next(t)
      BY <1>1, <1>5, <3>4 DEF graduate_walk, graduate_queue, graduate_next, CallTypes
    <3> QED BY <1>5, <3>1, <3>2, <3>3, <3>4
  <2> QED BY <1>1, <1>2, <2>1, <2>2, GoesOnKeeps
<1> QED BY <1>3, <1>4, <1>5

\* A belief that is superseded always has its successor: however the calls
\* interleave or die, a record is invalid on disk only after a record that
\* supersedes it was written, and that one is removed by a forget only.  A copy of
\* a record that still waits to be renamed over the file has to satisfy this too.
THEOREM SupersessionLeavesNoGap == Spec => []NoGap
<1>1. Init => GapInv
  <2> SUFFICES ASSUME Init PROVE GapInv
    OBVIOUS
  <2>1. \A id \in Ids : file[id] = NONE /\ tmp[id] = NONE
    BY DEF Init
  <2>2. \A t \in Threads : pc[t] = "idle"
    BY DEF Init
  <2> QED BY <2>1, <2>2 DEF GapInv, Explained, Careful
<1>2. TypeOK /\ LocalsOK /\ GapInv /\ [Next]_vars => GapInv'
  <2> SUFFICES ASSUME TypeOK, LocalsOK, GapInv, [Next]_vars PROVE GapInv'
    OBVIOUS
  <2>a. CallTypes
    BY DEF TypeOK, CallTypes
  <2>1. ASSUME NEW t \in Threads, Start(t) PROVE GapInv'
    BY <2>a, <2>1, StartGap
  <2>2. ASSUME NEW t \in Threads, Step(t) PROVE GapInv'
    <3>1. CASE vault_write(t)
      BY <3>1, WriteGap
    <3>2. CASE patch_get(t) /\ ~Abort(t)
      BY <3>2, CopyGap
    <3>3. CASE patch_tmp(t) \/ (patch_rename(t) /\ ~Abort(t)) \/ (forget_file(t) /\ ~Abort(t))
      BY <3>3, RenameGap
    <3>4. CASE (patch_get(t) \/ patch_rename(t) \/ forget_file(t)) /\ Abort(t)
      BY <3>4, MissingGap
    <3>5. CASE \/ forget_index(t) \/ ingest_new(t) \/ get_old(t) \/ ingest_old(t)
               \/ feedback_path(t) \/ feedback_ingest(t) \/ rebuild_walk(t)
               \/ rebuild_commit(t)
      BY <3>5, IndexGap
    <3>6. CASE \/ dedup(t) \/ probe(t) \/ probe_get(t) \/ policy(t)
               \/ queue_lock(t) \/ queue_push(t) \/ queue_take(t)
               \/ commit(t) \/ materialize_skill(t)
               \/ graduate_walk(t) \/ graduate_queue(t) \/ graduate_next(t)
      BY <3>6, GateGap
    <3> QED BY <2>2, <3>1, <3>2, <3>3, <3>4, <3>5, <3>6 DEF Step
  <2>3. CASE Watch \/ Tick \/ UNCHANGED vars
    <3>1. UNCHANGED <<file, tmp, links, gone, pc, call>>
      BY <2>3 DEF Watch, watch_load, watch_apply, Tick, vars, disk, histories
    <3> QED BY <3>1 DEF GapInv, Explained, Superseded, Careful
  <2>4. CASE Crash
    <3>1. /\ UNCHANGED <<file, links, gone>>
          /\ \A id \in Ids : tmp'[id] = NONE
          /\ \A t \in Threads : pc'[t] = "idle"
      BY <2>4 DEF Crash, histories
    <3> QED BY <3>1 DEF GapInv, Explained, Superseded, Careful
  <2> QED BY <2>1, <2>2, <2>3, <2>4 DEF Next
<1>3. GapInv => NoGap
  BY DEF GapInv, Explained, Superseded, NoGap
<1> QED BY <1>1, <1>2, <1>3, TypeCorrect, PTL DEF Spec
===============================================================================
