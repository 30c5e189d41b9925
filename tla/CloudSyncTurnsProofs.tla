-------------------------- MODULE CloudSyncTurnsProofs --------------------------
(* Proofs about CloudSync for devices that take turns: no cycle begins, no file *)
(* is edited and no key is rotated while some worker is in a cycle.             *)
EXTENDS CloudSyncProofs

(***************************************************************************)
(* The invariant: while no cycle has been cut short, the key table opens    *)
(* the slots, and whoever has not seen what is in a slot is going to pull it.*)
(***************************************************************************)

\* One worker is in a cycle at a time.
Turns == \A w, x \in Worker : job[w].pc # "idle" /\ job[x].pc # "idle" => w = x

\* The entries of the manifest.
Sealed == IF manifest = NONE THEN EmptyTable ELSE manifest.table

Placed(t) == \A p \in Known(t) : t[p].blob.path = p
Whole(t) == \A p \in Known(t) : Opens(t[p])

\* The steps at which a cycle changes slots, and may be ahead of the manifest.
Pushing == {"put", "rekey", "rekey_put", "rekey_delete", "publish"}
Ended == {"announce", "save", "idle"}

\* A cycle has the table of the manifest, until it pushes; then its own is whole, and
\* a flag tells that it is another.
TableOK(j) ==
  /\ j.pc \in Pushing =>
       /\ Placed(j.table) /\ Whole(j.table)
       /\ ~j.flag => j.table = Sealed
  /\ j.pc \notin Pushing \cup Ended =>
       j.table = Sealed \/ (j.table = NONE /\ j.pc \notin Tabled)
  /\ j.pc \in {"scan", "push_fetch"} => ~j.flag
  /\ j.pc = "rekey_put" => j.table[j.got.path].blob # blob_name(j.key, j.got.path)
  /\ j.pc = "rekey_delete" =>
       \A n \in j.left : j.table[n.path] # NONE => j.table[n.path].blob # n

TableInv ==
  ~cut =>
    /\ Placed(Sealed)
    /\ (\A w \in Worker : job[w].pc \notin Pushing) => Whole(Sealed)
    /\ \A w \in Worker : TableOK(job[w])

\* A device has had what is in the slot of a path, or its copy has been edited.
Seen(d, t, p) == blobs[t[p].blob].version \in had[d][p]
Dirty(d, s, p) == disk[d][p] # NONE /\ disk[d][p] # s.files[p].hash

\* The table that is to be the manifest's, and what will be announced to be in it.
Announcing == Pushing \cup {"announce"}
Current(j) == IF j.pc \in Announcing THEN j.table ELSE Sealed
Coming(j) == IF j.pc \in Announcing THEN j.puts ELSE {}

\* What a device at rest has not seen it is told of.
Told(d, t, puts) ==
  saved[d] # NONE =>
    \A p \in Known(saved[d].files) \cap Known(t) :
      \/ Seen(d, t, p)
      \/ t[p].blob \in puts \cup NetPuts(Foreign(d, saved[d].cursor))

\* What a cycle has not seen, it is about to see or to replace by an edit.
Unseen(j, d, p) ==
  \/ j.pc \in {"latest", "adopt_fetch"}
  \/ j.pc \in {"adopt", "adopt_write"} /\ p \in j.todo
  \/ j.pc \in {"adopt_write", "pull_write"} /\ j.got.path = p
  \/ j.pc = "ops" /\ Sealed[p].blob \in NetPuts(Foreign(d, j.state.cursor))
  \/ j.pc \in {"pull_fetch", "pull"} /\ Sealed[p].blob \in j.left
  \/ j.pc = "pull_write" /\ j.got.version # NONE /\ Sealed[p].blob \in j.left
  \/ /\ \/ j.pc \in {"ops", "pull_fetch", "pull", "pull_write", "drop", "settle", "scan"}
        \/ j.pc \in {"adopt", "adopt_write"} /\ j.verb # "pull"
     /\ Dirty(d, j.state, p)
  \/ j.pc \in {"push_fetch", "put"} /\ p \in j.todo

SeesOK(j, d) ==
  /\ \A p \in Known(j.state.files) \cap Known(Current(j)) :
       Seen(d, Current(j), p) \/ Unseen(j, d, p)
  /\ j.state.cursor <= Len(log)
  /\ j.pc \in {"scan", "push_fetch"} => j.dels = {}
  /\ j.pc \in {"push_fetch", "put"} =>
       /\ \A p \in j.todo : j.found[p] \in had[d][p]
       /\ \A p \in j.gone \cap Known(Current(j)) : Seen(d, Current(j), p)
  /\ j.pc \in {"adopt_write", "pull_write"} =>
       IF j.got.version = NONE THEN j.state.files[j.got.path] = NONE
       ELSE j.got.version = blobs[Sealed[j.got.path].blob].version
  /\ j.pc = "put" /\ j.todo # {} => j.dels = {}
  /\ j.pc = "rekey_put" => j.got.version = blobs[j.table[j.got.path].blob].version
  /\ j.pc = "rekey_delete" => \A n \in j.left : n.key # j.key
  /\ j.pc \in Announcing => \A n \in j.dels : n.key = j.key => j.table[n.path] = NONE
  /\ j.pc \in Announcing =>
       \A p \in Known(j.table) : j.table[p].blob \notin j.dels
  /\ j.pc = "announce" => \A p \in Known(Sealed) : Sealed[p] = j.table[p]

\* (A manual push reads no operations.)
SeenInv ==
  "push" \notin Verbs /\ ~cut =>
    /\ \A d \in Device : saved[d] # NONE => saved[d].cursor <= Len(log)
    /\ (\A w \in Worker : job[w].pc = "idle") => \A d \in Device : Told(d, Sealed, {})
    /\ \A w \in Worker : job[w].pc # "idle" =>
         /\ SeesOK(job[w], Home[w])
         /\ \A d \in Device \ {Home[w]} : Told(d, Current(job[w]), Coming(job[w]))

(***************************************************************************)
(* What steps share.                                                       *)
(***************************************************************************)

LEMMA SharedTypes ==
  ASSUME IInv
  PROVE  /\ Sealed \in KeyTable
         /\ manifest # NONE => manifest.table = Sealed
         /\ log \in Seq(OpPayload) /\ Len(log) \in Nat
         /\ \A d \in Device : saved[d] # NONE => saved[d] \in SyncState
<1>1. EmptyTable \in KeyTable
  BY DEF EmptyTable, KeyTable, Maybe
<1> QED BY <1>1 DEF IInv, SharedInv, Types, Sealed, Maybe

\* The others are idle.
LEMMA OthersIdle ==
  ASSUME Turns, NEW w \in Worker, job[w].pc # "idle"
  PROVE  \A x \in Worker \ {w} : job[x].pc = "idle"
BY DEF Turns

\* Steps that leave what the claims are about.
LEMMA ToldStays ==
  ASSUME UNCHANGED <<blobs, log, had>>, NEW d, saved'[d] = saved[d],
         NEW t, NEW puts, Told(d, t, puts)
  PROVE  Told(d, t, puts)'
<1>1. NetPuts(Foreign(d, saved[d].cursor))' = NetPuts(Foreign(d, saved[d].cursor))
  BY DEF NetPuts, NetDels, Foreign
<1> QED BY <1>1 DEF Told, Seen

LEMMA SeesStays ==
  ASSUME UNCHANGED <<cloud, disk, had>>, NEW j, NEW d, SeesOK(j, d)
  PROVE  SeesOK(j, d)'
<1>1. NetPuts(Foreign(d, j.state.cursor))' = NetPuts(Foreign(d, j.state.cursor))
  BY DEF NetPuts, NetDels, Foreign, cloud
<1>2. Sealed' = Sealed /\ Current(j)' = Current(j)
  BY DEF Sealed, Current, cloud
<1>3. \A p : Unseen(j, d, p)' = Unseen(j, d, p)
  BY <1>1, <1>2 DEF Unseen, Dirty, cloud
<1>4. \A t, p : Seen(d, t, p)' = Seen(d, t, p)
  BY DEF Seen, cloud
<1> QED BY <1>2, <1>3, <1>4 DEF SeesOK, cloud

LEMMA TableStays ==
  ASSUME UNCHANGED <<blobs, manifest>>
  PROVE  /\ Sealed' = Sealed
         /\ \A t : (Placed(t) => Placed(t)') /\ (Whole(t) => Whole(t)')
         /\ \A j : TableOK(j) => TableOK(j)'
<1>1. Sealed' = Sealed
  BY DEF Sealed
<1>2. \A t : (Placed(t) => Placed(t)') /\ (Whole(t) => Whole(t)')
  BY DEF Placed, Whole, Opens, Known
<1> QED BY <1>1, <1>2 DEF TableOK

\* One worker moves on, or ends.
LEMMA MovesOn ==
  ASSUME Turns, TableInv, SeenInv, JobsInv, NEW w \in Worker, NEW r, Go(w, r),
         \A x \in Worker \ {w} : job[x].pc = "idle",
         Placed(Sealed)', r.pc \notin Pushing => Whole(Sealed)', TableOK(r)',
         "push" \notin Verbs =>
           /\ \A d \in Device : saved'[d] # NONE => saved'[d].cursor <= Len(log')
           /\ r.pc = "idle" => \A d \in Device : Told(d, Sealed, {})'
           /\ r.pc # "idle" =>
                /\ SeesOK(r, Home[w])'
                /\ \A d \in Device \ {Home[w]} : Told(d, Current(r), Coming(r))'
  PROVE  TableInv' /\ SeenInv'
<1>1. job'[w] = r /\ \A x \in Worker \ {w} : job'[x] = job[x]
  BY DEF JobsInv, Go
<1>2. ASSUME NEW x \in Worker PROVE TableOK(job[x])'
  <2>1. CASE x = w
    BY <1>1, <2>1 DEF TableOK
  <2>2. CASE x # w
    BY <1>1, <2>2 DEF TableOK, Pushing, Ended
  <2> QED BY <2>1, <2>2
<1>3. TableInv'
  BY <1>1, <1>2 DEF TableInv
<1>4. ASSUME "push" \notin Verbs, NEW x \in Worker, job'[x].pc # "idle"
      PROVE  /\ SeesOK(job[x], Home[x])'
             /\ \A d \in Device \ {Home[x]} : Told(d, Current(job[x]), Coming(job[x]))'
  <2>1. x = w /\ r.pc # "idle"
    BY <1>1, <1>4
  <2>2. SeesOK(r, Home[w])' /\ \A d \in Device \ {Home[w]} : Told(d, Current(r), Coming(r))'
    BY <1>4, <2>1
  <2>3. SeesOK(job[w], Home[w])'
    BY <1>1, <2>2 DEF SeesOK, Unseen, Current, Dirty
  <2>4. Current(job[w])' = Current(r)' /\ Coming(job[w])' = Coming(r)'
    BY <1>1 DEF Current, Coming
  <2> QED BY <2>1, <2>2, <2>3, <2>4 DEF Told
<1>5. SeenInv'
  BY <1>1, <1>4 DEF SeenInv
<1> QED BY <1>3, <1>5

\* The worker that moves, before it does.
LEMMA Turn ==
  ASSUME IInv, Turns, TableInv, SeenInv, ~cut, NEW w \in Worker, job[w].pc # "idle"
  PROVE  /\ \A x \in Worker \ {w} : job[x].pc = "idle"
         /\ Placed(Sealed) /\ TableOK(job[w])
         /\ job[w].pc \notin Pushing => Whole(Sealed)
         /\ "push" \notin Verbs =>
              /\ \A d \in Device : saved[d] # NONE => saved[d].cursor <= Len(log)
              /\ SeesOK(job[w], Home[w])
              /\ \A d \in Device \ {Home[w]} : Told(d, Current(job[w]), Coming(job[w]))
BY OthersIdle DEF TableInv, SeenInv, Pushing

\* A step that reads.
LEMMA Reads ==
  ASSUME IInv, Turns, TableInv, SeenInv, ~cut, NEW w \in Worker, NEW r, Go(w, r),
         UNCHANGED <<cloud, device, history>>,
         job[w].pc # "idle", job[w].pc \notin Announcing,
         r.pc \notin {"idle", "announce"}, r.pc \in Pushing => r.table = Sealed,
         TableOK(r), "push" \notin Verbs => SeesOK(r, Home[w])
  PROVE  TableInv' /\ SeenInv'
<1>1. UNCHANGED <<blobs, manifest, log, saved, had, disk>>
  BY DEF cloud, device, history
<1>2. Placed(Sealed)' /\ Whole(Sealed)' /\ TableOK(r)'
  <2>1. Placed(Sealed) /\ Whole(Sealed)
    BY Turn DEF Announcing
  <2> QED BY <1>1, <2>1, TableStays
<1>3. ASSUME "push" \notin Verbs
      PROVE  /\ SeesOK(r, Home[w])'
             /\ \A d \in Device \ {Home[w]} : Told(d, Current(r), Coming(r))'
  <2>1. SeesOK(r, Home[w])'
    BY <1>1, <1>3, SeesStays
  <2>2. ASSUME NEW d \in Device \ {Home[w]} PROVE Told(d, Current(r), Coming(r))'
    <3>1. Told(d, Sealed, {})
      BY <1>3, Turn DEF Current, Coming
    <3>2. Current(r) = Sealed
      BY DEF Current, Announcing
    <3>3. PICK t, puts : t = Current(r) /\ puts = Coming(r)
      OBVIOUS
    <3>4. Told(d, t, puts)
      BY <3>1, <3>2, <3>3 DEF Told
    <3>5. Told(d, t, puts)'
      BY <1>1, <3>4, ToldStays
    <3>6. Current(r)' = t /\ Coming(r)' = puts
      BY <1>1, <3>3 DEF Current, Coming, Sealed
    <3> QED BY <3>5, <3>6 DEF Told
  <2> QED BY <2>1, <2>2
<1> QED BY <1>1, <1>2, <1>3, Turn, MovesOn DEF IInv

\* A cycle that is cut short is not spoken of.
LEMMA CutShort == ASSUME cut' PROVE TableInv' /\ SeenInv'
BY DEF TableInv, SeenInv

(***************************************************************************)
(* The steps that read.                                                    *)
(***************************************************************************)

LEMMA TurnLatest ==
  ASSUME IInv, Turns, TableInv, SeenInv, ~cut, NEW w \in Worker, latest_seq(w)
  PROVE  TableInv' /\ SeenInv'
<1>0. PICK j \in Job : j = job[w]
  BY Working
<1> DEFINE d == Home[w]
           s == [j.state EXCEPT !.cursor = Len(log)]
           r == [j EXCEPT !.state = s, !.pc = "adopt_fetch"]
<1>1. /\ j.pc = "latest" /\ Go(w, r) /\ UNCHANGED <<cloud, device, history>>
  BY <1>0 DEF latest_seq
<1>2. s.cursor = Len(log) /\ s.files = j.state.files
  BY DEF Job, SyncState
<1> HIDE DEF s
<1>3. r.pc = "adopt_fetch" /\ r.state = s /\ r.table = j.table
  BY DEF Job
<1> HIDE DEF r
<1>4. TableOK(r)
  BY <1>0, <1>1, <1>3, Turn DEF TableOK, Pushing, Ended, Tabled
<1>5. SeesOK(r, d)
  BY <1>2, <1>3, SharedTypes DEF SeesOK, Unseen, Announcing, Pushing
<1> QED BY <1>0, <1>1, <1>3, <1>4, <1>5, Reads DEF Announcing, Pushing

LEMMA TurnFetch ==
  ASSUME IInv, Turns, TableInv, SeenInv, ~cut, NEW w \in Worker,
         NEW phase \in {"adopt_fetch", "pull_fetch", "push_fetch"},
         NEW next \in {"adopt", "pull", "put"},
         next = "put" <=> phase = "push_fetch", next = "pull" <=> phase = "pull_fetch",
         fetch_table(w, phase, next)
  PROVE  TableInv' /\ SeenInv'
<1>0. PICK j \in Job : j = job[w]
  BY Working
<1> DEFINE d == Home[w]
           todo == IF next = "adopt" THEN Known(Sealed) ELSE j.todo
           r == [j EXCEPT !.table = Sealed, !.pc = next, !.todo = todo]
<1>1. CASE GiveUp(w)
  BY <1>1, CutShort DEF GiveUp
<1>2. CASE ~GiveUp(w)
  <2>1. /\ j.pc = phase /\ Go(w, r) /\ UNCHANGED <<cloud, device, history>>
    BY <1>0, <1>2 DEF fetch_table, Sealed, history
  <2> HIDE DEF todo
  <2>2. /\ r.pc = next /\ r.state = j.state /\ r.table = Sealed /\ r.todo = todo
        /\ r.flag = j.flag /\ r.dels = j.dels /\ r.gone = j.gone /\ r.found = j.found
        /\ r.left = j.left
    BY DEF Job
  <2> HIDE DEF r
  <2>3. Placed(Sealed) /\ Whole(Sealed) /\ TableOK(j)
    BY <1>0, <2>1, Turn DEF Pushing
  <2>4. TableOK(r)
    BY <2>1, <2>2, <2>3 DEF TableOK, Pushing, Ended, Tabled
  <2>5. ASSUME "push" \notin Verbs PROVE SeesOK(r, d)
    <3>1. SeesOK(j, d)
      BY <1>0, <2>1, <2>5, Turn
    <3>2. Current(j) = Sealed /\ Current(r) = Sealed
      BY <2>1, <2>2 DEF Current, Announcing, Pushing
    <3>3. ASSUME NEW p \in Known(r.state.files) \cap Known(Sealed)
          PROVE  Seen(d, Sealed, p) \/ Unseen(r, d, p)
      BY <2>1, <2>2, <3>1, <3>2, <3>3 DEF SeesOK, Unseen, Dirty, todo
    <3> QED BY <2>1, <2>2, <3>1, <3>2, <3>3 DEF SeesOK, Announcing, Pushing, todo
  <2> QED BY <1>0, <2>1, <2>2, <2>4, <2>5, Reads DEF Announcing, Pushing
<1> QED BY <1>1, <1>2

\* An agreement of device d about a path does not disturb what it has seen of others.
LEMMA AgreedSees ==
  ASSUME NEW j \in Job, NEW p \in Path, NEW v \in Version, NEW n \in Name,
         NEW r, r = Agreed(j, p, v, n)
  PROVE  /\ r \in Job /\ r.pc = j.pc /\ r.table = j.table /\ r.todo = j.todo
         /\ r.left = j.left /\ r.flag = j.flag /\ r.verb = j.verb
         /\ r.state.cursor = j.state.cursor /\ r.state.files[p].hash = v
         /\ \A q \in Path \ {p} : r.state.files[q] = j.state.files[q]
<1> DEFINE e == [hash |-> v, blob |-> n]
           s == [j.state EXCEPT !.files[p] = e]
           q == [j EXCEPT !.state = s]
<1>1. j.state \in SyncState
  BY DEF Job
<1>2. e \in Maybe(FileState) /\ e.hash = v
  BY DEF FileState, Maybe
<1> HIDE DEF e
<1>3. /\ s \in SyncState /\ s.cursor = j.state.cursor
      /\ s.files = [j.state.files EXCEPT ![p] = e]
  BY <1>1, <1>2 DEF SyncState
<1>4. s.files[p] = e /\ \A x \in Path \ {p} : s.files[x] = j.state.files[x]
  BY <1>1, <1>3 DEF SyncState
<1>5. r = q
  BY DEF Agreed, e
<1> HIDE DEF s
<1>6. /\ q \in Job /\ q.pc = j.pc /\ q.table = j.table /\ q.todo = j.todo
      /\ q.state = s /\ q.left = j.left /\ q.flag = j.flag /\ q.verb = j.verb
  BY <1>3 DEF Job
<1> HIDE DEF q
<1> QED BY <1>2, <1>3, <1>4, <1>5, <1>6

\* What is to be shown of a cycle that has not compared its files yet.
LEMMA SeesReading ==
  ASSUME NEW r, NEW d, r.pc \notin Announcing \cup {"scan", "push_fetch"},
         r.state.cursor <= Len(log),
         \A p \in Known(r.state.files) \cap Known(Sealed) :
           Seen(d, Sealed, p) \/ Unseen(r, d, p),
         r.pc \in {"adopt_write", "pull_write"} =>
           IF r.got.version = NONE THEN r.state.files[r.got.path] = NONE
           ELSE r.got.version = blobs[Sealed[r.got.path].blob].version
  PROVE  SeesOK(r, d)
BY DEF SeesOK, Current, Announcing, Pushing

\* And what is known of one.
LEMMA SeesRead ==
  ASSUME NEW j, NEW d, SeesOK(j, d), j.pc \notin Announcing
  PROVE  /\ j.state.cursor <= Len(log)
         /\ \A p \in Known(j.state.files) \cap Known(Sealed) :
              Seen(d, Sealed, p) \/ Unseen(j, d, p)
BY DEF SeesOK, Current

LEMMA TurnAdopt ==
  ASSUME IInv, Turns, TableInv, SeenInv, ~cut, NEW w \in Worker, adopt(w)
  PROVE  TableInv' /\ SeenInv'
<1>0. PICK j \in Job : j = job[w]
  BY Working
<1> DEFINE d == Home[w]
<1>1. /\ j.pc = "adopt" /\ UNCHANGED <<cloud, device, parents, sent, had, faults>>
      /\ d \in Device /\ WorkOK(j, d)
  BY <1>0, Working DEF adopt
<1>2. PICK p \in j.todo :
        IF ~Opens(j.table[p])
        THEN GiveUp(w)
        ELSE LET v == blobs[j.table[p].blob].version
                 r == Agreed([j EXCEPT !.todo = @ \ {p}], p, v, j.table[p].blob)
             IN  /\ UNCHANGED <<cut, torn>>
                 /\ IF j.verb = "pull" \/ disk[d][p] = NONE
                    THEN Go(w, [r EXCEPT !.pc = "adopt_write",
                           !.got = [path |-> p, version |-> v, seen |-> disk[d][p]]])
                    ELSE Go(w, r)
  BY <1>0 DEF adopt
<1>3. CASE ~Opens(j.table[p])
  BY <1>2, <1>3, CutShort DEF GiveUp
<1>4. CASE Opens(j.table[p])
  <2> DEFINE n == j.table[p].blob
             v == blobs[n].version
             k == [j EXCEPT !.todo = @ \ {p}]
             r == Agreed(k, p, v, n)
             g == [path |-> p, version |-> v, seen |-> disk[d][p]]
             q == [r EXCEPT !.pc = "adopt_write", !.got = g]
  <2>1. j.table = Sealed /\ TableOK(j)
    BY <1>0, <1>1, Turn DEF TableOK, Pushing, Ended, Tabled
  <2>2. p \in Path /\ Sealed[p] \in Entry
    BY <1>1, <2>1 DEF WorkOK, Job, Tabled, KeyTable, Maybe
  <2>3. n \in Name /\ v \in Version
    BY <1>4, <2>1, <2>2, OpensSent DEF IInv
  <2>4. UNCHANGED history /\ Go(w, IF j.verb = "pull" \/ disk[d][p] = NONE THEN q ELSE r)
    BY <1>1, <1>2, <1>4 DEF history
  <2>5. /\ k \in Job /\ k.pc = j.pc /\ k.table = j.table /\ k.todo = j.todo \ {p}
        /\ k.state = j.state /\ k.verb = j.verb
    BY DEF Job
  <2>6. Seen(d, Sealed, p) <=> v \in had[d][p]
    BY <2>1 DEF Seen
  <2>7. v = blobs[Sealed[p].blob].version
    BY <2>1
  <2> HIDE DEF n, v, k, r
  <2>8. /\ r \in Job /\ r.pc = k.pc /\ r.table = k.table /\ r.todo = k.todo
        /\ r.state.cursor = k.state.cursor /\ r.state.files[p].hash = v /\ r.verb = k.verb
        /\ \A x \in Path \ {p} : r.state.files[x] = k.state.files[x]
    BY <2>2, <2>3, <2>5, AgreedSees DEF r
  <2>9. /\ r.pc = "adopt" /\ r.table = Sealed /\ r.todo = j.todo \ {p}
        /\ r.state.cursor = j.state.cursor /\ r.verb = j.verb
        /\ \A x \in Path \ {p} : r.state.files[x] = j.state.files[x]
    BY <1>1, <2>1, <2>5, <2>8
  <2> HIDE DEF g
  <2>10. /\ q.pc = "adopt_write" /\ q.table = Sealed /\ q.todo = r.todo /\ q.state = r.state
         /\ q.got = g /\ q.verb = r.verb
    BY <2>8, <2>9 DEF Job
  <2>11. g.path = p /\ g.version = v
    BY DEF g
  <2> HIDE DEF q
  <2>12. TableOK(r) /\ TableOK(q)
    BY <2>8, <2>9, <2>10 DEF TableOK, Pushing, Ended
  <2>13. ASSUME "push" \notin Verbs
         PROVE  /\ Go(w, r) => SeesOK(r, d)
                /\ Go(w, q) => SeesOK(q, d)
    <3>1. SeesOK(j, d)
      BY <1>0, <1>1, <2>13, Turn
    <3>2. /\ j.state.cursor <= Len(log)
          /\ \A x \in Known(j.state.files) \cap Known(Sealed) :
               Seen(d, Sealed, x) \/ Unseen(j, d, x)
      BY <1>1, <3>1, SeesRead DEF Announcing, Pushing
    <3>3. ASSUME NEW x \in Known(r.state.files) \cap Known(Sealed), x # p
          PROVE  Seen(d, Sealed, x) \/ (Unseen(r, d, x) /\ Unseen(q, d, x))
      <4>1. x \in Known(j.state.files) /\ x \in Path
        BY <2>9, <3>3 DEF Known
      <4> QED BY <1>1, <2>8, <2>9, <2>10, <3>2, <3>3, <4>1 DEF Unseen, Dirty
    <3>4. Unseen(q, d, p)
      BY <2>7, <2>10, <2>11 DEF Unseen
    <3>5. ASSUME disk[d][p] # NONE, j.verb # "pull" PROVE Seen(d, Sealed, p) \/ Unseen(r, d, p)
      <4>1. CASE disk[d][p] = v
        BY <1>1, <2>2, <2>6, <3>5, <4>1 DEF IInv, SharedInv, LocalOK
      <4>2. CASE disk[d][p] # v
        BY <2>8, <2>9, <3>5, <4>2 DEF Unseen, Dirty
      <4> QED BY <4>1, <4>2
    <3>6. SeesOK(q, d)
      BY <2>3, <2>7, <2>9, <2>10, <2>11, <3>2, <3>3, <3>4, SeesReading, CloudAssumption
         DEF Announcing, Pushing, Version
    <3>7. CASE j.verb = "pull" \/ disk[d][p] = NONE
      <4>1. Go(w, r) => r = q
        BY <2>4, <3>7, <1>0 DEF Go, IInv, JobsInv
      <4> QED BY <3>6, <4>1, <2>8, <2>9, <2>10
    <3>8. CASE ~(j.verb = "pull" \/ disk[d][p] = NONE)
      <4>1. SeesOK(r, d)
        BY <2>8, <2>9, <3>2, <3>3, <3>5, <3>8, SeesReading DEF Announcing, Pushing
      <4> QED BY <3>6, <4>1
    <3> QED BY <3>7, <3>8
  <2>14. Go(w, r) \/ Go(w, q)
    BY <2>4
  <2> QED BY <1>0, <1>1, <2>4, <2>8, <2>9, <2>10, <2>12, <2>13, <2>14, Reads DEF Announcing, Pushing
<1> QED BY <1>3, <1>4

(***************************************************************************)
(* Pull.                                                                   *)
(***************************************************************************)

LEMMA TurnOpsSince ==
  ASSUME IInv, Turns, TableInv, SeenInv, ~cut, NEW w \in Worker, ops_since(w)
  PROVE  TableInv' /\ SeenInv'
<1>0. PICK j \in Job : j = job[w]
  BY Working
<1> DEFINE d == Home[w]
           ops == Foreign(d, j.state.cursor)
           s == [j.state EXCEPT !.cursor = Len(log)]
           flag == \E i \in ops : log[i].manifest
           r == [j EXCEPT !.state = s, !.puts = NetPuts(ops), !.left = NetPuts(ops),
                          !.dels = NetDels(ops), !.flag = flag]
           pc == IF r.puts = {} /\ r.dels = {} /\ ~r.flag THEN "scan" ELSE "pull_fetch"
           q == [r EXCEPT !.pc = pc]
<1>1. Go(w, q) /\ UNCHANGED <<cloud, device, history>> /\ j.pc = "ops"
  BY <1>0 DEF ops_since
<1>2. s.cursor = Len(log) /\ s.files = j.state.files
  BY DEF Job, SyncState
<1> HIDE DEF s, flag, ops
<1>3. /\ r.state = s /\ r.puts = NetPuts(ops) /\ r.left = NetPuts(ops)
      /\ r.dels = NetDels(ops) /\ r.flag = flag /\ r.table = j.table
      /\ q = [r EXCEPT !.pc = pc] /\ \A f : [r EXCEPT !.pc = f].pc = f
  BY DEF Job
<1>4. /\ q.state = s /\ q.left = r.left /\ q.dels = r.dels /\ q.flag = r.flag
      /\ q.table = j.table /\ q.pc = pc
  BY <1>3 DEF Job
<1>5. pc \in {"scan", "pull_fetch"} /\ (pc = "scan" => r.puts = {} /\ r.dels = {} /\ ~r.flag)
  OBVIOUS
<1> HIDE DEF r, pc, q
<1>6. TableOK(q)
  BY <1>0, <1>1, <1>4, <1>5, Turn DEF TableOK, Pushing, Ended, Tabled
<1>7. ASSUME "push" \notin Verbs PROVE SeesOK(q, d)
  <2>1. SeesOK(j, d)
    BY <1>0, <1>1, <1>7, Turn
  <2>2. ASSUME NEW p \in Known(q.state.files) \cap Known(Sealed)
        PROVE  Seen(d, Sealed, p) \/ Unseen(q, d, p)
    <3>1. Seen(d, Sealed, p) \/ Unseen(j, d, p)
      BY <1>1, <1>2, <1>4, <2>1, <2>2, SeesRead DEF Announcing, Pushing
    <3> QED BY <1>1, <1>2, <1>3, <1>4, <1>5, <3>1 DEF Unseen, Dirty, ops
  <2>3. q.state.cursor <= Len(log)
    BY <1>2, <1>4, SharedTypes
  <2> QED BY <1>4, <1>5, <2>2, <2>3 DEF SeesOK, Current, Announcing, Pushing
<1> QED BY <1>0, <1>1, <1>4, <1>5, <1>6, <1>7, Reads DEF Announcing, Pushing

\* A slot has one path.
LEMMA OnePath ==
  ASSUME NEW t, Placed(t), NEW n, NEW p \in PathOf(t, n)
  PROVE  /\ p \in Path /\ t[p] # NONE /\ t[p].blob = n
         /\ \A x \in Known(t) : t[x].blob = n => x = p
BY DEF Placed, PathOf, Known

LEMMA TurnPull ==
  ASSUME IInv, Turns, TableInv, SeenInv, ~cut, NEW w \in Worker, pull(w)
  PROVE  TableInv' /\ SeenInv'
<1>0. PICK j \in Job : j = job[w]
  BY Working
<1> DEFINE d == Home[w]
<1>1. /\ j.pc = "pull" /\ UNCHANGED <<cloud, device, parents, sent, had, faults>>
      /\ d \in Device /\ WorkOK(j, d) /\ j.left \subseteq Name
  BY <1>0, Working DEF pull, Job
<1>2. PICK n \in j.left :
        LET r == [j EXCEPT !.left = @ \ {n}] IN
        IF PathOf(j.table, n) = {}
        THEN Go(w, r) /\ UNCHANGED <<cut, torn>>
        ELSE \E p \in PathOf(j.table, n) :
             IF ~Opens(j.table[p])
             THEN GiveUp(w)
             ELSE LET v == blobs[n].version
                      local == disk[d][p]
                      agreed == Agreed(r, p, v, n)
                  IN  /\ UNCHANGED <<cut, torn>>
                      /\ Go(w, IF local = v THEN agreed
                               ELSE IF Clean(j, local, p)
                               THEN [agreed EXCEPT !.pc = "pull_write",
                                       !.got = [path |-> p, version |-> v, seen |-> local]]
                               ELSE r)
  BY <1>0 DEF pull
<1>3. TableOK(j) /\ j.table = Sealed /\ Placed(Sealed)
  BY <1>0, <1>1, Turn DEF TableOK, Pushing, Ended, Tabled
<1> DEFINE r == [j EXCEPT !.left = @ \ {n}]
<1>4. /\ r \in Job /\ r.pc = "pull" /\ r.table = Sealed /\ r.state = j.state
      /\ r.left = j.left \ {n} /\ r.got = j.got
  BY <1>1, <1>3 DEF Job
<1>5. ASSUME "push" \notin Verbs
      PROVE  /\ j.state.cursor <= Len(log)
             /\ \A x \in Known(j.state.files) \cap Known(Sealed) :
                  Seen(d, Sealed, x) \/ Dirty(d, j.state, x) \/ Sealed[x].blob \in j.left
  <2>1. SeesOK(j, d)
    BY <1>0, <1>1, <1>5, Turn
  <2>2. /\ j.state.cursor <= Len(log)
        /\ \A x \in Known(j.state.files) \cap Known(Sealed) :
             Seen(d, Sealed, x) \/ Unseen(j, d, x)
    BY <1>1, <2>1, SeesRead DEF Announcing, Pushing
  <2> QED BY <1>1, <2>2 DEF Unseen
<1> HIDE DEF r
\* The slot is passed by.
<1>6. ASSUME Go(w, r), UNCHANGED <<cut, torn>>,
             \A x \in Known(j.state.files) \cap Known(Sealed) :
               Sealed[x].blob = n => Seen(d, Sealed, x) \/ Dirty(d, j.state, x)
      PROVE  TableInv' /\ SeenInv'
  <2>1. TableOK(r)
    BY <1>4 DEF TableOK, Pushing, Ended
  <2>2. ASSUME "push" \notin Verbs PROVE SeesOK(r, d)
    <3>1. ASSUME NEW x \in Known(r.state.files) \cap Known(Sealed)
          PROVE  Seen(d, Sealed, x) \/ Unseen(r, d, x)
      BY <1>4, <1>5, <1>6, <2>2, <3>1 DEF Unseen, Dirty
    <3> QED BY <1>4, <1>5, <2>2, <3>1, SeesReading DEF Announcing, Pushing
  <2> QED BY <1>0, <1>1, <1>4, <1>6, <2>1, <2>2, Reads DEF Announcing, Pushing, history
<1>7. ASSUME NEW p \in PathOf(j.table, n), Opens(j.table[p]),
             disk[d][p] = blobs[n].version \/ Clean(j, disk[d][p], p),
             LET v == blobs[n].version
                 local == disk[d][p]
                 agreed == Agreed(r, p, v, n)
             IN  /\ UNCHANGED <<cut, torn>>
                 /\ Go(w, IF local = v THEN agreed
                          ELSE IF Clean(j, local, p)
                          THEN [agreed EXCEPT !.pc = "pull_write",
                                  !.got = [path |-> p, version |-> v, seen |-> local]]
                          ELSE r)
      PROVE  TableInv' /\ SeenInv'
  <2> DEFINE v == blobs[n].version
             local == disk[d][p]
             a == Agreed(r, p, v, n)
             g == [path |-> p, version |-> v, seen |-> local]
             q == [a EXCEPT !.pc = "pull_write", !.got = g]
  <2>1. /\ p \in Path /\ Sealed[p] \in Entry /\ n = Sealed[p].blob
        /\ \A x \in Known(Sealed) : Sealed[x].blob = n => x = p
    <3>1. p \in Path /\ Sealed[p] # NONE /\ n = Sealed[p].blob
      BY <1>3, <1>7, OnePath
    <3>2. Sealed[p] \in Entry
      BY <3>1, SharedTypes DEF KeyTable, Maybe
    <3> QED BY <1>3, <1>7, <3>1, <3>2, OnePath
  <2>2. n \in Name /\ v \in Version
    BY <1>3, <1>7, <2>1, OpensSent DEF IInv
  <2>3. UNCHANGED history /\ ((Go(w, a) /\ local = v) \/ Go(w, q))
    BY <1>1, <1>7 DEF history
  <2>4. local # NONE => local \in had[d][p]
    BY <1>1, <2>1 DEF IInv, SharedInv, LocalOK
  <2>5. v = blobs[Sealed[p].blob].version /\ v # NONE
    BY <2>1, <2>2, CloudAssumption DEF Version
  <2> HIDE DEF v
  <2>6. /\ a \in Job /\ a.pc = r.pc /\ a.table = r.table /\ a.left = r.left
        /\ a.state.cursor = r.state.cursor
        /\ \A x \in Path \ {p} : a.state.files[x] = r.state.files[x]
    BY <1>4, <2>1, <2>2, AgreedSees DEF a
  <2>7. /\ a.state.cursor = j.state.cursor
        /\ \A x \in Path \ {p} : a.state.files[x] = j.state.files[x]
    BY <1>4, <2>6
  <2> HIDE DEF a, g, local
  <2>8. /\ q.pc = "pull_write" /\ q.table = a.table /\ q.state = a.state
        /\ q.left = a.left /\ q.got = g
    BY <2>6 DEF Job
  <2>9. g.path = p /\ g.version = v
    BY DEF g
  <2> HIDE DEF q
  <2>10. TableOK(a) /\ TableOK(q)
    BY <1>4, <2>6, <2>8 DEF TableOK, Pushing, Ended
  <2>11. ASSUME "push" \notin Verbs
         PROVE  (local = v => SeesOK(a, d)) /\ SeesOK(q, d)
    <3>1. ASSUME NEW x \in Known(a.state.files) \cap Known(Sealed), x # p
          PROVE  Seen(d, Sealed, x) \/ (Unseen(a, d, x) /\ Unseen(q, d, x))
      <4>1. x \in Known(j.state.files) /\ x \in Path
        BY <2>7, <3>1 DEF Known
      <4>2. Seen(d, Sealed, x) \/ Dirty(d, j.state, x) \/ Sealed[x].blob \in a.left
        BY <1>4, <1>5, <2>1, <2>6, <2>7, <2>11, <3>1, <4>1
      <4>3. Dirty(d, j.state, x) => Dirty(d, a.state, x)
        BY <2>7, <3>1, <4>1 DEF Dirty
      <4> QED BY <1>4, <2>5, <2>6, <2>8, <2>9, <4>2, <4>3 DEF Unseen
    <3>2. Unseen(q, d, p)
      BY <2>5, <2>8, <2>9 DEF Unseen
    <3>3. local = v => Seen(d, Sealed, p)
      BY <2>4, <2>5 DEF Seen
    <3>4. SeesOK(q, d)
      BY <1>5, <2>5, <2>6, <2>7, <2>8, <2>9, <2>11, <3>1, <3>2, SeesReading DEF Announcing, Pushing
    <3>5. local = v => SeesOK(a, d)
      BY <1>4, <1>5, <2>6, <2>7, <2>11, <3>1, <3>3, SeesReading DEF Announcing, Pushing
    <3> QED BY <3>4, <3>5
  <2>12. CASE Go(w, a) /\ local = v
    BY <1>0, <1>1, <1>4, <2>3, <2>6, <2>10, <2>11, <2>12, Reads DEF Announcing, Pushing
  <2>13. CASE Go(w, q)
    BY <1>0, <1>1, <2>3, <2>8, <2>10, <2>11, <2>13, Reads DEF Announcing, Pushing
  <2> QED BY <2>3, <2>12, <2>13
<1>8. CASE PathOf(j.table, n) = {}
  <2>1. \A x \in Known(Sealed) : Sealed[x].blob # n
    BY <1>3, <1>8 DEF PathOf
  <2> QED BY <1>2, <1>6, <1>8, <2>1 DEF r
<1>9. CASE PathOf(j.table, n) # {}
  <2>1. PICK p \in PathOf(j.table, n) :
             IF ~Opens(j.table[p])
             THEN GiveUp(w)
             ELSE LET v == blobs[n].version
                      local == disk[d][p]
                      agreed == Agreed(r, p, v, n)
                  IN  /\ UNCHANGED <<cut, torn>>
                      /\ Go(w, IF local = v THEN agreed
                               ELSE IF Clean(j, local, p)
                               THEN [agreed EXCEPT !.pc = "pull_write",
                                       !.got = [path |-> p, version |-> v, seen |-> local]]
                               ELSE r)
    BY <1>2, <1>9 DEF r
  <2>2. CASE ~Opens(j.table[p])
    BY <2>1, <2>2, CutShort DEF GiveUp
  <2>3. CASE /\ Opens(j.table[p])
             /\ ~(disk[d][p] = blobs[n].version \/ Clean(j, disk[d][p], p))
    <3>1. \A x \in Known(Sealed) : Sealed[x].blob = n => x = p
      BY <1>3, OnePath
    <3>2. j.state.files[p] # NONE => Dirty(d, j.state, p)
      BY <2>3 DEF Clean, Dirty
    <3>3. Go(w, r) /\ UNCHANGED <<cut, torn>>
      BY <2>1, <2>3
    <3> QED BY <1>6, <3>1, <3>2, <3>3 DEF Known
  <2>4. CASE /\ Opens(j.table[p])
             /\ disk[d][p] = blobs[n].version \/ Clean(j, disk[d][p], p)
    BY <1>7, <2>1, <2>4
  <2> QED BY <2>2, <2>3, <2>4
<1> QED BY <1>8, <1>9

LEMMA TurnPullDone ==
  ASSUME IInv, Turns, TableInv, SeenInv, ~cut, NEW w \in Worker, pull_done(w)
  PROVE  TableInv' /\ SeenInv'
<1>0. PICK j \in Job : j = job[w]
  BY Working
<1> DEFINE d == Home[w]
           r == [j EXCEPT !.left = j.dels, !.puts = {}, !.pc = "drop"]
<1>1. /\ j.pc = "pull" /\ j.left = {} /\ Go(w, r) /\ UNCHANGED <<cloud, device, history>>
  BY <1>0 DEF pull_done
<1>2. r.pc = "drop" /\ r.table = j.table /\ r.state = j.state
  BY DEF Job
<1> HIDE DEF r
<1>3. TableOK(r)
  BY <1>0, <1>1, <1>2, Turn DEF TableOK, Pushing, Ended, Tabled
<1>4. ASSUME "push" \notin Verbs PROVE SeesOK(r, d)
  <2>1. SeesOK(j, d)
    BY <1>0, <1>1, <1>4, Turn
  <2>2. /\ j.state.cursor <= Len(log)
        /\ \A x \in Known(j.state.files) \cap Known(Sealed) :
             Seen(d, Sealed, x) \/ Unseen(j, d, x)
    BY <1>1, <2>1, SeesRead DEF Announcing, Pushing
  <2>3. \A x : Unseen(j, d, x) => Unseen(r, d, x)
    BY <1>1, <1>2 DEF Unseen, Dirty
  <2> QED BY <1>2, <2>2, <2>3, SeesReading DEF Announcing, Pushing
<1> QED BY <1>0, <1>1, <1>2, <1>3, <1>4, Reads DEF Announcing, Pushing

LEMMA TurnDrop ==
  ASSUME IInv, Turns, TableInv, SeenInv, ~cut, NEW w \in Worker, drop(w)
  PROVE  TableInv' /\ SeenInv'
<1> DEFINE j == job[w]
           d == Home[w]
<1>0. j \in Job /\ j = job[w]
  BY Working
<1>1. j.pc = "drop" /\ UNCHANGED <<cloud, device, history>>
  BY DEF drop
<1>2. PICK n \in j.left :
        LET r == [j EXCEPT !.left = @ \ {n}]
            rels == {p \in Known(j.state.files) : j.state.files[p].blob = n}
        IN  IF \A p \in rels : j.table[p] # NONE
            THEN Go(w, r)
            ELSE \E p \in rels :
                 LET forgotten == [r EXCEPT !.state.files[p] = NONE] IN
                 Go(w, IF disk[d][p] # NONE /\ Clean(j, disk[d][p], p)
                       THEN [forgotten EXCEPT !.pc = "pull_write",
                               !.got = [path |-> p, version |-> NONE, seen |-> disk[d][p]]]
                       ELSE forgotten)
  BY DEF drop
<1> HIDE DEF j
<1>3. TableOK(j) /\ j.table = Sealed
  BY <1>0, <1>1, Turn DEF TableOK, Pushing, Ended, Tabled
<1>4. ASSUME "push" \notin Verbs
      PROVE  /\ j.state.cursor <= Len(log)
             /\ \A x \in Known(j.state.files) \cap Known(Sealed) :
                  Seen(d, Sealed, x) \/ Dirty(d, j.state, x)
  <2>1. SeesOK(j, d)
    BY <1>0, <1>1, <1>4, Turn
  <2>2. /\ j.state.cursor <= Len(log)
        /\ \A x \in Known(j.state.files) \cap Known(Sealed) :
             Seen(d, Sealed, x) \/ Unseen(j, d, x)
    BY <1>1, <2>1, SeesRead DEF Announcing, Pushing
  <2> QED BY <1>1, <2>2 DEF Unseen
<1> DEFINE r == [j EXCEPT !.left = @ \ {n}]
<1>5. r \in Job /\ r.pc = "drop" /\ r.table = Sealed /\ r.state = j.state
  BY <1>0, <1>1, <1>3 DEF Job
\* Whatever is forgotten.
<1>6. ASSUME NEW q, Go(w, q), q.table = Sealed, q.state.cursor = j.state.cursor,
             q.pc \in {"drop", "pull_write"},
             \A x \in Known(q.state.files) : q.state.files[x] = j.state.files[x],
             q.pc = "pull_write" => q.got.version = NONE /\ q.state.files[q.got.path] = NONE
      PROVE  TableInv' /\ SeenInv'
  <2>1. TableOK(q)
    BY <1>6 DEF TableOK, Pushing, Ended
  <2>2. ASSUME "push" \notin Verbs PROVE SeesOK(q, d)
    <3>1. ASSUME NEW x \in Known(q.state.files) \cap Known(Sealed)
          PROVE  Seen(d, Sealed, x) \/ Unseen(q, d, x)
      <4>1. x \in Known(j.state.files) /\ q.state.files[x] = j.state.files[x]
        BY <1>6, <3>1 DEF Known
      <4> QED BY <1>4, <1>6, <2>2, <3>1, <4>1 DEF Unseen, Dirty
    <3> QED BY <1>4, <1>6, <2>2, <3>1, SeesReading DEF Announcing, Pushing
  <2> QED BY <1>0, <1>1, <1>6, <2>1, <2>2, Reads DEF Announcing, Pushing
<1> HIDE DEF r
<1>7. CASE Go(w, r)
  BY <1>5, <1>6, <1>7 DEF Known
<1>8. ASSUME NEW p \in Known(j.state.files),
             LET forgotten == [r EXCEPT !.state.files[p] = NONE] IN
             Go(w, IF disk[d][p] # NONE /\ Clean(j, disk[d][p], p)
                   THEN [forgotten EXCEPT !.pc = "pull_write",
                           !.got = [path |-> p, version |-> NONE, seen |-> disk[d][p]]]
                   ELSE forgotten)
      PROVE  TableInv' /\ SeenInv'
  <2> DEFINE s == [j.state EXCEPT !.files[p] = NONE]
             f == [r EXCEPT !.state = s]
             g == [path |-> p, version |-> NONE, seen |-> disk[d][p]]
             q == [f EXCEPT !.pc = "pull_write", !.got = g]
  <2>1. j.state \in SyncState /\ p \in Path
    BY <1>0, <1>8 DEF Job, Known
  <2>2. /\ s.cursor = j.state.cursor
        /\ s.files = [j.state.files EXCEPT ![p] = NONE] /\ s.files[p] = NONE
    BY <2>1 DEF SyncState
  <2>3. \A x \in Known(s.files) : s.files[x] = j.state.files[x]
    BY <2>1, <2>2 DEF SyncState, Known
  <2>4. [r EXCEPT !.state.files[p] = NONE] = f
    BY <1>5
  <2>5. Go(w, f) \/ Go(w, q)
    BY <1>8, <2>4
  <2> HIDE DEF s
  <2>6. f.table = Sealed /\ f.state = s /\ f.pc = "drop"
    BY <1>5 DEF Job
  <2>7. q.table = Sealed /\ q.state = s /\ q.pc = "pull_write" /\ q.got = g
    BY <1>5 DEF Job
  <2>8. g.path = p /\ g.version = NONE
    OBVIOUS
  <2> HIDE DEF f, q, g
  <2>9. CASE Go(w, f)
    BY <1>6, <2>2, <2>3, <2>6, <2>9
  <2>10. CASE Go(w, q)
    BY <1>6, <2>2, <2>3, <2>7, <2>8, <2>10
  <2> QED BY <2>5, <2>9, <2>10
<1> QED BY <1>2, <1>7, <1>8 DEF r

LEMMA TurnDropDone ==
  ASSUME IInv, Turns, TableInv, SeenInv, ~cut, NEW w \in Worker, drop_done(w)
  PROVE  TableInv' /\ SeenInv'
<1>0. PICK j \in Job : j = job[w]
  BY Working
<1> DEFINE d == Home[w]
           pc == IF j.flag THEN "settle" ELSE "scan"
           dels == IF j.flag THEN j.dels ELSE {}
           r == [j EXCEPT !.pc = pc, !.dels = dels]
<1>1. j.pc = "drop" /\ Go(w, r) /\ UNCHANGED <<cloud, device, history>>
  BY <1>0 DEF drop_done
<1>2. /\ pc \in {"settle", "scan"} /\ (pc = "scan" => dels = {} /\ ~j.flag)
  OBVIOUS
<1> HIDE DEF pc, dels
<1>3. /\ r.pc = pc /\ r.table = j.table /\ r.state = j.state /\ r.dels = dels
      /\ r.flag = j.flag
  BY DEF Job
<1> HIDE DEF r
<1>4. TableOK(r)
  BY <1>0, <1>1, <1>2, <1>3, Turn DEF TableOK, Pushing, Ended, Tabled
<1>5. ASSUME "push" \notin Verbs PROVE SeesOK(r, d)
  <2>1. SeesOK(j, d)
    BY <1>0, <1>1, <1>5, Turn
  <2>2. /\ j.state.cursor <= Len(log)
        /\ \A x \in Known(j.state.files) \cap Known(Sealed) :
             Seen(d, Sealed, x) \/ Unseen(j, d, x)
    BY <1>1, <2>1, SeesRead DEF Announcing, Pushing
  <2>3. \A x : Unseen(j, d, x) => Unseen(r, d, x)
    BY <1>1, <1>2, <1>3 DEF Unseen, Dirty
  <2> QED BY <1>2, <1>3, <2>2, <2>3 DEF SeesOK, Current, Announcing, Pushing
<1> QED BY <1>0, <1>1, <1>2, <1>3, <1>4, <1>5, Reads DEF Announcing, Pushing

LEMMA TurnSettle ==
  ASSUME IInv, Turns, TableInv, SeenInv, ~cut, NEW w \in Worker, settle(w)
  PROVE  TableInv' /\ SeenInv'
<1>0. PICK j \in Job : j = job[w]
  BY Working
<1> DEFINE d == Home[w]
           clobbered == {p \in Known(j.state.files) :
                           /\ j.table[p] = NONE
                           /\ j.state.files[p].blob \notin j.dels
                           /\ disk[d][p] # NONE}
           f == [p \in Path |-> IF p \in clobbered THEN NONE ELSE j.state.files[p]]
           s == [j.state EXCEPT !.files = f]
           r == [j EXCEPT !.state = s, !.dels = {}, !.flag = FALSE, !.pc = "scan"]
<1>1. j.pc = "settle" /\ UNCHANGED <<cloud, device, history>> /\ Go(w, r)
  BY <1>0 DEF settle
<1>2. \A p \in Known(f) : f[p] = j.state.files[p]
  BY DEF Known
<1> HIDE DEF f
<1>3. s.cursor = j.state.cursor /\ s.files = f
  BY DEF Job, SyncState
<1> HIDE DEF s
<1>4. r.pc = "scan" /\ r.table = j.table /\ r.state = s /\ r.dels = {} /\ ~r.flag
  BY DEF Job
<1> HIDE DEF r
<1>5. TableOK(r)
  BY <1>0, <1>1, <1>4, Turn DEF TableOK, Pushing, Ended, Tabled
<1>6. ASSUME "push" \notin Verbs PROVE SeesOK(r, d)
  <2>1. SeesOK(j, d)
    BY <1>0, <1>1, <1>6, Turn
  <2>2. /\ j.state.cursor <= Len(log)
        /\ \A x \in Known(j.state.files) \cap Known(Sealed) :
             Seen(d, Sealed, x) \/ Unseen(j, d, x)
    BY <1>1, <2>1, SeesRead DEF Announcing, Pushing
  <2>3. ASSUME NEW x \in Known(r.state.files) \cap Known(Sealed)
        PROVE  Seen(d, Sealed, x) \/ Unseen(r, d, x)
    <3>1. x \in Known(j.state.files) /\ f[x] = j.state.files[x]
      BY <1>2, <1>3, <1>4, <2>3 DEF Known
    <3> QED BY <1>1, <1>3, <1>4, <2>2, <2>3, <3>1 DEF Unseen, Dirty
  <2> QED BY <1>3, <1>4, <2>2, <2>3 DEF SeesOK, Current, Announcing, Pushing
<1> QED BY <1>0, <1>1, <1>4, <1>5, <1>6, Reads DEF Announcing, Pushing

(***************************************************************************)
(* Comparing and writing files.                                            *)
(***************************************************************************)

LEMMA TurnScan ==
  ASSUME IInv, Turns, TableInv, SeenInv, ~cut, NEW w \in Worker, scan(w)
  PROVE  TableInv' /\ SeenInv'
<1>0. PICK j \in Job : j = job[w]
  BY Working
<1> DEFINE d == Home[w]
           changed == {p \in Known(disk[d]) : ~Clean(j, disk[d][p], p)}
           deleted == Deleted(d, j)
           found == [p \in Path |-> IF p \in changed THEN disk[d][p] ELSE NONE]
           pc == IF changed = {} /\ deleted = {} /\ ~Rekeys(j) THEN "save"
                 ELSE IF j.table # NONE THEN "put" ELSE "push_fetch"
           r == [j EXCEPT !.found = found, !.todo = changed, !.gone = deleted, !.pc = pc]
<1>1. j.pc = "scan" /\ Go(w, r) /\ UNCHANGED <<cloud, device, history>> /\ d \in Device
  BY <1>0, Working DEF scan
<1>2. \A p \in changed : p \in Path /\ found[p] \in had[d][p]
  BY <1>1 DEF IInv, SharedInv, LocalOK, Known
<1>3. \A p \in Known(j.state.files) : Dirty(d, j.state, p) <=> p \in changed
  BY DEF Known, Dirty, Clean
<1>4. \A p \in deleted : p \in Known(j.state.files) /\ ~Dirty(d, j.state, p)
  BY DEF Deleted, Dirty
<1>5. /\ pc \in {"save", "put", "push_fetch"} /\ (pc = "save" => changed = {})
      /\ (pc = "put" => j.table # NONE)
  OBVIOUS
<1> HIDE DEF changed, deleted, found, pc
<1>6. /\ r.pc = pc /\ r.table = j.table /\ r.state = j.state /\ r.found = found
      /\ r.todo = changed /\ r.gone = deleted /\ r.flag = j.flag /\ r.dels = j.dels
  BY DEF Job
<1> HIDE DEF r
<1>7. TableOK(j) /\ Placed(Sealed) /\ Whole(Sealed)
  BY <1>0, <1>1, Turn DEF Pushing
<1>8. (pc = "put" => r.table = Sealed) /\ ~j.flag
  BY <1>1, <1>5, <1>6, <1>7 DEF TableOK, Pushing, Ended
<1>9. TableOK(r)
  BY <1>1, <1>5, <1>6, <1>7, <1>8 DEF TableOK, Pushing, Ended, Tabled
<1>10. ASSUME "push" \notin Verbs PROVE SeesOK(r, d)
  <2>1. SeesOK(j, d)
    BY <1>0, <1>1, <1>10, Turn
  <2>2. /\ j.state.cursor <= Len(log) /\ j.dels = {}
        /\ \A x \in Known(j.state.files) \cap Known(Sealed) :
             Seen(d, Sealed, x) \/ Unseen(j, d, x)
    BY <1>1, <2>1 DEF SeesOK, Current, Announcing, Pushing
  <2>3. \A x \in Known(j.state.files) \cap Known(Sealed) : Seen(d, Sealed, x) \/ x \in changed
    BY <1>1, <1>3, <2>2 DEF Unseen
  <2>4. Current(r) = Sealed
    BY <1>5, <1>6, <1>8 DEF Current, Announcing, Pushing
  <2>5. \A p \in deleted \cap Known(Sealed) : Seen(d, Sealed, p)
    BY <1>3, <1>4, <2>3
  <2>6. \A x \in Known(r.state.files) \cap Known(Sealed) :
          Seen(d, Sealed, x) \/ Unseen(r, d, x)
    BY <1>5, <1>6, <2>3 DEF Unseen
  <2> QED BY <1>2, <1>5, <1>6, <1>8, <2>2, <2>4, <2>5, <2>6 DEF SeesOK, Announcing, Pushing
<1> QED BY <1>0, <1>1, <1>5, <1>6, <1>8, <1>9, <1>10, Reads DEF Announcing, Pushing

LEMMA TurnWriteFile ==
  ASSUME IInv, Turns, TableInv, SeenInv, ~cut, NEW w \in Worker, write_file(w)
  PROVE  TableInv' /\ SeenInv'
<1>0. PICK j \in Job : j = job[w]
  BY Working
<1> DEFINE d == Home[w]
           pc == CASE j.pc = "adopt_write" -> "adopt"
                   [] j.pc = "pull_write" /\ j.got.version # NONE -> "pull"
                   [] j.pc = "pull_write" /\ j.got.version = NONE -> "drop"
           r == [j EXCEPT !.got = NONE, !.pc = pc]
<1>1. /\ j.pc \in {"adopt_write", "pull_write"} /\ Go(w, r) /\ d \in Device /\ GotOK(j)
      /\ SetFile(d, j.got.path, j.got.version)
      /\ UNCHANGED <<cloud, saved, key, parents, sent, faults, cut, torn>>
  BY <1>0, Working DEF write_file
<1>2. PICK p \in Path : p = j.got.path
  BY <1>1 DEF GotOK, Holding, Write
<1>3. /\ j.got.version # NONE => j.got.version \in had'[d][p]
      /\ \A e \in Device, x \in Path : had[e][x] \subseteq had'[e][x]
      /\ \A e \in Device \ {d} : had'[e] = had[e]
      /\ \A x \in Path \ {p} : disk'[d][x] = disk[d][x]
  BY <1>1, <1>2 DEF SetFile, IInv, SharedInv, Types
<1>4. /\ pc \in {"adopt", "pull", "drop"} /\ (pc = "adopt" <=> j.pc = "adopt_write")
      /\ (pc = "drop" <=> j.pc = "pull_write" /\ j.got.version = NONE)
  BY <1>1
<1> HIDE DEF pc
<1>5. /\ r.pc = pc /\ r.table = j.table /\ r.state = j.state /\ r.todo = j.todo
      /\ r.left = j.left /\ r.verb = j.verb
  BY DEF Job
<1> HIDE DEF r
<1>6. UNCHANGED <<blobs, manifest, log>>
  BY <1>1 DEF cloud
<1>7. Sealed' = Sealed /\ Placed(Sealed)' /\ Whole(Sealed)' /\ TableOK(r)'
  <2>1. TableOK(j) /\ Placed(Sealed) /\ Whole(Sealed)
    BY <1>0, <1>1, Turn DEF Pushing
  <2>2. TableOK(r)
    BY <1>1, <1>4, <1>5, <2>1 DEF TableOK, Pushing, Ended, Tabled
  <2> QED BY <1>6, <2>1, <2>2, TableStays
<1>8. ASSUME "push" \notin Verbs
      PROVE  /\ \A e \in Device : saved'[e] # NONE => saved'[e].cursor <= Len(log')
             /\ SeesOK(r, d)'
             /\ \A e \in Device \ {d} : Told(e, Current(r), Coming(r))'
  <2>1. /\ SeesOK(j, d) /\ \A e \in Device : saved[e] # NONE => saved[e].cursor <= Len(log)
        /\ \A e \in Device \ {d} : Told(e, Current(j), Coming(j))
    BY <1>0, <1>1, <1>8, Turn
  <2>2. /\ j.state.cursor <= Len(log)
        /\ \A x \in Known(j.state.files) \cap Known(Sealed) :
             Seen(d, Sealed, x) \/ Unseen(j, d, x)
        /\ IF j.got.version = NONE THEN j.state.files[p] = NONE
           ELSE j.got.version = blobs[Sealed[p].blob].version
    BY <1>1, <1>2, <2>1 DEF SeesOK, Current, Announcing, Pushing
  <2>3. ASSUME NEW x \in Known(r.state.files) \cap Known(Sealed)
        PROVE  Seen(d, Sealed, x)' \/ Unseen(r, d, x)'
    <3>1. x \in Path /\ x \in Known(j.state.files) /\ j.state.files[x] # NONE
      BY <1>5, <2>3 DEF Known
    <3>2. Seen(d, Sealed, x) => Seen(d, Sealed, x)'
      BY <1>1, <1>3, <1>6, <1>7, <3>1 DEF Seen
    <3>3. CASE x = p
      BY <1>3, <1>6, <1>7, <2>2, <3>1, <3>3 DEF Seen
    <3>4. CASE x # p
      <4>1. Dirty(d, j.state, x) => Dirty(d, r.state, x)'
        BY <1>3, <1>5, <3>1, <3>4 DEF Dirty
      <4>2. Unseen(j, d, x) => Unseen(r, d, x)'
        BY <1>1, <1>2, <1>4, <1>5, <1>7, <3>4, <4>1 DEF Unseen
      <4> QED BY <2>2, <2>3, <3>1, <3>2, <4>2
    <3> QED BY <3>3, <3>4
  <2>4. SeesOK(r, d)'
    BY <1>4, <1>5, <1>6, <1>7, <2>2, <2>3
       DEF SeesOK, Current, Announcing, Pushing, Known
  <2>5. ASSUME NEW e \in Device \ {d} PROVE Told(e, Current(r), Coming(r))'
    <3>1. Told(e, Sealed, {})
      BY <1>1, <2>1 DEF Current, Coming, Announcing, Pushing
    <3>2. Current(r)' = Sealed /\ Coming(r)' = {}
      BY <1>4, <1>5, <1>7 DEF Current, Coming, Announcing, Pushing
    <3>3. NetPuts(Foreign(e, saved[e].cursor))' = NetPuts(Foreign(e, saved[e].cursor))
      BY <1>1, <1>6 DEF NetPuts, NetDels, Foreign
    <3> QED BY <1>1, <1>3, <1>6, <3>1, <3>2, <3>3 DEF Told, Seen
  <2> QED BY <1>1, <1>6, <2>1, <2>4, <2>5
<1>9. r.pc \notin Pushing /\ r.pc # "idle"
  BY <1>4, <1>5 DEF Pushing
<1> QED BY <1>0, <1>1, <1>7, <1>8, <1>9, Turn, MovesOn DEF IInv

(***************************************************************************)
(* Push.                                                                   *)
(***************************************************************************)

\* A step of a push: what becomes of the slots and the table is to be announced.
LEMMA Pushes ==
  ASSUME IInv, Turns, TableInv, SeenInv, ~cut, NEW w \in Worker, NEW r, Go(w, r),
         UNCHANGED <<log, disk, saved, had>>,
         job[w].pc \in Announcing, r.pc \in Announcing,
         Placed(Sealed)', r.pc = "announce" => Whole(Sealed)', TableOK(r)',
         "push" \notin Verbs =>
           /\ SeesOK(r, Home[w])' /\ job[w].puts \subseteq r.puts
           /\ \A p \in Known(r.table) :
                \/ r.table[p].blob \in r.puts
                \/ /\ job[w].table[p] = r.table[p]
                   /\ blobs'[r.table[p].blob] = blobs[r.table[p].blob]
  PROVE  TableInv' /\ SeenInv'
<1>1. PICK j : j = job[w]
  OBVIOUS
<1>2. j.pc # "idle" /\ r.pc # "idle" /\ (r.pc \notin Pushing => r.pc = "announce")
  BY <1>1 DEF Announcing, Pushing
<1>3. ASSUME "push" \notin Verbs
      PROVE  /\ \A e \in Device : saved'[e] # NONE => saved'[e].cursor <= Len(log')
             /\ \A e \in Device \ {Home[w]} : Told(e, Current(r), Coming(r))'
  <2>1. \A e \in Device : saved[e] # NONE => saved[e].cursor <= Len(log)
    BY <1>1, <1>2, <1>3, Turn
  <2>2. ASSUME NEW e \in Device \ {Home[w]} PROVE Told(e, r.table, r.puts)'
    <3>1. Told(e, j.table, j.puts)
      BY <1>1, <1>2, <1>3, Turn DEF Current, Coming
    <3>2. NetPuts(Foreign(e, saved[e].cursor))' = NetPuts(Foreign(e, saved[e].cursor))
      BY DEF NetPuts, NetDels, Foreign
    <3>3. SUFFICES ASSUME saved[e] # NONE, NEW p \in Known(saved[e].files) \cap Known(r.table)
                   PROVE  \/ Seen(e, r.table, p)'
                          \/ r.table[p].blob \in r.puts \cup NetPuts(Foreign(e, saved[e].cursor))
      BY <3>2 DEF Told, Known
    <3>4. CASE r.table[p].blob \in r.puts
      BY <3>4
    <3>5. CASE r.table[p].blob \notin r.puts
      <4>1. /\ j.table[p] = r.table[p] /\ j.puts \subseteq r.puts
            /\ blobs'[r.table[p].blob] = blobs[r.table[p].blob]
        BY <1>1, <1>3, <3>3, <3>5
      <4>2. p \in Known(j.table)
        BY <3>3, <4>1 DEF Known
      <4> QED BY <3>1, <3>3, <4>1, <4>2 DEF Told, Seen
    <3> QED BY <3>4, <3>5
  <2> QED BY <2>1, <2>2 DEF Current, Coming, Told
<1> QED BY <1>1, <1>2, <1>3, Turn, MovesOn DEF IInv

LEMMA SlotChanges ==
  ASSUME IInv, NEW n \in Name, NEW b, blobs' = [blobs EXCEPT ![n] = b]
  PROVE  blobs'[n] = b /\ \A m \in Name \ {n} : blobs'[m] = blobs[m]
BY DEF IInv, SharedInv, Types

\* What is written to a slot is not nothing.
LEMMA BlobWritten ==
  ASSUME NEW k \in Dek, NEW v \in Version
  PROVE  LET b == [dek |-> k, version |-> v] IN b # NONE /\ b.dek = k /\ b.version = v
<1>1. [dek |-> k, version |-> v] \in [dek : Nat, version : Nat]
  <2>1. k \in Nat /\ v \in Nat
    BY CloudAssumption DEF Version
  <2> QED BY <2>1
<1>2. NONE \notin [dek : Nat, version : Nat]
  BY CloudAssumption
<1> QED BY <1>1, <1>2

\* What is known of a push.
LEMMA SeesPushing ==
  ASSUME NEW j, NEW d, SeesOK(j, d), j.pc \in Announcing
  PROVE  /\ j.state.cursor <= Len(log)
         /\ \A p \in Known(j.state.files) \cap Known(j.table) :
              Seen(d, j.table, p) \/ (j.pc = "put" /\ p \in j.todo)
         /\ \A n \in j.dels : n.key = j.key => j.table[n.path] = NONE
         /\ \A p \in Known(j.table) : j.table[p].blob \notin j.dels
BY DEF SeesOK, Current, Unseen, Announcing, Pushing

\* And what is to be shown of it.
LEMMA SeesPushed ==
  ASSUME NEW j, NEW d, j.pc \in Announcing, UNCHANGED log,
         j.state.cursor <= Len(log),
         \A p \in Known(j.state.files) \cap Known(j.table) :
           Seen(d, j.table, p)' \/ (j.pc = "put" /\ p \in j.todo),
         j.pc = "put" =>
           /\ \A p \in j.todo : j.found[p] \in had'[d][p]
           /\ \A p \in j.gone \cap Known(j.table) : Seen(d, j.table, p)'
           /\ j.todo # {} => j.dels = {},
         j.pc = "rekey_put" => j.got.version = blobs'[j.table[j.got.path].blob].version,
         j.pc = "rekey_delete" => \A n \in j.left : n.key # j.key,
         \A n \in j.dels : n.key = j.key => j.table[n.path] = NONE,
         \A p \in Known(j.table) : j.table[p].blob \notin j.dels,
         j.pc = "announce" => \A p \in Known(Sealed)' : Sealed'[p] = j.table[p]
  PROVE  SeesOK(j, d)'
<1>1. Current(j)' = j.table
  BY DEF Current
<1>2. \A p : j.pc = "put" /\ p \in j.todo => Unseen(j, d, p)'
  BY DEF Unseen
<1> QED BY <1>1, <1>2 DEF SeesOK, Announcing, Pushing, Known

LEMMA TurnPut ==
  ASSUME IInv, Turns, TableInv, SeenInv, ~cut, NEW w \in Worker, put(w)
  PROVE  TableInv' /\ SeenInv'
<1>0. PICK j \in Job : j = job[w]
  BY Working
<1> DEFINE d == Home[w]
<1>1. /\ d \in Device /\ FoundOK(j, d) /\ WorkOK(j, d) /\ j.pc = "put" /\ j.todo # {}
      /\ UNCHANGED <<manifest, log, generation, device, parents, had, faults, cut, torn>>
  BY <1>0, Working DEF put
<1>2. PICK p \in j.todo :
        /\ j.table[p] # NONE \/ UnusedDeks # {}
        /\ LET entry == TableEntry(j.table, j.key, p)
               v == j.found[p]
           IN  /\ blobs' = [blobs EXCEPT ![entry.blob] = [dek |-> entry.dek, version |-> v]]
               /\ sent' = sent \cup {v}
               /\ Go(w, [j EXCEPT !.todo = @ \ {p}, !.found[p] = NONE,
                           !.flag = @ \/ j.table[p] = NONE,
                           !.table[p] = entry,
                           !.puts = @ \cup {entry.blob},
                           !.state.files[p] = [hash |-> v, blob |-> entry.blob]])
  BY <1>0 DEF put
<1>3. PICK v \in Version : v = j.found[p]
  BY <1>1, <1>2 DEF WorkOK, Job, Maybe
<1>4. p \in Path /\ j.table \in KeyTable /\ TableOK(j) /\ Placed(Sealed)
  BY <1>0, <1>1, <1>2, Turn DEF WorkOK, Job, Tabled
<1>5. Placed(j.table) /\ Whole(j.table) /\ (~j.flag => j.table = Sealed)
  BY <1>1, <1>4 DEF TableOK, Pushing
<1>6. PICK entry \in Entry : entry = TableEntry(j.table, j.key, p)
  <2>1. CASE j.table[p] # NONE
    BY <1>4, <2>1 DEF TableEntry, KeyTable, Maybe
  <2>2. CASE j.table[p] = NONE
    <3>1. FreshDek \in Dek
      BY <1>2, <2>2, Minted
    <3>2. blob_name(j.key, p) \in Name
      BY <1>4 DEF Name, blob_name, Job
    <3>3. TableEntry(j.table, j.key, p) \in Entry
      BY <2>2, <3>1, <3>2 DEF TableEntry, Entry
    <3> QED BY <3>3
  <2> QED BY <2>1, <2>2
<1>7. entry.blob \in Name /\ entry.dek \in Dek /\ entry.blob.path = p
  <2>1. CASE j.table[p] # NONE
    BY <1>4, <1>5, <1>6, <2>1 DEF TableEntry, Placed, Known, Entry
  <2>2. CASE j.table[p] = NONE
    BY <1>6, <2>2 DEF TableEntry, Entry, blob_name
  <2> QED BY <2>1, <2>2
<1>8. PICK flag : flag = (j.flag \/ j.table[p] = NONE)
  OBVIOUS
<1> DEFINE b == [dek |-> entry.dek, version |-> v]
           e == [hash |-> v, blob |-> entry.blob]
           s == [j.state EXCEPT !.files[p] = e]
           table == [j.table EXCEPT ![p] = entry]
           found == [j.found EXCEPT ![p] = NONE]
           r == [j EXCEPT !.todo = j.todo \ {p}, !.found = found, !.flag = flag,
                          !.table = table, !.puts = j.puts \cup {entry.blob}, !.state = s]
<1>9. blobs' = [blobs EXCEPT ![entry.blob] = b] /\ Go(w, r)
  BY <1>2, <1>3, <1>6, <1>8
<1>10. b # NONE /\ b.dek = entry.dek /\ b.version = v
  BY <1>7, BlobWritten
<1> HIDE DEF b, e
<1>11. s.cursor = j.state.cursor /\ \A x \in Path \ {p} : s.files[x] = j.state.files[x]
  <2>1. j.state \in SyncState
    BY DEF Job
  <2>2. s.cursor = j.state.cursor /\ s.files = [j.state.files EXCEPT ![p] = e]
    BY <2>1 DEF SyncState
  <2> QED BY <2>1, <2>2 DEF SyncState
<1>12. /\ table[p] = entry /\ \A x \in Path \ {p} : table[x] = j.table[x]
       /\ j.table[p] # NONE => table = j.table
  BY <1>4, <1>6 DEF KeyTable, TableEntry
<1>13. \A x \in Path \ {p} : found[x] = j.found[x]
  BY DEF Job
<1> HIDE DEF s, table, found
<1>14. /\ r.pc = "put" /\ r.table = table /\ r.state = s /\ r.found = found
       /\ r.todo = j.todo \ {p} /\ r.gone = j.gone /\ r.flag = flag /\ r.dels = j.dels
       /\ r.puts = j.puts \cup {entry.blob} /\ r.key = j.key
  BY <1>1 DEF Job
<1> HIDE DEF r
<1>15. blobs'[entry.blob] = b /\ \A m \in Name \ {entry.blob} : blobs'[m] = blobs[m]
  BY <1>7, <1>9, SlotChanges
\* The slots of the others are others.
<1>16. \A x \in Known(table) \ {p} :
         /\ x \in Known(j.table) /\ table[x] = j.table[x]
         /\ table[x].blob \in Name /\ table[x].blob.path = x
         /\ blobs'[table[x].blob] = blobs[table[x].blob]
  <2> SUFFICES ASSUME NEW x \in Known(table) \ {p}
               PROVE  /\ x \in Known(j.table) /\ table[x] = j.table[x]
                      /\ table[x].blob \in Name /\ table[x].blob.path = x
                      /\ blobs'[table[x].blob] = blobs[table[x].blob]
    OBVIOUS
  <2>1. x \in Known(j.table) /\ table[x] = j.table[x]
    BY <1>12 DEF Known
  <2>2. table[x].blob \in Name
    BY <1>4, <2>1 DEF Known, KeyTable, Entry, Maybe
  <2>3. table[x].blob.path = x
    BY <1>5, <2>1 DEF Placed
  <2> QED BY <1>7, <1>15, <2>1, <2>2, <2>3
<1>17. TableOK(r)'
  <2>1. Placed(table)
    BY <1>7, <1>12, <1>16 DEF Placed
  <2>2. Whole(table)'
    BY <1>5, <1>10, <1>12, <1>15, <1>16 DEF Whole, Opens, Known
  <2>3. Sealed' = Sealed
    BY <1>1 DEF Sealed
  <2>4. ~flag => table = Sealed
    BY <1>5, <1>8, <1>12
  <2> QED BY <1>14, <2>1, <2>2, <2>3, <2>4 DEF TableOK, Pushing, Ended, Placed, Known
<1>18. ASSUME "push" \notin Verbs PROVE SeesOK(r, d)'
  <2>1. SeesOK(j, d)
    BY <1>0, <1>1, <1>18, Turn
  <2>2. /\ j.dels = {} /\ \A x \in j.todo : j.found[x] \in had[d][x]
        /\ \A x \in j.gone \cap Known(j.table) : Seen(d, j.table, x)
    BY <1>1, <2>1 DEF SeesOK, Current, Announcing, Pushing
  <2>3. Seen(d, table, p)'
    BY <1>1, <1>2, <1>3, <1>10, <1>12, <1>15, <2>2 DEF Seen
  <2>4. \A x \in Known(table) \ {p} : Seen(d, j.table, x) => Seen(d, table, x)'
    BY <1>1, <1>16 DEF Seen
  <2>5. /\ j.state.cursor <= Len(log)
        /\ \A x \in Known(j.state.files) \cap Known(j.table) : Seen(d, j.table, x) \/ x \in j.todo
    BY <1>1, <2>1, SeesPushing DEF Announcing, Pushing
  <2>6. \A x \in Known(s.files) \cap Known(table) : Seen(d, table, x)' \/ x \in r.todo
    BY <1>11, <1>14, <1>16, <2>3, <2>4, <2>5 DEF Known
  <2>7. \A x \in r.todo : found[x] \in had'[d][x]
    <3>1. j.todo \subseteq Path
      BY DEF Job
    <3> QED BY <1>1, <1>13, <1>14, <2>2, <3>1
  <2>8. \A x \in j.gone \cap Known(table) : Seen(d, table, x)'
    BY <1>16, <2>2, <2>3, <2>4
  <2> QED BY <1>1, <1>11, <1>14, <2>2, <2>5, <2>6, <2>7, <2>8, SeesPushed
          DEF Announcing, Pushing
<1>19. Placed(Sealed)'
  BY <1>1, <1>4 DEF Placed, Sealed, Known
<1> QED BY <1>0, <1>1, <1>9, <1>12, <1>14, <1>16, <1>17, <1>18, <1>19, Pushes
        DEF Announcing, Pushing, device

LEMMA TurnTombstone ==
  ASSUME IInv, Turns, TableInv, SeenInv, ~cut, NEW w \in Worker, tombstone(w)
  PROVE  TableInv' /\ SeenInv'
<1>0. PICK j \in Job : j = job[w]
  BY Working
<1> DEFINE d == Home[w]
<1>1. /\ j.pc = "put" /\ j.todo = {} /\ d \in Device /\ WorkOK(j, d)
      /\ UNCHANGED <<manifest, log, generation, device, history>>
  BY <1>0, Working DEF tombstone
<1>2. PICK p \in j.gone :
        LET r == [j EXCEPT !.gone = @ \ {p}, !.state.files[p] = NONE] IN
        IF j.table[p] = NONE
        THEN Go(w, r) /\ UNCHANGED blobs
        ELSE /\ blobs' = [blobs EXCEPT ![j.table[p].blob] = NONE]
             /\ Go(w, [r EXCEPT !.table[p] = NONE, !.flag = TRUE,
                         !.dels = @ \cup {j.table[p].blob}])
  BY <1>0 DEF tombstone
<1>3. /\ p \in Path /\ j.table \in KeyTable /\ TableOK(j) /\ Placed(Sealed)
      /\ UNCHANGED <<log, disk, saved, had>> /\ Sealed' = Sealed
  BY <1>0, <1>1, <1>2, Turn DEF WorkOK, Job, Tabled, device, history, Sealed
<1>4. Placed(j.table) /\ Whole(j.table) /\ (~j.flag => j.table = Sealed) /\ Placed(Sealed)'
  BY <1>1, <1>3 DEF TableOK, Pushing, Placed, Known
<1> DEFINE s == [j.state EXCEPT !.files[p] = NONE]
           r == [j EXCEPT !.gone = j.gone \ {p}, !.state = s]
<1>5. s.cursor = j.state.cursor /\ \A x \in Known(s.files) : x # p /\ x \in Known(j.state.files)
  <2>1. j.state \in SyncState
    BY <1>0 DEF Job
  <2>2. s.cursor = j.state.cursor /\ s.files = [j.state.files EXCEPT ![p] = NONE]
    BY <2>1 DEF SyncState
  <2> QED BY <2>1, <2>2 DEF SyncState, Known
<1> HIDE DEF s
<1>6. ASSUME "push" \notin Verbs
      PROVE  /\ SeesOK(j, d) /\ j.state.cursor <= Len(log)
             /\ \A x \in Known(j.state.files) \cap Known(j.table) : Seen(d, j.table, x)
             /\ \A n \in j.dels : n.key = j.key => j.table[n.path] = NONE
             /\ \A x \in Known(j.table) : j.table[x].blob \notin j.dels
             /\ \A x \in j.gone \cap Known(j.table) : Seen(d, j.table, x)
  <2>1. SeesOK(j, d)
    BY <1>0, <1>1, <1>6, Turn
  <2>2. \A x \in j.gone \cap Known(j.table) : Seen(d, j.table, x)
    BY <1>1, <2>1 DEF SeesOK, Current, Announcing, Pushing
  <2> QED BY <1>1, <2>1, <2>2, SeesPushing DEF Announcing, Pushing
<1>7. CASE j.table[p] = NONE
  <2>1. Go(w, r) /\ UNCHANGED blobs
    BY <1>2, <1>7 DEF s
  <2>2. /\ r.pc = "put" /\ r.table = j.table /\ r.state = s /\ r.todo = {} /\ r.key = j.key
        /\ r.gone = j.gone \ {p} /\ r.flag = j.flag /\ r.dels = j.dels /\ r.puts = j.puts
    BY <1>0, <1>1 DEF Job
  <2> HIDE DEF r
  <2>3. TableOK(r)'
    BY <1>1, <1>3, <1>4, <2>1, <2>2
       DEF TableOK, Pushing, Ended, Placed, Whole, Known, Opens
  <2>4. ASSUME "push" \notin Verbs PROVE SeesOK(r, d)'
    <3>1. \A x : Seen(d, j.table, x) => Seen(d, j.table, x)'
      BY <1>3, <2>1 DEF Seen
    <3> QED BY <1>3, <1>5, <1>6, <2>2, <2>4, <3>1, SeesPushed DEF Announcing, Pushing, Known
  <2> QED BY <1>0, <1>1, <1>3, <1>4, <2>1, <2>2, <2>3, <2>4, Pushes DEF Announcing, Pushing
<1>8. CASE j.table[p] # NONE
  <2>1. PICK n \in Name : n = j.table[p].blob /\ n.path = p
    <3>1. j.table[p].blob \in Name
      BY <1>3, <1>8 DEF KeyTable, Entry, Maybe
    <3> QED BY <1>3, <1>4, <1>8, <3>1 DEF Placed, Known
  <2> DEFINE table == [j.table EXCEPT ![p] = NONE]
             q == [r EXCEPT !.table = table, !.flag = TRUE, !.dels = j.dels \cup {n}]
  <2>2. Go(w, q) /\ blobs' = [blobs EXCEPT ![n] = NONE]
    BY <1>0, <1>2, <1>8, <2>1 DEF s, Job
  <2>3. /\ \A x \in Known(table) : x # p /\ x \in Known(j.table) /\ table[x] = j.table[x]
        /\ table[p] = NONE
    BY <1>3 DEF KeyTable, Known
  <2> HIDE DEF table
  <2>4. /\ q.pc = "put" /\ q.table = table /\ q.state = s /\ q.todo = {} /\ q.key = j.key
        /\ q.gone = j.gone \ {p} /\ q.flag = TRUE /\ q.dels = j.dels \cup {n} /\ q.puts = j.puts
    BY <1>0, <1>1 DEF Job
  <2> HIDE DEF q
  <2>5. \A m \in Name \ {n} : blobs'[m] = blobs[m]
    BY <2>2, SlotChanges
  <2>6. \A x \in Known(table) :
          /\ table[x].blob # n /\ table[x].blob \in Name
          /\ blobs'[table[x].blob] = blobs[table[x].blob]
    <3> SUFFICES ASSUME NEW x \in Known(table)
                 PROVE  table[x].blob # n /\ table[x].blob \in Name
      BY <2>5
    <3>1. x \in Known(j.table) /\ table[x] = j.table[x] /\ x # p /\ x \in Path
      BY <2>3 DEF Known
    <3>2. table[x].blob \in Name
      BY <1>3, <3>1 DEF Known, KeyTable, Entry, Maybe
    <3> QED BY <1>4, <2>1, <3>1, <3>2 DEF Placed
  <2>7. TableOK(q)'
    <3>1. Placed(table) /\ Whole(table)'
      BY <1>4, <2>3, <2>6 DEF Placed, Whole, Opens, Known
    <3> QED BY <2>4, <3>1 DEF TableOK, Pushing, Ended, Placed, Known
  <2>8. ASSUME "push" \notin Verbs PROVE SeesOK(q, d)'
    <3>1. \A x \in Known(table) : Seen(d, j.table, x) => Seen(d, table, x)'
      BY <1>3, <2>3, <2>6 DEF Seen
    <3>2. \A m \in q.dels : m.key = q.key => table[m.path] = NONE
      <4>1. j.dels \subseteq Name
        BY <1>0 DEF Job
      <4>2. ASSUME NEW m \in j.dels, m.key = j.key PROVE table[m.path] = NONE
        <5>1. m.path \in Path /\ j.table[m.path] = NONE
          BY <1>6, <2>8, <4>1, <4>2 DEF Name
        <5> QED BY <2>3, <5>1 DEF Known
      <4> QED BY <2>1, <2>3, <2>4, <4>2
    <3>3. \A x \in Known(table) : table[x].blob \notin q.dels
      BY <1>6, <2>3, <2>4, <2>6, <2>8
    <3> QED BY <1>3, <1>5, <1>6, <2>3, <2>4, <2>8, <3>1, <3>2, <3>3, SeesPushed
            DEF Announcing, Pushing
  <2> QED BY <1>0, <1>1, <1>3, <1>4, <2>2, <2>3, <2>4, <2>6, <2>7, <2>8, Pushes
          DEF Announcing, Pushing
<1> QED BY <1>7, <1>8

LEMMA TurnRekey ==
  ASSUME IInv, Turns, TableInv, SeenInv, ~cut, NEW w \in Worker, rekey(w)
  PROVE  TableInv' /\ SeenInv'
<1>0. PICK j \in Job : j = job[w]
  BY Working
<1> DEFINE d == Home[w]
           pc == IF j.flag THEN "publish" ELSE "announce"
           r == [j EXCEPT !.pc = pc]
<1>1. /\ (j.pc = "put" /\ j.todo = {}) \/ j.pc = "rekey"
      /\ UNCHANGED <<cloud, device, parents, sent, had, faults>>
      /\ \/ Go(w, r)
         \/ \E p \in Stale(j) :
              \/ GiveUp(w)
              \/ Go(w, [j EXCEPT !.pc = "rekey_put",
                          !.got = [path |-> p, seen |-> NONE,
                                   version |-> blobs[j.table[p].blob].version]])
  BY <1>0 DEF rekey
<1>2. /\ j.pc \in Pushing /\ TableOK(j) /\ Placed(Sealed) /\ Sealed' = Sealed
      /\ UNCHANGED <<log, disk, saved, had, blobs, manifest>>
  BY <1>0, <1>1, Turn DEF Pushing, Sealed, cloud, device
<1>3. Placed(j.table) /\ Whole(j.table) /\ (~j.flag => j.table = Sealed)
  BY <1>2 DEF TableOK
<1>4. ASSUME "push" \notin Verbs
      PROVE  /\ j.state.cursor <= Len(log)
             /\ \A x \in Known(j.state.files) \cap Known(j.table) : Seen(d, j.table, x)
             /\ \A n \in j.dels : n.key = j.key => j.table[n.path] = NONE
             /\ \A x \in Known(j.table) : j.table[x].blob \notin j.dels
  <2>1. SeesOK(j, d)
    BY <1>0, <1>1, <1>4, Turn
  <2> QED BY <1>1, <1>2, <2>1, SeesPushing DEF Announcing
\* Wherever it goes.
<1>5. ASSUME NEW q, Go(w, q), q.pc \in {"publish", "announce", "rekey_put"},
             q.table = j.table, q.state = j.state, q.key = j.key, q.flag = j.flag,
             q.dels = j.dels, q.puts = j.puts, q.pc = "announce" => ~j.flag,
             q.pc = "rekey_put" =>
               /\ j.table[q.got.path].blob # blob_name(j.key, q.got.path)
               /\ q.got.version = blobs[j.table[q.got.path].blob].version
      PROVE  TableInv' /\ SeenInv'
  <2>1. TableOK(q)
    BY <1>3, <1>5 DEF TableOK, Pushing, Ended
  <2>2. TableOK(q)' /\ Placed(Sealed)'
    BY <1>2, <2>1, TableStays
  <2>3. q.pc = "announce" => Whole(Sealed)'
    BY <1>2, <1>3, <1>5, TableStays
  <2>4. ASSUME "push" \notin Verbs PROVE SeesOK(q, d)'
    <3>1. \A x : Seen(d, j.table, x) => Seen(d, j.table, x)'
      BY <1>2 DEF Seen
    <3> QED BY <1>2, <1>3, <1>4, <1>5, <2>4, <3>1, SeesPushed DEF Announcing, Pushing
  <2> QED BY <1>0, <1>2, <1>5, <2>2, <2>3, <2>4, Pushes DEF Announcing, Pushing
<1>6. CASE Go(w, r)
  <2>1. pc \in {"publish", "announce"} /\ (pc = "announce" => ~j.flag)
    OBVIOUS
  <2> HIDE DEF pc
  <2>2. /\ r.pc = pc /\ r.table = j.table /\ r.state = j.state /\ r.key = j.key
        /\ r.flag = j.flag /\ r.dels = j.dels /\ r.puts = j.puts
    BY DEF Job
  <2> HIDE DEF r
  <2> QED BY <1>5, <1>6, <2>1, <2>2
<1>7. CASE GiveUp(w)
  BY <1>7, CutShort DEF GiveUp
<1>8. ASSUME NEW p \in Stale(j),
             Go(w, [j EXCEPT !.pc = "rekey_put",
                       !.got = [path |-> p, seen |-> NONE,
                                version |-> blobs[j.table[p].blob].version]])
      PROVE  TableInv' /\ SeenInv'
  <2> DEFINE g == [path |-> p, seen |-> NONE, version |-> blobs[j.table[p].blob].version]
             q == [j EXCEPT !.pc = "rekey_put", !.got = g]
  <2>1. Go(w, q)
    BY <1>8
  <2>2. g.path = p /\ g.version = blobs[j.table[p].blob].version
    OBVIOUS
  <2> HIDE DEF g
  <2>3. /\ q.pc = "rekey_put" /\ q.table = j.table /\ q.state = j.state /\ q.key = j.key
        /\ q.flag = j.flag /\ q.dels = j.dels /\ q.puts = j.puts /\ q.got = g
    BY DEF Job
  <2> HIDE DEF q
  <2>4. j.table[p].blob # blob_name(j.key, p)
    BY <1>8 DEF Stale
  <2> QED BY <1>5, <2>1, <2>2, <2>3, <2>4
<1> QED BY <1>1, <1>6, <1>7, <1>8

LEMMA TurnRekeyPut ==
  ASSUME IInv, Turns, TableInv, SeenInv, ~cut, NEW w \in Worker, rekey_put(w)
  PROVE  TableInv' /\ SeenInv'
<1>0. PICK j \in Job : j = job[w]
  BY Working
<1> DEFINE d == Home[w]
<1>1. /\ j.pc = "rekey_put" /\ d \in Device /\ GotOK(j) /\ j.table \in KeyTable
      /\ TableOK(j) /\ Placed(Sealed)
      /\ UNCHANGED <<manifest, log, generation, device, history>>
  BY <1>0, Working, Turn DEF rekey_put, WorkOK, Tabled
<1>2. PICK p \in Path : p = j.got.path
  BY <1>1 DEF GotOK, Holding, Write
<1>3. PICK v \in Version : v = j.got.version
  BY <1>1 DEF GotOK, Holding, Write, Maybe
<1>4. PICK old \in Entry : old = j.table[p]
  BY <1>1, <1>2 DEF GotOK, KeyTable, Maybe
<1>5. PICK k \in Dek : k = FreshDek
  <2>1. UnusedDeks # {}
    BY DEF rekey_put
  <2>2. FreshDek \in Dek
    BY <2>1, Minted
  <2> QED BY <2>2
<1>6. PICK n \in Name : n = blob_name(j.key, p) /\ n.key = j.key /\ n.path = p
  <2>1. j.key \in Key
    BY DEF Job
  <2>2. [key |-> j.key, path |-> p] \in Name
    BY <2>1 DEF Name
  <2> QED BY <2>2 DEF blob_name
<1> DEFINE entry == [blob |-> n, dek |-> k]
           b == [dek |-> k, version |-> v]
           e == IF j.state.files[p] = NONE THEN NONE
                ELSE [j.state.files[p] EXCEPT !.blob = n]
           s == [j.state EXCEPT !.files[p] = e]
           table == [j.table EXCEPT ![p] = entry]
           r == [j EXCEPT !.table = table, !.flag = TRUE, !.pc = "rekey_delete",
                          !.puts = j.puts \cup {n}, !.left = {old.blob}, !.state = s]
<1>7. /\ UNCHANGED <<log, disk, saved, had, manifest>> /\ Sealed' = Sealed
      /\ Placed(j.table) /\ Whole(j.table) /\ Placed(Sealed)'
  BY <1>1 DEF TableOK, Pushing, device, history, Sealed, Placed, Known
<1>8. /\ old.blob \in Name /\ old.blob.path = p /\ old.blob # n /\ old.blob.key # j.key
      /\ old # NONE /\ p \in Known(j.table)
  <2>1. old # NONE /\ p \in Known(j.table)
    BY <1>1, <1>2, <1>4 DEF GotOK, Known
  <2>2. old.blob \in Name /\ old.blob.path = p
    BY <1>4, <1>7, <2>1 DEF Placed, Entry
  <2>3. old.blob # n
    BY <1>1, <1>2, <1>4, <1>6 DEF TableOK
  <2>4. old.blob = [key |-> old.blob.key, path |-> p] /\ n = [key |-> j.key, path |-> p]
    BY <1>6, <2>2 DEF Name, blob_name
  <2> QED BY <2>1, <2>2, <2>3, <2>4
<1>9. Go(w, r) /\ blobs' = [blobs EXCEPT ![n] = b]
  <2>1. LET o == [blob |-> blob_name(j.key, p), dek |-> FreshDek] IN
        /\ blobs' = [blobs EXCEPT ![o.blob] = [dek |-> o.dek, version |-> j.got.version]]
        /\ Go(w, [j EXCEPT !.table[p] = o, !.flag = TRUE, !.pc = "rekey_delete",
                    !.puts = @ \cup {o.blob}, !.left = {j.table[p].blob},
                    !.state.files[p] = IF @ = NONE THEN NONE
                                       ELSE [@ EXCEPT !.blob = o.blob]])
    BY <1>0, <1>2 DEF rekey_put
  <2>2. LET o == [blob |-> n, dek |-> k] IN
        /\ blobs' = [blobs EXCEPT ![o.blob] = [dek |-> o.dek, version |-> v]]
        /\ Go(w, [j EXCEPT !.table[p] = o, !.flag = TRUE, !.pc = "rekey_delete",
                    !.puts = @ \cup {o.blob}, !.left = {old.blob},
                    !.state.files[p] = IF @ = NONE THEN NONE
                                       ELSE [@ EXCEPT !.blob = o.blob]])
    BY <1>3, <1>4, <1>5, <1>6, <2>1
  <2> QED BY <2>2
<1>10. b # NONE /\ b.dek = entry.dek /\ b.version = v /\ entry.blob = n
  BY BlobWritten
<1> HIDE DEF b, e, entry
<1>11. /\ s.cursor = j.state.cursor
       /\ \A x \in Known(s.files) : x \in Known(j.state.files)
  <2>1. j.state \in SyncState
    BY DEF Job
  <2>2. s.cursor = j.state.cursor /\ s.files = [j.state.files EXCEPT ![p] = e]
    BY <2>1 DEF SyncState
  <2>3. e # NONE => j.state.files[p] # NONE
    BY DEF e
  <2> QED BY <2>1, <2>2, <2>3 DEF SyncState, Known
<1>12. table[p] = entry /\ \A x \in Path \ {p} : table[x] = j.table[x]
  BY <1>1 DEF KeyTable
<1> HIDE DEF s, table
<1>13. /\ r.pc = "rekey_delete" /\ r.table = table /\ r.state = s /\ r.flag = TRUE
       /\ r.dels = j.dels /\ r.left = {old.blob} /\ r.puts = j.puts \cup {n} /\ r.key = j.key
  BY DEF Job
<1> HIDE DEF r
<1>14. blobs'[n] = b /\ \A m \in Name \ {n} : blobs'[m] = blobs[m]
  BY <1>9, SlotChanges
\* The slots of the others are others.
<1>15. \A x \in Known(table) \ {p} :
         /\ x \in Known(j.table) /\ table[x] = j.table[x]
         /\ table[x].blob \in Name /\ table[x].blob.path = x
         /\ blobs'[table[x].blob] = blobs[table[x].blob]
  <2> SUFFICES ASSUME NEW x \in Known(table) \ {p}
               PROVE  /\ x \in Known(j.table) /\ table[x] = j.table[x]
                      /\ table[x].blob \in Name /\ table[x].blob.path = x
                      /\ blobs'[table[x].blob] = blobs[table[x].blob]
    OBVIOUS
  <2>1. x \in Known(j.table) /\ table[x] = j.table[x]
    BY <1>12 DEF Known
  <2>2. table[x].blob \in Name /\ table[x].blob.path = x
    BY <1>1, <1>7, <2>1 DEF Known, KeyTable, Entry, Maybe, Placed
  <2> QED BY <1>6, <1>14, <2>1, <2>2
<1>16. TableOK(r)'
  <2>1. Placed(table) /\ Whole(table)'
    <3>1. Opens(entry)'
      BY <1>10, <1>14 DEF Opens
    <3> QED BY <1>6, <1>7, <1>10, <1>12, <1>15, <3>1 DEF Placed, Whole, Opens, Known
  <2>2. table[old.blob.path] = entry /\ entry.blob # old.blob
    BY <1>8, <1>10, <1>12
  <2> QED BY <1>13, <2>1, <2>2 DEF TableOK, Pushing, Ended, Placed, Known
<1>17. ASSUME "push" \notin Verbs PROVE SeesOK(r, d)'
  <2>1. SeesOK(j, d)
    BY <1>0, <1>1, <1>17, Turn
  <2>2. /\ j.state.cursor <= Len(log)
        /\ \A x \in Known(j.state.files) \cap Known(j.table) : Seen(d, j.table, x)
        /\ \A m \in j.dels : m.key = j.key => j.table[m.path] = NONE
        /\ \A x \in Known(j.table) : j.table[x].blob \notin j.dels
    BY <1>1, <2>1, SeesPushing DEF Announcing, Pushing
  <2>3. v = blobs[j.table[p].blob].version
    BY <1>1, <1>2, <1>3, <2>1 DEF SeesOK
  <2>4. \A x \in Known(s.files) \cap Known(table) : Seen(d, table, x)'
    <3>1. ASSUME NEW x \in Known(s.files) \cap Known(table), x # p
          PROVE  Seen(d, table, x)'
      BY <1>7, <1>11, <1>15, <2>2, <3>1 DEF Seen
    <3>2. p \in Known(s.files) => Seen(d, table, p)'
      <4>1. p \in Known(s.files) => v \in had[d][p]
        BY <1>8, <1>11, <2>2, <2>3 DEF Seen
      <4> QED BY <1>7, <1>10, <1>12, <1>14, <4>1 DEF Seen
    <3> QED BY <3>1, <3>2
  <2>5. \A m \in j.dels : m.key = j.key => table[m.path] = NONE
    <3>1. ASSUME NEW m \in j.dels, m.key = j.key PROVE table[m.path] = NONE
      <4>1. m.path \in Path /\ j.table[m.path] = NONE
        BY <2>2, <3>1 DEF Name, Job
      <4>2. m.path # p
        BY <1>4, <1>8, <4>1
      <4> QED BY <1>12, <4>1, <4>2
    <3> QED BY <3>1
  <2>6. \A x \in Known(table) : table[x].blob \notin j.dels
    <3>1. n \notin j.dels
      BY <1>4, <1>6, <1>8, <2>2
    <3> QED BY <1>10, <1>12, <1>15, <2>2, <3>1
  <2> QED BY <1>7, <1>8, <1>11, <1>13, <2>2, <2>4, <2>5, <2>6, SeesPushed
          DEF Announcing, Pushing
<1>18. \A x \in Known(table) :
         \/ table[x].blob \in r.puts
         \/ j.table[x] = table[x] /\ blobs'[table[x].blob] = blobs[table[x].blob]
  BY <1>10, <1>12, <1>13, <1>15
<1> QED BY <1>0, <1>1, <1>7, <1>9, <1>13, <1>16, <1>17, <1>18, Pushes
        DEF Announcing, Pushing

LEMMA TurnRekeyDelete ==
  ASSUME IInv, Turns, TableInv, SeenInv, ~cut, NEW w \in Worker, rekey_delete(w)
  PROVE  TableInv' /\ SeenInv'
<1>0. PICK j \in Job : j = job[w]
  BY Working
<1> DEFINE d == Home[w]
           r == [j EXCEPT !.dels = j.dels \cup j.left, !.left = {}, !.got = NONE,
                          !.pc = "rekey"]
<1>1. /\ j.pc = "rekey_delete" /\ d \in Device /\ j.table \in KeyTable
      /\ TableOK(j) /\ Placed(Sealed) /\ Go(w, r)
      /\ blobs' = [n \in Name |-> IF n \in j.left THEN NONE ELSE blobs[n]]
      /\ UNCHANGED <<manifest, log, generation, device, history>>
  BY <1>0, Working, Turn DEF rekey_delete, WorkOK, Tabled
<1>2. /\ UNCHANGED <<log, disk, saved, had, manifest>> /\ Sealed' = Sealed
      /\ Placed(j.table) /\ Whole(j.table) /\ Placed(Sealed)' /\ (~j.flag => j.table = Sealed)
  BY <1>1 DEF TableOK, Pushing, device, history, Sealed, Placed, Known
<1>3. /\ r.pc = "rekey" /\ r.table = j.table /\ r.state = j.state /\ r.flag = j.flag
      /\ r.dels = j.dels \cup j.left /\ r.puts = j.puts /\ r.key = j.key
  BY DEF Job
<1> HIDE DEF r
\* No entry names a slot that goes.
<1>4. \A x \in Known(j.table) :
        /\ j.table[x].blob \notin j.left
        /\ blobs'[j.table[x].blob] = blobs[j.table[x].blob]
  <2> SUFFICES ASSUME NEW x \in Known(j.table)
               PROVE  /\ j.table[x].blob \notin j.left
                      /\ blobs'[j.table[x].blob] = blobs[j.table[x].blob]
    OBVIOUS
  <2>1. x \in Path /\ j.table[x] # NONE /\ j.table[x].blob \in Name /\ j.table[x].blob.path = x
    BY <1>1, <1>2 DEF Known, KeyTable, Entry, Maybe, Placed
  <2>2. j.table[x].blob \notin j.left
    BY <1>1, <2>1 DEF TableOK
  <2> QED BY <1>1, <2>1, <2>2
<1>5. TableOK(r)'
  <2>1. Placed(j.table) /\ Whole(j.table)'
    BY <1>2, <1>4 DEF Whole, Opens, Known
  <2> QED BY <1>2, <1>3, <2>1 DEF TableOK, Pushing, Ended, Placed, Known
<1>6. ASSUME "push" \notin Verbs PROVE SeesOK(r, d)'
  <2>1. SeesOK(j, d)
    BY <1>0, <1>1, <1>6, Turn
  <2>2. /\ j.state.cursor <= Len(log)
        /\ \A x \in Known(j.state.files) \cap Known(j.table) : Seen(d, j.table, x)
        /\ \A m \in j.dels : m.key = j.key => j.table[m.path] = NONE
        /\ \A x \in Known(j.table) : j.table[x].blob \notin j.dels
    BY <1>1, <2>1, SeesPushing DEF Announcing, Pushing
  <2>3. \A m \in j.left : m.key # j.key
    BY <1>1, <2>1 DEF SeesOK
  <2>4. \A x \in Known(j.table) : Seen(d, j.table, x) => Seen(d, j.table, x)'
    BY <1>2, <1>4 DEF Seen
  <2> QED BY <1>2, <1>3, <1>4, <2>2, <2>3, <2>4, SeesPushed DEF Announcing, Pushing
<1> QED BY <1>0, <1>1, <1>2, <1>3, <1>4, <1>5, <1>6, Pushes DEF Announcing, Pushing

LEMMA TurnPublish ==
  ASSUME IInv, Turns, TableInv, SeenInv, ~cut, NEW w \in Worker, publish(w)
  PROVE  TableInv' /\ SeenInv'
<1>0. PICK j \in Job : j = job[w]
  BY Working
<1> DEFINE d == Home[w]
           r == [j EXCEPT !.pc = "announce"]
<1>1. /\ j.pc = "publish" /\ TableOK(j) /\ Go(w, r)
      /\ manifest' = [key |-> j.key, table |-> j.table]
      /\ UNCHANGED <<blobs, log, disk, saved, had>>
  BY <1>0, Turn DEF publish, device, history
<1>2. r.pc = "announce" /\ r.table = j.table /\ r.state = j.state /\ r.dels = j.dels
      /\ r.puts = j.puts /\ r.key = j.key
  BY DEF Job
<1> HIDE DEF r
<1>3. Placed(j.table) /\ Whole(j.table)
  BY <1>1 DEF TableOK, Pushing
<1>4. \A p \in Known(Sealed') : p \in Known(j.table) /\ Sealed'[p] = j.table[p]
  BY <1>1 DEF Sealed, EmptyTable, Known
<1>5. Placed(Sealed)' /\ Whole(Sealed)'
  BY <1>1, <1>3, <1>4 DEF Placed, Whole, Opens, Known
<1>6. TableOK(r)'
  BY <1>2 DEF TableOK, Pushing, Ended
<1>7. ASSUME "push" \notin Verbs PROVE SeesOK(r, d)'
  <2>1. SeesOK(j, d)
    BY <1>0, <1>1, <1>7, Turn
  <2>2. \A x : Seen(d, j.table, x) => Seen(d, j.table, x)'
    BY <1>1 DEF Seen
  <2>3. \A p \in Known(Sealed)' : Sealed'[p] = j.table[p]
    BY <1>4 DEF Known
  <2>4. /\ j.state.cursor <= Len(log)
        /\ \A x \in Known(j.state.files) \cap Known(j.table) : Seen(d, j.table, x)
        /\ \A m \in j.dels : m.key = j.key => j.table[m.path] = NONE
        /\ \A x \in Known(j.table) : j.table[x].blob \notin j.dels
    BY <1>1, <2>1, SeesPushing DEF Announcing, Pushing
  <2> QED BY <1>1, <1>2, <2>2, <2>3, <2>4, SeesPushed DEF Announcing, Pushing
<1>8. UNCHANGED <<log, disk, saved, had>> /\ j.puts \subseteq r.puts
  BY <1>1, <1>2
<1>9. \A p \in Known(r.table) :
        j.table[p] = r.table[p] /\ blobs'[r.table[p].blob] = blobs[r.table[p].blob]
  BY <1>1, <1>2
<1>10. j.pc \in Announcing /\ r.pc \in Announcing
  BY <1>1, <1>2 DEF Announcing, Pushing
<1> QED BY <1>0, <1>1, <1>5, <1>6, <1>7, <1>8, <1>9, <1>10, Pushes

\* A slot that an operation puts, or that was to be pulled and is not deleted by it,
\* is to be pulled.
LEMMA NetPutsGrow ==
  ASSUME IInv, NEW op \in OpPayload, log' = Append(log, op),
         NEW e, NEW c \in Nat, c <= Len(log), NEW n, n \notin op.del,
         (n \in op.put /\ op.by # e) \/ n \in NetPuts(Foreign(e, c))
  PROVE  n \in NetPuts(Foreign(e, c))'
<1> DEFINE L == Len(log)
           F == Foreign(e, c)
           G == {i \in c + 1 .. Len(log') : log'[i].by # e}
<1>1. /\ L \in Nat /\ Len(log') = L + 1 /\ log'[L + 1] = op
      /\ \A i \in 1 .. L : log'[i] = log[i]
  BY SharedTypes
<1>2. F \subseteq c + 1 .. L /\ F \subseteq G
  BY <1>1 DEF Foreign
<1>3. \A i \in G : i \in F \/ (i = L + 1 /\ op.by # e)
  BY <1>1 DEF Foreign
<1>4. op.by # e => L + 1 \in G
  BY <1>1
<1>5. \A i \in F : i \in 1 .. L /\ log'[i] = log[i]
  BY <1>1, <1>2
<1> HIDE DEF F, G
<1>6. Foreign(e, c)' = G
  BY DEF Foreign, G
<1>7. n \in UNION {log'[i].put : i \in G}
  <2>1. CASE n \in op.put /\ op.by # e
    BY <1>1, <1>4, <2>1
  <2>2. CASE n \in NetPuts(F)
    BY <1>2, <1>5, <2>2 DEF NetPuts
  <2> QED BY <2>1, <2>2 DEF F
<1>8. ASSUME NEW i \in G, n \in log'[i].del, \A k \in G : n \in log'[k].put => k <= i
      PROVE  FALSE
  <2>1. i \in F /\ i \in 1 .. L /\ n \in log[i].del
    BY <1>1, <1>3, <1>5, <1>8
  <2>2. \A k \in F : n \in log[k].put => k <= i
    BY <1>2, <1>5, <1>8
  <2>3. n \in NetDels(F)
    BY <2>1, <2>2 DEF NetDels
  <2>4. n \in op.put /\ op.by # e
    BY <2>3 DEF NetPuts, F
  <2>5. L + 1 <= i
    BY <1>1, <1>4, <1>8, <2>4
  <2> QED BY <1>1, <2>1, <2>5
<1>9. NetPuts(Foreign(e, c))' = (UNION {log'[i].put : i \in G}) \
        {m \in UNION {log'[i].del : i \in G} :
           \E i \in G : m \in log'[i].del /\ \A k \in G : m \in log'[k].put => k <= i}
  BY DEF NetPuts, NetDels, Foreign, G
<1> QED BY <1>7, <1>8, <1>9

LEMMA TurnAppendOp ==
  ASSUME IInv, Turns, TableInv, SeenInv, ~cut, NEW w \in Worker, append_op(w)
  PROVE  TableInv' /\ SeenInv'
<1>0. PICK j \in Job : j = job[w]
  BY Working
<1> DEFINE d == Home[w]
           r == [j EXCEPT !.pc = "save"]
           op == [by |-> d, put |-> j.puts, del |-> j.dels, manifest |-> j.flag]
<1>1. /\ j.pc = "announce" /\ d \in Device /\ Go(w, r)
      /\ Placed(Sealed) /\ Whole(Sealed)
      /\ log' = IF j.puts = {} /\ j.dels = {} THEN log ELSE Append(log, op)
      /\ UNCHANGED <<blobs, manifest, saved, had>>
  BY <1>0, Working, Turn DEF append_op, device, history, Pushing
<1>2. r.pc = "save" /\ r.state = j.state
  BY DEF Job
<1>3. op \in OpPayload /\ op.by = d /\ op.put = j.puts /\ op.del = j.dels
  BY <1>1 DEF OpPayload, Job
<1> HIDE DEF r, op
<1>4. Len(log) \in Nat /\ Len(log') \in Nat /\ Len(log) <= Len(log')
  BY <1>1, <1>3, SharedTypes
<1>5. Sealed' = Sealed /\ Placed(Sealed)' /\ Whole(Sealed)' /\ TableOK(r)'
  BY <1>1, <1>2, TableStays DEF TableOK, Pushing, Ended
<1>6. ASSUME "push" \notin Verbs
      PROVE  /\ \A e \in Device : saved'[e] # NONE => saved'[e].cursor <= Len(log')
             /\ SeesOK(r, d)'
             /\ \A e \in Device \ {d} : Told(e, Current(r), Coming(r))'
  <2>1. /\ SeesOK(j, d)
        /\ \A e \in Device : saved[e] # NONE =>
             saved[e].cursor \in Nat /\ saved[e].cursor <= Len(log)
        /\ \A e \in Device \ {d} : Told(e, j.table, j.puts)
    BY <1>0, <1>1, <1>6, Turn, SharedTypes DEF Current, Coming, Announcing, SyncState
  <2>2. /\ j.state.cursor <= Len(log)
        /\ \A x \in Known(j.state.files) \cap Known(j.table) : Seen(d, j.table, x)
        /\ \A x \in Known(j.table) : j.table[x].blob \notin j.dels
        /\ \A x \in Known(Sealed) : Sealed[x] = j.table[x] /\ x \in Known(j.table)
    <3>1. \A x \in Known(Sealed) : Sealed[x] = j.table[x]
      BY <1>1, <2>1 DEF SeesOK
    <3>2. \A x \in Known(Sealed) : x \in Known(j.table)
      BY <3>1 DEF Known
    <3> QED BY <1>1, <2>1, <3>1, <3>2, SeesPushing DEF Announcing
  <2>3. j.state.cursor \in Nat
    BY DEF Job, SyncState
  <2>4. SeesOK(r, d)'
    <3>1. PICK t : t = Sealed
      OBVIOUS
    <3>2. \A x \in Known(j.state.files) \cap Known(t) : Seen(d, t, x)'
      BY <1>1, <2>2, <3>1 DEF Seen
    <3>3. Current(r)' = t /\ j.state.cursor <= Len(log')
      BY <1>2, <1>4, <1>5, <2>2, <2>3, <3>1 DEF Current, Announcing, Pushing
    <3>4. \A x \in Known(j.state.files) \cap Known(Current(r)') : Seen(d, Current(r), x)'
      BY <3>2, <3>3 DEF Seen
    <3> QED BY <1>2, <3>3, <3>4 DEF SeesOK, Announcing, Pushing, Known
  <2>5. ASSUME NEW e \in Device \ {d} PROVE Told(e, Current(r), Coming(r))'
    <3> SUFFICES ASSUME saved[e] # NONE, NEW p \in Known(saved[e].files) \cap Known(Sealed)
                 PROVE  \/ Seen(e, Sealed, p)'
                        \/ Sealed[p].blob \in NetPuts(Foreign(e, saved[e].cursor))'
      BY <1>1, <1>2, <1>5 DEF Told, Current, Coming, Announcing, Pushing, Known, Seen
    <3>1. PICK c \in Nat : c = saved[e].cursor /\ c <= Len(log)
      BY <2>1
    <3> DEFINE n == Sealed[p].blob
    <3>2. n \notin j.dels /\ (Seen(e, Sealed, p) \/ n \in j.puts \cup NetPuts(Foreign(e, c)))
      BY <2>1, <2>2, <3>1 DEF Told, Seen
    <3>3. CASE Seen(e, Sealed, p)
      BY <1>1, <1>5, <3>3 DEF Seen
    <3>4. CASE n \in j.puts \cup NetPuts(Foreign(e, c))
      <4>1. n \in NetPuts(Foreign(e, c))'
        <5>1. CASE log' = log
          <6>1. n \notin j.puts
            BY <1>1, <1>3, <5>1, SharedTypes
          <6> QED BY <3>4, <5>1, <6>1 DEF NetPuts, NetDels, Foreign
        <5>2. CASE log' = Append(log, op)
          BY <1>3, <3>1, <3>2, <3>4, <5>2, NetPutsGrow
        <5> QED BY <1>1, <5>1, <5>2
      <4> QED BY <1>1, <3>1, <4>1 DEF NetPuts, NetDels, Foreign
    <3> QED BY <3>2, <3>3, <3>4
  <2> QED BY <1>1, <1>4, <2>1, <2>4, <2>5
<1> QED BY <1>0, <1>1, <1>2, <1>5, <1>6, Turn, MovesOn DEF IInv, Pushing

\* The end of a cycle, which saves what it has agreed on.
LEMMA Rests ==
  ASSUME IInv, Turns, TableInv, SeenInv, ~cut, NEW w \in Worker, NEW s \in SyncState,
         job[w].pc \in {"adopt", "save"}, Go(w, Idle),
         saved' = [saved EXCEPT ![Home[w]] = s],
         UNCHANGED <<cloud, disk, history>>,
         "push" \notin Verbs =>
           /\ s.cursor <= Len(log)
           /\ \A p \in Known(s.files) \cap Known(Sealed) : Seen(Home[w], Sealed, p)
  PROVE  TableInv' /\ SeenInv'
<1>1. UNCHANGED <<blobs, manifest, log, had>>
  BY DEF cloud, history
<1>2. PICK t : t = Sealed
  OBVIOUS
<1>3. Placed(t) /\ Whole(t) /\ Sealed' = t
  BY <1>1, <1>2, Turn, TableStays DEF Pushing
<1>4. Placed(Sealed)' /\ Whole(Sealed)' /\ TableOK(Idle)'
  BY <1>1, <1>2, <1>3, IdleOK DEF TableOK, Pushing, Ended, Placed, Whole, Opens, Known
<1>5. /\ Home[w] \in Device /\ saved'[Home[w]] = s
      /\ \A e \in Device \ {Home[w]} : saved'[e] = saved[e]
  BY Working DEF IInv, SharedInv, Types
<1>6. ASSUME "push" \notin Verbs
      PROVE  /\ \A e \in Device : saved'[e] # NONE => saved'[e].cursor <= Len(log')
             /\ \A e \in Device : Told(e, Sealed, {})'
  <2>1. /\ \A e \in Device : saved[e] # NONE => saved[e].cursor <= Len(log)
        /\ \A e \in Device \ {Home[w]} : Told(e, t, {})
    BY <1>2, <1>6, Turn DEF Current, Coming, Announcing, Pushing
  <2>2. ASSUME NEW e \in Device PROVE Told(e, t, {})'
    <3>1. CASE e = Home[w]
      <4>1. \A p \in Known(s.files) \cap Known(t) : Seen(e, t, p)'
        BY <1>1, <1>2, <1>6, <3>1 DEF Seen
      <4> QED BY <1>5, <3>1, <4>1 DEF Told, Known
    <3>2. CASE e # Home[w]
      BY <1>1, <1>5, <2>1, <3>2, ToldStays
    <3> QED BY <3>1, <3>2
  <2> QED BY <1>1, <1>3, <1>5, <1>6, <2>1, <2>2 DEF Told, Known, Seen
<1> QED BY <1>4, <1>6, IdleOK, Turn, MovesOn DEF IInv

LEMMA TurnSave ==
  ASSUME IInv, Turns, TableInv, SeenInv, ~cut, NEW w \in Worker, save(w)
  PROVE  TableInv' /\ SeenInv'
<1>0. PICK j \in Job : j = job[w]
  BY Working
<1> DEFINE s == [j.state EXCEPT !.generation = j.key]
<1>1. /\ j.pc = "save" /\ Go(w, Idle) /\ saved' = [saved EXCEPT ![Home[w]] = s]
      /\ UNCHANGED <<cloud, disk, history>>
  BY <1>0 DEF save
<1>2. s \in SyncState /\ s.cursor = j.state.cursor /\ s.files = j.state.files
  BY DEF Job, SyncState
<1> HIDE DEF s
<1>3. ASSUME "push" \notin Verbs
      PROVE  /\ s.cursor <= Len(log)
             /\ \A p \in Known(s.files) \cap Known(Sealed) : Seen(Home[w], Sealed, p)
  <2>1. SeesOK(j, Home[w])
    BY <1>0, <1>1, <1>3, Turn
  <2> QED BY <1>1, <1>2, <2>1 DEF SeesOK, Unseen, Current, Announcing, Pushing
<1> QED BY <1>0, <1>1, <1>2, <1>3, Rests

LEMMA TurnAdoptSave ==
  ASSUME IInv, Turns, TableInv, SeenInv, ~cut, NEW w \in Worker, adopt_save(w)
  PROVE  TableInv' /\ SeenInv'
<1>0. PICK j \in Job : j = job[w]
  BY Working
<1> DEFINE d == Home[w]
           s == j.state
           r == [j EXCEPT !.table = NONE, !.pc = "ops"]
<1>1. /\ j.pc = "adopt" /\ j.todo = {} /\ saved' = [saved EXCEPT ![d] = s]
      /\ Go(w, IF j.verb = "pull" THEN Idle ELSE r)
      /\ UNCHANGED <<cloud, disk, history>> /\ d \in Device
  BY <1>0, Working DEF adopt_save
<1>2. s \in SyncState
  BY DEF Job
<1>3. ASSUME "push" \notin Verbs
      PROVE  /\ s.cursor <= Len(log)
             /\ \A p \in Known(s.files) \cap Known(Sealed) :
                  Seen(d, Sealed, p) \/ (j.verb # "pull" /\ Dirty(d, s, p))
  <2>1. SeesOK(j, d)
    BY <1>0, <1>1, <1>3, Turn
  <2> QED BY <1>1, <2>1 DEF SeesOK, Unseen, Current, Announcing, Pushing
<1>4. CASE j.verb = "pull"
  BY <1>0, <1>1, <1>2, <1>3, <1>4, Rests
<1>5. CASE j.verb # "pull"
  <2>1. r.pc = "ops" /\ r.state = s /\ r.table = NONE
    BY DEF Job
  <2> HIDE DEF r
  <2>2. UNCHANGED <<blobs, manifest, log, had, disk>> /\ Sealed' = Sealed
    BY <1>1 DEF cloud, history, Sealed
  <2>3. Placed(Sealed)' /\ Whole(Sealed)' /\ TableOK(r)'
    <3>1. Placed(Sealed) /\ Whole(Sealed)
      BY <1>0, <1>1, Turn DEF Pushing
    <3>2. TableOK(r)
      BY <2>1 DEF TableOK, Pushing, Ended, Tabled
    <3> QED BY <2>2, <3>1, <3>2, TableStays
  <2>4. saved'[d] = s /\ \A e \in Device \ {d} : saved'[e] = saved[e]
    BY <1>1 DEF IInv, SharedInv, Types
  <2>5. ASSUME "push" \notin Verbs
        PROVE  /\ \A e \in Device : saved'[e] # NONE => saved'[e].cursor <= Len(log')
               /\ SeesOK(r, d)'
               /\ \A e \in Device \ {d} : Told(e, Current(r), Coming(r))'
    <3>1. PICK t : t = Sealed
      OBVIOUS
    <3>2. /\ \A e \in Device : saved[e] # NONE => saved[e].cursor <= Len(log)
          /\ \A e \in Device \ {d} : Told(e, t, {})
      BY <1>0, <1>1, <2>5, <3>1, Turn DEF Current, Coming, Announcing, Pushing
    <3>3. SeesOK(r, d)
      <4>1. ASSUME NEW x \in Known(r.state.files) \cap Known(Sealed)
            PROVE  Seen(d, Sealed, x) \/ Unseen(r, d, x)
        BY <1>3, <1>5, <2>1, <2>5, <4>1 DEF Unseen
      <4> QED BY <1>3, <2>1, <2>5, <4>1, SeesReading DEF Announcing, Pushing
    <3>4. SeesOK(r, d)'
      BY <1>1, <2>2, <3>3, SeesStays
    <3>5. \A e \in Device \ {d} : Told(e, t, {})'
      BY <2>2, <2>4, <3>2, ToldStays
    <3>6. Current(r)' = t /\ Coming(r)' = {}
      BY <2>1, <2>2, <3>1 DEF Current, Coming, Announcing, Pushing
    <3> QED BY <1>3, <2>2, <2>4, <2>5, <3>2, <3>4, <3>5, <3>6 DEF Told
  <2> QED BY <1>0, <1>1, <1>5, <2>1, <2>3, <2>5, Turn, MovesOn DEF IInv, Pushing
<1> QED BY <1>4, <1>5

(***************************************************************************)
(* What begins only while nobody is in a cycle.                            *)
(***************************************************************************)

\* Everybody is at rest.
LEMMA Resting ==
  ASSUME TableInv, SeenInv, ~cut, \A w \in Worker : job[w].pc = "idle"
  PROVE  /\ Placed(Sealed) /\ Whole(Sealed)
         /\ "push" \notin Verbs => \A d \in Device :
              (saved[d] # NONE => saved[d].cursor <= Len(log)) /\ Told(d, Sealed, {})
BY DEF TableInv, SeenInv, Pushing

LEMMA TurnStart ==
  ASSUME ~Overlap, IInv, Turns, TableInv, SeenInv, ~cut, NEW w \in Worker,
         NEW verb \in Verbs, start(w, verb)
  PROVE  TableInv' /\ SeenInv'
<1> DEFINE d == Home[w]
<1>1. \A x \in Worker : job[x].pc = "idle"
  BY DEF start, Apart
<1>2. PICK k : k \in SessionKeys(d) /\
        Go(w, [Idle EXCEPT
            !.verb = verb, !.key = k,
            !.state = IF saved[d] = NONE THEN NewState(k) ELSE saved[d],
            !.pc = CASE verb = "push" -> "scan"
                     [] verb = "pull" -> "adopt_fetch"
                     [] verb = "cycle" /\ saved[d] = NONE -> "latest"
                     [] verb = "cycle" /\ saved[d] # NONE -> "ops"])
  BY DEF start
<1>3. UNCHANGED <<blobs, manifest, log, disk, saved, had>> /\ UNCHANGED cloud
  BY DEF start, cloud, history
<1>4. PICK s : s = IF saved[d] = NONE THEN NewState(k) ELSE saved[d]
  OBVIOUS
<1>5. verb \in {"cycle", "push", "pull"} /\ d \in Device
  BY CloudAssumption
<1>6. PICK pc \in {"scan", "adopt_fetch", "latest", "ops"} :
        /\ pc = CASE verb = "push" -> "scan"
                  [] verb = "pull" -> "adopt_fetch"
                  [] verb = "cycle" /\ saved[d] = NONE -> "latest"
                  [] verb = "cycle" /\ saved[d] # NONE -> "ops"
        /\ pc = "scan" => verb = "push"
        /\ pc = "ops" => s = saved[d] /\ saved[d] # NONE
  BY <1>4, <1>5
<1> DEFINE r == [Idle EXCEPT !.verb = verb, !.key = k, !.state = s, !.pc = pc]
<1>7. /\ Go(w, r)
      /\ saved[d] = NONE => s.cursor = 0 /\ Len(log) \in Nat
      /\ saved[d] # NONE => s = saved[d]
  BY <1>2, <1>4, <1>6, SharedTypes DEF NewState
<1>8. r.pc = pc /\ r.state = s /\ r.table = NONE /\ r.flag = FALSE /\ r.verb = verb
  BY DEF Idle
<1> HIDE DEF r
<1>9. Placed(Sealed)' /\ Whole(Sealed)' /\ TableOK(r)'
  <2>1. Placed(Sealed) /\ Whole(Sealed)
    BY <1>1, Resting
  <2>2. TableOK(r)
    BY <1>6, <1>8 DEF TableOK, Pushing, Ended, Tabled
  <2> QED BY <1>3, <2>1, <2>2, TableStays
<1>10. ASSUME "push" \notin Verbs
       PROVE  /\ \A e \in Device : saved'[e] # NONE => saved'[e].cursor <= Len(log')
              /\ SeesOK(r, d)'
              /\ \A e \in Device \ {d} : Told(e, Current(r), Coming(r))'
  <2>1. PICK t : t = Sealed
    OBVIOUS
  <2>2. \A e \in Device : (saved[e] # NONE => saved[e].cursor <= Len(log)) /\ Told(e, t, {})
    BY <1>1, <1>10, <2>1, Resting
  <2>3. pc # "scan" /\ s.cursor <= Len(log)
    BY <1>5, <1>6, <1>7, <1>10, <2>2
  <2>4. ASSUME NEW x \in Known(r.state.files) \cap Known(Sealed)
        PROVE  Seen(d, Sealed, x) \/ Unseen(r, d, x)
    <3>1. CASE pc = "ops"
      BY <1>5, <1>6, <1>8, <2>1, <2>2, <2>4, <3>1 DEF Told, Unseen
    <3>2. CASE pc # "ops"
      BY <1>6, <1>8, <2>3, <3>2 DEF Unseen
    <3> QED BY <3>1, <3>2
  <2>5. SeesOK(r, d)
    BY <1>6, <1>8, <2>3, <2>4, SeesReading DEF Announcing, Pushing
  <2>6. SeesOK(r, d)'
    BY <1>3, <2>5, SeesStays
  <2>7. \A e \in Device : Told(e, t, {})'
    BY <1>3, <2>2, ToldStays
  <2>8. Current(r)' = t /\ Coming(r)' = {}
    BY <1>3, <1>6, <1>8, <2>1 DEF Current, Coming, Announcing, Pushing, Sealed
  <2> QED BY <1>3, <2>2, <2>6, <2>7, <2>8 DEF Told
<1> QED BY <1>1, <1>6, <1>7, <1>8, <1>9, <1>10, MovesOn DEF IInv, Pushing

\* Nobody moves, and devices and slots that were in order still are.
LEMMA Pauses ==
  ASSUME ~cut, \A w \in Worker : job[w].pc = "idle", job' = job, TableInv, SeenInv,
         UNCHANGED <<blobs, saved>>,
         \A p \in Known(Sealed)' : p \in Known(Sealed) /\ Sealed'[p] = Sealed[p],
         Len(log) \in Nat, Len(log') \in Nat, Len(log) <= Len(log'),
         \A d \in Device : saved[d] # NONE => saved[d].cursor \in Nat,
         \A d \in Device, p \in Path : had[d][p] \subseteq had'[d][p],
         \A d \in Device, c \in Nat : c <= Len(log) =>
           NetPuts(Foreign(d, c)) \subseteq NetPuts(Foreign(d, c))'
  PROVE  TableInv' /\ SeenInv'
<1>1. Placed(Sealed)' /\ Whole(Sealed)'
  <2>1. Placed(Sealed) /\ Whole(Sealed)
    BY Resting
  <2> QED BY <2>1 DEF Placed, Whole, Opens, Known
<1>2. \A w \in Worker : TableOK(job[w])'
  BY DEF TableOK, Pushing, Ended
<1>3. TableInv'
  BY <1>1, <1>2 DEF TableInv
<1>4. ASSUME "push" \notin Verbs, NEW d \in Device
      PROVE  (saved[d] # NONE => saved[d].cursor <= Len(log')) /\ Told(d, Sealed, {})'
  <2>1. (saved[d] # NONE => saved[d].cursor <= Len(log)) /\ Told(d, Sealed, {})
    BY <1>4, Resting
  <2>2. ASSUME saved[d] # NONE, NEW p \in Known(saved[d].files) \cap Known(Sealed)'
        PROVE  \/ Seen(d, Sealed, p)'
               \/ Sealed'[p].blob \in NetPuts(Foreign(d, saved[d].cursor))'
    <3>1. p \in Path /\ p \in Known(Sealed) /\ Sealed'[p] = Sealed[p]
      BY <2>2 DEF Known
    <3>2. PICK c \in Nat : c = saved[d].cursor /\ c <= Len(log)
      BY <2>1, <2>2
    <3>3. CASE Seen(d, Sealed, p)
      BY <3>1, <3>3 DEF Seen
    <3>4. CASE Sealed[p].blob \in NetPuts(Foreign(d, c))
      <4>1. Sealed'[p].blob \in NetPuts(Foreign(d, c))'
        BY <3>1, <3>2, <3>4
      <4> QED BY <3>2, <4>1 DEF NetPuts, NetDels, Foreign
    <3> QED BY <2>1, <2>2, <3>1, <3>2, <3>3, <3>4 DEF Told
  <2>3. Told(d, Sealed, {})'
    BY <2>2 DEF Told, Known
  <2> QED BY <2>1, <2>3
<1>5. SeenInv'
  BY <1>4 DEF SeenInv
<1> QED BY <1>3, <1>5

LEMMA LogStays ==
  ASSUME UNCHANGED log, NEW d, NEW c
  PROVE  NetPuts(Foreign(d, c)) \subseteq NetPuts(Foreign(d, c))'
<1>1. NetPuts(Foreign(d, c))' = NetPuts(Foreign(d, c))
  BY DEF NetPuts, NetDels, Foreign
<1> QED BY <1>1

LEMMA TurnEdit ==
  ASSUME ~Overlap, IInv, TableInv, SeenInv, ~cut, NEW d \in Device, NEW p \in Path,
         edit(d, p) \/ remove(d, p)
  PROVE  TableInv' /\ SeenInv'
<1>1. /\ \A w \in Worker : job[w].pc = "idle"
      /\ UNCHANGED <<blobs, saved, manifest, log, job>>
      /\ \E v : SetFile(d, p, v)
  BY DEF edit, remove, Apart, cloud
<1>2. \A e \in Device, x \in Path : had[e][x] \subseteq had'[e][x]
  BY <1>1 DEF SetFile, IInv, SharedInv, Types
<1>3. Sealed' = Sealed
  BY <1>1 DEF Sealed
<1>4. \A e \in Device : saved[e] # NONE => saved[e].cursor \in Nat
  BY SharedTypes DEF SyncState
<1>5. \A e \in Device, c \in Nat : NetPuts(Foreign(e, c)) \subseteq NetPuts(Foreign(e, c))'
  BY <1>1, LogStays
<1>6. \A x \in Known(Sealed)' : x \in Known(Sealed) /\ Sealed'[x] = Sealed[x]
  BY <1>3 DEF Known
<1> QED BY <1>1, <1>2, <1>4, <1>5, <1>6, SharedTypes, Pauses

LEMMA TurnRotate ==
  ASSUME ~Overlap, IInv, TableInv, SeenInv, ~cut, NEW d \in Device, rotate(d)
  PROVE  TableInv' /\ SeenInv'
<1> DEFINE op == [by |-> d, put |-> {}, del |-> {}, manifest |-> TRUE]
<1>1. /\ \A w \in Worker : job[w].pc = "idle"
      /\ UNCHANGED <<blobs, saved, job, had>>
      /\ \/ UNCHANGED <<manifest, log>>
         \/ /\ manifest # NONE /\ manifest' = [manifest EXCEPT !.key = generation + 1]
            /\ log' = Append(log, op)
  BY DEF rotate, Apart, history
<1>2. op \in OpPayload /\ op.put = {} /\ op.del = {}
  BY DEF OpPayload
<1> HIDE DEF op
<1>3. Len(log) \in Nat /\ Len(log') \in Nat /\ Len(log) <= Len(log')
  BY <1>1, <1>2, SharedTypes
<1>4. ASSUME NEW x \in Known(Sealed)' PROVE x \in Known(Sealed) /\ Sealed'[x] = Sealed[x]
  <2>1. CASE UNCHANGED manifest
    BY <1>4, <2>1 DEF Known, Sealed
  <2>2. CASE manifest # NONE /\ manifest' = [manifest EXCEPT !.key = generation + 1]
    <3>1. manifest \in [key : Key, table : KeyTable]
      BY <2>2 DEF IInv, SharedInv, Types, Maybe
    <3>2. manifest'.table = manifest.table /\ Sealed = manifest.table
      BY <2>2, <3>1 DEF Sealed
    <3> QED BY <1>4, <3>2 DEF Known, Sealed, EmptyTable
  <2> QED BY <1>1, <2>1, <2>2
<1>5. ASSUME NEW e \in Device, NEW c \in Nat, c <= Len(log)
      PROVE  NetPuts(Foreign(e, c)) \subseteq NetPuts(Foreign(e, c))'
  <2>1. CASE UNCHANGED log
    BY <2>1, LogStays
  <2>2. CASE log' = Append(log, op)
    BY <1>2, <1>5, <2>2, NetPutsGrow
  <2> QED BY <1>1, <2>1, <2>2
<1>6. \A e \in Device : saved[e] # NONE => saved[e].cursor \in Nat
  BY SharedTypes DEF SyncState
<1> QED BY <1>1, <1>3, <1>4, <1>5, <1>6, Pauses

(***************************************************************************)
(* The invariant.                                                          *)
(***************************************************************************)

LEMMA TurnSteps ==
  ASSUME IInv, Turns, TableInv, SeenInv, ~cut, NEW w \in Worker, step(w)
  PROVE  TableInv' /\ SeenInv'
<1>1. CASE latest_seq(w)
  BY <1>1, TurnLatest
<1>2. CASE fetch_table(w, "adopt_fetch", "adopt")
  BY <1>2, TurnFetch
<1>3. CASE fetch_table(w, "pull_fetch", "pull")
  BY <1>3, TurnFetch
<1>4. CASE fetch_table(w, "push_fetch", "put")
  BY <1>4, TurnFetch
<1>5. CASE adopt(w) \/ adopt_save(w)
  BY <1>5, TurnAdopt, TurnAdoptSave
<1>6. CASE ops_since(w) \/ pull(w) \/ pull_done(w)
  BY <1>6, TurnOpsSince, TurnPull, TurnPullDone
<1>7. CASE drop(w) \/ drop_done(w) \/ write_file(w) \/ settle(w) \/ scan(w)
  BY <1>7, TurnDrop, TurnDropDone, TurnWriteFile, TurnSettle, TurnScan
<1>8. CASE put(w) \/ tombstone(w)
  BY <1>8, TurnPut, TurnTombstone
<1>9. CASE rekey(w) \/ rekey_put(w) \/ rekey_delete(w)
  BY <1>9, TurnRekey, TurnRekeyPut, TurnRekeyDelete
<1>10. CASE publish(w) \/ append_op(w) \/ save(w)
  BY <1>10, TurnPublish, TurnAppendOp, TurnSave
<1> QED BY <1>1, <1>2, <1>3, <1>4, <1>5, <1>6, <1>7, <1>8, <1>9, <1>10 DEF step

\* A cycle takes a step only once it has begun.
LEMMA StepGoes ==
  ASSUME NEW w \in Worker, step(w)
  PROVE  job[w].pc # "idle" /\ \E r : Go(w, r)
<1>1. CASE latest_seq(w) \/ adopt_save(w) \/ ops_since(w) \/ pull_done(w)
  BY <1>1 DEF latest_seq, adopt_save, ops_since, pull_done
<1>2. ASSUME NEW phase \in {"adopt_fetch", "pull_fetch", "push_fetch"}, NEW next,
             fetch_table(w, phase, next)
      PROVE  job[w].pc # "idle" /\ \E r : Go(w, r)
  BY <1>2 DEF fetch_table, GiveUp
<1>3. CASE adopt(w)
  BY <1>3 DEF adopt, GiveUp
<1>4. CASE pull(w)
  BY <1>4 DEF pull, GiveUp
<1>5. CASE drop(w)
  BY <1>5 DEF drop
<1>6. CASE drop_done(w) \/ write_file(w) \/ settle(w) \/ scan(w)
  BY <1>6 DEF drop_done, write_file, settle, scan
<1>7. CASE put(w)
  BY <1>7 DEF put
<1>8. CASE tombstone(w)
  BY <1>8 DEF tombstone
<1>9. CASE rekey(w)
  BY <1>9 DEF rekey, GiveUp
<1>10. CASE rekey_put(w) \/ rekey_delete(w) \/ publish(w) \/ append_op(w) \/ save(w)
  BY <1>10 DEF rekey_put, rekey_delete, publish, append_op, save
<1> QED BY <1>1, <1>2, <1>3, <1>4, <1>5, <1>6, <1>7, <1>8, <1>9, <1>10 DEF step

\* That a cycle was cut short is not forgotten.
LEMMA StaysCut ==
  ASSUME cut, [Next]_vars
  PROVE  cut'
<1>1. ASSUME NEW w \in Worker, step(w)
      PROVE  cut'
  <2>1. CASE latest_seq(w) \/ adopt_save(w) \/ ops_since(w) \/ pull_done(w)
    BY <2>1 DEF latest_seq, adopt_save, ops_since, pull_done, history
  <2>2. ASSUME NEW phase, NEW next, fetch_table(w, phase, next)
        PROVE  cut'
    BY <2>2 DEF fetch_table, GiveUp
  <2>3. CASE adopt(w)
    BY <2>3 DEF adopt, GiveUp
  <2>4. CASE pull(w)
    BY <2>4 DEF pull, GiveUp
  <2>5. CASE drop(w) \/ drop_done(w) \/ write_file(w) \/ settle(w) \/ scan(w)
    BY <2>5 DEF drop, drop_done, write_file, settle, scan, history
  <2>6. CASE put(w) \/ tombstone(w)
    BY <2>6 DEF put, tombstone, history
  <2>7. CASE rekey(w)
    BY <2>7 DEF rekey, GiveUp
  <2>8. CASE rekey_put(w) \/ rekey_delete(w) \/ publish(w) \/ append_op(w) \/ save(w)
    BY <2>8 DEF rekey_put, rekey_delete, publish, append_op, save, history
  <2> QED BY <1>1, <2>1, <2>2, <2>3, <2>4, <2>5, <2>6, <2>7, <2>8 DEF step
<1>2. ASSUME NEW w \in Worker, NEW verb, start(w, verb)
      PROVE  cut'
  BY <1>2 DEF start, history
<1>3. ASSUME NEW w \in Worker, fail(w)
      PROVE  cut'
  BY <1>3 DEF fail, GiveUp
<1>4. ASSUME NEW d, NEW p, edit(d, p) \/ remove(d, p)
      PROVE  cut'
  BY <1>4 DEF edit, remove
<1>5. ASSUME NEW d, rotate(d)
      PROVE  cut'
  BY <1>5 DEF rotate, history
<1>6. CASE UNCHANGED vars
  BY <1>6 DEF vars, history
<1> QED BY <1>1, <1>2, <1>3, <1>4, <1>5, <1>6 DEF Next

\* Nothing happens.
LEMMA VarsStay ==
  ASSUME TableInv, SeenInv, UNCHANGED vars
  PROVE  TableInv' /\ SeenInv'
<1>1. /\ UNCHANGED <<blobs, manifest, log, disk, saved, had, job, cut>> /\ UNCHANGED cloud
      /\ Sealed' = Sealed
  BY DEF vars, cloud, device, history, Sealed
<1>2. ASSUME NEW w \in Worker
      PROVE  TableOK(job[w]) => TableOK(job[w])'
  <2>1. PICK j : j = job[w]
    OBVIOUS
  <2>2. TableOK(j) => TableOK(j)'
    BY <1>1, TableStays
  <2> QED BY <1>1, <2>1, <2>2 DEF TableOK
<1>3. TableInv'
  BY <1>1, <1>2 DEF TableInv, Placed, Whole, Opens, Known
<1>4. ASSUME NEW w \in Worker, SeesOK(job[w], Home[w])
      PROVE  SeesOK(job[w], Home[w])'
  <2>1. PICK j : j = job[w]
    OBVIOUS
  <2>2. SeesOK(j, Home[w])'
    BY <1>1, <1>4, <2>1, SeesStays
  <2>3. job'[w] = j /\ Current(job[w])' = Current(j)'
    BY <1>1, <2>1 DEF Current
  <2>4. \A p : Unseen(job[w], Home[w], p)' = Unseen(j, Home[w], p)'
    BY <2>3 DEF Unseen, Dirty
  <2> QED BY <2>2, <2>3, <2>4 DEF SeesOK
<1>5. ASSUME NEW d \in Device, NEW t, NEW puts, Told(d, t, puts)
      PROVE  Told(d, t, puts)'
  BY <1>1, <1>5, ToldStays
<1>6. ASSUME NEW w \in Worker, NEW d \in Device, Told(d, Current(job[w]), Coming(job[w]))
      PROVE  Told(d, Current(job[w]), Coming(job[w]))'
  <2>1. PICK t, puts : t = Current(job[w]) /\ puts = Coming(job[w])
    OBVIOUS
  <2>2. Told(d, t, puts)'
    BY <1>5, <1>6, <2>1
  <2>3. Current(job[w])' = t /\ Coming(job[w])' = puts
    BY <1>1, <2>1 DEF Current, Coming
  <2> QED BY <2>2, <2>3 DEF Told
<1>7. ASSUME NEW d \in Device, Told(d, Sealed, {})
      PROVE  Told(d, Sealed, {})'
  <2>1. PICK t : t = Sealed
    OBVIOUS
  <2>2. Told(d, t, {})'
    BY <1>5, <1>7, <2>1
  <2> QED BY <1>1, <2>1, <2>2 DEF Told
<1>8. SeenInv'
  BY <1>1, <1>4, <1>6, <1>7 DEF SeenInv
<1> QED BY <1>3, <1>8

\* Whoever begins finds nobody in a cycle.
LEMMA TurnsNext ==
  ASSUME ~Overlap, JobsInv, Turns, [Next]_vars
  PROVE  Turns'
<1>1. ASSUME NEW w \in Worker, NEW r, Go(w, r), \A x \in Worker \ {w} : job[x].pc = "idle"
      PROVE  Turns'
  BY <1>1 DEF JobsInv, Go, Turns
<1>2. ASSUME NEW w \in Worker, step(w) \/ fail(w)
      PROVE  Turns'
  <2>1. job[w].pc # "idle" /\ \E r : Go(w, r)
    BY <1>2, StepGoes DEF fail, GiveUp
  <2> QED BY <1>1, <2>1, OthersIdle
<1>3. ASSUME NEW w \in Worker, NEW verb \in Verbs, start(w, verb)
      PROVE  Turns'
  <2>1. \A x \in Worker : job[x].pc = "idle"
    BY <1>3 DEF start, Apart
  <2>2. \E r : Go(w, r)
    BY <1>3 DEF start
  <2> QED BY <1>1, <2>1, <2>2
<1>4. CASE UNCHANGED job
  BY <1>4 DEF Turns
<1>5. ASSUME NEW d, NEW p, edit(d, p) \/ remove(d, p) \/ rotate(d)
      PROVE  Turns'
  BY <1>4, <1>5 DEF edit, remove, rotate
<1> QED BY <1>2, <1>3, <1>4, <1>5 DEF Next, vars

TurnInv == IInv /\ Turns /\ TableInv /\ SeenInv

LEMMA TurnNext ==
  ASSUME ~Overlap, TurnInv, [Next]_vars
  PROVE  TurnInv'
<1>1. IInv'
  BY StepInv DEF TurnInv
<1>2. Turns'
  BY TurnsNext DEF TurnInv, IInv
<1>3. TableInv' /\ SeenInv'
  <2>1. CASE cut
    BY <2>1, StaysCut, CutShort
  <2>2. CASE ~cut
    <3>1. ASSUME NEW w \in Worker, step(w)
          PROVE  TableInv' /\ SeenInv'
      BY <2>2, <3>1, TurnSteps DEF TurnInv
    <3>2. ASSUME NEW w \in Worker, NEW verb \in Verbs, start(w, verb)
          PROVE  TableInv' /\ SeenInv'
      BY <2>2, <3>2, TurnStart DEF TurnInv
    <3>3. ASSUME NEW w \in Worker, fail(w)
          PROVE  TableInv' /\ SeenInv'
      BY <3>3, CutShort DEF fail, GiveUp
    <3>4. ASSUME NEW d \in Device, NEW p \in Path, edit(d, p) \/ remove(d, p)
          PROVE  TableInv' /\ SeenInv'
      BY <2>2, <3>4, TurnEdit DEF TurnInv
    <3>5. ASSUME NEW d \in Device, rotate(d)
          PROVE  TableInv' /\ SeenInv'
      BY <2>2, <3>5, TurnRotate DEF TurnInv
    <3>6. CASE UNCHANGED vars
      BY <3>6, VarsStay DEF TurnInv
    <3> QED BY <3>1, <3>2, <3>3, <3>4, <3>5, <3>6 DEF Next
  <2> QED BY <2>1, <2>2
<1> QED BY <1>1, <1>2, <1>3 DEF TurnInv

LEMMA TurnInit ==
  ASSUME Init
  PROVE  TurnInv
<1>1. IInv
  BY InitInv
<1>2. \A w \in Worker : job[w] = Idle /\ job[w].pc = "idle"
  BY IdleOK DEF Init
<1>3. Sealed = EmptyTable /\ Known(Sealed) = {}
  BY DEF Init, Sealed, EmptyTable, Known
<1>4. Turns
  BY <1>2 DEF Turns
<1>5. TableInv
  BY <1>2, <1>3 DEF TableInv, TableOK, Placed, Whole, Pushing, Ended
<1>6. SeenInv
  BY <1>2 DEF SeenInv, Told, Init
<1> QED BY <1>1, <1>4, <1>5, <1>6 DEF TurnInv

(***************************************************************************)
(* What follows.                                                           *)
(***************************************************************************)

LEMMA TurnInductive == ~Overlap => (Spec => []TurnInv)
<1> SUFFICES ASSUME ~Overlap PROVE Spec => []TurnInv
  OBVIOUS
<1>1. Init => TurnInv
  BY TurnInit
<1>2. TurnInv /\ [Next]_vars => TurnInv'
  BY TurnNext
<1> QED BY <1>1, <1>2, PTL DEF Spec

\* When devices take turns and every cycle has ended by itself, each entry of the
\* manifest opens what its slot holds, whatever was uploaded, tombstoned and moved to
\* another key's slot since: an entry is never published whose data key is not the
\* slot's, and no slot that the manifest names is written under another key.
THEOREM TurnsReadable == ~Overlap => (Spec => []Readable)
<1> SUFFICES ASSUME ~Overlap PROVE Spec => []Readable
  OBVIOUS
<1>1. TurnInv => Readable
  BY DEF TurnInv, TableInv, Readable, Sealed, Whole, Pushing
<1>2. Spec => []TurnInv
  BY TurnInductive
<1> QED BY <1>1, <1>2, PTL

\* Who changes a slot.
LEMMA Uploads ==
  ASSUME [Next]_vars, blobs' # blobs
  PROVE  \E w \in Worker : put(w) \/ tombstone(w) \/ rekey_put(w) \/ rekey_delete(w)
<1>1. ASSUME NEW w \in Worker, step(w)
      PROVE  put(w) \/ tombstone(w) \/ rekey_put(w) \/ rekey_delete(w)
  <2>1. ~(latest_seq(w) \/ adopt_save(w) \/ ops_since(w) \/ pull_done(w))
    BY DEF latest_seq, adopt_save, ops_since, pull_done, cloud
  <2>2. \A phase, next : ~fetch_table(w, phase, next)
    BY DEF fetch_table, cloud
  <2>3. ~adopt(w) /\ ~pull(w) /\ ~rekey(w)
    BY DEF adopt, pull, rekey, cloud
  <2>4. ~(drop(w) \/ drop_done(w) \/ write_file(w) \/ settle(w) \/ scan(w))
    BY DEF drop, drop_done, write_file, settle, scan, cloud
  <2>5. ~(publish(w) \/ append_op(w) \/ save(w))
    BY DEF publish, append_op, save, cloud
  <2> QED BY <1>1, <2>1, <2>2, <2>3, <2>4, <2>5 DEF step
<1>2. \A w, verb : ~start(w, verb) /\ ~fail(w)
  BY DEF start, fail, cloud
<1>3. \A d, p : ~edit(d, p) /\ ~remove(d, p) /\ ~rotate(d)
  BY DEF edit, remove, rotate, cloud
<1>4. ~UNCHANGED vars
  BY DEF vars, cloud
<1> QED BY <1>1, <1>2, <1>3, <1>4 DEF Next

LEMMA TombstoneSeen ==
  ASSUME "push" \notin Verbs, TurnInv, [Next]_vars, ~cut,
         NEW w \in Worker, NEW n \in Name, job[w].pc = "put", blobs[n] # NONE, blobs'[n] = NONE
  PROVE  blobs[n].version \in had[Home[w]][n.path]
<1> USE DEF TurnInv
<1>0. PICK j \in Job : j = job[w]
  BY Working
<1> DEFINE d == Home[w]
<1>1. /\ j.pc = "put" /\ TableOK(j) /\ SeesOK(j, d) /\ WorkOK(j, d)
      /\ \A x \in Worker \ {w} : job[x].pc = "idle"
  BY <1>0, Turn, Working
<1>2. j.table \in KeyTable /\ Placed(j.table)
  BY <1>1 DEF WorkOK, Tabled, TableOK, Pushing
<1>3. put(w) \/ tombstone(w)
  <2>1. PICK x \in Worker : put(x) \/ tombstone(x) \/ rekey_put(x) \/ rekey_delete(x)
    BY Uploads
  <2>2. job[x].pc \in {"put", "rekey_put", "rekey_delete"}
    BY <2>1 DEF put, tombstone, rekey_put, rekey_delete
  <2> QED BY <1>0, <1>1, <2>1, <2>2 DEF rekey_put, rekey_delete
<1>4. CASE put(w)
  <2>1. PICK p \in j.todo :
          /\ j.table[p] # NONE \/ UnusedDeks # {}
          /\ LET entry == TableEntry(j.table, j.key, p) IN
             blobs' = [blobs EXCEPT ![entry.blob] =
                         [dek |-> entry.dek, version |-> j.found[p]]]
    BY <1>0, <1>4 DEF put
  <2>2. PICK v \in Version : v = j.found[p]
    BY <1>1, <2>1 DEF WorkOK, Job, Maybe
  <2>3. p \in Path
    BY <2>1 DEF Job
  <2>4. TableEntry(j.table, j.key, p).blob \in Name /\ TableEntry(j.table, j.key, p).dek \in Dek
    <3>1. CASE j.table[p] # NONE
      BY <1>2, <2>3, <3>1 DEF TableEntry, KeyTable, Entry, Maybe
    <3>2. CASE j.table[p] = NONE
      <4>1. FreshDek \in Dek
        BY <2>1, <3>2, Minted
      <4>2. j.key \in Key
        BY DEF Job
      <4>3. [key |-> j.key, path |-> p] \in Name
        BY <2>3, <4>2 DEF Name
      <4> QED BY <3>2, <4>1, <4>3 DEF TableEntry, blob_name
    <3> QED BY <3>1, <3>2
  <2>5. PICK k \in Dek, m \in Name : blobs' = [blobs EXCEPT ![m] = [dek |-> k, version |-> v]]
    BY <2>1, <2>2, <2>4
  <2>6. [dek |-> k, version |-> v] # NONE
    BY BlobWritten
  <2> QED BY <2>5, <2>6, SlotChanges
<1>5. CASE tombstone(w)
  <2>1. PICK p \in j.gone :
          \/ UNCHANGED blobs
          \/ j.table[p] # NONE /\ blobs' = [blobs EXCEPT ![j.table[p].blob] = NONE]
    BY <1>0, <1>5 DEF tombstone
  <2>2. p \in Path /\ j.table[p] # NONE /\ blobs' = [blobs EXCEPT ![j.table[p].blob] = NONE]
    BY <2>1 DEF Job
  <2>3. j.table[p].blob \in Name
    BY <1>2, <2>2 DEF KeyTable, Entry, Maybe
  <2>4. n = j.table[p].blob /\ n.path = p
    <3>1. n = j.table[p].blob
      BY <2>2, <2>3, SlotChanges
    <3> QED BY <1>2, <2>2, <3>1 DEF Placed, Known
  <2>5. Seen(d, j.table, p)
    BY <1>1, <2>1, <2>2 DEF SeesOK, Current, Announcing, Pushing, Known
  <2> QED BY <2>4, <2>5 DEF Seen
<1> QED BY <1>3, <1>4, <1>5

\* When devices take turns and nobody pushes by hand, a slot is tombstoned only by a
\* device that has had the very version in it: what another device uploaded was pulled
\* first, or lies under a local edit that is uploaded instead.  So the operations that
\* a device reads, from where its saved state left off, leave out nothing it had not
\* seen.
THEOREM DeletionsSeen == ~Overlap /\ "push" \notin Verbs => (Spec => TombstonesSeen)
<1> SUFFICES ASSUME ~Overlap, "push" \notin Verbs PROVE Spec => TombstonesSeen
  OBVIOUS
<1> DEFINE A == \A w \in Worker, n \in Name :
                  job[w].pc = "put" /\ blobs[n] # NONE /\ blobs'[n] = NONE /\ ~cut =>
                    blobs[n].version \in had[Home[w]][n.path]
<1>1. TurnInv /\ [Next]_vars => [A]_vars
  BY TombstoneSeen
<1>2. Spec => []TurnInv
  BY TurnInductive
<1>3. TombstonesSeen <=> [][A]_vars
  BY DEF TombstonesSeen
<1> HIDE DEF A
<1> QED BY <1>1, <1>2, <1>3, PTL DEF Spec

(***************************************************************************)
(* No file goes back: the invariant.                                       *)
(***************************************************************************)

\* No cycle has been cut short, and no rotation has moved the slots.
Plain == ~cut /\ generation = 1

\* The slot of a path, then.
slot(p) == blob_name(1, p)
Slots(f) == \A p \in Known(f) : f[p].blob = slot(p)

\* A version was written over earlier ones only.
Aged == \A v \in Written : parents[v] \subseteq 1 .. v - 1

\* A version that was never uploaded is in one place, and nothing was written over it.
Unsent ==
  \A d \in Device, p \in Path : disk[d][p] # NONE /\ disk[d][p] \notin sent =>
    /\ \A e \in Device, q \in Path : disk[e][q] = disk[d][p] => e = d /\ q = p
    /\ \A v \in Written : disk[d][p] \notin parents[v]

\* A file that was uploaded is as agreed on.
Kept(d, s, p) ==
  disk[d][p] # NONE /\ disk[d][p] \in sent =>
    s.files[p] # NONE /\ s.files[p].hash = disk[d][p]

\* What was agreed on was not written over what is in the slot.
Newer(s, t) ==
  \A p \in Known(s.files) \cap Known(t) :
    blobs[slot(p)].version \notin parents[s.files[p].hash]

\* What a device at rest has agreed on: a slot that is gone since, it will be told of.
Rest(d) == IF saved[d] = NONE THEN NewState(1) ELSE saved[d]

RestOK(d, t, puts, dels) ==
  LET s == Rest(d) IN
  /\ s.generation = 1 /\ Slots(s.files)
  /\ Newer(s, t)
  /\ \A p \in Path : Kept(d, s, p)
  /\ \A p \in Known(s.files) \ Known(t) :
       slot(p) \in dels \cup (NetDels(Foreign(d, s.cursor)) \ puts)

\* What a cycle is going to announce as deleted, and what it has still to drop.
Leaving(j) == IF j.pc \in Announcing THEN j.dels ELSE {}

Pending(j, d) ==
  CASE \/ j.pc \in {"pull_fetch", "pull"}
       \/ j.pc = "pull_write" /\ j.got.version # NONE -> j.dels
    [] \/ j.pc = "drop"
       \/ j.pc = "pull_write" /\ j.got.version = NONE -> j.left
    [] j.pc = "settle" -> {}
    [] OTHER -> NetDels(Foreign(d, j.state.cursor))

Writing == {"adopt_write", "pull_write"}

\* What a cycle has in hand.
HandOK(j, d) ==
  /\ j.pc \notin {"rekey_put", "rekey_delete"}
  /\ j.pc = "latest" \/ (j.pc = "adopt_fetch" /\ j.verb # "pull") =>
       Known(j.state.files) = {}
  /\ j.pc \in {"adopt", "adopt_write"} /\ j.verb # "pull" =>
       j.todo \cap Known(j.state.files) = {}
  /\ j.pc \in Writing /\ j.got.version # NONE =>
       /\ j.state.files[j.got.path] # NONE
       /\ j.state.files[j.got.path].hash = j.got.version
       /\ j.verb # "pull" /\ disk[d][j.got.path] # NONE =>
            j.got.version \notin parents[disk[d][j.got.path]]
  /\ j.pc \in {"push_fetch", "put"} =>
       /\ \A p \in j.todo : j.found[p] = disk[d][p] /\ ~Clean(j, disk[d][p], p)
       /\ \A p \in j.gone : disk[d][p] = NONE
  /\ \/ j.pc \in {"drop", "settle", "scan", "push_fetch"}
     \/ j.pc = "pull_write" /\ j.got.version = NONE
     => j.puts = {}
  /\ j.pc \in {"scan", "push_fetch"} => j.dels = {}
  /\ j.pc = "announce" => j.table = Sealed

CycleOK(j, d) ==
  /\ j.key = 1 /\ j.state.generation = 1
  /\ Slots(j.state.files) /\ Slots(Current(j))
  /\ Newer(j.state, Current(j))
  /\ \A p \in Path : Kept(d, j.state, p) \/ (j.pc \in Writing /\ j.got.path = p)
  /\ \A p \in Known(j.state.files) \ Known(Current(j)) : slot(p) \in Pending(j, d)
  /\ HandOK(j, d)

ForwardInv ==
  Plain =>
    /\ Slots(Sealed) /\ \A d \in Device : key[d] = 1
    /\ (\A w \in Worker : job[w].pc = "idle") => \A d \in Device : RestOK(d, Sealed, {}, {})
    /\ \A w \in Worker : job[w].pc # "idle" =>
         /\ CycleOK(job[w], Home[w])
         /\ \A d \in Device \ {Home[w]} :
              RestOK(d, Current(job[w]), Coming(job[w]), Leaving(job[w]))

(***************************************************************************)
(* Versions: what was never uploaded is nobody else's.                     *)
(***************************************************************************)

LEMMA FreshStays ==
  ASSUME Aged, Unsent, UNCHANGED parents, sent \subseteq sent',
         \A e \in Device, q \in Path : disk'[e][q] \in {disk[e][q], NONE} \cup sent'
  PROVE  Aged' /\ Unsent'
<1>1. Aged'
  BY DEF Aged, Written
<1>2. ASSUME NEW d \in Device, NEW p \in Path, disk'[d][p] # NONE, disk'[d][p] \notin sent'
      PROVE  /\ \A e \in Device, q \in Path : disk'[e][q] = disk'[d][p] => e = d /\ q = p
             /\ \A v \in Written' : disk'[d][p] \notin parents'[v]
  <2>1. disk'[d][p] = disk[d][p] /\ disk[d][p] # NONE /\ disk[d][p] \notin sent
    BY <1>2
  <2>2. ASSUME NEW e \in Device, NEW q \in Path, disk'[e][q] = disk'[d][p]
        PROVE  e = d /\ q = p
    <3>1. disk[e][q] = disk[d][p]
      BY <1>2, <2>1, <2>2
    <3> QED BY <2>1, <3>1 DEF Unsent
  <2> QED BY <2>1, <2>2 DEF Unsent, Written
<1> QED BY <1>1, <1>2 DEF Unsent

LEMMA FreshEdit ==
  ASSUME IInv, Aged, Unsent, NEW d \in Device, NEW p \in Path, edit(d, p) \/ remove(d, p)
  PROVE  Aged' /\ Unsent'
<1> DEFINE v == Len(parents) + 1
           old == disk[d][p]
<1>1. /\ parents \in Seq(SUBSET Version) /\ Len(parents) \in Nat /\ sent' = sent
      /\ sent \subseteq 1 .. Len(parents)
      /\ \A e \in Device, q \in Path : disk[e][q] # NONE => disk[e][q] \in 1 .. Len(parents)
  BY DEF IInv, SharedInv, Types, LocalOK, Written, edit, remove
<1>2. PICK x : /\ parents' = Append(parents, x)
               /\ x = IF remove(d, p) \/ old = NONE THEN {} ELSE parents[old] \cup {old}
  <2>1. CASE remove(d, p)
    BY <2>1 DEF remove
  <2>2. CASE edit(d, p) /\ ~remove(d, p)
    BY <2>2 DEF edit
  <2> QED BY <2>1, <2>2
<1>3. x \in SUBSET Version /\ x \subseteq 1 .. Len(parents)
  <2>1. CASE x = {}
    BY <2>1
  <2>2. CASE x # {}
    <3>1. old \in 1 .. Len(parents) /\ x = parents[old] \cup {old}
      BY <1>1, <1>2, <2>2
    <3>2. parents[old] \subseteq 1 .. old - 1 /\ parents[old] \subseteq Version
      BY <1>1, <3>1 DEF Aged, Written
    <3>3. MaxEdits \in Nat /\ Len(parents) <= MaxEdits
      BY CloudAssumption DEF IInv, SharedInv, Types
    <3> QED BY <1>1, <3>1, <3>2, <3>3 DEF Version
  <2> QED BY <2>1, <2>2
<1>4. /\ Len(parents') = v /\ parents'[v] = x
      /\ \A u \in 1 .. Len(parents) : parents'[u] = parents[u]
  BY <1>1, <1>2, <1>3
<1>5. Aged'
  <2>1. ASSUME NEW u \in 1 .. v PROVE parents'[u] \subseteq 1 .. u - 1
    <3>1. CASE u = v
      <4>1. v - 1 = Len(parents)
        BY <1>1
      <4> QED BY <1>3, <1>4, <3>1, <4>1
    <3>2. CASE u # v
      BY <1>1, <1>4, <3>2 DEF Aged, Written
    <3> QED BY <3>1, <3>2
  <2> QED BY <1>4, <2>1 DEF Aged, Written
<1>6. \A u \in 1 .. v : v \notin parents'[u]
  BY <1>1, <1>4, <1>5 DEF Aged, Written
<1>7. PICK y \in {v, NONE} : /\ disk' = [disk EXCEPT ![d][p] = y]
                             /\ y = NONE => remove(d, p)
  <2>1. CASE remove(d, p)
    BY <2>1 DEF remove, SetFile
  <2>2. CASE edit(d, p)
    <3>1. disk' = [disk EXCEPT ![d][p] = v] /\ v # NONE
      BY <1>1, <2>2, CloudAssumption DEF edit, SetFile
    <3> QED BY <3>1
  <2> QED BY <2>1, <2>2
<1>8. disk'[d][p] = y /\ \A e \in Device, q \in Path : e # d \/ q # p => disk'[e][q] = disk[e][q]
  BY <1>7 DEF IInv, SharedInv, Types
<1>9. v \notin sent /\ \A e \in Device, q \in Path : disk[e][q] # NONE => disk[e][q] # v
  BY <1>1
<1>10. ASSUME NEW e \in Device, NEW q \in Path, disk'[e][q] # NONE, disk'[e][q] \notin sent
       PROVE  /\ \A f \in Device, r \in Path : disk'[f][r] = disk'[e][q] => f = e /\ r = q
              /\ \A u \in 1 .. v : disk'[e][q] \notin parents'[u]
  <2>1. CASE e = d /\ q = p
    BY <1>6, <1>7, <1>8, <1>9, <1>10, <2>1
  <2>2. CASE ~(e = d /\ q = p)
    <3>1. disk'[e][q] = disk[e][q] /\ disk[e][q] # old /\ disk[e][q] # v
      BY <1>8, <1>9, <1>10, <2>2 DEF Unsent
    <3>2. \A u \in 1 .. Len(parents) : disk[e][q] \notin parents[u]
      BY <1>10, <3>1 DEF Unsent, Written
    <3>3. disk[e][q] \notin x
      BY <1>1, <1>2, <3>1, <3>2
    <3>4. \A u \in 1 .. v : disk[e][q] \notin parents'[u]
      BY <1>1, <1>4, <3>2, <3>3
    <3>5. ASSUME NEW f \in Device, NEW r \in Path, disk'[f][r] = disk'[e][q]
          PROVE  f = e /\ r = q
      BY <1>7, <1>8, <1>10, <3>1, <3>5 DEF Unsent
    <3> QED BY <3>1, <3>4, <3>5
  <2> QED BY <2>1, <2>2
<1> QED BY <1>1, <1>4, <1>5, <1>10 DEF Unsent, Written

\* Who changes a file.
LEMMA Writes ==
  ASSUME [Next]_vars
  PROVE  \/ UNCHANGED <<disk, parents>>
         \/ \E w \in Worker : write_file(w)
         \/ \E d \in Device, p \in Path : edit(d, p) \/ remove(d, p)
<1>1. ASSUME NEW w \in Worker, step(w)
      PROVE  write_file(w) \/ UNCHANGED <<disk, parents>>
  <2>1. CASE latest_seq(w) \/ adopt_save(w) \/ ops_since(w) \/ pull_done(w)
    BY <2>1 DEF latest_seq, adopt_save, ops_since, pull_done, device, history
  <2>2. ASSUME NEW phase, NEW next, fetch_table(w, phase, next)
        PROVE  UNCHANGED <<disk, parents>>
    BY <2>2 DEF fetch_table, device
  <2>3. CASE adopt(w) \/ pull(w) \/ rekey(w)
    BY <2>3 DEF adopt, pull, rekey, device
  <2>4. CASE drop(w) \/ drop_done(w) \/ settle(w) \/ scan(w)
    BY <2>4 DEF drop, drop_done, settle, scan, device, history
  <2>5. CASE put(w) \/ tombstone(w) \/ rekey_put(w) \/ rekey_delete(w)
    BY <2>5 DEF put, tombstone, rekey_put, rekey_delete, device, history
  <2>6. CASE publish(w) \/ append_op(w) \/ save(w)
    BY <2>6 DEF publish, append_op, save, device, history
  <2> QED BY <1>1, <2>1, <2>2, <2>3, <2>4, <2>5, <2>6 DEF step
<1>2. ASSUME NEW w, NEW verb, start(w, verb) \/ fail(w)
      PROVE  UNCHANGED <<disk, parents>>
  BY <1>2 DEF start, fail, device, history
<1>3. ASSUME NEW d, rotate(d)
      PROVE  UNCHANGED <<disk, parents>>
  BY <1>3 DEF rotate, history
<1>4. CASE UNCHANGED vars
  BY <1>4 DEF vars, device, history
<1> QED BY <1>1, <1>2, <1>3, <1>4 DEF Next

\* Who uploads a version.
LEMMA Sends ==
  ASSUME [Next]_vars
  PROVE  sent' = sent \/ \E w \in Worker : put(w)
<1>1. ASSUME NEW w \in Worker, step(w)
      PROVE  put(w) \/ sent' = sent
  <2>1. CASE latest_seq(w) \/ adopt_save(w) \/ ops_since(w) \/ pull_done(w)
    BY <2>1 DEF latest_seq, adopt_save, ops_since, pull_done, history
  <2>2. ASSUME NEW phase, NEW next, fetch_table(w, phase, next)
        PROVE  sent' = sent
    BY <2>2 DEF fetch_table
  <2>3. CASE adopt(w) \/ pull(w) \/ rekey(w) \/ write_file(w)
    BY <2>3 DEF adopt, pull, rekey, write_file
  <2>4. CASE drop(w) \/ drop_done(w) \/ settle(w) \/ scan(w)
    BY <2>4 DEF drop, drop_done, settle, scan, history
  <2>5. CASE tombstone(w) \/ rekey_put(w) \/ rekey_delete(w)
    BY <2>5 DEF tombstone, rekey_put, rekey_delete, history
  <2>6. CASE publish(w) \/ append_op(w) \/ save(w)
    BY <2>6 DEF publish, append_op, save, history
  <2> QED BY <1>1, <2>1, <2>2, <2>3, <2>4, <2>5, <2>6 DEF step
<1>2. ASSUME NEW w, NEW verb, start(w, verb) \/ fail(w)
      PROVE  sent' = sent
  BY <1>2 DEF start, fail, history
<1>3. ASSUME NEW d, NEW p, rotate(d) \/ edit(d, p) \/ remove(d, p)
      PROVE  sent' = sent
  BY <1>3 DEF rotate, edit, remove, history
<1>4. CASE UNCHANGED vars
  BY <1>4 DEF vars, history
<1> QED BY <1>1, <1>2, <1>3, <1>4 DEF Next

LEMMA FreshNext ==
  ASSUME IInv, Aged, Unsent, [Next]_vars
  PROVE  Aged' /\ Unsent'
<1>1. sent \subseteq sent'
  <2>1. ASSUME NEW w \in Worker, put(w)
        PROVE  sent \subseteq sent'
    BY <2>1 DEF put
  <2> QED BY <2>1, Sends
<1>2. CASE UNCHANGED <<disk, parents>>
  BY <1>1, <1>2, FreshStays
<1>3. ASSUME NEW w \in Worker, write_file(w)
      PROVE  Aged' /\ Unsent'
  <2>1. PICK j \in Job : j = job[w]
    BY Working
  <2>2. /\ Home[w] \in Device /\ j.got.path \in Path
        /\ j.got.version # NONE => j.got.version \in sent
    BY <1>3, <2>1, Working DEF write_file, GotOK, Holding, Write
  <2>3. /\ disk' = [disk EXCEPT ![Home[w]][j.got.path] = j.got.version]
        /\ UNCHANGED <<parents, sent>>
    BY <1>3, <2>1 DEF write_file, SetFile
  <2>4. \A e \in Device, q \in Path : disk'[e][q] \in {disk[e][q], NONE} \cup sent'
    BY <2>2, <2>3 DEF IInv, SharedInv, Types
  <2> QED BY <2>3, <2>4, FreshStays
<1> QED BY <1>2, <1>3, Writes, FreshEdit

(***************************************************************************)
(* What steps share.                                                       *)
(***************************************************************************)

\* Steps that leave what the claims are about.
LEMMA RestStays ==
  ASSUME UNCHANGED <<blobs, log, disk, sent, parents>>, NEW d, saved'[d] = saved[d],
         NEW t, NEW puts, NEW dels, RestOK(d, t, puts, dels)
  PROVE  RestOK(d, t, puts, dels)'
<1>1. PICK s : s = Rest(d)
  OBVIOUS
<1>2. Rest(d)' = s
  BY <1>1 DEF Rest
<1>3. /\ s.generation = 1 /\ Slots(s.files) /\ Newer(s, t)
      /\ \A p \in Path : Kept(d, s, p)
      /\ \A p \in Known(s.files) \ Known(t) :
           slot(p) \in dels \cup (NetDels(Foreign(d, s.cursor)) \ puts)
  BY <1>1 DEF RestOK
<1>4. NetDels(Foreign(d, s.cursor))' = NetDels(Foreign(d, s.cursor))
  BY DEF NetDels, Foreign
<1>5. Newer(s, t)' /\ \A p \in Path : Kept(d, s, p)'
  BY <1>3 DEF Newer, Kept, Known
<1> QED BY <1>2, <1>3, <1>4, <1>5 DEF RestOK, Newer, Kept, Known, NetDels, Foreign, Slots

LEMMA CycleStays ==
  ASSUME UNCHANGED <<cloud, disk, sent, parents>>, NEW j, NEW d, CycleOK(j, d)
  PROVE  CycleOK(j, d)'
<1>1. Sealed' = Sealed /\ Current(j)' = Current(j)
  BY DEF Sealed, Current, cloud
<1>2. Pending(j, d)' = Pending(j, d)
  BY DEF Pending, NetDels, Foreign, cloud
<1>3. HandOK(j, d)'
  BY <1>1 DEF CycleOK, HandOK, Clean
<1>4. Newer(j.state, Current(j))' /\ \A p \in Path : Kept(d, j.state, p)' = Kept(d, j.state, p)
  BY <1>1 DEF CycleOK, Newer, Kept, cloud
<1> QED BY <1>1, <1>2, <1>3, <1>4 DEF CycleOK, Slots, Known

\* Before a worker moves.
LEMMA InTurn ==
  ASSUME IInv, Turns, TableInv, ForwardInv, Plain, NEW w \in Worker, job[w].pc # "idle"
  PROVE  /\ \A x \in Worker \ {w} : job[x].pc = "idle"
         /\ Slots(Sealed) /\ \A d \in Device : key[d] = 1
         /\ TableOK(job[w]) /\ CycleOK(job[w], Home[w])
         /\ \A d \in Device \ {Home[w]} :
              RestOK(d, Current(job[w]), Coming(job[w]), Leaving(job[w]))
BY OthersIdle DEF ForwardInv, TableInv, Plain

\* One worker moves on, or ends.
LEMMA GoesForward ==
  ASSUME JobsInv, NEW w \in Worker, NEW r, Go(w, r),
         \A x \in Worker \ {w} : job[x].pc = "idle",
         Slots(Sealed)', \A d \in Device : key'[d] = 1,
         r.pc = "idle" => \A d \in Device : RestOK(d, Sealed, {}, {})',
         r.pc # "idle" =>
           /\ CycleOK(r, Home[w])'
           /\ \A d \in Device \ {Home[w]} : RestOK(d, Current(r), Coming(r), Leaving(r))'
  PROVE  ForwardInv'
<1>1. job'[w] = r /\ \A x \in Worker \ {w} : job'[x] = job[x]
  BY DEF JobsInv, Go
<1>2. ASSUME NEW x \in Worker, job'[x].pc # "idle"
      PROVE  /\ CycleOK(job[x], Home[x])'
             /\ \A d \in Device \ {Home[x]} :
                  RestOK(d, Current(job[x]), Coming(job[x]), Leaving(job[x]))'
  <2>1. x = w /\ r.pc # "idle"
    BY <1>1, <1>2
  <2>2. Current(job[w])' = Current(r)' /\ Coming(job[w])' = Coming(r)' /\ Leaving(job[w])' = Leaving(r)'
    BY <1>1 DEF Current, Coming, Leaving
  <2>3. HandOK(r, Home[w])' => HandOK(job[w], Home[w])'
    BY <1>1 DEF HandOK, Clean
  <2>4. Pending(job[w], Home[w])' = Pending(r, Home[w])'
    BY <1>1 DEF Pending
  <2>5. CycleOK(job[w], Home[w])'
    BY <1>1, <2>1, <2>2, <2>3, <2>4 DEF CycleOK, Newer, Kept
  <2> QED BY <2>1, <2>2, <2>5 DEF RestOK, Newer
<1> QED BY <1>1, <1>2 DEF ForwardInv

\* A step that reads.
LEMMA ReadsForward ==
  ASSUME IInv, Turns, TableInv, ForwardInv, Plain, NEW w \in Worker, NEW r, Go(w, r),
         UNCHANGED <<cloud, device, history>>,
         job[w].pc # "idle", job[w].pc \notin Announcing,
         r.pc \notin {"idle", "announce"},
         r.pc \in Announcing => r.table = Sealed /\ r.puts = {} /\ r.dels = {},
         CycleOK(r, Home[w])
  PROVE  ForwardInv'
<1>1. UNCHANGED <<blobs, manifest, log, saved, disk, sent, parents, key>> /\ UNCHANGED cloud
  BY DEF cloud, device, history
<1>2. CycleOK(r, Home[w])'
  BY <1>1, CycleStays
<1>3. ASSUME NEW d \in Device \ {Home[w]}
      PROVE  RestOK(d, Current(r), Coming(r), Leaving(r))'
  <2>1. PICK t : t = Sealed
    OBVIOUS
  <2>2. RestOK(d, t, {}, {})
    BY <1>3, <2>1, InTurn DEF Current, Coming, Leaving
  <2>3. RestOK(d, t, {}, {})'
    BY <1>1, <2>2, RestStays
  <2>4. Current(r)' = t /\ Coming(r)' = {} /\ Leaving(r)' = {}
    BY <1>1, <2>1 DEF Current, Coming, Leaving, Sealed
  <2> QED BY <2>3, <2>4 DEF RestOK, Newer
<1>4. Slots(Sealed)' /\ \A d \in Device : key'[d] = 1
  BY <1>1, InTurn DEF Slots, Sealed, Known
<1> QED BY <1>2, <1>3, <1>4, InTurn, GoesForward DEF IInv

\* A step of a push.
LEMMA PushesForward ==
  ASSUME IInv, Turns, TableInv, ForwardInv, Plain, NEW w \in Worker, NEW r, Go(w, r),
         UNCHANGED <<log, device, parents>>, Slots(Sealed)',
         job[w].pc \in Announcing, r.pc \in Announcing, CycleOK(r, Home[w])',
         \A d \in Device \ {Home[w]}, p \in Path : disk[d][p] \in sent' => disk[d][p] \in sent,
         job[w].dels \subseteq r.dels,
         \A p \in Known(r.table) :
           \/ p \in Known(job[w].table) /\ blobs'[slot(p)] = blobs[slot(p)]
           \/ \A v \in Written : blobs'[slot(p)].version \notin parents[v],
         \A p \in Path \ Known(r.table) :
           \/ slot(p) \in r.dels
           \/ p \notin Known(job[w].table) /\ (slot(p) \in r.puts => slot(p) \in job[w].puts)
  PROVE  ForwardInv'
<1>1. PICK j : j = job[w]
  OBVIOUS
<1>2. j.pc # "idle" /\ r.pc # "idle" /\ UNCHANGED <<disk, saved, key>>
  BY <1>1 DEF Announcing, Pushing, device
<1>3. ASSUME NEW d \in Device \ {Home[w]}
      PROVE  RestOK(d, Current(r), Coming(r), Leaving(r))'
  <2>1. PICK s : s = Rest(d)
    OBVIOUS
  <2>2. /\ Rest(d)' = s /\ NetDels(Foreign(d, s.cursor))' = NetDels(Foreign(d, s.cursor))
        /\ Current(r)' = r.table /\ Coming(r)' = r.puts /\ Leaving(r)' = r.dels
    BY <1>2, <2>1 DEF Rest, NetDels, Foreign, Current, Coming, Leaving
  <2>3. RestOK(d, j.table, j.puts, j.dels)
    BY <1>1, <1>2, <1>3, InTurn DEF Current, Coming, Leaving
  <2>4. /\ s.generation = 1 /\ Slots(s.files) /\ Newer(s, j.table)
        /\ \A p \in Path : Kept(d, s, p)
        /\ \A p \in Known(s.files) \ Known(j.table) :
             slot(p) \in j.dels \cup (NetDels(Foreign(d, s.cursor)) \ j.puts)
    BY <2>1, <2>3 DEF RestOK
  <2>5. \A p \in Known(s.files) : s.files[p].hash \in Written
    <3>1. \A p \in Known(s.files) : saved[d] # NONE /\ s = saved[d]
      BY <2>1 DEF Rest, Known, NewState, NoFiles
    <3> QED BY <2>1, <3>1 DEF IInv, SharedInv, SavedOK, Types, Known
  <2>6. Newer(s, r.table)'
    <3>1. ASSUME NEW p \in Known(s.files) \cap Known(r.table)
          PROVE  blobs'[slot(p)].version \notin parents[s.files[p].hash]
      BY <1>1, <2>4, <2>5, <3>1 DEF Newer
    <3> QED BY <3>1 DEF Newer, Known
  <2>7. \A p \in Path : Kept(d, s, p)'
    BY <1>2, <1>3, <2>4 DEF Kept
  <2>8. \A p \in Known(s.files) \ Known(r.table) :
          slot(p) \in r.dels \cup (NetDels(Foreign(d, s.cursor)) \ r.puts)
    BY <1>1, <2>4 DEF Known
  <2> QED BY <2>2, <2>4, <2>6, <2>7, <2>8 DEF RestOK, Newer, Kept, Slots, Known
<1>4. \A d \in Device : key'[d] = 1
  BY <1>1, <1>2, InTurn
<1> QED BY <1>1, <1>2, <1>3, <1>4, InTurn, GoesForward DEF IInv

\* A cycle that goes on with the same agreements.
LEMMA SameAgreed ==
  ASSUME NEW j, NEW r, NEW d, CycleOK(j, d), HandOK(r, d), r.key = j.key,
         r.state.files = j.state.files, r.state.generation = j.state.generation,
         Current(r) = Current(j), j.pc \in Writing => r.pc \in Writing /\ r.got = j.got,
         \A p \in Known(j.state.files) \ Known(Current(j)) :
           slot(p) \in Pending(j, d) => slot(p) \in Pending(r, d)
  PROVE  CycleOK(r, d)
BY DEF CycleOK, Newer, Kept

(***************************************************************************)
(* The steps that read.                                                    *)
(***************************************************************************)

LEMMA ForwardLatest ==
  ASSUME IInv, Turns, TableInv, ForwardInv, Plain, NEW w \in Worker, latest_seq(w)
  PROVE  ForwardInv'
<1>0. PICK j \in Job : j = job[w]
  BY Working
<1> DEFINE d == Home[w]
           s == [j.state EXCEPT !.cursor = Len(log)]
           r == [j EXCEPT !.state = s, !.pc = "adopt_fetch"]
<1>1. j.pc = "latest" /\ Go(w, r) /\ UNCHANGED <<cloud, device, history>>
  BY <1>0 DEF latest_seq
<1>2. s.files = j.state.files /\ s.generation = j.state.generation
  BY DEF Job, SyncState
<1> HIDE DEF s
<1>3. r.pc = "adopt_fetch" /\ r.state = s /\ r.table = j.table /\ r.key = j.key /\ r.verb = j.verb
  BY DEF Job
<1> HIDE DEF r
<1>4. CycleOK(j, d)
  BY <1>0, <1>1, InTurn
<1>5. Known(j.state.files) = {}
  BY <1>1, <1>4 DEF CycleOK, HandOK
<1>6. HandOK(r, d)
  BY <1>2, <1>3, <1>5 DEF HandOK, Writing
<1>7. Current(r) = Current(j)
  BY <1>1, <1>3 DEF Current, Announcing, Pushing
<1>8. CycleOK(r, d)
  BY <1>1, <1>2, <1>3, <1>4, <1>5, <1>6, <1>7, SameAgreed DEF Writing
<1> QED BY <1>0, <1>1, <1>3, <1>8, ReadsForward DEF Announcing, Pushing

LEMMA ForwardFetch ==
  ASSUME IInv, Turns, TableInv, ForwardInv, Plain, NEW w \in Worker,
         NEW phase \in {"adopt_fetch", "pull_fetch", "push_fetch"},
         NEW next \in {"adopt", "pull", "put"},
         next = "put" <=> phase = "push_fetch", next = "pull" <=> phase = "pull_fetch",
         fetch_table(w, phase, next)
  PROVE  ForwardInv'
<1>0. PICK j \in Job : j = job[w]
  BY Working
<1> DEFINE d == Home[w]
           todo == IF next = "adopt" THEN Known(Sealed) ELSE j.todo
           r == [j EXCEPT !.table = Sealed, !.pc = next, !.todo = todo]
<1>1. CASE GiveUp(w)
  BY <1>1 DEF GiveUp, ForwardInv, Plain
<1>2. CASE ~GiveUp(w)
  <2>1. /\ j.pc = phase /\ Go(w, r) /\ UNCHANGED <<cloud, device, history>>
    BY <1>0, <1>2 DEF fetch_table, Sealed, history
  <2> HIDE DEF todo
  <2>2. /\ r.pc = next /\ r.state = j.state /\ r.table = Sealed /\ r.todo = todo
        /\ r.dels = j.dels /\ r.gone = j.gone /\ r.found = j.found /\ r.puts = j.puts
        /\ r.key = j.key /\ r.verb = j.verb
    BY DEF Job
  <2> HIDE DEF r
  <2>3. CycleOK(j, d) /\ HandOK(j, d)
    BY <1>0, <2>1, InTurn DEF CycleOK
  <2>4. Current(r) = Current(j)
    BY <2>1, <2>2 DEF Current, Announcing, Pushing
  <2>5. HandOK(r, d)
    BY <2>1, <2>2, <2>3 DEF HandOK, Writing, Clean, todo
  <2>6. Pending(r, d) = Pending(j, d)
    BY <2>1, <2>2 DEF Pending
  <2>7. CycleOK(r, d)
    BY <2>1, <2>2, <2>3, <2>4, <2>5, <2>6, SameAgreed DEF Writing
  <2>8. r.pc = "put" => r.puts = {} /\ r.dels = {}
    BY <2>1, <2>2, <2>3 DEF HandOK
  <2> QED BY <1>0, <2>1, <2>2, <2>7, <2>8, ReadsForward DEF Announcing, Pushing
<1> QED BY <1>1, <1>2

LEMMA ForwardOpsSince ==
  ASSUME IInv, Turns, TableInv, ForwardInv, Plain, NEW w \in Worker, ops_since(w)
  PROVE  ForwardInv'
<1>0. PICK j \in Job : j = job[w]
  BY Working
<1> DEFINE d == Home[w]
           ops == Foreign(d, j.state.cursor)
           s == [j.state EXCEPT !.cursor = Len(log)]
           flag == \E i \in ops : log[i].manifest
           r == [j EXCEPT !.state = s, !.puts = NetPuts(ops), !.left = NetPuts(ops),
                          !.dels = NetDels(ops), !.flag = flag]
           pc == IF r.puts = {} /\ r.dels = {} /\ ~r.flag THEN "scan" ELSE "pull_fetch"
           q == [r EXCEPT !.pc = pc]
<1>1. Go(w, q) /\ UNCHANGED <<cloud, device, history>> /\ j.pc = "ops"
  BY <1>0 DEF ops_since
<1>2. s.files = j.state.files /\ s.generation = j.state.generation
  BY DEF Job, SyncState
<1> HIDE DEF s, flag, ops
<1>3. /\ r.state = s /\ r.puts = NetPuts(ops) /\ r.dels = NetDels(ops) /\ r.table = j.table
      /\ r.key = j.key /\ q = [r EXCEPT !.pc = pc] /\ \A f : [r EXCEPT !.pc = f].pc = f
  BY DEF Job
<1>4. /\ q.state = s /\ q.dels = r.dels /\ q.puts = r.puts /\ q.table = j.table
      /\ q.pc = pc /\ q.key = j.key
  BY <1>3 DEF Job
<1>5. pc \in {"scan", "pull_fetch"} /\ (pc = "scan" => r.puts = {} /\ r.dels = {})
  OBVIOUS
<1> HIDE DEF r, pc, q
<1>6. CycleOK(j, d)
  BY <1>0, <1>1, InTurn
<1>7. HandOK(q, d)
  BY <1>4, <1>5 DEF HandOK, Writing
<1>8. Current(q) = Current(j)
  BY <1>1, <1>4, <1>5 DEF Current, Announcing, Pushing
<1>9. \A p : slot(p) \in Pending(j, d) => slot(p) \in Pending(q, d)
  BY <1>1, <1>3, <1>4, <1>5 DEF Pending, ops
<1>10. CycleOK(q, d)
  BY <1>1, <1>2, <1>4, <1>6, <1>7, <1>8, <1>9, SameAgreed DEF Writing
<1> QED BY <1>0, <1>1, <1>4, <1>5, <1>10, ReadsForward DEF Announcing, Pushing

LEMMA ForwardPullDone ==
  ASSUME IInv, Turns, TableInv, ForwardInv, Plain, NEW w \in Worker, pull_done(w)
  PROVE  ForwardInv'
<1>0. PICK j \in Job : j = job[w]
  BY Working
<1> DEFINE d == Home[w]
           r == [j EXCEPT !.left = j.dels, !.puts = {}, !.pc = "drop"]
<1>1. /\ j.pc = "pull" /\ Go(w, r) /\ UNCHANGED <<cloud, device, history>>
  BY <1>0 DEF pull_done
<1>2. /\ r.pc = "drop" /\ r.table = j.table /\ r.state = j.state /\ r.left = j.dels
      /\ r.puts = {} /\ r.key = j.key
  BY DEF Job
<1> HIDE DEF r
<1>3. CycleOK(j, d)
  BY <1>0, <1>1, InTurn
<1>4. HandOK(r, d) /\ Current(r) = Current(j) /\ Pending(r, d) = Pending(j, d)
  BY <1>1, <1>2 DEF HandOK, Writing, Current, Announcing, Pushing, Pending
<1>5. CycleOK(r, d)
  BY <1>1, <1>2, <1>3, <1>4, SameAgreed DEF Writing
<1> QED BY <1>0, <1>1, <1>2, <1>5, ReadsForward DEF Announcing, Pushing

LEMMA ForwardDropDone ==
  ASSUME IInv, Turns, TableInv, ForwardInv, Plain, NEW w \in Worker, drop_done(w)
  PROVE  ForwardInv'
<1>0. PICK j \in Job : j = job[w]
  BY Working
<1> DEFINE d == Home[w]
           pc == IF j.flag THEN "settle" ELSE "scan"
           dels == IF j.flag THEN j.dels ELSE {}
           r == [j EXCEPT !.pc = pc, !.dels = dels]
<1>1. /\ j.pc = "drop" /\ j.left = {} /\ Go(w, r) /\ UNCHANGED <<cloud, device, history>>
  BY <1>0 DEF drop_done
<1>2. pc \in {"settle", "scan"} /\ (pc = "scan" => dels = {})
  OBVIOUS
<1> HIDE DEF pc, dels
<1>3. /\ r.pc = pc /\ r.table = j.table /\ r.state = j.state /\ r.dels = dels
      /\ r.puts = j.puts /\ r.key = j.key
  BY DEF Job
<1> HIDE DEF r
<1>4. CycleOK(j, d) /\ HandOK(j, d)
  BY <1>0, <1>1, InTurn DEF CycleOK
<1>5. HandOK(r, d) /\ Current(r) = Current(j)
  BY <1>1, <1>2, <1>3, <1>4 DEF HandOK, Writing, Current, Announcing, Pushing
<1>6. Pending(j, d) = {}
  BY <1>1 DEF Pending
<1>7. CycleOK(r, d)
  BY <1>1, <1>3, <1>4, <1>5, <1>6, SameAgreed DEF Writing
<1> QED BY <1>0, <1>1, <1>2, <1>3, <1>7, ReadsForward DEF Announcing, Pushing

LEMMA ForwardSettle ==
  ASSUME IInv, Turns, TableInv, ForwardInv, Plain, NEW w \in Worker, settle(w)
  PROVE  ForwardInv'
<1>0. PICK j \in Job : j = job[w]
  BY Working
<1> DEFINE d == Home[w]
           clobbered == {p \in Known(j.state.files) :
                           /\ j.table[p] = NONE
                           /\ j.state.files[p].blob \notin j.dels
                           /\ disk[d][p] # NONE}
           f == [p \in Path |-> IF p \in clobbered THEN NONE ELSE j.state.files[p]]
           s == [j.state EXCEPT !.files = f]
           r == [j EXCEPT !.state = s, !.dels = {}, !.flag = FALSE, !.pc = "scan"]
<1>1. j.pc = "settle" /\ UNCHANGED <<cloud, device, history>> /\ Go(w, r)
  BY <1>0 DEF settle
<1>2. CycleOK(j, d) /\ HandOK(j, d) /\ TableOK(j)
  BY <1>0, <1>1, InTurn DEF CycleOK
<1>3. j.table = Sealed /\ Current(j) = Sealed
  BY <1>1, <1>2 DEF TableOK, Pushing, Ended, Tabled, Current, Announcing
\* Nothing is forgotten.
<1>4. Pending(j, d) = {} /\ Known(j.state.files) \subseteq Known(Sealed)
  <2>1. Pending(j, d) = {}
    BY <1>1 DEF Pending
  <2> QED BY <1>2, <1>3, <2>1 DEF CycleOK
<1>5. clobbered = {}
  BY <1>3, <1>4 DEF Known
<1>6. f = j.state.files
  BY <1>5 DEF Job, SyncState
<1> HIDE DEF f
<1>7. s.files = f /\ s.generation = j.state.generation
  BY DEF Job, SyncState
<1> HIDE DEF s
<1>8. /\ r.pc = "scan" /\ r.table = j.table /\ r.state = s /\ r.dels = {} /\ r.puts = j.puts
      /\ r.key = j.key
  BY DEF Job
<1> HIDE DEF r
<1>9. HandOK(r, d) /\ Current(r) = Current(j)
  BY <1>1, <1>2, <1>3, <1>8 DEF HandOK, Writing, Current, Announcing, Pushing
<1>10. CycleOK(r, d)
  BY <1>1, <1>2, <1>4, <1>6, <1>7, <1>8, <1>9, SameAgreed DEF Writing
<1> QED BY <1>0, <1>1, <1>8, <1>10, ReadsForward DEF Announcing, Pushing

LEMMA ForwardScan ==
  ASSUME IInv, Turns, TableInv, ForwardInv, Plain, NEW w \in Worker, scan(w)
  PROVE  ForwardInv'
<1>0. PICK j \in Job : j = job[w]
  BY Working
<1> DEFINE d == Home[w]
           changed == {p \in Known(disk[d]) : ~Clean(j, disk[d][p], p)}
           deleted == Deleted(d, j)
           found == [p \in Path |-> IF p \in changed THEN disk[d][p] ELSE NONE]
           pc == IF changed = {} /\ deleted = {} /\ ~Rekeys(j) THEN "save"
                 ELSE IF j.table # NONE THEN "put" ELSE "push_fetch"
           r == [j EXCEPT !.found = found, !.todo = changed, !.gone = deleted, !.pc = pc]
<1>1. j.pc = "scan" /\ Go(w, r) /\ UNCHANGED <<cloud, device, history>>
  BY <1>0 DEF scan
<1>2. \A p \in changed : found[p] = disk[d][p] /\ ~Clean(j, disk[d][p], p)
  BY DEF Known
<1>3. \A p \in deleted : disk[d][p] = NONE
  BY DEF Deleted
<1>4. pc \in {"save", "put", "push_fetch"} /\ (pc = "put" => j.table # NONE)
  OBVIOUS
<1> HIDE DEF changed, deleted, found, pc
<1>5. /\ r.pc = pc /\ r.table = j.table /\ r.state = j.state /\ r.found = found
      /\ r.todo = changed /\ r.gone = deleted /\ r.dels = j.dels /\ r.puts = j.puts
      /\ r.key = j.key
  BY DEF Job
<1> HIDE DEF r
<1>6. CycleOK(j, d) /\ HandOK(j, d) /\ TableOK(j)
  BY <1>0, <1>1, InTurn DEF CycleOK
<1>7. pc = "put" => j.table = Sealed
  BY <1>1, <1>4, <1>6 DEF TableOK, Pushing, Ended
<1>8. j.puts = {} /\ j.dels = {}
  BY <1>1, <1>6 DEF HandOK
<1>9. \A p \in changed : ~Clean(r, disk[d][p], p)
  BY <1>2, <1>5 DEF Clean
<1>10. HandOK(r, d)
  BY <1>2, <1>3, <1>4, <1>5, <1>8, <1>9 DEF HandOK, Writing
<1>11. Current(r) = Current(j) /\ Pending(r, d) = Pending(j, d)
  BY <1>1, <1>4, <1>5, <1>7 DEF Current, Announcing, Pushing, Pending
<1>12. CycleOK(r, d)
  BY <1>1, <1>5, <1>6, <1>10, <1>11, SameAgreed DEF Writing
<1> QED BY <1>0, <1>1, <1>4, <1>5, <1>7, <1>8, <1>12, ReadsForward DEF Announcing, Pushing

\* A cycle that agrees on a path, or forgets it.
LEMMA OneAgreed ==
  ASSUME NEW j, NEW r, NEW d, CycleOK(j, d), HandOK(r, d), r.key = j.key,
         r.state.generation = j.state.generation, Current(r) = Current(j),
         j.pc \notin Writing, NEW p \in Path,
         \A x \in Path \ {p} : r.state.files[x] = j.state.files[x],
         r.state.files[p] # NONE =>
           /\ r.state.files[p].blob = slot(p)
           /\ p \in Known(Current(j))
           /\ blobs[slot(p)].version \notin parents[r.state.files[p].hash],
         Kept(d, r.state, p) \/ (r.pc \in Writing /\ r.got.path = p),
         \A x \in Known(j.state.files) \ (Known(Current(j)) \cup {p}) :
           slot(x) \in Pending(j, d) => slot(x) \in Pending(r, d)
  PROVE  CycleOK(r, d)
<1>1. \A x \in Known(r.state.files) : x = p \/ (x # p /\ x \in Known(j.state.files))
  BY DEF Known
<1>2. Slots(r.state.files)
  BY <1>1 DEF CycleOK, Slots, Known
<1>3. Newer(r.state, Current(r))
  BY <1>1 DEF CycleOK, Newer, Known
<1>4. \A x \in Path : Kept(d, r.state, x) \/ (r.pc \in Writing /\ r.got.path = x)
  BY DEF CycleOK, Kept
<1>5. \A x \in Known(r.state.files) \ Known(Current(r)) : slot(x) \in Pending(r, d)
  BY <1>1 DEF CycleOK, Known
<1> QED BY <1>2, <1>3, <1>4, <1>5 DEF CycleOK

LEMMA AgreedHere ==
  ASSUME NEW j \in Job, NEW p \in Path, NEW v \in Version, NEW n \in Name,
         NEW r, r = Agreed(j, p, v, n)
  PROVE  /\ r \in Job /\ r.pc = j.pc /\ r.table = j.table /\ r.todo = j.todo
         /\ r.left = j.left /\ r.verb = j.verb /\ r.key = j.key
         /\ r.puts = j.puts /\ r.dels = j.dels
         /\ r.state.generation = j.state.generation /\ r.state.cursor = j.state.cursor
         /\ r.state.files[p] # NONE /\ r.state.files[p].hash = v /\ r.state.files[p].blob = n
         /\ \A q \in Path \ {p} : r.state.files[q] = j.state.files[q]
<1> DEFINE e == [hash |-> v, blob |-> n]
           s == [j.state EXCEPT !.files[p] = e]
           q == [j EXCEPT !.state = s]
<1>1. j.state \in SyncState
  BY DEF Job
<1>2. e \in FileState /\ e \in Maybe(FileState) /\ e.hash = v /\ e.blob = n
  BY DEF FileState, Maybe
<1>3. e # NONE
  BY <1>2, NoneAssumption
<1> HIDE DEF e
<1>4. /\ s \in SyncState /\ s.cursor = j.state.cursor /\ s.generation = j.state.generation
      /\ s.files = [j.state.files EXCEPT ![p] = e]
  BY <1>1, <1>2 DEF SyncState
<1>5. s.files[p] = e /\ \A x \in Path \ {p} : s.files[x] = j.state.files[x]
  BY <1>1, <1>4 DEF SyncState
<1>6. r = q
  BY DEF Agreed, e
<1> HIDE DEF s
<1>7. /\ q \in Job /\ q.pc = j.pc /\ q.table = j.table /\ q.todo = j.todo
      /\ q.state = s /\ q.left = j.left /\ q.verb = j.verb /\ q.key = j.key
      /\ q.puts = j.puts /\ q.dels = j.dels
  BY <1>4 DEF Job
<1> HIDE DEF q
<1> QED BY <1>2, <1>3, <1>4, <1>5, <1>6, <1>7

\* What is in a slot was not written over itself.
LEMMA OwnAge ==
  ASSUME IInv, Aged, NEW v \in Written
  PROVE  v \notin parents[v]
<1>1. parents[v] \subseteq 1 .. v - 1 /\ v \in Nat
  BY DEF Aged, Written
<1> QED BY <1>1

LEMMA ForwardAdopt ==
  ASSUME IInv, Turns, TableInv, ForwardInv, Aged, Plain, NEW w \in Worker, adopt(w)
  PROVE  ForwardInv'
<1>0. PICK j \in Job : j = job[w]
  BY Working
<1> DEFINE d == Home[w]
<1>1. /\ j.pc = "adopt" /\ UNCHANGED <<cloud, device, parents, sent, had, faults>>
      /\ d \in Device /\ WorkOK(j, d)
  BY <1>0, Working DEF adopt
<1>2. PICK p \in j.todo :
        IF ~Opens(j.table[p])
        THEN GiveUp(w)
        ELSE LET v == blobs[j.table[p].blob].version
                 r == Agreed([j EXCEPT !.todo = @ \ {p}], p, v, j.table[p].blob)
             IN  /\ UNCHANGED <<cut, torn>>
                 /\ IF j.verb = "pull" \/ disk[d][p] = NONE
                    THEN Go(w, [r EXCEPT !.pc = "adopt_write",
                           !.got = [path |-> p, version |-> v, seen |-> disk[d][p]]])
                    ELSE Go(w, r)
  BY <1>0 DEF adopt
<1>3. CASE ~Opens(j.table[p])
  BY <1>2, <1>3 DEF GiveUp, ForwardInv, Plain
<1>4. CASE Opens(j.table[p])
  <2> DEFINE n == j.table[p].blob
             v == blobs[n].version
             k == [j EXCEPT !.todo = @ \ {p}]
             r == Agreed(k, p, v, n)
             g == [path |-> p, version |-> v, seen |-> disk[d][p]]
             q == [r EXCEPT !.pc = "adopt_write", !.got = g]
  <2>1. j.table = Sealed /\ TableOK(j) /\ CycleOK(j, d) /\ HandOK(j, d) /\ Slots(Sealed)
    BY <1>0, <1>1, InTurn DEF TableOK, Pushing, Ended, Tabled, CycleOK
  <2>2. p \in Path /\ Sealed[p] \in Entry /\ p \in Known(Sealed)
    BY <1>1, <2>1 DEF WorkOK, Job, Tabled, KeyTable, Maybe, Known
  <2>3. n \in Name /\ v \in Version /\ v \in Written /\ n = slot(p)
    <3>1. n \in Name /\ v \in Version /\ v \in sent
      BY <1>4, <2>1, <2>2, OpensSent DEF IInv
    <3> QED BY <2>1, <2>2, <3>1 DEF IInv, SharedInv, Types, Slots
  <2>4. UNCHANGED history /\ Go(w, IF j.verb = "pull" \/ disk[d][p] = NONE THEN q ELSE r)
    BY <1>1, <1>2, <1>4 DEF history
  <2>5. /\ k \in Job /\ k.pc = j.pc /\ k.table = j.table /\ k.todo = j.todo \ {p}
        /\ k.state = j.state /\ k.verb = j.verb /\ k.key = j.key
    BY DEF Job
  <2>6. v \notin parents[v] /\ v = blobs[slot(p)].version /\ v # NONE
    BY <2>3, OwnAge, CloudAssumption DEF Version
  <2> HIDE DEF n, v, k, r
  <2>7. /\ r \in Job /\ r.pc = k.pc /\ r.table = k.table /\ r.todo = k.todo /\ r.verb = k.verb
        /\ r.key = k.key /\ r.state.generation = k.state.generation
        /\ r.state.cursor = k.state.cursor
        /\ r.state.files[p] # NONE /\ r.state.files[p].hash = v /\ r.state.files[p].blob = n
        /\ \A x \in Path \ {p} : r.state.files[x] = k.state.files[x]
    BY <2>2, <2>3, <2>5, AgreedHere DEF r
  <2>8. /\ r.pc = "adopt" /\ r.table = Sealed /\ r.todo = j.todo \ {p} /\ r.verb = j.verb
        /\ r.key = j.key /\ r.state.generation = j.state.generation
        /\ r.state.cursor = j.state.cursor
        /\ \A x \in Path \ {p} : r.state.files[x] = j.state.files[x]
    BY <1>1, <2>1, <2>5, <2>7
  <2> HIDE DEF g
  <2>9. /\ q.pc = "adopt_write" /\ q.table = Sealed /\ q.todo = r.todo /\ q.state = r.state
        /\ q.got = g /\ q.verb = r.verb /\ q.key = r.key
    BY <2>7, <2>8 DEF Job
  <2>10. g.path = p /\ g.version = v
    BY DEF g
  <2> HIDE DEF q
  <2>11. j.verb # "pull" => r.todo \cap Known(r.state.files) = {}
    BY <1>1, <2>1, <2>8 DEF HandOK, Known
  <2>12. Current(r) = Current(j) /\ Current(q) = Current(j) /\ Current(j) = Sealed
    BY <1>1, <2>8, <2>9 DEF Current, Announcing, Pushing
  <2>13. Pending(r, d) = Pending(j, d) /\ Pending(q, d) = Pending(j, d)
    BY <1>1, <2>8, <2>9 DEF Pending
  <2>14. CASE j.verb = "pull" \/ disk[d][p] = NONE
    <3>1. HandOK(q, d)
      BY <2>7, <2>8, <2>9, <2>10, <2>11, <2>14 DEF HandOK, Writing
    <3>2. CycleOK(q, d)
      BY <1>1, <2>1, <2>2, <2>3, <2>6, <2>7, <2>8, <2>9, <2>10, <2>12, <2>13, <3>1, OneAgreed
         DEF Writing
    <3> QED BY <1>0, <1>1, <2>4, <2>9, <2>14, <3>2, ReadsForward DEF Announcing, Pushing
  <2>15. CASE ~(j.verb = "pull" \/ disk[d][p] = NONE)
    <3>1. HandOK(r, d)
      BY <2>8, <2>11 DEF HandOK, Writing
    <3>2. j.state.files[p] = NONE
      BY <1>1, <2>1, <2>2, <2>15 DEF HandOK, Known
    <3>3. Kept(d, r.state, p)
      BY <1>1, <2>1, <2>2, <3>2 DEF CycleOK, Kept, Writing
    <3>4. CycleOK(r, d)
      BY <1>1, <2>1, <2>2, <2>3, <2>6, <2>7, <2>8, <2>12, <2>13, <3>1, <3>3, OneAgreed
         DEF Writing
    <3> QED BY <1>0, <1>1, <2>4, <2>8, <2>15, <3>4, ReadsForward DEF Announcing, Pushing
  <2> QED BY <2>14, <2>15
<1> QED BY <1>3, <1>4

LEMMA ForwardPull ==
  ASSUME IInv, Turns, TableInv, ForwardInv, Aged, Plain, NEW w \in Worker, pull(w)
  PROVE  ForwardInv'
<1>0. PICK j \in Job : j = job[w]
  BY Working
<1> DEFINE d == Home[w]
<1>1. /\ j.pc = "pull" /\ UNCHANGED <<cloud, device, parents, sent, had, faults>>
      /\ d \in Device /\ j.left \subseteq Name
  BY <1>0, Working DEF pull, Job
<1>2. PICK n \in j.left :
        LET r == [j EXCEPT !.left = @ \ {n}] IN
        IF PathOf(j.table, n) = {}
        THEN Go(w, r) /\ UNCHANGED <<cut, torn>>
        ELSE \E p \in PathOf(j.table, n) :
             IF ~Opens(j.table[p])
             THEN GiveUp(w)
             ELSE LET v == blobs[n].version
                      local == disk[d][p]
                      agreed == Agreed(r, p, v, n)
                  IN  /\ UNCHANGED <<cut, torn>>
                      /\ Go(w, IF local = v THEN agreed
                               ELSE IF Clean(j, local, p)
                               THEN [agreed EXCEPT !.pc = "pull_write",
                                       !.got = [path |-> p, version |-> v, seen |-> local]]
                               ELSE r)
  BY <1>0 DEF pull
<1>3. /\ TableOK(j) /\ j.table = Sealed /\ Slots(Sealed) /\ CycleOK(j, d)
      /\ Current(j) = Sealed
  BY <1>0, <1>1, InTurn DEF TableOK, Pushing, Ended, Tabled, Current, Announcing
<1> DEFINE r == [j EXCEPT !.left = @ \ {n}]
<1>4. /\ r \in Job /\ r.pc = "pull" /\ r.table = Sealed /\ r.state = j.state
      /\ r.puts = j.puts /\ r.dels = j.dels /\ r.key = j.key /\ r.verb = j.verb
  BY <1>1, <1>3 DEF Job
<1>5. \A p \in PathOf(j.table, n) : /\ p \in Path /\ p \in Known(Sealed)
                                    /\ n = Sealed[p].blob /\ n = slot(p)
  BY <1>3 DEF PathOf, Slots, Known
<1> HIDE DEF r
\* The slot is passed by.
<1>6. ASSUME Go(w, r), UNCHANGED <<cut, torn>>
      PROVE  ForwardInv'
  <2>1. /\ HandOK(r, d) /\ Current(r) = Current(j) /\ Pending(r, d) = Pending(j, d)
    BY <1>1, <1>4 DEF HandOK, Writing, Current, Announcing, Pushing, Pending
  <2>2. CycleOK(r, d)
    BY <1>1, <1>3, <1>4, <2>1, SameAgreed DEF Writing
  <2> QED BY <1>0, <1>1, <1>4, <1>6, <2>2, ReadsForward DEF Announcing, Pushing, history
<1>7. ASSUME NEW p \in PathOf(j.table, n), Opens(j.table[p]),
             disk[d][p] = blobs[n].version \/ Clean(j, disk[d][p], p),
             LET v == blobs[n].version
                 local == disk[d][p]
                 agreed == Agreed(r, p, v, n)
             IN  /\ UNCHANGED <<cut, torn>>
                 /\ Go(w, IF local = v THEN agreed
                          ELSE IF Clean(j, local, p)
                          THEN [agreed EXCEPT !.pc = "pull_write",
                                  !.got = [path |-> p, version |-> v, seen |-> local]]
                          ELSE r)
      PROVE  ForwardInv'
  <2> DEFINE v == blobs[n].version
             local == disk[d][p]
             a == Agreed(r, p, v, n)
             g == [path |-> p, version |-> v, seen |-> local]
             q == [a EXCEPT !.pc = "pull_write", !.got = g]
  <2>1. p \in Path /\ p \in Known(Sealed) /\ n = Sealed[p].blob /\ n = slot(p) /\ Sealed[p] \in Entry
    <3>1. p \in Path /\ p \in Known(Sealed) /\ n = Sealed[p].blob /\ n = slot(p)
      BY <1>5, <1>7
    <3> QED BY <3>1, SharedTypes DEF KeyTable, Maybe, Known
  <2>2. n \in Name /\ v \in Version /\ v \in Written
    <3>1. n \in Name /\ v \in Version /\ v \in sent
      BY <1>3, <1>7, <2>1, OpensSent DEF IInv
    <3> QED BY <3>1 DEF IInv, SharedInv, Types
  <2>3. UNCHANGED history /\ ((Go(w, a) /\ local = v) \/ (Go(w, q) /\ Clean(j, local, p)))
    BY <1>1, <1>7 DEF history
  <2>4. v \notin parents[v] /\ v = blobs[slot(p)].version /\ v # NONE
    BY <2>1, <2>2, OwnAge, CloudAssumption DEF Version
  \* What is replaced was agreed on.
  <2>5. Clean(j, local, p) /\ local # NONE => v \notin parents[local]
    BY <1>3, <2>1, <2>4 DEF CycleOK, Newer, Clean, Known
  <2> HIDE DEF v, local
  <2>6. /\ a \in Job /\ a.pc = r.pc /\ a.table = r.table /\ a.puts = r.puts /\ a.dels = r.dels
        /\ a.key = r.key /\ a.verb = r.verb
        /\ a.state.generation = r.state.generation /\ a.state.cursor = r.state.cursor
        /\ a.state.files[p] # NONE /\ a.state.files[p].hash = v /\ a.state.files[p].blob = n
        /\ \A x \in Path \ {p} : a.state.files[x] = r.state.files[x]
    BY <1>4, <2>1, <2>2, AgreedHere DEF a
  <2> HIDE DEF a, g
  <2>7. /\ q.pc = "pull_write" /\ q.table = a.table /\ q.state = a.state /\ q.dels = a.dels
        /\ q.puts = a.puts /\ q.got = g /\ q.key = a.key
    BY <2>6 DEF Job
  <2>8. g.path = p /\ g.version = v
    BY DEF g
  <2> HIDE DEF q
  <2>9. Current(a) = Current(j) /\ Current(q) = Current(j)
    BY <1>1, <1>4, <2>6, <2>7 DEF Current, Announcing, Pushing
  <2>10. Pending(a, d) = Pending(j, d) /\ Pending(q, d) = Pending(j, d)
    BY <1>1, <1>4, <2>4, <2>6, <2>7, <2>8 DEF Pending
  <2>11. CASE Go(w, a) /\ local = v
    <3>1. HandOK(a, d)
      BY <1>4, <2>6 DEF HandOK, Writing
    <3>2. Kept(d, a.state, p)
      BY <2>6, <2>11 DEF Kept, local
    <3>3. CycleOK(a, d)
      BY <1>1, <1>3, <1>4, <2>1, <2>4, <2>6, <2>9, <2>10, <3>1, <3>2, OneAgreed DEF Writing
    <3> QED BY <1>0, <1>1, <1>4, <2>3, <2>6, <2>11, <3>3, ReadsForward DEF Announcing, Pushing
  <2>12. CASE Go(w, q) /\ Clean(j, local, p)
    <3>1. HandOK(q, d)
      BY <2>4, <2>5, <2>6, <2>7, <2>8, <2>12 DEF HandOK, Writing, local
    <3>2. CycleOK(q, d)
      BY <1>1, <1>3, <1>4, <2>1, <2>4, <2>6, <2>7, <2>8, <2>9, <2>10, <3>1, OneAgreed
         DEF Writing
    <3> QED BY <1>0, <1>1, <2>3, <2>7, <2>12, <3>2, ReadsForward DEF Announcing, Pushing
  <2> QED BY <2>3, <2>11, <2>12
<1>8. CASE PathOf(j.table, n) = {}
  BY <1>2, <1>6, <1>8 DEF r
<1>9. CASE PathOf(j.table, n) # {}
  <2>1. PICK p \in PathOf(j.table, n) :
             IF ~Opens(j.table[p])
             THEN GiveUp(w)
             ELSE LET v == blobs[n].version
                      local == disk[d][p]
                      agreed == Agreed(r, p, v, n)
                  IN  /\ UNCHANGED <<cut, torn>>
                      /\ Go(w, IF local = v THEN agreed
                               ELSE IF Clean(j, local, p)
                               THEN [agreed EXCEPT !.pc = "pull_write",
                                       !.got = [path |-> p, version |-> v, seen |-> local]]
                               ELSE r)
    BY <1>2, <1>9 DEF r
  <2>2. CASE ~Opens(j.table[p])
    BY <2>1, <2>2 DEF GiveUp, ForwardInv, Plain
  <2>3. CASE /\ Opens(j.table[p])
             /\ ~(disk[d][p] = blobs[n].version \/ Clean(j, disk[d][p], p))
    <3>1. Go(w, r) /\ UNCHANGED <<cut, torn>>
      BY <2>1, <2>3
    <3> QED BY <1>6, <3>1
  <2>4. CASE /\ Opens(j.table[p])
             /\ disk[d][p] = blobs[n].version \/ Clean(j, disk[d][p], p)
    BY <1>7, <2>1, <2>4
  <2> QED BY <2>2, <2>3, <2>4
<1> QED BY <1>8, <1>9

LEMMA ForwardDrop ==
  ASSUME IInv, Turns, TableInv, ForwardInv, Plain, NEW w \in Worker, drop(w)
  PROVE  ForwardInv'
<1> DEFINE j == job[w]
           d == Home[w]
<1>0. j \in Job /\ j = job[w] /\ d \in Device
  BY Working
<1>1. j.pc = "drop" /\ UNCHANGED <<cloud, device, history>>
  BY DEF drop
<1>2. PICK n \in j.left :
        LET r == [j EXCEPT !.left = @ \ {n}]
            rels == {p \in Known(j.state.files) : j.state.files[p].blob = n}
        IN  IF \A p \in rels : j.table[p] # NONE
            THEN Go(w, r)
            ELSE \E p \in rels :
                 LET forgotten == [r EXCEPT !.state.files[p] = NONE] IN
                 Go(w, IF disk[d][p] # NONE /\ Clean(j, disk[d][p], p)
                       THEN [forgotten EXCEPT !.pc = "pull_write",
                               !.got = [path |-> p, version |-> NONE, seen |-> disk[d][p]]]
                       ELSE forgotten)
  BY DEF drop
<1>3. /\ j.table = Sealed /\ CycleOK(j, d) /\ HandOK(j, d) /\ Current(j) = Sealed
      /\ Slots(j.state.files) /\ j.puts = {}
  BY <1>0, <1>1, InTurn
     DEF TableOK, Pushing, Ended, Tabled, CycleOK, HandOK, Current, Announcing
<1> HIDE DEF j
<1> DEFINE r == [j EXCEPT !.left = @ \ {n}]
<1>4. /\ r \in Job /\ r.pc = "drop" /\ r.table = Sealed /\ r.state = j.state
      /\ r.puts = {} /\ r.key = j.key /\ r.left = j.left \ {n} /\ r.verb = j.verb
  BY <1>0, <1>1, <1>3 DEF Job
<1> HIDE DEF r
\* The slot is in use again.
<1>5. CASE /\ Go(w, r)
           /\ \A p \in Known(j.state.files) : j.state.files[p].blob = n => j.table[p] # NONE
  <2>1. HandOK(r, d) /\ Current(r) = Current(j)
    BY <1>3, <1>4 DEF HandOK, Writing, Current, Announcing, Pushing
  <2>2. ASSUME NEW p \in Known(j.state.files) \ Known(Current(j)), slot(p) \in Pending(j, d)
        PROVE  slot(p) \in Pending(r, d)
    <3>1. slot(p) # n
      BY <1>3, <1>5, <2>2 DEF Slots, Known
    <3> QED BY <1>1, <1>4, <2>2, <3>1 DEF Pending
  <2>3. CycleOK(r, d)
    BY <1>1, <1>3, <1>4, <2>1, <2>2, SameAgreed DEF Writing
  <2> QED BY <1>0, <1>1, <1>4, <1>5, <2>3, ReadsForward DEF Announcing, Pushing
\* The file goes, or it has been edited and is forgotten.
<1>6. ASSUME NEW p \in Known(j.state.files), j.state.files[p].blob = n,
             LET forgotten == [r EXCEPT !.state.files[p] = NONE] IN
             Go(w, IF disk[d][p] # NONE /\ Clean(j, disk[d][p], p)
                   THEN [forgotten EXCEPT !.pc = "pull_write",
                           !.got = [path |-> p, version |-> NONE, seen |-> disk[d][p]]]
                   ELSE forgotten)
      PROVE  ForwardInv'
  <2> DEFINE s == [j.state EXCEPT !.files[p] = NONE]
             f == [r EXCEPT !.state = s]
             g == [path |-> p, version |-> NONE, seen |-> disk[d][p]]
             q == [f EXCEPT !.pc = "pull_write", !.got = g]
  <2>1. j.state \in SyncState /\ p \in Path /\ slot(p) = n
    BY <1>0, <1>3, <1>6 DEF Job, Known, Slots
  <2>2. /\ s.generation = j.state.generation
        /\ s.files = [j.state.files EXCEPT ![p] = NONE] /\ s.files[p] = NONE
    BY <2>1 DEF SyncState
  <2>3. \A x \in Path \ {p} : s.files[x] = j.state.files[x]
    BY <2>1, <2>2 DEF SyncState
  <2>4. [r EXCEPT !.state.files[p] = NONE] = f
    BY <1>4
  <2>5. Go(w, IF disk[d][p] # NONE /\ Clean(j, disk[d][p], p) THEN q ELSE f)
    BY <1>6, <2>4
  <2> HIDE DEF s
  <2>6. /\ f.table = Sealed /\ f.state = s /\ f.pc = "drop" /\ f.puts = {} /\ f.key = j.key
        /\ f.left = j.left \ {n}
    BY <1>4 DEF Job
  <2>7. /\ q.table = Sealed /\ q.state = s /\ q.pc = "pull_write" /\ q.got = g /\ q.puts = {}
        /\ q.key = j.key /\ q.left = j.left \ {n}
    BY <1>4 DEF Job
  <2>8. g.path = p /\ g.version = NONE
    OBVIOUS
  <2> HIDE DEF f, q, g
  <2>9. HandOK(f, d) /\ HandOK(q, d)
    BY <2>6, <2>7, <2>8 DEF HandOK, Writing
  <2>0. f.state.files[p] = NONE /\ q.state.files[p] = NONE
    BY <2>2, <2>6, <2>7
  <2>10. Current(f) = Current(j) /\ Current(q) = Current(j)
    BY <1>3, <2>6, <2>7 DEF Current, Announcing, Pushing
  <2>11. ASSUME NEW x \in Known(j.state.files) \ (Known(Current(j)) \cup {p}),
                slot(x) \in Pending(j, d)
         PROVE  slot(x) \in Pending(f, d) /\ slot(x) \in Pending(q, d)
    <3>1. slot(x) # n
      <4>1. slot(x) = [key |-> 1, path |-> x] /\ slot(p) = [key |-> 1, path |-> p]
        BY DEF slot, blob_name
      <4>2. x # p
        BY <2>11
      <4> QED BY <2>1, <4>1, <4>2
    <3> QED BY <1>1, <2>6, <2>7, <2>8, <2>11, <3>1 DEF Pending
  <2>12. CASE disk[d][p] # NONE /\ Clean(j, disk[d][p], p)
    <3>1. Go(w, q)
      BY <2>5, <2>12
    <3>2. CycleOK(q, d)
      <4>1. /\ q.state.generation = j.state.generation
            /\ \A x \in Path \ {p} : q.state.files[x] = j.state.files[x]
        BY <2>2, <2>3, <2>7
      <4>2. q.pc \in Writing /\ q.got.path = p
        BY <2>7, <2>8 DEF Writing
      <4> QED BY <1>1, <1>3, <2>0, <2>1, <2>7, <2>9, <2>10, <2>11, <4>1, <4>2, OneAgreed
              DEF Writing
    <3> QED BY <1>0, <1>1, <2>7, <3>1, <3>2, ReadsForward DEF Announcing, Pushing
  <2>13. CASE ~(disk[d][p] # NONE /\ Clean(j, disk[d][p], p))
    <3>1. Go(w, f)
      BY <2>5, <2>13
    <3>2. Kept(d, s, p)
      BY <1>1, <1>3, <2>1, <2>13 DEF Kept, CycleOK, Clean, Writing
    <3>3. CycleOK(f, d)
      <4>1. /\ f.state.generation = j.state.generation
            /\ \A x \in Path \ {p} : f.state.files[x] = j.state.files[x]
            /\ Kept(d, f.state, p)
        BY <2>2, <2>3, <2>6, <3>2
      <4> QED BY <1>1, <1>3, <2>0, <2>1, <2>6, <2>9, <2>10, <2>11, <4>1, OneAgreed
              DEF Writing
    <3> QED BY <1>0, <1>1, <2>6, <3>1, <3>3, ReadsForward DEF Announcing, Pushing
  <2> QED BY <2>12, <2>13
<1> QED BY <1>2, <1>5, <1>6 DEF r

LEMMA ForwardWriteFile ==
  ASSUME IInv, Turns, TableInv, ForwardInv, Plain, NEW w \in Worker, write_file(w)
  PROVE  ForwardInv'
<1>0. PICK j \in Job : j = job[w]
  BY Working
<1> DEFINE d == Home[w]
           pc == CASE j.pc = "adopt_write" -> "adopt"
                   [] j.pc = "pull_write" /\ j.got.version # NONE -> "pull"
                   [] j.pc = "pull_write" /\ j.got.version = NONE -> "drop"
           r == [j EXCEPT !.got = NONE, !.pc = pc]
<1>1. /\ j.pc \in {"adopt_write", "pull_write"} /\ Go(w, r) /\ d \in Device /\ GotOK(j)
      /\ SetFile(d, j.got.path, j.got.version)
      /\ UNCHANGED <<cloud, saved, key, parents, sent, faults, cut, torn>>
  BY <1>0, Working DEF write_file
<1>2. PICK p \in Path : p = j.got.path
  BY <1>1 DEF GotOK, Holding, Write
<1>3. PICK v : v = j.got.version
  OBVIOUS
<1>4. /\ disk'[d][p] = v /\ \A x \in Path \ {p} : disk'[d][x] = disk[d][x]
      /\ \A e \in Device \ {d} : disk'[e] = disk[e]
  BY <1>1, <1>2, <1>3 DEF SetFile, IInv, SharedInv, Types
<1>5. /\ pc \in {"adopt", "pull", "drop"} /\ (pc = "adopt" <=> j.pc = "adopt_write")
      /\ (pc = "drop" <=> j.pc = "pull_write" /\ j.got.version = NONE)
  BY <1>1
<1> HIDE DEF pc
<1>6. /\ r.pc = pc /\ r.table = j.table /\ r.state = j.state /\ r.todo = j.todo
      /\ r.left = j.left /\ r.verb = j.verb /\ r.dels = j.dels /\ r.puts = j.puts
      /\ r.key = j.key
  BY DEF Job
<1> HIDE DEF r
<1>7. UNCHANGED <<blobs, manifest, log, sent, parents, saved, key>>
  BY <1>1 DEF cloud
<1>8. CycleOK(j, d) /\ HandOK(j, d)
  BY <1>0, <1>1, InTurn DEF CycleOK
<1>9. PICK t : t = Sealed
  OBVIOUS
<1>10. Current(j) = t /\ Current(r)' = t /\ Sealed' = t
  BY <1>1, <1>5, <1>6, <1>7, <1>9 DEF Current, Announcing, Pushing, Sealed
<1>11. CycleOK(r, d)'
  <2>1. HandOK(r, d)'
    BY <1>1, <1>5, <1>6, <1>8 DEF HandOK, Writing
  <2>2. ASSUME NEW x \in Path PROVE Kept(d, r.state, x)'
    <3>1. CASE x = p
      BY <1>1, <1>2, <1>3, <1>4, <1>6, <1>8, <3>1 DEF Kept, HandOK, Writing
    <3>2. CASE x # p
      BY <1>2, <1>4, <1>6, <1>7, <1>8, <3>2 DEF Kept, CycleOK
    <3> QED BY <3>1, <3>2
  <2>3. Newer(r.state, t)'
    BY <1>6, <1>7, <1>8, <1>10 DEF CycleOK, Newer, Known
  <2>4. Pending(r, d)' = Pending(j, d)
    <3>1. CASE pc = "adopt"
      BY <1>5, <1>6, <1>7, <3>1 DEF Pending, NetDels, Foreign
    <3>2. CASE pc # "adopt"
      BY <1>1, <1>5, <1>6, <3>2 DEF Pending
    <3> QED BY <3>1, <3>2
  <2> QED BY <1>6, <1>8, <1>10, <2>1, <2>2, <2>3, <2>4 DEF CycleOK, Newer, Slots, Known
<1>12. ASSUME NEW e \in Device \ {d}
       PROVE  RestOK(e, Current(r), Coming(r), Leaving(r))'
  <2>1. RestOK(e, t, {}, {})
    BY <1>0, <1>1, <1>9, <1>12, InTurn DEF Current, Coming, Leaving, Announcing, Pushing
  <2>2. PICK s : s = Rest(e)
    OBVIOUS
  <2>3. Rest(e)' = s /\ NetDels(Foreign(e, s.cursor))' = NetDels(Foreign(e, s.cursor))
    BY <1>7, <2>2 DEF Rest, NetDels, Foreign
  <2>4. Newer(s, t)' /\ \A x \in Path : Kept(e, s, x)'
    BY <1>4, <1>7, <2>1, <2>2 DEF RestOK, Newer, Kept, Known
  <2>5. Coming(r)' = {} /\ Leaving(r)' = {}
    BY <1>5, <1>6 DEF Coming, Leaving, Announcing, Pushing
  <2> QED BY <1>10, <2>1, <2>2, <2>3, <2>4, <2>5 DEF RestOK, Newer, Kept, Slots, Known
<1>13. Slots(Sealed)' /\ \A e \in Device : key'[e] = 1
  <2>1. Slots(Sealed) /\ \A e \in Device : key[e] = 1
    BY <1>0, <1>1, InTurn
  <2> QED BY <1>7, <1>9, <1>10, <2>1 DEF Slots, Known
<1>14. r.pc # "idle"
  BY <1>5, <1>6
<1> QED BY <1>0, <1>1, <1>11, <1>12, <1>13, <1>14, InTurn, GoesForward DEF IInv

(***************************************************************************)
(* The steps of a push.                                                    *)
(***************************************************************************)

LEMMA ForwardPut ==
  ASSUME IInv, Turns, TableInv, ForwardInv, Aged, Unsent, Plain, NEW w \in Worker, put(w)
  PROVE  ForwardInv'
<1>0. PICK j \in Job : j = job[w]
  BY Working
<1> DEFINE d == Home[w]
<1>1. /\ d \in Device /\ FoundOK(j, d) /\ WorkOK(j, d) /\ j.pc = "put"
      /\ UNCHANGED <<manifest, log, generation, device, parents, had, faults, cut, torn>>
  BY <1>0, Working DEF put
<1>2. PICK p \in j.todo :
        /\ j.table[p] # NONE \/ UnusedDeks # {}
        /\ LET entry == TableEntry(j.table, j.key, p)
               v == j.found[p]
           IN  /\ blobs' = [blobs EXCEPT ![entry.blob] = [dek |-> entry.dek, version |-> v]]
               /\ sent' = sent \cup {v}
               /\ Go(w, [j EXCEPT !.todo = @ \ {p}, !.found[p] = NONE,
                           !.flag = @ \/ j.table[p] = NONE,
                           !.table[p] = entry,
                           !.puts = @ \cup {entry.blob},
                           !.state.files[p] = [hash |-> v, blob |-> entry.blob]])
  BY <1>0 DEF put
<1>3. PICK v \in Version : v = j.found[p]
  BY <1>1, <1>2 DEF WorkOK, Job, Maybe
<1>4. /\ p \in Path /\ j.table \in KeyTable /\ CycleOK(j, d) /\ HandOK(j, d)
      /\ j.key = 1 /\ Slots(j.table) /\ Slots(Sealed)
  BY <1>0, <1>1, <1>2, InTurn DEF WorkOK, Job, Tabled, CycleOK, Current, Announcing, Pushing
<1>5. PICK entry \in Entry : entry = TableEntry(j.table, j.key, p) /\ entry.dek \in Dek
  <2>1. CASE j.table[p] # NONE
    BY <1>4, <2>1 DEF TableEntry, KeyTable, Maybe, Entry
  <2>2. CASE j.table[p] = NONE
    <3>1. FreshDek \in Dek
      BY <1>2, <2>2, Minted
    <3>2. blob_name(j.key, p) \in Name
      BY <1>4 DEF Name, blob_name, Job
    <3>3. TableEntry(j.table, j.key, p) \in Entry /\ TableEntry(j.table, j.key, p).dek \in Dek
      BY <2>2, <3>1, <3>2 DEF TableEntry, Entry
    <3> QED BY <3>3
  <2> QED BY <2>1, <2>2
<1>6. entry.blob = slot(p) /\ slot(p) \in Name /\ entry # NONE
  <2>1. CASE j.table[p] # NONE
    BY <1>4, <1>5, <2>1, NoneAssumption DEF TableEntry, Slots, Known, Entry
  <2>2. CASE j.table[p] = NONE
    BY <1>4, <1>5, <2>2, NoneAssumption DEF TableEntry, Entry, slot
  <2> QED BY <2>1, <2>2
<1>7. PICK flag : flag = (j.flag \/ j.table[p] = NONE)
  OBVIOUS
<1> DEFINE b == [dek |-> entry.dek, version |-> v]
           e == [hash |-> v, blob |-> entry.blob]
           s == [j.state EXCEPT !.files[p] = e]
           table == [j.table EXCEPT ![p] = entry]
           found == [j.found EXCEPT ![p] = NONE]
           r == [j EXCEPT !.todo = j.todo \ {p}, !.found = found, !.flag = flag,
                          !.table = table, !.puts = j.puts \cup {entry.blob}, !.state = s]
<1>8. blobs' = [blobs EXCEPT ![slot(p)] = b] /\ Go(w, r) /\ sent' = sent \cup {v}
  BY <1>2, <1>3, <1>5, <1>6, <1>7
<1>9. b.version = v /\ e.hash = v /\ e.blob = slot(p) /\ e # NONE
  BY <1>6, NoneAssumption DEF FileState
<1> HIDE DEF b, e
<1>10. /\ s.cursor = j.state.cursor /\ s.generation = j.state.generation
       /\ s.files[p] = e /\ \A x \in Path \ {p} : s.files[x] = j.state.files[x]
  <2>1. j.state \in SyncState
    BY DEF Job
  <2>2. /\ s.cursor = j.state.cursor /\ s.generation = j.state.generation
        /\ s.files = [j.state.files EXCEPT ![p] = e]
    BY <2>1 DEF SyncState
  <2> QED BY <1>4, <2>1, <2>2 DEF SyncState
<1>11. table[p] = entry /\ \A x \in Path \ {p} : table[x] = j.table[x]
  BY <1>4 DEF KeyTable
<1>12. \A x \in Path \ {p} : found[x] = j.found[x]
  BY DEF Job
<1> HIDE DEF s, table, found
<1>13. /\ r.pc = "put" /\ r.table = table /\ r.state = s /\ r.found = found
       /\ r.todo = j.todo \ {p} /\ r.gone = j.gone /\ r.dels = j.dels
       /\ r.puts = j.puts \cup {slot(p)} /\ r.key = 1 /\ r.verb = j.verb
  BY <1>1, <1>4, <1>6 DEF Job
<1> HIDE DEF r
<1>14. blobs'[slot(p)] = b /\ \A m \in Name \ {slot(p)} : blobs'[m] = blobs[m]
  BY <1>6, <1>8, SlotChanges
<1>15. \A x \in Path \ {p} : slot(x) # slot(p) /\ slot(x) \in Name
  BY <1>4 DEF slot, blob_name, Name, Job
<1>16. \A x \in Path \ {p} : blobs'[slot(x)] = blobs[slot(x)]
  BY <1>14, <1>15
\* The version is new to the cloud.
<1>17. v = disk[d][p] /\ v # NONE /\ v \notin sent /\ v \in Written
  <2>1. v = disk[d][p] /\ ~Clean(j, disk[d][p], p) /\ Kept(d, j.state, p)
    BY <1>1, <1>2, <1>3, <1>4 DEF HandOK, CycleOK, Writing
  <2>2. v # NONE /\ v \in Written
    BY <1>1, <1>3, <1>4, CloudAssumption DEF FoundOK, Version
  <2> QED BY <2>1, <2>2 DEF Clean, Kept
<1>18. /\ \A u \in Written : v \notin parents[u]
       /\ \A f \in Device, x \in Path : disk[f][x] = v => f = d /\ x = p
  BY <1>1, <1>4, <1>17 DEF Unsent
<1>19. UNCHANGED <<disk, saved, key>> /\ Sealed' = Sealed
  BY <1>1 DEF device, Sealed
<1>20. CycleOK(r, d)'
  <2>1. HandOK(r, d)'
    <3>1. \A x \in r.todo : r.found[x] = disk[d][x] /\ ~Clean(r, disk[d][x], x)
      <4>1. j.todo \subseteq Path
        BY DEF Job
      <4> QED BY <1>1, <1>4, <1>10, <1>12, <1>13, <4>1 DEF HandOK, Clean
    <3> QED BY <1>1, <1>4, <1>13, <1>19, <3>1 DEF HandOK, Clean, Writing
  <2>2. Newer(s, table)'
    <3>1. ASSUME NEW x \in Known(s.files) \cap Known(table)
          PROVE  blobs'[slot(x)].version \notin parents[s.files[x].hash]
      <4>1. CASE x = p
        BY <1>9, <1>10, <1>14, <1>17, <1>18, <4>1
      <4>2. CASE x # p
        BY <1>1, <1>4, <1>10, <1>11, <1>16, <3>1, <4>2
           DEF CycleOK, Newer, Known, Current, Announcing, Pushing
      <4> QED BY <4>1, <4>2
    <3> QED BY <1>1, <3>1 DEF Newer, Known
  <2>3. ASSUME NEW x \in Path PROVE Kept(d, s, x)'
    <3>1. CASE x = p
      BY <1>9, <1>10, <1>17, <1>19, <3>1 DEF Kept
    <3>2. CASE x # p
      <4>1. Kept(d, j.state, x) /\ disk[d][x] # v
        BY <1>1, <1>4, <1>18, <3>2 DEF CycleOK, Writing
      <4> QED BY <1>8, <1>10, <1>19, <3>2, <4>1 DEF Kept
    <3> QED BY <3>1, <3>2
  <2>4. Slots(s.files) /\ Slots(table)
    BY <1>4, <1>6, <1>9, <1>10, <1>11 DEF CycleOK, Slots, Known
  <2>5. Current(r)' = table /\ s.generation = 1
    BY <1>4, <1>10, <1>13 DEF Current, Announcing, Pushing, CycleOK
  <2>6. \A x \in Known(s.files) \ Known(table) : slot(x) \in Pending(r, d)'
    <3>1. Pending(r, d)' = NetDels(Foreign(d, j.state.cursor))
      BY <1>1, <1>10, <1>13 DEF Pending, NetDels, Foreign
    <3>2. Pending(j, d) = NetDels(Foreign(d, j.state.cursor)) /\ Current(j) = j.table
      BY <1>1 DEF Pending, Current, Announcing, Pushing
    <3>3. \A x \in Known(s.files) \ Known(table) : x \in Known(j.state.files) \ Known(j.table)
      BY <1>6, <1>10, <1>11 DEF Known
    <3> QED BY <1>4, <3>1, <3>2, <3>3 DEF CycleOK
  <2> QED BY <1>13, <2>1, <2>2, <2>3, <2>4, <2>5, <2>6 DEF CycleOK, Newer, Slots, Known
<1>21. \A x \in Known(r.table) :
         \/ x \in Known(j.table) /\ blobs'[slot(x)] = blobs[slot(x)]
         \/ \A u \in Written : blobs'[slot(x)].version \notin parents[u]
  BY <1>9, <1>11, <1>13, <1>14, <1>16, <1>18 DEF Known
<1>22. \A x \in Path \ Known(r.table) :
         x \notin Known(j.table) /\ (slot(x) \in r.puts => slot(x) \in j.puts)
  BY <1>6, <1>11, <1>13, <1>15 DEF Known
<1>23. \A f \in Device \ {d}, x \in Path : disk[f][x] \in sent' => disk[f][x] \in sent
  BY <1>8, <1>18
<1>24. Slots(Sealed)'
  BY <1>4, <1>19 DEF Slots, Known
<1> QED BY <1>0, <1>1, <1>8, <1>13, <1>20, <1>21, <1>22, <1>23, <1>24, PushesForward
        DEF Announcing, Pushing

LEMMA ForwardTombstone ==
  ASSUME IInv, Turns, TableInv, ForwardInv, Plain, NEW w \in Worker, tombstone(w)
  PROVE  ForwardInv'
<1>0. PICK j \in Job : j = job[w]
  BY Working
<1> DEFINE d == Home[w]
<1>1. /\ j.pc = "put" /\ j.todo = {} /\ WorkOK(j, d)
      /\ UNCHANGED <<manifest, log, generation, device, history>>
  BY <1>0, Working DEF tombstone
<1>2. PICK p \in j.gone :
        LET r == [j EXCEPT !.gone = @ \ {p}, !.state.files[p] = NONE] IN
        IF j.table[p] = NONE
        THEN Go(w, r) /\ UNCHANGED blobs
        ELSE /\ blobs' = [blobs EXCEPT ![j.table[p].blob] = NONE]
             /\ Go(w, [r EXCEPT !.table[p] = NONE, !.flag = TRUE,
                         !.dels = @ \cup {j.table[p].blob}])
  BY <1>0 DEF tombstone
<1>3. /\ p \in Path /\ j.table \in KeyTable /\ CycleOK(j, d) /\ HandOK(j, d)
      /\ j.key = 1 /\ Slots(j.table) /\ Slots(Sealed) /\ disk[d][p] = NONE
  <2>1. /\ p \in Path /\ j.table \in KeyTable /\ CycleOK(j, d) /\ HandOK(j, d)
        /\ j.key = 1 /\ Slots(j.table) /\ Slots(Sealed)
    BY <1>0, <1>1, <1>2, InTurn DEF WorkOK, Job, Tabled, CycleOK, Current, Announcing, Pushing
  <2> QED BY <1>1, <1>2, <2>1 DEF HandOK
<1>4. UNCHANGED <<disk, saved, key, sent, parents, log>> /\ Sealed' = Sealed
  BY <1>1 DEF device, history, Sealed
<1> DEFINE s == [j.state EXCEPT !.files[p] = NONE]
           r == [j EXCEPT !.gone = j.gone \ {p}, !.state = s]
<1>5. /\ s.cursor = j.state.cursor /\ s.generation = j.state.generation
      /\ s.files[p] = NONE /\ \A x \in Path \ {p} : s.files[x] = j.state.files[x]
  <2>1. j.state \in SyncState
    BY DEF Job
  <2>2. /\ s.cursor = j.state.cursor /\ s.generation = j.state.generation
        /\ s.files = [j.state.files EXCEPT ![p] = NONE]
    BY <2>1 DEF SyncState
  <2> QED BY <1>3, <2>1, <2>2 DEF SyncState
<1> HIDE DEF s
\* Whether or not the table had the path.
<1>6. ASSUME NEW q, Go(w, q), q.pc = "put", q.todo = {}, q.key = 1, q.gone \subseteq j.gone,
             q.state = s, q.puts = j.puts, j.dels \subseteq q.dels,
             q.table[p] = NONE, \A x \in Path \ {p} : q.table[x] = j.table[x],
             j.table[p] # NONE => slot(p) \in q.dels,
             \A x \in Path \ {p} : blobs'[slot(x)] = blobs[slot(x)]
      PROVE  ForwardInv'
  <2>1. \A x \in Known(q.table) : x # p /\ x \in Known(j.table) /\ blobs'[slot(x)] = blobs[slot(x)]
    BY <1>6 DEF Known
  <2>2. \A x \in Known(s.files) : x # p /\ x \in Known(j.state.files)
    BY <1>5 DEF Known
  <2>3. HandOK(q, d)'
    BY <1>1, <1>3, <1>4, <1>6 DEF HandOK, Writing
  <2>4. Current(q)' = q.table /\ Current(j) = j.table
    BY <1>1, <1>6 DEF Current, Announcing, Pushing
  <2>5. Newer(s, q.table)'
    <3>1. ASSUME NEW x \in Known(s.files) \cap Known(q.table)
          PROVE  blobs'[slot(x)].version \notin parents[s.files[x].hash]
      <4>1. x \in Path \ {p} /\ s.files[x] = j.state.files[x]
        BY <1>5, <2>2, <3>1 DEF Known
      <4> QED BY <1>3, <2>1, <2>2, <2>4, <3>1, <4>1 DEF CycleOK, Newer
    <3> QED BY <1>4, <3>1 DEF Newer, Known
  <2>6. ASSUME NEW x \in Path PROVE Kept(d, s, x)'
    BY <1>1, <1>3, <1>4, <1>5 DEF CycleOK, Kept, Writing
  <2>7. Slots(s.files) /\ Slots(q.table)
    BY <1>3, <1>5, <1>6, <2>1, <2>2 DEF CycleOK, Slots, Known
  <2>8. \A x \in Known(s.files) \ Known(q.table) : slot(x) \in Pending(q, d)'
    <3>1. Pending(q, d)' = NetDels(Foreign(d, j.state.cursor))
      BY <1>4, <1>5, <1>6 DEF Pending, NetDels, Foreign
    <3>2. Pending(j, d) = NetDels(Foreign(d, j.state.cursor))
      BY <1>1 DEF Pending
    <3>3. \A x \in Known(s.files) \ Known(q.table) : x \in Known(j.state.files) \ Known(j.table)
      BY <1>6, <2>2 DEF Known
    <3> QED BY <1>3, <2>4, <3>1, <3>2, <3>3 DEF CycleOK
  <2>9. CycleOK(q, d)'
    <3>1. s.generation = 1
      BY <1>3, <1>5 DEF CycleOK
    <3> QED BY <1>6, <2>3, <2>4, <2>5, <2>6, <2>7, <2>8, <3>1
            DEF CycleOK, Newer, Slots, Known
  <2>10. \A x \in Path \ Known(q.table) :
           slot(x) \in q.dels \/ (x \notin Known(j.table) /\ q.puts = j.puts)
    BY <1>6 DEF Known
  <2>11. Slots(Sealed)'
    BY <1>3, <1>4 DEF Slots, Known
  <2> QED BY <1>0, <1>1, <1>4, <1>6, <2>1, <2>9, <2>10, <2>11, PushesForward
          DEF Announcing, Pushing
<1>7. CASE j.table[p] = NONE
  <2>1. Go(w, r) /\ UNCHANGED blobs
    BY <1>2, <1>7 DEF s
  <2>2. /\ r.pc = "put" /\ r.table = j.table /\ r.state = s /\ r.todo = {} /\ r.key = 1
        /\ r.gone = j.gone \ {p} /\ r.dels = j.dels /\ r.puts = j.puts
    BY <1>1, <1>3 DEF Job
  <2> HIDE DEF r
  <2> QED BY <1>6, <1>7, <2>1, <2>2
<1>8. CASE j.table[p] # NONE
  <2> DEFINE table == [j.table EXCEPT ![p] = NONE]
             q == [r EXCEPT !.table = table, !.flag = TRUE, !.dels = j.dels \cup {slot(p)}]
  <2>1. j.table[p].blob = slot(p) /\ slot(p) \in Name
    BY <1>3, <1>8 DEF Slots, Known, KeyTable, Entry, Maybe
  <2>2. Go(w, q) /\ blobs' = [blobs EXCEPT ![slot(p)] = NONE]
    BY <1>2, <1>8, <2>1 DEF s, Job
  <2>3. table[p] = NONE /\ \A x \in Path \ {p} : table[x] = j.table[x]
    BY <1>3 DEF KeyTable
  <2> HIDE DEF table
  <2>4. /\ q.pc = "put" /\ q.table = table /\ q.state = s /\ q.todo = {} /\ q.key = 1
        /\ q.gone = j.gone \ {p} /\ q.dels = j.dels \cup {slot(p)} /\ q.puts = j.puts
    BY <1>1, <1>3 DEF Job
  <2> HIDE DEF q
  <2>5. ASSUME NEW x \in Path \ {p} PROVE blobs'[slot(x)] = blobs[slot(x)]
    <3>1. slot(x) # slot(p) /\ slot(x) \in Name
      BY <1>3, <2>1 DEF slot, blob_name, Name, Job
    <3> QED BY <2>1, <2>2, <3>1, SlotChanges
  <2> QED BY <1>6, <2>2, <2>3, <2>4, <2>5
<1> QED BY <1>7, <1>8

\* No rotation has been: there is nothing to move.
LEMMA ForwardRekey ==
  ASSUME IInv, Turns, TableInv, ForwardInv, Plain, NEW w \in Worker,
         rekey(w) \/ rekey_put(w) \/ rekey_delete(w)
  PROVE  ForwardInv'
<1>0. PICK j \in Job : j = job[w]
  BY Working
<1> DEFINE d == Home[w]
           pc == IF j.flag THEN "publish" ELSE "announce"
           r == [j EXCEPT !.pc = pc]
<1>1. j.pc # "idle"
  BY <1>0 DEF rekey, rekey_put, rekey_delete
<1>2. CycleOK(j, d) /\ HandOK(j, d) /\ TableOK(j) /\ Slots(Sealed)
  BY <1>0, <1>1, InTurn DEF CycleOK
<1>3. ~rekey_put(w) /\ ~rekey_delete(w)
  BY <1>0, <1>2 DEF HandOK, rekey_put, rekey_delete
<1>4. ~Rekeys(j)
  BY <1>2 DEF CycleOK, Rekeys
<1>5. /\ (j.pc = "put" /\ j.todo = {} /\ j.gone = {}) \/ j.pc = "rekey"
      /\ Go(w, r) /\ UNCHANGED <<cloud, device, parents, sent>>
  BY <1>0, <1>3, <1>4 DEF rekey
<1>6. pc \in {"publish", "announce"} /\ (pc = "announce" => ~j.flag)
  OBVIOUS
<1> HIDE DEF pc
<1>7. /\ r.pc = pc /\ r.table = j.table /\ r.state = j.state /\ r.key = j.key
      /\ r.dels = j.dels /\ r.puts = j.puts
  BY DEF Job
<1> HIDE DEF r
<1>8. UNCHANGED <<log, blobs, manifest, disk, saved, key, parents, sent>>
  BY <1>5 DEF cloud, device
<1>9. pc = "announce" => r.table = Sealed
  BY <1>2, <1>5, <1>6, <1>7 DEF TableOK, Pushing
<1>10. HandOK(r, d)
  BY <1>6, <1>7, <1>9 DEF HandOK, Writing
<1>11. Current(r) = Current(j) /\ Pending(r, d) = Pending(j, d)
  BY <1>5, <1>6, <1>7 DEF Current, Pending, Announcing, Pushing
<1>12. CycleOK(r, d)
  BY <1>2, <1>5, <1>6, <1>7, <1>10, <1>11, SameAgreed DEF Writing
<1>13. CycleOK(r, d)'
  BY <1>5, <1>8, <1>12, CycleStays
<1>14. Slots(Sealed)'
  BY <1>2, <1>8 DEF Slots, Sealed, Known
<1>15. j.pc \in Announcing /\ r.pc \in Announcing
  BY <1>5, <1>6, <1>7 DEF Announcing, Pushing
<1>16. \A x \in Path \ Known(r.table) : x \notin Known(j.table) /\ r.puts = j.puts
  BY <1>7
<1> QED BY <1>0, <1>5, <1>7, <1>8, <1>13, <1>14, <1>15, <1>16, PushesForward

LEMMA ForwardPublish ==
  ASSUME IInv, Turns, TableInv, ForwardInv, Plain, NEW w \in Worker, publish(w)
  PROVE  ForwardInv'
<1>0. PICK j \in Job : j = job[w]
  BY Working
<1> DEFINE d == Home[w]
           r == [j EXCEPT !.pc = "announce"]
<1>1. /\ j.pc = "publish" /\ Go(w, r) /\ WorkOK(j, d)
      /\ manifest' = [key |-> j.key, table |-> j.table]
      /\ UNCHANGED <<blobs, log, generation, device, history>>
  BY <1>0, Working DEF publish
<1>2. r.pc = "announce" /\ r.table = j.table /\ r.state = j.state /\ r.dels = j.dels
      /\ r.puts = j.puts /\ r.key = j.key
  BY DEF Job
<1> HIDE DEF r
<1>3. CycleOK(j, d) /\ Slots(j.table) /\ j.table \in KeyTable
  BY <1>0, <1>1, InTurn DEF CycleOK, Current, Announcing, Pushing, WorkOK, Tabled
<1>4. manifest' # NONE /\ Sealed' = j.table
  <2>1. [key |-> j.key, table |-> j.table] \in [key : Key, table : KeyTable]
    BY <1>3 DEF Job
  <2>2. manifest' # NONE /\ manifest'.table = j.table
    BY <1>1, <2>1, NoneAssumption
  <2> QED BY <2>2 DEF Sealed
<1>5. UNCHANGED <<disk, saved, key, sent, parents>>
  BY <1>1 DEF device, history
<1>6. CycleOK(r, d)'
  <2>1. HandOK(r, d)'
    BY <1>2, <1>4 DEF HandOK, Writing
  <2>2. Current(r)' = j.table /\ Current(j) = j.table
    BY <1>1, <1>2 DEF Current, Announcing, Pushing
  <2>3. Pending(r, d)' = Pending(j, d)
    BY <1>1, <1>2 DEF Pending, NetDels, Foreign
  <2>4. Newer(j.state, j.table)' /\ \A x \in Path : Kept(d, j.state, x)'
    BY <1>1, <1>3, <1>5, <2>2 DEF CycleOK, Newer, Kept, Known, Writing
  <2> QED BY <1>2, <1>3, <2>1, <2>2, <2>3, <2>4 DEF CycleOK, Newer, Slots, Known, Kept
<1>7. Slots(Sealed)'
  BY <1>3, <1>4 DEF Slots, Known
<1>8. j.pc \in Announcing /\ r.pc \in Announcing
  BY <1>1, <1>2 DEF Announcing, Pushing
<1>9. \A x \in Path \ Known(r.table) : x \notin Known(j.table) /\ r.puts = j.puts
  BY <1>2
<1> QED BY <1>0, <1>1, <1>2, <1>5, <1>6, <1>7, <1>8, <1>9, PushesForward

(***************************************************************************)
(* The log, and where a device has read it up to.                          *)
(***************************************************************************)

\* A slot that an operation deletes, or that was deleted and is not put again by it, is
\* deleted for whoever reads on.
LEMMA NetDelsGrow ==
  ASSUME IInv, NEW op \in OpPayload, log' = Append(log, op),
         NEW e, NEW c \in Nat, c <= Len(log), NEW n,
         (n \in op.del /\ op.by # e) \/ (n \in NetDels(Foreign(e, c)) /\ n \notin op.put)
  PROVE  n \in NetDels(Foreign(e, c))'
<1> DEFINE L == Len(log)
           F == Foreign(e, c)
           G == {i \in c + 1 .. Len(log') : log'[i].by # e}
<1>1. /\ L \in Nat /\ Len(log') = L + 1 /\ log'[L + 1] = op
      /\ \A i \in 1 .. L : log'[i] = log[i]
  BY SharedTypes
<1>2. F \subseteq c + 1 .. L /\ F \subseteq G
  BY <1>1 DEF Foreign
<1>3. \A i \in G : i \in F \/ (i = L + 1 /\ op.by # e)
  BY <1>1 DEF Foreign
<1>4. op.by # e => L + 1 \in G
  BY <1>1
<1>5. \A i \in F : i \in 1 .. L /\ log'[i] = log[i]
  BY <1>1, <1>2
<1>6. \A i \in G : i \in Nat /\ i <= L + 1
  BY <1>1
<1> HIDE DEF F, G
<1>7. \E i \in G : n \in log'[i].del /\ \A k \in G : n \in log'[k].put => k <= i
  <2>1. CASE n \in op.del /\ op.by # e
    BY <1>1, <1>4, <1>6, <2>1
  <2>2. CASE n \in NetDels(F) /\ n \notin op.put
    <3>1. PICK i \in F : n \in log[i].del /\ \A k \in F : n \in log[k].put => k <= i
      BY <2>2 DEF NetDels
    <3>2. \A k \in G : n \in log'[k].put => k \in F
      BY <1>1, <1>3, <2>2
    <3> QED BY <1>2, <1>5, <3>1, <3>2
  <2> QED BY <2>1, <2>2 DEF F
<1>8. n \in {m \in UNION {log'[i].del : i \in G} :
               \E i \in G : m \in log'[i].del /\ \A k \in G : m \in log'[k].put => k <= i}
  BY <1>7
<1> QED BY <1>8 DEF NetDels, Foreign, G

\* A device is told nothing by its own operations.
LEMMA NetDelsOwn ==
  ASSUME IInv, NEW op \in OpPayload, log' = Append(log, op), NEW c \in Nat
  PROVE  NetDels(Foreign(op.by, c)) \subseteq NetDels(Foreign(op.by, c))'
<1> DEFINE L == Len(log)
           F == Foreign(op.by, c)
           G == {i \in c + 1 .. Len(log') : log'[i].by # op.by}
<1>1. /\ L \in Nat /\ Len(log') = L + 1 /\ log'[L + 1] = op
      /\ \A i \in 1 .. L : log'[i] = log[i]
  BY SharedTypes
<1>2. G = F /\ \A i \in F : log'[i] = log[i]
  BY <1>1 DEF Foreign
<1>3. Foreign(op.by, c)' = G
  BY DEF Foreign
<1> HIDE DEF F, G
<1>4. NetDels(Foreign(op.by, c))' =
        {m \in UNION {log'[i].del : i \in G} :
           \E i \in G : m \in log'[i].del /\ \A k \in G : m \in log'[k].put => k <= i}
  BY <1>3 DEF NetDels
<1>5. NetDels(F) =
        {m \in UNION {log[i].del : i \in F} :
           \E i \in F : m \in log[i].del /\ \A k \in F : m \in log[k].put => k <= i}
  BY DEF NetDels
<1>6. ASSUME NEW m \in NetDels(F) PROVE m \in NetDels(Foreign(op.by, c))'
  <2>1. PICK i \in F : m \in log[i].del /\ \A k \in F : m \in log[k].put => k <= i
    BY <1>5, <1>6
  <2> QED BY <1>2, <1>4, <2>1
<1> QED BY <1>6 DEF F

\* Nobody has read further than the log goes.
CursorInv ==
  /\ \A d \in Device : saved[d] # NONE => saved[d].cursor <= Len(log)
  /\ \A w \in Worker : job[w].state.cursor <= Len(log)

LEMMA CursorMoves ==
  ASSUME IInv, CursorInv, NEW w \in Worker, NEW r, Go(w, r),
         r.state.cursor \in {job[w].state.cursor, Len(log), 0},
         \A d \in Device : saved'[d] = saved[d] \/ saved'[d].cursor = job[w].state.cursor,
         log' = log \/ \E op \in OpPayload : log' = Append(log, op)
  PROVE  CursorInv'
<1>1. Len(log) \in Nat /\ Len(log') \in Nat /\ Len(log) <= Len(log')
  BY SharedTypes
<1>2. \A x \in Worker : job[x].state.cursor \in Nat
  BY Working DEF Job, SyncState
<1>3. \A d \in Device : saved[d] # NONE => saved[d].cursor \in Nat
  BY SharedTypes DEF SyncState
<1>4. job'[w] = r /\ \A x \in Worker \ {w} : job'[x] = job[x]
  BY DEF IInv, JobsInv, Go
<1>5. \A x \in Worker : job'[x].state.cursor <= Len(log')
  BY <1>1, <1>2, <1>4 DEF CursorInv
<1>6. \A d \in Device : saved'[d] # NONE => saved'[d].cursor <= Len(log')
  BY <1>1, <1>2, <1>3 DEF CursorInv
<1> QED BY <1>5, <1>6 DEF CursorInv

LEMMA CursorSteps ==
  ASSUME IInv, CursorInv, NEW w \in Worker, step(w)
  PROVE  CursorInv'
<1>0. PICK j \in Job : j = job[w]
  BY Working
<1> DEFINE Read(r) == r.state.cursor \in {j.state.cursor, Len(log), 0}
<1>1. ASSUME NEW r, Go(w, r), Read(r), UNCHANGED <<saved, log>>
      PROVE  CursorInv'
  BY <1>0, <1>1, CursorMoves
<1>2. CASE latest_seq(w) \/ ops_since(w)
  <2> DEFINE s == [j.state EXCEPT !.cursor = Len(log)]
  <2>1. s.cursor = Len(log)
    BY DEF Job, SyncState
  <2> HIDE DEF s
  <2>2. CASE latest_seq(w)
    <3> DEFINE r == [j EXCEPT !.state = s, !.pc = "adopt_fetch"]
    <3>1. Go(w, r) /\ UNCHANGED <<saved, log>>
      BY <1>0, <2>2 DEF latest_seq, s, cloud, device
    <3>2. r.state = s
      BY DEF Job
    <3> HIDE DEF r
    <3> QED BY <1>1, <2>1, <3>1, <3>2
  <2>3. CASE ops_since(w)
    <3>1. PICK puts, dels, flag, pc :
            Go(w, [[j EXCEPT !.state = s, !.puts = puts, !.left = puts, !.dels = dels,
                             !.flag = flag] EXCEPT !.pc = pc])
      BY <1>0, <2>3 DEF ops_since, s
    <3> DEFINE r == [[j EXCEPT !.state = s, !.puts = puts, !.left = puts, !.dels = dels,
                               !.flag = flag] EXCEPT !.pc = pc]
    <3>2. Go(w, r) /\ UNCHANGED <<saved, log>>
      BY <2>3, <3>1 DEF ops_since, cloud, device
    <3>3. r.state = s
      BY DEF Job
    <3> HIDE DEF r
    <3> QED BY <1>1, <2>1, <3>2, <3>3
  <2> QED BY <1>2, <2>2, <2>3
<1>3. ASSUME GiveUp(w), UNCHANGED <<saved, log>>
      PROVE  CursorInv'
  <2>1. Read(Idle)
    BY DEF Idle, NewState
  <2> QED BY <1>1, <1>3, <2>1 DEF GiveUp
<1>4. ASSUME NEW phase, NEW next, fetch_table(w, phase, next)
      PROVE  CursorInv'
  <2>1. UNCHANGED <<saved, log>>
    BY <1>4 DEF fetch_table, cloud, device
  <2>2. CASE ~GiveUp(w)
    <3>1. PICK t, todo : Go(w, [j EXCEPT !.table = t, !.pc = next, !.todo = todo])
      BY <1>0, <1>4, <2>2 DEF fetch_table
    <3> DEFINE r == [j EXCEPT !.table = t, !.pc = next, !.todo = todo]
    <3>2. r.state = j.state
      BY DEF Job
    <3> HIDE DEF r
    <3> QED BY <1>1, <2>1, <3>1, <3>2 DEF r
  <2> QED BY <1>3, <2>1, <2>2
\* One file is agreed on, or forgotten.
<1>5. \A p, e : [j.state EXCEPT !.files[p] = e].cursor = j.state.cursor
  BY DEF Job, SyncState
<1>6. ASSUME NEW k \in Job, NEW s, s.cursor = j.state.cursor, UNCHANGED <<saved, log>>,
             NEW r, r = [k EXCEPT !.state = s],
             \/ Go(w, r)
             \/ \E pc, got : Go(w, [r EXCEPT !.pc = pc, !.got = got])
             \/ \E table, dels : Go(w, [r EXCEPT !.table = table, !.flag = TRUE, !.dels = dels])
      PROVE  CursorInv'
  <2>1. /\ r.state = s
        /\ \A pc, got : [r EXCEPT !.pc = pc, !.got = got].state = s
        /\ \A table, dels : [r EXCEPT !.table = table, !.flag = TRUE, !.dels = dels].state = s
    BY <1>6 DEF Job
  <2>2. CASE Go(w, r)
    BY <1>1, <1>6, <2>1, <2>2
  <2>3. ASSUME NEW pc, NEW got, Go(w, [r EXCEPT !.pc = pc, !.got = got])
        PROVE  CursorInv'
    <3> DEFINE q == [r EXCEPT !.pc = pc, !.got = got]
    <3>1. Go(w, q) /\ q.state = s
      BY <2>1, <2>3
    <3> HIDE DEF q
    <3> QED BY <1>1, <1>6, <3>1
  <2>4. ASSUME NEW table, NEW dels,
               Go(w, [r EXCEPT !.table = table, !.flag = TRUE, !.dels = dels])
        PROVE  CursorInv'
    <3> DEFINE q == [r EXCEPT !.table = table, !.flag = TRUE, !.dels = dels]
    <3>1. Go(w, q) /\ q.state = s
      BY <2>1, <2>4
    <3> HIDE DEF q
    <3> QED BY <1>1, <1>6, <3>1
  <2> QED BY <1>6, <2>2, <2>3, <2>4
<1>7. CASE adopt(w)
  <2>1. UNCHANGED <<saved, log>>
    BY <1>7 DEF adopt, cloud, device
  <2>2. PICK p \in j.todo :
          \/ GiveUp(w)
          \/ \E v, n, got : LET r == Agreed([j EXCEPT !.todo = j.todo \ {p}], p, v, n) IN
               Go(w, r) \/ Go(w, [r EXCEPT !.pc = "adopt_write", !.got = got])
    BY <1>0, <1>7 DEF adopt
  <2> DEFINE k == [j EXCEPT !.todo = j.todo \ {p}]
  <2>3. k \in Job /\ k.state = j.state
    BY DEF Job
  <2> HIDE DEF k
  <2>4. CASE GiveUp(w)
    BY <1>3, <2>1, <2>4
  <2>5. ASSUME NEW v, NEW n, NEW got,
               LET r == Agreed(k, p, v, n) IN
               Go(w, r) \/ Go(w, [r EXCEPT !.pc = "adopt_write", !.got = got])
        PROVE  CursorInv'
    <3>1. PICK s : s = [k.state EXCEPT !.files[p] = [hash |-> v, blob |-> n]]
      OBVIOUS
    <3>2. PICK r : r = Agreed(k, p, v, n) /\ r = [k EXCEPT !.state = s]
      BY <3>1 DEF Agreed
    <3>3. s.cursor = j.state.cursor
      BY <1>5, <2>3, <3>1
    <3> QED BY <1>6, <2>1, <2>3, <2>5, <3>2, <3>3
  <2> QED BY <2>2, <2>4, <2>5 DEF k
<1>8. CASE pull(w)
  <2>1. UNCHANGED <<saved, log>>
    BY <1>8 DEF pull, cloud, device
  <2>2. PICK m \in j.left :
          \/ GiveUp(w)
          \/ Go(w, [j EXCEPT !.left = j.left \ {m}])
          \/ \E p, v, n, got : LET r == Agreed([j EXCEPT !.left = j.left \ {m}], p, v, n) IN
               Go(w, r) \/ Go(w, [r EXCEPT !.pc = "pull_write", !.got = got])
    BY <1>0, <1>8 DEF pull
  <2> DEFINE k == [j EXCEPT !.left = j.left \ {m}]
  <2>3. k \in Job /\ k.state = j.state
    BY DEF Job
  <2> HIDE DEF k
  <2>4. CASE GiveUp(w) \/ Go(w, k)
    BY <1>1, <1>3, <2>1, <2>3, <2>4
  <2>5. ASSUME NEW p, NEW v, NEW n, NEW got,
               LET r == Agreed(k, p, v, n) IN
               Go(w, r) \/ Go(w, [r EXCEPT !.pc = "pull_write", !.got = got])
        PROVE  CursorInv'
    <3>1. PICK s : s = [k.state EXCEPT !.files[p] = [hash |-> v, blob |-> n]]
      OBVIOUS
    <3>2. PICK r : r = Agreed(k, p, v, n) /\ r = [k EXCEPT !.state = s]
      BY <3>1 DEF Agreed
    <3>3. s.cursor = j.state.cursor
      BY <1>5, <2>3, <3>1
    <3> QED BY <1>6, <2>1, <2>3, <2>5, <3>2, <3>3
  <2> QED BY <2>2, <2>4, <2>5 DEF k
<1>9. CASE drop(w)
  <2>1. UNCHANGED <<saved, log>>
    BY <1>9 DEF drop, cloud, device
  <2>2. PICK m \in j.left :
          \/ Go(w, [j EXCEPT !.left = j.left \ {m}])
          \/ \E p, got : LET r == [[j EXCEPT !.left = j.left \ {m}] EXCEPT !.state.files[p] = NONE] IN
               Go(w, r) \/ Go(w, [r EXCEPT !.pc = "pull_write", !.got = got])
    BY <1>0, <1>9 DEF drop
  <2> DEFINE k == [j EXCEPT !.left = j.left \ {m}]
  <2>3. k \in Job /\ k.state = j.state
    BY DEF Job
  <2> HIDE DEF k
  <2>4. CASE Go(w, k)
    BY <1>1, <2>1, <2>3, <2>4
  <2>5. ASSUME NEW p, NEW got,
               LET r == [k EXCEPT !.state.files[p] = NONE] IN
               Go(w, r) \/ Go(w, [r EXCEPT !.pc = "pull_write", !.got = got])
        PROVE  CursorInv'
    <3>1. PICK s : s = [k.state EXCEPT !.files[p] = NONE]
      OBVIOUS
    <3>2. PICK r : r = [k EXCEPT !.state.files[p] = NONE] /\ r = [k EXCEPT !.state = s]
      BY <3>1
    <3>3. s.cursor = j.state.cursor
      BY <1>5, <2>3, <3>1
    <3> QED BY <1>6, <2>1, <2>3, <2>5, <3>2, <3>3
  <2> QED BY <2>2, <2>4, <2>5 DEF k
<1>10. CASE put(w)
  <2>1. UNCHANGED <<saved, log>>
    BY <1>10 DEF put, device
  <2>2. PICK p \in j.todo :
          LET entry == TableEntry(j.table, j.key, p)
              v == j.found[p]
          IN  Go(w, [j EXCEPT !.todo = @ \ {p}, !.found[p] = NONE,
                       !.flag = @ \/ j.table[p] = NONE,
                       !.table[p] = entry,
                       !.puts = @ \cup {entry.blob},
                       !.state.files[p] = [hash |-> v, blob |-> entry.blob]])
    BY <1>0, <1>10 DEF put
  <2>3. PICK entry, v, flag : /\ entry = TableEntry(j.table, j.key, p) /\ v = j.found[p]
                              /\ flag = (j.flag \/ j.table[p] = NONE)
    OBVIOUS
  <2> DEFINE e == [hash |-> v, blob |-> entry.blob]
             s == [j.state EXCEPT !.files[p] = e]
             table == [j.table EXCEPT ![p] = entry]
             found == [j.found EXCEPT ![p] = NONE]
             r == [j EXCEPT !.todo = j.todo \ {p}, !.found = found, !.flag = flag,
                            !.table = table, !.puts = j.puts \cup {entry.blob}, !.state = s]
  <2>4. Go(w, r)
    BY <2>2, <2>3
  <2>5. s.cursor = j.state.cursor
    BY <1>5
  <2> HIDE DEF s, table, found
  <2>6. r.state = s
    BY DEF Job
  <2> HIDE DEF r
  <2> QED BY <1>1, <2>1, <2>4, <2>5, <2>6
<1>11. CASE tombstone(w)
  <2>1. UNCHANGED <<saved, log>>
    BY <1>11 DEF tombstone, device
  <2>2. PICK p \in j.gone : LET r == [j EXCEPT !.gone = j.gone \ {p}, !.state.files[p] = NONE] IN
          \/ Go(w, r)
          \/ Go(w, [r EXCEPT !.table[p] = NONE, !.flag = TRUE, !.dels = j.dels \cup {j.table[p].blob}])
    BY <1>0, <1>11 DEF tombstone, Job
  <2> DEFINE k == [j EXCEPT !.gone = j.gone \ {p}]
  <2>3. k \in Job /\ k.state = j.state /\ k.table = j.table
    BY DEF Job
  <2>4. PICK s : s = [k.state EXCEPT !.files[p] = NONE] /\ s.cursor = j.state.cursor
    BY <1>5, <2>3
  <2>5. PICK r : r = [k EXCEPT !.state = s]
    OBVIOUS
  <2>6. Go(w, r) \/ \E table, dels : Go(w, [r EXCEPT !.table = table, !.flag = TRUE, !.dels = dels])
    BY <2>2, <2>4, <2>5 DEF Job
  <2> HIDE DEF k
  <2> QED BY <1>6, <2>1, <2>3, <2>4, <2>5, <2>6
<1>12. CASE pull_done(w) \/ drop_done(w) \/ write_file(w) \/ scan(w)
  <2>1. UNCHANGED <<saved, log>>
    BY <1>12 DEF pull_done, drop_done, write_file, scan, cloud, device
  <2>2. CASE pull_done(w)
    <3>1. PICK left : Go(w, [j EXCEPT !.left = left, !.puts = {}, !.pc = "drop"])
      BY <1>0, <2>2 DEF pull_done
    <3> DEFINE r == [j EXCEPT !.left = left, !.puts = {}, !.pc = "drop"]
    <3>2. Go(w, r) /\ r.state = j.state
      BY <3>1 DEF Job
    <3> HIDE DEF r
    <3> QED BY <1>1, <2>1, <3>2
  <2>3. CASE drop_done(w)
    <3>1. PICK pc, dels : Go(w, [j EXCEPT !.pc = pc, !.dels = dels])
      BY <1>0, <2>3 DEF drop_done
    <3> DEFINE r == [j EXCEPT !.pc = pc, !.dels = dels]
    <3>2. Go(w, r) /\ r.state = j.state
      BY <3>1 DEF Job
    <3> HIDE DEF r
    <3> QED BY <1>1, <2>1, <3>2
  <2>4. CASE write_file(w)
    <3>1. PICK pc : Go(w, [j EXCEPT !.got = NONE, !.pc = pc])
      BY <1>0, <2>4 DEF write_file
    <3> DEFINE r == [j EXCEPT !.got = NONE, !.pc = pc]
    <3>2. Go(w, r) /\ r.state = j.state
      BY <3>1 DEF Job
    <3> HIDE DEF r
    <3> QED BY <1>1, <2>1, <3>2
  <2>5. CASE scan(w)
    <3>1. PICK found, todo, gone, pc : Go(w, [j EXCEPT !.found = found, !.todo = todo, !.gone = gone, !.pc = pc])
      BY <1>0, <2>5 DEF scan
    <3> DEFINE r == [j EXCEPT !.found = found, !.todo = todo, !.gone = gone, !.pc = pc]
    <3>2. Go(w, r) /\ r.state = j.state
      BY <3>1 DEF Job
    <3> HIDE DEF r
    <3> QED BY <1>1, <2>1, <3>2
  <2> QED BY <1>12, <2>2, <2>3, <2>4, <2>5
<1>13. CASE settle(w)
  <2>1. UNCHANGED <<saved, log>>
    BY <1>13 DEF settle, cloud, device
  <2>2. PICK f : Go(w, [j EXCEPT !.state.files = f, !.dels = {}, !.flag = FALSE, !.pc = "scan"])
    BY <1>0, <1>13 DEF settle
  <2> DEFINE s == [j.state EXCEPT !.files = f]
             r == [j EXCEPT !.state = s, !.dels = {}, !.flag = FALSE, !.pc = "scan"]
  <2>3. Go(w, r)
    BY <2>2
  <2>4. s.cursor = j.state.cursor
    BY DEF Job, SyncState
  <2> HIDE DEF s
  <2>5. r.state = s
    BY DEF Job
  <2> HIDE DEF r
  <2> QED BY <1>1, <2>1, <2>3, <2>4, <2>5
<1>14. CASE rekey(w) \/ rekey_delete(w) \/ publish(w)
  <2>1. UNCHANGED <<saved, log>>
    BY <1>14 DEF rekey, rekey_delete, publish, cloud, device
  <2>2. CASE rekey(w)
    <3>1. \/ GiveUp(w)
          \/ \E pc : Go(w, [j EXCEPT !.pc = pc])
          \/ \E got : Go(w, [j EXCEPT !.pc = "rekey_put", !.got = got])
      BY <1>0, <2>2 DEF rekey
    <3>2. ASSUME NEW pc, Go(w, [j EXCEPT !.pc = pc])
          PROVE  CursorInv'
      <4> DEFINE r == [j EXCEPT !.pc = pc]
      <4>1. Go(w, r) /\ r.state = j.state
        BY <3>2 DEF Job
      <4> HIDE DEF r
      <4> QED BY <1>1, <2>1, <4>1
    <3>3. ASSUME NEW got, Go(w, [j EXCEPT !.pc = "rekey_put", !.got = got])
          PROVE  CursorInv'
      <4> DEFINE r == [j EXCEPT !.pc = "rekey_put", !.got = got]
      <4>1. Go(w, r) /\ r.state = j.state
        BY <3>3 DEF Job
      <4> HIDE DEF r
      <4> QED BY <1>1, <2>1, <4>1
    <3> QED BY <1>3, <2>1, <3>1, <3>2, <3>3
  <2>3. CASE rekey_delete(w)
    <3>1. PICK dels : Go(w, [j EXCEPT !.dels = dels, !.left = {}, !.got = NONE, !.pc = "rekey"])
      BY <1>0, <2>3 DEF rekey_delete
    <3> DEFINE r == [j EXCEPT !.dels = dels, !.left = {}, !.got = NONE, !.pc = "rekey"]
    <3>2. Go(w, r) /\ r.state = j.state
      BY <3>1 DEF Job
    <3> HIDE DEF r
    <3> QED BY <1>1, <2>1, <3>2
  <2>4. CASE publish(w)
    <3>1. PICK pc : Go(w, [j EXCEPT !.pc = pc])
      BY <1>0, <2>4 DEF publish
    <3> DEFINE r == [j EXCEPT !.pc = pc]
    <3>2. Go(w, r) /\ r.state = j.state
      BY <3>1 DEF Job
    <3> HIDE DEF r
    <3> QED BY <1>1, <2>1, <3>2
  <2> QED BY <1>14, <2>2, <2>3, <2>4
<1>15. CASE rekey_put(w)
  <2>1. UNCHANGED <<saved, log>>
    BY <1>15 DEF rekey_put, device
  <2>2. PICK p, entry :
          Go(w, [j EXCEPT !.table[p] = entry, !.flag = TRUE, !.pc = "rekey_delete",
                  !.puts = @ \cup {entry.blob}, !.left = {j.table[p].blob},
                  !.state.files[p] = IF @ = NONE THEN NONE
                                     ELSE [@ EXCEPT !.blob = entry.blob]])
    BY <1>0, <1>15 DEF rekey_put
  <2>3. PICK f, e : /\ f = j.state.files[p]
                    /\ e = IF f = NONE THEN NONE ELSE [f EXCEPT !.blob = entry.blob]
    OBVIOUS
  <2> DEFINE s == [j.state EXCEPT !.files[p] = e]
             table == [j.table EXCEPT ![p] = entry]
             r == [j EXCEPT !.table = table, !.flag = TRUE, !.pc = "rekey_delete",
                            !.puts = j.puts \cup {entry.blob}, !.left = {j.table[p].blob},
                            !.state = s]
  <2>4. Go(w, r)
    BY <2>2, <2>3
  <2>5. s.cursor = j.state.cursor
    BY <1>5
  <2> HIDE DEF s, table
  <2>6. r.state = s
    BY DEF Job
  <2> HIDE DEF r
  <2> QED BY <1>1, <2>1, <2>4, <2>5, <2>6
<1>16. CASE append_op(w)
  <2> DEFINE r == [j EXCEPT !.pc = "save"]
             op == [by |-> Home[w], put |-> j.puts, del |-> j.dels, manifest |-> j.flag]
  <2>1. /\ Go(w, r) /\ log' = IF j.puts = {} /\ j.dels = {} THEN log ELSE Append(log, op)
        /\ \A d \in Device : saved'[d] = saved[d]
    BY <1>0, <1>16 DEF append_op, device
  <2>2. r.state = j.state
    BY DEF Job
  <2>3. op \in OpPayload
    BY Working DEF OpPayload, Job
  <2> HIDE DEF r, op
  <2> QED BY <1>0, <2>1, <2>2, <2>3, CursorMoves
<1>17. CASE adopt_save(w) \/ save(w)
  <2>1. /\ Home[w] \in Device /\ UNCHANGED log
        /\ \E s : s.cursor = j.state.cursor /\ saved' = [saved EXCEPT ![Home[w]] = s]
    <3>1. [j.state EXCEPT !.generation = j.key].cursor = j.state.cursor
      BY DEF Job, SyncState
    <3> QED BY <1>0, <1>17, <3>1, Working DEF adopt_save, save, cloud
  <2>2. \A d \in Device : saved'[d] = saved[d] \/ saved'[d].cursor = j.state.cursor
    BY <2>1 DEF IInv, SharedInv, Types
  <2>3. PICK r : Go(w, r) /\ r.state.cursor \in {j.state.cursor, 0}
    <3>1. [j EXCEPT !.table = NONE, !.pc = "ops"].state = j.state
      BY DEF Job
    <3>2. Idle.state.cursor = 0
      BY DEF Idle, NewState
    <3> QED BY <1>0, <1>17, <3>1, <3>2 DEF adopt_save, save
  <2> QED BY <1>0, <2>1, <2>2, <2>3, CursorMoves
<1> QED BY <1>2, <1>4, <1>7, <1>8, <1>9, <1>10, <1>11, <1>12, <1>13, <1>14, <1>15, <1>16, <1>17
        DEF step

LEMMA CursorNext ==
  ASSUME IInv, CursorInv, [Next]_vars
  PROVE  CursorInv'
<1>1. Len(log) \in Nat
  BY SharedTypes
<1>2. ASSUME NEW w \in Worker, NEW verb \in Verbs, start(w, verb)
      PROVE  CursorInv'
  <2> DEFINE d == Home[w]
  <2>1. PICK k : Go(w, [Idle EXCEPT
            !.verb = verb, !.key = k,
            !.state = IF saved[d] = NONE THEN NewState(k) ELSE saved[d],
            !.pc = CASE verb = "push" -> "scan"
                     [] verb = "pull" -> "adopt_fetch"
                     [] verb = "cycle" /\ saved[d] = NONE -> "latest"
                     [] verb = "cycle" /\ saved[d] # NONE -> "ops"])
    BY <1>2 DEF start
  <2>2. PICK s, pc :
          /\ s = IF saved[d] = NONE THEN NewState(k) ELSE saved[d]
          /\ pc = CASE verb = "push" -> "scan"
                    [] verb = "pull" -> "adopt_fetch"
                    [] verb = "cycle" /\ saved[d] = NONE -> "latest"
                    [] verb = "cycle" /\ saved[d] # NONE -> "ops"
    OBVIOUS
  <2> DEFINE r == [Idle EXCEPT !.verb = verb, !.key = k, !.state = s, !.pc = pc]
  <2>3. Go(w, r) /\ r.state = s
    BY <2>1, <2>2 DEF Idle
  <2> HIDE DEF r
  <2>4. s.cursor <= Len(log)
    BY <1>1, <2>2, Working DEF CursorInv, NewState
  <2>5. job'[w] = r /\ \A x \in Worker \ {w} : job'[x] = job[x]
    BY <2>3 DEF IInv, JobsInv, Go
  <2>6. UNCHANGED <<saved, log>>
    BY <1>2 DEF start, cloud
  <2> QED BY <2>3, <2>4, <2>5, <2>6 DEF CursorInv
<1>3. ASSUME NEW w \in Worker, fail(w)
      PROVE  CursorInv'
  <2>1. Idle.state.cursor = 0
    BY DEF Idle, NewState
  <2>2. Go(w, Idle) /\ log' = log /\ \A d \in Device : saved'[d] = saved[d]
    BY <1>3 DEF fail, GiveUp, cloud, device
  <2> QED BY <2>1, <2>2, CursorMoves
<1>4. ASSUME NEW d, NEW p, edit(d, p) \/ remove(d, p)
      PROVE  CursorInv'
  <2>1. UNCHANGED <<saved, log, job>>
    BY <1>4 DEF edit, remove, cloud
  <2> QED BY <2>1 DEF CursorInv
<1>5. ASSUME NEW d \in Device, rotate(d)
      PROVE  CursorInv'
  <2> DEFINE op == [by |-> d, put |-> {}, del |-> {}, manifest |-> TRUE]
  <2>1. UNCHANGED <<saved, job>> /\ (log' = log \/ log' = Append(log, op))
    BY <1>5 DEF rotate
  <2>2. op \in OpPayload
    BY DEF OpPayload
  <2> HIDE DEF op
  <2>3. Len(log') \in Nat /\ Len(log) <= Len(log')
    BY <1>1, <2>1, <2>2, SharedTypes
  <2>4. \A e \in Device : saved[e] # NONE => saved[e].cursor \in Nat
    BY SharedTypes DEF SyncState
  <2>5. \A w \in Worker : job[w].state.cursor \in Nat
    BY Working DEF Job, SyncState
  <2> QED BY <1>1, <2>1, <2>3, <2>4, <2>5 DEF CursorInv
<1>6. CASE UNCHANGED vars
  <2>1. UNCHANGED <<saved, log, job>>
    BY <1>6 DEF vars, cloud, device
  <2> QED BY <2>1 DEF CursorInv
<1> QED BY <1>2, <1>3, <1>4, <1>5, <1>6, CursorSteps DEF Next

LEMMA CursorInit ==
  ASSUME Init
  PROVE  CursorInv
<1>1. \A w \in Worker : job[w].state.cursor = 0
  BY DEF Init, Idle, NewState
<1>2. Len(log) = 0
  BY DEF Init
<1> QED BY <1>1, <1>2 DEF Init, CursorInv

(***************************************************************************)
(* The end of a cycle.                                                     *)
(***************************************************************************)

LEMMA ForwardAppendOp ==
  ASSUME IInv, Turns, TableInv, CursorInv, ForwardInv, Plain, NEW w \in Worker, append_op(w)
  PROVE  ForwardInv'
<1>0. PICK j \in Job : j = job[w]
  BY Working
<1> DEFINE d == Home[w]
           r == [j EXCEPT !.pc = "save"]
           op == [by |-> d, put |-> j.puts, del |-> j.dels, manifest |-> j.flag]
<1>1. /\ j.pc = "announce" /\ d \in Device /\ Go(w, r)
      /\ log' = IF j.puts = {} /\ j.dels = {} THEN log ELSE Append(log, op)
      /\ UNCHANGED <<blobs, manifest, disk, saved, key, sent, parents>>
  BY <1>0, Working DEF append_op, device, history
<1>2. r.pc = "save" /\ r.state = j.state /\ r.key = j.key
  BY DEF Job
<1>3. op \in OpPayload /\ op.by = d /\ op.put = j.puts /\ op.del = j.dels
  BY <1>1 DEF OpPayload, Job
<1> HIDE DEF r, op
<1>4. PICK t : t = Sealed
  OBVIOUS
<1>5. CycleOK(j, d) /\ HandOK(j, d) /\ j.table = t /\ Slots(t) /\ Sealed' = t
  <2>1. CycleOK(j, d) /\ Slots(t)
    BY <1>0, <1>1, <1>4, InTurn
  <2> QED BY <1>1, <1>4, <2>1 DEF CycleOK, HandOK, Sealed
<1>6. /\ Current(j) = t /\ Current(r)' = t /\ Coming(r)' = {} /\ Leaving(r)' = {}
      /\ Pending(j, d) = NetDels(Foreign(d, j.state.cursor))
  BY <1>1, <1>2, <1>4, <1>5 DEF Current, Coming, Leaving, Pending, Announcing, Pushing
<1>7. NetDels(Foreign(d, j.state.cursor)) \subseteq Pending(r, d)'
  <2>1. PICK c \in Nat : c = j.state.cursor
    BY DEF Job, SyncState
  <2>2. NetDels(Foreign(d, c)) \subseteq NetDels(Foreign(d, c))'
    <3>1. CASE log' = log
      BY <3>1 DEF NetDels, Foreign
    <3>2. CASE log' = Append(log, op)
      <4>1. NetDels(Foreign(op.by, c)) \subseteq NetDels(Foreign(op.by, c))'
        BY <1>3, <3>2, NetDelsOwn
      <4>2. Foreign(op.by, c) = Foreign(d, c) /\ Foreign(op.by, c)' = Foreign(d, c)'
        BY <1>3 DEF Foreign
      <4> QED BY <4>1, <4>2 DEF NetDels
    <3> QED BY <1>1, <3>1, <3>2
  <2>3. Pending(r, d)' = NetDels(Foreign(d, c))'
    BY <1>2, <2>1 DEF Pending, NetDels, Foreign
  <2> QED BY <2>1, <2>2, <2>3
<1>8. CycleOK(r, d)'
  <2>1. HandOK(r, d)'
    BY <1>2 DEF HandOK, Writing
  <2>2. Newer(j.state, t)' /\ \A x \in Path : Kept(d, j.state, x)'
    BY <1>1, <1>5, <1>6 DEF CycleOK, Newer, Kept, Known, Writing
  <2> QED BY <1>2, <1>5, <1>6, <1>7, <2>1, <2>2 DEF CycleOK, Newer, Kept, Slots, Known
<1>9. ASSUME NEW e \in Device \ {d} PROVE RestOK(e, Current(r), Coming(r), Leaving(r))'
  <2>1. PICK s : s = Rest(e)
    OBVIOUS
  <2>2. RestOK(e, t, j.puts, j.dels) /\ Rest(e)' = s
    BY <1>0, <1>1, <1>5, <1>9, <2>1, InTurn DEF Current, Coming, Leaving, Announcing, Rest
  <2>3. PICK c \in Nat : c = s.cursor /\ c <= Len(log)
    <3>1. saved[e] # NONE => saved[e].cursor \in Nat /\ saved[e].cursor <= Len(log)
      BY SharedTypes DEF CursorInv, SyncState
    <3>2. saved[e] = NONE => s.cursor = 0 /\ 0 <= Len(log)
      BY <2>1, SharedTypes DEF Rest, NewState
    <3> QED BY <2>1, <3>1, <3>2 DEF Rest
  <2>4. ASSUME NEW n \in j.dels \cup (NetDels(Foreign(e, c)) \ j.puts)
        PROVE  n \in NetDels(Foreign(e, c))'
    <3>1. CASE log' = log
      <4>1. n \notin j.dels
        BY <1>1, <1>3, <3>1, SharedTypes
      <4> QED BY <2>4, <3>1, <4>1 DEF NetDels, Foreign
    <3>2. CASE log' = Append(log, op)
      BY <1>3, <1>9, <2>3, <2>4, <3>2, NetDelsGrow
    <3> QED BY <1>1, <3>1, <3>2
  <2>5. \A x \in Known(s.files) \ Known(t) : slot(x) \in NetDels(Foreign(e, s.cursor))'
    <3>1. \A x \in Known(s.files) \ Known(t) : slot(x) \in NetDels(Foreign(e, c))'
      BY <2>1, <2>2, <2>3, <2>4 DEF RestOK
    <3> QED BY <2>3, <3>1 DEF NetDels, Foreign
  <2>6. Newer(s, t)' /\ \A x \in Path : Kept(e, s, x)'
    BY <1>1, <2>1, <2>2 DEF RestOK, Newer, Kept, Known
  <2>7. s.generation = 1 /\ Slots(s.files)
    BY <2>1, <2>2 DEF RestOK
  <2> QED BY <1>6, <2>2, <2>5, <2>6, <2>7
          DEF RestOK, Newer, Kept, Slots, Known, NetDels, Foreign
<1>10. Slots(Sealed)' /\ \A e \in Device : key'[e] = 1
  <2>1. \A e \in Device : key[e] = 1
    BY <1>0, <1>1, InTurn
  <2> QED BY <1>1, <1>5, <2>1 DEF Slots, Known
<1>11. r.pc # "idle" /\ \A x \in Worker \ {w} : job[x].pc = "idle"
  BY <1>0, <1>1, <1>2, InTurn
<1> QED BY <1>1, <1>8, <1>9, <1>10, <1>11, GoesForward DEF IInv

\* What a cycle saves.
LEMMA RestsForward ==
  ASSUME IInv, Turns, TableInv, ForwardInv, Plain, NEW w \in Worker, NEW s \in SyncState,
         job[w].pc \in {"adopt", "save"}, Go(w, Idle),
         saved' = [saved EXCEPT ![Home[w]] = s], UNCHANGED <<cloud, disk, key, history>>,
         s.generation = 1, s.files = job[w].state.files, s.cursor = job[w].state.cursor
  PROVE  ForwardInv'
<1> DEFINE d == Home[w]
<1>0. PICK j : j = job[w]
  OBVIOUS
<1>1. UNCHANGED <<blobs, manifest, log, disk, key, sent, parents>>
  BY DEF cloud, history
<1>2. PICK t : t = Sealed
  OBVIOUS
<1>3. CycleOK(j, d) /\ Slots(t) /\ Sealed' = t
  BY <1>0, <1>1, <1>2, InTurn DEF Sealed
<1>4. d \in Device /\ saved'[d] = s /\ \A e \in Device \ {d} : saved'[e] = saved[e]
  BY Working DEF IInv, SharedInv, Types
<1>5. Rest(d)' = s
  <2>1. s # NONE
    BY NoneAssumption
  <2> QED BY <1>4, <2>1 DEF Rest
<1>6. RestOK(d, t, {}, {})'
  <2>1. Current(j) = t /\ Pending(j, d) = NetDels(Foreign(d, s.cursor))
    BY <1>0, <1>2 DEF Current, Pending, Announcing, Pushing
  <2>2. Newer(s, t)' /\ \A x \in Path : Kept(d, s, x)'
    BY <1>0, <1>1, <1>3, <2>1 DEF CycleOK, Newer, Kept, Known, Writing
  <2>3. NetDels(Foreign(d, s.cursor))' = NetDels(Foreign(d, s.cursor))
    BY <1>1 DEF NetDels, Foreign
  <2>4. Slots(s.files) /\ \A x \in Known(s.files) \ Known(t) : slot(x) \in NetDels(Foreign(d, s.cursor))
    BY <1>0, <1>3, <2>1 DEF CycleOK
  <2> QED BY <1>5, <2>2, <2>3, <2>4 DEF RestOK, Newer, Kept, Slots, Known, NetDels, Foreign
<1>7. ASSUME NEW e \in Device \ {d} PROVE RestOK(e, t, {}, {})'
  <2>1. RestOK(e, t, {}, {})
    BY <1>0, <1>2, <1>7, InTurn DEF Current, Coming, Leaving, Announcing, Pushing
  <2> QED BY <1>1, <1>4, <1>7, <2>1, RestStays
<1>8. \A e \in Device : RestOK(e, Sealed, {}, {})'
  BY <1>3, <1>6, <1>7 DEF RestOK, Newer
<1>9. Slots(Sealed)' /\ \A e \in Device : key'[e] = 1
  <2>1. \A e \in Device : key[e] = 1
    BY InTurn
  <2> QED BY <1>1, <1>3, <2>1 DEF Slots, Known
<1>10. Idle.pc = "idle" /\ \A x \in Worker \ {w} : job[x].pc = "idle"
  BY IdleOK, InTurn
<1> QED BY <1>8, <1>9, <1>10, GoesForward DEF IInv

LEMMA ForwardSave ==
  ASSUME IInv, Turns, TableInv, ForwardInv, Plain, NEW w \in Worker, save(w)
  PROVE  ForwardInv'
<1>0. PICK j \in Job : j = job[w]
  BY Working
<1> DEFINE s == [j.state EXCEPT !.generation = j.key]
<1>1. /\ j.pc = "save" /\ Go(w, Idle) /\ saved' = [saved EXCEPT ![Home[w]] = s]
      /\ UNCHANGED <<cloud, disk, key, history>>
  BY <1>0 DEF save
<1>2. /\ s \in SyncState /\ s.cursor = j.state.cursor /\ s.files = j.state.files
      /\ s.generation = j.key
  BY DEF Job, SyncState
<1> HIDE DEF s
<1>3. j.key = 1
  BY <1>0, <1>1, InTurn DEF CycleOK
<1> QED BY <1>0, <1>1, <1>2, <1>3, RestsForward

LEMMA ForwardAdoptSave ==
  ASSUME IInv, Turns, TableInv, ForwardInv, Plain, NEW w \in Worker, adopt_save(w)
  PROVE  ForwardInv'
<1>0. PICK j \in Job : j = job[w]
  BY Working
<1> DEFINE d == Home[w]
           r == [j EXCEPT !.table = NONE, !.pc = "ops"]
<1>1. /\ j.pc = "adopt" /\ saved' = [saved EXCEPT ![d] = j.state]
      /\ Go(w, IF j.verb = "pull" THEN Idle ELSE r)
      /\ UNCHANGED <<cloud, disk, key, history>> /\ d \in Device
  BY <1>0, Working DEF adopt_save
<1>2. j.state \in SyncState /\ CycleOK(j, d) /\ j.state.generation = 1 /\ Slots(Sealed)
  BY <1>0, <1>1, InTurn DEF Job, CycleOK
<1>3. CASE j.verb = "pull"
  BY <1>0, <1>1, <1>2, <1>3, RestsForward
<1>4. CASE j.verb # "pull"
  <2>1. Go(w, r) /\ r.pc = "ops" /\ r.state = j.state /\ r.key = j.key
    BY <1>1, <1>4 DEF Job
  <2> HIDE DEF r
  <2>2. UNCHANGED <<blobs, manifest, log, disk, key, sent, parents>> /\ Sealed' = Sealed
    BY <1>1 DEF cloud, history, Sealed
  <2>3. CycleOK(r, d)'
    <3>1. HandOK(r, d)
      BY <2>1 DEF HandOK, Writing
    <3>2. Current(r) = Current(j) /\ Pending(r, d) = Pending(j, d)
      BY <1>1, <2>1 DEF Current, Pending, Announcing, Pushing
    <3>3. CycleOK(r, d)
      BY <1>1, <1>2, <2>1, <3>1, <3>2, SameAgreed DEF Writing
    <3> QED BY <1>1, <2>2, <3>3, CycleStays
  <2>4. ASSUME NEW e \in Device \ {d} PROVE RestOK(e, Current(r), Coming(r), Leaving(r))'
    <3>1. PICK t : t = Sealed
      OBVIOUS
    <3>2. RestOK(e, t, {}, {})
      BY <1>0, <1>1, <2>4, <3>1, InTurn DEF Current, Coming, Leaving, Announcing, Pushing
    <3>3. saved'[e] = saved[e]
      BY <1>1, <2>4 DEF IInv, SharedInv, Types
    <3>4. RestOK(e, t, {}, {})'
      BY <2>2, <3>2, <3>3, RestStays
    <3>5. Current(r)' = t /\ Coming(r)' = {} /\ Leaving(r)' = {}
      BY <2>1, <2>2, <3>1 DEF Current, Coming, Leaving, Announcing, Pushing
    <3> QED BY <3>4, <3>5 DEF RestOK, Newer
  <2>5. Slots(Sealed)' /\ \A e \in Device : key'[e] = 1
    <3>1. \A e \in Device : key[e] = 1
      BY <1>0, <1>1, InTurn
    <3> QED BY <1>2, <2>2, <3>1 DEF Slots, Known
  <2>6. r.pc # "idle" /\ \A x \in Worker \ {w} : job[x].pc = "idle"
    BY <1>0, <1>1, <2>1, InTurn
  <2> QED BY <2>1, <2>3, <2>4, <2>5, <2>6, GoesForward DEF IInv
<1> QED BY <1>3, <1>4

(***************************************************************************)
(* What begins only while nobody is in a cycle.                            *)
(***************************************************************************)

LEMMA ForwardStart ==
  ASSUME ~Overlap, IInv, ForwardInv, Plain, NEW w \in Worker, NEW verb \in Verbs,
         start(w, verb)
  PROVE  ForwardInv'
<1> DEFINE d == Home[w]
<1>1. \A x \in Worker : job[x].pc = "idle"
  BY DEF start, Apart
<1>2. /\ Slots(Sealed) /\ \A e \in Device : key[e] = 1 /\ RestOK(e, Sealed, {}, {})
      /\ d \in Device /\ verb \in {"cycle", "push", "pull"}
  BY <1>1, CloudAssumption DEF ForwardInv
<1>3. PICK k \in SessionKeys(d) :
        /\ key' = [key EXCEPT ![d] = k]
        /\ Go(w, [Idle EXCEPT
            !.verb = verb, !.key = k,
            !.state = IF saved[d] = NONE THEN NewState(k) ELSE saved[d],
            !.pc = CASE verb = "push" -> "scan"
                     [] verb = "pull" -> "adopt_fetch"
                     [] verb = "cycle" /\ saved[d] = NONE -> "latest"
                     [] verb = "cycle" /\ saved[d] # NONE -> "ops"])
  BY DEF start
<1>4. UNCHANGED <<blobs, manifest, log, disk, saved, sent, parents>> /\ UNCHANGED cloud
  BY DEF start, cloud, history
<1>5. k = 1
  BY <1>2, <1>3 DEF SessionKeys, Plain
<1>6. PICK s : s = Rest(d)
  OBVIOUS
<1>7. s = IF saved[d] = NONE THEN NewState(k) ELSE saved[d]
  BY <1>5, <1>6 DEF Rest
<1>8. PICK pc \in {"scan", "adopt_fetch", "latest", "ops"} :
        /\ pc = CASE verb = "push" -> "scan"
                  [] verb = "pull" -> "adopt_fetch"
                  [] verb = "cycle" /\ saved[d] = NONE -> "latest"
                  [] verb = "cycle" /\ saved[d] # NONE -> "ops"
        /\ pc = "adopt_fetch" => verb = "pull"
        /\ pc = "latest" => saved[d] = NONE
  BY <1>2
<1> DEFINE r == [Idle EXCEPT !.verb = verb, !.key = k, !.state = s, !.pc = pc]
<1>9. Go(w, r)
  BY <1>3, <1>7, <1>8
<1>10. /\ r.pc = pc /\ r.state = s /\ r.verb = verb /\ r.key = 1 /\ r.puts = {} /\ r.dels = {}
  BY <1>5 DEF Idle
<1> HIDE DEF r
<1>11. CycleOK(r, d)'
  <2>1. HandOK(r, d)
    <3>1. pc = "latest" => Known(s.files) = {}
      BY <1>7, <1>8 DEF NewState, NoFiles, Known
    <3> QED BY <1>8, <1>10, <3>1 DEF HandOK, Writing
  <2>2. Current(r) = Sealed /\ Pending(r, d) = NetDels(Foreign(d, s.cursor))
    BY <1>8, <1>10 DEF Current, Pending, Announcing, Pushing
  <2>3. CycleOK(r, d)
    BY <1>2, <1>6, <1>10, <2>1, <2>2 DEF RestOK, CycleOK
  <2> QED BY <1>4, <2>3, CycleStays
<1>12. ASSUME NEW e \in Device \ {d} PROVE RestOK(e, Current(r), Coming(r), Leaving(r))'
  <2>1. PICK t : t = Sealed
    OBVIOUS
  <2>2. RestOK(e, t, {}, {})'
    BY <1>2, <1>4, <1>12, <2>1, RestStays
  <2>3. Current(r)' = t /\ Coming(r)' = {} /\ Leaving(r)' = {}
    BY <1>4, <1>8, <1>10, <2>1 DEF Current, Coming, Leaving, Announcing, Pushing, Sealed
  <2> QED BY <2>2, <2>3 DEF RestOK, Newer
<1>13. Slots(Sealed)' /\ \A e \in Device : key'[e] = 1
  BY <1>2, <1>3, <1>4, <1>5 DEF Slots, Sealed, Known, IInv, SharedInv, Types
<1>14. r.pc # "idle"
  BY <1>8, <1>10
<1> QED BY <1>1, <1>9, <1>11, <1>12, <1>13, <1>14, GoesForward DEF IInv

LEMMA ForwardEdit ==
  ASSUME ~Overlap, IInv, ForwardInv, Plain, NEW d \in Device, NEW p \in Path,
         edit(d, p) \/ remove(d, p)
  PROVE  ForwardInv'
<1>1. /\ \A x \in Worker : job[x].pc = "idle"
      /\ UNCHANGED <<blobs, manifest, log, job, saved, key, sent>>
  BY DEF edit, remove, Apart, cloud
<1>2. PICK v \in {Len(parents) + 1, NONE} : disk' = [disk EXCEPT ![d][p] = v]
  BY DEF edit, remove, SetFile
<1>3. PICK x : parents' = Append(parents, x)
  BY DEF edit, remove
<1>4. /\ Slots(Sealed) /\ \A e \in Device : key[e] = 1 /\ RestOK(e, Sealed, {}, {})
  BY <1>1 DEF ForwardInv
<1>5. PICK t : t = Sealed
  OBVIOUS
<1>6. Sealed' = t
  BY <1>1, <1>5 DEF Sealed
<1>7. Len(parents) \in Nat /\ sent \subseteq Written
  BY DEF IInv, SharedInv, Types
<1>8. \A u \in Written : parents'[u] = parents[u]
  BY <1>3 DEF IInv, SharedInv, Types, Written
<1>9. \A e \in Device, q \in Path : disk'[e][q] = disk[e][q] \/ disk'[e][q] = v
  BY <1>2 DEF IInv, SharedInv, Types
<1>10. v # NONE => v \notin sent
  BY <1>2, <1>7 DEF Written
<1>11. ASSUME NEW e \in Device PROVE RestOK(e, t, {}, {})'
  <2>1. PICK s : s = Rest(e)
    OBVIOUS
  <2>2. RestOK(e, t, {}, {}) /\ Rest(e)' = s
    BY <1>1, <1>4, <1>5, <2>1 DEF Rest
  <2>3. \A q \in Known(s.files) : s.files[q].hash \in Written
    <3>1. \A q \in Known(s.files) : saved[e] # NONE /\ s = saved[e]
      BY <2>1 DEF Rest, Known, NewState, NoFiles
    <3> QED BY <2>1, <3>1 DEF IInv, SharedInv, SavedOK, Types, Known
  <2>4. \A q \in Path : Kept(e, s, q)'
    BY <1>1, <1>9, <1>10, <2>1, <2>2 DEF RestOK, Kept
  <2>5. Newer(s, t)'
    BY <1>1, <1>8, <2>1, <2>2, <2>3 DEF RestOK, Newer, Known
  <2>6. NetDels(Foreign(e, s.cursor))' = NetDels(Foreign(e, s.cursor))
    BY <1>1 DEF NetDels, Foreign
  <2>7. /\ s.generation = 1 /\ Slots(s.files)
        /\ \A q \in Known(s.files) \ Known(t) : slot(q) \in NetDels(Foreign(e, s.cursor))
    BY <2>1, <2>2 DEF RestOK
  <2> QED BY <2>2, <2>4, <2>5, <2>6, <2>7
          DEF RestOK, Newer, Kept, Slots, Known, NetDels, Foreign
<1>12. \A e \in Device : RestOK(e, Sealed, {}, {})'
  BY <1>6, <1>11 DEF RestOK, Newer
<1>13. Slots(Sealed)' /\ \A e \in Device : key'[e] = 1
  BY <1>1, <1>4, <1>5, <1>6 DEF Slots, Known
<1> QED BY <1>1, <1>12, <1>13 DEF ForwardInv


(***************************************************************************)
(* The invariant, for every step.                                          *)
(***************************************************************************)

LEMMA ForwardSteps ==
  ASSUME IInv, Turns, TableInv, CursorInv, ForwardInv, Aged, Unsent, Plain,
         NEW w \in Worker, step(w)
  PROVE  ForwardInv'
<1>1. CASE latest_seq(w)
  BY <1>1, ForwardLatest
<1>2. CASE fetch_table(w, "adopt_fetch", "adopt")
  BY <1>2, ForwardFetch
<1>3. CASE fetch_table(w, "pull_fetch", "pull")
  BY <1>3, ForwardFetch
<1>4. CASE fetch_table(w, "push_fetch", "put")
  BY <1>4, ForwardFetch
<1>5. CASE adopt(w) \/ adopt_save(w)
  BY <1>5, ForwardAdopt, ForwardAdoptSave
<1>6. CASE ops_since(w) \/ pull(w) \/ pull_done(w)
  BY <1>6, ForwardOpsSince, ForwardPull, ForwardPullDone
<1>7. CASE drop(w) \/ drop_done(w) \/ write_file(w)
  BY <1>7, ForwardDrop, ForwardDropDone, ForwardWriteFile
<1>8. CASE settle(w) \/ scan(w)
  BY <1>8, ForwardSettle, ForwardScan
<1>9. CASE put(w) \/ tombstone(w)
  BY <1>9, ForwardPut, ForwardTombstone
<1>10. CASE rekey(w) \/ rekey_put(w) \/ rekey_delete(w)
  BY <1>10, ForwardRekey
<1>11. CASE publish(w) \/ append_op(w) \/ save(w)
  BY <1>11, ForwardPublish, ForwardAppendOp, ForwardSave
<1> QED BY <1>1, <1>2, <1>3, <1>4, <1>5, <1>6, <1>7, <1>8, <1>9, <1>10, <1>11 DEF step

\* A repository key that was rotated away does not come back.
LEMMA KeysAdvance ==
  ASSUME [Next]_vars
  PROVE  generation' = generation \/ \E d \in Device : rotate(d)
<1>1. ASSUME NEW w \in Worker, step(w)
      PROVE  generation' = generation
  <2>1. CASE latest_seq(w) \/ adopt_save(w) \/ ops_since(w) \/ pull_done(w)
    BY <2>1 DEF latest_seq, adopt_save, ops_since, pull_done, cloud
  <2>2. ASSUME NEW phase, NEW next, fetch_table(w, phase, next)
        PROVE  generation' = generation
    BY <2>2 DEF fetch_table, cloud
  <2>3. CASE adopt(w) \/ pull(w) \/ rekey(w)
    BY <2>3 DEF adopt, pull, rekey, cloud
  <2>4. CASE drop(w) \/ drop_done(w) \/ write_file(w) \/ settle(w) \/ scan(w)
    BY <2>4 DEF drop, drop_done, write_file, settle, scan, cloud
  <2>5. CASE put(w) \/ tombstone(w)
    BY <2>5 DEF put, tombstone
  <2>6. CASE rekey_put(w) \/ rekey_delete(w) \/ publish(w) \/ append_op(w) \/ save(w)
    BY <2>6 DEF rekey_put, rekey_delete, publish, append_op, save, cloud
  <2> QED BY <1>1, <2>1, <2>2, <2>3, <2>4, <2>5, <2>6 DEF step
<1>2. ASSUME NEW w, NEW verb, start(w, verb) \/ fail(w)
      PROVE  generation' = generation
  BY <1>2 DEF start, fail, cloud
<1>3. ASSUME NEW d, NEW p, edit(d, p) \/ remove(d, p)
      PROVE  generation' = generation
  BY <1>3 DEF edit, remove, cloud
<1>4. CASE UNCHANGED vars
  BY <1>4 DEF vars, cloud
<1> QED BY <1>1, <1>2, <1>3, <1>4 DEF Next

LEMMA RotateLeaves ==
  ASSUME IInv, NEW d, rotate(d)
  PROVE  ~Plain'
<1>1. generation \in Key /\ generation' = generation + 1
  BY DEF IInv, SharedInv, Types, rotate
<1>2. generation \in Nat /\ generation >= 1
  BY <1>1, CloudAssumption DEF Key
<1> QED BY <1>1, <1>2 DEF Plain

\* What is no longer plain stays so.
LEMMA PlainBefore ==
  ASSUME IInv, [Next]_vars, Plain'
  PROVE  Plain
<1>1. ~cut
  BY StaysCut DEF Plain
<1>2. ~\E d \in Device : rotate(d)
  BY RotateLeaves
<1> QED BY <1>1, <1>2, KeysAdvance DEF Plain

\* Nothing happens.
LEMMA ForwardStays ==
  ASSUME ForwardInv, UNCHANGED vars
  PROVE  ForwardInv'
<1> SUFFICES ASSUME Plain' PROVE ForwardInv'
  BY DEF ForwardInv
<1>1. /\ UNCHANGED <<blobs, manifest, log, disk, saved, key, sent, parents, job, cut, generation>>
      /\ UNCHANGED cloud
  BY DEF vars, cloud, device, history
<1>2. Plain
  BY <1>1 DEF Plain
<1>3. PICK t : t = Sealed
  OBVIOUS
<1>4. Sealed' = t
  BY <1>1, <1>3 DEF Sealed
<1>5. Slots(Sealed)' /\ \A d \in Device : key'[d] = 1
  BY <1>1, <1>2, <1>3, <1>4 DEF ForwardInv, Slots, Known
<1>6. ASSUME NEW d \in Device, RestOK(d, Sealed, {}, {})
      PROVE  RestOK(d, Sealed, {}, {})'
  <2>1. RestOK(d, t, {}, {})'
    BY <1>1, <1>3, <1>6, RestStays
  <2> QED BY <1>4, <2>1 DEF RestOK, Newer
<1>7. ASSUME NEW w \in Worker, CycleOK(job[w], Home[w])
      PROVE  CycleOK(job[w], Home[w])'
  <2>1. PICK j : j = job[w]
    OBVIOUS
  <2>2. CycleOK(j, Home[w])'
    BY <1>1, <1>7, <2>1, CycleStays
  <2>3. job'[w] = j
    BY <1>1, <2>1
  <2>4. Current(job[w])' = Current(j)' /\ Pending(job[w], Home[w])' = Pending(j, Home[w])'
    BY <2>3 DEF Current, Pending
  <2> QED BY <2>2, <2>3, <2>4 DEF CycleOK, HandOK, Newer, Kept
<1>8. ASSUME NEW w \in Worker, NEW d \in Device,
             RestOK(d, Current(job[w]), Coming(job[w]), Leaving(job[w]))
      PROVE  RestOK(d, Current(job[w]), Coming(job[w]), Leaving(job[w]))'
  <2>1. PICK u, puts, dels : /\ u = Current(job[w])
                             /\ puts = Coming(job[w]) /\ dels = Leaving(job[w])
    OBVIOUS
  <2>2. RestOK(d, u, puts, dels)'
    BY <1>1, <1>8, <2>1, RestStays
  <2>3. Current(job[w])' = u /\ Coming(job[w])' = puts /\ Leaving(job[w])' = dels
    BY <1>1, <1>3, <1>4, <2>1 DEF Current, Coming, Leaving
  <2> QED BY <2>2, <2>3 DEF RestOK, Newer
<1> QED BY <1>1, <1>2, <1>5, <1>6, <1>7, <1>8 DEF ForwardInv

LEMMA ForwardNext ==
  ASSUME ~Overlap, TurnInv, CursorInv, Aged, Unsent, ForwardInv, [Next]_vars
  PROVE  ForwardInv'
<1> USE DEF TurnInv
<1> SUFFICES ASSUME Plain' PROVE ForwardInv'
  BY DEF ForwardInv
<1>1. Plain
  BY PlainBefore
<1>2. ASSUME NEW w \in Worker, step(w)
      PROVE  ForwardInv'
  BY <1>1, <1>2, ForwardSteps
<1>3. ASSUME NEW w \in Worker, NEW verb \in Verbs, start(w, verb)
      PROVE  ForwardInv'
  BY <1>1, <1>3, ForwardStart
<1>4. ASSUME NEW w \in Worker
      PROVE  ~fail(w)
  BY DEF fail, GiveUp, Plain
<1>5. ASSUME NEW d \in Device, NEW p \in Path, edit(d, p) \/ remove(d, p)
      PROVE  ForwardInv'
  BY <1>1, <1>5, ForwardEdit
<1>6. ASSUME NEW d \in Device
      PROVE  ~rotate(d)
  BY RotateLeaves
<1>7. CASE UNCHANGED vars
  BY <1>7, ForwardStays
<1> QED BY <1>2, <1>3, <1>4, <1>5, <1>6, <1>7 DEF Next

OnwardInv == TurnInv /\ CursorInv /\ Aged /\ Unsent /\ ForwardInv

LEMMA OnwardInit ==
  ASSUME Init
  PROVE  OnwardInv
<1>1. TurnInv /\ CursorInv
  BY TurnInit, CursorInit
<1>2. Written = {} /\ \A d \in Device, p \in Path : disk[d][p] = NONE
  BY DEF Init, NoFiles, Written
<1>3. Aged /\ Unsent
  BY <1>2 DEF Aged, Unsent
<1>4. \A w \in Worker : job[w].pc = "idle"
  BY IdleOK DEF Init
<1>5. Known(Sealed) = {} /\ \A d \in Device : Rest(d) = NewState(1)
  BY DEF Init, Sealed, EmptyTable, Known, Rest
<1>6. Known(NewState(1).files) = {} /\ NewState(1).generation = 1
  BY DEF NewState, NoFiles, Known
<1>7. \A d \in Device : RestOK(d, Sealed, {}, {})
  BY <1>2, <1>5, <1>6 DEF RestOK, Slots, Newer, Kept
<1>8. ForwardInv
  BY <1>4, <1>5, <1>7 DEF ForwardInv, Slots, Init
<1> QED BY <1>1, <1>3, <1>8 DEF OnwardInv

LEMMA OnwardInductive == ~Overlap => (Spec => []OnwardInv)
<1> SUFFICES ASSUME ~Overlap PROVE Spec => []OnwardInv
  OBVIOUS
<1>1. Init => OnwardInv
  BY OnwardInit
<1>2. OnwardInv /\ [Next]_vars => OnwardInv'
  <2> SUFFICES ASSUME OnwardInv, [Next]_vars PROVE OnwardInv'
    OBVIOUS
  <2>1. TurnInv'
    BY TurnNext DEF OnwardInv
  <2>2. CursorInv' /\ Aged' /\ Unsent'
    BY CursorNext, FreshNext DEF OnwardInv, TurnInv
  <2>3. ForwardInv'
    BY ForwardNext DEF OnwardInv
  <2> QED BY <2>1, <2>2, <2>3 DEF OnwardInv
<1> QED BY <1>1, <1>2, PTL DEF Spec

LEMMA NeverBack ==
  ASSUME OnwardInv, [Next]_vars, Plain
  PROVE  ~Reverts
<1> USE DEF OnwardInv, TurnInv
<1> SUFFICES ASSUME NEW d \in Device, NEW p \in Path, disk[d][p] # NONE, disk'[d][p] # NONE,
                    disk'[d][p] \in parents[disk[d][p]],
                    \A w \in Worker : job'[w] # job[w] => job[w].verb # "pull"
             PROVE  FALSE
  BY DEF Reverts
<1>1. disk[d][p] \in Written /\ Len(parents) \in Nat
  BY DEF IInv, SharedInv, Types, LocalOK, Written
<1>2. disk'[d][p] # disk[d][p]
  BY <1>1, OwnAge
<1>3. ASSUME NEW w \in Worker, write_file(w)
      PROVE  FALSE
  <2>0. PICK j \in Job : j = job[w]
    BY Working
  <2>1. /\ j.pc \in Writing /\ SetFile(Home[w], j.got.path, j.got.version)
        /\ job' # job /\ job'[w] # job[w]
    <3>1. PICK r : Go(w, r) /\ r.pc # j.pc
      <4>1. PICK pc : /\ pc \notin Writing
                      /\ Go(w, [j EXCEPT !.got = NONE, !.pc = pc])
        BY <1>3, <2>0 DEF write_file, Writing
      <4> DEFINE r == [j EXCEPT !.got = NONE, !.pc = pc]
      <4>2. r.pc = pc
        BY DEF Job
      <4>3. j.pc \in Writing /\ Go(w, r)
        BY <1>3, <2>0, <4>1 DEF write_file, Writing
      <4> HIDE DEF r
      <4> QED BY <4>1, <4>2, <4>3
    <3>2. job'[w] = r
      BY <3>1 DEF IInv, JobsInv, Go
    <3> QED BY <1>3, <2>0, <3>1, <3>2 DEF write_file, Writing
  <2>2. d = Home[w] /\ p = j.got.path /\ disk'[d][p] = j.got.version
    BY <1>2, <2>1 DEF SetFile, IInv, SharedInv, Types
  <2>3. j.verb # "pull"
    BY <2>0, <2>1
  <2>4. HandOK(j, d)
    BY <2>0, <2>1, <2>2, InTurn DEF CycleOK, Writing
  <2> QED BY <2>1, <2>2, <2>3, <2>4 DEF HandOK
<1>4. ASSUME NEW e \in Device, NEW q \in Path, edit(e, q) \/ remove(e, q)
      PROVE  FALSE
  <2>1. PICK v \in {Len(parents) + 1, NONE} : disk' = [disk EXCEPT ![e][q] = v]
    BY <1>4 DEF edit, remove, SetFile
  <2>2. disk'[d][p] = Len(parents) + 1
    BY <1>2, <2>1 DEF IInv, SharedInv, Types
  <2>3. parents[disk[d][p]] \subseteq 1 .. disk[d][p] - 1
    BY <1>1 DEF Aged
  <2> QED BY <1>1, <2>2, <2>3 DEF Written
<1> QED BY <1>2, <1>3, <1>4, Writes

\* When devices take turns, no cycle has been cut short and the repository key was
\* never rotated, a cycle takes no file back: what a pull writes over a file, or what a
\* first cycle adopts, is not one of the versions that the file was written over,
\* whatever devices have pushed, tombstoned, restored and announced in the meantime.
THEOREM NeverTakenBack == ~Overlap => (Spec => NoRevertUncut)
<1> SUFFICES ASSUME ~Overlap PROVE Spec => NoRevertUncut
  OBVIOUS
<1> DEFINE A == ~cut /\ generation = 1 => ~Reverts
<1>1. OnwardInv /\ [Next]_vars => [A]_vars
  BY NeverBack DEF Plain
<1>2. Spec => []OnwardInv
  BY OnwardInductive
<1>3. NoRevertUncut <=> [][A]_vars
  BY DEF NoRevertUncut
<1> HIDE DEF A
<1> QED BY <1>1, <1>2, <1>3, PTL DEF Spec
===============================================================================
