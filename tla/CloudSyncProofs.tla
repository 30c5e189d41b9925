---------------------------- MODULE CloudSyncProofs ----------------------------
(* Proofs about CloudSync, for any number of devices, workers and paths, and  *)
(* however edits, cycles, faults and rotations interleave.                    *)
EXTENDS CloudSync, TLAPS

(***************************************************************************)
(* The inductive invariant, in parts.                                      *)
(***************************************************************************)

\* The versions written so far.
Written == 1 .. Len(parents)

Types ==
  /\ disk \in [Device -> [Path -> Maybe(Version)]]
  /\ saved \in [Device -> Maybe(SyncState)]
  /\ key \in [Device -> Key]
  /\ blobs \in [Name -> Maybe(Blob)]
  /\ manifest \in Maybe([key : Key, table : KeyTable])
  /\ log \in Seq(OpPayload)
  /\ generation \in Key
  /\ parents \in Seq(SUBSET Version) /\ Len(parents) <= MaxEdits
  /\ sent \in SUBSET Written
  /\ had \in [Device -> [Path -> SUBSET Version]]
  /\ faults \in 0 .. MaxFaults
  /\ cut \in BOOLEAN /\ torn \in BOOLEAN

\* What is on a device, in a slot and in a saved state has a history: somebody
\* wrote it, the device had it, or it was uploaded.
LocalOK ==
  \A d \in Device, p \in Path : disk[d][p] # NONE =>
    disk[d][p] \in Written /\ disk[d][p] \in had[d][p]

BlobsOK == \A n \in Name : blobs[n] # NONE => blobs[n].version \in sent

SavedOK ==
  \A d \in Device : saved[d] # NONE =>
    \A p \in Path : saved[d].files[p] # NONE =>
      saved[d].files[p].hash \in sent /\ had[d][p] # {}

SharedInv == Types /\ LocalOK /\ BlobsOK /\ SavedOK

\* The steps at which a cycle holds a key table, and at which it holds a write.
Tabled == {"adopt", "adopt_write", "pull", "drop", "pull_write", "settle", "put",
           "rekey", "rekey_put", "rekey_delete", "publish"}
Holding == {"adopt_write", "pull_write", "rekey_put"}

\* What a cycle has agreed on was uploaded, and its device has had the file, but
\* for the one file that the cycle is about to write.
StateOK(j, d) ==
  \A p \in Path : j.state.files[p] # NONE =>
    /\ j.state.files[p].hash \in sent
    /\ \/ had[d][p] # {}
       \/ j.pc \in {"adopt_write", "pull_write"} /\ j.got.path = p /\ j.got.version # NONE

\* What it will upload was found on its device.
FoundOK(j, d) ==
  \A p \in Path : j.found[p] # NONE => j.found[p] \in Written /\ had[d][p] # {}

\* What it will write, or write again, was uploaded; and so was what it replaces.
GotOK(j) ==
  /\ j.pc \in Holding => j.got \in Write /\ (j.got.version # NONE => j.got.version \in sent)
  /\ j.pc \in {"adopt_write", "rekey_put"} => j.got.version # NONE
  /\ j.pc = "rekey_put" => j.table[j.got.path] # NONE
  /\ j.pc = "pull_write" /\ j.got.seen # NONE => j.got.seen \in sent

WorkOK(j, d) ==
  /\ j.pc \in Tabled => j.table \in KeyTable
  /\ j.pc \in {"adopt", "adopt_write"} => \A p \in j.todo : j.table[p] # NONE
  /\ j.pc \in {"push_fetch", "put"} =>
       /\ \A p \in j.todo : j.found[p] # NONE
       /\ \A p \in j.gone : had[d][p] # {}

JobOK(j, d) == StateOK(j, d) /\ FoundOK(j, d) /\ GotOK(j) /\ WorkOK(j, d)

JobsInv == job \in [Worker -> Job] /\ \A w \in Worker : JobOK(job[w], Home[w])

IInv == SharedInv /\ JobsInv

(***************************************************************************)
(* What steps share.                                                       *)
(***************************************************************************)

\* History only grows.
Grows ==
  /\ sent \subseteq sent' /\ Written \subseteq Written'
  /\ \A d \in Device, p \in Path : had[d][p] \subseteq had'[d][p]

LEMMA JobStays ==
  ASSUME NEW j \in Job, NEW d \in Device, JobOK(j, d), Grows
  PROVE  JobOK(j, d)'
<1>1. StateOK(j, d)'
  BY DEF JobOK, StateOK, Grows
<1>2. FoundOK(j, d)'
  BY DEF JobOK, FoundOK, Grows
<1>3. GotOK(j)'
  BY DEF JobOK, GotOK, Grows
<1>4. WorkOK(j, d)'
  <2>1. j.gone \subseteq Path
    BY DEF Job
  <2> QED BY <2>1 DEF JobOK, WorkOK, Grows
<1> QED BY <1>1, <1>2, <1>3, <1>4 DEF JobOK

\* One worker moves, the others stay where they are.
LEMMA WorkerMoves ==
  ASSUME JobsInv, NEW w \in Worker, NEW r \in Job, Go(w, r), Grows, JobOK(r, Home[w])'
  PROVE  JobsInv'
<1>1. job' \in [Worker -> Job] /\ job'[w] = r
  BY DEF JobsInv, Go
<1>2. ASSUME NEW x \in Worker
      PROVE  JobOK(job[x], Home[x])'
  <2>1. PICK j \in Job : job'[x] = j /\ JobOK(j, Home[x])'
    <3>1. CASE x = w
      BY <1>1, <3>1
    <3>2. CASE x # w
      <4>1. PICK j \in Job : j = job[x]
        BY DEF JobsInv
      <4>2. JobOK(j, Home[x]) /\ job'[x] = j
        BY <3>2, <4>1 DEF JobsInv, Go
      <4>3. JobOK(j, Home[x])'
        BY <4>2, JobStays, CloudAssumption
      <4> QED BY <4>2, <4>3
    <3> QED BY <3>1, <3>2
  <2> QED BY <2>1 DEF JobOK, StateOK, FoundOK, GotOK, WorkOK
<1> QED BY <1>1, <1>2 DEF JobsInv

LEMMA WorkerGoes ==
  ASSUME JobsInv, NEW w \in Worker, NEW r \in Job, Go(w, r), Grows, JobOK(r, Home[w])
  PROVE  JobsInv'
<1>1. JobOK(r, Home[w])'
  BY JobStays, CloudAssumption
<1> QED BY <1>1, WorkerMoves

\* Nobody does.
LEMMA JobsStay ==
  ASSUME JobsInv, job' = job, Grows
  PROVE  JobsInv'
<1>1. ASSUME NEW x \in Worker
      PROVE  JobOK(job[x], Home[x])'
  <2>1. PICK j \in Job : j = job[x]
    BY DEF JobsInv
  <2>2. JobOK(j, Home[x])'
    BY <2>1, JobStays, CloudAssumption DEF JobsInv
  <2> QED BY <2>1, <2>2
<1> QED BY <1>1 DEF JobsInv

LEMMA NothingGrows ==
  ASSUME UNCHANGED <<parents, sent, had>>
  PROVE  Grows
BY DEF Grows, Written

\* Steps that read.
LEMMA SharedStays ==
  ASSUME SharedInv, UNCHANGED <<cloud, device, parents, sent, had>>,
         faults' \in 0 .. MaxFaults, cut' \in BOOLEAN, torn' \in BOOLEAN
  PROVE  SharedInv'
BY DEF SharedInv, Types, LocalOK, BlobsOK, SavedOK, Written, cloud, device

LEMMA NewStateOK ==
  ASSUME NEW k \in Key
  PROVE  NewState(k) \in SyncState /\ \A p \in Path : NewState(k).files[p] = NONE
BY DEF NewState, SyncState, NoFiles, Maybe

LEMMA IdleOK == /\ Idle \in Job /\ Idle.pc = "idle" /\ Idle.table = NONE
                /\ \A p \in Path : Idle.state.files[p] = NONE /\ Idle.found[p] = NONE
                /\ Idle.todo = {} /\ Idle.gone = {}
                /\ \A d : JobOK(Idle, d)
<1>1. 1 \in Key
  BY CloudAssumption DEF Key
<1>2. NewState(1) \in SyncState /\ \A p \in Path : NewState(1).files[p] = NONE
  BY <1>1, NewStateOK
<1>3. NoFiles \in [Path -> Maybe(Version)] /\ NONE \in Maybe(KeyTable) /\ NONE \in Maybe(Write)
  BY DEF NoFiles, Maybe
<1>4. /\ Idle.pc = "idle" /\ Idle.table = NONE /\ Idle.state = NewState(1)
      /\ Idle.found = NoFiles /\ Idle.todo = {} /\ Idle.gone = {}
  BY DEF Idle
<1>5. Idle \in Job
  BY <1>1, <1>2, <1>3 DEF Idle, Job, Steps
<1>6. ASSUME NEW d PROVE JobOK(Idle, d)
  <2>1. StateOK(Idle, d) /\ FoundOK(Idle, d)
    BY <1>2, <1>4 DEF StateOK, FoundOK, NoFiles
  <2>2. GotOK(Idle) /\ WorkOK(Idle, d)
    BY <1>4 DEF GotOK, WorkOK, Holding, Tabled
  <2> QED BY <2>1, <2>2 DEF JobOK
<1> QED BY <1>2, <1>4, <1>5, <1>6 DEF NoFiles

\* A cycle that ends with an error.
LEMMA GivesUp ==
  ASSUME IInv, NEW w \in Worker, GiveUp(w), UNCHANGED <<cloud, device, parents, sent, had>>,
         faults' \in 0 .. MaxFaults
  PROVE  IInv'
<1>1. Go(w, Idle) /\ cut' \in BOOLEAN /\ torn' \in BOOLEAN
  BY DEF GiveUp, IInv, SharedInv, Types, Uploading
<1>2. JobsInv'
  BY <1>1, NothingGrows, IdleOK, WorkerGoes DEF IInv
<1> QED BY <1>1, <1>2, SharedStays DEF IInv

\* A step of one cycle that changes nothing else.
LEMMA GoesOn ==
  ASSUME IInv, NEW w \in Worker, NEW r \in Job, Go(w, r), JobOK(r, Home[w]),
         UNCHANGED <<cloud, device, history>>
  PROVE  IInv'
<1>1. Grows /\ UNCHANGED <<parents, sent, had, faults, cut, torn>>
  BY NothingGrows DEF history
<1>2. JobsInv'
  BY <1>1, WorkerGoes DEF IInv
<1>3. SharedInv'
  BY <1>1, SharedStays DEF IInv, SharedInv, Types
<1> QED BY <1>2, <1>3 DEF IInv

LEMMA Working ==
  ASSUME IInv, NEW w \in Worker
  PROVE  /\ job[w] \in Job /\ JobOK(job[w], Home[w]) /\ Home[w] \in Device
         /\ StateOK(job[w], Home[w]) /\ FoundOK(job[w], Home[w]) /\ GotOK(job[w])
         /\ WorkOK(job[w], Home[w])
BY CloudAssumption DEF IInv, JobsInv, JobOK

\* An agreement on version v of a path.
LEMMA AgreedOK ==
  ASSUME NEW j \in Job, NEW p \in Path, NEW v \in Version, NEW n \in Name
  PROVE  LET r == Agreed(j, p, v, n) IN
         /\ r \in Job
         /\ r.pc = j.pc /\ r.table = j.table /\ r.todo = j.todo /\ r.gone = j.gone
         /\ r.found = j.found /\ r.got = j.got
         /\ r.state.files = [j.state.files EXCEPT ![p] = [hash |-> v, blob |-> n]]
<1> DEFINE e == [hash |-> v, blob |-> n]
           s == [j.state EXCEPT !.files[p] = e]
           r == [j EXCEPT !.state = s]
<1>1. e \in Maybe(FileState)
  BY DEF FileState, Maybe
<1>2. j.state \in SyncState
  BY DEF Job
<1>3. s \in SyncState /\ s.files = [j.state.files EXCEPT ![p] = e]
  BY <1>1, <1>2 DEF SyncState
<1> HIDE DEF s
<1>4. /\ r \in Job /\ r.state = s
      /\ r.pc = j.pc /\ r.table = j.table /\ r.todo = j.todo /\ r.gone = j.gone
      /\ r.found = j.found /\ r.got = j.got
  BY <1>3 DEF Job
<1>5. Agreed(j, p, v, n) = r
  BY DEF Agreed, s
<1> QED BY <1>3, <1>4, <1>5

\* What an entry opens is a version that was uploaded.
LEMMA OpensSent ==
  ASSUME SharedInv, NEW entry \in Entry, Opens(entry)
  PROVE  /\ entry.blob \in Name
         /\ blobs[entry.blob].version \in Version /\ blobs[entry.blob].version \in sent
         /\ blobs[entry.blob].version # NONE
<1>1. entry.blob \in Name /\ blobs[entry.blob] \in Blob
  BY DEF Opens, Entry, SharedInv, Types, Maybe
<1>2. blobs[entry.blob].version \in Version
  BY <1>1 DEF Blob
<1>3. blobs[entry.blob].version # NONE
  BY <1>2, CloudAssumption DEF Version
<1> QED BY <1>1, <1>2, <1>3 DEF Opens, SharedInv, BlobsOK

(***************************************************************************)
(* A session, and the first cycle of a device.                             *)
(***************************************************************************)

LEMMA LatestSeq ==
  ASSUME IInv, NEW w \in Worker, latest_seq(w)
  PROVE  IInv'
<1> DEFINE j == job[w]
           s == [j.state EXCEPT !.cursor = Len(log)]
           r == [j EXCEPT !.state.cursor = Len(log), !.pc = "adopt_fetch"]
<1>0. j \in Job /\ JobOK(j, Home[w])
  BY Working
<1>1. Len(log) \in Nat /\ j.state \in SyncState
  BY <1>0 DEF IInv, SharedInv, Types, Job
<1>2. s \in SyncState /\ s.files = j.state.files
  BY <1>1 DEF SyncState
<1>3. /\ r \in Job /\ r.pc = "adopt_fetch" /\ r.state.files = j.state.files /\ r.found = j.found
  <2> HIDE DEF s
  <2>1. r = [j EXCEPT !.state = s, !.pc = "adopt_fetch"]
    BY DEF s
  <2>2. /\ [j EXCEPT !.state = s, !.pc = "adopt_fetch"] \in Job
        /\ r.pc = "adopt_fetch" /\ r.state = s /\ r.found = j.found
    BY <1>0, <1>2, <2>1 DEF Job, Steps
  <2> QED BY <1>2, <2>1, <2>2
<1>4. Go(w, r) /\ UNCHANGED <<cloud, device, history>> /\ j.pc = "latest"
  BY DEF latest_seq
<1> HIDE DEF r
<1>5. JobOK(r, Home[w])
  BY <1>0, <1>3, <1>4 DEF JobOK, StateOK, FoundOK, GotOK, WorkOK, Holding, Tabled
<1> QED BY <1>3, <1>4, <1>5, GoesOn

LEMMA FetchTable ==
  ASSUME IInv, NEW w \in Worker,
         NEW phase \in {"adopt_fetch", "pull_fetch", "push_fetch"},
         NEW next \in {"adopt", "pull", "put"},
         next = "put" <=> phase = "push_fetch",
         fetch_table(w, phase, next)
  PROVE  IInv'
<1> DEFINE j == job[w]
           sealed == IF manifest = NONE THEN EmptyTable ELSE manifest.table
           todo == IF next = "adopt" THEN Known(sealed) ELSE j.todo
           r == [j EXCEPT !.table = sealed, !.pc = next, !.todo = todo]
<1>0. j \in Job /\ JobOK(j, Home[w])
  BY Working
<1>1. sealed \in KeyTable
  <2>1. EmptyTable \in KeyTable
    BY DEF EmptyTable, KeyTable, Maybe
  <2> QED BY <2>1 DEF IInv, SharedInv, Types, Maybe
<1>2. todo \in SUBSET Path /\ (next = "adopt" => \A p \in todo : sealed[p] # NONE)
  BY <1>0 DEF Known, Job
<1>3. CASE GiveUp(w)
  BY <1>3, GivesUp DEF fetch_table, IInv, SharedInv, Types
<1>4. CASE ~GiveUp(w)
  <2>1. Go(w, r) /\ UNCHANGED <<cloud, device, history>> /\ j.pc = phase
    BY <1>4 DEF fetch_table, history
  <2> HIDE DEF sealed, todo
  <2>2. /\ r \in Job /\ r.pc = next /\ r.table = sealed /\ r.todo = todo
        /\ r.state = j.state /\ r.found = j.found /\ r.gone = j.gone
    BY <1>0, <1>1, <1>2 DEF Job, Steps, Maybe
  <2> HIDE DEF r
  <2>3. StateOK(r, Home[w]) /\ FoundOK(r, Home[w])
    BY <1>0, <2>1, <2>2 DEF JobOK, StateOK, FoundOK
  <2>4. GotOK(r)
    BY <2>2 DEF GotOK, Holding
  <2>5. WorkOK(r, Home[w])
    BY <1>0, <1>1, <1>2, <2>1, <2>2 DEF JobOK, WorkOK, todo
  <2> QED BY <2>1, <2>2, <2>3, <2>4, <2>5, GoesOn DEF JobOK
<1> QED BY <1>3, <1>4

LEMMA Adopt ==
  ASSUME IInv, NEW w \in Worker, adopt(w)
  PROVE  IInv'
<1> DEFINE j == job[w]
           d == Home[w]
<1>0. j \in Job /\ JobOK(j, d) /\ d \in Device
  BY Working
<1>1. j.pc = "adopt" /\ UNCHANGED <<cloud, device, parents, sent, had, faults>>
  BY DEF adopt
<1>2. PICK p \in j.todo :
        IF ~Opens(j.table[p])
        THEN GiveUp(w)
        ELSE LET v == blobs[j.table[p].blob].version
                 r == Agreed([j EXCEPT !.todo = @ \ {p}], p, v, j.table[p].blob)
             IN  /\ UNCHANGED <<cut, torn>>
                 /\ IF j.verb = "pull" \/ disk[d][p] = NONE
                    THEN Go(w, [r EXCEPT !.pc = "adopt_write",
                           !.got = [path |-> p, version |-> v, seen |-> disk[d][p]]])
                    ELSE Go(w, r)
  BY DEF adopt
<1>3. CASE ~Opens(j.table[p])
  BY <1>1, <1>2, <1>3, GivesUp DEF IInv, SharedInv, Types
<1>4. CASE Opens(j.table[p])
  <2> DEFINE n == j.table[p].blob
             v == blobs[n].version
             k == [j EXCEPT !.todo = @ \ {p}]
             r == Agreed(k, p, v, n)
             g == [path |-> p, version |-> v, seen |-> disk[d][p]]
             q == [r EXCEPT !.pc = "adopt_write", !.got = g]
  <2>1. p \in Path /\ j.table \in KeyTable /\ j.table[p] \in Entry
    BY <1>0, <1>1 DEF JobOK, WorkOK, Job, Tabled, KeyTable, Maybe
  <2>2. n \in Name /\ v \in Version /\ v \in sent /\ v # NONE
    BY <1>4, <2>1, OpensSent DEF IInv
  <2>3. /\ k \in Job /\ k.pc = j.pc /\ k.table = j.table /\ k.state = j.state
        /\ k.found = j.found /\ k.gone = j.gone /\ k.todo = j.todo \ {p}
    BY <1>0 DEF Job
  <2>4. UNCHANGED history /\ Go(w, IF j.verb = "pull" \/ disk[d][p] = NONE THEN q ELSE r)
    BY <1>1, <1>2, <1>4 DEF history
  <2> HIDE DEF n, v, k, r
  <2>5. /\ r \in Job /\ r.pc = "adopt" /\ r.table = j.table /\ r.todo = j.todo \ {p}
        /\ r.found = j.found
        /\ r.state.files = [j.state.files EXCEPT ![p] = [hash |-> v, blob |-> n]]
    BY <1>1, <2>1, <2>2, <2>3, AgreedOK DEF r
  <2>6. j.state.files \in [Path -> Maybe(FileState)]
    BY <1>0 DEF Job, SyncState
  <2>7. disk[d][p] \in Maybe(Version)
    BY <1>0, <2>1 DEF IInv, SharedInv, Types
  <2>8. g \in Write /\ g.path = p /\ g.version = v
    BY <2>1, <2>2, <2>7 DEF Write, Maybe
  <2> HIDE DEF g
  <2>9. /\ q \in Job /\ q.pc = "adopt_write" /\ q.table = r.table /\ q.todo = r.todo
        /\ q.found = r.found /\ q.state = r.state /\ q.got = g
    BY <2>5, <2>8 DEF Job, Steps, Maybe
  <2> HIDE DEF q
  <2>10. CASE j.verb = "pull" \/ disk[d][p] = NONE
    <3>1. StateOK(q, d) /\ FoundOK(q, d)
      BY <1>0, <1>1, <2>1, <2>2, <2>5, <2>6, <2>8, <2>9 DEF JobOK, StateOK, FoundOK
    <3>2. GotOK(q)
      BY <2>2, <2>8, <2>9 DEF GotOK
    <3>3. WorkOK(q, d)
      BY <1>0, <1>1, <2>1, <2>5, <2>9 DEF JobOK, WorkOK
    <3>4. Go(w, q)
      BY <2>4, <2>10
    <3> QED BY <1>1, <2>4, <2>9, <3>1, <3>2, <3>3, <3>4, GoesOn DEF JobOK
  <2>11. CASE ~(j.verb = "pull" \/ disk[d][p] = NONE)
    <3>1. had[d][p] # {}
      BY <1>0, <2>1, <2>11 DEF IInv, SharedInv, LocalOK
    <3>2. StateOK(r, d) /\ FoundOK(r, d)
      BY <1>0, <1>1, <2>1, <2>2, <2>5, <2>6, <3>1 DEF JobOK, StateOK, FoundOK
    <3>3. GotOK(r) /\ WorkOK(r, d)
      BY <1>0, <1>1, <2>1, <2>5 DEF JobOK, GotOK, WorkOK, Holding
    <3>4. Go(w, r)
      BY <2>4, <2>11
    <3> QED BY <1>1, <2>4, <2>5, <3>2, <3>3, <3>4, GoesOn DEF JobOK
  <2> QED BY <2>10, <2>11
<1> QED BY <1>3, <1>4

(***************************************************************************)
(* Pull.                                                                   *)
(***************************************************************************)

LEMMA OpsSince ==
  ASSUME IInv, NEW w \in Worker, ops_since(w)
  PROVE  IInv'
<1> DEFINE j == job[w]
           ops == Foreign(Home[w], j.state.cursor)
           s == [j.state EXCEPT !.cursor = Len(log)]
           flag == \E i \in ops : log[i].manifest
           r == [j EXCEPT !.state = s, !.puts = NetPuts(ops), !.left = NetPuts(ops),
                          !.dels = NetDels(ops), !.flag = flag]
           pc == IF r.puts = {} /\ r.dels = {} /\ ~r.flag THEN "scan" ELSE "pull_fetch"
           q == [r EXCEPT !.pc = pc]
<1>0. j \in Job /\ JobOK(j, Home[w])
  BY Working
<1>1. log \in Seq(OpPayload) /\ Len(log) \in Nat /\ j.state \in SyncState
  BY <1>0 DEF IInv, SharedInv, Types, Job
<1>2. s \in SyncState /\ s.files = j.state.files /\ s.cursor = Len(log)
  BY <1>1 DEF SyncState
<1>3. ASSUME NEW i \in ops
      PROVE  log[i].put \in SUBSET Name /\ log[i].del \in SUBSET Name
  <2>1. j.state.cursor \in Nat
    BY <1>1 DEF SyncState
  <2>2. i \in 1 .. Len(log)
    BY <1>1, <2>1 DEF Foreign
  <2>3. log[i] \in OpPayload
    BY <1>1, <2>2
  <2> QED BY <2>3 DEF OpPayload
<1>4. NetDels(ops) \in SUBSET Name /\ NetPuts(ops) \in SUBSET Name /\ flag \in BOOLEAN
  <2> HIDE DEF ops
  <2> QED BY <1>3 DEF NetDels, NetPuts
<1>5. Go(w, q) /\ UNCHANGED <<cloud, device, history>> /\ j.pc = "ops"
  BY DEF ops_since
<1> HIDE DEF s, flag, ops
<1>6. r \in Job /\ r.state = s /\ r.found = j.found
  BY <1>0, <1>2, <1>4 DEF Job
<1> HIDE DEF r
<1>7. pc \in {"scan", "pull_fetch"}
  OBVIOUS
<1> HIDE DEF pc
<1>8. q \in Job /\ q.pc = pc /\ q.state = s /\ q.found = j.found
  BY <1>6, <1>7 DEF Job, Steps
<1> HIDE DEF q
<1>9. JobOK(q, Home[w])
  BY <1>0, <1>2, <1>5, <1>7, <1>8 DEF JobOK, StateOK, FoundOK, GotOK, WorkOK, Holding, Tabled
<1> QED BY <1>5, <1>8, <1>9, GoesOn

LEMMA Pull ==
  ASSUME IInv, NEW w \in Worker, pull(w)
  PROVE  IInv'
<1> DEFINE j == job[w]
           d == Home[w]
<1>0. j \in Job /\ JobOK(j, d) /\ d \in Device
  BY Working
<1>1. /\ j.pc = "pull" /\ UNCHANGED <<cloud, device, parents, sent, had, faults>>
      /\ j.left \subseteq Name /\ j.table \in KeyTable
  BY <1>0 DEF pull, Job, JobOK, WorkOK, Tabled
<1>2. PICK n \in j.left :
        LET r == [j EXCEPT !.left = @ \ {n}] IN
        IF PathOf(j.table, n) = {}
        THEN Go(w, r) /\ UNCHANGED <<cut, torn>>
        ELSE \E p \in PathOf(j.table, n) :
             IF ~Opens(j.table[p])
             THEN GiveUp(w)
             ELSE LET v == blobs[n].version
                      local == disk[d][p]
                      agreed == Agreed(r, p, v, n)
                  IN  /\ UNCHANGED <<cut, torn>>
                      /\ Go(w, IF local = v THEN agreed
                               ELSE IF Clean(j, local, p)
                               THEN [agreed EXCEPT !.pc = "pull_write",
                                       !.got = [path |-> p, version |-> v, seen |-> local]]
                               ELSE r)
  BY DEF pull
<1> DEFINE r == [j EXCEPT !.left = @ \ {n}]
<1>3. /\ r \in Job /\ r.pc = j.pc /\ r.table = j.table /\ r.state = j.state
      /\ r.found = j.found /\ r.gone = j.gone /\ r.todo = j.todo /\ r.got = j.got
  BY <1>0 DEF Job
<1>4. JobOK(r, d)
  BY <1>0, <1>1, <1>3 DEF JobOK, StateOK, FoundOK, GotOK, WorkOK, Holding, Tabled
<1>5. ASSUME Go(w, r), UNCHANGED <<cut, torn>>
      PROVE  IInv'
  BY <1>1, <1>3, <1>4, <1>5, GoesOn DEF history
<1>6. ASSUME NEW p \in PathOf(j.table, n), Opens(j.table[p]), ~Go(w, r),
             LET v == blobs[n].version
                 local == disk[d][p]
                 agreed == Agreed(r, p, v, n)
             IN  /\ UNCHANGED <<cut, torn>>
                 /\ Go(w, IF local = v THEN agreed
                          ELSE IF Clean(j, local, p)
                          THEN [agreed EXCEPT !.pc = "pull_write",
                                  !.got = [path |-> p, version |-> v, seen |-> local]]
                          ELSE r)
      PROVE  IInv'
  <2> DEFINE v == blobs[n].version
             local == disk[d][p]
             a == Agreed(r, p, v, n)
             g == [path |-> p, version |-> v, seen |-> local]
             q == [a EXCEPT !.pc = "pull_write", !.got = g]
  <2>1. p \in Path /\ j.table[p] \in Entry /\ n = j.table[p].blob
    BY <1>1, <1>6 DEF PathOf, Known, KeyTable, Maybe
  <2>2. n \in Name /\ v \in Version /\ v \in sent /\ v # NONE
    BY <1>6, <2>1, OpensSent DEF IInv
  <2>3. UNCHANGED history /\ ((Go(w, a) /\ local = v) \/ (Go(w, q) /\ Clean(j, local, p)))
    BY <1>1, <1>6 DEF history
  <2>4. local \in Maybe(Version) /\ (local # NONE => had[d][p] # {})
    BY <1>0, <2>1 DEF IInv, SharedInv, Types, LocalOK
  <2>5. Clean(j, local, p) /\ local # NONE => local \in sent
    BY <1>0, <2>1 DEF Clean, JobOK, StateOK
  <2> HIDE DEF r, v
  <2>6. /\ a \in Job /\ a.pc = "pull" /\ a.table = j.table /\ a.found = j.found
        /\ a.state.files = [j.state.files EXCEPT ![p] = [hash |-> v, blob |-> n]]
    BY SMTT(30), <1>1, <1>3, <2>1, <2>2, AgreedOK
  <2>7. j.state.files \in [Path -> Maybe(FileState)]
    BY <1>0 DEF Job, SyncState
  <2>8. g \in Write /\ g.path = p /\ g.version = v /\ g.seen = local
    BY <2>1, <2>2, <2>4 DEF Write, Maybe
  <2> HIDE DEF a, g, local
  <2>9. /\ q \in Job /\ q.pc = "pull_write" /\ q.table = a.table
        /\ q.found = a.found /\ q.state = a.state /\ q.got = g
    BY <2>6, <2>8 DEF Job, Steps, Maybe
  <2> HIDE DEF q
  <2>10. CASE Go(w, a) /\ local = v
    <3>1. StateOK(a, d) /\ FoundOK(a, d)
      <4>1. /\ a.state.files[p].hash = v
            /\ \A x \in Path \ {p} : a.state.files[x] = j.state.files[x]
        BY <2>1, <2>6, <2>7
      <4>2. had[d][p] # {}
        BY <2>2, <2>4, <2>10
      <4>3. StateOK(j, d) /\ FoundOK(j, d) /\ j.pc = "pull"
        BY <1>0, <1>1 DEF JobOK
      <4>4. FoundOK(a, d)
        BY <2>6, <4>3 DEF FoundOK
      <4>5. StateOK(a, d)
        BY <2>2, <4>1, <4>2, <4>3 DEF StateOK
      <4> QED BY <4>4, <4>5
    <3>2. GotOK(a) /\ WorkOK(a, d)
      BY <1>0, <1>1, <2>6 DEF JobOK, GotOK, WorkOK, Holding
    <3> QED BY <1>1, <2>3, <2>6, <2>10, <3>1, <3>2, GoesOn DEF JobOK
  <2>11. CASE Go(w, q) /\ Clean(j, local, p)
    <3>1. StateOK(q, d) /\ FoundOK(q, d)
      BY <1>0, <1>1, <2>1, <2>2, <2>6, <2>7, <2>8, <2>9 DEF JobOK, StateOK, FoundOK
    <3>2. GotOK(q)
      BY <2>2, <2>5, <2>8, <2>9, <2>11 DEF GotOK
    <3>3. WorkOK(q, d)
      BY <1>0, <1>1, <2>6, <2>9 DEF JobOK, WorkOK
    <3> QED BY <1>1, <2>3, <2>9, <2>11, <3>1, <3>2, <3>3, GoesOn DEF JobOK
  <2> QED BY <2>3, <2>10, <2>11
<1>7. ASSUME GiveUp(w)
      PROVE  IInv'
  BY <1>1, <1>7, GivesUp DEF IInv, SharedInv, Types
<1> HIDE DEF r
<1>8. CASE PathOf(j.table, n) = {}
  BY <1>2, <1>5, <1>8 DEF r
<1>9. CASE PathOf(j.table, n) # {}
  <2>1. PICK p \in PathOf(j.table, n) :
             IF ~Opens(j.table[p])
             THEN GiveUp(w)
             ELSE LET v == blobs[n].version
                      local == disk[d][p]
                      agreed == Agreed(r, p, v, n)
                  IN  /\ UNCHANGED <<cut, torn>>
                      /\ Go(w, IF local = v THEN agreed
                               ELSE IF Clean(j, local, p)
                               THEN [agreed EXCEPT !.pc = "pull_write",
                                       !.got = [path |-> p, version |-> v, seen |-> local]]
                               ELSE r)
    BY <1>2, <1>9 DEF r
  <2>2. CASE ~Opens(j.table[p])
    BY <1>7, <2>1, <2>2
  <2>3. CASE Opens(j.table[p]) /\ Go(w, r)
    BY <1>5, <2>1, <2>3
  <2>4. CASE Opens(j.table[p]) /\ ~Go(w, r)
    BY <1>6, <2>1, <2>4
  <2> QED BY <2>2, <2>3, <2>4
<1> QED BY <1>8, <1>9

LEMMA PullDone ==
  ASSUME IInv, NEW w \in Worker, pull_done(w)
  PROVE  IInv'
<1> DEFINE j == job[w]
           r == [j EXCEPT !.left = j.dels, !.puts = {}, !.pc = "drop"]
<1>0. j \in Job /\ JobOK(j, Home[w])
  BY Working
<1>1. Go(w, r) /\ UNCHANGED <<cloud, device, history>> /\ j.pc = "pull"
  BY DEF pull_done
<1>2. /\ r \in Job /\ r.pc = "drop" /\ r.state = j.state /\ r.found = j.found
      /\ r.table = j.table
  BY <1>0 DEF Job, Steps
<1> HIDE DEF r
<1>3. JobOK(r, Home[w])
  BY <1>0, <1>1, <1>2 DEF JobOK, StateOK, FoundOK, GotOK, WorkOK, Holding, Tabled
<1> QED BY <1>1, <1>2, <1>3, GoesOn

LEMMA Drop ==
  ASSUME IInv, NEW w \in Worker, drop(w)
  PROVE  IInv'
<1> DEFINE j == job[w]
           d == Home[w]
<1>0. j \in Job /\ JobOK(j, d) /\ d \in Device
  BY Working
<1>1. j.pc = "drop" /\ UNCHANGED <<cloud, device, history>> /\ j.table \in KeyTable
  BY <1>0 DEF drop, JobOK, WorkOK, Tabled
<1>2. PICK n \in j.left :
        LET r == [j EXCEPT !.left = @ \ {n}]
            rels == {p \in Known(j.state.files) : j.state.files[p].blob = n}
        IN  IF \A p \in rels : j.table[p] # NONE
            THEN Go(w, r)
            ELSE \E p \in rels :
                 LET forgotten == [r EXCEPT !.state.files[p] = NONE] IN
                 Go(w, IF disk[d][p] # NONE /\ Clean(j, disk[d][p], p)
                       THEN [forgotten EXCEPT !.pc = "pull_write",
                               !.got = [path |-> p, version |-> NONE, seen |-> disk[d][p]]]
                       ELSE forgotten)
  BY DEF drop
<1> DEFINE r == [j EXCEPT !.left = @ \ {n}]
<1>3. /\ r \in Job /\ r.pc = j.pc /\ r.table = j.table /\ r.state = j.state
      /\ r.found = j.found
  BY <1>0 DEF Job
<1> HIDE DEF r
<1>4. JobOK(r, d)
  BY <1>0, <1>1, <1>3 DEF JobOK, StateOK, FoundOK, GotOK, WorkOK, Holding, Tabled
<1>5. ASSUME NEW p \in Known(j.state.files),
             LET forgotten == [r EXCEPT !.state.files[p] = NONE] IN
             Go(w, IF disk[d][p] # NONE /\ Clean(j, disk[d][p], p)
                   THEN [forgotten EXCEPT !.pc = "pull_write",
                           !.got = [path |-> p, version |-> NONE, seen |-> disk[d][p]]]
                   ELSE forgotten)
      PROVE  IInv'
  <2> DEFINE s == [j.state EXCEPT !.files[p] = NONE]
             k == [r EXCEPT !.state = s]
             g == [path |-> p, version |-> NONE, seen |-> disk[d][p]]
             q == [k EXCEPT !.pc = "pull_write", !.got = g]
  <2>1. p \in Path /\ j.state \in SyncState
    BY <1>0, <1>5 DEF Known, Job
  <2>2. s \in SyncState /\ s.files = [j.state.files EXCEPT ![p] = NONE]
    BY <2>1 DEF SyncState, Maybe
  <2>3. disk[d][p] \in Maybe(Version)
    BY <1>0, <2>1 DEF IInv, SharedInv, Types
  <2>4. g \in Write /\ g.path = p /\ g.version = NONE /\ g.seen = disk[d][p]
    BY <2>1, <2>3 DEF Write, Maybe
  <2>5. Go(w, IF disk[d][p] # NONE /\ Clean(j, disk[d][p], p) THEN q ELSE k)
    BY <1>3, <1>5
  <2> HIDE DEF s, g
  <2>6. k \in Job /\ k.pc = "drop" /\ k.table = j.table /\ k.found = j.found /\ k.state = s
    BY <1>1, <1>3, <2>2 DEF Job
  <2>7. j.state.files \in [Path -> Maybe(FileState)]
    BY <2>1 DEF SyncState
  <2> HIDE DEF k
  <2>8. /\ q \in Job /\ q.pc = "pull_write" /\ q.table = j.table /\ q.found = j.found
        /\ q.state = s /\ q.got = g
    BY ZenonT(30), <2>4, <2>6 DEF Job, Steps, Maybe
  <2> HIDE DEF q
  <2>9. CASE disk[d][p] # NONE /\ Clean(j, disk[d][p], p)
    <3>1. StateOK(q, d) /\ FoundOK(q, d)
      BY <1>0, <1>1, <2>2, <2>7, <2>8 DEF JobOK, StateOK, FoundOK
    <3>2. disk[d][p] \in sent
      BY <1>0, <2>1, <2>9 DEF Clean, JobOK, StateOK
    <3>3. GotOK(q) /\ WorkOK(q, d)
      BY <1>1, <2>4, <2>8, <3>2 DEF GotOK, WorkOK
    <3>4. Go(w, q)
      BY <2>5, <2>9
    <3> QED BY <1>1, <2>8, <3>1, <3>3, <3>4, GoesOn DEF JobOK
  <2>10. CASE ~(disk[d][p] # NONE /\ Clean(j, disk[d][p], p))
    <3>1. StateOK(k, d) /\ FoundOK(k, d)
      BY <1>0, <1>1, <2>2, <2>6, <2>7 DEF JobOK, StateOK, FoundOK
    <3>2. GotOK(k) /\ WorkOK(k, d)
      BY <1>1, <2>6 DEF GotOK, WorkOK, Holding
    <3>3. Go(w, k)
      BY <2>5, <2>10
    <3> QED BY <1>1, <2>6, <3>1, <3>2, <3>3, GoesOn DEF JobOK
  <2> QED BY <2>9, <2>10
<1>6. ASSUME Go(w, r)
      PROVE  IInv'
  BY <1>1, <1>3, <1>4, <1>6, GoesOn
<1> QED BY <1>2, <1>5, <1>6 DEF r

LEMMA DropDone ==
  ASSUME IInv, NEW w \in Worker, drop_done(w)
  PROVE  IInv'
<1> DEFINE j == job[w]
           pc == IF j.flag THEN "settle" ELSE "scan"
           dels == IF j.flag THEN j.dels ELSE {}
           r == [j EXCEPT !.pc = pc, !.dels = dels]
<1>0. j \in Job /\ JobOK(j, Home[w])
  BY Working
<1>1. Go(w, r) /\ UNCHANGED <<cloud, device, history>> /\ j.pc = "drop"
  BY DEF drop_done
<1>2. pc \in {"settle", "scan"} /\ dels \in SUBSET Name
  BY <1>0 DEF Job
<1> HIDE DEF pc, dels
<1>3. r \in Job /\ r.pc = pc /\ r.state = j.state /\ r.found = j.found /\ r.table = j.table
  BY <1>0, <1>2 DEF Job, Steps
<1> HIDE DEF r
<1>4. JobOK(r, Home[w])
  BY <1>0, <1>1, <1>2, <1>3 DEF JobOK, StateOK, FoundOK, GotOK, WorkOK, Holding, Tabled
<1> QED BY <1>1, <1>3, <1>4, GoesOn

LEMMA Settle ==
  ASSUME IInv, NEW w \in Worker, settle(w)
  PROVE  IInv'
<1> DEFINE j == job[w]
           clobbered == {p \in Known(j.state.files) :
                           /\ j.table[p] = NONE
                           /\ j.state.files[p].blob \notin j.dels
                           /\ disk[Home[w]][p] # NONE}
           files == [p \in Path |-> IF p \in clobbered THEN NONE ELSE j.state.files[p]]
           s == [j.state EXCEPT !.files = files]
           r == [j EXCEPT !.state = s, !.dels = {}, !.flag = FALSE, !.pc = "scan"]
<1>0. j \in Job /\ JobOK(j, Home[w]) /\ j.state \in SyncState
  BY Working DEF Job
<1>1. UNCHANGED <<cloud, device, history>> /\ j.pc = "settle"
  BY DEF settle
<1>2. Go(w, r)
  BY DEF settle
<1> HIDE DEF clobbered
<1>3. files \in [Path -> Maybe(FileState)] /\ \A p \in Path : files[p] \in {NONE, j.state.files[p]}
  BY <1>0 DEF SyncState, Maybe
<1> HIDE DEF files
<1>4. s \in SyncState /\ s.files = files
  BY <1>0, <1>3 DEF SyncState
<1> HIDE DEF s
<1>5. r \in Job /\ r.pc = "scan" /\ r.state = s /\ r.found = j.found
  BY <1>0, <1>4 DEF Job, Steps
<1> HIDE DEF r
<1>6. StateOK(r, Home[w]) /\ FoundOK(r, Home[w])
  BY <1>0, <1>1, <1>3, <1>4, <1>5 DEF JobOK, StateOK, FoundOK
<1>7. GotOK(r) /\ WorkOK(r, Home[w])
  BY <1>5 DEF GotOK, WorkOK, Holding, Tabled
<1> QED BY <1>1, <1>2, <1>5, <1>6, <1>7, GoesOn DEF JobOK

(***************************************************************************)
(* Push.                                                                   *)
(***************************************************************************)

LEMMA Scan ==
  ASSUME IInv, NEW w \in Worker, scan(w)
  PROVE  IInv'
<1> DEFINE j == job[w]
           d == Home[w]
           changed == {p \in Known(disk[d]) : ~Clean(j, disk[d][p], p)}
           deleted == Deleted(d, j)
           found == [p \in Path |-> IF p \in changed THEN disk[d][p] ELSE NONE]
           pc == IF changed = {} /\ deleted = {} /\ ~Rekeys(j) THEN "save"
                 ELSE IF j.table # NONE THEN "put" ELSE "push_fetch"
           r == [j EXCEPT !.found = found, !.todo = changed, !.gone = deleted, !.pc = pc]
<1>0. j \in Job /\ JobOK(j, d) /\ d \in Device
  BY Working
<1>1. UNCHANGED <<cloud, device, history>> /\ j.pc = "scan"
  BY DEF scan
<1>2. Go(w, r)
  BY DEF scan
<1>3. changed \in SUBSET Path /\ deleted \in SUBSET Path
  BY DEF Known, Deleted
<1>4. /\ \A p \in changed : disk[d][p] # NONE
      /\ \A p \in deleted : j.state.files[p] # NONE
  BY DEF Known, Deleted
<1>5. pc \in {"save", "put", "push_fetch"} /\ (pc = "put" => j.table \in KeyTable)
  BY <1>0 DEF Job, Maybe
<1> HIDE DEF changed, deleted, pc
<1>6. disk[d] \in [Path -> Maybe(Version)]
  BY <1>0 DEF IInv, SharedInv, Types
<1>7. /\ found \in [Path -> Maybe(Version)]
      /\ \A p \in Path : found[p] # NONE => p \in changed /\ found[p] = disk[d][p]
      /\ \A p \in changed : found[p] = disk[d][p]
  BY <1>3, <1>6 DEF Maybe
<1> HIDE DEF found
<1>8. /\ r \in Job /\ r.pc = pc /\ r.state = j.state /\ r.found = found /\ r.table = j.table
      /\ r.todo = changed /\ r.gone = deleted
  BY <1>0, <1>3, <1>5, <1>7 DEF Job, Steps
<1> HIDE DEF r
<1>9. StateOK(r, d)
  BY <1>0, <1>1, <1>8 DEF JobOK, StateOK
<1>10. FoundOK(r, d)
  BY <1>0, <1>4, <1>7, <1>8 DEF FoundOK, IInv, SharedInv, LocalOK
<1>11. GotOK(r)
  BY <1>5, <1>8 DEF GotOK, Holding
<1>12. \A p \in deleted : had[d][p] # {}
  BY <1>0, <1>1, <1>3, <1>4 DEF JobOK, StateOK
<1>13. WorkOK(r, d)
  BY <1>4, <1>5, <1>7, <1>8, <1>12 DEF WorkOK, Tabled
<1> QED BY <1>1, <1>2, <1>8, <1>9, <1>10, <1>11, <1>13, GoesOn DEF JobOK

LEMMA Rekey ==
  ASSUME IInv, NEW w \in Worker, rekey(w)
  PROVE  IInv'
<1> DEFINE j == job[w]
           d == Home[w]
<1>0. j \in Job /\ JobOK(j, d) /\ d \in Device
  BY Working
<1>1. /\ j.pc \in {"put", "rekey"} /\ UNCHANGED <<cloud, device, parents, sent, had, faults>>
      /\ j.table \in KeyTable
  BY <1>0 DEF rekey, JobOK, WorkOK, Tabled
<1>2. CASE GiveUp(w)
  BY <1>1, <1>2, GivesUp DEF IInv, SharedInv, Types
<1>3. ASSUME NEW l \in {"publish", "announce"}, Go(w, [j EXCEPT !.pc = l]), UNCHANGED <<cut, torn>>
      PROVE  IInv'
  <2> DEFINE r == [j EXCEPT !.pc = l]
  <2>1. r \in Job /\ r.pc = l /\ r.state = j.state /\ r.found = j.found /\ r.table = j.table
    BY <1>0 DEF Job, Steps
  <2>2. Go(w, r)
    BY <1>3
  <2> HIDE DEF r
  <2>3. JobOK(r, d)
    BY <1>0, <1>1, <2>1 DEF JobOK, StateOK, FoundOK, GotOK, WorkOK, Holding, Tabled
  <2> QED BY <1>1, <1>3, <2>1, <2>2, <2>3, GoesOn DEF history
<1>4. ASSUME NEW p \in Stale(j), Opens(j.table[p]), UNCHANGED <<cut, torn>>,
             Go(w, [j EXCEPT !.pc = "rekey_put",
                    !.got = [path |-> p, seen |-> NONE,
                             version |-> blobs[j.table[p].blob].version]])
      PROVE  IInv'
  <2> DEFINE v == blobs[j.table[p].blob].version
             g == [path |-> p, seen |-> NONE, version |-> v]
             r == [j EXCEPT !.pc = "rekey_put", !.got = g]
  <2>1. p \in Path /\ j.table[p] \in Entry /\ j.table[p] # NONE
    BY <1>1, <1>4 DEF Stale, Known, KeyTable, Maybe
  <2>2. v \in Version /\ v \in sent /\ v # NONE
    BY <1>4, <2>1, OpensSent DEF IInv
  <2>3. Go(w, r)
    BY <1>4
  <2> HIDE DEF v
  <2>4. g \in Write /\ g.path = p /\ g.version = v
    BY <2>1, <2>2 DEF Write, Maybe
  <2> HIDE DEF g
  <2>5. /\ r \in Job /\ r.pc = "rekey_put" /\ r.state = j.state /\ r.found = j.found
        /\ r.table = j.table /\ r.got = g
    BY <1>0, <2>4 DEF Job, Steps, Maybe
  <2> HIDE DEF r
  <2>6. StateOK(r, d) /\ FoundOK(r, d)
    BY <1>0, <1>1, <2>5 DEF JobOK, StateOK, FoundOK
  <2>7. GotOK(r) /\ WorkOK(r, d)
    BY <1>1, <2>1, <2>2, <2>4, <2>5 DEF GotOK, WorkOK
  <2> QED BY <1>1, <1>4, <2>3, <2>5, <2>6, <2>7, GoesOn DEF JobOK, history
<1> QED BY <1>2, <1>3, <1>4 DEF rekey

(***************************************************************************)
(* Steps that write.                                                       *)
(***************************************************************************)

\* The session's key and the state it starts from.
LEMMA Start ==
  ASSUME IInv, NEW w \in Worker, NEW verb \in Verbs, start(w, verb)
  PROVE  IInv'
<1> DEFINE d == Home[w]
<1>0. d \in Device /\ verb \in {"cycle", "push", "pull"}
  BY CloudAssumption
<1>1. /\ UNCHANGED <<cloud, disk, saved, history>>
      /\ job[w].pc = "idle"
  BY DEF start
<1>2. PICK k \in SessionKeys(d) :
        /\ key' = [key EXCEPT ![d] = k]
        /\ Go(w, [Idle EXCEPT
             !.verb = verb, !.key = k,
             !.state = IF saved[d] = NONE THEN NewState(k) ELSE saved[d],
             !.pc = CASE verb = "push" -> "scan"
                      [] verb = "pull" -> "adopt_fetch"
                      [] verb = "cycle" /\ saved[d] = NONE -> "latest"
                      [] verb = "cycle" /\ saved[d] # NONE -> "ops"])
  BY DEF start
<1> DEFINE s == IF saved[d] = NONE THEN NewState(k) ELSE saved[d]
           pc == CASE verb = "push" -> "scan"
                   [] verb = "pull" -> "adopt_fetch"
                   [] verb = "cycle" /\ saved[d] = NONE -> "latest"
                   [] verb = "cycle" /\ saved[d] # NONE -> "ops"
           r == [Idle EXCEPT !.verb = verb, !.key = k, !.state = s, !.pc = pc]
<1>3. k \in Key
  BY <1>0 DEF SessionKeys, IInv, SharedInv, Types
<1>4. /\ s \in SyncState
      /\ \A p \in Path : s.files[p] # NONE =>
           s.files[p].hash \in sent /\ had[d][p] # {}
  BY <1>0, <1>3, NewStateOK DEF IInv, SharedInv, Types, SavedOK, Maybe
<1>5. pc \in {"scan", "adopt_fetch", "latest", "ops"}
  BY <1>0
<1>6. Go(w, r)
  BY <1>2
<1> HIDE DEF s, pc
<1>7. /\ r \in Job /\ r.pc = pc /\ r.state = s
      /\ r.found = Idle.found
  BY <1>0, <1>3, <1>4, <1>5, IdleOK DEF Job, Steps
<1> HIDE DEF r
<1>8. StateOK(r, d) /\ FoundOK(r, d)
  BY <1>4, <1>7, IdleOK DEF StateOK, FoundOK
<1>9. GotOK(r) /\ WorkOK(r, d)
  BY <1>5, <1>7 DEF GotOK, WorkOK, Holding, Tabled
<1>10. Grows
  BY <1>1, NothingGrows DEF history
<1>11. JobsInv'
  BY <1>6, <1>7, <1>8, <1>9, <1>10, WorkerGoes DEF IInv, JobOK
<1>12. SharedInv'
  BY <1>1, <1>2, <1>3 DEF IInv, SharedInv, Types, LocalOK, BlobsOK, SavedOK, Written, cloud,
     history
<1> QED BY <1>11, <1>12 DEF IInv

\* The state is saved when nothing is about to be written.
LEMMA Saves ==
  ASSUME IInv, NEW w \in Worker, NEW s \in SyncState, s.files = job[w].state.files,
         job[w].pc \notin Holding, saved' = [saved EXCEPT ![Home[w]] = s],
         UNCHANGED <<cloud, disk, key, history>>
  PROVE  SharedInv' /\ Grows
<1> DEFINE d == Home[w]
<1>1. d \in Device /\ StateOK(job[w], d)
  BY Working
<1>2. \A p \in Path : s.files[p] # NONE => s.files[p].hash \in sent /\ had[d][p] # {}
  BY <1>1 DEF StateOK, Holding
<1>3. Types'
  BY DEF IInv, SharedInv, Types, Written, Maybe, cloud, history
<1>4. SavedOK'
  BY <1>1, <1>2 DEF IInv, SharedInv, Types, SavedOK, history
<1>5. LocalOK' /\ BlobsOK'
  BY DEF IInv, SharedInv, LocalOK, BlobsOK, Written, cloud, history
<1> QED BY <1>3, <1>4, <1>5, NothingGrows DEF SharedInv, history

LEMMA AdoptSave ==
  ASSUME IInv, NEW w \in Worker, adopt_save(w)
  PROVE  IInv'
<1> DEFINE j == job[w]
           q == [j EXCEPT !.table = NONE, !.pc = "ops"]
<1>0. j \in Job /\ JobOK(j, Home[w]) /\ Home[w] \in Device
  BY Working
<1>1. /\ j.pc = "adopt" /\ saved' = [saved EXCEPT ![Home[w]] = j.state]
      /\ UNCHANGED <<cloud, disk, key, history>>
      /\ Go(w, IF j.verb = "pull" THEN Idle ELSE q)
  BY DEF adopt_save
<1>2. SharedInv' /\ Grows
  BY <1>0, <1>1, Saves DEF Job, Holding
<1>3. /\ q \in Job /\ q.pc = "ops" /\ q.state = j.state /\ q.found = j.found
  BY <1>0 DEF Job, Steps, Maybe
<1> HIDE DEF q
<1>4. JobOK(q, Home[w])
  BY <1>0, <1>1, <1>3 DEF JobOK, StateOK, FoundOK, GotOK, WorkOK, Holding, Tabled
<1>5. JobsInv'
  <2>1. CASE j.verb = "pull"
    BY <1>1, <1>2, <2>1, IdleOK, WorkerGoes DEF IInv
  <2>2. CASE j.verb # "pull"
    BY <1>1, <1>2, <1>3, <1>4, <2>2, WorkerGoes DEF IInv
  <2> QED BY <2>1, <2>2
<1> QED BY <1>2, <1>5 DEF IInv

LEMMA Save ==
  ASSUME IInv, NEW w \in Worker, save(w)
  PROVE  IInv'
<1> DEFINE j == job[w]
           s == [j.state EXCEPT !.generation = j.key]
<1>0. j \in Job /\ Home[w] \in Device
  BY Working
<1>1. /\ j.pc = "save" /\ saved' = [saved EXCEPT ![Home[w]] = s]
      /\ UNCHANGED <<cloud, disk, key, history>> /\ Go(w, Idle)
  BY DEF save
<1>2. s \in SyncState /\ s.files = j.state.files
  BY <1>0 DEF Job, SyncState
<1> HIDE DEF s
<1>3. SharedInv' /\ Grows
  BY <1>1, <1>2, Saves DEF Holding
<1>4. JobsInv'
  BY <1>1, <1>3, IdleOK, WorkerGoes DEF IInv
<1> QED BY <1>3, <1>4 DEF IInv

\* The write itself: from then on the device has had the file.
LEMMA FileSet ==
  ASSUME SharedInv, NEW d \in Device, NEW p \in Path, NEW v \in Maybe(Version),
         SetFile(d, p, v), v # NONE => v \in Written',
         UNCHANGED <<cloud, saved, key, sent, faults, cut, torn>>,
         parents' \in Seq(SUBSET Version), Len(parents') <= MaxEdits, Written \subseteq Written'
  PROVE  SharedInv' /\ Grows /\ (v # NONE => v \in had'[d][p])
<1>1. /\ disk \in [Device -> [Path -> Maybe(Version)]]
      /\ had \in [Device -> [Path -> SUBSET Version]]
      /\ \A e \in Device : disk[e] \in [Path -> Maybe(Version)] /\ had[e] \in [Path -> SUBSET Version]
  BY DEF SharedInv, Types
<1>2. {v} \ {NONE} \subseteq Version
  BY DEF Maybe
<1>3. /\ disk' \in [Device -> [Path -> Maybe(Version)]]
      /\ had' \in [Device -> [Path -> SUBSET Version]]
  BY <1>1, <1>2 DEF SetFile
<1>4. /\ disk'[d][p] = v /\ had'[d][p] = had[d][p] \cup ({v} \ {NONE})
      /\ \A e \in Device, q \in Path : e # d \/ q # p =>
           disk'[e][q] = disk[e][q] /\ had'[e][q] = had[e][q]
  BY <1>1 DEF SetFile
<1>5. Grows
  BY <1>4 DEF Grows
<1>6. Types'
  BY <1>3, <1>5 DEF SharedInv, Types, cloud, Grows
<1>7. LocalOK'
  BY <1>4 DEF SharedInv, LocalOK
<1>8. BlobsOK' /\ SavedOK'
  BY <1>4 DEF SharedInv, BlobsOK, SavedOK, cloud
<1> QED BY <1>4, <1>5, <1>6, <1>7, <1>8 DEF SharedInv

LEMMA WriteFile ==
  ASSUME IInv, NEW w \in Worker, write_file(w)
  PROVE  IInv'
<1>0. PICK j \in Job : j = job[w]
  BY Working
<1> DEFINE d == Home[w]
           pc == CASE j.pc = "adopt_write" -> "adopt"
                   [] j.pc = "pull_write" /\ j.got.version # NONE -> "pull"
                   [] j.pc = "pull_write" /\ j.got.version = NONE -> "drop"
           r == [j EXCEPT !.got = NONE, !.pc = pc]
<1>1. /\ d \in Device /\ StateOK(j, d) /\ FoundOK(j, d) /\ GotOK(j) /\ WorkOK(j, d)
  BY <1>0, Working
<1>2. /\ j.pc \in {"adopt_write", "pull_write"}
      /\ SetFile(d, j.got.path, j.got.version)
      /\ Go(w, r)
      /\ UNCHANGED <<cloud, saved, key, parents, sent, faults, cut, torn>>
  BY <1>0 DEF write_file
<1>3. /\ j.got.path \in Path /\ j.got.version \in Maybe(Version)
      /\ j.got.version # NONE => j.got.version \in Written
      /\ j.pc = "adopt_write" => j.got.version # NONE
  BY <1>1, <1>2 DEF GotOK, Holding, Write, IInv, SharedInv, Types
<1>4. SharedInv' /\ Grows /\ (j.got.version # NONE => j.got.version \in had'[d][j.got.path])
  BY <1>1, <1>2, <1>3, FileSet DEF IInv, SharedInv, Types, Written
<1>5. pc \in {"adopt", "pull", "drop"} /\ (pc = "adopt" <=> j.pc = "adopt_write")
  BY <1>2
<1> HIDE DEF pc
<1>6. /\ r \in Job /\ r.pc = pc /\ r.state = j.state /\ r.found = j.found
      /\ r.table = j.table /\ r.todo = j.todo
  BY <1>5 DEF Job, Steps, Maybe
<1> HIDE DEF r
<1>7. StateOK(r, d)'
  BY <1>1, <1>2, <1>3, <1>4, <1>6 DEF StateOK, Grows
<1>8. FoundOK(r, d)'
  BY <1>1, <1>4, <1>6 DEF FoundOK, Grows
<1>9. GotOK(r)' /\ WorkOK(r, d)'
  BY <1>1, <1>2, <1>5, <1>6 DEF GotOK, WorkOK, Holding, Tabled
<1>10. JobsInv'
  BY <1>2, <1>4, <1>6, <1>7, <1>8, <1>9, WorkerMoves DEF IInv, JobOK
<1> QED BY <1>4, <1>10 DEF IInv

\* A key is minted while one is left.
LEMMA Minted ==
  ASSUME UnusedDeks # {}
  PROVE  FreshDek \in Dek
<1>1. UnusedDeks \subseteq Dek
  BY DEF UnusedDeks
<1>2. FreshDek \in UnusedDeks
  BY DEF FreshDek
<1> QED BY <1>1, <1>2

\* A slot is written with a version that is, or now counts as, uploaded; or emptied.
LEMMA SlotsWritten ==
  ASSUME SharedInv, sent \subseteq sent', sent' \subseteq Written,
         blobs' \in [Name -> Maybe(Blob)],
         \A n \in Name : blobs'[n] # NONE =>
           blobs'[n] = blobs[n] \/ blobs'[n].version \in sent',
         UNCHANGED <<manifest, log, generation, device, parents, had, faults, cut, torn>>
  PROVE  SharedInv' /\ Grows
<1>1. Types' /\ LocalOK'
  BY DEF SharedInv, Types, LocalOK, Written, device
<1>2. BlobsOK'
  BY DEF SharedInv, BlobsOK
<1>3. SavedOK'
  BY DEF SharedInv, SavedOK, device
<1>4. Grows
  BY DEF Grows, Written
<1> QED BY <1>1, <1>2, <1>3, <1>4 DEF SharedInv

LEMMA Put ==
  ASSUME IInv, NEW w \in Worker, put(w)
  PROVE  IInv'
<1>0. PICK j \in Job : j = job[w]
  BY Working
<1> DEFINE d == Home[w]
<1>1. /\ d \in Device /\ StateOK(j, d) /\ FoundOK(j, d) /\ GotOK(j) /\ WorkOK(j, d)
  BY <1>0, Working
<1>2. /\ j.pc = "put" /\ j.todo # {}
      /\ UNCHANGED <<manifest, log, generation, device, parents, had, faults, cut, torn>>
  BY <1>0 DEF put
<1>3. PICK p \in j.todo :
        /\ j.table[p] # NONE \/ UnusedDeks # {}
        /\ LET entry == TableEntry(j.table, j.key, p)
               v == j.found[p]
           IN  /\ blobs' = [blobs EXCEPT ![entry.blob] = [dek |-> entry.dek, version |-> v]]
               /\ sent' = sent \cup {v}
               /\ Go(w, [j EXCEPT !.todo = @ \ {p}, !.found[p] = NONE,
                           !.flag = @ \/ j.table[p] = NONE,
                           !.table[p] = entry,
                           !.puts = @ \cup {entry.blob},
                           !.state.files[p] = [hash |-> v, blob |-> entry.blob]])
  BY <1>0 DEF put
<1>4. PICK v \in Version : v = j.found[p] /\ v \in Written /\ v # NONE
  BY <1>1, <1>2, <1>3 DEF FoundOK, WorkOK, Job, Maybe
<1>5. p \in Path /\ j.table \in KeyTable /\ had[d][p] # {}
  BY <1>1, <1>2, <1>3 DEF FoundOK, WorkOK, Job, Tabled
<1>6. PICK entry \in Entry : entry = TableEntry(j.table, j.key, p)
  <2>1. CASE j.table[p] # NONE
    BY <1>5, <2>1 DEF TableEntry, KeyTable, Maybe
  <2>2. CASE j.table[p] = NONE
    <3>1. FreshDek \in Dek
      BY <1>3, <2>2, Minted
    <3>2. blob_name(j.key, p) \in Name
      BY <1>5 DEF Name, blob_name, Job
    <3>3. TableEntry(j.table, j.key, p) \in Entry
      BY <2>2, <3>1, <3>2 DEF TableEntry, Entry
    <3> QED BY <3>3
  <2> QED BY <2>1, <2>2
<1>7. entry.blob \in Name /\ entry.dek \in Dek
  BY DEF Entry
<1>8. PICK flag \in BOOLEAN : flag = (j.flag \/ j.table[p] = NONE)
  OBVIOUS
<1> DEFINE b == [dek |-> entry.dek, version |-> v]
           e == [hash |-> v, blob |-> entry.blob]
           s == [j.state EXCEPT !.files[p] = e]
           table == [j.table EXCEPT ![p] = entry]
           found == [j.found EXCEPT ![p] = NONE]
           r == [j EXCEPT !.todo = j.todo \ {p}, !.found = found, !.flag = flag,
                          !.table = table, !.puts = j.puts \cup {entry.blob}, !.state = s]
<1>9. blobs' = [blobs EXCEPT ![entry.blob] = b] /\ sent' = sent \cup {v} /\ Go(w, r)
  BY <1>3, <1>4, <1>6, <1>8
<1>10. SharedInv' /\ Grows
  <2>1. b \in Maybe(Blob) /\ b.version = v
    BY <1>7 DEF Blob, Maybe
  <2> HIDE DEF b
  <2>2. blobs \in [Name -> Maybe(Blob)] /\ sent \subseteq Written
    BY DEF IInv, SharedInv, Types
  <2>3. blobs' \in [Name -> Maybe(Blob)]
    BY <1>7, <1>9, <2>1, <2>2
  <2>4. \A n \in Name : blobs'[n] # NONE =>
           blobs'[n] = blobs[n] \/ blobs'[n].version \in sent'
    BY <1>7, <1>9, <2>1, <2>2
  <2> QED BY <1>2, <1>4, <1>9, <2>2, <2>3, <2>4, SlotsWritten DEF IInv
<1> HIDE DEF b
<1>11. j.state \in SyncState /\ j.state.files \in [Path -> Maybe(FileState)]
       /\ j.found \in [Path -> Maybe(Version)]
  BY DEF Job, SyncState
<1>12. e \in Maybe(FileState) /\ e.hash = v
  BY <1>7 DEF FileState, Maybe
<1> HIDE DEF e
<1>13. s \in SyncState /\ s.files = [j.state.files EXCEPT ![p] = e]
  BY <1>11, <1>12 DEF SyncState
<1>14. table \in KeyTable /\ found \in [Path -> Maybe(Version)]
  BY <1>5, <1>11 DEF KeyTable, Maybe
<1> HIDE DEF s, table
<1>15. /\ \A q \in Path : q # p => found[q] = j.found[q]
       /\ \A q \in Path : found[q] # NONE => found[q] = j.found[q]
  BY <1>5, <1>11
<1> HIDE DEF found
<1>16. /\ r \in Job /\ r.pc = "put" /\ r.table = table /\ r.state = s /\ r.found = found
       /\ r.todo = j.todo \ {p} /\ r.gone = j.gone
  BY <1>2, <1>7, <1>8, <1>13, <1>14 DEF Job, Maybe
<1> HIDE DEF r
<1>17. StateOK(r, d)'
  BY <1>1, <1>2, <1>5, <1>9, <1>11, <1>12, <1>13, <1>16 DEF StateOK
<1>18. FoundOK(r, d)'
  BY <1>1, <1>2, <1>10, <1>15, <1>16 DEF FoundOK, Grows
<1>19. GotOK(r)'
  BY <1>16 DEF GotOK, Holding
<1>20. WorkOK(r, d)'
  <2>1. j.todo \subseteq Path
    BY DEF Job
  <2> QED BY <1>1, <1>2, <1>14, <1>15, <1>16, <2>1 DEF WorkOK
<1>21. JobsInv'
  BY <1>9, <1>10, <1>16, <1>17, <1>18, <1>19, <1>20, WorkerMoves DEF IInv, JobOK
<1> QED BY <1>10, <1>21 DEF IInv

LEMMA Tombstone ==
  ASSUME IInv, NEW w \in Worker, tombstone(w)
  PROVE  IInv'
<1> DEFINE j == job[w]
           d == Home[w]
<1>0. j \in Job /\ JobOK(j, d) /\ d \in Device
  BY Working
<1>1. /\ j.pc = "put" /\ j.todo = {} /\ j.table \in KeyTable
      /\ UNCHANGED <<manifest, log, generation, device, history>>
  BY <1>0 DEF tombstone, JobOK, WorkOK, Tabled
<1>2. PICK p \in j.gone :
        LET r == [j EXCEPT !.gone = @ \ {p}, !.state.files[p] = NONE] IN
        IF j.table[p] = NONE
        THEN Go(w, r) /\ UNCHANGED blobs
        ELSE /\ blobs' = [blobs EXCEPT ![j.table[p].blob] = NONE]
             /\ Go(w, [r EXCEPT !.table[p] = NONE, !.flag = TRUE,
                         !.dels = @ \cup {j.table[p].blob}])
  BY DEF tombstone
<1> DEFINE s == [j.state EXCEPT !.files[p] = NONE]
           r == [j EXCEPT !.gone = j.gone \ {p}, !.state = s]
           table == [j.table EXCEPT ![p] = NONE]
           q == [r EXCEPT !.table = table, !.flag = TRUE,
                          !.dels = r.dels \cup {j.table[p].blob}]
<1>3. p \in Path /\ j.state \in SyncState /\ j.state.files \in [Path -> Maybe(FileState)]
  BY <1>0 DEF Job, SyncState
<1>4. s \in SyncState /\ s.files = [j.state.files EXCEPT ![p] = NONE]
  BY <1>3 DEF SyncState, Maybe
<1>5. table \in KeyTable
  BY <1>1 DEF KeyTable, Maybe
<1>6. CASE j.table[p] = NONE
  <2>1. Go(w, r) /\ UNCHANGED <<cloud, device, history>>
    BY <1>1, <1>2, <1>6 DEF cloud
  <2> HIDE DEF s, table
  <2>2. /\ r \in Job /\ r.pc = "put" /\ r.state = s /\ r.found = j.found /\ r.table = j.table
        /\ r.todo = {} /\ r.gone \subseteq j.gone
    BY <1>0, <1>1, <1>4 DEF Job
  <2> HIDE DEF r
  <2>3. StateOK(r, d) /\ FoundOK(r, d)
    BY <1>0, <1>1, <1>3, <1>4, <2>2 DEF JobOK, StateOK, FoundOK
  <2>4. GotOK(r) /\ WorkOK(r, d)
    BY <1>0, <1>1, <2>2 DEF JobOK, GotOK, WorkOK, Holding
  <2> QED BY <2>1, <2>2, <2>3, <2>4, GoesOn DEF JobOK
<1>7. CASE j.table[p] # NONE
  <2>1. Go(w, q) /\ blobs' = [blobs EXCEPT ![j.table[p].blob] = NONE]
    BY <1>2, <1>7
  <2>2. j.table[p].blob \in Name
    BY <1>1, <1>3, <1>7 DEF KeyTable, Entry, Maybe
  <2>3. SharedInv' /\ Grows
    <3>1. blobs \in [Name -> Maybe(Blob)] /\ sent \subseteq Written
      BY DEF IInv, SharedInv, Types
    <3>2. blobs' \in [Name -> Maybe(Blob)] /\ \A n \in Name : blobs'[n] \in {NONE, blobs[n]}
      BY <2>1, <3>1 DEF Maybe
    <3> QED BY <1>1, <3>1, <3>2, SlotsWritten DEF IInv, history
  <2> HIDE DEF s, table
  <2>4. /\ r \in Job /\ r.pc = "put" /\ r.state = s /\ r.found = j.found
        /\ r.todo = {} /\ r.gone \subseteq j.gone
    BY <1>0, <1>1, <1>4 DEF Job
  <2> HIDE DEF r
  <2>5. /\ q \in Job /\ q.pc = "put" /\ q.state = s /\ q.found = j.found /\ q.table = table
        /\ q.todo = {} /\ q.gone \subseteq j.gone
    BY <1>5, <2>2, <2>4 DEF Job, Maybe
  <2> HIDE DEF q
  <2>6. StateOK(q, d) /\ FoundOK(q, d)
    BY <1>0, <1>1, <1>3, <1>4, <2>5 DEF JobOK, StateOK, FoundOK
  <2>7. GotOK(q) /\ WorkOK(q, d)
    BY <1>0, <1>1, <1>5, <2>5 DEF JobOK, GotOK, WorkOK, Holding
  <2> QED BY <2>1, <2>3, <2>5, <2>6, <2>7, WorkerGoes DEF IInv, JobOK
<1> QED BY <1>6, <1>7

LEMMA RekeyPut ==
  ASSUME IInv, NEW w \in Worker, rekey_put(w)
  PROVE  IInv'
<1> DEFINE j == job[w]
           d == Home[w]
           p == j.got.path
           v == j.got.version
           old == j.state.files[p]
<1>0. j \in Job /\ JobOK(j, d) /\ d \in Device
  BY Working
<1>1. /\ j.pc = "rekey_put" /\ j.table \in KeyTable /\ UnusedDeks # {}
      /\ UNCHANGED <<manifest, log, generation, device, history>>
  BY <1>0 DEF rekey_put, JobOK, WorkOK, Tabled
<1>2. p \in Path /\ v \in Version /\ v \in sent /\ j.table[p] \in Entry
  BY <1>0, <1>1 DEF JobOK, GotOK, Holding, Write, Maybe, KeyTable
<1> DEFINE entry == [blob |-> blob_name(j.key, p), dek |-> FreshDek]
           b == [dek |-> entry.dek, version |-> v]
           e == IF old = NONE THEN NONE ELSE [old EXCEPT !.blob = entry.blob]
           s == [j.state EXCEPT !.files[p] = e]
           table == [j.table EXCEPT ![p] = entry]
           r == [j EXCEPT !.table = table, !.flag = TRUE, !.pc = "rekey_delete",
                          !.puts = j.puts \cup {entry.blob}, !.left = {j.table[p].blob},
                          !.state = s]
<1>3. blobs' = [blobs EXCEPT ![entry.blob] = b] /\ Go(w, r)
  BY DEF rekey_put
<1>4. entry \in Entry /\ entry.blob \in Name /\ entry.dek \in Dek
  <2>1. FreshDek \in Dek
    BY <1>1, Minted
  <2>2. blob_name(j.key, p) \in Name
    BY <1>0, <1>2 DEF Name, blob_name, Job
  <2> QED BY <2>1, <2>2 DEF Entry
<1> HIDE DEF entry
<1>5. b \in Maybe(Blob) /\ b.version = v
  BY <1>2, <1>4 DEF Blob, Maybe
<1> HIDE DEF b
<1>6. SharedInv' /\ Grows
  <2>1. blobs \in [Name -> Maybe(Blob)] /\ sent \subseteq Written
    BY DEF IInv, SharedInv, Types
  <2>2. /\ blobs' \in [Name -> Maybe(Blob)]
        /\ \A n \in Name : blobs'[n] = blobs[n] \/ blobs'[n].version = v
    BY <1>3, <1>4, <1>5, <2>1
  <2> QED BY <1>1, <1>2, <2>1, <2>2, SlotsWritten DEF IInv, history
<1>7. j.state \in SyncState /\ j.state.files \in [Path -> Maybe(FileState)]
  BY <1>0 DEF Job, SyncState
<1>8. e \in Maybe(FileState) /\ (e # NONE => old # NONE /\ e.hash = old.hash)
  BY <1>2, <1>4, <1>7 DEF FileState, Maybe
<1> HIDE DEF e
<1>9. s \in SyncState /\ s.files = [j.state.files EXCEPT ![p] = e]
  BY <1>7, <1>8 DEF SyncState
<1>10. table \in KeyTable /\ j.table[p].blob \in Name
  BY <1>1, <1>2, <1>4 DEF KeyTable, Entry, Maybe
<1> HIDE DEF s, table
<1>11. /\ r \in Job /\ r.pc = "rekey_delete" /\ r.table = table /\ r.state = s
       /\ r.found = j.found
  BY <1>0, <1>4, <1>9, <1>10 DEF Job, Steps, Maybe
<1> HIDE DEF r
<1>12. StateOK(r, d) /\ FoundOK(r, d)
  BY <1>0, <1>1, <1>2, <1>7, <1>8, <1>9, <1>11 DEF JobOK, StateOK, FoundOK
<1>13. GotOK(r) /\ WorkOK(r, d)
  BY <1>10, <1>11 DEF GotOK, WorkOK, Holding
<1>14. JobsInv'
  BY <1>3, <1>6, <1>11, <1>12, <1>13, WorkerGoes DEF IInv, JobOK
<1> QED BY <1>6, <1>14 DEF IInv

LEMMA RekeyDelete ==
  ASSUME IInv, NEW w \in Worker, rekey_delete(w)
  PROVE  IInv'
<1> DEFINE j == job[w]
           d == Home[w]
           r == [j EXCEPT !.dels = j.dels \cup j.left, !.left = {}, !.got = NONE,
                          !.pc = "rekey"]
<1>0. j \in Job /\ JobOK(j, d) /\ d \in Device
  BY Working
<1>1. /\ j.pc = "rekey_delete" /\ j.table \in KeyTable
      /\ UNCHANGED <<manifest, log, generation, device, history>>
      /\ blobs' = [n \in Name |-> IF n \in j.left THEN NONE ELSE blobs[n]]
      /\ Go(w, r)
  BY <1>0 DEF rekey_delete, JobOK, WorkOK, Tabled
<1>2. SharedInv' /\ Grows
  <2>1. blobs \in [Name -> Maybe(Blob)] /\ sent \subseteq Written
    BY DEF IInv, SharedInv, Types
  <2>2. blobs' \in [Name -> Maybe(Blob)] /\ \A n \in Name : blobs'[n] \in {NONE, blobs[n]}
    BY <1>1, <2>1 DEF Maybe
  <2> QED BY <1>1, <2>1, <2>2, SlotsWritten DEF IInv, history
<1>3. r \in Job /\ r.pc = "rekey" /\ r.table = j.table /\ r.state = j.state /\ r.found = j.found
  BY <1>0 DEF Job, Steps, Maybe
<1> HIDE DEF r
<1>4. JobOK(r, d)
  BY <1>0, <1>1, <1>3 DEF JobOK, StateOK, FoundOK, GotOK, WorkOK, Holding, Tabled
<1>5. JobsInv'
  BY <1>1, <1>2, <1>3, <1>4, WorkerGoes DEF IInv
<1> QED BY <1>2, <1>5 DEF IInv

\* Neither the manifest nor the log holds anything that the files depend on.
LEMMA Publishes ==
  ASSUME IInv, UNCHANGED <<blobs, disk, saved, history>>, key' \in [Device -> Key],
         manifest' \in Maybe([key : Key, table : KeyTable]), log' \in Seq(OpPayload),
         generation' \in Key
  PROVE  SharedInv' /\ Grows
BY NothingGrows DEF IInv, SharedInv, Types, LocalOK, BlobsOK, SavedOK, Written, history

LEMMA Publish ==
  ASSUME IInv, NEW w \in Worker, publish(w)
  PROVE  IInv'
<1> DEFINE j == job[w]
           r == [j EXCEPT !.pc = "announce"]
           m == [key |-> j.key, table |-> j.table]
<1>0. j \in Job /\ JobOK(j, Home[w])
  BY Working
<1>1. /\ j.pc = "publish" /\ j.table \in KeyTable /\ manifest' = m /\ Go(w, r)
      /\ UNCHANGED <<blobs, log, generation, device, history>>
  BY <1>0 DEF publish, JobOK, WorkOK, Tabled
<1>2. m \in Maybe([key : Key, table : KeyTable])
  BY <1>0, <1>1 DEF Job, Maybe
<1> HIDE DEF m
<1>3. SharedInv' /\ Grows
  BY <1>1, <1>2, Publishes DEF IInv, SharedInv, Types, device
<1>4. r \in Job /\ r.pc = "announce" /\ r.state = j.state /\ r.found = j.found
  BY <1>0 DEF Job, Steps
<1> HIDE DEF r
<1>5. JobOK(r, Home[w])
  BY <1>0, <1>1, <1>4 DEF JobOK, StateOK, FoundOK, GotOK, WorkOK, Holding, Tabled
<1>6. JobsInv'
  BY <1>1, <1>3, <1>4, <1>5, WorkerGoes DEF IInv
<1> QED BY <1>3, <1>6 DEF IInv

LEMMA AppendOp ==
  ASSUME IInv, NEW w \in Worker, append_op(w)
  PROVE  IInv'
<1> DEFINE j == job[w]
           r == [j EXCEPT !.pc = "save"]
           op == [by |-> Home[w], put |-> j.puts, del |-> j.dels, manifest |-> j.flag]
<1>0. j \in Job /\ JobOK(j, Home[w]) /\ Home[w] \in Device
  BY Working
<1>1. /\ j.pc = "announce" /\ log' \in {log, Append(log, op)} /\ Go(w, r)
      /\ UNCHANGED <<blobs, manifest, generation, device, history>>
  BY DEF append_op
<1>2. op \in OpPayload
  BY <1>0 DEF Job, OpPayload
<1> HIDE DEF op
<1>3. log' \in Seq(OpPayload)
  <2>1. log \in Seq(OpPayload)
    BY DEF IInv, SharedInv, Types
  <2> QED BY <1>1, <1>2, <2>1
<1>4. SharedInv' /\ Grows
  BY <1>1, <1>3, Publishes DEF IInv, SharedInv, Types, device
<1>5. r \in Job /\ r.pc = "save" /\ r.state = j.state /\ r.found = j.found
  BY <1>0 DEF Job, Steps
<1> HIDE DEF r
<1>6. JobOK(r, Home[w])
  BY <1>0, <1>1, <1>5 DEF JobOK, StateOK, FoundOK, GotOK, WorkOK, Holding, Tabled
<1>7. JobsInv'
  BY <1>1, <1>4, <1>5, <1>6, WorkerGoes DEF IInv
<1> QED BY <1>4, <1>7 DEF IInv

(***************************************************************************)
(* People, faults and rotations.                                           *)
(***************************************************************************)

LEMMA Edits ==
  ASSUME IInv, NEW d \in Device, NEW p \in Path, edit(d, p) \/ remove(d, p)
  PROVE  IInv'
<1> DEFINE v == Len(parents) + 1
<1>0. /\ parents \in Seq(SUBSET Version) /\ Len(parents) \in Nat /\ MaxEdits \in Nat
      /\ disk[d][p] # NONE => disk[d][p] \in Written
      /\ UNCHANGED <<cloud, saved, key, job, sent, faults, cut, torn>>
      /\ Len(parents) < MaxEdits
  BY CloudAssumption DEF IInv, SharedInv, Types, LocalOK, edit, remove
<1>1. PICK x \in SUBSET Version : parents' = Append(parents, x)
  <2>1. CASE remove(d, p)
    BY <2>1 DEF remove
  <2>2. CASE edit(d, p) /\ disk[d][p] = NONE
    BY <2>2 DEF edit
  <2>3. CASE edit(d, p) /\ disk[d][p] # NONE
    <3>1. disk[d][p] \in 1 .. Len(parents) /\ disk[d][p] \in Version
      BY <1>0, <2>3 DEF Written, Version
    <3>2. parents[disk[d][p]] \in SUBSET Version
      BY <1>0, <3>1
    <3>3. parents' = Append(parents, parents[disk[d][p]] \cup {disk[d][p]})
      BY <2>3 DEF edit
    <3>4. parents[disk[d][p]] \cup {disk[d][p]} \in SUBSET Version
      BY <3>1, <3>2
    <3> QED BY <3>3, <3>4
  <2> QED BY <2>1, <2>2, <2>3
<1>2. /\ parents' \in Seq(SUBSET Version) /\ Len(parents') = Len(parents) + 1
      /\ Written \subseteq Written' /\ v \in Written' /\ v \in Version
      /\ Len(parents') <= MaxEdits
  BY <1>0, <1>1 DEF Written, Version
<1>3. SharedInv' /\ Grows
  <2>1. CASE edit(d, p)
    <3>1. SetFile(d, p, v) /\ v \in Maybe(Version)
      BY <1>2, <2>1 DEF edit, Maybe
    <3> QED BY <1>0, <1>2, <3>1, FileSet DEF IInv
  <2>2. CASE remove(d, p)
    <3>1. SetFile(d, p, NONE) /\ NONE \in Maybe(Version)
      BY <2>2 DEF remove, Maybe
    <3> QED BY <1>0, <1>2, <3>1, FileSet DEF IInv
  <2> QED BY <2>1, <2>2
<1>4. JobsInv'
  BY <1>0, <1>3, JobsStay DEF IInv
<1> QED BY <1>3, <1>4 DEF IInv

LEMMA Fail ==
  ASSUME IInv, NEW w \in Worker, fail(w)
  PROVE  IInv'
<1>1. faults' \in 0 .. MaxFaults
  BY CloudAssumption DEF fail, IInv, SharedInv, Types
<1> QED BY <1>1, GivesUp DEF fail

LEMMA Rotate ==
  ASSUME IInv, NEW d \in Device, rotate(d)
  PROVE  IInv'
<1> DEFINE op == [by |-> d, put |-> {}, del |-> {}, manifest |-> TRUE]
<1>0. /\ UNCHANGED <<blobs, disk, saved, job, history>> /\ generation <= MaxRotations
      /\ generation' = generation + 1 /\ key' = [key EXCEPT ![d] = generation + 1]
  BY DEF rotate
<1>1. generation' \in Key /\ key' \in [Device -> Key]
  BY <1>0, CloudAssumption DEF IInv, SharedInv, Types, Key
<1>2. op \in OpPayload
  BY DEF OpPayload
<1>3. log' \in {log, Append(log, op)}
  BY DEF rotate
<1> HIDE DEF op
<1>4. log' \in Seq(OpPayload)
  <2>1. log \in Seq(OpPayload)
    BY DEF IInv, SharedInv, Types
  <2> QED BY <1>2, <1>3, <2>1
<1>5. manifest' \in Maybe([key : Key, table : KeyTable])
  <2>1. CASE manifest = NONE
    BY <2>1 DEF rotate, Maybe
  <2>2. CASE manifest # NONE
    <3>1. manifest \in [key : Key, table : KeyTable]
      BY <2>2 DEF IInv, SharedInv, Types, Maybe
    <3>2. manifest' = [manifest EXCEPT !.key = generation']
      BY <1>0, <2>2 DEF rotate
    <3>3. manifest' \in [key : Key, table : KeyTable]
      BY <1>1, <3>1, <3>2
    <3> QED BY <3>3 DEF Maybe
  <2> QED BY <2>1, <2>2
<1>6. SharedInv' /\ Grows
  BY <1>0, <1>1, <1>4, <1>5, Publishes
<1>7. JobsInv'
  BY <1>0, <1>6, JobsStay DEF IInv
<1> QED BY <1>6, <1>7 DEF IInv

(***************************************************************************)
(* The invariant holds.                                                    *)
(***************************************************************************)

LEMMA InitInv == Init => IInv
<1> SUFFICES ASSUME Init PROVE IInv
  OBVIOUS
<1>1. 1 \in Key /\ 0 \in 0 .. MaxFaults /\ MaxEdits \in Nat
  BY CloudAssumption DEF Key
<1>2. NoFiles \in [Path -> Maybe(Version)]
  BY DEF NoFiles, Maybe
<1>3. Types
  <2>1. parents = << >> /\ log = << >> /\ sent = {}
    BY DEF Init
  <2>2. << >> \in Seq(SUBSET Version) /\ << >> \in Seq(OpPayload)
        /\ Len(<< >>) <= MaxEdits
    BY <1>1
  <2>3. /\ disk \in [Device -> [Path -> Maybe(Version)]]
        /\ saved \in [Device -> Maybe(SyncState)] /\ key \in [Device -> Key]
        /\ blobs \in [Name -> Maybe(Blob)]
        /\ had \in [Device -> [Path -> SUBSET Version]]
    BY <1>1, <1>2 DEF Init, Maybe
  <2>4. /\ manifest \in Maybe([key : Key, table : KeyTable]) /\ generation \in Key
        /\ faults \in 0 .. MaxFaults /\ cut \in BOOLEAN /\ torn \in BOOLEAN
    BY <1>1 DEF Init, Maybe
  <2> QED BY <2>1, <2>2, <2>3, <2>4 DEF Types
<1>4. LocalOK /\ BlobsOK /\ SavedOK
  BY DEF Init, LocalOK, BlobsOK, SavedOK, NoFiles
<1>5. JobsInv
  BY IdleOK DEF Init, JobsInv
<1> QED BY <1>3, <1>4, <1>5 DEF IInv, SharedInv

LEMMA StepInv == IInv /\ [Next]_vars => IInv'
<1> SUFFICES ASSUME IInv, [Next]_vars PROVE IInv'
  OBVIOUS
<1>1. ASSUME NEW w \in Worker, step(w)
      PROVE  IInv'
  <2>1. CASE \/ fetch_table(w, "adopt_fetch", "adopt")
             \/ fetch_table(w, "pull_fetch", "pull")
             \/ fetch_table(w, "push_fetch", "put")
    BY <2>1, FetchTable
  <2>2. CASE latest_seq(w) \/ adopt(w) \/ adopt_save(w) \/ ops_since(w) \/ pull(w)
             \/ pull_done(w) \/ drop(w) \/ drop_done(w)
    BY <2>2, LatestSeq, Adopt, AdoptSave, OpsSince, Pull, PullDone, Drop, DropDone
  <2>3. CASE write_file(w) \/ settle(w) \/ scan(w) \/ put(w) \/ tombstone(w) \/ rekey(w)
    BY <2>3, WriteFile, Settle, Scan, Put, Tombstone, Rekey
  <2>4. CASE rekey_put(w) \/ rekey_delete(w) \/ publish(w) \/ append_op(w) \/ save(w)
    BY <2>4, RekeyPut, RekeyDelete, Publish, AppendOp, Save
  <2> QED BY <1>1, <2>1, <2>2, <2>3, <2>4 DEF step
<1>2. CASE UNCHANGED vars
  <2>1. SharedInv'
    BY <1>2, SharedStays DEF IInv, SharedInv, Types, vars, history
  <2>2. JobsInv'
    BY <1>2, NothingGrows, JobsStay DEF IInv, vars, history
  <2> QED BY <2>1, <2>2 DEF IInv
<1> QED BY <1>1, <1>2, Start, Fail, Edits, Rotate DEF Next

LEMMA Inductive == Spec => []IInv
BY InitInv, StepInv, PTL DEF Spec

(***************************************************************************)
(* What follows.                                                           *)
(***************************************************************************)

\* Every cycle is at a step of its code with what that step needs in hand, every
\* slot and saved state well formed.
THEOREM TypeCorrect == Spec => []TypeOK
<1>1. IInv => TypeOK
  <2> SUFFICES ASSUME IInv PROVE TypeOK
    OBVIOUS
  <2>1. Written \subseteq Version
    BY CloudAssumption DEF Written, Version, IInv, SharedInv, Types
  <2> QED BY <2>1 DEF IInv, SharedInv, Types, JobsInv, TypeOK
<1> QED BY <1>1, Inductive, PTL

\* However cycles, manual pushes and pulls of any number of workers, edits, faults
\* and rotations interleave, what a cycle compared and is about to replace or remove
\* has been in the cloud.
THEOREM UploadedFirst == Spec => []NothingDestroyed
<1>1. IInv => NothingDestroyed
  BY DEF IInv, JobsInv, JobOK, GotOK, NothingDestroyed
<1> QED BY <1>1, Inductive, PTL

\* Nor does a device ever tombstone a path that it has never had.
THEOREM OwnPathsOnly == Spec => []TombstonesOwn
<1>1. IInv => TombstonesOwn
  BY DEF IInv, JobsInv, JobOK, WorkOK, TombstonesOwn
<1> QED BY <1>1, Inductive, PTL
=============================================================================
