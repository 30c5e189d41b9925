----------------------------- MODULE JournalProofs -----------------------------
(***************************************************************************)
(* Proofs about Journal for any number of writers, paths and contents and  *)
(* any bounds.                                                             *)
(***************************************************************************)
EXTENDS Journal, TLAPS, SequenceTheorems

-----------------------------------------------------------------------------
\* The type invariant.
LEMMA TypeInit == Init => TypeOK
<1> USE JournalAssumption
<1>1. <<>> \in Seq(JournalEntry)
  OBVIOUS
<1>2. ASSUME Init PROVE op \in [Writers -> {NONE} \cup Op \cup JournalEntry]
  BY <1>2 DEF Init
<1>3. ASSUME Init PROVE todo \in SUBSET Op
  BY <1>3 DEF Init
<1>4. ASSUME Init PROVE pc \in [Writers -> {"idle", "append", "write"}]
  BY <1>4 DEF Init
<1> QED BY <1>1, <1>2, <1>3, <1>4 DEF Init, TypeOK, Genesis

LEMMA EntryType ==
  ASSUME NEW o \in Op, NEW n \in Nat
  PROVE  Entry(o, n) \in JournalEntry
BY DEF Entry, Op, JournalEntry, Kind

LEMMA AppendedType ==
  ASSUME TypeOK, NEW e \in JournalEntry, Appended(e)
  PROVE  log' \in Seq(JournalEntry) /\ Len(log') = Len(log) + 1
<1>1. Garbled(e) \in JournalEntry
  BY DEF Garbled, JournalEntry
<1>2. CASE tail = "torn"
  BY <1>1, <1>2, AppendProperties DEF Appended, TypeOK
<1>3. CASE tail # "torn"
  BY <1>3, AppendProperties DEF Appended, TypeOK
<1> QED BY <1>2, <1>3

\* A writer that has begun an append carries the entry for it, and no writer
\* is under way unless the vault is up.
PendingOps ==
    /\ \A w \in Writers : pc[w] = "append" => op[w] \in Op
    /\ \A w \in Writers : pc[w] = "write" => op[w] \in JournalEntry
    /\ status # "up" => \A w \in Writers : pc[w] = "idle"

LEMMA DiffType ==
  ASSUME TypeOK PROVE Diff(log) \in SUBSET Op
BY DEF TypeOK, Diff, Op, Kind

LEMMA TypeStep == TypeOK /\ PendingOps /\ [Next]_vars => TypeOK' /\ PendingOps'
<1> SUFFICES ASSUME TypeOK, PendingOps, [Next]_vars
             PROVE  TypeOK' /\ PendingOps'
  OBVIOUS
<1> USE JournalAssumption
<1>1. ASSUME NEW w \in Writers, NEW k \in Kind, NEW p \in Paths,
             NEW h \in Hashes \cup {NONE}, Mutate(w, k, p, h)
      PROVE  TypeOK' /\ PendingOps'
  <2>1. [kind |-> k, path |-> p, hash |-> h] \in Op
    BY DEF Op
  <2> QED BY <1>1, <2>1 DEF Mutate, TypeOK, PendingOps, bounds
<1>2. ASSUME NEW w \in Writers, append_lock(w)
      PROVE  TypeOK' /\ PendingOps'
  <2>1. Entry(op[w], last) \in JournalEntry
    BY <1>2, EntryType DEF append_lock, PendingOps, TypeOK
  <2> QED BY <1>2, <2>1 DEF append_lock, TypeOK, PendingOps, bounds
<1>3. ASSUME NEW w \in Writers, append_write(w)
      PROVE  TypeOK' /\ PendingOps'
  <2>1. op[w] \in JournalEntry /\ Appended(op[w])
    BY <1>3 DEF append_write, PendingOps
  <2>2. log' \in Seq(JournalEntry) /\ last' \in Nat
    BY <1>3, <2>1, AppendedType DEF append_write, TypeOK
  <2> QED BY <1>3, <2>2 DEF append_write, TypeOK, PendingOps, bounds
<1>4. ASSUME NEW w \in Writers, append_error(w)
      PROVE  TypeOK' /\ PendingOps'
  BY <1>4 DEF append_error, Fault, bounds, TypeOK, PendingOps
<1>5. CASE open
  BY <1>5 DEF open, TypeOK, PendingOps, bounds, Genesis
<1>6. CASE reconcile_scan
  BY <1>6, DiffType DEF reconcile_scan, TypeOK, PendingOps, bounds
<1>7. CASE reconcile_append
  <2>1. PICK o \in todo : Appended(Entry(o, last)) /\ todo' = todo \ {o}
    BY <1>7 DEF reconcile_append
  <2>2. Entry(o, last) \in JournalEntry
    BY <2>1, EntryType DEF TypeOK
  <2>3. log' \in Seq(JournalEntry) /\ last' \in Nat
    BY <1>7, <2>1, <2>2, AppendedType DEF reconcile_append, TypeOK
  <2> QED BY <1>7, <2>1, <2>3 DEF reconcile_append, TypeOK, PendingOps, bounds
<1>8. CASE reconcile_done
  BY <1>8 DEF reconcile_done, TypeOK, PendingOps, bounds
<1>9. CASE Edit
  BY <1>9 DEF Edit, Fault, TypeOK, PendingOps
<1>10. CASE Crash
  BY <1>10 DEF Crash, Fault, Genesis, TypeOK, PendingOps
<1>11. CASE UNCHANGED vars
  BY <1>11 DEF vars, bounds, TypeOK, PendingOps
<1>12. ASSUME NEW w \in Writers, write(w) \/ patch(w) \/ forget(w)
       PROVE  TypeOK' /\ PendingOps'
  BY <1>1, <1>12 DEF write, patch, forget, Kind
<1> QED
  BY <1>2, <1>3, <1>4, <1>5, <1>6, <1>7, <1>8, <1>9, <1>10, <1>11, <1>12
     DEF Next, Appends, Opening

\* Every variable of the journal keeps its type.
THEOREM TypeCorrect == Spec => [](TypeOK /\ PendingOps)
<1>1. Init => PendingOps
  BY DEF Init, PendingOps
<1> QED BY <1>1, TypeInit, TypeStep, PTL DEF Spec

-----------------------------------------------------------------------------
(* The chain.                                                              *)

\* While no append has failed half-way, a serving process knows the hash of the
\* last line, which ends in a newline, and the one writer that may be about to
\* write holds the mutex and has an entry chained to that line.
Chained ==
    /\ Verifies(log) /\ status # "failed"
    /\ status \in {"scan", "reconcile", "up"} => tail = "whole" /\ last = Len(log)
    /\ \A w \in Writers : pc[w] = "write" =>
            /\ mutex = w
            /\ op[w].kind # "garbage" /\ op[w].prev = last
    /\ \A o \in todo : o.kind # "garbage"

\* The inductive invariant.
ChainInv == partials = 0 => Chained

\* A well-chained entry keeps the chain.
LEMMA AppendChain ==
  ASSUME TypeOK, Verifies(log), tail = "whole", NEW e \in JournalEntry,
         e.kind # "garbage", e.prev = Len(log), Appended(e)
  PROVE  Verifies(log') /\ Len(log') = Len(log) + 1
<1>1. log' = Append(log, e) /\ log \in Seq(JournalEntry)
  BY DEF Appended, TypeOK
<1>2. /\ Len(log') = Len(log) + 1
      /\ log'[Len(log) + 1] = e
      /\ \A i \in 1..Len(log) : log'[i] = log[i]
  BY <1>1, AppendProperties
<1> QED BY <1>1, <1>2, LenProperties DEF Verifies

LEMMA ChainStep ==
  ASSUME TypeOK, PendingOps, ChainInv, [Next]_vars
  PROVE  ChainInv'
<1> SUFFICES ASSUME partials' = 0 PROVE Chained'
  BY DEF ChainInv
<1>0. partials = 0
  BY DEF TypeOK, Next, Opening, Appends, write, patch, forget, Mutate, append_lock,
     append_write, append_error, open, reconcile_scan, reconcile_append,
     reconcile_done, Edit, Crash, vars, bounds
<1>a. Chained
  BY <1>0 DEF ChainInv
<1> USE JournalAssumption, <1>a DEF Chained
<1>1. ASSUME NEW w \in Writers, NEW k \in Kind, NEW p \in Paths,
             NEW h \in Hashes \cup {NONE}, Mutate(w, k, p, h)
      PROVE  Chained'
  BY <1>1 DEF Mutate, TypeOK, Verifies, bounds
<1>2. ASSUME NEW w \in Writers, append_lock(w) PROVE Chained'
  <2>1. op[w] \in Op /\ Entry(op[w], last).kind # "garbage"
        /\ Entry(op[w], last).prev = last
    BY <1>2 DEF append_lock, PendingOps, Entry, Op, Kind
  <2>2. \A v \in Writers : pc[v] # "write"
    BY <1>2 DEF append_lock
  <2> QED BY <1>2, <2>1, <2>2 DEF append_lock, TypeOK, Verifies, bounds
<1>3. ASSUME NEW w \in Writers, append_write(w) PROVE Chained'
  <2>1. /\ status = "up" /\ tail = "whole" /\ op[w] \in JournalEntry
        /\ op[w].prev = Len(log) /\ op[w].kind # "garbage"
    BY <1>3 DEF append_write, PendingOps, TypeOK
  <2>2. Verifies(log') /\ Len(log') = Len(log) + 1
    BY <1>3, <2>1, AppendChain DEF append_write
  <2>3. \A v \in Writers : pc'[v] # "write"
    BY <1>3 DEF append_write, TypeOK
  <2> QED BY <1>3, <2>2, <2>3 DEF append_write, bounds
<1>4. ASSUME NEW w \in Writers, append_error(w) PROVE Chained'
  <2>1. UNCHANGED <<tail, log, last, status, todo>>
    BY <1>4, <1>0 DEF append_error, bounds, TypeOK
  <2>2. \A v \in Writers : pc'[v] # "write"
    BY <1>4 DEF append_error, TypeOK
  <2> QED BY <2>1, <2>2 DEF Verifies
<1>5. CASE open
  <2>1. \A w \in Writers : pc[w] = "idle"
    BY <1>5 DEF open, PendingOps
  <2>2. log = <<>> => Len(log) = Genesis
    BY DEF Genesis
  <2> QED BY <1>5, <2>1, <2>2 DEF open, bounds, Verifies
<1>6. CASE reconcile_scan
  <2>1. \A o \in Diff(log) : o.kind # "garbage"
    BY DEF Diff
  <2> QED BY <1>6, <2>1 DEF reconcile_scan, bounds, Verifies
<1>7. CASE reconcile_append
  <2>1. PICK o \in todo : Appended(Entry(o, last)) /\ todo' = todo \ {o}
    BY <1>7 DEF reconcile_append
  <2>2. Entry(o, last) \in JournalEntry
    BY <2>1, EntryType DEF TypeOK
  <2>3. Entry(o, last).kind # "garbage" /\ Entry(o, last).prev = Len(log)
    BY <1>7, <2>1 DEF reconcile_append, Entry
  <2>4. Verifies(log') /\ Len(log') = Len(log) + 1
    BY <1>7, <2>1, <2>2, <2>3, AppendChain DEF reconcile_append
  <2>5. \A w \in Writers : pc[w] = "idle"
    BY <1>7 DEF reconcile_append, PendingOps
  <2> QED BY <1>7, <2>1, <2>4, <2>5 DEF reconcile_append, bounds
<1>8. CASE reconcile_done
  BY <1>8 DEF reconcile_done, bounds, Verifies
<1>9. CASE Edit
  BY <1>9 DEF Edit, Verifies
<1>10. CASE Crash
  BY <1>10 DEF Crash, Verifies
<1>11. CASE UNCHANGED vars
  BY <1>11 DEF vars, bounds, Verifies
<1>12. ASSUME NEW w \in Writers, write(w) \/ patch(w) \/ forget(w)
       PROVE  Chained'
  BY <1>1, <1>12 DEF write, patch, forget, Kind
<1> QED
  BY <1>2, <1>3, <1>4, <1>5, <1>6, <1>7, <1>8, <1>9, <1>10, <1>11, <1>12
     DEF Next, Appends, Opening

\* Any number of concurrent writers and any number of crashes leave a journal
\* that verifies, as long as no live process fails an append half-way.
THEOREM ChainAlwaysVerifies == Spec => []ChainVerifies
<1>1. Init => ChainInv
  BY DEF Init, ChainInv, Chained, Verifies
<1>2. ChainInv => ChainVerifies
  BY DEF ChainInv, Chained, ChainVerifies
<1> QED BY <1>1, <1>2, ChainStep, TypeCorrect, PTL DEF Spec

-----------------------------------------------------------------------------
(* Append-only.                                                            *)

LEMMA AppendKeepsPrefix ==
  ASSUME NEW l \in Seq(JournalEntry), NEW e \in JournalEntry
  PROVE  Len(l) <= Len(Append(l, e)) /\ SubSeq(Append(l, e), 1, Len(l)) = l
<1> DEFINE a == Append(l, e)
<1>1. /\ a \in Seq(JournalEntry) /\ Len(a) = Len(l) + 1
      /\ \A i \in 1..Len(l) : a[i] = l[i]
  BY AppendProperties
<1>2. Len(l) \in Nat
  BY LenProperties
<1>3. /\ SubSeq(a, 1, Len(l)) \in Seq(JournalEntry)
      /\ Len(SubSeq(a, 1, Len(l))) = Len(l)
      /\ \A i \in 1..Len(l) : SubSeq(a, 1, Len(l))[i] = a[i]
  BY <1>1, <1>2, SMT
<1>4. \A i \in 1..Len(l) : SubSeq(a, 1, Len(l))[i] = l[i]
  BY <1>1, <1>3
<1>5. SubSeq(a, 1, Len(l)) = l
  BY <1>3, <1>4, SeqEqual
<1> QED BY <1>1, <1>2, <1>5

\* A step leaves the journal alone or adds one line to it.
LEMMA StepAppends ==
  ASSUME TypeOK, PendingOps, [Next]_vars
  PROVE  log' = log \/ \E e \in JournalEntry : log' = Append(log, e)
<1>1. ASSUME NEW e \in JournalEntry, Appended(e)
      PROVE  \E f \in JournalEntry : log' = Append(log, f)
  <2>1. Garbled(e) \in JournalEntry
    BY DEF Garbled, JournalEntry
  <2> QED BY <1>1, <2>1 DEF Appended
<1>2. ASSUME NEW w \in Writers, append_write(w)
      PROVE  \E e \in JournalEntry : log' = Append(log, e)
  BY <1>1, <1>2 DEF append_write, PendingOps
<1>3. CASE reconcile_append
  <2>1. PICK o \in todo : Appended(Entry(o, last))
    BY <1>3 DEF reconcile_append
  <2>2. Entry(o, last) \in JournalEntry
    BY EntryType DEF TypeOK
  <2> QED BY <1>1, <2>1, <2>2
<1>4. ASSUME NEW w \in Writers, write(w) \/ patch(w) \/ forget(w)
      PROVE  log' = log
  BY <1>4 DEF write, patch, forget, Mutate
<1>5. ASSUME NEW w \in Writers, append_lock(w) \/ append_error(w)
      PROVE  log' = log
  BY <1>5 DEF append_lock, append_error
<1>6. CASE open \/ reconcile_scan \/ reconcile_done \/ Edit \/ Crash
  BY <1>6 DEF open, reconcile_scan, reconcile_done, Edit, Crash
<1>7. CASE UNCHANGED vars
  BY <1>7 DEF vars
<1> QED BY <1>2, <1>3, <1>4, <1>5, <1>6, <1>7 DEF Next, Appends, Opening

\* No step changes or drops a complete line, failed appends included.
THEOREM JournalAppendOnly == Spec => AppendOnly
<1>1. TypeOK /\ PendingOps /\ [Next]_vars
        => [Len(log) <= Len(log') /\ SubSeq(log', 1, Len(log)) = log]_vars
  <2> SUFFICES ASSUME TypeOK, PendingOps, [Next]_vars
               PROVE  Len(log) <= Len(log') /\ SubSeq(log', 1, Len(log)) = log
    OBVIOUS
  <2>1. log \in Seq(JournalEntry)
    BY DEF TypeOK
  <2>2. CASE log' = log
    <3>1. Len(log) \in Nat /\ SubSeq(log, 1, Len(log)) = log
      BY <2>1, LenProperties, SMT
    <3> QED BY <2>2, <3>1
  <2>3. CASE \E e \in JournalEntry : log' = Append(log, e)
    BY <2>1, <2>3, AppendKeepsPrefix
  <2> QED BY <2>2, <2>3, StepAppends
<1> QED BY <1>1, TypeCorrect, PTL DEF Spec, AppendOnly

-----------------------------------------------------------------------------
(* Reconciliation.                                                         *)

\* What a journal says after one more line.
LEMMA SaysAppend ==
  ASSUME NEW l \in Seq(JournalEntry), NEW e \in JournalEntry, NEW p, NEW h
  PROVE  /\ e.path = p => Says(Append(l, e), p, e.hash)
         /\ e.path # p /\ Says(l, p, h) => Says(Append(l, e), p, h)
<1> DEFINE a == Append(l, e)
<1>1. /\ Len(a) = Len(l) + 1 /\ a[Len(l) + 1] = e
      /\ \A i \in 1..Len(l) : a[i] = l[i]
  BY AppendProperties
<1>2. Len(l) \in Nat
  BY LenProperties
<1> HIDE DEF a
<1>3. ASSUME e.path = p PROVE Says(a, p, e.hash)
  <2>1. Len(a) \in 1..Len(a) /\ a[Len(a)] = e
        /\ \A j \in Len(a) + 1..Len(a) : a[j].path # p
    BY <1>1, <1>2
  <2> QED BY <1>3, <2>1 DEF Says
<1>4. ASSUME e.path # p, Says(l, p, h) PROVE Says(a, p, h)
  <2>1. CASE h = NONE /\ \A i \in 1..Len(l) : l[i].path # p
    <3>1. \A i \in 1..Len(a) : a[i].path # p
      BY <1>1, <1>2, <1>4, <2>1
    <3> QED BY <2>1, <3>1 DEF Says
  <2>2. CASE \E i \in 1..Len(l) : /\ l[i].path = p /\ l[i].hash = h
                                 /\ \A j \in i + 1..Len(l) : l[j].path # p
    <3>1. PICK i \in 1..Len(l) : /\ l[i].path = p /\ l[i].hash = h
                                 /\ \A j \in i + 1..Len(l) : l[j].path # p
      BY <2>2
    <3>2. i \in 1..Len(a) /\ a[i].path = p /\ a[i].hash = h
      BY <1>1, <1>2, <3>1
    <3>3. \A j \in i + 1..Len(a) : a[j].path # p
      BY <1>1, <1>2, <1>4, <3>1
    <3> QED BY <3>2, <3>3 DEF Says
  <2> QED BY <1>4, <2>1, <2>2 DEF Says
<1> QED BY <1>3, <1>4 DEF a

\* The journal has something to say of every path, and during a scan with no
\* outside edit every path is either up to date or about to be.
ScanInv ==
    /\ \A p \in Paths : \E h \in Hashes \cup {NONE} : Says(log, p, h)
    /\ status = "reconcile" /\ files = "tracked" =>
        /\ \A o \in todo : o.hash = disk[o.path]
        /\ \A p \in Paths : Says(log, p, disk[p]) \/ \E o \in todo : o.path = p

\* Any added line gives every path a latest word again.
LEMMA KnownStep ==
  ASSUME NEW l \in Seq(JournalEntry), NEW e \in JournalEntry,
         \A p \in Paths : \E h \in Hashes \cup {NONE} : Says(l, p, h)
  PROVE  \A p \in Paths : \E h \in Hashes \cup {NONE} : Says(Append(l, e), p, h)
<1> SUFFICES ASSUME NEW p \in Paths
             PROVE  \E h \in Hashes \cup {NONE} : Says(Append(l, e), p, h)
  OBVIOUS
<1>1. PICK h \in Hashes \cup {NONE} : Says(l, p, h)
  OBVIOUS
<1>2. e.hash \in Hashes \cup {NONE}
  BY DEF JournalEntry
<1>3. CASE e.path = p
  BY <1>2, <1>3, SaysAppend
<1>4. CASE e.path # p
  BY <1>1, <1>4, SaysAppend
<1> QED BY <1>3, <1>4

LEMMA AppendedLine ==
  ASSUME NEW e \in JournalEntry, Appended(e)
  PROVE  \E f \in JournalEntry :
            /\ log' = Append(log, f) /\ f.path = e.path /\ f.hash = e.hash
<1>1. Garbled(e) \in JournalEntry /\ Garbled(e).path = e.path /\ Garbled(e).hash = e.hash
  BY DEF Garbled, JournalEntry
<1> QED BY <1>1 DEF Appended

LEMMA ScanStep ==
  ASSUME TypeOK, PendingOps, ScanInv, [Next]_vars
  PROVE  ScanInv'
<1>1. \A p \in Paths : \E h \in Hashes \cup {NONE} : Says(log', p, h)
  <2>1. \A p \in Paths : \E h \in Hashes \cup {NONE} : Says(log, p, h)
    BY DEF ScanInv
  <2>2. CASE log' = log
    BY <2>1, <2>2
  <2>3. CASE \E e \in JournalEntry : log' = Append(log, e)
    BY <2>1, <2>3, KnownStep DEF TypeOK
  <2> QED BY <2>2, <2>3, StepAppends
<1>2. ASSUME status' = "reconcile", files' = "tracked"
      PROVE  /\ \A o \in todo' : o.hash = disk'[o.path]
             /\ \A p \in Paths : \/ Says(log', p, disk'[p])
                                 \/ \E o \in todo' : o.path = p
  <2>1. CASE reconcile_scan
    <3> DEFINE live == live_state(log)
    <3>1. \A p \in Paths : Says(log, p, live[p])
      BY DEF ScanInv, live_state
    <3>2. todo' = Diff(log) /\ UNCHANGED <<disk, log>>
      BY <2>1 DEF reconcile_scan
    <3>3. \A o \in todo' : o.hash = disk'[o.path]
      BY <3>2 DEF Diff
    <3>4. ASSUME NEW p \in Paths, live[p] # disk[p]
          PROVE  \E o \in todo' : o.path = p
      <4> DEFINE o == [kind |-> IF disk[p] = NONE THEN "tombstone" ELSE "put",
                       path |-> p, hash |-> disk[p]]
      <4>1. p \in {q \in Paths : live[q] # disk[q]}
        BY <3>4
      <4>2. o \in Diff(log)
        BY <4>1 DEF Diff
      <4>3. o.path = p
        OBVIOUS
      <4> QED BY <3>2, <4>2, <4>3
    <3> HIDE DEF live
    <3>5. ASSUME NEW p \in Paths
          PROVE  Says(log', p, disk'[p]) \/ \E o \in todo' : o.path = p
      <4>1. CASE live[p] = disk[p]
        <5>1. Says(log, p, disk[p])
          BY <3>1, <4>1
        <5> QED BY <5>1, <3>2
      <4> QED BY <3>4, <4>1
    <3> QED BY <3>3, <3>5
  <2>2. CASE reconcile_append
    <3>1. PICK o \in todo : Appended(Entry(o, last)) /\ todo' = todo \ {o}
      BY <2>2 DEF reconcile_append
    <3>2. /\ status = "reconcile" /\ files = "tracked" /\ disk' = disk
          /\ log \in Seq(JournalEntry) /\ o \in Op
      BY <2>2, <1>2 DEF reconcile_append, TypeOK
    <3>3. Entry(o, last) \in JournalEntry
      BY <3>2, EntryType DEF TypeOK
    <3>4. PICK f \in JournalEntry :
              log' = Append(log, f) /\ f.path = o.path /\ f.hash = o.hash
      BY <3>1, <3>3, AppendedLine DEF Entry
    <3>5. o.hash = disk[o.path] /\ \A q \in todo' : q.hash = disk'[q.path]
      BY <3>1, <3>2 DEF ScanInv
    <3>6. ASSUME NEW p \in Paths
          PROVE  Says(log', p, disk'[p]) \/ \E q \in todo' : q.path = p
      <4>1. CASE o.path = p
        BY <3>2, <3>4, <3>5, <4>1, SaysAppend
      <4>2. CASE o.path # p
        <5>1. CASE Says(log, p, disk[p])
          BY <3>2, <3>4, <4>2, <5>1, SaysAppend
        <5>2. CASE \E q \in todo : q.path = p
          BY <3>1, <4>2, <5>2
        <5> QED BY <3>2, <5>1, <5>2 DEF ScanInv
      <4> QED BY <4>1, <4>2
    <3> QED BY <3>5, <3>6
  <2>3. CASE UNCHANGED <<status, files, todo, disk, log>>
    BY <1>2, <2>3 DEF ScanInv
  <2>4. ASSUME NEW w \in Writers, write(w) \/ patch(w) \/ forget(w) \/ Appends(w)
        PROVE  FALSE
    <3>1. status = "up" /\ status' = status
      BY <2>4 DEF write, patch, forget, Mutate, Appends, append_lock,
         append_write, append_error, PendingOps
    <3> QED BY <1>2, <3>1
  <2>5. CASE open \/ reconcile_done \/ Crash \/ Edit
    BY <1>2, <2>5 DEF open, reconcile_done, Crash, Edit
  <2>6. CASE UNCHANGED vars
    BY <2>3, <2>6 DEF vars
  <2> QED BY <2>1, <2>2, <2>4, <2>5, <2>6 DEF Next, Opening
<1> QED BY <1>1, <1>2 DEF ScanInv

\* However the files and the journal came apart, a scan that no outside edit
\* runs against ends with the journal saying exactly what is on disk.
THEOREM ReconcileIsExact == Spec => []ReconcileExact
<1>1. Init => ScanInv
  <2> SUFFICES ASSUME Init PROVE ScanInv
    OBVIOUS
  <2>1. \A p \in Paths : Says(<<>>, p, NONE)
    BY DEF Says
  <2> QED BY <2>1 DEF Init, ScanInv
<1>2. ScanInv => ReconcileExact
  BY DEF ScanInv, ReconcileExact
<1> QED BY <1>1, <1>2, ScanStep, TypeCorrect, PTL DEF Spec

-----------------------------------------------------------------------------
(* The journal of a serving vault.                                         *)

\* While the vault serves and no two mutations of one record overlap, every
\* pending entry is the only one for its path and carries what the file holds,
\* and a path with no pending entry is what the journal last said of it.
PendingInv ==
    status = "up" /\ files = "tracked" =>
        /\ \A w \in Writers : pc[w] # "idle" => op[w].hash = disk[op[w].path]
        /\ \A v, w \in Writers :
              pc[v] # "idle" /\ pc[w] # "idle" /\ op[v].path = op[w].path => v = w
        /\ \A p \in Paths : Says(log, p, disk[p]) \/ Contended(p)

\* A mutation of a path with no pending entry becomes the one pending entry.
LEMMA PendingMutate ==
  ASSUME TypeOK, PendingOps, PendingInv, NEW w \in Writers, NEW k \in Kind, NEW p \in Paths,
         NEW h \in Hashes \cup {NONE}, Mutate(w, k, p, h)
  PROVE  PendingInv'
<1> SUFFICES ASSUME files' = "tracked" PROVE PendingInv'
  BY DEF PendingInv
<1>1. /\ status = "up" /\ files = "tracked" /\ ~Contended(p) /\ pc[w] = "idle"
      /\ disk' = [disk EXCEPT ![p] = h] /\ log' = log
      /\ op' = [op EXCEPT ![w] = [kind |-> k, path |-> p, hash |-> h]]
      /\ pc' = [pc EXCEPT ![w] = "append"]
  BY DEF Mutate
<1>2. /\ \A v \in Writers : pc[v] # "idle" =>
              op[v].path # p /\ op[v].hash = disk[op[v].path]
      /\ \A u, v \in Writers :
            pc[u] # "idle" /\ pc[v] # "idle" /\ op[u].path = op[v].path => u = v
      /\ \A q \in Paths : Says(log, q, disk[q]) \/ Contended(q)
  BY <1>1 DEF PendingInv, Contended
<1>3. /\ disk \in [Paths -> Hashes \cup {NONE}] /\ DOMAIN op = Writers
      /\ DOMAIN pc = Writers
  BY DEF TypeOK
<1>4. /\ op'[w].path = p /\ op'[w].hash = h /\ pc'[w] = "append" /\ disk'[p] = h
      /\ \A v \in Writers : v # w => op'[v] = op[v] /\ pc'[v] = pc[v]
      /\ \A q \in Paths : q # p => disk'[q] = disk[q]
  BY <1>1, <1>3
<1>5. \A v \in Writers : pc'[v] # "idle" => op'[v].hash = disk'[op'[v].path]
  <2>1. \A v \in Writers : pc[v] # "idle" => op[v].path \in Paths
    BY DEF PendingOps, TypeOK, Op, JournalEntry
  <2> QED BY <1>2, <1>4, <2>1
<1>6. \A u, v \in Writers :
         pc'[u] # "idle" /\ pc'[v] # "idle" /\ op'[u].path = op'[v].path => u = v
  BY <1>2, <1>4
<1>7. ASSUME NEW q \in Paths PROVE Says(log', q, disk'[q]) \/ Contended(q)'
  <2>1. CASE q = p
    <3>1. pc'[w] # "idle" /\ op'[w].path = q
      BY <1>4, <2>1
    <3> QED BY <3>1 DEF Contended
  <2>2. CASE q # p /\ Contended(q)
    <3>1. PICK v \in Writers : pc[v] # "idle" /\ op[v].path = q
      BY <2>2 DEF Contended
    <3>2. v # w
      BY <1>1, <3>1
    <3>3. pc'[v] # "idle" /\ op'[v].path = q
      BY <1>4, <3>1, <3>2
    <3> QED BY <3>3 DEF Contended
  <2>3. CASE q # p /\ ~Contended(q)
    <3>1. Says(log, q, disk[q]) /\ disk'[q] = disk[q]
      BY <1>2, <1>4, <2>3
    <3> QED BY <1>1, <3>1
  <2> QED BY <2>1, <2>2, <2>3
<1> QED BY <1>5, <1>6, <1>7 DEF PendingInv

\* An append that reaches the file moves what is pending of its path to the
\* journal, whether or not its line parses.
LEMMA PendingWrite ==
  ASSUME TypeOK, PendingOps, PendingInv, NEW w \in Writers, append_write(w)
  PROVE  PendingInv'
<1> SUFFICES ASSUME files' = "tracked" PROVE PendingInv'
  BY DEF PendingInv
<1>1. /\ status = "up" /\ files = "tracked" /\ pc[w] # "idle" /\ disk' = disk
      /\ Appended(op[w]) /\ op[w] \in JournalEntry
      /\ op' = [op EXCEPT ![w] = NONE] /\ pc' = [pc EXCEPT ![w] = "idle"]
  BY DEF append_write, PendingOps
<1>2. /\ op[w].hash = disk[op[w].path]
      /\ \A v \in Writers : pc[v] # "idle" => op[v].hash = disk[op[v].path]
      /\ \A u, v \in Writers :
            pc[u] # "idle" /\ pc[v] # "idle" /\ op[u].path = op[v].path => u = v
      /\ \A q \in Paths : Says(log, q, disk[q]) \/ Contended(q)
  BY <1>1 DEF PendingInv
<1>3. /\ DOMAIN op = Writers /\ DOMAIN pc = Writers
      /\ log \in Seq(JournalEntry)
  BY DEF TypeOK
<1>4. /\ pc'[w] = "idle"
      /\ \A v \in Writers : v # w => op'[v] = op[v] /\ pc'[v] = pc[v]
  BY <1>1, <1>3
<1>5. PICK f \in JournalEntry :
         log' = Append(log, f) /\ f.path = op[w].path /\ f.hash = op[w].hash
  BY <1>1, AppendedLine
<1>6. ASSUME NEW q \in Paths PROVE Says(log', q, disk'[q]) \/ Contended(q)'
  <2>1. CASE q = f.path
    <3>1. f.hash = disk'[q]
      BY <1>1, <1>2, <1>5, <2>1
    <3> QED BY <1>3, <1>5, <2>1, <3>1, SaysAppend
  <2>2. CASE q # f.path /\ Contended(q)
    <3>1. PICK v \in Writers : pc[v] # "idle" /\ op[v].path = q
      BY <2>2 DEF Contended
    <3>2. v # w
      BY <1>5, <2>2, <3>1
    <3>3. pc'[v] # "idle" /\ op'[v].path = q
      BY <1>4, <3>1, <3>2
    <3> QED BY <3>3 DEF Contended
  <2>3. CASE q # f.path /\ ~Contended(q)
    <3>1. Says(log, q, disk[q])
      BY <1>2, <2>3
    <3>2. Says(log', q, disk[q])
      BY <1>3, <1>5, <2>3, <3>1, SaysAppend
    <3> QED BY <1>1, <3>2
  <2> QED BY <2>1, <2>2, <2>3
<1>7. \A v \in Writers : pc'[v] # "idle" => op'[v].hash = disk'[op'[v].path]
  BY <1>1, <1>2, <1>4
<1>8. \A u, v \in Writers :
         pc'[u] # "idle" /\ pc'[v] # "idle" /\ op'[u].path = op'[v].path => u = v
  BY <1>2, <1>4
<1> QED BY <1>6, <1>7, <1>8 DEF PendingInv

LEMMA PendingLock ==
  ASSUME TypeOK, PendingInv, NEW w \in Writers, append_lock(w)
  PROVE  PendingInv'
<1>1. /\ pc[w] = "append" /\ UNCHANGED <<disk, log, status, files>>
      /\ op' = [op EXCEPT ![w] = Entry(op[w], last)]
      /\ pc' = [pc EXCEPT ![w] = "write"]
  BY DEF append_lock
<1>2. DOMAIN op = Writers /\ DOMAIN pc = Writers
  BY DEF TypeOK
<1>3. \A v \in Writers : /\ op'[v].path = op[v].path /\ op'[v].hash = op[v].hash
                         /\ pc'[v] # "idle" <=> pc[v] # "idle"
  BY <1>1, <1>2 DEF Entry
<1>4. \A p \in Paths : Contended(p) => Contended(p)'
  BY <1>3 DEF Contended
<1> QED BY <1>1, <1>3, <1>4 DEF PendingInv

LEMMA PendingStep ==
  ASSUME TypeOK, PendingOps, ScanInv, PendingInv, [Next]_vars
  PROVE  PendingInv'
<1> SUFFICES ASSUME status' = "up", files' = "tracked" PROVE PendingInv'
  BY DEF PendingInv
<1>1. CASE reconcile_done
  <2>1. /\ status = "reconcile" /\ todo = {} /\ files = "tracked"
        /\ UNCHANGED <<disk, log, pc, op>>
    BY <1>1 DEF reconcile_done
  <2>2. \A w \in Writers : pc'[w] = "idle"
    BY <2>1 DEF PendingOps
  <2>3. \A p \in Paths : Says(log', p, disk'[p])
    BY <2>1 DEF ScanInv
  <2> QED BY <2>2, <2>3 DEF PendingInv
<1>2. ASSUME NEW w \in Writers, write(w) \/ patch(w) \/ forget(w)
      PROVE  PendingInv'
  BY <1>2, PendingMutate DEF write, patch, forget, Kind
<1>3. ASSUME NEW w \in Writers, Appends(w)
      PROVE  PendingInv'
  <2>1. ~append_error(w)
    BY DEF append_error
  <2> QED BY <1>3, <2>1, PendingLock, PendingWrite DEF Appends
<1>4. CASE open \/ reconcile_scan \/ reconcile_append \/ Edit \/ Crash
  BY <1>4 DEF open, reconcile_scan, reconcile_append, Edit, Crash
<1>5. CASE UNCHANGED vars
  BY <1>5 DEF vars, PendingInv, Contended
<1> QED BY <1>1, <1>2, <1>3, <1>4, <1>5 DEF Next, Opening

\* Crashes, failed appends and outside edits included: once a vault has scanned
\* its files and as long as no two mutations of one record overlap and nothing
\* else touches the files, the journal of the vault at rest says of every path
\* what is on disk.
THEOREM LiveStateIsDisk == Spec => []LiveMatchesDisk
<1>1. Init => ScanInv /\ PendingInv
  <2> SUFFICES ASSUME Init PROVE ScanInv /\ PendingInv
    OBVIOUS
  <2>1. \A p \in Paths : Says(<<>>, p, NONE)
    BY DEF Says
  <2> QED BY <2>1 DEF Init, ScanInv, PendingInv
<1>2. PendingInv => LiveMatchesDisk
  BY DEF PendingInv, LiveMatchesDisk, Contended
<1> QED BY <1>1, <1>2, ScanStep, PendingStep, TypeCorrect, PTL DEF Spec
===============================================================================
