-------------------------------- MODULE Journal --------------------------------
(***************************************************************************)
(* The change journal of a syncing vault (.tusk/sync/journal): an          *)
(* append-only, hash-chained file of put, patch and tombstone entries that *)
(* the vault's mutators append to, verified on open, and caught up with    *)
(* the files by a reconciliation scan.  Mutators of one process run        *)
(* concurrently; the process may die between any two steps, or in the      *)
(* middle of an append; files may be edited behind the vault's back.       *)
(*                                                                         *)
(* A line's sha256 is modelled by its line number: the file only grows, so *)
(* the number identifies the line as the hash does.  Content hashes stand  *)
(* for the bytes of a file.                                                *)
(***************************************************************************)
EXTENDS Integers, Sequences

CONSTANTS
    Writers,     \* threads of the process that mutate the vault
    Paths,       \* vault-relative record paths
    Hashes,      \* content hashes
    NONE,        \* no file, no hash, no holder
    MaxEntries,  \* bound: journal lines, checked where a mutation begins
    MaxFaults    \* bound: crashes, edits from outside the vault, and appends
                 \* that fail in a live process after some bytes, together

ASSUME JournalAssumption ==
    /\ NONE \notin Hashes \cup Writers
    /\ MaxEntries \in Nat /\ MaxFaults \in Nat

VARIABLES
    disk,     \* path -> content hash of the file, or NONE
    log,      \* complete lines of the journal file
    tail,     \* after the last complete line: nothing ("whole"), or the bytes
              \* of an unfinished append ("torn")
    last,     \* JournalState::last_hash of the running process
    mutex,    \* holder of Journal::state, or NONE
    status,   \* of the process: down, scan, reconcile, up, failed
    pc, op,   \* per writer: where it is, and the entry it must append
    todo,     \* entries the reconciliation scan has still to append
    files,    \* history: whether since the last scan anything touched the files
              \* that the journal is not told of, or is told of out of order
              \* ("touched"), or not ("tracked")
    partials, \* history: appends that failed half-way in a live process
    faults    \* bounded counter

bounds == <<partials, faults>>
vars == <<disk, log, tail, last, mutex, status, pc, op, todo, files, bounds>>

-----------------------------------------------------------------------------
Kind == {"put", "patch", "tombstone"}
Op == [kind : Kind, path : Paths, hash : Hashes \cup {NONE}]
JournalEntry == [kind : Kind \cup {"garbage"}, path : Paths,
                 hash : Hashes \cup {NONE}, prev : Nat]

\* Mutant: the chain starts without the seed.
Genesis_Unset == NONE

\* The seed bound to the vault id.
Genesis == 0

Fault == faults < MaxFaults /\ faults' = faults + 1

Entry(o, prev) == [kind |-> o.kind, path |-> o.path, hash |-> o.hash, prev |-> prev]

\* Bytes left by a failed append run into the next line: what reaches the file
\* is one line that does not parse.
Garbled(e) == [e EXCEPT !.kind = "garbage"]

\* Journal::open accepts the file.
Verifies(l) == \A i \in 1..Len(l) : l[i].kind # "garbage" /\ l[i].prev = i - 1

\* h is what the journal last said about path p.
Says(l, p, h) ==
    \/ h = NONE /\ \A i \in 1..Len(l) : l[i].path # p
    \/ \E i \in 1..Len(l) : /\ l[i].path = p /\ l[i].hash = h
                            /\ \A j \in i + 1..Len(l) : l[j].path # p

\* Mutant: tombstones are skipped, so a deleted path keeps its last hash.
live_state_NoTombstones(l) ==
    [p \in Paths |-> CHOOSE h \in Hashes \cup {NONE} :
        Says(SelectSeq(l, LAMBDA e : e.kind # "tombstone"), p, h)]

\* Journal::live_state: the fold that keeps each path's latest hash and drops
\* tombstoned paths.
live_state(l) == [p \in Paths |-> CHOOSE h \in Hashes \cup {NONE} : Says(l, p, h)]

\* What the scan appends: a put for a file the journal does not know in its
\* present state, a tombstone for a path whose file is gone.
Diff(l) ==
    LET live == live_state(l) IN
    {[kind |-> IF disk[p] = NONE THEN "tombstone" ELSE "put",
      path |-> p, hash |-> disk[p]] : p \in {q \in Paths : live[q] # disk[q]}}

-----------------------------------------------------------------------------
(* Mutators of a running vault: the file first, its journal entry second.  *)

\* Another mutation of path p has not appended its entry: whether theirs or
\* ours comes first is anybody's guess.
Contended(p) == \E w \in Writers : pc[w] # "idle" /\ op[w].path = p

\* Mutant: the entry carries the hash of the contents that were replaced.
Mutate_HashBefore(w, kind, p, h) ==
    /\ status = "up"
    /\ pc[w] = "idle"
    /\ Len(log) < MaxEntries
    /\ disk' = [disk EXCEPT ![p] = h]
    /\ op' = [op EXCEPT ![w] = [kind |-> kind, path |-> p, hash |-> disk[p]]]
    /\ pc' = [pc EXCEPT ![w] = "append"]
    /\ files' = IF Contended(p) THEN "touched" ELSE files
    /\ UNCHANGED <<log, tail, last, mutex, status, todo, bounds>>

Mutate(w, kind, p, h) ==
    /\ status = "up"
    /\ pc[w] = "idle"
    /\ Len(log) < MaxEntries
    /\ disk' = [disk EXCEPT ![p] = h]
    /\ op' = [op EXCEPT ![w] = [kind |-> kind, path |-> p, hash |-> h]]
    /\ pc' = [pc EXCEPT ![w] = "append"]
    /\ files' = IF Contended(p) THEN "touched" ELSE files
    /\ UNCHANGED <<log, tail, last, mutex, status, todo, bounds>>

write(w) == \E p \in Paths, h \in Hashes : disk[p] = NONE /\ Mutate(w, "put", p, h)

\* invalidate and update_telemetry.
patch(w) == \E p \in Paths, h \in Hashes : disk[p] # NONE /\ Mutate(w, "patch", p, h)

forget(w) == \E p \in Paths : disk[p] # NONE /\ Mutate(w, "tombstone", p, NONE)

\* Mutant: last_hash is read without the state mutex.
append_lock_Unguarded(w) ==
    /\ pc[w] = "append"
    /\ op' = [op EXCEPT ![w] = Entry(op[w], last)]
    /\ pc' = [pc EXCEPT ![w] = "write"]
    /\ UNCHANGED <<disk, log, tail, last, mutex, status, todo, files, bounds>>

\* Journal::append: the entry is chained to last_hash under the state mutex...
append_lock(w) ==
    /\ pc[w] = "append"
    /\ mutex = NONE
    /\ mutex' = w
    /\ op' = [op EXCEPT ![w] = Entry(op[w], last)]
    /\ pc' = [pc EXCEPT ![w] = "write"]
    /\ UNCHANGED <<disk, log, tail, last, status, todo, files, bounds>>

Appended(e) == log' = Append(log, IF tail = "torn" THEN Garbled(e) ELSE e)

\* ...written, and only then does last_hash move to it...
append_write(w) ==
    /\ pc[w] = "write"
    /\ Appended(op[w])
    /\ tail' = "whole"
    /\ last' = Len(log) + 1
    /\ mutex' = NONE
    /\ op' = [op EXCEPT ![w] = NONE]
    /\ pc' = [pc EXCEPT ![w] = "idle"]
    /\ UNCHANGED <<disk, status, todo, files, bounds>>

\* ...unless the file cannot be opened or written: the call fails, the change
\* to the vault's file stays, last_hash stays, and some bytes may be there.
append_error(w) ==
    /\ pc[w] = "write"
    /\ \/ UNCHANGED <<tail, bounds>>
       \/ /\ Fault
          /\ partials' = partials + 1
          /\ tail' = "torn"
    /\ files' = "touched"
    /\ mutex' = NONE
    /\ op' = [op EXCEPT ![w] = NONE]
    /\ pc' = [pc EXCEPT ![w] = "idle"]
    /\ UNCHANGED <<disk, log, last, status, todo>>

-----------------------------------------------------------------------------
(* Opening a vault with sync enabled.                                      *)

\* Mutant: the final complete line is cut off with the torn one.
open_CutsLine ==
    /\ status = "down"
    /\ status' = "scan"
    /\ log' = IF tail = "torn" /\ log # <<>> THEN SubSeq(log, 1, Len(log) - 1) ELSE log
    /\ tail' = "whole"
    /\ last' = Len(log')
    /\ UNCHANGED <<disk, mutex, pc, op, todo, files, bounds>>

\* Mutant: a torn final line is left in place.
open_KeepsTorn ==
    /\ status = "down"
    /\ status' = IF Verifies(log) THEN "scan" ELSE "failed"
    /\ last' = Len(log)
    /\ UNCHANGED <<disk, log, tail, mutex, pc, op, todo, files, bounds>>

\* Journal::open: verify every complete line, refuse the vault if one fails,
\* truncate a torn final line.
open ==
    /\ status = "down"
    /\ \/ /\ Verifies(log)
          /\ status' = "scan"
          /\ tail' = "whole"
          /\ last' = IF log = <<>> THEN Genesis ELSE Len(log)
       \/ /\ ~Verifies(log)
          /\ status' = "failed"
          /\ UNCHANGED <<tail, last>>
    /\ UNCHANGED <<disk, log, mutex, pc, op, todo, files, bounds>>

\* sync::reconcile, the diff of memory/** against the journal's live state.
reconcile_scan ==
    /\ status = "scan"
    /\ todo' = Diff(log)
    /\ files' = "tracked"
    /\ status' = "reconcile"
    /\ UNCHANGED <<disk, log, tail, last, mutex, pc, op, bounds>>

reconcile_append ==
    /\ status = "reconcile"
    /\ \E o \in todo :
          /\ Appended(Entry(o, last))
          /\ todo' = todo \ {o}
    /\ tail' = "whole"
    /\ last' = Len(log) + 1
    /\ UNCHANGED <<disk, mutex, status, pc, op, files, bounds>>

\* The scan is complete: the vault starts serving.
reconcile_done ==
    /\ status = "reconcile" /\ todo = {}
    /\ status' = "up"
    /\ UNCHANGED <<disk, log, tail, last, mutex, pc, op, todo, files, bounds>>

-----------------------------------------------------------------------------
(* The environment.                                                        *)

\* An editor, a checkout or a sync pull changes a file behind the journal.
Edit ==
    /\ Fault
    /\ \E p \in Paths, h \in Hashes \cup {NONE} :
          disk[p] # h /\ disk' = [disk EXCEPT ![p] = h]
    /\ files' = "touched"
    /\ UNCHANGED <<log, tail, last, mutex, status, pc, op, todo, partials>>

Appending == (\E w \in Writers : pc[w] = "write") \/ (status = "reconcile" /\ todo # {})

\* The process dies (or its open fails on an I/O error); an append under way
\* may have left part of its line.
Crash ==
    /\ status \in {"scan", "reconcile", "up"}
    /\ Fault
    /\ status' = "down"
    /\ \/ UNCHANGED tail
       \/ Appending /\ tail' = "torn"
    /\ mutex' = NONE
    /\ pc' = [w \in Writers |-> "idle"]
    /\ op' = [w \in Writers |-> NONE]
    /\ todo' = {} /\ last' = Genesis
    /\ UNCHANGED <<disk, log, files, partials>>

-----------------------------------------------------------------------------
\* A vault with any files, whose journal has not been started.
Init ==
    /\ disk \in [Paths -> Hashes \cup {NONE}]
    /\ log = <<>> /\ tail = "whole" /\ last = Genesis /\ mutex = NONE
    /\ status = "down"
    /\ pc = [w \in Writers |-> "idle"]
    /\ op = [w \in Writers |-> NONE]
    /\ todo = {} /\ files = "touched"
    /\ partials = 0 /\ faults = 0

Opening == open \/ reconcile_scan \/ reconcile_append \/ reconcile_done

Appends(w) == append_lock(w) \/ append_write(w) \/ append_error(w)

Next ==
    \/ \E w \in Writers : write(w) \/ patch(w) \/ forget(w) \/ Appends(w)
    \/ Opening
    \/ Edit \/ Crash

Spec == Init /\ [][Next]_vars

\* A started process works through its open; the service manager or the next
\* command starts it again after a crash.
FairSpec == Spec /\ WF_vars(Opening)

-----------------------------------------------------------------------------
\* Type invariant: lines, pending entries and hashes are values the code writes.
TypeOK ==
    /\ disk \in [Paths -> Hashes \cup {NONE}]
    /\ log \in Seq(JournalEntry)
    /\ tail \in {"whole", "torn"} /\ files \in {"tracked", "touched"}
    /\ last \in Nat
    /\ mutex \in Writers \cup {NONE}
    /\ status \in {"down", "scan", "reconcile", "up", "failed"}
    /\ pc \in [Writers -> {"idle", "append", "write"}]
    /\ op \in [Writers -> {NONE} \cup Op \cup JournalEntry]
    /\ todo \in SUBSET Op
    /\ partials \in Nat /\ faults \in Nat

\* As long as no append has failed half-way in a process that lives on, the
\* journal on disk verifies at every instant, whatever concurrent appends and
\* crashes do; the vault is never refused for it, and a running process never
\* has torn bytes in front of its next line.
ChainVerifies ==
    partials = 0 =>
        /\ Verifies(log) /\ status # "failed"
        /\ status \in {"scan", "reconcile", "up"} => tail = "whole"

\* The journal is append-only: no step, opening included, changes or drops a
\* complete line.
AppendOnly == [][Len(log) <= Len(log') /\ SubSeq(log', 1, Len(log)) = log]_vars

\* When the scan finishes and no edit ran against it, the journal says of every
\* path exactly what is on disk, whatever was lost in crashes, failed appends,
\* offline edits or appends made out of order.
ReconcileExact ==
    status = "reconcile" /\ todo = {} /\ files = "tracked" => \A p \in Paths : Says(log, p, disk[p])

\* While no two mutations of one record overlap, the journal agrees with the
\* files whenever no mutation is under way.
LiveMatchesDisk ==
    status = "up" /\ files = "tracked" /\ (\A w \in Writers : pc[w] = "idle")
        => \A p \in Paths : Says(log, p, disk[p])

\* However it crashed, the vault comes up again for good, unless an append has
\* failed half-way in a process that lived on.
ComesUp == <>[](status = "up" \/ partials > 0)
===============================================================================
