----------------------------- MODULE VaultHandoff -----------------------------
(***************************************************************************)
(* Who owns a vault.  The advisory lock .tusk/lock has one holder: the     *)
(* daemon, an embedded `tuskd mcp` session, or a one-shot command that     *)
(* borrows the vault.  A daemon or one-shot that finds it taken leaves     *)
(* .tusk/handoff, which embedded sessions watch for; a session that        *)
(* yielded re-attaches as a proxy or takes the vault back; a proxy whose   *)
(* daemon goes away replays what was not answered and goes embedded.       *)
(*                                                                         *)
(* The processes share the lock, the request file and the daemon's socket. *)
(* Deadlines are not counted: a deadline may expire whenever what it is    *)
(* long enough to outlast is over (the guards of the *_timeout actions).   *)
(***************************************************************************)
EXTENDS Integers, Sequences, FiniteSets

CONSTANTS
    Sessions,     \* `tuskd mcp` processes
    Borrowers,    \* one-shot admin commands
    Daemon,       \* the daemon
    NONE,
    MaxRequests,  \* bound: requests a client sends
    MaxRuns,      \* bound: runs of each borrower
    MaxStarts,    \* bound: runs of the daemon
    MaxStops,     \* bound: graceful daemon stops
    MaxKills      \* bound: daemons or one-shots killed

Requesters == Borrowers \cup {Daemon}

ASSUME HandoffAssumption ==
    /\ Sessions \cap Requesters = {} /\ Daemon \notin Borrowers
    /\ NONE \notin Sessions \cup Requesters \cup Nat
    /\ MaxRequests \in Nat /\ MaxRuns \in Nat /\ MaxStarts \in Nat
    /\ MaxStops \in Nat /\ MaxKills \in Nat

VARIABLES
    lock,      \* holder of .tusk/lock, or NONE
    request,   \* who wrote .tusk/handoff, or NONE
    pc,        \* where each session is
    rpc,       \* where each requester is
    stdin,     \* per session: request lines not yet read
    replay,    \* per session: lines a gone daemon never answered
    inflight,  \* per session: InFlight, sent on this connection, unanswered
    conn,      \* per session: the daemon run it is connected to
    wire,      \* per session: lines the daemon has not read
    serving,   \* per session: the line the daemon is handling, or NONE
    answers,   \* per session: responses <<run, id>> not yet read by the proxy
    noticed,   \* per session: the request it yielded to
    sent,      \* per session: requests made; they are 1..sent
    closed,    \* sessions whose client closed stdin
    runs,      \* per requester: times started
    stops, kills,
    answered,  \* history: responses written to stdout, per session and id
    served,    \* history: sessions that were serving their client
    company,   \* history: requesters that ran beside another one
    refused    \* history: requesters that gave up, alone, on a session's vault

traffic == <<stdin, replay, inflight, conn, wire, serving, answers, answered>>
client == <<sent, closed>>
bounds == <<runs, stops, kills>>
histories == <<served, company, refused>>
vars == <<lock, request, pc, rpc, traffic, noticed, client, bounds, histories>>

-----------------------------------------------------------------------------
Over == {"done", "locked", "denied", "stuck"}

\* Daemon states in which its socket accepts connections, and in which its
\* runtime runs session tasks: they outlive the lock until the process exits.
Listening == rpc[Daemon] = "listening"
DaemonRuns == rpc[Daemon] \in {"listening", "stopping", "released"}

\* The proxy's connection is still open at the other end.
Connected(s) == DaemonRuns /\ conn[s] = runs[Daemon]

Goto(s, l) == pc' = [pc EXCEPT ![s] = l]
Rgoto(r, l) == rpc' = [rpc EXCEPT ![r] = l]

Answer(s, id) == answered' = [answered EXCEPT ![s][id] = @ + 1]

-----------------------------------------------------------------------------
(* The client of a session.                                                *)

Ask(s) ==
    /\ s \notin closed /\ pc[s] \notin Over
    /\ sent[s] < MaxRequests
    /\ sent' = [sent EXCEPT ![s] = @ + 1]
    /\ stdin' = [stdin EXCEPT ![s] = Append(@, sent[s] + 1)]
    /\ UNCHANGED <<lock, request, pc, rpc, replay, inflight, conn, wire, serving,
                   answers, noticed, closed, bounds, answered, histories>>

Close(s) ==
    /\ s \notin closed /\ pc[s] \notin Over
    /\ closed' = closed \cup {s}
    /\ UNCHANGED <<lock, request, pc, rpc, traffic, noticed, sent, bounds, histories>>

-----------------------------------------------------------------------------
(* stdio::run: connect to the daemon, else serve embedded.                 *)

connect(s) ==
    /\ pc[s] = "run"
    /\ \/ /\ Listening
          /\ Goto(s, "handshake")
          /\ conn' = [conn EXCEPT ![s] = runs[Daemon]]
       \/ /\ ~Listening
          /\ Goto(s, "open")
          /\ UNCHANGED conn
    /\ UNCHANGED <<lock, request, rpc, stdin, replay, inflight, wire, serving, answers,
                   answered, noticed, client, bounds, histories>>

\* proxy: header and ack; no ack ends the session.
handshake(s) ==
    /\ pc[s] = "handshake"
    /\ \/ Connected(s) /\ Goto(s, "proxy") /\ served' = served \cup {s}
       \/ ~Connected(s) /\ Goto(s, "denied") /\ UNCHANGED served
    /\ UNCHANGED <<lock, request, rpc, traffic, noticed, client, bounds, company, refused>>

\* Mutant: what was in flight goes with the connection.
DaemonGone_DropsInFlight(s, unanswered) ==
    /\ replay' = [replay EXCEPT ![s] = <<>>]
    /\ inflight' = [inflight EXCEPT ![s] = <<>>]
    /\ Goto(s, "wait_release")

\* daemon_gone: the unanswered requests become the replay.
DaemonGone(s, unanswered) ==
    /\ replay' = [replay EXCEPT ![s] = unanswered]
    /\ inflight' = [inflight EXCEPT ![s] = <<>>]
    /\ Goto(s, "wait_release")

\* send: a line is in flight before it is written; writing to a daemon that
\* hung up fails, and ends the connection.  Replayed lines go first.
proxy_send(s) ==
    /\ pc[s] = "proxy"
    /\ LET lines == replay[s] \o stdin[s] IN
       /\ lines # <<>>
       /\ stdin' = [stdin EXCEPT ![s] = IF replay[s] = <<>> THEN Tail(@) ELSE @]
       /\ \/ /\ Connected(s)
             /\ replay' = [replay EXCEPT ![s] = IF @ = <<>> THEN @ ELSE Tail(@)]
             /\ inflight' = [inflight EXCEPT ![s] = Append(@, Head(lines))]
             /\ wire' = [wire EXCEPT ![s] = Append(@, Head(lines))]
             /\ UNCHANGED pc
          \/ /\ ~Connected(s)
             /\ DaemonGone(s, Append(inflight[s], Head(lines)))
             /\ UNCHANGED wire
    /\ UNCHANGED <<lock, request, rpc, conn, serving, answers, answered, noticed,
                   client, bounds, histories>>

\* The timer's branch: the reader thread has seen the end of the responses.
proxy_timeout(s) ==
    /\ pc[s] = "proxy"
    /\ replay[s] = <<>> /\ stdin[s] = <<>> /\ s \notin closed
    /\ ~Connected(s)
    /\ \A a \in answers[s] : a[1] # conn[s]
    /\ DaemonGone(s, inflight[s])
    /\ UNCHANGED <<lock, request, rpc, stdin, conn, wire, serving, answers, answered,
                   noticed, client, bounds, histories>>

proxy_eof(s) ==
    /\ pc[s] = "proxy"
    /\ replay[s] = <<>> /\ stdin[s] = <<>> /\ s \in closed
    /\ Goto(s, "done")
    /\ UNCHANGED <<lock, request, rpc, traffic, noticed, client, bounds, histories>>

\* InFlight::answered: what waits for another id stays.  A line is in flight once.
Retain(lines, id) ==
    IF \E i \in 1..Len(lines) : lines[i] = id
    THEN LET at == CHOOSE i \in 1..Len(lines) : lines[i] = id
         IN  SubSeq(lines, 1, at - 1) \o SubSeq(lines, at + 1, Len(lines))
    ELSE lines

\* The reader thread of a connection, which outlives the connection's use.
read_answer(s) ==
    /\ pc[s] \notin Over
    /\ \E a \in answers[s] :
          /\ answers' = [answers EXCEPT ![s] = @ \ {a}]
          /\ Answer(s, a[2])
          /\ inflight' = [inflight EXCEPT ![s] =
                IF a[1] = conn[s] THEN Retain(@, a[2]) ELSE @]
    /\ UNCHANGED <<lock, request, pc, rpc, stdin, replay, conn, wire, serving, noticed,
                   client, bounds, histories>>

\* wait_for_lock_release: probe the lock (see probe_drop) until it is free.
wait_for_lock_release(s) ==
    /\ pc[s] = "wait_release"
    /\ lock = NONE
    /\ lock' = s
    /\ Goto(s, "probe")
    /\ UNCHANGED <<request, rpc, traffic, noticed, client, bounds, histories>>

release_timeout(s) ==
    /\ pc[s] = "wait_release"
    /\ lock # NONE
    /\ Goto(s, "run")
    /\ UNCHANGED <<lock, request, rpc, traffic, noticed, client, bounds, histories>>

\* lock_is_free: the lock was acquired to see that it could be.
probe_drop(s) ==
    /\ pc[s] = "probe"
    /\ lock' = NONE
    /\ Goto(s, "run")
    /\ UNCHANGED <<request, rpc, traffic, noticed, client, bounds, histories>>

-----------------------------------------------------------------------------
(* embedded: own the vault and serve one session.                          *)

\* Mutant: the vault is opened whoever holds the lock.
open_Unguarded(s) ==
    /\ pc[s] = "open"
    /\ lock' = s
    /\ Goto(s, "embedded")
    /\ served' = served \cup {s}
    /\ UNCHANGED <<request, rpc, traffic, noticed, client, bounds, company, refused>>

open(s) ==
    /\ pc[s] = "open"
    /\ \/ /\ lock = NONE
          /\ lock' = s
          /\ Goto(s, "embedded")
          /\ served' = served \cup {s}
       \/ /\ lock # NONE
          /\ Goto(s, "locked")
          /\ UNCHANGED <<lock, served>>
    /\ UNCHANGED <<request, rpc, traffic, noticed, client, bounds, company, refused>>

\* Mutant: the vault is given back with lines of the replay left.
embedded_YieldsFirst(s) ==
    /\ pc[s] = "embedded"
    /\ \/ /\ request = NONE /\ replay[s] # <<>>
          /\ replay' = [replay EXCEPT ![s] = Tail(@)]
          /\ Answer(s, Head(replay[s]))
          /\ UNCHANGED <<lock, pc, noticed>>
       \/ /\ request # NONE
          /\ replay' = [replay EXCEPT ![s] = <<>>]
          /\ lock' = NONE
          /\ noticed' = [noticed EXCEPT ![s] = request]
          /\ Goto(s, "takeover")
          /\ UNCHANGED answered
       \/ /\ replay[s] = <<>> /\ request = NONE
          /\ Goto(s, "recv")
          /\ UNCHANGED <<lock, replay, noticed, answered>>
    /\ UNCHANGED <<request, rpc, stdin, inflight, conn, wire, serving, answers,
                   client, bounds, histories>>

\* The top of the loop: replayed lines, then the request file, then stdin.
embedded(s) ==
    /\ pc[s] = "embedded"
    /\ \/ /\ replay[s] # <<>>
          /\ replay' = [replay EXCEPT ![s] = Tail(@)]
          /\ Answer(s, Head(replay[s]))
          /\ UNCHANGED <<lock, pc, noticed>>
       \/ /\ replay[s] = <<>> /\ request # NONE
          /\ lock' = NONE
          /\ noticed' = [noticed EXCEPT ![s] = request]
          /\ Goto(s, "takeover")
          /\ UNCHANGED <<replay, answered>>
       \/ /\ replay[s] = <<>> /\ request = NONE
          /\ Goto(s, "recv")
          /\ UNCHANGED <<lock, replay, noticed, answered>>
    /\ UNCHANGED <<request, rpc, stdin, inflight, conn, wire, serving, answers,
                   client, bounds, histories>>

\* Mutant: a blocking read, which looks at no request until the next line.
recv_Blocks(s) ==
    /\ pc[s] = "recv"
    /\ \/ /\ stdin[s] # <<>>
          /\ stdin' = [stdin EXCEPT ![s] = Tail(@)]
          /\ Answer(s, Head(stdin[s]))
          /\ Goto(s, "embedded")
          /\ UNCHANGED lock
       \/ /\ stdin[s] = <<>> /\ s \in closed
          /\ lock' = NONE
          /\ Goto(s, "done")
          /\ UNCHANGED <<stdin, answered>>
    /\ UNCHANGED <<request, rpc, replay, inflight, conn, wire, serving, answers, noticed,
                   client, bounds, histories>>

\* recv_timeout: a line to serve, the timer, or the end of stdin.
recv(s) ==
    /\ pc[s] = "recv"
    /\ \/ /\ stdin[s] # <<>>
          /\ stdin' = [stdin EXCEPT ![s] = Tail(@)]
          /\ Answer(s, Head(stdin[s]))
          /\ Goto(s, "embedded")
          /\ UNCHANGED lock
       \/ /\ stdin[s] = <<>> /\ s \notin closed
          /\ Goto(s, "embedded")
          /\ UNCHANGED <<lock, stdin, answered>>
       \/ /\ stdin[s] = <<>> /\ s \in closed
          /\ lock' = NONE
          /\ Goto(s, "done")
          /\ UNCHANGED <<stdin, answered>>
    /\ UNCHANGED <<request, rpc, replay, inflight, conn, wire, serving, answers, noticed,
                   client, bounds, histories>>

\* wait_for_takeover: the daemon listens, or the request is gone and the lock
\* is free.
wait_for_takeover(s) ==
    /\ pc[s] = "takeover"
    /\ \/ Listening /\ Goto(s, "run") /\ UNCHANGED lock
       \/ ~Listening /\ request = NONE /\ lock = NONE /\ lock' = s /\ Goto(s, "probe")
    /\ UNCHANGED <<request, rpc, traffic, noticed, client, bounds, histories>>

\* Mutant: the session does not wait for the requester it yielded to.
takeover_timeout_Early(s) ==
    /\ pc[s] = "takeover"
    /\ ~Listening /\ request # NONE
    /\ request' = NONE
    /\ Goto(s, "run")
    /\ UNCHANGED <<lock, rpc, traffic, noticed, client, bounds, histories>>

\* TAKEOVER_WAIT outlasts the wait of the requester the session yielded to.
takeover_timeout(s) ==
    /\ pc[s] = "takeover"
    /\ ~Listening /\ request # NONE
    /\ rpc[noticed[s]] \notin {"waiting", "clear"}
    /\ request' = NONE
    /\ Goto(s, "run")
    /\ UNCHANGED <<lock, rpc, traffic, noticed, client, bounds, histories>>

\* BORROW_WAIT: the lock is still held, with no request and no daemon.
borrow_timeout(s) ==
    /\ pc[s] = "takeover"
    /\ ~Listening /\ request = NONE /\ lock # NONE
    /\ Goto(s, "stuck")
    /\ UNCHANGED <<lock, request, rpc, traffic, noticed, client, bounds, histories>>

-----------------------------------------------------------------------------
(* The daemon and the one-shots: VaultLock::acquire_or_request.            *)

start(r) ==
    /\ rpc[r] = "off"
    /\ IF r = Daemon THEN runs[r] < MaxStarts ELSE runs[r] < MaxRuns /\ ~Listening
    /\ runs' = [runs EXCEPT ![r] = @ + 1]
    /\ Rgoto(r, "acquire")
    /\ LET others == {q \in Requesters : rpc[q] # "off"} IN
       company' = IF others = {} THEN company \ {r} ELSE company \cup others \cup {r}
    /\ UNCHANGED <<lock, request, pc, traffic, noticed, client, stops, kills, served, refused>>

acquire(r) ==
    /\ rpc[r] = "acquire"
    /\ \/ lock = NONE /\ lock' = r /\ Rgoto(r, "boot") /\ UNCHANGED request
       \/ lock # NONE /\ request' = r /\ Rgoto(r, "waiting") /\ UNCHANGED lock
    /\ UNCHANGED <<pc, traffic, noticed, client, bounds, histories>>

retry(r) ==
    /\ rpc[r] = "waiting"
    /\ lock = NONE
    /\ lock' = r
    /\ Rgoto(r, "clear")
    /\ UNCHANGED <<request, pc, traffic, noticed, client, bounds, histories>>

\* The wait outlasts the 250ms in which an embedded session sees a request.
request_timeout(r) ==
    /\ rpc[r] = "waiting"
    /\ lock # NONE
    /\ ~(lock \in Sessions /\ request # NONE)
    /\ refused' = IF lock \in Sessions /\ r \notin company THEN refused \cup {r} ELSE refused
    /\ request' = NONE
    /\ Rgoto(r, "off")
    /\ UNCHANGED <<lock, pc, traffic, noticed, client, bounds, served, company>>

\* The request file is removed, whoever wrote it last.
clear(r) ==
    /\ rpc[r] = "clear"
    /\ request' = NONE
    /\ Rgoto(r, "boot")
    /\ UNCHANGED <<lock, pc, traffic, noticed, client, bounds, histories>>

\* admin_route without a daemon: execute, release.
finish(r) ==
    /\ r \in Borrowers /\ rpc[r] = "boot"
    /\ lock' = NONE
    /\ Rgoto(r, "off")
    /\ UNCHANGED <<request, pc, traffic, noticed, client, bounds, histories>>

-----------------------------------------------------------------------------
(* daemon::run.                                                            *)

listen ==
    /\ rpc[Daemon] = "boot"
    /\ Rgoto(Daemon, "listening")
    /\ UNCHANGED <<lock, request, pc, traffic, noticed, client, bounds, histories>>

\* handle_uds: a session's task reads a line, runs it, writes the response.
handle_line(s) ==
    /\ Connected(s) /\ serving[s] = NONE /\ wire[s] # <<>>
    /\ serving' = [serving EXCEPT ![s] = Head(wire[s])]
    /\ wire' = [wire EXCEPT ![s] = Tail(@)]
    /\ UNCHANGED <<lock, request, pc, rpc, stdin, replay, inflight, conn, answers,
                   answered, noticed, client, bounds, histories>>

\* Mutant: the request is forgotten before its response is built.
handle_reply_ForgetsFirst(s) ==
    /\ Connected(s) /\ serving[s] # NONE
    /\ serving' = [serving EXCEPT ![s] = NONE]
    /\ answers' = [answers EXCEPT ![s] = @ \cup {<<conn[s], serving'[s]>>}]
    /\ UNCHANGED <<lock, request, pc, rpc, stdin, replay, inflight, conn, wire, answered,
                   noticed, client, bounds, histories>>

handle_reply(s) ==
    /\ Connected(s) /\ serving[s] # NONE
    /\ answers' = [answers EXCEPT ![s] = @ \cup {<<conn[s], serving[s]>>}]
    /\ serving' = [serving EXCEPT ![s] = NONE]
    /\ UNCHANGED <<lock, request, pc, rpc, stdin, replay, inflight, conn, wire, answered,
                   noticed, client, bounds, histories>>

\* A shutdown request or signal: the listeners stop and the socket goes.
stop ==
    /\ Listening
    /\ stops < MaxStops
    /\ stops' = stops + 1
    /\ Rgoto(Daemon, "stopping")
    /\ UNCHANGED <<lock, request, pc, traffic, noticed, client, runs, kills, histories>>

\* host.shutdown() drops the lock; the runtime is dropped after it, at exit.
release ==
    /\ rpc[Daemon] = "stopping"
    /\ lock' = NONE
    /\ Rgoto(Daemon, "released")
    /\ UNCHANGED <<request, pc, traffic, noticed, client, bounds, histories>>

HangUp == /\ wire' = [s \in Sessions |-> <<>>]
          /\ serving' = [s \in Sessions |-> NONE]

\* Dropping the runtime lets a task run to its next await, past its response.
exit ==
    /\ rpc[Daemon] = "released"
    /\ \A s \in Sessions : serving[s] = NONE
    /\ HangUp
    /\ Rgoto(Daemon, "off")
    /\ UNCHANGED <<lock, request, pc, stdin, replay, inflight, conn, answers, answered,
                   noticed, client, bounds, histories>>

\* The process dies: the kernel drops its lock and its connections, the
\* request and the socket file stay.
kill(r) ==
    /\ rpc[r] # "off"
    /\ kills < MaxKills
    /\ kills' = kills + 1
    /\ lock' = IF lock = r THEN NONE ELSE lock
    /\ IF r = Daemon THEN HangUp ELSE UNCHANGED <<wire, serving>>
    /\ Rgoto(r, "off")
    /\ UNCHANGED <<request, pc, stdin, replay, inflight, conn, answers, answered, noticed,
                   client, runs, stops, histories>>

-----------------------------------------------------------------------------
Init ==
    /\ lock = NONE /\ request = NONE
    /\ pc = [s \in Sessions |-> "run"]
    /\ rpc = [r \in Requesters |-> "off"]
    /\ stdin = [s \in Sessions |-> <<>>]
    /\ replay = [s \in Sessions |-> <<>>]
    /\ inflight = [s \in Sessions |-> <<>>]
    /\ conn = [s \in Sessions |-> 0]
    /\ wire = [s \in Sessions |-> <<>>]
    /\ serving = [s \in Sessions |-> NONE]
    /\ answers = [s \in Sessions |-> {}]
    /\ answered = [s \in Sessions |-> [id \in 1..MaxRequests |-> 0]]
    /\ noticed = [s \in Sessions |-> NONE]
    /\ sent = [s \in Sessions |-> 0] /\ closed = {}
    /\ runs = [r \in Requesters |-> 0] /\ stops = 0 /\ kills = 0
    /\ served = {} /\ company = {} /\ refused = {}

Session(s) ==
    \/ connect(s) \/ handshake(s)
    \/ proxy_send(s) \/ proxy_timeout(s) \/ proxy_eof(s)
    \/ wait_for_lock_release(s) \/ release_timeout(s) \/ probe_drop(s)
    \/ open(s) \/ embedded(s) \/ recv(s)
    \/ wait_for_takeover(s) \/ takeover_timeout(s) \/ borrow_timeout(s)

Requester(r) ==
    acquire(r) \/ retry(r) \/ request_timeout(r) \/ clear(r) \/ finish(r)

Runtime(s) == handle_line(s) \/ handle_reply(s)

Lifecycle == listen \/ release \/ exit

Next ==
    \/ \E s \in Sessions : Ask(s) \/ Close(s) \/ Session(s) \/ read_answer(s) \/ Runtime(s)
    \/ \E r \in Requesters : start(r) \/ Requester(r) \/ kill(r)
    \/ Lifecycle \/ stop

Spec == Init /\ [][Next]_vars

\* Processes and threads that can run do; nobody must start, stop or kill a
\* process, make a request or close stdin.
FairSpec ==
    /\ Spec
    /\ \A s \in Sessions : /\ WF_vars(Session(s))
                           /\ WF_vars(read_answer(s))
                           /\ WF_vars(Runtime(s))
    /\ \A r \in Requesters : WF_vars(Requester(r))
    /\ WF_vars(Lifecycle)

-----------------------------------------------------------------------------
Lines == Seq(1..MaxRequests)

\* Type invariant: requests are lines the client sent, connections are daemon
\* runs, and every process is at a point of its code.
TypeOK ==
    /\ lock \in Sessions \cup Requesters \cup {NONE}
    /\ request \in Requesters \cup {NONE}
    /\ pc \in [Sessions -> Over \cup {"run", "handshake", "proxy", "wait_release", "probe",
                                      "open", "embedded", "recv", "takeover"}]
    /\ rpc \in [Requesters -> {"off", "acquire", "waiting", "clear", "boot", "listening",
                               "stopping", "released"}]
    /\ stdin \in [Sessions -> Lines] /\ replay \in [Sessions -> Lines]
    /\ inflight \in [Sessions -> Lines] /\ wire \in [Sessions -> Lines]
    /\ conn \in [Sessions -> Nat]
    /\ serving \in [Sessions -> (1..MaxRequests) \cup {NONE}]
    /\ answers \in [Sessions -> SUBSET (Nat \X (1..MaxRequests))]
    /\ answered \in [Sessions -> [1..MaxRequests -> Nat]]
    /\ noticed \in [Sessions -> Requesters \cup {NONE}]
    /\ sent \in [Sessions -> 0..MaxRequests] /\ closed \in SUBSET Sessions
    /\ runs \in [Requesters -> Nat] /\ stops \in Nat /\ kills \in Nat
    /\ served \in SUBSET Sessions
    /\ company \in SUBSET Requesters /\ refused \in SUBSET Requesters

Opened(r) == rpc[r] \in {"clear", "boot", "listening", "stopping"}
Embeds(s) == pc[s] \in {"probe", "embedded", "recv"}

\* Exactly one owner: whoever has opened the core holds the lock, so no two
\* processes have it open, however sessions, one-shots and daemons come and go.
SingleOwner ==
    /\ \A s \in Sessions : Embeds(s) => lock = s
    /\ \A r \in Requesters : Opened(r) => lock = r

Member(id, lines) == \E i \in 1..Len(lines) : lines[i] = id

\* No request of a live session vanishes: it waits on stdin or in the replay,
\* or is in flight, or has been answered.
NothingLost ==
    \A s \in Sessions : pc[s] \notin Over =>
        \A id \in 1..sent[s] : \/ Member(id, stdin[s] \o replay[s] \o inflight[s])
                               \/ answered[s][id] > 0
                               \/ \E a \in answers[s] : a[2] = id

\* A daemon or one-shot that runs while no other one does is never refused the
\* vault because an embedded session has it open.
NeverRefused == refused = {}

\* A daemon that stops or restarts does not end the session of a client it,
\* or the embedded core, was serving.
SessionSurvives == \A s \in served : pc[s] # "locked"

\* Every request is answered, unless its session ends.
RequestsAnswered ==
    \A s \in Sessions, id \in 1..MaxRequests :
        sent[s] >= id ~> answered[s][id] > 0 \/ pc[s] \in Over

\* A daemon or one-shot that asked an embedded session for the vault is heard:
\* its wait does not go on while sessions keep the vault.
RequestsHeard == \A r \in Requesters : rpc[r] = "waiting" ~> rpc[r] # "waiting"

\* Sessions, one-shots and the daemon together do what SharedVault promises: the
\* core passes from owner to owner through being free, no step drops or invents a
\* request, and each one is answered unless its session ends.
Shared == INSTANCE SharedVault WITH
  Processes <- Sessions \cup Requesters,
  owners <- {s \in Sessions : pc[s] \in {"embedded", "recv"}}
            \cup {r \in Requesters : rpc[r] \in {"boot", "listening", "stopping"}},
  asked <- sent,
  pending <- [s \in Sessions |-> {id \in 1..sent[s] : answered[s][id] = 0}],
  ended <- {s \in Sessions : pc[s] \in Over}

Implements == Shared!FairSpec
===============================================================================
