-------------------------- MODULE VaultHandoffProofs --------------------------
(* Proofs about VaultHandoff, for any number of sessions and one-shots.    *)
EXTENDS VaultHandoff, SequenceTheorems, TLAPS

\* The part of the state ownership depends on.
PlacesOK == DOMAIN pc = Sessions /\ DOMAIN rpc = Requesters

Ownership == PlacesOK /\ SingleOwner

\* A step of one session, or of one requester, leaves the other ones where they are.
LEMMA SessionMoves ==
  ASSUME PlacesOK, NEW s \in Sessions, NEW l, Goto(s, l)
  PROVE  /\ DOMAIN pc' = Sessions /\ pc'[s] = l
         /\ \A u \in Sessions \ {s} : pc'[u] = pc[u]
BY DEF PlacesOK, Goto

LEMMA RequesterMoves ==
  ASSUME PlacesOK, NEW r \in Requesters, NEW l, Rgoto(r, l)
  PROVE  /\ DOMAIN rpc' = Requesters /\ rpc'[r] = l
         /\ \A q \in Requesters \ {r} : rpc'[q] = rpc[q]
BY DEF PlacesOK, Rgoto

\* A session that moves to a place where the core is closed to it.
LEMMA SessionStaysOut ==
  ASSUME Ownership, NEW s \in Sessions, NEW l, Goto(s, l),
         l \notin {"probe", "embedded", "recv"},
         lock' = lock \/ (lock = s /\ lock' = NONE), rpc' = rpc
  PROVE  Ownership'
<1>1. /\ DOMAIN pc' = Sessions /\ pc'[s] = l
      /\ \A u \in Sessions \ {s} : pc'[u] = pc[u]
  BY SessionMoves DEF Ownership
<1>2. ASSUME NEW u \in Sessions, Embeds(u)'
      PROVE  lock' = u
  <2>1. u # s /\ pc'[u] = pc[u]
    BY <1>1, <1>2 DEF Embeds
  <2>2. lock = u
    BY <2>1, <1>2 DEF Embeds, Ownership, SingleOwner
  <2> QED BY <2>1, <2>2
<1>3. ASSUME NEW r \in Requesters, Opened(r)'
      PROVE  lock' = r
  <2>1. lock = r
    BY <1>3 DEF Opened, Ownership, SingleOwner
  <2> QED BY <2>1, HandoffAssumption
<1> QED BY <1>1, <1>2, <1>3 DEF Ownership, PlacesOK, SingleOwner

\* A session that acquires the free lock.
LEMMA SessionTakes ==
  ASSUME Ownership, NEW s \in Sessions, NEW l, Goto(s, l),
         lock = NONE, lock' = s, rpc' = rpc
  PROVE  Ownership'
<1>1. /\ DOMAIN pc' = Sessions
      /\ \A u \in Sessions \ {s} : pc'[u] = pc[u]
  BY SessionMoves DEF Ownership
<1>2. NONE \notin Sessions \cup Requesters
  BY HandoffAssumption
<1>3. ASSUME NEW u \in Sessions, Embeds(u)'
      PROVE  u = s
  BY <1>1, <1>2, <1>3 DEF Embeds, Ownership, SingleOwner
<1>4. ASSUME NEW r \in Requesters
      PROVE  ~Opened(r)'
  BY <1>2 DEF Opened, Ownership, SingleOwner
<1> QED BY <1>1, <1>3, <1>4 DEF Ownership, PlacesOK, SingleOwner

\* A session that keeps the vault and moves within the embedded loop.
LEMMA SessionKeeps ==
  ASSUME Ownership, NEW s \in Sessions, NEW l, Goto(s, l), Embeds(s),
         lock' = lock, rpc' = rpc
  PROVE  Ownership'
<1>1. /\ DOMAIN pc' = Sessions
      /\ \A u \in Sessions \ {s} : pc'[u] = pc[u]
  BY SessionMoves DEF Ownership
<1>2. lock = s
  BY DEF Ownership, SingleOwner
<1>3. ASSUME NEW u \in Sessions, Embeds(u)'
      PROVE  lock' = u
  BY <1>1, <1>2, <1>3 DEF Embeds, Ownership, SingleOwner
<1>4. ASSUME NEW r \in Requesters, Opened(r)'
      PROVE  lock' = r
  BY <1>4 DEF Opened, Ownership, SingleOwner
<1> QED BY <1>1, <1>3, <1>4 DEF Ownership, PlacesOK, SingleOwner

\* A requester that moves to a place where the core is closed to it.
LEMMA RequesterStaysOut ==
  ASSUME Ownership, NEW r \in Requesters, NEW l, Rgoto(r, l),
         l \notin {"clear", "boot", "listening", "stopping"},
         lock' = lock \/ (lock = r /\ lock' = NONE), pc' = pc
  PROVE  Ownership'
<1>1. /\ DOMAIN rpc' = Requesters /\ rpc'[r] = l
      /\ \A q \in Requesters \ {r} : rpc'[q] = rpc[q]
  BY RequesterMoves DEF Ownership
<1>2. ASSUME NEW q \in Requesters, Opened(q)'
      PROVE  lock' = q
  <2>1. q # r /\ rpc'[q] = rpc[q]
    BY <1>1, <1>2 DEF Opened
  <2>2. lock = q
    BY <2>1, <1>2 DEF Opened, Ownership, SingleOwner
  <2> QED BY <2>1, <2>2
<1>3. ASSUME NEW u \in Sessions, Embeds(u)'
      PROVE  lock' = u
  <2>1. lock = u
    BY <1>3 DEF Embeds, Ownership, SingleOwner
  <2> QED BY <2>1, HandoffAssumption
<1> QED BY <1>1, <1>2, <1>3 DEF Ownership, PlacesOK, SingleOwner

\* A requester that acquires the free lock.
LEMMA RequesterTakes ==
  ASSUME Ownership, NEW r \in Requesters, NEW l, Rgoto(r, l),
         lock = NONE, lock' = r, pc' = pc
  PROVE  Ownership'
<1>1. /\ DOMAIN rpc' = Requesters
      /\ \A q \in Requesters \ {r} : rpc'[q] = rpc[q]
  BY RequesterMoves DEF Ownership
<1>2. NONE \notin Sessions \cup Requesters
  BY HandoffAssumption
<1>3. ASSUME NEW q \in Requesters, Opened(q)'
      PROVE  q = r
  BY <1>1, <1>2, <1>3 DEF Opened, Ownership, SingleOwner
<1>4. ASSUME NEW u \in Sessions
      PROVE  ~Embeds(u)'
  BY <1>2 DEF Embeds, Ownership, SingleOwner
<1> QED BY <1>1, <1>3, <1>4 DEF Ownership, PlacesOK, SingleOwner

\* A requester that has the vault and goes on with it.
LEMMA RequesterKeeps ==
  ASSUME Ownership, NEW r \in Requesters, NEW l, Rgoto(r, l), Opened(r),
         lock' = lock, pc' = pc
  PROVE  Ownership'
<1>1. /\ DOMAIN rpc' = Requesters
      /\ \A q \in Requesters \ {r} : rpc'[q] = rpc[q]
  BY RequesterMoves DEF Ownership
<1>2. lock = r
  BY DEF Ownership, SingleOwner
<1>3. ASSUME NEW q \in Requesters, Opened(q)'
      PROVE  lock' = q
  BY <1>1, <1>2, <1>3 DEF Opened, Ownership, SingleOwner
<1>4. ASSUME NEW u \in Sessions, Embeds(u)'
      PROVE  lock' = u
  BY <1>4 DEF Embeds, Ownership, SingleOwner
<1> QED BY <1>1, <1>3, <1>4 DEF Ownership, PlacesOK, SingleOwner

LEMMA NobodyMoves ==
  ASSUME Ownership, UNCHANGED <<lock, pc, rpc>>
  PROVE  Ownership'
BY DEF Ownership, PlacesOK, SingleOwner, Embeds, Opened

LEMMA SessionSteps ==
  ASSUME Ownership, NEW s \in Sessions, Session(s)
  PROVE  Ownership'
<1>1. CASE connect(s)
  <2>1. PICK l \in {"handshake", "open"} : Goto(s, l)
    BY <1>1 DEF connect
  <2> QED BY <1>1, <2>1, SessionStaysOut DEF connect
<1>2. CASE handshake(s)
  <2>1. PICK l \in {"proxy", "denied"} : Goto(s, l)
    BY <1>2 DEF handshake
  <2> QED BY <1>2, <2>1, SessionStaysOut DEF handshake
<1>3. CASE proxy_send(s)
  <2>1. lock' = lock /\ rpc' = rpc
    BY <1>3 DEF proxy_send
  <2>2. CASE pc' = pc
    BY <2>1, <2>2, NobodyMoves
  <2>3. CASE Goto(s, "wait_release")
    BY <2>1, <2>3, SessionStaysOut
  <2> QED BY <1>3, <2>2, <2>3 DEF proxy_send, DaemonGone
<1>4. CASE proxy_timeout(s)
  BY <1>4, SessionStaysOut DEF proxy_timeout, DaemonGone
<1>5. CASE proxy_eof(s)
  BY <1>5, SessionStaysOut DEF proxy_eof
<1>6. CASE wait_for_lock_release(s)
  BY <1>6, SessionTakes DEF wait_for_lock_release
<1>7. CASE release_timeout(s)
  BY <1>7, SessionStaysOut DEF release_timeout
<1>8. CASE probe_drop(s)
  <2>1. lock = s
    BY <1>8 DEF probe_drop, Ownership, SingleOwner, Embeds
  <2> QED BY <1>8, <2>1, SessionStaysOut DEF probe_drop
<1>9. CASE open(s)
  <2>1. CASE lock = NONE
    BY <1>9, <2>1, SessionTakes DEF open
  <2>2. CASE lock # NONE
    BY <1>9, <2>2, SessionStaysOut DEF open
  <2> QED BY <2>1, <2>2
<1>10. CASE embedded(s)
  <2>1. lock = s /\ Embeds(s) /\ rpc' = rpc
    BY <1>10 DEF embedded, Ownership, SingleOwner, Embeds
  <2>2. CASE UNCHANGED <<lock, pc>>
    BY <2>1, <2>2, NobodyMoves
  <2>3. CASE lock' = NONE /\ Goto(s, "takeover")
    BY <2>1, <2>3, SessionStaysOut
  <2>4. CASE UNCHANGED lock /\ Goto(s, "recv")
    BY <2>1, <2>4, SessionKeeps
  <2> QED BY <1>10, <2>2, <2>3, <2>4 DEF embedded
<1>11. CASE recv(s)
  <2>1. lock = s /\ Embeds(s) /\ rpc' = rpc
    BY <1>11 DEF recv, Ownership, SingleOwner, Embeds
  <2>2. CASE UNCHANGED lock /\ Goto(s, "embedded")
    BY <2>1, <2>2, SessionKeeps
  <2>3. CASE lock' = NONE /\ Goto(s, "done")
    BY <2>1, <2>3, SessionStaysOut
  <2> QED BY <1>11, <2>2, <2>3 DEF recv
<1>12. CASE wait_for_takeover(s)
  <2>1. CASE UNCHANGED lock /\ Goto(s, "run")
    BY <1>12, <2>1, SessionStaysOut DEF wait_for_takeover
  <2>2. CASE lock = NONE /\ lock' = s /\ Goto(s, "probe")
    BY <1>12, <2>2, SessionTakes DEF wait_for_takeover
  <2> QED BY <1>12, <2>1, <2>2 DEF wait_for_takeover
<1>13. CASE takeover_timeout(s)
  BY <1>13, SessionStaysOut DEF takeover_timeout
<1>14. CASE borrow_timeout(s)
  BY <1>14, SessionStaysOut DEF borrow_timeout
<1> QED BY <1>1, <1>2, <1>3, <1>4, <1>5, <1>6, <1>7, <1>8, <1>9, <1>10, <1>11,
           <1>12, <1>13, <1>14 DEF Session

LEMMA RequesterSteps ==
  ASSUME Ownership, NEW r \in Requesters, start(r) \/ Requester(r) \/ kill(r)
  PROVE  Ownership'
<1>1. CASE start(r)
  BY <1>1, RequesterStaysOut DEF start
<1>2. CASE acquire(r)
  <2>1. CASE lock = NONE
    BY <1>2, <2>1, RequesterTakes DEF acquire
  <2>2. CASE lock # NONE
    BY <1>2, <2>2, RequesterStaysOut DEF acquire
  <2> QED BY <2>1, <2>2
<1>3. CASE retry(r)
  BY <1>3, RequesterTakes DEF retry
<1>4. CASE request_timeout(r)
  BY <1>4, RequesterStaysOut DEF request_timeout
<1>5. CASE clear(r)
  BY <1>5, RequesterKeeps DEF clear, Opened
<1>6. CASE finish(r)
  <2>1. lock = r
    BY <1>6 DEF finish, Ownership, SingleOwner, Opened
  <2> QED BY <1>6, <2>1, RequesterStaysOut DEF finish
<1>7. CASE kill(r)
  BY <1>7, RequesterStaysOut DEF kill
<1> QED BY <1>1, <1>2, <1>3, <1>4, <1>5, <1>6, <1>7 DEF Requester

LEMMA DaemonSteps ==
  ASSUME Ownership, Lifecycle \/ stop
  PROVE  Ownership'
<1> Daemon \in Requesters
  BY DEF Requesters
<1>1. CASE listen
  BY <1>1, RequesterKeeps DEF listen, Opened
<1>2. CASE stop
  BY <1>2, RequesterKeeps DEF stop, Listening, Opened
<1>3. CASE release
  <2>1. lock = Daemon
    BY <1>3 DEF release, Ownership, SingleOwner, Opened
  <2> QED BY <1>3, <2>1, RequesterStaysOut DEF release
<1>4. CASE exit
  BY <1>4, RequesterStaysOut DEF exit
<1> QED BY <1>1, <1>2, <1>3, <1>4 DEF Lifecycle

LEMMA OwnershipStep ==
  ASSUME Ownership, [Next]_vars
  PROVE  Ownership'
<1>1. ASSUME NEW s \in Sessions, Ask(s) \/ Close(s) \/ read_answer(s) \/ Runtime(s)
      PROVE  Ownership'
  BY <1>1, NobodyMoves DEF Ask, Close, read_answer, Runtime, handle_line, handle_reply
<1>2. CASE UNCHANGED vars
  BY <1>2, NobodyMoves DEF vars
<1> QED BY <1>1, <1>2, SessionSteps, RequesterSteps, DaemonSteps DEF Next

\* At most one process has the core of a vault open at a time.
THEOREM OneOwner == Spec => []SingleOwner
<1>1. Init => Ownership
  BY DEF Init, Ownership, PlacesOK, SingleOwner, Embeds, Opened
<1>2. Ownership => SingleOwner
  BY DEF Ownership
<1> QED BY <1>1, <1>2, OwnershipStep, PTL DEF Spec

-----------------------------------------------------------------------------
(* Types.  A line anywhere in a session is one its client has sent, and what   *)
(* was never sent was never answered.                                          *)

Mail(s) ==
  /\ stdin[s] \in Seq(1..sent[s]) /\ replay[s] \in Seq(1..sent[s])
  /\ inflight[s] \in Seq(1..sent[s]) /\ wire[s] \in Seq(1..sent[s])
  /\ serving[s] \in (1..sent[s]) \cup {NONE}
  /\ answers[s] \in SUBSET (Nat \X (1..sent[s]))
  /\ \A id \in 1..MaxRequests : id > sent[s] => answered[s][id] = 0

TypeInv == TypeOK /\ \A s \in Sessions : Mail(s)

\* Lines stay lines when one is taken from the front or put at the end.
LEMMA Queue ==
  ASSUME NEW S, NEW q \in Seq(S)
  PROVE  /\ <<>> \in Seq(S)
         /\ \A x \in S : Append(q, x) \in Seq(S)
         /\ q # <<>> => Head(q) \in S /\ Tail(q) \in Seq(S)
BY HeadTailProperties

LEMMA MailTypes ==
  ASSUME TypeInv, NEW s \in Sessions
  PROVE  /\ sent[s] \in 0..MaxRequests /\ sent[s] \in Nat
         /\ 1..sent[s] \subseteq 1..MaxRequests
         /\ stdin[s] \in Seq(1..sent[s]) /\ replay[s] \in Seq(1..sent[s])
         /\ inflight[s] \in Seq(1..sent[s]) /\ wire[s] \in Seq(1..sent[s])
         /\ serving[s] \in (1..sent[s]) \cup {NONE}
         /\ answers[s] \in SUBSET (Nat \X (1..sent[s]))
BY SMTT(30), HandoffAssumption DEF TypeInv, TypeOK, Mail

\* Most steps of a session move lines within it and leave the others alone.
LEMMA MailMoves ==
  ASSUME TypeInv, NEW s \in Sessions, NEW in, NEW re, NEW fl, NEW wi,
         in \in Seq(1..sent[s]), re \in Seq(1..sent[s]),
         fl \in Seq(1..sent[s]), wi \in Seq(1..sent[s]),
         stdin' = [stdin EXCEPT ![s] = in], replay' = [replay EXCEPT ![s] = re],
         inflight' = [inflight EXCEPT ![s] = fl], wire' = [wire EXCEPT ![s] = wi],
         UNCHANGED <<serving, answers, sent, answered>>
  PROVE  /\ \A u \in Sessions : Mail(u)'
         /\ stdin' \in [Sessions -> Lines] /\ replay' \in [Sessions -> Lines]
         /\ inflight' \in [Sessions -> Lines] /\ wire' \in [Sessions -> Lines]
<1>1. 1..sent[s] \subseteq 1..MaxRequests
  BY MailTypes
<1>2. /\ in \in Lines /\ re \in Lines /\ fl \in Lines /\ wi \in Lines
  BY <1>1, SeqMonotonic DEF Lines
<1>3. /\ stdin' \in [Sessions -> Lines] /\ replay' \in [Sessions -> Lines]
      /\ inflight' \in [Sessions -> Lines] /\ wire' \in [Sessions -> Lines]
  BY <1>2 DEF TypeInv, TypeOK
<1>4. ASSUME NEW u \in Sessions
      PROVE  Mail(u)'
  BY DEF TypeInv, TypeOK, Mail
<1> QED BY <1>3, <1>4

\* The part of TypeOK that is not about lines.
PlaceTypes ==
  /\ lock \in Sessions \cup Requesters \cup {NONE}
  /\ request \in Requesters \cup {NONE}
  /\ pc \in [Sessions -> Over \cup {"run", "handshake", "proxy", "wait_release", "probe",
                                    "open", "embedded", "recv", "takeover"}]
  /\ rpc \in [Requesters -> {"off", "acquire", "waiting", "clear", "boot", "listening",
                             "stopping", "released"}]
  /\ noticed \in [Sessions -> Requesters \cup {NONE}]
  /\ closed \in SUBSET Sessions
  /\ runs \in [Requesters -> Nat] /\ stops \in Nat /\ kills \in Nat
  /\ served \in SUBSET Sessions
  /\ company \in SUBSET Requesters /\ refused \in SUBSET Requesters

LEMMA PlacesStep ==
  ASSUME TypeInv, [Next]_vars
  PROVE  PlaceTypes'
<1> Daemon \in Requesters
  BY DEF Requesters
<1> USE DEF PlaceTypes
<1>0. PlaceTypes
  BY DEF TypeInv, TypeOK
<1> USE DEF Goto, Rgoto, Over
<1>1. CASE UNCHANGED vars
  BY <1>0, <1>1 DEF vars, client, bounds, histories
<1>2. ASSUME NEW s \in Sessions, Ask(s) \/ Close(s) \/ read_answer(s) \/ Runtime(s)
      PROVE  PlaceTypes'
  BY <1>0, <1>2
     DEF Ask, Close, read_answer, Runtime, handle_line, handle_reply, client, bounds, histories
<1>3. ASSUME NEW s \in Sessions, Session(s)
      PROVE  PlaceTypes'
  <2>1. CASE connect(s) \/ handshake(s)
    BY <1>0, <2>1 DEF connect, handshake, client, bounds, histories
  <2>2. CASE proxy_send(s) \/ proxy_timeout(s) \/ proxy_eof(s)
    BY <1>0, <2>2
       DEF proxy_send, proxy_timeout, proxy_eof, DaemonGone, client, bounds, histories
  <2>3. CASE wait_for_lock_release(s) \/ release_timeout(s) \/ probe_drop(s)
    BY <1>0, <2>3
       DEF wait_for_lock_release, release_timeout, probe_drop, client, bounds, histories
  <2>4. CASE open(s)
    BY <1>0, <2>4 DEF open, client, bounds, histories
  <2>5. CASE embedded(s)
    BY <1>0, <2>5 DEF embedded, client, bounds, histories
  <2>6. CASE recv(s)
    BY <1>0, <2>6 DEF recv, client, bounds, histories
  <2>7. CASE wait_for_takeover(s) \/ takeover_timeout(s) \/ borrow_timeout(s)
    BY <1>0, <2>7
       DEF wait_for_takeover, takeover_timeout, borrow_timeout, client, bounds, histories
  <2> QED BY <1>3, <2>1, <2>2, <2>3, <2>4, <2>5, <2>6, <2>7 DEF Session
<1>4. ASSUME NEW r \in Requesters, start(r) \/ Requester(r) \/ kill(r)
      PROVE  PlaceTypes'
  <2>1. CASE start(r)
    BY <1>0, <2>1 DEF start, client
  <2>2. CASE acquire(r) \/ retry(r)
    BY <1>0, <2>2 DEF acquire, retry, client, bounds, histories
  <2>3. CASE request_timeout(r) \/ clear(r) \/ finish(r)
    BY <1>0, <2>3 DEF request_timeout, clear, finish, client, bounds, histories
  <2>4. CASE kill(r)
    BY <1>0, <2>4 DEF kill, client, histories
  <2> QED BY <1>4, <2>1, <2>2, <2>3, <2>4 DEF Requester
<1>5. CASE Lifecycle \/ stop
  BY <1>0, <1>5 DEF Lifecycle, listen, stop, release, exit, client, bounds, histories
<1> QED BY <1>1, <1>2, <1>3, <1>4, <1>5 DEF Next

\* A step of a session that does not serve moves lines within the session.
LEMMA SessionMail ==
  ASSUME TypeInv, NEW s \in Sessions, Session(s), ~embedded(s), ~recv(s)
  PROVE  \E in, re, fl, wi \in Seq(1..sent[s]) :
           /\ stdin' = [stdin EXCEPT ![s] = in] /\ replay' = [replay EXCEPT ![s] = re]
           /\ inflight' = [inflight EXCEPT ![s] = fl] /\ wire' = [wire EXCEPT ![s] = wi]
           /\ UNCHANGED <<serving, answers, sent, answered>>
<1> DEFINE n == sent[s]
<1>0. /\ stdin[s] \in Seq(1..n) /\ replay[s] \in Seq(1..n)
      /\ inflight[s] \in Seq(1..n) /\ wire[s] \in Seq(1..n)
  BY MailTypes
<1>1. /\ stdin = [stdin EXCEPT ![s] = stdin[s]] /\ replay = [replay EXCEPT ![s] = replay[s]]
      /\ inflight = [inflight EXCEPT ![s] = inflight[s]] /\ wire = [wire EXCEPT ![s] = wire[s]]
  BY DEF TypeInv, TypeOK
<1>2. CASE UNCHANGED <<stdin, replay, inflight, wire, serving, answers, sent, answered>>
  BY <1>0, <1>1, <1>2
<1>3. CASE proxy_timeout(s)
  <2>1. <<>> \in Seq(1..n)
    BY <1>0, Queue
  <2> QED BY <1>0, <1>1, <1>3, <2>1 DEF proxy_timeout, DaemonGone, client
<1>4. CASE proxy_send(s)
  <2> DEFINE lines == replay[s] \o stdin[s]
             line == Head(lines)
  <2>1. lines \in Seq(1..n) /\ lines # <<>> /\ line \in 1..n
    <3>1. lines \in Seq(1..n) /\ lines # <<>>
      BY <1>0, <1>4 DEF proxy_send
    <3> HIDE DEF lines, n
    <3> QED BY <3>1, Queue
  <2>2. /\ replay[s] = <<>> => Tail(stdin[s]) \in Seq(1..n)
        /\ replay[s] # <<>> => Tail(replay[s]) \in Seq(1..n)
        /\ Append(inflight[s], line) \in Seq(1..n) /\ Append(wire[s], line) \in Seq(1..n)
        /\ <<>> \in Seq(1..n)
    <3>1. replay[s] = <<>> => stdin[s] # <<>>
      BY <1>0, <2>1
    <3> HIDE DEF lines, line, n
    <3> QED BY <1>0, <2>1, <3>1, Queue
  <2> HIDE DEF lines, line, n
  <2>3. UNCHANGED <<serving, answers, sent, answered>>
    BY <1>4 DEF proxy_send, client
  <2>4. PICK in \in Seq(1..n) : stdin' = [stdin EXCEPT ![s] = in]
    BY <1>0, <1>4, <2>2 DEF proxy_send
  <2>5. CASE Connected(s)
    <3>1. PICK re \in Seq(1..n) : replay' = [replay EXCEPT ![s] = re]
      BY <1>0, <1>4, <2>2, <2>5 DEF proxy_send, DaemonGone
    <3>2. /\ inflight' = [inflight EXCEPT ![s] = Append(inflight[s], line)]
          /\ wire' = [wire EXCEPT ![s] = Append(wire[s], line)]
      BY <1>4, <2>5 DEF proxy_send, line, lines
    <3> QED BY <2>2, <2>3, <2>4, <3>1, <3>2 DEF n
  <2>6. CASE ~Connected(s)
    <3>1. /\ replay' = [replay EXCEPT ![s] = Append(inflight[s], line)]
          /\ inflight' = [inflight EXCEPT ![s] = <<>>]
          /\ wire' = [wire EXCEPT ![s] = wire[s]]
      BY <1>1, <1>4, <2>6 DEF proxy_send, DaemonGone, line, lines
    <3> QED BY <1>0, <2>2, <2>3, <2>4, <3>1 DEF n
  <2> QED BY <2>5, <2>6
<1> QED BY <1>2, <1>3, <1>4
   DEF Session, connect, handshake, proxy_eof, wait_for_lock_release, release_timeout,
       probe_drop, open, wait_for_takeover, takeover_timeout, borrow_timeout, traffic, client

\* A response is counted where its request was made.
LEMMA Counted ==
  ASSUME TypeInv, NEW s \in Sessions, NEW id \in 1..sent[s], Answer(s, id)
  PROVE  /\ answered' \in [Sessions -> [1..MaxRequests -> Nat]]
         /\ id \in 1..MaxRequests /\ answered'[s][id] = answered[s][id] + 1
         /\ \A i \in (1..MaxRequests) \ {id} : answered'[s][i] = answered[s][i]
         /\ \A u \in Sessions \ {s} : answered'[u] = answered[u]
         /\ \A u \in Sessions, i \in 1..MaxRequests :
               i > sent[u] => answered'[u][i] = answered[u][i]
<1>1. id \in 1..MaxRequests
  BY MailTypes
<1>2. answered \in [Sessions -> [1..MaxRequests -> Nat]] /\ answered[s] \in [1..MaxRequests -> Nat]
  BY DEF TypeInv, TypeOK
<1> DEFINE row == [answered[s] EXCEPT ![id] = answered[s][id] + 1]
<1>3. row \in [1..MaxRequests -> Nat]
  BY <1>1, <1>2
<1>4. answered' = [answered EXCEPT ![s] = row]
  BY DEF Answer
<1>5. row[id] = answered[s][id] + 1
  BY <1>1, <1>2
<1>6. \A i \in (1..MaxRequests) \ {id} : row[i] = answered[s][i]
  BY <1>1, <1>2
<1> HIDE DEF row
<1>7. answered'[s] = row /\ \A u \in Sessions \ {s} : answered'[u] = answered[u]
  BY <1>2, <1>4
<1>8. \A i \in 1..MaxRequests : i > sent[s] => i # id
  BY MailTypes
<1> QED BY <1>1, <1>2, <1>3, <1>4, <1>5, <1>6, <1>7, <1>8

\* An embedded session answers the next line of the replay, or of stdin.
LEMMA EmbeddedMail ==
  ASSUME TypeInv, NEW s \in Sessions, embedded(s) \/ recv(s)
  PROVE  /\ \E in, re \in Seq(1..sent[s]) : stdin' = [stdin EXCEPT ![s] = in]
                                            /\ replay' = [replay EXCEPT ![s] = re]
         /\ UNCHANGED answered \/ \E id \in 1..sent[s] : Answer(s, id)
         /\ UNCHANGED <<inflight, wire, serving, answers, sent, conn>>
<1>0. /\ stdin[s] \in Seq(1..sent[s]) /\ replay[s] \in Seq(1..sent[s])
      /\ stdin = [stdin EXCEPT ![s] = stdin[s]] /\ replay = [replay EXCEPT ![s] = replay[s]]
  BY MailTypes DEF TypeInv, TypeOK
<1>1. /\ stdin[s] # <<>> => Head(stdin[s]) \in 1..sent[s] /\ Tail(stdin[s]) \in Seq(1..sent[s])
      /\ replay[s] # <<>> => Head(replay[s]) \in 1..sent[s] /\ Tail(replay[s]) \in Seq(1..sent[s])
  BY <1>0, Queue
<1>2. CASE embedded(s)
  BY <1>0, <1>1, <1>2 DEF embedded, client
<1>3. CASE recv(s)
  BY <1>0, <1>1, <1>3 DEF recv, client
<1> QED BY <1>2, <1>3

\* InFlight keeps only lines it had, and every one of another id.
LEMMA Retained ==
  ASSUME NEW S, NEW q \in Seq(S), NEW id
  PROVE  /\ Retain(q, id) \in Seq(S)
         /\ \A x : x # id /\ Member(x, q) => Member(x, Retain(q, id))
<1>1. CASE \E i \in 1..Len(q) : q[i] = id
  <2> DEFINE at == CHOOSE i \in 1..Len(q) : q[i] = id
             front == SubSeq(q, 1, at - 1)
             back == SubSeq(q, at + 1, Len(q))
  <2>1. at \in 1..Len(q) /\ q[at] = id
    BY <1>1
  <2>2. Retain(q, id) = front \o back
    BY <1>1 DEF Retain
  <2> HIDE DEF at
  <2>3. /\ front \in Seq(S) /\ Len(front) = at - 1 /\ \A i \in 1..at - 1 : front[i] = q[i]
        /\ back \in Seq(S) /\ Len(back) = Len(q) - at
        /\ \A i \in 1..Len(q) - at : back[i] = q[at + i]
    BY <2>1
  <2> HIDE DEF front, back
  <2>4. /\ front \o back \in Seq(S) /\ Len(front \o back) = Len(q) - 1
        /\ \A i \in 1..at - 1 : (front \o back)[i] = q[i]
        /\ \A i \in at..Len(q) - 1 : (front \o back)[i] = q[i + 1]
    <3>1. /\ front \o back \in Seq(S) /\ Len(front \o back) = Len(front) + Len(back)
          /\ \A i \in 1..Len(front) + Len(back) :
                (front \o back)[i] = IF i <= Len(front) THEN front[i] ELSE back[i - Len(front)]
      BY <2>3, ConcatProperties
    <3>2. Len(q) \in Nat
      OBVIOUS
    <3>3. Len(front) + Len(back) = Len(q) - 1
      BY <2>1, <2>3, <3>2
    <3>4. ASSUME NEW i \in 1..at - 1
          PROVE  (front \o back)[i] = q[i]
      <4>1. i \in 1..Len(front) + Len(back) /\ i <= Len(front)
        BY <2>1, <2>3, <3>2, <3>3
      <4> QED BY <2>3, <3>1, <4>1
    <3>5. ASSUME NEW i \in at..Len(q) - 1
          PROVE  (front \o back)[i] = q[i + 1]
      <4>1. /\ i \in 1..Len(front) + Len(back) /\ ~(i <= Len(front))
            /\ i - Len(front) \in 1..Len(q) - at /\ at + (i - Len(front)) = i + 1
        BY <2>1, <2>3, <3>2, <3>3
      <4>2. (front \o back)[i] = back[i - Len(front)]
        BY <3>1, <4>1
      <4>3. back[i - Len(front)] = q[at + (i - Len(front))]
        BY <2>3, <4>1
      <4> QED BY <4>1, <4>2, <4>3
    <3> QED BY <3>1, <3>3, <3>4, <3>5
  <2>5. ASSUME NEW x, x # id, Member(x, q)
        PROVE  Member(x, front \o back)
    <3>1. PICK i \in 1..Len(q) : q[i] = x
      BY <2>5 DEF Member
    <3>2. i < at \/ i > at
      BY <2>1, <2>5, <3>1
    <3>3. CASE i < at
      <4>1. i \in 1..Len(front \o back) /\ (front \o back)[i] = x
        BY <2>1, <2>4, <3>1, <3>3
      <4> QED BY <4>1 DEF Member
    <3>4. CASE i > at
      <4>1. i - 1 \in 1..Len(front \o back) /\ i - 1 \in at..Len(q) - 1 /\ (i - 1) + 1 = i
        BY <2>1, <2>4, <3>1, <3>4
      <4>2. (front \o back)[i - 1] = x
        BY <2>4, <3>1, <4>1
      <4> QED BY <4>1, <4>2 DEF Member
    <3> QED BY <3>2, <3>3, <3>4
  <2> QED BY <2>2, <2>4, <2>5
<1>2. CASE ~\E i \in 1..Len(q) : q[i] = id
  BY <1>2 DEF Retain
<1> QED BY <1>1, <1>2

\* The part of TypeOK that is about lines.
LineTypes ==
  /\ stdin \in [Sessions -> Lines] /\ replay \in [Sessions -> Lines]
  /\ inflight \in [Sessions -> Lines] /\ wire \in [Sessions -> Lines]
  /\ conn \in [Sessions -> Nat]
  /\ serving \in [Sessions -> (1..MaxRequests) \cup {NONE}]
  /\ answers \in [Sessions -> SUBSET (Nat \X (1..MaxRequests))]
  /\ answered \in [Sessions -> [1..MaxRequests -> Nat]]
  /\ sent \in [Sessions -> 0..MaxRequests]
  /\ \A s \in Sessions : Mail(s)

LEMMA TypeParts == TypeInv <=> PlaceTypes /\ LineTypes
BY DEF TypeInv, TypeOK, PlaceTypes, LineTypes

LEMMA LinesStay ==
  ASSUME TypeInv, UNCHANGED <<traffic, sent>>
  PROVE  LineTypes'
BY TypeParts DEF LineTypes, Mail, traffic

\* The response to a line that is handled.
LEMMA AnswerLines ==
  ASSUME TypeInv, NEW s \in Sessions, read_answer(s)
  PROVE  LineTypes'
<1> LineTypes /\ 1..sent[s] \subseteq 1..MaxRequests
  BY TypeParts, MailTypes
<1>1. PICK a \in answers[s] : /\ answers' = [answers EXCEPT ![s] = answers[s] \ {a}]
                              /\ Answer(s, a[2])
                              /\ inflight' = [inflight EXCEPT ![s] =
                                    IF a[1] = conn[s] THEN Retain(inflight[s], a[2]) ELSE inflight[s]]
  BY DEF read_answer
<1>2. a[2] \in 1..sent[s]
  BY MailTypes
<1>3. /\ answered' \in [Sessions -> [1..MaxRequests -> Nat]]
      /\ \A u \in Sessions, i \in 1..MaxRequests :
            i > sent[u] => answered'[u][i] = answered[u][i]
  BY <1>1, <1>2, Counted
<1>4. PICK fl \in Seq(1..sent[s]) : inflight' = [inflight EXCEPT ![s] = fl]
  <2>1. inflight[s] \in Seq(1..sent[s])
    BY MailTypes
  <2> QED BY <1>1, <2>1, Retained
<1>5. UNCHANGED <<stdin, replay, wire, serving, sent, conn>>
  BY DEF read_answer, client
<1>6. inflight' \in [Sessions -> Lines]
  <2>1. fl \in Lines
    BY SeqMonotonic DEF Lines
  <2> QED BY <1>4, <2>1 DEF LineTypes
<1>7. answers' \in [Sessions -> SUBSET (Nat \X (1..MaxRequests))]
  BY <1>1 DEF LineTypes
<1>8. ASSUME NEW u \in Sessions
      PROVE  Mail(u)'
  <2>1. inflight'[u] \in Seq(1..sent[u]) /\ answers'[u] \in SUBSET (Nat \X (1..sent[u]))
    BY SMTT(30), <1>1, <1>4 DEF LineTypes, Mail
  <2>2. \A i \in 1..MaxRequests : i > sent[u] => answered'[u][i] = 0
    BY <1>3 DEF LineTypes, Mail
  <2> QED BY <1>5, <2>1, <2>2 DEF LineTypes, Mail
<1> QED BY <1>3, <1>5, <1>6, <1>7, <1>8 DEF LineTypes

\* The tasks of the daemon take a line from the wire and put back a response.
LEMMA RuntimeLines ==
  ASSUME TypeInv, NEW s \in Sessions, Runtime(s)
  PROVE  LineTypes'
<1> LineTypes /\ 1..sent[s] \subseteq 1..MaxRequests
  BY TypeParts, MailTypes
<1>1. CASE handle_line(s)
  <2>1. wire[s] \in Seq(1..sent[s]) /\ wire[s] # <<>>
    BY <1>1 DEF handle_line, LineTypes, Mail
  <2>2. Head(wire[s]) \in 1..sent[s] /\ Tail(wire[s]) \in Seq(1..sent[s])
    BY <2>1, Queue
  <2>3. wire' \in [Sessions -> Lines]
    BY <1>1, <2>2, SeqMonotonic DEF handle_line, LineTypes, Lines
  <2>4. serving' \in [Sessions -> (1..MaxRequests) \cup {NONE}]
    BY <1>1, <2>2 DEF handle_line, LineTypes
  <2>5. ASSUME NEW u \in Sessions
        PROVE  Mail(u)'
    BY <1>1, <2>2 DEF handle_line, LineTypes, Mail, client
  <2> QED BY <1>1, <2>3, <2>4, <2>5 DEF handle_line, LineTypes, client
<1>2. CASE handle_reply(s)
  <2>1. serving[s] \in 1..sent[s] /\ conn[s] \in Nat
    BY <1>2 DEF handle_reply, LineTypes, Mail
  <2> DEFINE a == <<conn[s], serving[s]>>
  <2>2. a \in Nat \X (1..sent[s]) /\ a \in Nat \X (1..MaxRequests)
    BY <2>1
  <2>3. answers' = [answers EXCEPT ![s] = answers[s] \cup {a}]
    BY <1>2 DEF handle_reply
  <2> HIDE DEF a
  <2>4. answers' \in [Sessions -> SUBSET (Nat \X (1..MaxRequests))]
    BY <2>2, <2>3 DEF LineTypes
  <2>5. serving' \in [Sessions -> (1..MaxRequests) \cup {NONE}]
    BY <1>2 DEF handle_reply, LineTypes
  <2>6. ASSUME NEW u \in Sessions
        PROVE  Mail(u)'
    <3>1. answers'[u] \in SUBSET (Nat \X (1..sent[u]))
      BY <2>2, <2>3 DEF LineTypes, Mail
    <3> QED BY <1>2, <3>1 DEF handle_reply, LineTypes, Mail, client
  <2> QED BY <1>2, <2>4, <2>5, <2>6 DEF handle_reply, LineTypes, client
<1> QED BY <1>1, <1>2 DEF Runtime

\* A new request: the lines of the session may have its number from now on.
LEMMA AskLines ==
  ASSUME TypeInv, NEW s \in Sessions, Ask(s)
  PROVE  LineTypes'
<1> DEFINE n == sent[s]
<1>0. /\ LineTypes /\ n \in Nat /\ n + 1 \in 1..MaxRequests
      /\ 1..n \subseteq 1..(n + 1) /\ n + 1 \in 1..(n + 1) /\ 1..(n + 1) \subseteq 1..MaxRequests
  BY TypeParts, MailTypes, HandoffAssumption DEF Ask
<1>1. /\ sent' = [sent EXCEPT ![s] = n + 1]
      /\ stdin' = [stdin EXCEPT ![s] = Append(stdin[s], n + 1)]
      /\ UNCHANGED <<replay, inflight, conn, wire, serving, answers, answered>>
  BY DEF Ask
<1> HIDE DEF n
<1>2. sent' \in [Sessions -> 0..MaxRequests] /\ sent'[s] = n + 1
  BY <1>0, <1>1 DEF LineTypes
<1>3. /\ stdin[s] \in Seq(1..n) /\ replay[s] \in Seq(1..n)
      /\ inflight[s] \in Seq(1..n) /\ wire[s] \in Seq(1..n)
      /\ serving[s] \in (1..n) \cup {NONE} /\ answers[s] \in SUBSET (Nat \X (1..n))
      /\ \A id \in 1..MaxRequests : id > n => answered[s][id] = 0
  BY <1>0 DEF LineTypes, Mail, n
<1>4. /\ stdin[s] \in Seq(1..(n + 1)) /\ replay[s] \in Seq(1..(n + 1))
      /\ inflight[s] \in Seq(1..(n + 1)) /\ wire[s] \in Seq(1..(n + 1))
  BY <1>0, <1>3, SeqMonotonic
<1>5. Append(stdin[s], n + 1) \in Seq(1..(n + 1))
  BY <1>0, <1>4, Queue
<1>6. stdin' \in [Sessions -> Lines]
  BY <1>0, <1>1, <1>5, SeqMonotonic DEF LineTypes, Lines
<1>7. serving[s] \in (1..(n + 1)) \cup {NONE} /\ answers[s] \in SUBSET (Nat \X (1..(n + 1)))
  <2>1. Nat \X (1..n) \subseteq Nat \X (1..(n + 1))
    BY <1>0
  <2>2. 1..n \subseteq 1..(n + 1)
    BY <1>0
  <2>3. answers[s] \in SUBSET (Nat \X (1..n)) /\ serving[s] \in (1..n) \cup {NONE}
    BY <1>3
  <2> QED BY ONLY <2>1, <2>2, <2>3
<1>8. \A id \in 1..MaxRequests : id > n + 1 => answered[s][id] = 0
  <2>1. n \in Nat /\ MaxRequests \in Nat
    BY <1>0, HandoffAssumption
  <2>2. \A id \in 1..MaxRequests : id > n => answered[s][id] = 0
    BY <1>3
  <2> QED BY ONLY <2>1, <2>2
<1>9. Mail(s)'
  BY <1>0, <1>1, <1>2, <1>4, <1>5, <1>7, <1>8 DEF LineTypes, Mail
<1>10. ASSUME NEW u \in Sessions \ {s}
       PROVE  Mail(u)'
  BY <1>0, <1>1 DEF LineTypes, Mail
<1> QED BY <1>0, <1>1, <1>2, <1>6, <1>9, <1>10 DEF LineTypes

LEMMA LinesStep ==
  ASSUME TypeInv, [Next]_vars
  PROVE  LineTypes'
<1> LineTypes
  BY TypeParts
<1>1. CASE UNCHANGED vars
  BY <1>1, LinesStay DEF vars, client
<1>2. ASSUME NEW s \in Sessions, Session(s), ~embedded(s), ~recv(s)
      PROVE  LineTypes'
  <2>1. conn' \in [Sessions -> Nat]
    <3>1. runs[Daemon] \in Nat
      BY DEF TypeInv, TypeOK, Requesters
    <3> QED BY <1>2, <3>1
       DEF Session, connect, handshake, proxy_eof, wait_for_lock_release, release_timeout,
           probe_drop, open, wait_for_takeover, takeover_timeout, borrow_timeout, traffic,
           proxy_send, proxy_timeout, LineTypes
  <2>2. PICK in, re, fl, wi \in Seq(1..sent[s]) :
           /\ stdin' = [stdin EXCEPT ![s] = in] /\ replay' = [replay EXCEPT ![s] = re]
           /\ inflight' = [inflight EXCEPT ![s] = fl] /\ wire' = [wire EXCEPT ![s] = wi]
           /\ UNCHANGED <<serving, answers, sent, answered>>
    BY <1>2, SessionMail
  <2>3. /\ \A u \in Sessions : Mail(u)'
        /\ stdin' \in [Sessions -> Lines] /\ replay' \in [Sessions -> Lines]
        /\ inflight' \in [Sessions -> Lines] /\ wire' \in [Sessions -> Lines]
    BY <2>2, MailMoves
  <2> QED BY <2>1, <2>2, <2>3 DEF LineTypes
<1>3. ASSUME NEW s \in Sessions, embedded(s) \/ recv(s)
      PROVE  LineTypes'
  <2>1. UNCHANGED <<inflight, wire, serving, answers, sent, conn>>
    BY <1>3, EmbeddedMail
  <2>2. PICK in, re \in Seq(1..sent[s]) : /\ stdin' = [stdin EXCEPT ![s] = in]
                                          /\ replay' = [replay EXCEPT ![s] = re]
    BY <1>3, EmbeddedMail
  <2>3. /\ answered' \in [Sessions -> [1..MaxRequests -> Nat]]
        /\ \A u \in Sessions, i \in 1..MaxRequests :
              i > sent[u] => answered'[u][i] = answered[u][i]
    <3>1. CASE UNCHANGED answered
      BY <3>1 DEF LineTypes
    <3>2. ASSUME NEW id \in 1..sent[s], Answer(s, id)
          PROVE  /\ answered' \in [Sessions -> [1..MaxRequests -> Nat]]
                 /\ \A u \in Sessions, i \in 1..MaxRequests :
                       i > sent[u] => answered'[u][i] = answered[u][i]
      BY <3>2, Counted
    <3> QED BY <1>3, <3>1, <3>2, EmbeddedMail
  <2>4. stdin' \in [Sessions -> Lines] /\ replay' \in [Sessions -> Lines]
    <3>1. in \in Lines /\ re \in Lines
      BY MailTypes, SeqMonotonic DEF Lines
    <3> QED BY <2>2, <3>1 DEF LineTypes
  <2>5. ASSUME NEW u \in Sessions
        PROVE  Mail(u)'
    <3>1. stdin'[u] \in Seq(1..sent[u]) /\ replay'[u] \in Seq(1..sent[u])
      BY <2>2 DEF LineTypes, Mail
    <3> QED BY <2>1, <2>3, <3>1 DEF LineTypes, Mail
  <2> QED BY <2>1, <2>3, <2>4, <2>5 DEF LineTypes
<1>4. ASSUME NEW s \in Sessions, Close(s)
      PROVE  LineTypes'
  BY <1>4, LinesStay DEF Close
<1>5. ASSUME NEW r \in Requesters, start(r) \/ Requester(r)
      PROVE  LineTypes'
  BY <1>5, LinesStay
     DEF start, Requester, acquire, retry, request_timeout, clear, finish, client
<1>6. CASE listen \/ stop \/ release
  BY <1>6, LinesStay DEF listen, stop, release, client
<1>7. ASSUME HangUp, UNCHANGED <<stdin, replay, inflight, conn, answers, answered, sent>>
      PROVE  LineTypes'
  <2>1. \A u \in Sessions : wire'[u] = <<>> /\ serving'[u] = NONE
    BY <1>7 DEF HangUp
  <2>2. wire' \in [Sessions -> Lines]
    <3>1. <<>> \in Lines
      BY DEF Lines
    <3> QED BY <1>7, <3>1 DEF HangUp
  <2>3. serving' \in [Sessions -> (1..MaxRequests) \cup {NONE}]
    BY <1>7 DEF HangUp
  <2>4. ASSUME NEW u \in Sessions
        PROVE  Mail(u)'
    <3>1. <<>> \in Seq(1..sent[u])
      OBVIOUS
    <3> QED BY <1>7, <2>1, <3>1 DEF LineTypes, Mail
  <2> QED BY <1>7, <2>2, <2>3, <2>4 DEF LineTypes
<1>8. CASE exit
  BY <1>7, <1>8 DEF exit, client
<1>9. ASSUME NEW r \in Requesters, kill(r)
      PROVE  LineTypes'
  <2>1. CASE r = Daemon
    BY <1>7, <1>9, <2>1 DEF kill, client
  <2>2. CASE r # Daemon
    BY <1>9, <2>2, LinesStay DEF kill, client, traffic
  <2> QED BY <2>1, <2>2
<1> QED BY <1>1, <1>2, <1>3, <1>4, <1>5, <1>6, <1>8, <1>9, AskLines, AnswerLines, RuntimeLines
   DEF Next, Lifecycle

LEMMA TypeStart == Init => TypeInv
<1> SUFFICES ASSUME Init PROVE TypeInv
  OBVIOUS
<1> Daemon \in Requesters /\ <<>> \in Lines /\ 0 \in 0..MaxRequests
  BY HandoffAssumption DEF Requesters, Lines
<1>1. PlaceTypes
  BY DEF Init, PlaceTypes, Over
<1>2. LineTypes
  BY DEF Init, LineTypes, Mail
<1> QED BY <1>1, <1>2, TypeParts

\* Whatever sessions, one-shots and daemons do, the variables keep their types.
THEOREM TypeCorrect == Spec => []TypeOK
<1>1. TypeInv /\ [Next]_vars => TypeInv'
  BY PlacesStep, LinesStep DEF TypeInv, TypeOK, PlaceTypes, LineTypes
<1>2. TypeInv => TypeOK
  BY DEF TypeInv
<1> QED BY TypeStart, <1>1, <1>2, PTL DEF Spec

-----------------------------------------------------------------------------
(* VaultHandoff implements SharedVault: what its variables stand for.          *)

OwnersNow ==
  {s \in Sessions : pc[s] \in {"embedded", "recv"}}
  \cup {r \in Requesters : rpc[r] \in {"boot", "listening", "stopping"}}
PendingNow == [s \in Sessions |-> {id \in 1..sent[s] : answered[s][id] = 0}]
EndedNow == {s \in Sessions : pc[s] \in Over}

Implementing == TypeInv /\ Ownership

\* Whoever owns the core holds the lock.
LEMMA OwnerHoldsLock ==
  ASSUME Implementing
  PROVE  OwnersNow \subseteq {lock} /\ (lock = NONE => OwnersNow = {})
BY HandoffAssumption DEF Implementing, Ownership, SingleOwner, Embeds, Opened, OwnersNow

LEMMA SharedStutters ==
  ASSUME UNCHANGED <<OwnersNow, sent, PendingNow, EndedNow>>
  PROVE  UNCHANGED Shared!vars
BY DEF Shared!vars, OwnersNow, PendingNow, EndedNow

LEMMA SharedTakes ==
  ASSUME NEW p \in Sessions \cup Requesters, OwnersNow = {}, OwnersNow' = {p},
         UNCHANGED <<sent, PendingNow, EndedNow>>
  PROVE  Shared!Next
<1>1. Shared!Take(p)
  BY DEF Shared!Take, OwnersNow, PendingNow, EndedNow
<1> QED BY <1>1 DEF Shared!Next

LEMMA SharedGives ==
  ASSUME NEW p \in Sessions \cup Requesters, OwnersNow = {p}, OwnersNow' = {},
         UNCHANGED <<sent, PendingNow, EndedNow>>
  PROVE  Shared!Next
<1>1. Shared!Give(p)
  BY DEF Shared!Give, OwnersNow, PendingNow, EndedNow
<1> QED BY <1>1 DEF Shared!Next

LEMMA SharedAsks ==
  ASSUME NEW s \in Sessions, s \notin EndedNow, sent[s] < MaxRequests,
         sent' = [sent EXCEPT ![s] = @ + 1],
         PendingNow' = [PendingNow EXCEPT ![s] = @ \cup {sent[s] + 1}],
         UNCHANGED <<OwnersNow, EndedNow>>
  PROVE  Shared!Next
<1>1. Shared!Ask(s)
  BY DEF Shared!Ask, OwnersNow, PendingNow, EndedNow
<1> QED BY <1>1 DEF Shared!Next

LEMMA SharedReplies ==
  ASSUME NEW s \in Sessions, NEW id \in 1..MaxRequests,
         s \notin EndedNow, id \in PendingNow[s],
         PendingNow' = [PendingNow EXCEPT ![s] = @ \ {id}],
         UNCHANGED <<OwnersNow, sent, EndedNow>>
  PROVE  Shared!Next
<1>1. Shared!Reply(s, id)
  BY DEF Shared!Reply, OwnersNow, PendingNow, EndedNow
<1> QED BY <1>1 DEF Shared!Next

LEMMA SharedEnds ==
  ASSUME NEW s \in Sessions, s \notin EndedNow,
         EndedNow' = EndedNow \cup {s}, OwnersNow' = OwnersNow \ {s},
         UNCHANGED <<sent, PendingNow>>
  PROVE  Shared!Next
<1>1. Shared!End(s)
  BY DEF Shared!End, OwnersNow, PendingNow, EndedNow
<1> QED BY <1>1 DEF Shared!Next

\* A session that moves changes its own place among the owners and the ended.
LEMMA SessionView ==
  ASSUME Implementing, NEW s \in Sessions, NEW l, Goto(s, l), rpc' = rpc
  PROVE  /\ OwnersNow' = IF l \in {"embedded", "recv"} THEN OwnersNow \cup {s} ELSE OwnersNow \ {s}
         /\ EndedNow' = IF l \in Over THEN EndedNow \cup {s} ELSE EndedNow \ {s}
         /\ s \in OwnersNow <=> pc[s] \in {"embedded", "recv"}
         /\ s \in EndedNow <=> pc[s] \in Over
<1>1. /\ s \notin Requesters /\ pc'[s] = l
      /\ \A u \in Sessions \ {s} : pc'[u] = pc[u]
  BY HandoffAssumption, SessionMoves DEF Implementing, Ownership
<1> QED BY <1>1 DEF OwnersNow, EndedNow

LEMMA RequesterView ==
  ASSUME Implementing, NEW r \in Requesters, NEW l, Rgoto(r, l), pc' = pc
  PROVE  /\ OwnersNow' = IF l \in {"boot", "listening", "stopping"}
                         THEN OwnersNow \cup {r} ELSE OwnersNow \ {r}
         /\ EndedNow' = EndedNow
         /\ r \in OwnersNow <=> rpc[r] \in {"boot", "listening", "stopping"}
<1>1. /\ r \notin Sessions /\ rpc'[r] = l
      /\ \A q \in Requesters \ {r} : rpc'[q] = rpc[q]
  BY HandoffAssumption, RequesterMoves DEF Implementing, Ownership
<1> QED BY <1>1 DEF OwnersNow, EndedNow

LEMMA PendingStays ==
  ASSUME UNCHANGED <<sent, answered>>
  PROVE  PendingNow' = PendingNow
BY DEF PendingNow

\* A response takes its request from those that wait, if it still did.
LEMMA AnswerView ==
  ASSUME Implementing, NEW s \in Sessions, NEW id \in 1..sent[s], Answer(s, id),
         pc[s] \notin Over, UNCHANGED <<sent, OwnersNow, EndedNow>>
  PROVE  [Shared!Next]_(Shared!vars)
<1>0. /\ id \in 1..MaxRequests /\ answered'[s][id] = answered[s][id] + 1
      /\ \A i \in (1..MaxRequests) \ {id} : answered'[s][i] = answered[s][i]
      /\ \A u \in Sessions \ {s} : answered'[u] = answered[u]
      /\ answered[s][id] \in Nat /\ 1..sent[s] \subseteq 1..MaxRequests
  <2>1. TypeInv /\ answered \in [Sessions -> [1..MaxRequests -> Nat]]
    BY DEF Implementing, TypeInv, TypeOK
  <2>2. 1..sent[s] \subseteq 1..MaxRequests
    BY <2>1, MailTypes
  <2> QED BY <2>1, <2>2, Counted
<1>1. ASSUME NEW u \in Sessions \ {s}
      PROVE  PendingNow'[u] = PendingNow[u]
  BY <1>0 DEF PendingNow
<1>2. PendingNow'[s] = PendingNow[s] \ {id}
  BY <1>0 DEF PendingNow
<1>3. PendingNow' = [PendingNow EXCEPT ![s] = @ \ {id}]
  BY <1>1, <1>2 DEF PendingNow
<1>4. s \notin EndedNow
  BY DEF EndedNow
<1>5. CASE id \in PendingNow[s]
  BY <1>0, <1>3, <1>4, <1>5, SharedReplies
<1>6. CASE id \notin PendingNow[s]
  <2>1. PendingNow' = PendingNow
    BY <1>1, <1>2, <1>6 DEF PendingNow
  <2> QED BY <2>1, SharedStutters
<1> QED BY <1>5, <1>6

\* A new request waits, since nothing was answered before it was made.
LEMMA AskView ==
  ASSUME Implementing, NEW s \in Sessions, Ask(s)
  PROVE  Shared!Next
<1> DEFINE n == sent[s]
<1>1. /\ n \in Nat /\ n < MaxRequests /\ n + 1 \in 1..MaxRequests
      /\ sent' = [sent EXCEPT ![s] = n + 1] /\ sent'[s] = n + 1
      /\ \A u \in Sessions \ {s} : sent'[u] = sent[u]
      /\ UNCHANGED <<pc, rpc, answered>>
  BY MailTypes, HandoffAssumption DEF Ask, Implementing, TypeInv, TypeOK
<1>2. answered[s][n + 1] = 0
  BY <1>1 DEF Implementing, TypeInv, Mail
<1>3. ASSUME NEW u \in Sessions \ {s}
      PROVE  PendingNow'[u] = PendingNow[u]
  BY <1>1 DEF PendingNow
<1>4. PendingNow'[s] = PendingNow[s] \cup {n + 1}
  <2>1. 1..(n + 1) = (1..n) \cup {n + 1}
    BY <1>1
  <2> QED BY <1>1, <1>2, <2>1 DEF PendingNow
<1>5. PendingNow' = [PendingNow EXCEPT ![s] = @ \cup {n + 1}]
  BY <1>3, <1>4 DEF PendingNow
<1>6. UNCHANGED <<OwnersNow, EndedNow>> /\ s \notin EndedNow
  BY <1>1 DEF Ask, OwnersNow, EndedNow
<1> QED BY <1>1, <1>5, <1>6, SharedAsks

LEMMA SessionImplements ==
  ASSUME Implementing, NEW s \in Sessions, Session(s)
  PROVE  [Shared!Next]_(Shared!vars)
<1> USE DEF Over
<1>0. pc[s] \in {"embedded", "recv"} => OwnersNow = {s}
  BY OwnerHoldsLock DEF OwnersNow, Implementing, Ownership, SingleOwner, Embeds
<1>1. ASSUME NEW l, Goto(s, l), rpc' = rpc, UNCHANGED <<sent, answered>>,
             pc[s] \notin {"embedded", "recv"} \cup Over,
             l \notin {"embedded", "recv"}
      PROVE  [Shared!Next]_(Shared!vars)
  <2>1. OwnersNow' = OwnersNow \ {s} /\ OwnersNow' = OwnersNow /\ s \notin EndedNow
    BY <1>1, SessionView
  <2>2. CASE l \in Over
    BY <1>1, <2>1, <2>2, SessionView, SharedEnds, PendingStays
  <2>3. CASE l \notin Over
    BY <1>1, <2>1, <2>3, SessionView, SharedStutters, PendingStays
  <2> QED BY <2>2, <2>3
<1>2. CASE connect(s) \/ handshake(s)
  BY <1>1, <1>2 DEF connect, handshake, traffic, client
<1>3. CASE proxy_send(s)
  <2>1. pc[s] = "proxy" /\ UNCHANGED <<rpc, sent, answered>>
    BY <1>3 DEF proxy_send, client
  <2>2. CASE pc' = pc
    BY <2>1, <2>2, SharedStutters, PendingStays DEF OwnersNow, EndedNow
  <2>3. CASE Goto(s, "wait_release")
    BY <1>1, <2>1, <2>3
  <2> QED BY <1>3, <2>2, <2>3 DEF proxy_send, DaemonGone
<1>4. CASE proxy_timeout(s) \/ proxy_eof(s)
  BY <1>1, <1>4 DEF proxy_timeout, proxy_eof, DaemonGone, traffic, client
<1>5. CASE wait_for_lock_release(s) \/ release_timeout(s) \/ probe_drop(s)
  BY <1>1, <1>5 DEF wait_for_lock_release, release_timeout, probe_drop, traffic, client
<1>6. CASE open(s)
  <2>1. pc[s] = "open" /\ UNCHANGED <<rpc, sent, answered>>
    BY <1>6 DEF open, traffic, client
  <2>2. CASE lock = NONE /\ Goto(s, "embedded")
    <3>1. OwnersNow = {} /\ OwnersNow' = {s} /\ EndedNow' = EndedNow
      BY <2>1, <2>2, OwnerHoldsLock, SessionView
    <3> QED BY <2>1, <3>1, SharedTakes, PendingStays
  <2>3. CASE Goto(s, "locked")
    BY <1>1, <2>1, <2>3
  <2> QED BY <1>6, <2>2, <2>3 DEF open
<1>7. CASE embedded(s)
  <2>1. pc[s] = "embedded" /\ UNCHANGED <<rpc, sent>> /\ OwnersNow = {s} /\ s \notin EndedNow
    BY <1>0, <1>7 DEF embedded, client, EndedNow
  <2>2. CASE replay[s] # <<>>
    <3>1. UNCHANGED <<OwnersNow, EndedNow>>
      BY <1>7, <2>2 DEF embedded, OwnersNow, EndedNow
    <3>2. Answer(s, Head(replay[s])) /\ Head(replay[s]) \in 1..sent[s]
      <4>1. replay[s] \in Seq(1..sent[s])
        BY MailTypes DEF Implementing
      <4>2. Answer(s, Head(replay[s]))
        BY <1>7, <2>2 DEF embedded
      <4> QED BY <2>2, <4>1, <4>2, Queue
    <3> QED BY <2>1, <3>1, <3>2, AnswerView
  <2>3. CASE replay[s] = <<>> /\ request # NONE
    <3>1. OwnersNow' = {} /\ EndedNow' = EndedNow
      <4>1. Goto(s, "takeover")
        BY <1>7, <2>3 DEF embedded
      <4>2. OwnersNow' = OwnersNow \ {s} /\ EndedNow' = EndedNow \ {s}
        BY <2>1, <4>1, SessionView
      <4> QED BY <2>1, <4>2
    <3>2. answered' = answered
      BY <1>7, <2>3 DEF embedded
    <3> QED BY <2>1, <3>1, <3>2, SharedGives, PendingStays
  <2>4. CASE replay[s] = <<>> /\ request = NONE
    <3>1. OwnersNow' = OwnersNow /\ EndedNow' = EndedNow
      BY <1>7, <2>1, <2>4, SessionView DEF embedded
    <3>2. answered' = answered
      BY <1>7, <2>4 DEF embedded
    <3> QED BY <2>1, <3>1, <3>2, SharedStutters, PendingStays
  <2> QED BY <2>2, <2>3, <2>4
<1>8. CASE recv(s)
  <2>1. pc[s] = "recv" /\ UNCHANGED <<rpc, sent>> /\ OwnersNow = {s} /\ s \notin EndedNow
    BY <1>0, <1>8 DEF recv, client, EndedNow
  <2>2. CASE stdin[s] # <<>>
    <3>1. UNCHANGED <<OwnersNow, EndedNow>>
      BY <1>8, <2>1, <2>2, SessionView DEF recv
    <3>2. Answer(s, Head(stdin[s])) /\ Head(stdin[s]) \in 1..sent[s]
      <4>1. stdin[s] \in Seq(1..sent[s])
        BY MailTypes DEF Implementing
      <4>2. Answer(s, Head(stdin[s]))
        BY <1>8, <2>2 DEF recv
      <4> QED BY <2>2, <4>1, <4>2, Queue
    <3> QED BY <2>1, <3>1, <3>2, AnswerView
  <2>3. CASE stdin[s] = <<>> /\ s \notin closed
    <3>1. OwnersNow' = OwnersNow /\ EndedNow' = EndedNow
      BY <1>8, <2>1, <2>3, SessionView DEF recv
    <3>2. answered' = answered
      BY <1>8, <2>3 DEF recv
    <3> QED BY <2>1, <3>1, <3>2, SharedStutters, PendingStays
  <2>4. CASE stdin[s] = <<>> /\ s \in closed
    <3>1. OwnersNow' = OwnersNow \ {s} /\ EndedNow' = EndedNow \cup {s}
      BY <1>8, <2>1, <2>4, SessionView DEF recv
    <3>2. answered' = answered
      BY <1>8, <2>4 DEF recv
    <3> QED BY <2>1, <3>1, <3>2, SharedEnds, PendingStays
  <2> QED BY <2>2, <2>3, <2>4
<1>9. CASE wait_for_takeover(s) \/ takeover_timeout(s) \/ borrow_timeout(s)
  BY <1>1, <1>9 DEF wait_for_takeover, takeover_timeout, borrow_timeout, traffic, client
<1> QED BY <1>2, <1>3, <1>4, <1>5, <1>6, <1>7, <1>8, <1>9 DEF Session

LEMMA RequesterImplements ==
  ASSUME Implementing, NEW r \in Requesters,
         start(r) \/ Requester(r) \/ kill(r) \/ (r = Daemon /\ (Lifecycle \/ stop))
  PROVE  [Shared!Next]_(Shared!vars)
<1> DEFINE Owning == {"boot", "listening", "stopping"}
<1>0. UNCHANGED <<pc, sent, answered>> /\ PendingNow' = PendingNow
  <2>1. UNCHANGED <<pc, sent, answered>>
    BY DEF start, Requester, acquire, retry, request_timeout, clear, finish, kill,
           Lifecycle, listen, release, exit, stop, traffic, client
  <2> QED BY <2>1, PendingStays
<1>1. ASSUME NEW l, Rgoto(r, l), rpc[r] \in Owning <=> l \in Owning
      PROVE  [Shared!Next]_(Shared!vars)
  BY <1>0, <1>1, RequesterView, SharedStutters
<1>2. ASSUME NEW l, Rgoto(r, l), OwnersNow = {}, l \in Owning
      PROVE  [Shared!Next]_(Shared!vars)
  BY <1>0, <1>2, RequesterView, SharedTakes
<1>3. ASSUME NEW l, Rgoto(r, l), rpc[r] \in Owning, l \notin Owning
      PROVE  [Shared!Next]_(Shared!vars)
  <2>1. OwnersNow = {r}
    BY <1>3, RequesterView, OwnerHoldsLock
       DEF OwnersNow, Implementing, Ownership, SingleOwner, Opened
  <2> QED BY <1>0, <1>3, <2>1, RequesterView, SharedGives
<1>4. CASE start(r)
  BY <1>1, <1>4 DEF start
<1>5. CASE acquire(r)
  <2>1. CASE lock = NONE
    BY <1>2, <1>5, <2>1, OwnerHoldsLock DEF acquire
  <2>2. CASE lock # NONE
    BY <1>1, <1>5, <2>2 DEF acquire
  <2> QED BY <2>1, <2>2
<1>6. CASE retry(r) \/ request_timeout(r)
  BY <1>1, <1>6 DEF retry, request_timeout
<1>7. CASE clear(r)
  <2>1. OwnersNow = {}
    <3>1. OwnersNow \subseteq {r} /\ r \notin OwnersNow
      BY <1>7, OwnerHoldsLock, RequesterView
         DEF clear, Implementing, Ownership, SingleOwner, Opened
    <3> QED BY <3>1
  <2> QED BY <1>2, <1>7, <2>1 DEF clear
<1>8. CASE finish(r)
  BY <1>3, <1>8 DEF finish
<1>9. CASE kill(r)
  <2>1. CASE rpc[r] \in Owning
    BY <1>3, <1>9, <2>1 DEF kill
  <2>2. CASE rpc[r] \notin Owning
    BY <1>1, <1>9, <2>2 DEF kill
  <2> QED BY <2>1, <2>2
<1>10. CASE r = Daemon /\ (listen \/ stop)
  BY <1>1, <1>10 DEF listen, stop, Listening
<1>11. CASE r = Daemon /\ (release \/ exit)
  BY <1>1, <1>3, <1>11 DEF release, exit
<1> QED BY <1>4, <1>5, <1>6, <1>7, <1>8, <1>9, <1>10, <1>11 DEF Requester, Lifecycle

\* Every step is a step of SharedVault or leaves its variables alone.
LEMMA StepImplements ==
  ASSUME Implementing, [Next]_vars
  PROVE  [Shared!Next]_(Shared!vars)
<1>1. CASE UNCHANGED <<pc, rpc, sent, answered>>
  BY <1>1, SharedStutters, PendingStays DEF OwnersNow, EndedNow
<1>2. CASE UNCHANGED vars
  BY <1>1, <1>2 DEF vars, traffic, client
<1>3. ASSUME NEW s \in Sessions, Close(s) \/ Runtime(s)
      PROVE  [Shared!Next]_(Shared!vars)
  BY <1>1, <1>3 DEF Close, Runtime, handle_line, handle_reply, traffic, client
<1>4. ASSUME NEW s \in Sessions, read_answer(s)
      PROVE  [Shared!Next]_(Shared!vars)
  <2>1. PICK a \in answers[s] : Answer(s, a[2])
    BY <1>4 DEF read_answer
  <2>2. a[2] \in 1..sent[s]
    BY MailTypes DEF Implementing
  <2>3. pc[s] \notin Over /\ UNCHANGED <<sent, OwnersNow, EndedNow>>
    BY <1>4 DEF read_answer, client, OwnersNow, EndedNow
  <2> QED BY <2>1, <2>2, <2>3, AnswerView
<1>5. ASSUME NEW r \in Requesters, start(r) \/ Requester(r) \/ kill(r)
      PROVE  [Shared!Next]_(Shared!vars)
  BY <1>5, RequesterImplements
<1>6. CASE Lifecycle \/ stop
  BY <1>6, RequesterImplements DEF Requesters
<1> QED BY <1>2, <1>3, <1>4, <1>5, <1>6, AskView, SessionImplements DEF Next

\* The processes that share a vault do what SharedVault promises, step by step: one
\* owner at a time, and a request leaves those that wait by being answered only.
THEOREM ImplementsShared == Spec => Shared!Spec
<1>1. Init => Implementing /\ Shared!Init
  <2> SUFFICES ASSUME Init PROVE Implementing /\ Shared!Init
    OBVIOUS
  <2>1. TypeInv
    BY TypeStart
  <2>2. Ownership
    BY DEF Init, Ownership, PlacesOK, SingleOwner, Embeds, Opened
  <2>3. OwnersNow = {} /\ EndedNow = {} /\ sent = [s \in Sessions |-> 0]
    BY DEF Init, OwnersNow, EndedNow, Over
  <2>4. PendingNow = [s \in Sessions |-> {}]
    BY DEF Init, PendingNow
  <2> QED BY <2>1, <2>2, <2>3, <2>4
     DEF Implementing, Shared!Init, OwnersNow, EndedNow, PendingNow
<1>2. Implementing /\ [Next]_vars => Implementing'
  BY PlacesStep, LinesStep, OwnershipStep
     DEF Implementing, TypeInv, TypeOK, PlaceTypes, LineTypes
<1>3. Implementing /\ [Next]_vars => [Shared!Next]_(Shared!vars)
  BY StepImplements
<1> QED BY <1>1, <1>2, <1>3, PTL DEF Spec, Shared!Spec

-----------------------------------------------------------------------------
(* NothingLost, while the daemon has run once: a later run could go away while *)
(* a session replays what the first one did not answer.                        *)

Held(s, id) ==
  \/ Member(id, stdin[s]) \/ Member(id, replay[s]) \/ Member(id, inflight[s])
  \/ answered[s][id] > 0
  \/ \E a \in answers[s] : a[2] = id

\* The connection a session uses is to the only run; lines wait for a replay after
\* that run, when no session will be connected again.
OneRun ==
  /\ runs[Daemon] \in {0, 1} /\ (rpc[Daemon] # "off" => runs[Daemon] = 1)
  /\ \A s \in Sessions :
       /\ pc[s] \in {"handshake", "proxy"} \/ replay[s] # <<>> =>
            /\ runs[Daemon] = 1
            /\ rpc[Daemon] \in {"listening", "stopping", "released", "off"}
       /\ pc[s] \in {"handshake", "proxy"} => conn[s] = runs[Daemon] /\ replay[s] = <<>>
       /\ replay[s] # <<>> => rpc[Daemon] = "off"

AllHeld == \A s \in Sessions : pc[s] \notin Over => \A id \in 1..sent[s] : Held(s, id)

LossInv == TypeInv /\ OneRun /\ AllHeld

LEMMA MemberOfAppend ==
  ASSUME NEW S, NEW q \in Seq(S), NEW y
  PROVE  /\ Member(y, Append(q, y))
         /\ \A x : Member(x, q) => Member(x, Append(q, y))
<1>1. /\ Len(Append(q, y)) = Len(q) + 1 /\ Append(q, y)[Len(q) + 1] = y /\ Len(q) \in Nat
      /\ \A i \in 1..Len(q) : Append(q, y)[i] = q[i]
  OBVIOUS
<1>2. Len(q) + 1 \in 1..Len(q) + 1 /\ \A i \in 1..Len(q) : i \in 1..Len(q) + 1
  BY <1>1
<1> QED BY <1>1, <1>2 DEF Member

LEMMA MemberOfTail ==
  ASSUME NEW S, NEW q \in Seq(S), NEW x, Member(x, q)
  PROVE  q # <<>> /\ (x = Head(q) \/ Member(x, Tail(q)))
<1>1. PICK i \in 1..Len(q) : q[i] = x
  BY DEF Member
<1>2. q # <<>>
  BY <1>1
<1>3. CASE i = 1
  BY <1>1, <1>2, <1>3
<1>4. CASE i # 1
  <2>1. /\ Tail(q) \in Seq(S) /\ Len(Tail(q)) = Len(q) - 1
        /\ \A j \in 1..Len(q) - 1 : Tail(q)[j] = q[j + 1]
    BY <1>2, HeadTailProperties
  <2>2. i - 1 \in 1..Len(q) - 1 /\ (i - 1) + 1 = i
    BY <1>1, <1>4
  <2>3. Tail(q)[i - 1] = x
    BY <1>1, <2>1, <2>2
  <2> QED BY <1>2, <2>1, <2>2, <2>3 DEF Member
<1> QED BY <1>3, <1>4

LEMMA MemberOfConcat ==
  ASSUME NEW S, NEW q \in Seq(S), NEW p \in Seq(S), NEW x, Member(x, q) \/ Member(x, p)
  PROVE  Member(x, q \o p)
<1>1. /\ Len(q \o p) = Len(q) + Len(p) /\ Len(q) \in Nat /\ Len(p) \in Nat
      /\ \A i \in 1..Len(q) + Len(p) : (q \o p)[i] = IF i <= Len(q) THEN q[i] ELSE p[i - Len(q)]
  BY ConcatProperties
<1>2. ASSUME NEW i \in 1..Len(q), q[i] = x
      PROVE  Member(x, q \o p)
  <2>1. i \in 1..Len(q \o p) /\ (q \o p)[i] = x
    BY <1>1, <1>2
  <2> QED BY <2>1 DEF Member
<1>3. ASSUME NEW i \in 1..Len(p), p[i] = x
      PROVE  Member(x, q \o p)
  <2> DEFINE k == Len(q) + i
  <2>1. k \in 1..Len(q) + Len(p) /\ ~(k <= Len(q)) /\ k - Len(q) = i
    BY <1>1
  <2>2. (q \o p)[k] = x
    BY <1>1, <1>3, <2>1
  <2> HIDE DEF k
  <2> QED BY <1>1, <2>1, <2>2 DEF Member
<1> QED BY <1>2, <1>3 DEF Member

\* What a step keeps of each line of a session it keeps of all of them.
LEMMA HeldStays ==
  ASSUME LossInv, NEW s \in Sessions,
         \A u \in Sessions \ {s} :
            UNCHANGED <<pc[u], sent[u], stdin[u], replay[u], inflight[u], answered[u]>>
            /\ answers[u] \subseteq answers'[u],
         sent'[s] = sent[s], pc'[s] \notin Over => pc[s] \notin Over,
         \A id \in 1..sent[s] : pc[s] \notin Over /\ Held(s, id) => Held(s, id)'
  PROVE  AllHeld'
<1>1. ASSUME NEW u \in Sessions \ {s}, pc'[u] \notin Over, NEW id \in 1..sent'[u]
      PROVE  Held(u, id)'
  <2>1. Held(u, id)
    BY <1>1 DEF LossInv, AllHeld
  <2> QED BY <1>1, <2>1 DEF Held
<1>2. ASSUME pc'[s] \notin Over, NEW id \in 1..sent'[s]
      PROVE  Held(s, id)'
  BY <1>2 DEF LossInv, AllHeld
<1> QED BY <1>1, <1>2 DEF AllHeld

\* A session's step that leaves its lines alone.
LEMMA HeldIdle ==
  ASSUME LossInv, NEW s \in Sessions, NEW l, Goto(s, l), pc[s] \notin Over,
         UNCHANGED <<stdin, replay, inflight, answers, answered, sent>>
  PROVE  AllHeld'
<1>1. /\ \A u \in Sessions \ {s} : pc'[u] = pc[u]
  BY DEF Goto, LossInv, TypeInv, TypeOK
<1> QED BY <1>1, HeldStays DEF Held

\* A session that answers: the line is counted when it leaves its queue.
LEMMA HeldAnswered ==
  ASSUME LossInv, NEW s \in Sessions, embedded(s) \/ recv(s)
  PROVE  AllHeld'
<1> DEFINE n == sent[s]
<1>1. /\ TypeInv /\ \A u \in Sessions \ {s} : pc'[u] = pc[u]
      /\ stdin[s] \in Seq(1..n) /\ replay[s] \in Seq(1..n)
      /\ UNCHANGED <<sent, inflight, answers>> /\ pc[s] \notin Over
  BY MailTypes DEF embedded, recv, Goto, LossInv, TypeInv, TypeOK, client, Over
<1>2. ASSUME NEW id \in 1..n, Answer(s, id),
             \A x \in (1..n) \ {id} : Member(x, stdin[s]) \/ Member(x, replay[s])
                => Member(x, stdin'[s]) \/ Member(x, replay'[s]),
             \A u \in Sessions \ {s} : UNCHANGED <<stdin[u], replay[u]>>
      PROVE  AllHeld'
  <2>1. /\ answered'[s][id] > 0 /\ \A u \in Sessions \ {s} : answered'[u] = answered[u]
        /\ \A x \in (1..n) \ {id} : answered'[s][x] = answered[s][x]
    <3>1. answered[s][id] \in Nat /\ 1..n \subseteq 1..MaxRequests
      BY ZenonT(30), <1>1, MailTypes DEF TypeInv, TypeOK
    <3> QED BY SMTT(30), <1>1, <1>2, <3>1, Counted
  <2>2. \A x \in 1..n : Held(s, x) => Held(s, x)'
    BY <1>1, <1>2, <2>1 DEF Held
  <2> HIDE DEF n
  <2> QED BY <1>1, <1>2, <2>1, <2>2, HeldStays DEF n
<1>3. CASE embedded(s)
  <2>1. CASE replay[s] # <<>>
    <3>1. Head(replay[s]) \in 1..n
      BY <1>1, <2>1, Queue
    <3>2. replay'[s] = Tail(replay[s]) /\ Answer(s, Head(replay[s])) /\ stdin' = stdin
      BY <1>1, <1>3, <2>1 DEF embedded, TypeInv, TypeOK
    <3>3. \A u \in Sessions \ {s} : UNCHANGED <<stdin[u], replay[u]>>
      BY <1>1, <1>3, <2>1 DEF embedded, TypeInv, TypeOK
    <3>4. \A x \in (1..n) \ {Head(replay[s])} :
             Member(x, replay[s]) => Member(x, replay'[s])
      BY <1>1, <3>2, MemberOfTail
    <3> HIDE DEF n
    <3> QED BY <1>2, <3>1, <3>2, <3>3, <3>4
  <2>2. CASE replay[s] = <<>>
    <3>1. UNCHANGED <<stdin, replay, answered>> /\ \E l : Goto(s, l)
      BY <1>3, <2>2 DEF embedded
    <3> QED BY <1>1, <3>1, HeldIdle
  <2> QED BY <2>1, <2>2
<1>4. CASE recv(s)
  <2>1. CASE stdin[s] # <<>>
    <3>1. Head(stdin[s]) \in 1..n
      BY <1>1, <2>1, Queue
    <3>2. stdin'[s] = Tail(stdin[s]) /\ Answer(s, Head(stdin[s])) /\ replay' = replay
      BY <1>1, <1>4, <2>1 DEF recv, TypeInv, TypeOK
    <3>3. \A u \in Sessions \ {s} : UNCHANGED <<stdin[u], replay[u]>>
      BY <1>1, <1>4, <2>1 DEF recv, TypeInv, TypeOK
    <3>4. \A x \in (1..n) \ {Head(stdin[s])} :
             Member(x, stdin[s]) => Member(x, stdin'[s])
      BY <1>1, <3>2, MemberOfTail
    <3> HIDE DEF n
    <3> QED BY <1>2, <3>1, <3>2, <3>3, <3>4
  <2>2. CASE stdin[s] = <<>>
    <3>1. UNCHANGED <<stdin, replay, answered>> /\ \E l : Goto(s, l)
      BY <1>4, <2>2 DEF recv
    <3> QED BY <1>1, <3>1, HeldIdle
  <2> QED BY <2>1, <2>2
<1> QED BY <1>3, <1>4

\* A proxy that sends: the line is in flight when it leaves its queue.  The replay
\* is empty, as no earlier run of the daemon left one.
LEMMA HeldSent ==
  ASSUME LossInv, NEW s \in Sessions, proxy_send(s) \/ proxy_timeout(s)
  PROVE  AllHeld'
<1> DEFINE n == sent[s]
<1>1. /\ TypeInv /\ \A u \in Sessions \ {s} : pc'[u] = pc[u]
      /\ stdin[s] \in Seq(1..n) /\ inflight[s] \in Seq(1..n) /\ replay[s] = <<>>
      /\ UNCHANGED <<sent, answers, answered>> /\ pc[s] \notin Over
  BY MailTypes
     DEF proxy_send, proxy_timeout, DaemonGone, Goto, LossInv, OneRun, TypeInv, TypeOK,
         client, Over
<1>2. \A u \in Sessions \ {s} : UNCHANGED <<stdin[u], replay[u], inflight[u]>>
  BY DEF proxy_send, proxy_timeout, DaemonGone, LossInv, TypeInv, TypeOK
<1>3. ASSUME \A x \in 1..n : Member(x, stdin[s]) \/ Member(x, inflight[s])
                => Member(x, stdin'[s]) \/ Member(x, replay'[s]) \/ Member(x, inflight'[s])
      PROVE  AllHeld'
  <2>1. \A x \in 1..n : Held(s, x) => Held(s, x)'
    BY <1>1, <1>3 DEF Held, Member
  <2> HIDE DEF n
  <2> QED BY <1>1, <1>2, <2>1, HeldStays DEF n
<1>4. CASE proxy_timeout(s)
  <2>1. replay'[s] = inflight[s] /\ stdin' = stdin
    BY <1>4 DEF proxy_timeout, DaemonGone, LossInv, TypeInv, TypeOK
  <2> QED BY <1>3, <2>1
<1>5. CASE proxy_send(s)
  <2> DEFINE line == Head(stdin[s])
  <2>1. replay[s] \o stdin[s] = stdin[s]
    BY <1>1
  <2>2. stdin[s] # <<>> /\ stdin'[s] = Tail(stdin[s])
    BY <1>1, <1>5, <2>1 DEF proxy_send, TypeInv, TypeOK
  <2>3. \/ replay'[s] = Append(inflight[s], line)
        \/ inflight'[s] = Append(inflight[s], line)
    BY <1>1, <1>5, <2>1 DEF proxy_send, DaemonGone, TypeInv, TypeOK
  <2>4. ASSUME NEW x \in 1..n, Member(x, stdin[s]) \/ Member(x, inflight[s])
        PROVE  Member(x, stdin'[s]) \/ Member(x, replay'[s]) \/ Member(x, inflight'[s])
    <3>1. CASE Member(x, stdin[s])
      <4>1. x = line \/ Member(x, stdin'[s])
        BY <1>1, <2>2, <3>1, MemberOfTail
      <4>2. Member(line, Append(inflight[s], line))
        BY <1>1, MemberOfAppend
      <4> HIDE DEF line
      <4> QED BY <2>3, <4>1, <4>2
    <3>2. CASE Member(x, inflight[s])
      <4>1. Member(x, Append(inflight[s], line))
        BY <1>1, <3>2, MemberOfAppend
      <4> HIDE DEF line
      <4> QED BY <2>3, <4>1
    <3> QED BY <2>4, <3>1, <3>2
  <2> QED BY <1>3, <2>4
<1> QED BY <1>4, <1>5

\* A response that is read is counted; the other lines in flight stay.
LEMMA HeldRead ==
  ASSUME LossInv, NEW s \in Sessions, read_answer(s)
  PROVE  AllHeld'
<1> DEFINE n == sent[s]
<1>1. /\ TypeInv /\ pc' = pc
      /\ inflight[s] \in Seq(1..n) /\ UNCHANGED <<sent, stdin, replay>>
  BY MailTypes DEF read_answer, LossInv, client
<1>2. PICK a \in answers[s] : /\ answers' = [answers EXCEPT ![s] = answers[s] \ {a}]
                              /\ Answer(s, a[2])
                              /\ inflight' = [inflight EXCEPT ![s] =
                                    IF a[1] = conn[s] THEN Retain(inflight[s], a[2]) ELSE inflight[s]]
  BY DEF read_answer
<1>3. a[2] \in 1..n
  BY <1>1, MailTypes
<1>4. /\ answered'[s][a[2]] > 0 /\ \A u \in Sessions \ {s} : answered'[u] = answered[u]
      /\ \A x \in (1..n) \ {a[2]} : answered'[s][x] = answered[s][x]
  <2>1. answered[s][a[2]] \in Nat /\ 1..n \subseteq 1..MaxRequests
    BY <1>1, <1>3, MailTypes DEF TypeInv, TypeOK
  <2>2. TypeInv /\ Answer(s, a[2])
    BY <1>1, <1>2
  <2>3. answered'[s][a[2]] = answered[s][a[2]] + 1
    BY <1>3, <2>2, Counted
  <2>4. /\ \A u \in Sessions \ {s} : answered'[u] = answered[u]
        /\ \A x \in (1..MaxRequests) \ {a[2]} : answered'[s][x] = answered[s][x]
    BY <1>3, <2>2, Counted
  <2> QED BY <2>1, <2>3, <2>4
<1>5. \A x \in (1..n) \ {a[2]} : Member(x, inflight[s]) => Member(x, inflight'[s])
  <2>1. inflight'[s] \in {inflight[s], Retain(inflight[s], a[2])}
    BY <1>1, <1>2 DEF TypeInv, TypeOK
  <2> QED BY <1>1, <2>1, Retained
<1>6. answers'[s] = answers[s] \ {a}
  BY <1>1, <1>2 DEF TypeInv, TypeOK
<1>7. \A u \in Sessions \ {s} : UNCHANGED <<inflight[u], answers[u]>>
  BY <1>1, <1>2 DEF TypeInv, TypeOK
<1>8. \A x \in 1..n : Held(s, x) => Held(s, x)'
  BY <1>1, <1>4, <1>5, <1>6 DEF Held
<1> HIDE DEF n
<1> QED BY <1>1, <1>4, <1>7, <1>8, HeldStays DEF n

\* A new request waits on stdin.
LEMMA HeldAsked ==
  ASSUME LossInv, NEW s \in Sessions, Ask(s)
  PROVE  AllHeld'
<1>1. /\ sent[s] \in Nat /\ sent'[s] = sent[s] + 1
      /\ \A u \in Sessions \ {s} : sent'[u] = sent[u] /\ stdin'[u] = stdin[u]
      /\ stdin[s] \in Seq(1..sent[s]) /\ stdin'[s] = Append(stdin[s], sent[s] + 1)
      /\ UNCHANGED <<pc, replay, inflight, answers, answered>>
  BY MailTypes DEF Ask, LossInv, TypeInv, TypeOK
<1>2. ASSUME NEW u \in Sessions, pc'[u] \notin Over, NEW id \in 1..sent'[u]
      PROVE  Held(u, id)'
  <2>1. CASE u # s
    <3>1. Held(u, id)
      BY <1>1, <1>2, <2>1 DEF LossInv, AllHeld
    <3> QED BY <1>1, <2>1, <3>1 DEF Held
  <2>2. CASE u = s /\ id = sent[s] + 1
    <3>1. Member(sent[s] + 1, Append(stdin[s], sent[s] + 1))
      BY <1>1, MemberOfAppend
    <3>2. Member(sent[s] + 1, stdin'[s])
      BY <1>1, <3>1
    <3> QED BY <2>2, <3>2 DEF Held
  <2>3. CASE u = s /\ id # sent[s] + 1
    <3>1. id \in 1..sent[s]
      BY <1>1, <1>2, <2>3
    <3>2. Held(s, id)
      BY <1>1, <1>2, <2>3, <3>1 DEF LossInv, AllHeld
    <3>3. Member(id, stdin[s]) => Member(id, stdin'[s])
      BY <1>1, MemberOfAppend
    <3>4. UNCHANGED <<replay, inflight, answers, answered>>
      BY <1>1
    <3> QED BY <2>3, <3>2, <3>3, <3>4 DEF Held
  <2> QED BY <2>1, <2>2, <2>3
<1> QED BY <1>2 DEF AllHeld

LEMMA HeldStep ==
  ASSUME LossInv, [Next]_vars
  PROVE  AllHeld'
<1>1. ASSUME UNCHANGED <<pc, stdin, replay, inflight, answered, sent>>,
             \A u \in Sessions : answers[u] \subseteq answers'[u]
      PROVE  AllHeld'
  BY <1>1 DEF LossInv, AllHeld, Held
<1>2. CASE UNCHANGED vars
  <2>1. UNCHANGED <<pc, stdin, replay, inflight, answers, answered, sent>>
    BY <1>2 DEF vars, traffic, client
  <2>2. \A u \in Sessions : answers[u] \subseteq answers'[u]
    BY <2>1
  <2> QED BY <1>1, <2>1, <2>2
<1>3. ASSUME NEW s \in Sessions, Close(s) \/ Runtime(s)
      PROVE  AllHeld'
  <2>1. UNCHANGED <<pc, stdin, replay, inflight, answered, sent>>
    BY <1>3 DEF Close, Runtime, handle_line, handle_reply, traffic, client
  <2>2. \A u \in Sessions : answers[u] \subseteq answers'[u]
    <3>1. CASE handle_reply(s)
      BY <3>1 DEF handle_reply, LossInv, TypeInv, TypeOK
    <3>2. CASE Close(s) \/ handle_line(s)
      <4>1. answers' = answers
        BY <3>2 DEF Close, handle_line, traffic
      <4> QED BY <4>1
    <3> QED BY <1>3, <3>1, <3>2 DEF Runtime
  <2> QED BY <1>1, <2>1, <2>2
<1>4. ASSUME NEW r \in Requesters, start(r) \/ Requester(r) \/ kill(r)
      PROVE  AllHeld'
  BY <1>1, <1>4
     DEF start, Requester, acquire, retry, request_timeout, clear, finish, kill, traffic, client
<1>5. CASE Lifecycle \/ stop
  BY <1>1, <1>5 DEF Lifecycle, listen, release, exit, stop, traffic, client
<1>6. ASSUME NEW s \in Sessions, Session(s), ~embedded(s), ~recv(s),
             ~proxy_send(s), ~proxy_timeout(s)
      PROVE  AllHeld'
  <2>1. UNCHANGED <<stdin, replay, inflight, answers, answered, sent>>
    BY <1>6
       DEF Session, connect, handshake, proxy_eof, wait_for_lock_release, release_timeout,
           probe_drop, open, wait_for_takeover, takeover_timeout, borrow_timeout, traffic, client
  <2>2. (\E l : Goto(s, l)) /\ pc[s] \notin Over
    BY <1>6
       DEF Session, connect, handshake, proxy_eof, wait_for_lock_release, release_timeout,
           probe_drop, open, wait_for_takeover, takeover_timeout, borrow_timeout, Over
  <2> QED BY <2>1, <2>2, HeldIdle
<1> QED BY <1>2, <1>3, <1>4, <1>5, <1>6, HeldAnswered, HeldSent, HeldRead, HeldAsked DEF Next

LEMMA OneRunStep ==
  ASSUME LossInv, MaxStarts <= 1, [Next]_vars
  PROVE  OneRun'
<1>0. /\ OneRun /\ Daemon \in Requesters /\ MaxStarts \in Nat
      /\ pc \in [Sessions -> Over \cup {"run", "handshake", "proxy", "wait_release", "probe",
                                       "open", "embedded", "recv", "takeover"}]
      /\ rpc \in [Requesters -> {"off", "acquire", "waiting", "clear", "boot", "listening",
                                "stopping", "released"}]
      /\ conn \in [Sessions -> Nat] /\ replay \in [Sessions -> Lines]
      /\ runs \in [Requesters -> Nat]
  BY HandoffAssumption DEF LossInv, TypeInv, TypeOK, Requesters
<1>1. ASSUME UNCHANGED <<pc, conn, runs, rpc, replay>>
      PROVE  OneRun'
  BY <1>0, <1>1 DEF OneRun
<1>2. CASE UNCHANGED vars
  BY <1>1, <1>2 DEF vars, traffic, bounds
<1>3. ASSUME NEW s \in Sessions, Ask(s) \/ Close(s) \/ read_answer(s) \/ Runtime(s)
      PROVE  OneRun'
  BY <1>1, <1>3
     DEF Ask, Close, read_answer, Runtime, handle_line, handle_reply, traffic, client, bounds
<1>4. ASSUME NEW s \in Sessions, Session(s)
      PROVE  OneRun'
  <2>1. UNCHANGED <<runs, rpc>> /\ \A u \in Sessions \ {s} : pc'[u] = pc[u]
    <3>1. UNCHANGED <<runs, rpc>>
      BY <1>4
         DEF Session, connect, handshake, proxy_send, proxy_timeout, proxy_eof,
             wait_for_lock_release, release_timeout, probe_drop, open, embedded, recv,
             wait_for_takeover, takeover_timeout, borrow_timeout, bounds
    <3>2. UNCHANGED pc \/ \E l : Goto(s, l)
      BY <1>4
         DEF Session, connect, handshake, proxy_send, proxy_timeout, proxy_eof, DaemonGone,
             wait_for_lock_release, release_timeout, probe_drop, open, embedded, recv,
             wait_for_takeover, takeover_timeout, borrow_timeout
    <3> QED BY <1>0, <3>1, <3>2 DEF Goto
  <2>2. CASE connect(s)
    <3>1. replay' = replay
      BY <2>2 DEF connect
    <3>2. CASE Listening
      <4>1. pc'[s] = "handshake" /\ conn' = [conn EXCEPT ![s] = runs[Daemon]]
        BY <1>0, <2>2, <3>2 DEF connect, Goto
      <4>2. rpc[Daemon] = "listening" /\ runs[Daemon] = 1 /\ \A u \in Sessions : replay[u] = <<>>
        BY <1>0, <3>2 DEF Listening, OneRun
      <4> QED BY <1>0, <2>1, <3>1, <4>1, <4>2 DEF OneRun
    <3>3. CASE ~Listening
      <4>1. pc'[s] = "open" /\ conn' = conn
        BY <1>0, <2>2, <3>3 DEF connect, Goto
      <4> QED BY <1>0, <2>1, <3>1, <4>1 DEF OneRun
    <3> QED BY <3>2, <3>3
  <2>3. CASE proxy_send(s) \/ proxy_timeout(s)
    <3>1. conn[s] = runs[Daemon] /\ replay[s] = <<>> /\ conn' = conn
      BY <1>0, <2>3 DEF proxy_send, proxy_timeout, OneRun
    <3>2. CASE UNCHANGED pc /\ replay' = [replay EXCEPT ![s] = <<>>]
      BY <1>0, <2>1, <3>1, <3>2 DEF OneRun
    <3>3. CASE ~Connected(s) /\ Goto(s, "wait_release") /\ \E q : replay' = [replay EXCEPT ![s] = q]
      <4>1. rpc[Daemon] = "off" /\ runs[Daemon] = 1
        BY <1>0, <2>3, <3>1, <3>3 DEF proxy_send, proxy_timeout, OneRun, Connected, DaemonRuns
      <4> QED BY <1>0, <2>1, <3>1, <3>3, <4>1 DEF OneRun, Goto
    <3> QED BY <2>3, <3>1, <3>2, <3>3 DEF proxy_send, proxy_timeout, DaemonGone
  <2>4. CASE embedded(s)
    <3>1. pc'[s] \notin {"handshake", "proxy"} /\ replay'[s] \in {replay[s], Tail(replay[s])}
          /\ (replay'[s] # <<>> => replay[s] # <<>>)
          /\ (\A u \in Sessions \ {s} : replay'[u] = replay[u]) /\ conn' = conn
      BY <1>0, <2>4 DEF embedded, Goto
    <3> QED BY <1>0, <2>1, <3>1 DEF OneRun
  <2>5. CASE handshake(s)
    BY <1>0, <2>1, <2>5 DEF handshake, Goto, OneRun, traffic
  <2>6. CASE Session(s) /\ ~connect(s) /\ ~handshake(s) /\ ~proxy_send(s) /\ ~proxy_timeout(s)
             /\ ~embedded(s)
    <3>1. UNCHANGED <<conn, replay>>
      BY <2>6
         DEF Session, proxy_eof, wait_for_lock_release, release_timeout, probe_drop, open, recv,
             wait_for_takeover, takeover_timeout, borrow_timeout, traffic
    <3>2. pc'[s] \notin {"handshake", "proxy"}
      BY <1>0, <2>6
         DEF Session, proxy_eof, wait_for_lock_release, release_timeout, probe_drop, open, recv,
             wait_for_takeover, takeover_timeout, borrow_timeout, Goto
    <3> QED BY <1>0, <2>1, <3>1, <3>2 DEF OneRun
  <2> QED BY <1>4, <2>2, <2>3, <2>4, <2>5, <2>6
<1>5. ASSUME NEW r \in Requesters, start(r)
      PROVE  OneRun'
  BY <1>0, <1>5 DEF start, Rgoto, traffic, OneRun
<1>6. ASSUME NEW r \in Requesters, Requester(r) \/ kill(r)
      PROVE  OneRun'
  <2>1. UNCHANGED <<pc, conn, runs, replay>>
    BY <1>6
       DEF Requester, acquire, retry, request_timeout, clear, finish, kill, traffic, bounds
  <2>2. rpc'[Daemon] \in {rpc[Daemon], "off"}
        \/ rpc[Daemon] \in {"acquire", "waiting", "clear"}
    BY <1>0, <1>6 DEF Requester, acquire, retry, request_timeout, clear, finish, kill, Rgoto
  <2> QED BY <1>0, <2>1, <2>2 DEF OneRun
<1>7. CASE Lifecycle \/ stop
  BY <1>0, <1>7 DEF Lifecycle, listen, release, exit, stop, Listening, Rgoto, traffic, bounds, OneRun
<1> QED BY <1>2, <1>3, <1>4, <1>5, <1>6, <1>7 DEF Next

\* While the daemon has run once, whatever is stopped or killed, every request of a
\* session that goes on waits somewhere or has its response.
THEOREM NoRequestLost ==
  ASSUME MaxStarts <= 1
  PROVE  Spec => []NothingLost
<1>1. Init => LossInv
  <2> SUFFICES ASSUME Init PROVE LossInv
    OBVIOUS
  <2>1. OneRun
    BY DEF Init, OneRun, Requesters
  <2>2. AllHeld
    BY DEF Init, AllHeld
  <2> QED BY <2>1, <2>2, TypeStart DEF LossInv
<1>2. LossInv /\ [Next]_vars => LossInv'
  BY PlacesStep, LinesStep, OneRunStep, HeldStep
     DEF LossInv, TypeInv, TypeOK, PlaceTypes, LineTypes
<1>3. ASSUME LossInv
      PROVE  NothingLost
  <2>1. ASSUME NEW s \in Sessions, pc[s] \notin Over, NEW id \in 1..sent[s]
        PROVE  \/ Member(id, stdin[s] \o replay[s] \o inflight[s])
               \/ answered[s][id] > 0
               \/ \E a \in answers[s] : a[2] = id
    <3>1. Held(s, id)
      BY <1>3, <2>1 DEF LossInv, AllHeld
    <3>2. /\ stdin[s] \in Seq(1..sent[s]) /\ replay[s] \in Seq(1..sent[s])
          /\ inflight[s] \in Seq(1..sent[s]) /\ stdin[s] \o replay[s] \in Seq(1..sent[s])
      BY <1>3, MailTypes DEF LossInv
    <3> QED BY <3>1, <3>2, MemberOfConcat DEF Held
  <2> QED BY <2>1 DEF NothingLost
<1> QED BY <1>1, <1>2, <1>3, PTL DEF Spec

-----------------------------------------------------------------------------
(* NeverRefused, with one session: another one that yielded to a requester that *)
(* is gone could take a request that was just written for a stale one.         *)

Alone(r) == rpc[r] # "off" /\ r \notin company

\* Whoever has the lock has opened the core, and the request of a requester that
\* waits alone stays until it has the vault.
AloneInv ==
  /\ \A s \in Sessions : lock = s => Embeds(s)
  /\ \A r \in Requesters : lock = r => Opened(r)
  /\ \A r \in Requesters : Alone(r) => \A q \in Requesters \ {r} : rpc[q] = "off"
  /\ \A r \in Requesters : Alone(r) /\ rpc[r] = "waiting" =>
        /\ request = r
        /\ \A s \in Sessions : pc[s] = "takeover" => noticed[s] = r
  /\ refused = {}

HeardInv == TypeInv /\ Ownership /\ AloneInv

LEMMA AloneStays ==
  ASSUME AloneInv, UNCHANGED <<lock, pc, rpc, request, noticed, company, refused>>
  PROVE  AloneInv'
BY DEF AloneInv, Alone, Embeds, Opened

LEMMA SessionAlone ==
  ASSUME HeardInv, \A s, u \in Sessions : s = u, NEW s \in Sessions, Session(s)
  PROVE  AloneInv'
<1> DEFINE Places == Over \cup {"run", "handshake", "proxy", "wait_release", "probe",
                                "open", "embedded", "recv", "takeover"}
<1>0. /\ AloneInv /\ s \notin Requesters /\ NONE \notin Sessions \cup Requesters
      /\ pc \in [Sessions -> Places] /\ noticed \in [Sessions -> Requesters \cup {NONE}]
      /\ (Embeds(s) => lock = s) /\ \A u \in Sessions : u = s
  BY HandoffAssumption DEF HeardInv, TypeInv, TypeOK, Ownership, SingleOwner
<1>1. UNCHANGED <<rpc, company, refused>>
  BY DEF Session, connect, handshake, proxy_send, proxy_timeout, proxy_eof,
         wait_for_lock_release, release_timeout, probe_drop, open, embedded, recv,
         wait_for_takeover, takeover_timeout, borrow_timeout, histories
<1>2. ASSUME lock' \in {lock, NONE, s}, lock' = s => Embeds(s)',
             request' = request \/ (pc[s] = "takeover" /\ rpc[noticed[s]] # "waiting"),
             pc'[s] = "takeover" => noticed'[s] = request \/ (pc[s] = "takeover" /\ noticed' = noticed)
      PROVE  AloneInv'
  <2>1. /\ \A u \in Sessions : lock' = u => Embeds(u)'
        /\ \A r \in Requesters : lock' = r => Opened(r)'
    BY <1>0, <1>1, <1>2 DEF AloneInv, Opened
  <2>2. ASSUME NEW r \in Requesters, Alone(r)'
        PROVE  \A q \in Requesters \ {r} : rpc'[q] = "off"
    BY <1>0, <1>1, <2>2 DEF AloneInv, Alone
  <2>3. ASSUME NEW r \in Requesters, Alone(r)', rpc'[r] = "waiting"
        PROVE  request' = r /\ \A u \in Sessions : pc'[u] = "takeover" => noticed'[u] = r
    <3>1. request = r /\ \A u \in Sessions : pc[u] = "takeover" => noticed[u] = r
      BY <1>0, <1>1, <2>3 DEF AloneInv, Alone
    <3>2. request' = r
      BY <1>1, <1>2, <2>3, <3>1
    <3> QED BY <1>0, <1>2, <3>1, <3>2
  <2> QED BY <1>0, <1>1, <2>1, <2>2, <2>3 DEF AloneInv
<1> DEFINE Here(l) == pc'[s] = l
<1>3. \A l : Goto(s, l) => Here(l)
  BY <1>0 DEF Goto
<1> HIDE DEF Places
\* The steps of a session that has not got the lock, or gives it back.
<1>4. ASSUME NEW l, Here(l), l # "takeover", UNCHANGED request,
             lock' = NONE \/ (lock' = lock /\ ~Embeds(s))
      PROVE  AloneInv'
  BY <1>0, <1>2, <1>4 DEF AloneInv
<1>5. CASE connect(s) \/ handshake(s) \/ proxy_timeout(s) \/ proxy_eof(s)
  BY <1>3, <1>4, <1>5
     DEF connect, handshake, proxy_timeout, proxy_eof, DaemonGone, Embeds
<1>6. CASE proxy_send(s)
  <2>1. UNCHANGED <<lock, request>> /\ ~Embeds(s)
    BY <1>6 DEF proxy_send, Embeds
  <2>2. pc' = pc \/ Goto(s, "wait_release")
    BY <1>6 DEF proxy_send, DaemonGone
  <2>3. Here("proxy") \/ Here("wait_release")
    BY <1>3, <1>6, <2>2 DEF proxy_send
  <2> QED BY <1>4, <2>1, <2>3
<1>7. CASE wait_for_lock_release(s)
  BY <1>2, <1>3, <1>7 DEF wait_for_lock_release, Embeds
<1>8. CASE release_timeout(s) \/ probe_drop(s) \/ borrow_timeout(s)
  BY <1>3, <1>4, <1>8 DEF release_timeout, probe_drop, borrow_timeout, Embeds
<1>9. CASE open(s)
  <2>1. CASE lock = NONE
    BY <1>2, <1>3, <1>9, <2>1 DEF open, Embeds
  <2>2. CASE lock # NONE
    BY <1>3, <1>4, <1>9, <2>2 DEF open, Embeds
  <2> QED BY <2>1, <2>2
<1>10. CASE embedded(s)
  <2>1. pc[s] = "embedded" /\ UNCHANGED request /\ lock = s
    BY <1>0, <1>10 DEF embedded, Embeds
  <2>2. CASE UNCHANGED <<lock, pc, noticed>>
    BY <1>2, <2>1, <2>2 DEF Embeds
  <2>3. CASE lock' = NONE /\ noticed' = [noticed EXCEPT ![s] = request]
    <3>1. noticed'[s] = request
      BY <1>0, <2>3
    <3> QED BY <1>0, <1>2, <2>1, <2>3, <3>1
  <2>4. CASE UNCHANGED <<lock, noticed>> /\ Goto(s, "recv")
    BY <1>2, <1>3, <2>1, <2>4 DEF Embeds
  <2> QED BY <1>10, <2>2, <2>3, <2>4 DEF embedded
<1>11. CASE recv(s)
  <2>1. pc[s] = "recv" /\ UNCHANGED <<request, noticed>> /\ lock = s
    BY <1>0, <1>11 DEF recv, Embeds
  <2>2. CASE UNCHANGED lock /\ Goto(s, "embedded")
    BY <1>2, <1>3, <2>1, <2>2 DEF Embeds
  <2>3. CASE lock' = NONE /\ Goto(s, "done")
    BY <1>3, <1>4, <2>1, <2>3
  <2> QED BY <1>11, <2>2, <2>3 DEF recv
<1>12. CASE wait_for_takeover(s)
  <2>1. CASE Goto(s, "run") /\ UNCHANGED lock
    BY <1>3, <1>4, <1>12, <2>1 DEF wait_for_takeover, Embeds
  <2>2. CASE Goto(s, "probe") /\ lock' = s
    BY <1>2, <1>3, <1>12, <2>2 DEF wait_for_takeover, Embeds
  <2> QED BY <1>12, <2>1, <2>2 DEF wait_for_takeover
<1>13. CASE takeover_timeout(s)
  <2>1. Here("run") /\ pc[s] = "takeover" /\ lock' = lock /\ rpc[noticed[s]] # "waiting"
    BY <1>3, <1>13 DEF takeover_timeout
  <2>2. lock' # s
    BY <1>0, <2>1 DEF AloneInv, Embeds
  <2> QED BY <1>2, <2>1, <2>2
<1> QED BY <1>5, <1>6, <1>7, <1>8, <1>9, <1>10, <1>11, <1>12, <1>13 DEF Session

LEMMA RequesterAlone ==
  ASSUME HeardInv, \A s, u \in Sessions : s = u, NEW r \in Requesters,
         start(r) \/ Requester(r) \/ kill(r) \/ (r = Daemon /\ (Lifecycle \/ stop))
  PROVE  AloneInv'
<1>0. /\ AloneInv /\ r \notin Sessions /\ NONE \notin Sessions \cup Requesters
      /\ lock \in Sessions \cup Requesters \cup {NONE}
      /\ rpc \in [Requesters -> {"off", "acquire", "waiting", "clear", "boot", "listening",
                                "stopping", "released"}]
      /\ (Opened(r) => lock = r)
  BY HandoffAssumption DEF HeardInv, TypeInv, TypeOK, Ownership, SingleOwner
<1>1. UNCHANGED <<pc, noticed>>
  BY DEF start, Requester, acquire, retry, request_timeout, clear, finish, kill,
         Lifecycle, listen, release, exit, stop
<1> DEFINE Here(l) == rpc'[r] = l /\ \A q \in Requesters \ {r} : rpc'[q] = rpc[q]
<1>2. \A l : Rgoto(r, l) => Here(l)
  BY <1>0 DEF Rgoto
\* The first to start is alone, and nobody is once another one starts.
<1>3. CASE start(r)
  <2>1. Here("acquire") /\ rpc[r] = "off" /\ UNCHANGED <<lock, request, refused>>
    BY <1>2, <1>3 DEF start
  <2> DEFINE others == {q \in Requesters : rpc[q] # "off"}
  <2>2. company' = IF others = {} THEN company \ {r} ELSE company \cup others \cup {r}
    BY <1>3 DEF start
  <2>3. /\ \A s \in Sessions : lock' = s => Embeds(s)'
        /\ \A q \in Requesters : lock' = q => Opened(q)'
    BY <1>0, <1>1, <2>1 DEF AloneInv, Embeds, Opened
  <2>4. ASSUME NEW q \in Requesters, Alone(q)'
        PROVE  rpc'[q] # "waiting" /\ \A p \in Requesters \ {q} : rpc'[p] = "off"
    <3>1. others = {}
      <4>1. CASE q = r
        BY <2>2, <2>4, <4>1 DEF Alone
      <4>2. CASE q # r
        BY <2>1, <2>2, <2>4, <4>2 DEF Alone
      <4> QED BY <4>1, <4>2
    <3>2. q = r
      BY <2>1, <2>4, <3>1 DEF Alone
    <3> QED BY <2>1, <3>1, <3>2
  <2> QED BY <1>0, <2>1, <2>3, <2>4 DEF AloneInv
\* Only who waits alone goes on alone.
<1>4. ASSUME NEW l, Here(l), rpc[r] # "off", l # "waiting", UNCHANGED <<company, refused>>,
             lock' \in {lock, NONE, r},
             lock' = r => l \in {"clear", "boot", "listening", "stopping"}
      PROVE  AloneInv'
  <2>1. /\ \A s \in Sessions : lock' = s => Embeds(s)'
        /\ \A q \in Requesters : lock' = q => Opened(q)'
    BY <1>0, <1>1, <1>4 DEF AloneInv, Embeds, Opened
  <2>2. ASSUME NEW q \in Requesters, Alone(q)'
        PROVE  rpc'[q] # "waiting" /\ \A p \in Requesters \ {q} : rpc'[p] = "off"
    <3>1. q = r
      BY <1>0, <1>4, <2>2 DEF AloneInv, Alone
    <3> QED BY <1>0, <1>4, <2>2, <3>1 DEF AloneInv, Alone
  <2> QED BY <1>0, <1>4, <2>1, <2>2 DEF AloneInv
<1>5. CASE acquire(r)
  <2>1. rpc[r] = "acquire" /\ UNCHANGED <<company, refused>>
    BY <1>5 DEF acquire, histories
  <2>2. CASE lock = NONE
    BY <1>2, <1>4, <1>5, <2>1, <2>2 DEF acquire
  <2>3. CASE lock # NONE
    <3>1. Here("waiting") /\ lock' = lock /\ request' = r
      BY <1>2, <1>5, <2>3 DEF acquire
    <3>2. /\ \A s \in Sessions : lock' = s => Embeds(s)'
          /\ \A q \in Requesters : lock' = q => Opened(q)'
      BY <1>0, <1>1, <2>1, <3>1 DEF AloneInv, Embeds, Opened
    <3>3. ASSUME NEW q \in Requesters, Alone(q)'
          PROVE  q = r /\ \A p \in Requesters \ {q} : rpc'[p] = "off"
      BY <1>0, <2>1, <3>1, <3>3 DEF AloneInv, Alone
    <3>4. ASSUME Alone(r)', NEW s \in Sessions
          PROVE  pc'[s] # "takeover"
      <4>1. lock \in Sessions
        BY <1>0, <2>1, <2>3, <3>1, <3>3, <3>4 DEF AloneInv, Opened
      <4> QED BY <1>0, <1>1, <4>1 DEF AloneInv, Embeds
    <3> QED BY <1>0, <2>1, <3>1, <3>2, <3>3, <3>4 DEF AloneInv
  <2> QED BY <2>2, <2>3
<1>6. CASE retry(r) \/ clear(r) \/ finish(r)
  <2>1. rpc[r] # "off" /\ UNCHANGED <<company, refused>>
    BY <1>6 DEF retry, clear, finish, histories
  <2>2. \/ Here("clear") /\ lock' = r
        \/ Here("boot") /\ lock' = lock
        \/ Here("off") /\ lock' = NONE
    BY <1>2, <1>6 DEF retry, clear, finish
  <2> QED BY <1>0, <1>4, <2>1, <2>2
<1>7. CASE request_timeout(r)
  <2>1. /\ rpc[r] = "waiting" /\ Here("off") /\ lock' = lock /\ company' = company
        /\ ~(lock \in Sessions /\ request # NONE)
    BY <1>2, <1>7 DEF request_timeout
  <2>2. lock # r
    BY <1>0, <2>1 DEF AloneInv, Opened
  <2>3. ~(lock \in Sessions /\ r \notin company)
    BY <1>0, <2>1 DEF AloneInv, Alone
  <2>4. refused' = refused
    BY <1>7, <2>3 DEF request_timeout
  <2> QED BY <1>4, <2>1, <2>2, <2>4
<1>8. CASE kill(r)
  <2>1. rpc[r] # "off" /\ UNCHANGED <<company, refused>> /\ Here("off")
    BY <1>2, <1>8 DEF kill, histories
  <2>2. lock' \in {lock, NONE} /\ lock' # r
    BY <1>0, <1>8 DEF kill
  <2> QED BY <1>4, <2>1, <2>2
<1>9. CASE r = Daemon /\ (listen \/ stop)
  <2>1. /\ rpc[r] \in {"boot", "listening"} /\ UNCHANGED <<lock, company, refused>>
        /\ Here("listening") \/ Here("stopping")
    BY <1>2, <1>9 DEF listen, stop, Listening, histories
  <2> QED BY <1>4, <2>1
<1>10. CASE r = Daemon /\ release
  <2>1. /\ rpc[r] = "stopping" /\ UNCHANGED <<company, refused>> /\ lock' = NONE
        /\ Here("released")
    BY <1>2, <1>10 DEF release, histories
  <2> QED BY <1>0, <1>4, <2>1
<1>11. CASE r = Daemon /\ exit
  <2>1. rpc[r] = "released" /\ UNCHANGED <<lock, company, refused>> /\ Here("off")
    BY <1>2, <1>11 DEF exit, histories
  <2>2. lock # r
    BY <1>0, <2>1 DEF AloneInv, Opened
  <2> QED BY <1>4, <2>1, <2>2
<1> QED BY <1>3, <1>5, <1>6, <1>7, <1>8, <1>9, <1>10, <1>11 DEF Requester, Lifecycle

\* With one session, a daemon or a one-shot that runs while no other one does is
\* never refused a vault that session has: its request stays until it is heard.
THEOREM AloneIsServed ==
  ASSUME \A s, u \in Sessions : s = u
  PROVE  Spec => []NeverRefused
<1>1. Init => HeardInv
  <2> SUFFICES ASSUME Init PROVE HeardInv
    OBVIOUS
  <2>1. Ownership
    BY DEF Init, Ownership, PlacesOK, SingleOwner, Embeds, Opened
  <2>2. AloneInv
    BY HandoffAssumption DEF Init, AloneInv, Alone
  <2> QED BY <2>1, <2>2, TypeStart DEF HeardInv
<1>2. ASSUME HeardInv, [Next]_vars
      PROVE  AloneInv'
  <2>1. ASSUME NEW s \in Sessions, Ask(s) \/ Close(s) \/ read_answer(s) \/ Runtime(s)
        PROVE  AloneInv'
    BY <1>2, <2>1, AloneStays
       DEF HeardInv, Ask, Close, read_answer, Runtime, handle_line, handle_reply, histories
  <2>2. CASE UNCHANGED vars
    BY <1>2, <2>2, AloneStays DEF HeardInv, vars, histories
  <2>3. CASE Lifecycle \/ stop
    BY <1>2, <2>3, RequesterAlone DEF Requesters
  <2> QED BY <1>2, <2>1, <2>2, <2>3, SessionAlone, RequesterAlone DEF Next
<1>3. HeardInv /\ [Next]_vars => HeardInv'
  BY <1>2, PlacesStep, LinesStep, OwnershipStep
     DEF HeardInv, TypeInv, TypeOK, PlaceTypes, LineTypes
<1>4. HeardInv => NeverRefused
  BY DEF HeardInv, AloneInv, NeverRefused
<1> QED BY <1>1, <1>3, <1>4, PTL DEF Spec
===============================================================================
