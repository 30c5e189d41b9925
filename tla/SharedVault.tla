------------------------------ MODULE SharedVault ------------------------------
(***************************************************************************)
(* What processes that share a vault promise to the clients of sessions:   *)
(* the core has one owner at a time, who gives it up before another takes  *)
(* it; a request stays open until it is answered or its session ends, and  *)
(* one of the two happens.                                                 *)
(***************************************************************************)
EXTENDS Integers

CONSTANTS Sessions, Processes, MaxRequests

VARIABLES
  owners,   \* processes that have the core open
  asked,    \* per session: requests made
  pending,  \* per session: requests without an answer
  ended     \* sessions that are over

vars == <<owners, asked, pending, ended>>

Init ==
  /\ owners = {} /\ ended = {}
  /\ asked = [s \in Sessions |-> 0]
  /\ pending = [s \in Sessions |-> {}]

Take(p) ==
  /\ owners = {}
  /\ owners' = {p}
  /\ UNCHANGED <<asked, pending, ended>>

Give(p) ==
  /\ owners = {p}
  /\ owners' = {}
  /\ UNCHANGED <<asked, pending, ended>>

Ask(s) ==
  /\ s \notin ended /\ asked[s] < MaxRequests
  /\ asked' = [asked EXCEPT ![s] = @ + 1]
  /\ pending' = [pending EXCEPT ![s] = @ \cup {asked[s] + 1}]
  /\ UNCHANGED <<owners, ended>>

Reply(s, id) ==
  /\ s \notin ended /\ id \in pending[s]
  /\ pending' = [pending EXCEPT ![s] = @ \ {id}]
  /\ UNCHANGED <<owners, asked, ended>>

\* The end of a session that owns the core gives it up.
End(s) ==
  /\ s \notin ended
  /\ ended' = ended \cup {s}
  /\ owners' = owners \ {s}
  /\ UNCHANGED <<asked, pending>>

Next ==
  \/ \E p \in Processes : Take(p) \/ Give(p)
  \/ \E s \in Sessions : Ask(s) \/ End(s) \/ \E id \in 1..MaxRequests : Reply(s, id)

Spec == Init /\ [][Next]_vars

\* No request stays open for ever in a session that goes on.
FairSpec ==
  /\ Spec
  /\ \A s \in Sessions, id \in 1..MaxRequests : WF_vars(Reply(s, id) \/ (id \in pending[s] /\ End(s)))

================================================================================
