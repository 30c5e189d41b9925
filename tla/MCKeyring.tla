------------------------------ MODULE MCKeyring ------------------------------
(* The instance of Keyring for TLC.                                        *)
EXTENDS Keyring

\* An exact pattern and a wildcard of another kind.
ExactAndAny == [kind : {"project"}, id : Project] \cup [kind : {"agent"}, id : {ANY}]

\* A record by somebody else in the scope of each agent.
InOwnScope == {[author |-> f, scope |-> own(a)] : f \in Foreign, a \in Agent}
==============================================================================
