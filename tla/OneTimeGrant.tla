---------------------------- MODULE OneTimeGrant ----------------------------
(***************************************************************************)
(* What VerifyAttestation promises, without saying how.  A call claims the *)
(* nonces of its envelope and is granted or refused in one step.  No nonce *)
(* is granted twice, and under Strict nothing is granted to a call whose   *)
(* envelope was already revoked or expired when the call was made.         *)
(***************************************************************************)
CONSTANTS Call, Nonce, Strict

VARIABLES
  verdict,   \* where a call stands
  claim,     \* the nonces it claims
  sound      \* its envelope was in force when the call was made

gvars == <<verdict, claim, sound>>

GrantInit ==
  /\ verdict = [v \in Call |-> "unmade"]
  /\ claim = [v \in Call |-> {}]
  /\ sound = [v \in Call |-> TRUE]

\* A call is made, and may be turned away at the door.
Ask(v) ==
  /\ verdict[v] = "unmade"
  /\ \E d \in {"open", "refused"} : verdict' = [verdict EXCEPT ![v] = d]
  /\ \E N \in SUBSET Nonce : claim' = [claim EXCEPT ![v] = N]
  /\ \E b \in BOOLEAN : sound' = [sound EXCEPT ![v] = b]

Granted == UNION {claim[v] : v \in {w \in Call : verdict[w] = "granted"}}

Grant(v) ==
  /\ verdict[v] = "open"
  /\ claim[v] \cap Granted = {}
  /\ Strict => sound[v]
  /\ verdict' = [verdict EXCEPT ![v] = "granted"]
  /\ UNCHANGED <<claim, sound>>

\* One call is refused, or a crash takes several.
Refuse(V) ==
  /\ \A v \in V : verdict[v] = "open"
  /\ verdict' = [v \in Call |-> IF v \in V THEN "refused" ELSE verdict[v]]
  /\ UNCHANGED <<claim, sound>>

GrantNext ==
  \/ \E v \in Call : Ask(v) \/ Grant(v)
  \/ \E V \in SUBSET Call : Refuse(V)

GrantSpec == GrantInit /\ [][GrantNext]_gvars
=============================================================================
