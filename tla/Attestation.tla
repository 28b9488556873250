---------------------------- MODULE Attestation ----------------------------
(***************************************************************************)
(* The life of an attestation: the Broker of broker/broker.go over its     *)
(* Store (store/mem.go, store/postgres.go).  Sigils, capability tokens and *)
(* revocations are written to the store, envelopes are signed, and any     *)
(* number of VerifyAttestation calls run at once.  Each call is a process  *)
(* of its own and takes one step per store access or clock reading, so     *)
(* that issues, revocations, the clock, store failures and crashes fall    *)
(* between any two of its checks.                                          *)
(***************************************************************************)
EXTENDS Integers, Sequences, FiniteSets

CONSTANTS
  Sigil,       \* sigil UUIDs
  CapId,       \* capability token UUIDs
  Nonce,       \* 16-byte nonces
  Call,        \* the VerifyAttestation invocations, each made once
  NoEnvelope,  \* the argument of a call that was not made yet
  MaxTime,     \* bound on the clock
  MaxCaps,     \* bound on the capability list of an envelope
  MaxEnvelopes,\* bound on the number of envelopes signed
  MaxBoots,    \* bound on the number of crashes of the broker process
  Durable,     \* TRUE for PgStore; FALSE for MemStore, which dies with the process
  Faults       \* TRUE when a store round trip may fail (PgStore timeouts)

ASSUME BoundsAssumption ==
  {MaxTime, MaxCaps, MaxEnvelopes, MaxBoots} \subseteq Nat

ASSUME FlagsAssumption == {Durable, Faults} \subseteq BOOLEAN

ASSUME CallAssumption == IsFiniteSet(Call)

\* A nonce is a value of 16 bytes.
ASSUME NonceAssumption == IsFiniteSet(Nonce)

VARIABLES
  \* the store
  sigils,      \* rows of the sigils table
  caps,        \* rows of the capability_tokens table
  nonces,      \* rows of the consumed_nonces table
  revoked,     \* ids in the revocation list
  \* the broker process
  allowed,     \* revocationAllowed
  denied,      \* revocationDenied
  published,   \* lifecycle events handed to the publisher
  \* the calls
  pc,          \* next check of a call, or the code it returned
  arg,         \* the envelope the call verifies
  pos,         \* index of the capability being checked
  \* the world
  drawn,       \* UUIDs and nonces drawn so far: none is ever drawn again
  envs,        \* envelopes signed so far
  now,         \* the clock
  boot,        \* number of restarts of the broker process
  \* history, read by the properties only
  bootOf,      \* the process life in which a call was made
  startVoid,   \* some id of the envelope was revoked when the call was made
  startLate,   \* some expiry of the envelope had passed when the call was made
  misled,      \* a failed query hid a revocation from the call
  burnt        \* nonces recorded by an insert whose answer was lost

store   == <<sigils, caps, nonces, revoked>>
broker  == <<allowed, denied, published>>
calls   == <<pc, arg, pos>>
world   == <<drawn, envs, now, boot>>
history == <<bootOf, startVoid, startLate, misled, burnt>>
vars    == <<store, broker, calls, world, history>>

-----------------------------------------------------------------------------

Time == 0..MaxTime

Token == [id : CapId, sigil : Sigil, expires : Time, nonce : Nonce]

Envelope == [sigil : Sigil, caps : Seq(Token), expires : Time]

Event == {"sigil.issued", "sigil.revoked"} \X Sigil

Checking == {"sigil", "expiry", "cap", "capExpiry", "nonce"}

Denial == {"signature_invalid", "sigil_revoked", "cap_revoked",
           "capability_expired", "replay_attack"}

\* "ready": not made yet; "ok": returned nil; "crashed": died with the process.
State == {"ready", "ok", "crashed"} \cup Checking \cup Denial

TypeOK ==
  /\ sigils \subseteq Sigil
  /\ caps \subseteq Token
  /\ nonces \subseteq Nonce
  /\ revoked \subseteq Sigil \cup CapId
  /\ allowed \in Nat
  /\ denied \in Nat
  /\ published \subseteq Event
  /\ pc \in [Call -> State]
  /\ arg \in [Call -> Envelope \cup {NoEnvelope}]
  /\ pos \in [Call -> Nat \ {0}]
  /\ drawn \subseteq Sigil \cup CapId \cup Nonce
  /\ envs \subseteq Envelope
  /\ now \in Time
  /\ boot \in Nat
  /\ bootOf \in [Call -> Nat]
  /\ startVoid \in [Call -> BOOLEAN]
  /\ startLate \in [Call -> BOOLEAN]
  /\ misled \in [Call -> BOOLEAN]
  /\ burnt \subseteq Nonce

Init ==
  /\ sigils = {} /\ caps = {} /\ nonces = {} /\ revoked = {}
  /\ allowed = 0 /\ denied = 0 /\ published = {}
  /\ pc = [v \in Call |-> "ready"]
  /\ arg = [v \in Call |-> NoEnvelope]
  /\ pos = [v \in Call |-> 1]
  /\ drawn = {} /\ envs = {} /\ now = 0 /\ boot = 0
  /\ bootOf = [v \in Call |-> 0]
  /\ startVoid = [v \in Call |-> FALSE]
  /\ startLate = [v \in Call |-> FALSE]
  /\ misled = [v \in Call |-> FALSE]
  /\ burnt = {}

-----------------------------------------------------------------------------
(* The two store calls a verification depends on.  A call is one atomic    *)
(* step (a mutex in MemStore, one statement in PgStore); its value is the  *)
(* set of answers the broker may get.                                      *)

\* PgStore turns a failed query into "not revoked".
IsRevoked(id) == {id \in revoked} \cup (IF Faults THEN {FALSE} ELSE {})

\* Mutant: the row count of the insert is not looked at.
TryRecordNonceUnchecked(n) == {[first |-> TRUE, rows |-> nonces \cup {n}, lost |-> {}]}

\* Mutant: a failed insert is taken for a first use.
TryRecordNonceFailOpen(n) ==
  {[first |-> n \notin nonces, rows |-> nonces \cup {n}, lost |-> {}],
   [first |-> TRUE, rows |-> nonces, lost |-> {}]}

\* Mutant: the row count is read the wrong way round.
TryRecordNonceInverted(n) ==
  {[first |-> n \in nonces, rows |-> nonces \cup {n}, lost |-> {}]}

\* PgStore turns a failed insert, committed or not, into "already recorded".
TryRecordNonce(n) ==
  {[first |-> n \notin nonces, rows |-> nonces \cup {n}, lost |-> {}]} \cup
  (IF Faults
   THEN {[first |-> FALSE, rows |-> nonces \cup R, lost |-> R \ nonces] : R \in {{}, {n}}}
   ELSE {})

-----------------------------------------------------------------------------
(* Issuing.                                                                *)

\* SaveSigil, then Publish.  A failed or interrupted SaveSigil may have
\* committed: the row is there and nothing was published.
IssueSigil(s) ==
  /\ s \notin drawn
  /\ drawn' = drawn \cup {s}
  /\ sigils' = sigils \cup {s}
  /\ \/ published' = published \cup {<<"sigil.issued", s>>}
     \/ Faults /\ UNCHANGED published
  /\ UNCHANGED <<caps, nonces, revoked, allowed, denied, calls, envs, now, boot, history>>

\* GetSigil must succeed; neither a revocation nor an expiry of the sigil is looked at.
IssueCap(s, id, n, x) ==
  /\ s \in sigils
  /\ id \notin drawn
  /\ n \notin drawn
  /\ drawn' = drawn \cup {id, n}
  /\ caps' = caps \cup {[id |-> id, sigil |-> s, expires |-> x, nonce |-> n]}
  /\ UNCHANGED <<sigils, nonces, revoked, broker, calls, envs, now, boot, history>>

CapLists == UNION {[1..k -> caps] : k \in 0..MaxCaps}

\* Every listed token is fetched with GetCap; the sigil is a flag nobody checks.
IssueAttestation(s, cs, x) ==
  /\ Cardinality(envs) < MaxEnvelopes
  /\ envs' = envs \cup {[sigil |-> s, caps |-> cs, expires |-> x]}
  /\ UNCHANGED <<store, broker, calls, drawn, now, boot, history>>

-----------------------------------------------------------------------------
(* Revoking.  The store commits before the event is published; a failed or *)
(* interrupted Revoke may have committed without publishing.               *)

RevokeSigil(s) ==
  /\ revoked' = revoked \cup {s}
  /\ \/ published' = published \cup {<<"sigil.revoked", s>>}
     \/ Faults /\ UNCHANGED published
  /\ UNCHANGED <<sigils, caps, nonces, allowed, denied, calls, world, history>>

RevokeCap(id) ==
  /\ revoked' = revoked \cup {id}
  /\ UNCHANGED <<sigils, caps, nonces, broker, calls, world, history>>

-----------------------------------------------------------------------------
(* VerifyAttestation, one action per check.                                *)

Goto(v, s) == pc' = [pc EXCEPT ![v] = s]

Nonces(e) == {e.caps[i].nonce : i \in DOMAIN e.caps}

Void(e) ==
  \/ e.sigil \in revoked
  \/ \E i \in DOMAIN e.caps : e.caps[i].id \in revoked

Late(e) ==
  \/ now > e.expires
  \/ \E i \in DOMAIN e.caps : now > e.caps[i].expires

\* 1. The signature: an envelope altered since it was signed is turned away
\* before the store is touched.
Begin(v, e, intact) ==
  /\ pc[v] = "ready"
  /\ arg' = [arg EXCEPT ![v] = e]
  /\ Goto(v, IF intact THEN "sigil" ELSE "signature_invalid")
  /\ bootOf' = [bootOf EXCEPT ![v] = boot]
  /\ startVoid' = [startVoid EXCEPT ![v] = Void(e)]
  /\ startLate' = [startLate EXCEPT ![v] = Late(e)]
  /\ UNCHANGED <<store, broker, pos, world, misled, burnt>>

\* Mutant: only a revoked sigil is counted.
RevocationCheckSigilOnly(v, id, r, code, next) ==
  /\ r \in IsRevoked(id)
  /\ Goto(v, IF r THEN code ELSE next)
  /\ denied' = IF r /\ code = "sigil_revoked" THEN denied + 1 ELSE denied
  /\ misled' = [misled EXCEPT ![v] = @ \/ (id \in revoked /\ ~r)]
  /\ UNCHANGED <<store, allowed, published, arg, pos, world, bootOf, startVoid, startLate, burnt>>

\* The answer r to IsRevoked(id): a hit counts as denied and ends the call.
RevocationCheck(v, id, r, code, next) ==
  /\ r \in IsRevoked(id)
  /\ Goto(v, IF r THEN code ELSE next)
  /\ denied' = IF r THEN denied + 1 ELSE denied
  /\ misled' = [misled EXCEPT ![v] = @ \/ (id \in revoked /\ ~r)]
  /\ UNCHANGED <<store, allowed, published, arg, pos, world, bootOf, startVoid, startLate, burnt>>

\* 2. The root sigil.
CheckSigil(v) ==
  /\ pc[v] = "sigil"
  /\ \E r \in BOOLEAN : RevocationCheck(v, arg[v].sigil, r, "sigil_revoked", "expiry")

\* 3. The envelope's expiry: time.Now().After(env.ExpiresAt).
CheckExpiry(v) ==
  /\ pc[v] = "expiry"
  /\ Goto(v, IF now > arg[v].expires THEN "capability_expired" ELSE "cap")
  /\ UNCHANGED <<store, broker, arg, pos, world, history>>

\* Mutant: a capability is trusted until it expires.
CheckCapTrusted(v) ==
  /\ pc[v] = "cap"
  /\ pos[v] <= Len(arg[v].caps)
  /\ Goto(v, "capExpiry")
  /\ UNCHANGED <<store, broker, arg, pos, world, history>>

\* 4. The capability at pos.
CheckCap(v) ==
  /\ pc[v] = "cap"
  /\ pos[v] <= Len(arg[v].caps)
  /\ \E r \in BOOLEAN :
       RevocationCheck(v, arg[v].caps[pos[v]].id, r, "cap_revoked", "capExpiry")

\* Mutant: the envelope's expiry is compared again in place of the token's.
CheckCapExpiryOfEnvelope(v) ==
  /\ pc[v] = "capExpiry"
  /\ Goto(v, IF now > arg[v].expires THEN "capability_expired" ELSE "nonce")
  /\ UNCHANGED <<store, broker, arg, pos, world, history>>

\* Mutant: an error that no caller knows.
CheckCapExpiryMisnamed(v) ==
  /\ pc[v] = "capExpiry"
  /\ Goto(v, IF now > arg[v].caps[pos[v]].expires THEN "cap_expired" ELSE "nonce")
  /\ UNCHANGED <<store, broker, arg, pos, world, history>>

\* 5. Its expiry.
CheckCapExpiry(v) ==
  /\ pc[v] = "capExpiry"
  /\ Goto(v, IF now > arg[v].caps[pos[v]].expires THEN "capability_expired" ELSE "nonce")
  /\ UNCHANGED <<store, broker, arg, pos, world, history>>

\* 6. Its nonce, recorded if no call recorded it before.
ConsumeNonce(v) ==
  /\ pc[v] = "nonce"
  /\ \E a \in TryRecordNonce(arg[v].caps[pos[v]].nonce) :
       /\ nonces' = a.rows
       /\ burnt' = burnt \cup a.lost
       /\ Goto(v, IF a.first THEN "cap" ELSE "replay_attack")
       /\ pos' = [pos EXCEPT ![v] = IF a.first THEN @ + 1 ELSE @]
  /\ UNCHANGED <<sigils, caps, revoked, broker, arg, world, bootOf, startVoid, startLate, misled>>

\* Every capability passed.
Admit(v) ==
  /\ pc[v] = "cap"
  /\ pos[v] > Len(arg[v].caps)
  /\ Goto(v, "ok")
  /\ allowed' = allowed + 1
  /\ UNCHANGED <<store, denied, published, arg, pos, world, history>>

Step(v) ==
  \/ CheckSigil(v)
  \/ CheckExpiry(v)
  \/ CheckCap(v)
  \/ CheckCapExpiry(v)
  \/ ConsumeNonce(v)
  \/ Admit(v)

-----------------------------------------------------------------------------
(* The environment.                                                        *)

Tick ==
  /\ now < MaxTime
  /\ now' = now + 1
  /\ UNCHANGED <<store, broker, calls, drawn, envs, boot, history>>

\* Nonces whose insert is on its way to the database.
InFlight == {arg[v].caps[pos[v]].nonce : v \in {w \in Call : pc[w] = "nonce"}}

\* The process dies with its calls and counters.  PgStore keeps its rows, and
\* an insert on its way may still commit; MemStore is lost.
Crash ==
  /\ boot < MaxBoots
  /\ boot' = boot + 1
  /\ pc' = [v \in Call |-> IF pc[v] \in Checking THEN "crashed" ELSE pc[v]]
  /\ allowed' = 0 /\ denied' = 0
  /\ \/ /\ Durable
        /\ \E R \in SUBSET InFlight :
             /\ nonces' = nonces \cup R
             /\ burnt' = burnt \cup (R \ nonces)
        /\ UNCHANGED <<sigils, caps, revoked>>
     \/ /\ ~Durable
        /\ sigils' = {} /\ caps' = {} /\ nonces' = {} /\ revoked' = {} /\ burnt' = {}
  /\ UNCHANGED <<published, arg, pos, drawn, envs, now, bootOf, startVoid, startLate, misled>>

Next ==
  \/ \E s \in Sigil : IssueSigil(s) \/ RevokeSigil(s)
  \/ \E s \in Sigil, id \in CapId, n \in Nonce, x \in Time : IssueCap(s, id, n, x)
  \/ \E s \in Sigil, cs \in CapLists, x \in Time : IssueAttestation(s, cs, x)
  \/ \E id \in CapId : RevokeCap(id)
  \/ \E v \in Call, e \in envs, intact \in BOOLEAN : Begin(v, e, intact)
  \/ \E v \in Call : Step(v)
  \/ Tick
  \/ Crash

Spec == Init /\ [][Next]_vars

-----------------------------------------------------------------------------
(* Properties.                                                             *)

\* Calls that share one life of the store: all of them with PgStore, those of
\* one process with MemStore.
SameLife(v, w) == Durable \/ bootOf[v] = bootOf[w]

\* Nonces a call recorded: those of the capabilities before pos.
Spent(v) == {arg[v].caps[i].nonce : i \in 1..(pos[v] - 1)}

\* One-time use (ErrReplayAttack, protocol/types.go: "at most one caller sees
\* consumed=true for any given nonce").  However calls, crashes and lost
\* answers interleave, two calls that VerifyAttestation admits never carry a
\* common nonce, and an admitted envelope lists no nonce twice.
AtMostOnce ==
  \A v, w \in Call : pc[v] = "ok" /\ pc[w] = "ok" /\ SameLife(v, w) =>
    /\ v # w => Nonces(arg[v]) \cap Nonces(arg[w]) = {}
    /\ \A i, j \in DOMAIN arg[v].caps :
         arg[v].caps[i].nonce = arg[v].caps[j].nonce => i = j

\* Revocation contract (broker.go:7-10): an envelope whose sigil or one of
\* whose capabilities was in the revocation list when the call was made is
\* never admitted, unless a failed query hid the entry from this very call.
RevocationHonoured ==
  \A v \in Call : pc[v] = "ok" /\ startVoid[v] => misled[v]

\* The clock only moves forward and every expiry is compared with a reading
\* taken during the call, so nothing expired at the start is admitted.
ExpiryHonoured == \A v \in Call : pc[v] = "ok" => ~startLate[v]

\* consumed_nonces holds what calls spent, each row spent by one call or by an
\* insert whose answer was lost, and nothing else: a denial before the nonce
\* check of a capability leaves that capability usable.
NoncesAccounted ==
  LET live == {v \in Call : Durable \/ bootOf[v] = boot}
  IN  /\ nonces = burnt \cup UNION {Spent(v) : v \in live}
      /\ \A v \in live : Spent(v) \cap burnt = {}
      /\ \A v, w \in live : v # w => Spent(v) \cap Spent(w) = {}

\* Calls this process answered with one of the given codes.
Returned(codes) == {v \in Call : bootOf[v] = boot /\ pc[v] \in codes}

\* MetricsSnapshot counts the verdicts of this process: allowed the admitted
\* calls, denied the calls that met a revocation, and no call twice.
CountersAgree ==
  /\ allowed = Cardinality(Returned({"ok"}))
  /\ denied = Cardinality(Returned({"sigil_revoked", "cap_revoked"}))

\* A race never denies everyone.  When the presented envelopes list their
\* nonces in orders that agree with one another, no answer is lost, and calls
\* were only admitted or turned away as replays, some call was admitted
\* (docs/E2E.md: "exactly 1 wins, 99 get ErrReplayAttack").  Envelopes that
\* list the same capabilities in opposite orders may deny each other.
RaceHasWinner ==
  LET made == {v \in Call : pc[v] # "ready"}
      Agree(rank) == \A v \in made : \A i, j \in DOMAIN arg[v].caps :
        i < j => rank[arg[v].caps[i].nonce] < rank[arg[v].caps[j].nonce]
  IN  /\ ~Faults /\ boot = 0
      /\ \A v \in made : pc[v] \in {"ok", "replay_attack"}
      /\ \E v \in made : pc[v] = "replay_attack"
      /\ \E rank \in [Nonce -> 1..Cardinality(Nonce)] : Agree(rank)
      => \E v \in made : pc[v] = "ok" /\ Nonces(arg[v]) # {}

-----------------------------------------------------------------------------
(* Refinement of OneTimeGrant.                                             *)

VerdictOf(v) ==
  IF pc[v] = "ready" THEN "unmade"
  ELSE IF pc[v] \in Checking THEN "open"
  ELSE IF pc[v] = "ok" THEN "granted" ELSE "refused"

Grants == INSTANCE OneTimeGrant WITH
  Strict  <- ~Faults,
  verdict <- [v \in Call |-> VerdictOf(v)],
  claim   <- [v \in Call |-> IF pc[v] = "ready" THEN {} ELSE Nonces(arg[v])],
  sound   <- [v \in Call |-> ~startVoid[v] /\ ~startLate[v]]

\* Over a store that outlives the process, VerifyAttestation implements the
\* one-step grant: its interleaved checks look like a single decision.
ImplementsGrant == Grants!GrantSpec
=============================================================================
