------------------------- MODULE AttestationProofs -------------------------
(***************************************************************************)
(* Proofs about Attestation for every set of sigils, tokens, nonces and    *)
(* calls, with or without store faults, and for both stores: types and the *)
(* shape of calls, one-time use, what was revoked or expired when a call   *)
(* began, the refinement of OneTimeGrant, the counters, and the race that  *)
(* always has a winner.                                                    *)
(***************************************************************************)
EXTENDS Attestation, TLAPS

-----------------------------------------------------------------------------
(* Operators.                                                              *)

\* What TryRecordNonce may answer: the caller that is told it came first found
\* the nonce unused and recorded it; any other answer records at most the lost
\* insert.
LEMMA TryRecordNonceAnswers ==
  ASSUME NEW n \in Nonce, NEW a \in TryRecordNonce(n)
  PROVE  /\ a.first \in BOOLEAN
         /\ a.first => n \notin nonces /\ a.rows = nonces \cup {n} /\ a.lost = {}
         /\ ~a.first => a.rows = nonces \cup a.lost
         /\ a.lost \subseteq {n} \ nonces
<1>1. CASE a = [first |-> n \notin nonces, rows |-> nonces \cup {n}, lost |-> {}]
  BY <1>1, Zenon
<1>2. CASE \E R \in {{}, {n}} : a = [first |-> FALSE, rows |-> nonces \cup R, lost |-> R \ nonces]
  BY <1>2
<1> QED
  BY <1>1, <1>2 DEF TryRecordNonce

\* The shape of a call: what its program counter says about its argument, its
\* position in the capability list and the process it runs in.
Shape(v) ==
  /\ pc[v] = "ready" => pos[v] = 1
  /\ pc[v] # "ready" => arg[v] \in Envelope /\ pos[v] <= Len(arg[v].caps) + 1
  /\ pc[v] \in {"sigil", "expiry"} => pos[v] = 1
  /\ pc[v] \in {"capExpiry", "nonce"} => pos[v] <= Len(arg[v].caps)
  /\ pc[v] = "ok" => pos[v] = Len(arg[v].caps) + 1
  /\ pc[v] \in Checking => bootOf[v] = boot
  /\ bootOf[v] <= boot

ShapeInv == TypeOK /\ \A v \in Call : Shape(v)

-----------------------------------------------------------------------------
(* Type correctness and the shape of calls.                                *)

LEMMA ShapeInit == Init => ShapeInv
  BY BoundsAssumption DEF Init, ShapeInv, Shape, TypeOK, Time, State, Checking

LEMMA TypeBegin ==
  ASSUME TypeOK, NEW v \in Call, NEW e \in envs, NEW intact \in BOOLEAN, Begin(v, e, intact)
  PROVE  TypeOK'
<1>1. e \in Envelope
  BY DEF TypeOK
<1>2. pc' \in [Call -> State] /\ arg' \in [Call -> Envelope \cup {NoEnvelope}]
  BY <1>1 DEF TypeOK, Begin, Goto, State, Checking, Denial
<1>3. Void(e) \in BOOLEAN /\ Late(e) \in BOOLEAN
  BY DEF Void, Late
<1> QED
  BY <1>2, <1>3 DEF TypeOK, Begin, store, broker, world

LEMMA TypeCheck ==
  ASSUME TypeOK, NEW v \in Call, NEW id, NEW r \in BOOLEAN,
         NEW code \in State, NEW next \in State, RevocationCheck(v, id, r, code, next)
  PROVE  TypeOK'
  BY DEF TypeOK, RevocationCheck, Goto, store, world

LEMMA CapFields ==
  ASSUME NEW e \in Envelope, NEW i \in Nat \ {0}, i <= Len(e.caps)
  PROVE  e.caps[i] \in Token /\ e.caps[i].nonce \in Nonce
<1>1. e.caps \in Seq(Token)
  BY DEF Envelope
<1>2. e.caps[i] \in Token
  BY <1>1
<1> QED
  BY <1>2 DEF Token

LEMMA TypeStep == ASSUME ShapeInv, NEW v \in Call, Step(v) PROVE TypeOK'
<1> USE DEF ShapeInv
<1>1. CASE CheckSigil(v)
  BY <1>1, TypeCheck DEF CheckSigil, State, Checking, Denial
<1>2. CASE CheckExpiry(v)
  BY <1>2 DEF TypeOK, CheckExpiry, Goto, State, Checking, Denial, store, broker, world, history
<1>3. CASE CheckCap(v)
  BY <1>3, TypeCheck DEF CheckCap, State, Checking, Denial
<1>4. CASE CheckCapExpiry(v)
  BY <1>4 DEF TypeOK, CheckCapExpiry, Goto, State, Checking, Denial, store, broker, world, history
<1>5. CASE ConsumeNonce(v)
  <2>1. arg[v] \in Envelope /\ pos[v] \in Nat \ {0} /\ pos[v] <= Len(arg[v].caps)
    BY <1>5 DEF ConsumeNonce, Shape, TypeOK
  <2> DEFINE n == arg[v].caps[pos[v]].nonce
  <2>2. n \in Nonce
    BY <2>1, CapFields
  <2>3. PICK a \in TryRecordNonce(n) :
          /\ nonces' = a.rows
          /\ burnt' = burnt \cup a.lost
          /\ Goto(v, IF a.first THEN "cap" ELSE "replay_attack")
          /\ pos' = [pos EXCEPT ![v] = IF a.first THEN @ + 1 ELSE @]
    BY <1>5, Zenon DEF ConsumeNonce
  <2>4. nonces' \subseteq Nonce /\ burnt' \subseteq Nonce
    BY <2>2, <2>3, TryRecordNonceAnswers DEF TypeOK
  <2>5. pc' \in [Call -> State] /\ pos' \in [Call -> Nat \ {0}]
    BY <2>2, <2>3, TryRecordNonceAnswers DEF TypeOK, Goto, State, Checking, Denial
  <2> QED
    BY <1>5, <2>4, <2>5 DEF TypeOK, ConsumeNonce, broker, world
<1>6. CASE Admit(v)
  BY <1>6 DEF TypeOK, Admit, Goto, State, store, world, history
<1> QED
  BY <1>1, <1>2, <1>3, <1>4, <1>5, <1>6 DEF Step

LEMMA TypeIssueAttestation ==
  ASSUME TypeOK, NEW s \in Sigil, NEW cs \in CapLists, NEW x \in Time, IssueAttestation(s, cs, x)
  PROVE  TypeOK'
<1>1. PICK k \in 0..MaxCaps : cs \in [1..k -> caps]
  BY DEF CapLists
<1>2. cs \in Seq(Token)
  BY <1>1, BoundsAssumption DEF TypeOK
<1>3. [sigil |-> s, caps |-> cs, expires |-> x] \in Envelope
  BY <1>2 DEF Envelope
<1> QED
  BY <1>3 DEF TypeOK, IssueAttestation, store, broker, calls, history

LEMMA TypeCrash == ASSUME ShapeInv, Crash PROVE TypeOK'
<1>1. InFlight \subseteq Nonce
  <2>1. ASSUME NEW w \in Call, pc[w] = "nonce" PROVE arg[w].caps[pos[w]].nonce \in Nonce
    BY <2>1, CapFields DEF ShapeInv, Shape, TypeOK
  <2> QED
    BY <2>1 DEF InFlight
<1>2. pc' \in [Call -> State] /\ boot' \in Nat
  BY DEF Crash, ShapeInv, TypeOK, State
<1>3. nonces' \subseteq Nonce /\ burnt' \subseteq Nonce
  BY <1>1 DEF Crash, ShapeInv, TypeOK
<1> QED
  BY <1>2, <1>3 DEF Crash, ShapeInv, TypeOK

LEMMA TypeNext == ShapeInv /\ [Next]_vars => TypeOK'
<1> SUFFICES ASSUME ShapeInv, [Next]_vars PROVE TypeOK'
  OBVIOUS
<1>0. TypeOK
  BY DEF ShapeInv
<1>1. ASSUME NEW s \in Sigil, IssueSigil(s) PROVE TypeOK'
  BY <1>0, <1>1 DEF TypeOK, IssueSigil, Event, calls, history
<1>2. ASSUME NEW s \in Sigil, RevokeSigil(s) PROVE TypeOK'
  BY <1>0, <1>2 DEF TypeOK, RevokeSigil, Event, calls, world, history
<1>3. ASSUME NEW s \in Sigil, NEW id \in CapId, NEW n \in Nonce, NEW x \in Time, IssueCap(s, id, n, x)
      PROVE  TypeOK'
  BY <1>0, <1>3 DEF TypeOK, IssueCap, Token, broker, calls, history
<1>4. ASSUME NEW id \in CapId, RevokeCap(id) PROVE TypeOK'
  BY <1>0, <1>4 DEF TypeOK, RevokeCap, broker, calls, world, history
<1>5. CASE Tick
  BY <1>0, <1>5, BoundsAssumption DEF TypeOK, Tick, Time, store, broker, calls, history
<1>6. CASE UNCHANGED vars
  BY <1>0, <1>6 DEF TypeOK, vars, store, broker, calls, world, history
<1> QED
  BY <1>0, <1>1, <1>2, <1>3, <1>4, <1>5, <1>6, TypeIssueAttestation, TypeBegin, TypeStep, TypeCrash
     DEF Next

LEMMA ShapeFrame ==
  ASSUME NEW w \in Call, Shape(w), pc'[w] = pc[w], pos'[w] = pos[w], UNCHANGED <<arg, boot, bootOf>>
  PROVE  Shape(w)'
  BY Zenon DEF Shape

\* A running call that goes on to s: what s says of the position.
LEMMA ShapeMoved ==
  ASSUME NEW v \in Call, Shape(v), pc[v] \in Checking, UNCHANGED <<arg, boot, bootOf>>,
         NEW s, pc'[v] = s, s # "ready", pos'[v] <= Len(arg[v].caps) + 1,
         s \in {"sigil", "expiry"} => pos'[v] = 1,
         s \in {"capExpiry", "nonce"} => pos'[v] <= Len(arg[v].caps),
         s = "ok" => pos'[v] = Len(arg[v].caps) + 1
  PROVE  Shape(v)'
<1>1. pc[v] # "ready"
  BY DEF Checking
<1>2. arg[v] \in Envelope /\ bootOf[v] = boot /\ bootOf[v] <= boot
  BY <1>1, Zenon DEF Shape
<1> QED
  BY <1>2, Zenon DEF Shape

LEMMA ShapeStay ==
  ASSUME TypeOK, NEW v \in Call, Shape(v), pc[v] \in Checking, UNCHANGED <<arg, pos, boot, bootOf>>,
         NEW s \in State, Goto(v, s), s \notin {"ready", "ok"},
         s \in {"sigil", "expiry"} => pos[v] = 1,
         s \in {"capExpiry", "nonce"} => pos[v] <= Len(arg[v].caps)
  PROVE  \A w \in Call : Shape(w) => Shape(w)'
<1>1. pc'[v] = s /\ \A w \in Call : w # v => pc'[w] = pc[w]
  BY DEF Goto, TypeOK
<1>2. pc[v] # "ready" /\ s # "ready" /\ s # "ok"
  BY DEF Checking
<1>3. pos'[v] <= Len(arg[v].caps) + 1
  BY <1>2, Zenon DEF Shape
<1>4. Shape(v)'
  BY <1>1, <1>2, <1>3, ShapeMoved, Zenon
<1> QED
  BY <1>1, <1>4, ShapeFrame, Zenon

LEMMA ShapeConsume ==
  ASSUME TypeOK, NEW v \in Call, Shape(v), ConsumeNonce(v)
  PROVE  \A w \in Call : Shape(w) => Shape(w)'
<1>1. PICK b \in BOOLEAN :
        /\ pc' = [pc EXCEPT ![v] = IF b THEN "cap" ELSE "replay_attack"]
        /\ pos' = [pos EXCEPT ![v] = IF b THEN @ + 1 ELSE @]
  <2>1. PICK a : /\ Goto(v, IF a.first THEN "cap" ELSE "replay_attack")
                 /\ pos' = [pos EXCEPT ![v] = IF a.first THEN @ + 1 ELSE @]
    BY Zenon DEF ConsumeNonce
  <2>2. CASE a.first
    BY <2>1, <2>2, Zenon DEF Goto
  <2>3. CASE ~a.first
    BY <2>1, <2>3, Zenon DEF Goto
  <2> QED
    BY <2>2, <2>3, Zenon
<1>2. pc[v] = "nonce" /\ UNCHANGED <<arg, boot, bootOf>>
  BY Zenon DEF ConsumeNonce, world
<1>3. pc \in [Call -> State] /\ pos \in [Call -> Nat \ {0}]
  BY Zenon DEF TypeOK
<1>4. \A w \in Call : w # v => pc'[w] = pc[w] /\ pos'[w] = pos[w]
  BY <1>1, <1>3
<1>5. pc'[v] \in {"cap", "replay_attack"} /\ pos'[v] \in {pos[v], pos[v] + 1}
  BY <1>1, <1>3
<1>6. pc[v] \in Checking
  BY <1>2 DEF Checking
<1>7. pos[v] <= Len(arg[v].caps) /\ arg[v] \in Envelope
  BY <1>2 DEF Shape
<1>8. pos'[v] <= Len(arg[v].caps) + 1
  <2>1. PICK cs \in Seq(Token) : cs = arg[v].caps
    BY <1>7 DEF Envelope
  <2>2. Len(cs) \in Nat /\ pos[v] \in Nat /\ pos[v] <= Len(cs)
    BY <1>3, <1>7, <2>1
  <2>3. pos'[v] <= Len(cs) + 1
    BY <1>5, <2>2
  <2> QED
    BY <2>1, <2>3, Zenon
<1>9. pc'[v] \notin {"ready", "sigil", "expiry", "capExpiry", "nonce", "ok"}
  BY <1>5
<1>10. Shape(v)'
  BY <1>2, <1>6, <1>8, <1>9, ShapeMoved, Zenon
<1> QED
  BY <1>2, <1>4, <1>10, ShapeFrame, Zenon

LEMMA ShapeStep == ASSUME ShapeInv, NEW v \in Call, Step(v) PROVE \A w \in Call : Shape(w)'
<1>0. Shape(v) /\ TypeOK /\ \A w \in Call : Shape(w)
  BY Zenon DEF ShapeInv
<1>1. CASE CheckSigil(v)
  <2>1. PICK r \in BOOLEAN : RevocationCheck(v, arg[v].sigil, r, "sigil_revoked", "expiry")
    BY <1>1, Zenon DEF CheckSigil
  <2>2. PICK s \in {"sigil_revoked", "expiry"} : Goto(v, s)
    BY <2>1, Zenon DEF RevocationCheck
  <2>3. pc[v] = "sigil" /\ UNCHANGED <<arg, pos, boot, bootOf>>
    BY <1>1, <2>1, Zenon DEF CheckSigil, RevocationCheck, world
  <2>4. pos[v] = 1
    BY <1>0, <2>3, Zenon DEF Shape
  <2>5. pc[v] \in Checking /\ s \in State /\ s \notin {"ready", "ok", "capExpiry", "nonce"}
    BY <2>3 DEF Checking, State, Denial
  <2> QED
    BY <1>0, <2>2, <2>3, <2>4, <2>5, ShapeStay, Zenon
<1>2. CASE CheckExpiry(v)
  <2>1. PICK s \in {"capability_expired", "cap"} : Goto(v, s)
    BY <1>2, Zenon DEF CheckExpiry
  <2>2. pc[v] = "expiry" /\ UNCHANGED <<arg, pos, boot, bootOf>>
    BY <1>2, Zenon DEF CheckExpiry, world, history
  <2>3. /\ pc[v] \in Checking /\ s \in State
        /\ s \notin {"ready", "ok", "sigil", "expiry", "capExpiry", "nonce"}
    BY <2>2 DEF Checking, State, Denial
  <2> QED
    BY <1>0, <2>1, <2>2, <2>3, ShapeStay, Zenon
<1>3. CASE CheckCap(v)
  <2>1. PICK r \in BOOLEAN : RevocationCheck(v, arg[v].caps[pos[v]].id, r, "cap_revoked", "capExpiry")
    BY <1>3, Zenon DEF CheckCap
  <2>2. PICK s \in {"cap_revoked", "capExpiry"} : Goto(v, s)
    BY <2>1, Zenon DEF RevocationCheck
  <2>3. pc[v] = "cap" /\ pos[v] <= Len(arg[v].caps) /\ UNCHANGED <<arg, pos, boot, bootOf>>
    BY <1>3, <2>1, Zenon DEF CheckCap, RevocationCheck, world
  <2>4. pc[v] \in Checking /\ s \in State /\ s \notin {"ready", "ok", "sigil", "expiry"}
    BY <2>3 DEF Checking, State, Denial
  <2> QED
    BY <1>0, <2>2, <2>3, <2>4, ShapeStay, Zenon
<1>4. CASE CheckCapExpiry(v)
  <2>1. PICK s \in {"capability_expired", "nonce"} : Goto(v, s)
    BY <1>4, Zenon DEF CheckCapExpiry
  <2>2. pc[v] = "capExpiry" /\ UNCHANGED <<arg, pos, boot, bootOf>>
    BY <1>4, Zenon DEF CheckCapExpiry, world, history
  <2>3. pos[v] <= Len(arg[v].caps)
    BY <1>0, <2>2, Zenon DEF Shape
  <2>4. pc[v] \in Checking /\ s \in State /\ s \notin {"ready", "ok", "sigil", "expiry"}
    BY <2>2 DEF Checking, State, Denial
  <2> QED
    BY <1>0, <2>1, <2>2, <2>3, <2>4, ShapeStay, Zenon
<1>5. CASE ConsumeNonce(v)
  BY <1>0, <1>5, ShapeConsume, Zenon
<1>6. CASE Admit(v)
  <2>1. /\ pc[v] = "cap" /\ pos[v] > Len(arg[v].caps) /\ UNCHANGED <<arg, pos, boot, bootOf>>
        /\ Goto(v, "ok")
    BY <1>6, Zenon DEF Admit, world, history
  <2>2. pc'[v] = "ok" /\ \A w \in Call : w # v => pc'[w] = pc[w]
    BY <1>0, <2>1 DEF Goto, TypeOK
  <2>3. arg[v] \in Envelope /\ pos[v] <= Len(arg[v].caps) + 1 /\ pos[v] \in Nat
    BY <1>0, <2>1 DEF Shape, TypeOK
  <2>4. PICK cs \in Seq(Token) : cs = arg[v].caps
    BY <2>3 DEF Envelope
  <2>5. pos[v] = Len(cs) + 1
    BY <2>1, <2>3, <2>4
  <2>6. pc[v] \in Checking
    BY <2>1 DEF Checking
  <2>7. "ok" \notin {"ready", "sigil", "expiry", "capExpiry", "nonce"}
    OBVIOUS
  <2>8. Shape(v)'
    BY <1>0, <2>1, <2>2, <2>3, <2>4, <2>5, <2>6, <2>7, ShapeMoved, Zenon
  <2> QED
    BY <1>0, <2>1, <2>2, <2>8, ShapeFrame, Zenon
<1> QED
  BY <1>1, <1>2, <1>3, <1>4, <1>5, <1>6, Zenon DEF Step

LEMMA ShapeBegin ==
  ASSUME ShapeInv, NEW v \in Call, NEW e \in envs, NEW intact \in BOOLEAN, Begin(v, e, intact)
  PROVE  \A w \in Call : Shape(w)'
<1>1. e \in Envelope /\ Len(e.caps) \in Nat
  BY DEF ShapeInv, TypeOK, Envelope
<1> QED
  BY <1>1 DEF ShapeInv, Begin, Goto, Shape, TypeOK, Checking, world

\* Nothing a call reads about itself changes.
CallsUnchanged == UNCHANGED <<pc, arg, pos, boot, bootOf>>

\* A step is a step of a call, a crash, or leaves every call alone.
LEMMA StepKinds ==
  ASSUME [Next]_vars
  PROVE  \/ \E v \in Call, e \in envs, intact \in BOOLEAN : Begin(v, e, intact)
         \/ \E v \in Call : Step(v)
         \/ Crash
         \/ /\ CallsUnchanged
            /\ UNCHANGED <<nonces, burnt, startVoid, startLate, misled, allowed, denied>>
            /\ revoked \subseteq revoked'
            /\ now' = now \/ (now' = now + 1 /\ UNCHANGED revoked)
<1>1. ASSUME NEW s \in Sigil, IssueSigil(s) \/ RevokeSigil(s)
      PROVE  /\ CallsUnchanged /\ UNCHANGED <<nonces, burnt, startVoid, startLate, misled, allowed, denied>>
             /\ revoked \subseteq revoked' /\ now' = now
  BY <1>1 DEF IssueSigil, RevokeSigil, CallsUnchanged, calls, world, history
<1>2. ASSUME NEW s \in Sigil, NEW id \in CapId, NEW n \in Nonce, NEW x \in Time, IssueCap(s, id, n, x)
      PROVE  /\ CallsUnchanged /\ UNCHANGED <<nonces, burnt, startVoid, startLate, misled, allowed, denied>>
             /\ revoked \subseteq revoked' /\ now' = now
  BY <1>2 DEF IssueCap, CallsUnchanged, broker, calls, history
<1>3. ASSUME NEW s \in Sigil, NEW cs \in CapLists, NEW x \in Time, IssueAttestation(s, cs, x)
      PROVE  /\ CallsUnchanged /\ UNCHANGED <<nonces, burnt, startVoid, startLate, misled, allowed, denied>>
             /\ revoked \subseteq revoked' /\ now' = now
  BY <1>3 DEF IssueAttestation, CallsUnchanged, broker, store, calls, history
<1>4. ASSUME NEW id \in CapId, RevokeCap(id)
      PROVE  /\ CallsUnchanged /\ UNCHANGED <<nonces, burnt, startVoid, startLate, misled, allowed, denied>>
             /\ revoked \subseteq revoked' /\ now' = now
  BY <1>4 DEF RevokeCap, CallsUnchanged, broker, calls, world, history
<1>5. Tick => /\ CallsUnchanged /\ UNCHANGED <<nonces, burnt, startVoid, startLate, misled, allowed, denied>>
              /\ revoked \subseteq revoked' /\ now' = now + 1 /\ UNCHANGED revoked
  BY DEF Tick, CallsUnchanged, broker, store, calls, history
<1>6. UNCHANGED vars =>
        /\ CallsUnchanged /\ UNCHANGED <<nonces, burnt, startVoid, startLate, misled, allowed, denied>>
        /\ revoked \subseteq revoked' /\ now' = now
  BY DEF vars, CallsUnchanged, broker, store, calls, world, history
<1> QED
  BY <1>1, <1>2, <1>3, <1>4, <1>5, <1>6 DEF Next

LEMMA ShapeNext == ShapeInv /\ [Next]_vars => ShapeInv'
<1> SUFFICES ASSUME ShapeInv, [Next]_vars PROVE \A w \in Call : Shape(w)'
  BY TypeNext DEF ShapeInv
<1>1. ASSUME Crash PROVE \A w \in Call : Shape(w)'
  BY <1>1 DEF ShapeInv, Crash, Shape, TypeOK, Checking
<1>2. ASSUME CallsUnchanged PROVE \A w \in Call : Shape(w)'
  BY <1>2 DEF ShapeInv, CallsUnchanged, Shape
<1> QED
  BY <1>1, <1>2, ShapeBegin, ShapeStep, StepKinds

\* Type correctness: every variable keeps its type, for every value of the constants.
THEOREM TypeCorrect == Spec => []TypeOK
<1>1. ShapeInv => TypeOK
  BY DEF ShapeInv
<1> QED
  BY <1>1, ShapeInit, ShapeNext, PTL DEF Spec

-----------------------------------------------------------------------------
(* One-time use.  The calls of one life of the store have spent disjoint   *)
(* sets of nonces, no call spent a nonce at two positions, and the store   *)
(* holds exactly what they spent and what lost inserts burnt.              *)

Live(v) == Durable \/ bootOf[v] = boot

Distinct(v) ==
  \A i, j \in 1..(pos[v] - 1) : arg[v].caps[i].nonce = arg[v].caps[j].nonce => i = j

SpentInv ==
  /\ \A v \in Call : Live(v) => Spent(v) \subseteq nonces
  /\ \A v \in Call : Live(v) => Spent(v) \cap burnt = {}
  /\ burnt \subseteq nonces
  /\ \A n \in nonces : n \in burnt \/ \E v \in Call : Live(v) /\ n \in Spent(v)
  /\ \A v, w \in Call : v # w /\ SameLife(v, w) => Spent(v) \cap Spent(w) = {}
  /\ \A v \in Call : Distinct(v)

LEMMA SpentReady == ASSUME NEW v \in Call, pos[v] = 1 PROVE Spent(v) = {} /\ Distinct(v)
  BY DEF Spent, Distinct

LEMMA SpentInit == Init => SpentInv
<1> SUFFICES ASSUME Init PROVE SpentInv
  OBVIOUS
<1>1. nonces = {} /\ burnt = {} /\ \A v \in Call : pos[v] = 1
  BY DEF Init
<1>2. \A v \in Call : Spent(v) = {} /\ Distinct(v)
  BY <1>1, SpentReady, Zenon
<1> QED
  BY <1>1, <1>2 DEF SpentInv

\* A step that changes neither the argument nor the position of a call, the
\* nonces or the process lives keeps the accounts.
LEMMA SpentFrame ==
  ASSUME SpentInv, UNCHANGED <<arg, pos, boot, bootOf, nonces, burnt>>
  PROVE  SpentInv'
<1>1. \A w \in Call : Spent(w)' = Spent(w) /\ (Distinct(w)' <=> Distinct(w)) /\ (Live(w)' <=> Live(w))
  BY DEF Spent, Distinct, Live
<1>2. \A w, u \in Call : SameLife(w, u)' <=> SameLife(w, u)
  BY DEF SameLife
<1> QED
  BY <1>1, <1>2 DEF SpentInv

LEMMA SpentBegin ==
  ASSUME ShapeInv, SpentInv, NEW v \in Call, NEW e \in envs, NEW intact \in BOOLEAN,
         Begin(v, e, intact)
  PROVE  SpentInv'
<1>1. pos[v] = 1 /\ pos' = pos
  BY DEF Begin, ShapeInv, Shape
<1>2. Spent(v) = {} /\ Spent(v)' = {} /\ Distinct(v)'
  BY <1>1 DEF Spent, Distinct
<1>3. \A w \in Call : w # v => Spent(w)' = Spent(w) /\ Distinct(w)' = Distinct(w)
                              /\ Live(w)' = Live(w) /\ bootOf'[w] = bootOf[w]
  BY DEF Begin, Spent, Distinct, Live, ShapeInv, TypeOK, world
<1>4. nonces' = nonces /\ burnt' = burnt
  BY Zenon DEF Begin, store
<1> QED
  BY <1>2, <1>3, <1>4 DEF SpentInv, SameLife

LEMMA SpentConsume ==
  ASSUME ShapeInv, SpentInv, NEW v \in Call, ConsumeNonce(v)
  PROVE  SpentInv'
<1>1. arg[v] \in Envelope /\ pos[v] \in Nat \ {0} /\ pos[v] <= Len(arg[v].caps) /\ bootOf[v] = boot
  BY DEF ConsumeNonce, ShapeInv, Shape, TypeOK, Checking
<1> DEFINE n == arg[v].caps[pos[v]].nonce
<1>2. n \in Nonce
  BY <1>1, CapFields
<1>3. PICK a \in TryRecordNonce(n) :
        /\ nonces' = a.rows
        /\ burnt' = burnt \cup a.lost
        /\ pos' = [pos EXCEPT ![v] = IF a.first THEN @ + 1 ELSE @]
  BY Zenon DEF ConsumeNonce
<1>4. UNCHANGED <<arg, boot, bootOf>>
  BY Zenon DEF ConsumeNonce, world
<1>5. \A w \in Call : (Live(w)' <=> Live(w)) /\ (w # v => Spent(w)' = Spent(w) /\ (Distinct(w)' <=> Distinct(w)))
  BY <1>3, <1>4 DEF Spent, Distinct, Live, ShapeInv, TypeOK
<1>6. CASE a.first
  <2>1. n \notin nonces /\ nonces' = nonces \cup {n} /\ burnt' = burnt
    BY <1>2, <1>3, <1>6, TryRecordNonceAnswers
  <2>2. pos'[v] = pos[v] + 1
    BY <1>3, <1>6 DEF ShapeInv, TypeOK
  <2>3. Spent(v)' = Spent(v) \cup {n}
    <3>1. pos'[v] - 1 = pos[v] /\ 1..pos[v] = (1..(pos[v] - 1)) \cup {pos[v]}
      BY <1>1, <2>2
    <3> QED
      BY <1>4, <3>1, Zenon DEF Spent
  <2>4. n \notin Spent(v)
    BY <1>1, <2>1, Zenon DEF SpentInv, Live
  <2>5. Distinct(v)'
    <3>1. Distinct(v)
      BY DEF SpentInv
    <3>2. \A i \in 1..(pos[v] - 1) : arg[v].caps[i].nonce # n
      BY <2>4 DEF Spent
    <3>a. pos'[v] - 1 = pos[v]
      BY <1>1, <2>2
    <3> SUFFICES ASSUME NEW i \in 1..pos[v], NEW j \in 1..pos[v],
                        arg[v].caps[i].nonce = arg[v].caps[j].nonce
                 PROVE  i = j
      BY <1>4, <3>a, Zenon DEF Distinct
    <3>3. (i = pos[v] \/ i \in 1..(pos[v] - 1)) /\ (j = pos[v] \/ j \in 1..(pos[v] - 1))
      BY <1>1
    <3> QED
      BY <3>1, <3>2, <3>3 DEF Distinct
  <2>6. \A w \in Call : w # v /\ SameLife(v, w) => n \notin Spent(w)
    BY <1>1, <2>1 DEF SpentInv, SameLife, Live
  <2>7. \A w \in Call : w # v /\ SameLife(w, v) => n \notin Spent(w)
    BY <2>6 DEF SameLife
  <2>8. \A w, u \in Call : SameLife(w, u)' <=> SameLife(w, u)
    BY <1>4 DEF SameLife
  <2>9. Live(v)
    BY <1>1, Zenon DEF Live
  <2>a. /\ \A w \in Call : Live(w) => Spent(w) \subseteq nonces /\ Spent(w) \cap burnt = {}
        /\ \A m \in nonces : m \in burnt \/ \E w \in Call : Live(w) /\ m \in Spent(w)
        /\ \A w, u \in Call : w # u /\ SameLife(w, u) => Spent(w) \cap Spent(u) = {}
        /\ burnt \subseteq nonces
    BY Zenon DEF SpentInv
  <2>b. \A w \in Call : w # v => Spent(w)' = Spent(w)
    BY <1>5, Zenon
  <2>c. \A w \in Call : Live(w)' <=> Live(w)
    BY <1>5, Zenon
  <2>10. ASSUME NEW w \in Call, Live(w)'
         PROVE  Spent(w)' \subseteq nonces' /\ Spent(w)' \cap burnt' = {}
    <3>1. Live(w) /\ Spent(w) \subseteq nonces /\ Spent(w) \cap burnt = {}
      BY <2>10, <2>a, <2>c, Zenon
    <3>2. Spent(w)' \subseteq Spent(w) \cup {n}
      BY <2>3, <2>b, Zenon
    <3> HIDE DEF n
    <3> QED
      BY <2>1, <2>a, <3>1, <3>2
  <2>11. ASSUME NEW m \in nonces'
         PROVE  m \in burnt' \/ \E w \in Call : Live(w)' /\ m \in Spent(w)'
    <3>1. \A w \in Call : Spent(w) \subseteq Spent(w)'
      BY <2>3, <2>b, Zenon
    <3>2. CASE m = n
      BY <3>2, <2>3, <2>9, <2>c, Zenon
    <3>3. CASE m \in nonces
      BY <3>1, <3>3, <2>1, <2>a, <2>c, Zenon
    <3> QED
      BY <2>1, <3>2, <3>3, Zenon
  <2>12. ASSUME NEW w \in Call, NEW u \in Call, w # u, SameLife(w, u)'
         PROVE  Spent(w)' \cap Spent(u)' = {}
    <3>1. SameLife(w, u) /\ Spent(w) \cap Spent(u) = {}
      BY <2>12, <2>8, <2>a, Zenon
    <3>2. CASE w = v
      <4>1. n \notin Spent(u) /\ Spent(u)' = Spent(u) /\ Spent(w)' = Spent(w) \cup {n}
        BY <3>1, <3>2, <2>12, <2>3, <2>6, <2>b, Zenon
      <4> HIDE DEF n
      <4> QED
        BY <3>1, <4>1
    <3>3. CASE u = v
      <4>1. n \notin Spent(w) /\ Spent(w)' = Spent(w) /\ Spent(u)' = Spent(u) \cup {n}
        BY <3>1, <3>3, <2>12, <2>3, <2>7, <2>b, Zenon
      <4> HIDE DEF n
      <4> QED
        BY <3>1, <4>1
    <3>4. CASE w # v /\ u # v
      BY <3>1, <3>4, <2>b, Zenon
    <3> QED
      BY <3>2, <3>3, <3>4, Zenon
  <2> QED
    BY <1>5, <2>1, <2>5, <2>10, <2>11, <2>12, Zenon DEF SpentInv
<1>7. CASE ~a.first
  <2>1. nonces' = nonces \cup a.lost /\ burnt' = burnt \cup a.lost /\ a.lost \cap nonces = {}
    BY <1>2, <1>3, <1>7, TryRecordNonceAnswers
  <2>2. pos' = pos
    BY <1>3, <1>7 DEF ShapeInv, TypeOK
  <2>3. \A w \in Call : Spent(w)' = Spent(w) /\ (Distinct(w)' <=> Distinct(w))
    BY <1>4, <2>2 DEF Spent, Distinct
  <2>4. \A w, u \in Call : SameLife(w, u)' <=> SameLife(w, u)
    BY <1>4 DEF SameLife
  <2>5. /\ \A w \in Call : Live(w) => Spent(w) \subseteq nonces /\ Spent(w) \cap burnt = {}
        /\ burnt \subseteq nonces
    BY Zenon DEF SpentInv
  <2>6. burnt' \subseteq nonces'
    BY <2>1, <2>5, Zenon
  <2>7. ASSUME NEW w \in Call, Live(w)'
        PROVE  Spent(w)' \subseteq nonces' /\ Spent(w)' \cap burnt' = {}
    <3>1. Spent(w)' = Spent(w) /\ Spent(w) \subseteq nonces /\ Spent(w) \cap burnt = {}
      BY <1>5, <2>3, <2>5, <2>7, Zenon
    <3> QED
      BY <2>1, <3>1
  <2>8. \A m \in nonces' : m \in burnt' \/ \E w \in Call : Live(w)' /\ m \in Spent(w)'
    <3>1. \A m \in nonces : m \in burnt \/ \E w \in Call : Live(w) /\ m \in Spent(w)
      BY Zenon DEF SpentInv
    <3> QED
      BY <1>5, <2>1, <2>3, <3>1, Zenon
  <2>9. ASSUME NEW w \in Call, NEW u \in Call, w # u, SameLife(w, u)'
        PROVE  Spent(w)' \cap Spent(u)' = {}
    <3>1. Spent(w) \cap Spent(u) = {}
      BY <2>4, <2>9, Zenon DEF SpentInv
    <3> QED
      BY <2>3, <3>1
  <2>10. \A w \in Call : Distinct(w)'
    BY <2>3, Zenon DEF SpentInv
  <2> QED
    BY <2>6, <2>7, <2>8, <2>9, <2>10, Zenon DEF SpentInv
<1> QED
  BY <1>2, <1>3, <1>6, <1>7, TryRecordNonceAnswers, Zenon

LEMMA SpentStep == ASSUME ShapeInv, SpentInv, NEW v \in Call, Step(v) PROVE SpentInv'
<1>1. CASE ConsumeNonce(v)
  BY <1>1, SpentConsume
<1>2. CASE ~ConsumeNonce(v)
  <2>1. UNCHANGED <<arg, pos, boot, bootOf, nonces, burnt>>
    BY <1>2 DEF Step, CheckSigil, CheckExpiry, CheckCap, CheckCapExpiry, Admit, RevocationCheck,
                store, world, history
  <2> QED
    BY <2>1, SpentFrame
<1> QED
  BY <1>1, <1>2

LEMMA SpentCrash == ASSUME ShapeInv, SpentInv, Crash PROVE SpentInv'
<1>1. UNCHANGED <<arg, pos, bootOf>> /\ boot' = boot + 1
  BY DEF Crash
<1>2. \A w \in Call : Spent(w)' = Spent(w) /\ (Distinct(w)' <=> Distinct(w))
  BY <1>1 DEF Spent, Distinct
<1>3. \A w, u \in Call : SameLife(w, u)' <=> SameLife(w, u)
  BY <1>1 DEF SameLife
<1>4. CASE Durable
  <2>1. PICK R : nonces' = nonces \cup R /\ burnt' = burnt \cup (R \ nonces)
    BY <1>4 DEF Crash
  <2>2. \A w \in Call : Live(w) /\ Live(w)'
    BY <1>4 DEF Live
  <2> QED
    BY <1>2, <1>3, <2>1, <2>2 DEF SpentInv
<1>5. CASE ~Durable
  <2>1. nonces' = {} /\ burnt' = {}
    BY <1>5 DEF Crash
  <2>2. \A w \in Call : ~Live(w)'
    BY <1>1, <1>5 DEF Live, ShapeInv, Shape, TypeOK
  <2> QED
    BY <1>2, <1>3, <2>1, <2>2 DEF SpentInv
<1> QED
  BY <1>4, <1>5

LEMMA SpentNext == ShapeInv /\ SpentInv /\ [Next]_vars => SpentInv'
<1> SUFFICES ASSUME ShapeInv, SpentInv, [Next]_vars PROVE SpentInv'
  OBVIOUS
<1>1. ASSUME CallsUnchanged, UNCHANGED <<nonces, burnt>> PROVE SpentInv'
  BY <1>1, SpentFrame DEF CallsUnchanged
<1> QED
  BY <1>1, SpentBegin, SpentStep, SpentCrash, StepKinds

LEMMA SpentCorrect == Spec => [](ShapeInv /\ SpentInv)
  BY ShapeInit, ShapeNext, SpentInit, SpentNext, PTL DEF Spec

\* An admitted call spent every nonce of its envelope.
LEMMA AdmittedSpentAll ==
  ASSUME ShapeInv, NEW v \in Call, pc[v] = "ok"
  PROVE  /\ Nonces(arg[v]) = Spent(v)
         /\ DOMAIN arg[v].caps = 1..(pos[v] - 1)
<1>1. arg[v] \in Envelope /\ pos[v] = Len(arg[v].caps) + 1
  BY DEF ShapeInv, Shape
<1>2. arg[v].caps \in Seq(Token)
  BY <1>1 DEF Envelope
<1>3. DOMAIN arg[v].caps = 1..(pos[v] - 1)
  BY <1>1, <1>2
<1> QED
  BY <1>3 DEF Nonces, Spent

\* One-time use of VerifyAttestation, for any number of concurrent calls, any
\* envelopes, lost answers and crashes, and either store.
THEOREM OneTimeUse == Spec => []AtMostOnce
<1>1. ShapeInv /\ SpentInv => AtMostOnce
  <2> SUFFICES ASSUME ShapeInv, SpentInv, NEW v \in Call, NEW w \in Call,
                      pc[v] = "ok", pc[w] = "ok", SameLife(v, w)
               PROVE  /\ v # w => Nonces(arg[v]) \cap Nonces(arg[w]) = {}
                      /\ \A i, j \in DOMAIN arg[v].caps :
                           arg[v].caps[i].nonce = arg[v].caps[j].nonce => i = j
    BY DEF AtMostOnce
  <2>1. Nonces(arg[v]) = Spent(v) /\ Nonces(arg[w]) = Spent(w)
    BY AdmittedSpentAll
  <2>2. v # w => Spent(v) \cap Spent(w) = {}
    BY DEF SpentInv
  <2>3. DOMAIN arg[v].caps = 1..(pos[v] - 1) /\ Distinct(v)
    BY AdmittedSpentAll DEF SpentInv
  <2> QED
    BY <2>1, <2>2, <2>3 DEF Distinct
<1> QED
  BY <1>1, SpentCorrect, PTL

\* consumed_nonces is exactly what the calls of this life of the store spent
\* and what lost inserts burnt, without overlap.
THEOREM NonceAccounts == Spec => []NoncesAccounted
<1>1. ShapeInv /\ SpentInv => NoncesAccounted
  BY DEF SpentInv, NoncesAccounted, Live, SameLife
<1> QED
  BY <1>1, SpentCorrect, PTL

-----------------------------------------------------------------------------
(* What was revoked or expired when a call was made is not admitted: as    *)
(* long as the call runs, the check that will find it lies ahead.          *)

\* The reason to refuse lies ahead: a check the call still has to make will
\* meet the revocation (or expiry) that was there when the call was made.
VoidAhead(v) ==
  \/ pc[v] = "sigil" /\ arg[v].sigil \in revoked
  \/ \E i \in DOMAIN arg[v].caps :
       /\ arg[v].caps[i].id \in revoked
       /\ i > pos[v] \/ (i = pos[v] /\ pc[v] \notin {"capExpiry", "nonce"})

LateAhead(v) ==
  \/ pc[v] \in {"sigil", "expiry"} /\ now > arg[v].expires
  \/ \E i \in DOMAIN arg[v].caps :
       /\ now > arg[v].caps[i].expires
       /\ i > pos[v] \/ (i = pos[v] /\ pc[v] # "nonce")

VoidInv(v) ==
  /\ pc[v] \in Checking /\ startVoid[v] => misled[v] \/ VoidAhead(v)
  /\ pc[v] = "ok" /\ startVoid[v] => misled[v]

LateInv(v) ==
  /\ pc[v] \in Checking /\ startLate[v] => LateAhead(v)
  /\ pc[v] = "ok" => ~startLate[v]

AheadInv ==
  /\ \A v \in Call : VoidInv(v) /\ LateInv(v)
  /\ ~Faults => \A v \in Call : ~misled[v]

LEMMA AheadInit == Init => AheadInv
  BY DEF Init, AheadInv, VoidInv, LateInv, Checking

\* The list of a made call and its positions.
LEMMA ListOf ==
  ASSUME ShapeInv, NEW v \in Call, pc[v] # "ready"
  PROVE  /\ arg[v] \in Envelope
         /\ Len(arg[v].caps) \in Nat
         /\ DOMAIN arg[v].caps = 1..Len(arg[v].caps)
         /\ pos[v] \in Nat \ {0}
         /\ pos[v] <= Len(arg[v].caps) + 1
<1>1. arg[v] \in Envelope /\ pos[v] \in Nat \ {0} /\ pos[v] <= Len(arg[v].caps) + 1
  BY DEF ShapeInv, Shape, TypeOK
<1>2. arg[v].caps \in Seq(Token)
  BY <1>1 DEF Envelope
<1> QED
  BY <1>1, <1>2

LEMMA ListStart ==
  ASSUME NEW s \in Seq(Token)
  PROVE  \A i \in DOMAIN s : i > 1 \/ i = 1
<1>1. DOMAIN s = 1..Len(s) /\ Len(s) \in Nat
  OBVIOUS
<1> QED
  BY <1>1

LEMMA AheadBegin ==
  ASSUME ShapeInv, AheadInv, NEW v \in Call, NEW e \in envs, NEW intact \in BOOLEAN,
         Begin(v, e, intact)
  PROVE  AheadInv'
<1>1. /\ arg'[v] = e /\ pos'[v] = 1 /\ startVoid'[v] = Void(e) /\ startLate'[v] = Late(e)
      /\ pc'[v] = (IF intact THEN "sigil" ELSE "signature_invalid")
      /\ UNCHANGED <<revoked, now, misled>>
  BY DEF Begin, Goto, ShapeInv, Shape, TypeOK, store, world
<1>2. e \in Envelope
  BY DEF ShapeInv, TypeOK
<1>2a. e.caps \in Seq(Token)
  BY <1>2 DEF Envelope
<1>2c. \A i \in DOMAIN e.caps : i > 1 \/ i = 1
  BY <1>2a, ListStart, Zenon
<1>3. VoidInv(v)' /\ LateInv(v)'
  <2>1. CASE intact
    <3>1. Void(e) => VoidAhead(v)'
      BY <1>1, <1>2c, <2>1, Zenon DEF Void, VoidAhead
    <3>2. Late(e) => LateAhead(v)'
      BY <1>1, <1>2c, <2>1, Zenon DEF Late, LateAhead
    <3> QED
      BY <1>1, <2>1, <3>1, <3>2, Zenon DEF VoidInv, LateInv
  <2>2. CASE ~intact
    BY <1>1, <2>2, Zenon DEF VoidInv, LateInv, Checking
  <2> QED
    BY <2>1, <2>2, Zenon
<1>4. ASSUME NEW w \in Call, w # v PROVE VoidInv(w)' /\ LateInv(w)'
  <2>1. /\ pc'[w] = pc[w] /\ arg'[w] = arg[w] /\ pos'[w] = pos[w]
        /\ startVoid'[w] = startVoid[w] /\ startLate'[w] = startLate[w]
    BY <1>4 DEF Begin, Goto, ShapeInv, TypeOK
  <2>2. VoidInv(w) /\ LateInv(w) /\ UNCHANGED <<revoked, now, misled>>
    BY <1>1, Zenon DEF AheadInv
  <2>3. (VoidAhead(w) <=> VoidAhead(w)') /\ (LateAhead(w) <=> LateAhead(w)')
    BY <2>1, <2>2, Zenon DEF VoidAhead, LateAhead
  <2> QED
    BY <2>1, <2>2, <2>3, Zenon DEF VoidInv, LateInv
<1> QED
  BY <1>1, <1>3, <1>4 DEF AheadInv

\* What the other calls see of a step of call v.
LEMMA OthersUntouched ==
  ASSUME ShapeInv, NEW v \in Call, Step(v)
  PROVE  /\ UNCHANGED <<arg, revoked, now, startVoid, startLate>>
         /\ \A w \in Call : w # v => pc'[w] = pc[w] /\ pos'[w] = pos[w] /\ misled'[w] = misled[w]
<1> USE DEF ShapeInv, TypeOK
<1>1. CASE CheckSigil(v)
  BY <1>1 DEF CheckSigil, RevocationCheck, Goto, store, world
<1>2. CASE CheckExpiry(v)
  BY <1>2, Zenon DEF CheckExpiry, Goto, store, world, history
<1>3. CASE CheckCap(v)
  BY <1>3, Zenon DEF CheckCap, RevocationCheck, Goto, store, world
<1>4. CASE CheckCapExpiry(v)
  BY <1>4, Zenon DEF CheckCapExpiry, Goto, store, world, history
<1>5. CASE ConsumeNonce(v)
  BY <1>5 DEF ConsumeNonce, Goto, world
<1>6. CASE Admit(v)
  BY <1>6 DEF Admit, Goto, store, world, history
<1> QED
  BY <1>1, <1>2, <1>3, <1>4, <1>5, <1>6 DEF Step

\* A revocation check that is told "not revoked" either was told so truly or is misled.
LEMMA CheckMisled ==
  ASSUME ShapeInv, NEW v \in Call, NEW id, NEW r \in BOOLEAN, NEW code, NEW next,
         RevocationCheck(v, id, r, code, next)
  PROVE  /\ pc'[v] = IF r THEN code ELSE next
         /\ pos'[v] = pos[v]
         /\ misled'[v] = (misled[v] \/ (id \in revoked /\ ~r))
         /\ ~Faults => (r <=> id \in revoked)
  BY Zenon DEF RevocationCheck, Goto, IsRevoked, ShapeInv, TypeOK

LEMMA AheadStep == ASSUME ShapeInv, AheadInv, NEW v \in Call, Step(v) PROVE AheadInv'
<1>0. VoidInv(v) /\ LateInv(v)
  BY DEF AheadInv
<1>a. UNCHANGED <<arg, revoked, now, startVoid, startLate>>
  BY OthersUntouched, Zenon
<1>b. pc[v] \in Checking
  BY Zenon DEF Step, CheckSigil, CheckExpiry, CheckCap, CheckCapExpiry, ConsumeNonce, Admit, Checking
<1>c. /\ DOMAIN arg[v].caps = 1..Len(arg[v].caps) /\ Len(arg[v].caps) \in Nat
      /\ pos[v] \in Nat \ {0} /\ pos[v] <= Len(arg[v].caps) + 1
  BY <1>b, ListOf DEF Checking
<1>d. misled \in [Call -> BOOLEAN]
  BY DEF ShapeInv, TypeOK
<1>1. ASSUME NEW w \in Call, w # v PROVE VoidInv(w)' /\ LateInv(w)'
  <2>1. pc'[w] = pc[w] /\ pos'[w] = pos[w] /\ misled'[w] = misled[w]
    BY <1>1, OthersUntouched
  <2>2. VoidInv(w) /\ LateInv(w)
    BY Zenon DEF AheadInv
  <2>3. (VoidAhead(w) <=> VoidAhead(w)') /\ (LateAhead(w) <=> LateAhead(w)')
    BY <1>a, <2>1, Zenon DEF VoidAhead, LateAhead
  <2> QED
    BY <1>a, <2>1, <2>2, <2>3, Zenon DEF VoidInv, LateInv
<1>2. VoidInv(v)' /\ LateInv(v)' /\ (~Faults /\ ~misled[v] => ~misled'[v])
  <2>1. CASE CheckSigil(v)
    <3>1. PICK r \in BOOLEAN :
            /\ pc'[v] = IF r THEN "sigil_revoked" ELSE "expiry"
            /\ pos'[v] = pos[v]
            /\ misled'[v] = (misled[v] \/ (arg[v].sigil \in revoked /\ ~r))
            /\ ~Faults => (r <=> arg[v].sigil \in revoked)
      BY <2>1, CheckMisled DEF CheckSigil
    <3>2. pc[v] = "sigil"
      BY <2>1, Zenon DEF CheckSigil
    <3> QED
      BY <1>0, <1>a, <1>c, <1>d, <3>1, <3>2, Zenon DEF VoidInv, LateInv, VoidAhead, LateAhead, Checking
  <2>2. CASE CheckExpiry(v)
    <3>1. /\ pc[v] = "expiry" /\ pos'[v] = pos[v] /\ misled'[v] = misled[v]
          /\ pc'[v] = IF now > arg[v].expires THEN "capability_expired" ELSE "cap"
      BY <2>2 DEF CheckExpiry, Goto, ShapeInv, TypeOK, history
    <3> QED
      BY <1>0, <1>a, <1>c, <3>1 DEF VoidInv, LateInv, VoidAhead, LateAhead, Checking
  <2>3. CASE CheckCap(v)
    <3> DEFINE id == arg[v].caps[pos[v]].id
    <3>1. PICK r \in BOOLEAN :
            /\ pc'[v] = IF r THEN "cap_revoked" ELSE "capExpiry"
            /\ pos'[v] = pos[v]
            /\ misled'[v] = (misled[v] \/ (id \in revoked /\ ~r))
            /\ ~Faults => (r <=> id \in revoked)
      BY <2>3, CheckMisled, Zenon DEF CheckCap
    <3>2. pc[v] = "cap"
      BY <2>3, Zenon DEF CheckCap
    <3> QED
      BY <1>0, <1>a, <1>c, <1>d, <3>1, <3>2, Zenon DEF VoidInv, LateInv, VoidAhead, LateAhead, Checking
  <2>4. CASE CheckCapExpiry(v)
    <3>1. /\ pc[v] = "capExpiry" /\ pos'[v] = pos[v] /\ misled'[v] = misled[v]
          /\ pc'[v] = IF now > arg[v].caps[pos[v]].expires THEN "capability_expired" ELSE "nonce"
      BY <2>4 DEF CheckCapExpiry, Goto, ShapeInv, TypeOK, history
    <3> QED
      BY <1>0, <1>a, <1>c, <3>1, Zenon DEF VoidInv, LateInv, VoidAhead, LateAhead, Checking
  <2>5. CASE ConsumeNonce(v)
    <3>1. pc[v] = "nonce" /\ misled'[v] = misled[v]
      BY <2>5, Zenon DEF ConsumeNonce
    <3>2. PICK a : /\ pc'[v] = IF a.first THEN "cap" ELSE "replay_attack"
                   /\ pos'[v] = IF a.first THEN pos[v] + 1 ELSE pos[v]
      BY <2>5, Zenon DEF ConsumeNonce, Goto, ShapeInv, TypeOK
    <3>3. CASE a.first
      <4>1. pc'[v] = "cap" /\ pos'[v] = pos[v] + 1
        BY <3>2, <3>3
      <4>2. \A i \in DOMAIN arg[v].caps : i > pos[v] => i > pos[v] + 1 \/ i = pos[v] + 1
        BY <1>c
      <4>3. (VoidAhead(v) => VoidAhead(v)') /\ (LateAhead(v) => LateAhead(v)')
        BY <1>a, <3>1, <4>1, <4>2, Zenon DEF VoidAhead, LateAhead
      <4> QED
        BY <1>0, <1>a, <3>1, <4>1, <4>3, Zenon DEF VoidInv, LateInv, Checking
    <3>4. CASE ~a.first
      BY <3>1, <3>2, <3>4 DEF VoidInv, LateInv, Checking
    <3> QED
      BY <3>3, <3>4, Zenon
  <2>6. CASE Admit(v)
    <3>1. pc[v] = "cap" /\ pc'[v] = "ok" /\ misled'[v] = misled[v] /\ pos[v] > Len(arg[v].caps)
      BY <2>6 DEF Admit, Goto, ShapeInv, TypeOK, history
    <3>a. \A i \in DOMAIN arg[v].caps : ~(i > pos[v]) /\ i # pos[v]
      BY <1>c, <3>1
    <3>2. ~VoidAhead(v) /\ ~LateAhead(v)
      BY <3>1, <3>a, Zenon DEF VoidAhead, LateAhead
    <3> QED
      BY <1>0, <1>a, <1>b, <3>1, <3>2 DEF VoidInv, LateInv, Checking
  <2> QED
    BY <2>1, <2>2, <2>3, <2>4, <2>5, <2>6 DEF Step
<1>3. ~Faults => \A w \in Call : ~misled'[w]
  BY <1>2, OthersUntouched DEF AheadInv
<1> QED
  BY <1>1, <1>2, <1>3 DEF AheadInv

LEMMA AheadCrash == ASSUME ShapeInv, AheadInv, Crash PROVE AheadInv'
<1>1. UNCHANGED <<startVoid, startLate, misled>>
  BY Zenon DEF Crash
<1>2. \A w \in Call : pc'[w] \notin Checking /\ (pc'[w] = "ok" => pc[w] = "ok")
  BY DEF Crash, ShapeInv, TypeOK, Checking
<1> QED
  BY <1>1, <1>2 DEF AheadInv, VoidInv, LateInv

LEMMA AheadQuiet ==
  ASSUME ShapeInv, AheadInv, CallsUnchanged, UNCHANGED <<startVoid, startLate, misled>>,
         revoked \subseteq revoked', now' \in {now, now + 1}
  PROVE  AheadInv'
<1> SUFFICES ASSUME NEW w \in Call PROVE VoidInv(w)' /\ LateInv(w)'
  BY DEF AheadInv
<1>1. VoidInv(w) /\ LateInv(w)
  BY Zenon DEF AheadInv
<1>2. VoidAhead(w) => VoidAhead(w)'
  BY Zenon DEF VoidAhead, CallsUnchanged
<1>3. ASSUME pc[w] # "ready", LateAhead(w) PROVE LateAhead(w)'
  <2>a. now \in Time
    BY Zenon DEF ShapeInv, TypeOK
  <2>b. Time \subseteq Nat /\ Time \subseteq Int
    BY BoundsAssumption DEF Time
  <2>1. arg[w] \in Envelope /\ now \in Nat
    BY <1>3, <2>a, <2>b, Zenon DEF ShapeInv, Shape
  <2>c. arg[w].expires \in Time /\ arg[w].caps \in Seq(Token)
    BY <2>1 DEF Envelope
  <2>2. arg[w].expires \in Int /\ arg[w].caps \in Seq(Token)
    BY <2>b, <2>c, Zenon
  <2>3. \A i \in DOMAIN arg[w].caps : arg[w].caps[i] \in Token
    BY <2>2
  <2>d. \A x \in Token : x.expires \in Int
    BY BoundsAssumption DEF Token, Time
  <2>4. \A i \in DOMAIN arg[w].caps : arg[w].caps[i].expires \in Int
    BY <2>3, <2>d, Zenon
  <2>5. \A x \in Int : now > x => now' > x
    BY <2>1
  <2> QED
    BY <1>3, <2>2, <2>4, <2>5 DEF LateAhead, CallsUnchanged
<1> QED
  BY <1>1, <1>2, <1>3 DEF VoidInv, LateInv, CallsUnchanged, Checking

LEMMA AheadNext == ShapeInv /\ AheadInv /\ [Next]_vars => AheadInv'
  BY AheadBegin, AheadStep, AheadCrash, AheadQuiet, StepKinds

LEMMA AheadCorrect == Spec => [](ShapeInv /\ SpentInv /\ AheadInv)
  BY ShapeInit, ShapeNext, SpentInit, SpentNext, AheadInit, AheadNext, PTL DEF Spec

\* The revocation contract: nothing revoked before the call is admitted,
\* except through a query failure of that very call.
THEOREM RevocationContract == Spec => []RevocationHonoured
<1>1. AheadInv => RevocationHonoured
  BY Zenon DEF AheadInv, VoidInv, RevocationHonoured
<1> QED
  BY <1>1, AheadCorrect, PTL

\* Nothing expired before the call is admitted.
THEOREM ExpiryContract == Spec => []ExpiryHonoured
<1>1. AheadInv => ExpiryHonoured
  BY DEF AheadInv, LateInv, ExpiryHonoured
<1> QED
  BY <1>1, AheadCorrect, PTL

-----------------------------------------------------------------------------
(* Over a durable store VerifyAttestation implements OneTimeGrant: the     *)
(* initial states map to initial states, every step to a step or a stutter.*)

\* The abstract variables under the mapping of Grants.
verdictBar == [v \in Call |-> VerdictOf(v)]
claimBar   == [v \in Call |-> IF pc[v] = "ready" THEN {} ELSE Nonces(arg[v])]
soundBar   == [v \in Call |-> ~startVoid[v] /\ ~startLate[v]]

LEMMA GrantInitial == Init => Grants!GrantInit
<1> SUFFICES ASSUME Init PROVE Grants!GrantInit
  OBVIOUS
<1>1. \A v \in Call : pc[v] = "ready" /\ ~startVoid[v] /\ ~startLate[v]
  BY DEF Init
<1> QED
  BY <1>1, Zenon DEF Grants!GrantInit, VerdictOf

LEMMA GrantBegin ==
  ASSUME ShapeInv, NEW v \in Call, NEW e \in envs, NEW intact \in BOOLEAN, Begin(v, e, intact)
  PROVE  Grants!GrantNext
<1>1. e \in Envelope
  BY Zenon DEF ShapeInv, TypeOK
<1>2. Nonces(e) \subseteq Nonce
  <2>1. e.caps \in Seq(Token)
    BY <1>1 DEF Envelope
  <2>2. \A i \in DOMAIN e.caps : e.caps[i] \in Token
    BY <2>1
  <2> QED
    BY <2>2, Zenon DEF Nonces, Token
<1> DEFINE d == IF intact THEN "open" ELSE "refused"
<1>3. pc[v] = "ready" /\ pc'[v] = (IF intact THEN "sigil" ELSE "signature_invalid")
  BY Zenon DEF Begin, Goto, ShapeInv, TypeOK
<1>4. \A w \in Call : w # v => /\ pc'[w] = pc[w] /\ arg'[w] = arg[w]
                               /\ startVoid'[w] = startVoid[w] /\ startLate'[w] = startLate[w]
  BY Zenon DEF Begin, Goto, ShapeInv, TypeOK
<1>5. arg'[v] = e
  BY Zenon DEF Begin, ShapeInv, TypeOK
<1>6. verdictBar[v] = "unmade"
  BY <1>3 DEF verdictBar, VerdictOf
<1>7. verdictBar' = [verdictBar EXCEPT ![v] = d]
  BY <1>3, <1>4, Zenon DEF verdictBar, VerdictOf, Checking
<1>8. claimBar' = [claimBar EXCEPT ![v] = Nonces(e)]
  <2>1. Nonces(arg'[v]) = Nonces(e) /\ \A w \in Call : w # v => Nonces(arg'[w]) = Nonces(arg[w])
    BY <1>4, <1>5, Zenon
  <2>2. claimBar' = [w \in Call |-> IF pc'[w] = "ready" THEN {} ELSE Nonces(arg'[w])]
    BY Zenon DEF claimBar, Nonces
  <2>3. claimBar' = [w \in Call |-> IF w = v THEN Nonces(e) ELSE claimBar[w]]
    BY <1>3, <1>4, <2>1, <2>2 DEF claimBar
  <2> QED
    BY <2>3, Zenon DEF claimBar
<1>9. soundBar' = [soundBar EXCEPT ![v] = soundBar'[v]] /\ soundBar'[v] \in BOOLEAN
  BY <1>4, Zenon DEF soundBar
<1>10. Grants!Ask(v)
  BY <1>2, <1>6, <1>7, <1>8, <1>9, Zenon DEF Grants!Ask, verdictBar, claimBar, soundBar
<1> QED
  BY <1>10, Zenon DEF Grants!GrantNext

\* A check that does not admit leaves the call open or refuses it.
LEMMA GrantCheck ==
  ASSUME ShapeInv, NEW v \in Call, Step(v), ~Admit(v)
  PROVE  Grants!GrantNext \/ UNCHANGED Grants!gvars
<1>1. UNCHANGED <<arg, startVoid, startLate>> /\ \A w \in Call : w # v => pc'[w] = pc[w]
  BY OthersUntouched
<1>2. pc[v] \in Checking /\ pc'[v] \in Checking \cup Denial
  BY Zenon DEF Step, CheckSigil, CheckExpiry, CheckCap, CheckCapExpiry, ConsumeNonce, RevocationCheck,
         Goto, Checking, Denial, ShapeInv, TypeOK
<1>3. claimBar' = claimBar /\ soundBar' = soundBar
  BY <1>1, <1>2, Zenon DEF claimBar, soundBar, Checking, Denial, Nonces
<1>4. CASE pc'[v] \in Checking
  <2>1. verdictBar' = verdictBar
    BY <1>1, <1>2, <1>4 DEF verdictBar, VerdictOf, Checking
  <2> QED
    BY <1>3, <2>1, Zenon DEF Grants!gvars, verdictBar, claimBar, soundBar
<1>5. CASE pc'[v] \in Denial
  <2>1. verdictBar[v] = "open"
    BY <1>2, Zenon DEF verdictBar, VerdictOf, Checking
  <2>2. verdictBar' = [w \in Call |-> IF w \in {v} THEN "refused" ELSE verdictBar[w]]
    BY <1>1, <1>5, Zenon DEF verdictBar, VerdictOf, Checking, Denial
  <2>3. Grants!Refuse({v})
    BY <1>3, <2>1, <2>2 DEF Grants!Refuse, verdictBar, claimBar, soundBar
  <2> QED
    BY <2>3 DEF Grants!GrantNext
<1> QED
  BY <1>2, <1>4, <1>5

LEMMA GrantAdmit ==
  ASSUME Durable, ShapeInv, SpentInv, AheadInv, NEW v \in Call, Admit(v)
  PROVE  Grants!GrantNext
<1>1. /\ pc[v] = "cap" /\ pos[v] > Len(arg[v].caps) /\ pc'[v] = "ok"
      /\ UNCHANGED <<arg, startVoid, startLate>>
      /\ \A w \in Call : w # v => pc'[w] = pc[w]
  BY Zenon DEF Admit, Goto, ShapeInv, TypeOK, history
<1>2. /\ DOMAIN arg[v].caps = 1..Len(arg[v].caps) /\ Len(arg[v].caps) \in Nat
      /\ pos[v] = Len(arg[v].caps) + 1
  BY <1>1, ListOf
<1>3. Nonces(arg[v]) = Spent(v)
  BY <1>2 DEF Nonces, Spent
<1>4. \A w \in Call : pc[w] = "ok" => Nonces(arg[v]) \cap Nonces(arg[w]) = {}
  <2> SUFFICES ASSUME NEW w \in Call, pc[w] = "ok" PROVE Spent(v) \cap Nonces(arg[w]) = {}
    BY <1>3
  <2>1. w # v /\ SameLife(v, w)
    BY <1>1 DEF SameLife
  <2>2. Nonces(arg[w]) = Spent(w)
    BY AdmittedSpentAll, Zenon
  <2> QED
    BY <2>1, <2>2, Zenon DEF SpentInv
<1>5. ~Faults => ~startVoid[v] /\ ~startLate[v]
  <2>1. ~VoidAhead(v) /\ ~LateAhead(v)
    BY <1>1, <1>2 DEF VoidAhead, LateAhead
  <2> QED
    BY <1>1, <2>1, Zenon DEF AheadInv, VoidInv, LateInv, Checking
<1>6. claimBar' = claimBar /\ soundBar' = soundBar
  BY <1>1 DEF claimBar, soundBar, Nonces
<1>7. verdictBar[v] = "open" /\ verdictBar' = [verdictBar EXCEPT ![v] = "granted"]
  BY <1>1, Zenon DEF verdictBar, VerdictOf, Checking
<1>8. \A w \in Call : verdictBar[w] = "granted" => pc[w] = "ok"
  BY DEF verdictBar, VerdictOf
<1>9. claimBar[v] \cap UNION {claimBar[w] : w \in {u \in Call : verdictBar[u] = "granted"}} = {}
  BY <1>1, <1>4, <1>8 DEF claimBar
<1>10. ~Faults => soundBar[v]
  BY <1>5, Zenon DEF soundBar
<1>11. Grants!Grant(v)
  BY <1>6, <1>7, <1>9, <1>10, Zenon DEF Grants!Grant, Grants!Granted, verdictBar, claimBar, soundBar
<1> QED
  BY <1>11, Zenon DEF Grants!GrantNext

LEMMA GrantCrash == ASSUME ShapeInv, Crash PROVE Grants!GrantNext
<1> DEFINE V == {w \in Call : pc[w] \in Checking}
<1>1. UNCHANGED <<arg, startVoid, startLate>>
  BY DEF Crash
<1>2. pc' = [w \in Call |-> IF pc[w] \in Checking THEN "crashed" ELSE pc[w]]
  BY DEF Crash
<1>3. claimBar' = claimBar /\ soundBar' = soundBar
  BY <1>1, <1>2 DEF claimBar, soundBar, Checking, Nonces
<1>4. \A w \in V : verdictBar[w] = "open"
  BY DEF verdictBar, VerdictOf, Checking
<1>5. verdictBar' = [w \in Call |-> IF w \in V THEN "refused" ELSE verdictBar[w]]
  BY <1>2, Zenon DEF verdictBar, VerdictOf, Checking
<1>6. Grants!Refuse(V)
  BY <1>3, <1>4, <1>5 DEF Grants!Refuse, verdictBar, claimBar, soundBar
<1> QED
  BY <1>6 DEF Grants!GrantNext

LEMMA GrantQuiet == ASSUME CallsUnchanged, UNCHANGED <<startVoid, startLate>> PROVE UNCHANGED Grants!gvars
  BY DEF CallsUnchanged, Grants!gvars, VerdictOf, Nonces

\* Refinement: over PgStore every behaviour of the interleaved checks is a
\* behaviour of the one-step grant.
THEOREM GrantRefinement == ASSUME Durable PROVE Spec => ImplementsGrant
<1>1. ShapeInv /\ SpentInv /\ AheadInv /\ [Next]_vars => [Grants!GrantNext]_(Grants!gvars)
  <2> SUFFICES ASSUME ShapeInv, SpentInv, AheadInv, [Next]_vars
               PROVE  Grants!GrantNext \/ UNCHANGED Grants!gvars
    OBVIOUS
  <2>1. ASSUME NEW v \in Call, Step(v) PROVE Grants!GrantNext \/ UNCHANGED Grants!gvars
    BY <2>1, GrantCheck, GrantAdmit
  <2> QED
    BY <2>1, GrantBegin, GrantCrash, GrantQuiet, StepKinds
<1> QED
  BY <1>1, GrantInitial, AheadCorrect, PTL DEF Spec, ImplementsGrant, Grants!GrantSpec

-----------------------------------------------------------------------------
(* The counters behind hanko_verify_revocation_check_total:                *)
(* each counts the calls that ended one way, for every finite set of calls.*)

INSTANCE FiniteSetTheorems

Hits == {"sigil_revoked", "cap_revoked"}

LEMMA ReturnedFinite == ASSUME NEW C PROVE IsFiniteSet(Returned(C)) /\ IsFiniteSet(Returned(C))'
<1>1. Returned(C) \subseteq Call /\ Returned(C)' \subseteq Call
  BY DEF Returned
<1> QED
  BY <1>1, CallAssumption, FS_Subset

\* One call more has returned one of the codes: the count grows by one.
LEMMA ReturnedOneMore ==
  ASSUME NEW C, NEW v \in Call, v \notin Returned(C), Returned(C)' = Returned(C) \cup {v}
  PROVE  Cardinality(Returned(C))' = Cardinality(Returned(C)) + 1
  BY ReturnedFinite, FS_AddElement, Zenon

LEMMA CountersBegin ==
  ASSUME ShapeInv, CountersAgree, NEW v \in Call, NEW e \in envs, NEW intact \in BOOLEAN,
         Begin(v, e, intact)
  PROVE  CountersAgree'
<1>1. pc[v] = "ready" /\ pc'[v] \in {"sigil", "signature_invalid"} /\ boot' = boot
  BY Zenon DEF Begin, Goto, ShapeInv, TypeOK, world
<1>2. \A w \in Call : w # v => pc'[w] = pc[w] /\ bootOf'[w] = bootOf[w]
  BY DEF Begin, Goto, ShapeInv, TypeOK
<1>3. Returned({"ok"})' = Returned({"ok"}) /\ Returned(Hits)' = Returned(Hits)
  BY <1>1, <1>2 DEF Returned, Hits
<1> QED
  BY <1>3, Zenon DEF CountersAgree, Hits, Begin, broker

LEMMA CountersCheck ==
  ASSUME ShapeInv, CountersAgree, NEW v \in Call, NEW id, NEW r \in BOOLEAN, NEW code \in Hits,
         NEW next \in Checking, pc[v] \in Checking, RevocationCheck(v, id, r, code, next)
  PROVE  CountersAgree'
<1>1. /\ pc'[v] = IF r THEN code ELSE next
      /\ \A w \in Call : w # v => pc'[w] = pc[w]
      /\ UNCHANGED <<boot, bootOf, allowed>>
  BY Zenon DEF RevocationCheck, Goto, ShapeInv, TypeOK, world
<1>2. bootOf[v] = boot
  BY Zenon DEF ShapeInv, Shape
<1>3. Returned({"ok"})' = Returned({"ok"})
  BY <1>1, Zenon DEF Returned, Hits, Checking
<1>4. CASE r
  <2>1. v \notin Returned(Hits) /\ Returned(Hits)' = Returned(Hits) \cup {v}
    BY <1>1, <1>2, <1>4, Zenon DEF Returned, Hits, Checking
  <2>2. denied' = denied + 1
    BY <1>4, Zenon DEF RevocationCheck
  <2> QED
    BY <1>1, <1>3, <2>1, <2>2, ReturnedOneMore, Zenon DEF CountersAgree, Hits
<1>5. CASE ~r
  <2>1. Returned(Hits)' = Returned(Hits)
    BY <1>1, <1>5 DEF Returned, Hits, Checking
  <2>2. denied' = denied
    BY <1>5 DEF RevocationCheck
  <2> QED
    BY <1>1, <1>3, <2>1, <2>2, Zenon DEF CountersAgree, Hits
<1> QED
  BY <1>4, <1>5, Zenon

LEMMA CountersStep == ASSUME ShapeInv, CountersAgree, NEW v \in Call, Step(v) PROVE CountersAgree'
<1>1. CASE CheckSigil(v)
  BY <1>1, CountersCheck, Zenon DEF CheckSigil, Hits, Checking
<1>2. CASE CheckCap(v)
  BY <1>2, CountersCheck, Zenon DEF CheckCap, Hits, Checking
<1>3. CASE CheckExpiry(v) \/ CheckCapExpiry(v) \/ ConsumeNonce(v)
  <2>1. /\ pc[v] \in Checking /\ pc'[v] \notin Hits \cup {"ok"}
        /\ \A w \in Call : w # v => pc'[w] = pc[w]
        /\ UNCHANGED <<boot, bootOf, allowed, denied>>
    BY <1>3 DEF CheckExpiry, CheckCapExpiry, ConsumeNonce, Goto, Hits, Checking, ShapeInv, TypeOK,
                broker, world, history
  <2>2. Returned({"ok"})' = Returned({"ok"}) /\ Returned(Hits)' = Returned(Hits)
    BY <2>1, Zenon DEF Returned, Hits, Checking
  <2> QED
    BY <2>1, <2>2, Zenon DEF CountersAgree, Hits
<1>4. CASE Admit(v)
  <2>1. /\ pc[v] = "cap" /\ pc'[v] = "ok" /\ bootOf[v] = boot
        /\ \A w \in Call : w # v => pc'[w] = pc[w]
        /\ UNCHANGED <<boot, bootOf, denied>> /\ allowed' = allowed + 1
    BY <1>4 DEF Admit, Goto, Checking, ShapeInv, Shape, TypeOK, world, history
  <2>2. Returned(Hits)' = Returned(Hits)
    BY <2>1, Zenon DEF Returned, Hits
  <2>3. v \notin Returned({"ok"}) /\ Returned({"ok"})' = Returned({"ok"}) \cup {v}
    BY <2>1, Zenon DEF Returned
  <2> QED
    BY <2>1, <2>2, <2>3, ReturnedOneMore, Zenon DEF CountersAgree, Hits
<1> QED
  BY <1>1, <1>2, <1>3, <1>4 DEF Step

LEMMA CountersCrash == ASSUME ShapeInv, Crash PROVE CountersAgree'
<1>0. boot' = boot + 1 /\ bootOf' = bootOf
  BY Zenon DEF Crash
<1>a. \A w \in Call : bootOf[w] \in Nat /\ boot \in Nat /\ bootOf[w] <= boot
  BY DEF ShapeInv, Shape, TypeOK
<1>1. \A w \in Call : bootOf'[w] # boot'
  BY <1>0, <1>a
<1>2. Returned({"ok"})' = {} /\ Returned(Hits)' = {}
  BY <1>1 DEF Returned
<1> QED
  BY <1>2, FS_EmptySet DEF CountersAgree, Hits, Crash

\* The counters of MetricsSnapshot equal the verdicts of this process, whatever
\* the interleaving of the calls.
THEOREM CountersCorrect == Spec => []CountersAgree
<1>1. Init => CountersAgree
  <2>1. Init => Returned({"ok"}) = {} /\ Returned(Hits) = {}
    BY DEF Init, Returned, Hits
  <2> QED
    BY <2>1, FS_EmptySet DEF CountersAgree, Hits, Init
<1>2. ShapeInv /\ CountersAgree /\ [Next]_vars => CountersAgree'
  <2> SUFFICES ASSUME ShapeInv, CountersAgree, [Next]_vars PROVE CountersAgree'
    OBVIOUS
  <2>1. ASSUME CallsUnchanged, UNCHANGED <<allowed, denied>> PROVE CountersAgree'
    BY <2>1 DEF CountersAgree, CallsUnchanged, Returned
  <2> QED
    BY <2>1, CountersBegin, CountersStep, CountersCrash, StepKinds
<1> QED
  BY <1>1, <1>2, ShapeInit, ShapeNext, PTL DEF Spec
-----------------------------------------------------------------------------
(* A race has a winner.  Without lost answers a call is turned away by     *)
(* another call that spent the nonce, so among the calls turned away at    *)
(* the greatest nonce of a common order, each would need a greater one.    *)

RaceInv ==
  ~Faults /\ boot = 0 =>
    /\ burnt = {}
    /\ \A v \in Call : pc[v] = "replay_attack" =>
         pos[v] <= Len(arg[v].caps) /\ arg[v].caps[pos[v]].nonce \in nonces

LEMMA RaceInit == Init => RaceInv
<1> SUFFICES ASSUME Init PROVE RaceInv
  OBVIOUS
<1>1. burnt = {} /\ \A v \in Call : pc[v] = "ready"
  BY DEF Init
<1> QED
  BY <1>1 DEF RaceInv

\* A step that turns no call away, moves none that was and forgets no nonce.
LEMMA RaceFrame ==
  ASSUME RaceInv, boot' = boot, burnt' = burnt, nonces \subseteq nonces',
         \A v \in Call : pc'[v] = "replay_attack" =>
           pc[v] = "replay_attack" /\ arg'[v] = arg[v] /\ pos'[v] = pos[v]
  PROVE  RaceInv'
<1> SUFFICES ASSUME ~Faults, boot' = 0
             PROVE  /\ burnt' = {}
                    /\ \A v \in Call : pc'[v] = "replay_attack" =>
                         /\ pos'[v] <= Len(arg'[v].caps)
                         /\ arg'[v].caps[pos'[v]].nonce \in nonces'
  BY Zenon DEF RaceInv
<1>1. /\ burnt = {}
      /\ \A v \in Call : pc[v] = "replay_attack" =>
           pos[v] <= Len(arg[v].caps) /\ arg[v].caps[pos[v]].nonce \in nonces
  BY Zenon DEF RaceInv
<1> QED
  BY <1>1, Zenon

LEMMA RaceBegin ==
  ASSUME ShapeInv, RaceInv, NEW v \in Call, NEW e \in envs, NEW intact \in BOOLEAN,
         Begin(v, e, intact)
  PROVE  RaceInv'
<1>1. boot' = boot /\ burnt' = burnt /\ nonces' = nonces /\ pos' = pos
  BY Zenon DEF Begin, store, world
<1>2. pc'[v] # "replay_attack" /\ \A w \in Call : w # v => pc'[w] = pc[w] /\ arg'[w] = arg[w]
  BY DEF Begin, Goto, ShapeInv, TypeOK
<1> QED
  BY <1>1, <1>2, RaceFrame, Zenon

LEMMA RaceConsume ==
  ASSUME ShapeInv, RaceInv, NEW v \in Call, ConsumeNonce(v)
  PROVE  RaceInv'
<1> DEFINE n == arg[v].caps[pos[v]].nonce
<1>1. UNCHANGED <<arg, boot>>
  BY Zenon DEF ConsumeNonce, world
<1> SUFFICES ASSUME ~Faults, boot = 0
             PROVE  /\ burnt' = {}
                    /\ \A w \in Call : pc'[w] = "replay_attack" =>
                         pos'[w] <= Len(arg[w].caps) /\ arg[w].caps[pos'[w]].nonce \in nonces'
  BY <1>1, Zenon DEF RaceInv
<1>2. nonces' = nonces \cup {n} /\ burnt' = burnt
  <2>1. PICK a \in TryRecordNonce(n) : nonces' = a.rows /\ burnt' = burnt \cup a.lost
    BY Zenon DEF ConsumeNonce
  <2>2. a = [first |-> n \notin nonces, rows |-> nonces \cup {n}, lost |-> {}]
    BY DEF TryRecordNonce
  <2> HIDE DEF n
  <2> QED
    BY <2>1, <2>2
<1>3. /\ burnt = {}
      /\ \A w \in Call : pc[w] = "replay_attack" =>
           pos[w] <= Len(arg[w].caps) /\ arg[w].caps[pos[w]].nonce \in nonces
  BY Zenon DEF RaceInv
<1>4. \A w \in Call : w # v => pc'[w] = pc[w] /\ pos'[w] = pos[w]
  BY DEF ConsumeNonce, Goto, ShapeInv, TypeOK
<1>5. pc'[v] = "replay_attack" => pos'[v] = pos[v]
  BY DEF ConsumeNonce, Goto, ShapeInv, TypeOK
<1>6. pos[v] <= Len(arg[v].caps)
  <2>1. pc[v] = "nonce" /\ Shape(v)
    BY Zenon DEF ConsumeNonce, ShapeInv
  <2> QED
    BY <2>1 DEF Shape
<1>7. ASSUME NEW w \in Call, pc'[w] = "replay_attack"
      PROVE  pos'[w] <= Len(arg[w].caps) /\ arg[w].caps[pos'[w]].nonce \in nonces'
  <2>1. CASE w = v
    BY <1>2, <1>5, <1>6, <1>7, <2>1, Zenon
  <2>2. CASE w # v
    BY <1>2, <1>3, <1>4, <1>7, <2>2, Zenon
  <2> QED
    BY <2>1, <2>2, Zenon
<1> QED
  BY <1>2, <1>3, <1>7, Zenon

LEMMA RaceStep == ASSUME ShapeInv, RaceInv, NEW v \in Call, Step(v) PROVE RaceInv'
<1>1. CASE ConsumeNonce(v)
  BY <1>1, RaceConsume, Zenon
<1>2. ASSUME NEW s, s # "replay_attack", Goto(v, s), UNCHANGED <<arg, pos, boot, nonces, burnt>>
      PROVE  RaceInv'
  <2>1. pc'[v] # "replay_attack" /\ \A w \in Call : w # v => pc'[w] = pc[w]
    BY <1>2 DEF Goto, ShapeInv, TypeOK
  <2> QED
    BY <1>2, <2>1, RaceFrame, Zenon
<1>3. CASE CheckSigil(v)
  <2>1. PICK r \in BOOLEAN : RevocationCheck(v, arg[v].sigil, r, "sigil_revoked", "expiry")
    BY <1>3, Zenon DEF CheckSigil
  <2>2. PICK s \in {"sigil_revoked", "expiry"} : Goto(v, s)
    BY <2>1 DEF RevocationCheck
  <2> QED
    BY <1>2, <2>1, <2>2 DEF RevocationCheck, store, world
<1>4. CASE CheckCap(v)
  <2>1. PICK r \in BOOLEAN : RevocationCheck(v, arg[v].caps[pos[v]].id, r, "cap_revoked", "capExpiry")
    BY <1>4, Zenon DEF CheckCap
  <2>2. PICK s \in {"cap_revoked", "capExpiry"} : Goto(v, s)
    BY <2>1 DEF RevocationCheck
  <2> QED
    BY <1>2, <2>1, <2>2 DEF RevocationCheck, store, world
<1>5. CASE CheckExpiry(v)
  <2>1. PICK s \in {"capability_expired", "cap"} : Goto(v, s)
    BY <1>5 DEF CheckExpiry
  <2> QED
    BY <1>2, <1>5, <2>1 DEF CheckExpiry, store, world, history
<1>6. CASE CheckCapExpiry(v)
  <2>1. PICK s \in {"capability_expired", "nonce"} : Goto(v, s)
    BY <1>6 DEF CheckCapExpiry
  <2> QED
    BY <1>2, <1>6, <2>1 DEF CheckCapExpiry, store, world, history
<1>7. CASE Admit(v)
  BY <1>2, <1>7 DEF Admit, store, world, history
<1> QED
  BY <1>1, <1>3, <1>4, <1>5, <1>6, <1>7, Zenon DEF Step

LEMMA RaceNext == ShapeInv /\ RaceInv /\ [Next]_vars => RaceInv'
<1> SUFFICES ASSUME ShapeInv, RaceInv, [Next]_vars PROVE RaceInv'
  OBVIOUS
<1>1. ASSUME CallsUnchanged, UNCHANGED <<nonces, burnt>> PROVE RaceInv'
  BY <1>1, RaceFrame, Zenon DEF CallsUnchanged
<1>2. ASSUME Crash PROVE RaceInv'
  <2>1. boot \in Nat /\ boot' = boot + 1
    BY <1>2, Zenon DEF Crash, ShapeInv, TypeOK
  <2>2. boot' # 0
    BY <2>1
  <2> QED
    BY <2>2, Zenon DEF RaceInv
<1> QED
  BY <1>1, <1>2, RaceBegin, RaceStep, StepKinds, Zenon

LEMMA RaceCorrect == Spec => [](ShapeInv /\ SpentInv /\ RaceInv)
  BY ShapeInit, ShapeNext, SpentInit, SpentNext, RaceInit, RaceNext, PTL DEF Spec

INSTANCE WellFoundedInduction

\* Less is < on the natural numbers, as a set.
Less == {p \in Nat \X Nat : p[1] < p[2]}

\* The least-number principle for sets of natural numbers.
LEMMA LeastNumber ==
  ASSUME NEW T, T \subseteq Nat, T # {}
  PROVE  \E x \in T : \A y \in T : ~(y < x)
<1>1. IsWellFoundedOn(Less, Nat)
  BY NatLessThanWellFounded, Zenon DEF OpToRel, Less
<1>2. PICK x \in T : \A y \in T : ~(<<y, x>> \in Less)
  BY <1>1, WFMin, Zenon
<1> QED
  BY <1>2 DEF Less

LEMMA Before ==
  ASSUME NEW p \in Nat \ {0}, NEW i \in 1..(p - 1)
  PROVE  i \in Nat \ {0} /\ i < p /\ p # 1
  OBVIOUS

LEMMA Mirror ==
  ASSUME NEW n \in Nat, NEW a \in 1..n
  PROVE  n - a \in Nat /\ \A b \in 1..n : a < b => n - b < n - a
  OBVIOUS

\* The call that spent the nonce at which v was turned away was admitted, or was
\* itself turned away further down its list.
LEMMA Rival ==
  ASSUME ShapeInv, SpentInv, RaceInv, ~Faults, boot = 0,
         \A w \in Call : pc[w] \in {"ready", "ok", "replay_attack"},
         NEW v \in Call, pc[v] = "replay_attack"
  PROVE  \E w \in Call :
           \/ pc[w] = "ok" /\ Nonces(arg[w]) # {}
           \/ /\ pc[w] = "replay_attack"
              /\ pos[w] \in DOMAIN arg[w].caps
              /\ \E i \in DOMAIN arg[w].caps :
                   i < pos[w] /\ arg[w].caps[i].nonce = arg[v].caps[pos[v]].nonce
<1>1. arg[v].caps[pos[v]].nonce \in nonces /\ burnt = {}
  BY Zenon DEF RaceInv
<1>2. PICK w \in Call : arg[v].caps[pos[v]].nonce \in Spent(w)
  BY <1>1, Zenon DEF SpentInv
<1>3. PICK i \in 1..(pos[w] - 1) : arg[w].caps[i].nonce = arg[v].caps[pos[v]].nonce
  BY <1>2, Zenon DEF Spent
<1>4. pos[w] \in Nat \ {0} /\ i \in Nat \ {0} /\ i < pos[w] /\ pos[w] # 1
  <2>1. pos[w] \in Nat \ {0}
    BY Zenon DEF ShapeInv, TypeOK
  <2> QED
    BY <1>3, <2>1, Before, Zenon
<1>5. pc[w] # "ready"
  BY <1>4, Zenon DEF ShapeInv, Shape
<1>6. CASE pc[w] = "ok"
  <2>1. Nonces(arg[w]) # {}
    BY <1>2, <1>6, AdmittedSpentAll, Zenon
  <2> QED
    BY <1>6, <2>1, Zenon
<1>7. CASE pc[w] = "replay_attack"
  <2>1. arg[w] \in Envelope
    BY <1>5, Zenon DEF ShapeInv, Shape
  <2>2. PICK cs \in Seq(Token) : cs = arg[w].caps
    BY <2>1 DEF Envelope
  <2>3. pos[w] <= Len(cs)
    BY <1>7, <2>2, Zenon DEF RaceInv
  <2>4. pos[w] \in DOMAIN cs /\ i \in DOMAIN cs
    BY <1>4, <2>3
  <2> QED
    BY <1>3, <1>4, <1>7, <2>2, <2>4, Zenon
<1> QED
  BY <1>5, <1>6, <1>7, Zenon

\* docs/E2E.md: "exactly 1 wins, 99 get ErrReplayAttack".  For any number of
\* calls: when nothing fails and the envelopes list their nonces in orders that
\* agree, calls are not all turned away as replays of one another.
THEOREM RaceWon == Spec => []RaceHasWinner
<1>1. ASSUME ShapeInv, SpentInv, RaceInv PROVE RaceHasWinner
  <2> DEFINE made == {v \in Call : pc[v] # "ready"}
             at(v) == arg[v].caps[pos[v]].nonce
             lost == {v \in Call : pc[v] = "replay_attack"}
             N == Cardinality(Nonce)
  <2> SUFFICES ASSUME ~Faults, boot = 0, \A v \in made : pc[v] \in {"ok", "replay_attack"},
                      \E v \in made : pc[v] = "replay_attack",
                      NEW rank \in [Nonce -> 1..N],
                      \A v \in made : \A i, j \in DOMAIN arg[v].caps :
                        i < j => rank[arg[v].caps[i].nonce] < rank[arg[v].caps[j].nonce],
                      ~\E v \in made : pc[v] = "ok" /\ Nonces(arg[v]) # {}
               PROVE  FALSE
    BY Zenon DEF RaceHasWinner
  <2>1. N \in Nat
    BY NonceAssumption, FS_CardinalityType, Zenon
  <2>2. ASSUME NEW v \in lost PROVE rank[at(v)] \in 1..N
    <3>1. at(v) \in nonces /\ nonces \subseteq Nonce
      BY <1>1, <2>2, Zenon DEF RaceInv, ShapeInv, TypeOK
    <3> QED
      BY <3>1, Zenon
  <2>3. ASSUME NEW v \in lost PROVE \E w \in lost : rank[at(v)] < rank[at(w)]
    <3>1. \A w \in Call : pc[w] \in {"ready", "ok", "replay_attack"}
      OBVIOUS
    <3>2. PICK w \in Call :
            \/ pc[w] = "ok" /\ Nonces(arg[w]) # {}
            \/ /\ pc[w] = "replay_attack"
               /\ pos[w] \in DOMAIN arg[w].caps
               /\ \E i \in DOMAIN arg[w].caps :
                    i < pos[w] /\ arg[w].caps[i].nonce = arg[v].caps[pos[v]].nonce
      BY <1>1, <2>3, <3>1, Rival, Zenon
    <3>3. w \in made
      BY <3>2
    <3> QED
      BY <3>2, <3>3, Zenon
  <2> DEFINE T == {N - rank[at(v)] : v \in lost}
  <2>4. T \subseteq Nat /\ T # {}
    <3>1. ASSUME NEW v \in lost PROVE N - rank[at(v)] \in Nat
      BY <2>1, <2>2, Mirror, Zenon
    <3> QED
      BY <3>1, Zenon
  <2>5. PICK x \in T : \A y \in T : ~(y < x)
    BY <2>4, LeastNumber, Zenon
  <2>6. PICK v \in lost : x = N - rank[at(v)]
    BY <2>5, Zenon
  <2>7. PICK w \in lost : rank[at(v)] < rank[at(w)]
    BY <2>3, Zenon
  <2>8. ~(N - rank[at(w)] < N - rank[at(v)])
    BY <2>5, <2>6, Zenon
  <2>9. PICK a \in 1..N : a = rank[at(v)]
    BY <2>2, Zenon
  <2>10. PICK b \in 1..N : b = rank[at(w)]
    BY <2>2, Zenon
  <2>11. a < b /\ ~(N - b < N - a)
    BY <2>7, <2>8, <2>9, <2>10, Zenon
  <2> QED
    BY <2>1, <2>11, Mirror, Zenon
<1> QED
  BY <1>1, RaceCorrect, PTL
=============================================================================
