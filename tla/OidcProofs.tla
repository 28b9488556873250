----------------------------- MODULE OidcProofs -----------------------------
(***************************************************************************)
(* Proofs about OidcBootstrap: a token is granted only to a caller the     *)
(* provider and the policy vouch for and never outlives MaxOIDCTTL; events,*)
(* audit lines, stored tokens and failure counts agree with the response;  *)
(* and the keys a request is judged by are no older than JWKSCacheTTL.     *)
(***************************************************************************)
EXTENDS OidcBootstrap, TLAPS

-----------------------------------------------------------------------------
(* Operators.                                                              *)

LEMMA WrapInt == ASSUME NEW x \in Int PROVE Wrap(x) \in Int
<1> DEFINE m == 2^Width
           h == 2^(Width - 1)
<1>1. m \in Nat \ {0} /\ h \in Nat \ {0}
  BY PowerAssumption
<1> HIDE DEF m, h
<1>2. (x + h) % m \in Int
  BY <1>1
<1> QED
  BY <1>1, <1>2 DEF Wrap, m, h

\* Whatever seconds are asked for and allowed, and however their product wraps
\* around, the lifetime handed to IssueCap is an integer no larger than
\* MaxOIDCTTL: the cap of oidc.go comes last.
THEOREM LifetimeCapped ==
  ASSUME NEW requested \in Int, NEW max \in Int
  PROVE  Ttl(requested, max) \in Int /\ Ttl(requested, max) <= MaxTtl * Second
<1>1. Second \in Int /\ MaxTtl \in Int /\ DefaultTtl \in Int
  BY TtlAssumption
<1>2. Duration(requested) \in Int /\ Duration(max) \in Int
  BY <1>1, WrapInt DEF Duration
<1>3. MaxTtl * Second \in Int /\ DefaultTtl * Second \in Int
  BY <1>1
<1> QED
  BY <1>2, <1>3 DEF Ttl

\* The codes of the checks that need no key.
Refusal == {"method_not_allowed", "invalid_request", "audience_mismatch", "unknown_issuer",
            "invalid_token"}

LEMMA TriageAnswers ==
  ASSUME NEW q
  PROVE  /\ Triage(q) \in Refusal \cup {"none"}
         /\ Triage(q) = "none" => q.issuer \in Issuer
  BY DEF Triage, Refusal

-----------------------------------------------------------------------------
(* The inductive invariant.                                                *)

Keyed == {"token", "policy", "mint", "sign"}

\* The data of request r is what the code before its next step left.
DeskInv(r) ==
  /\ pc[r] # "ready" => req[r] \in Post
  /\ pc[r] \notin {"ready", "done"} => Triage(req[r]) = "none"
  /\ pc[r] # "done" => code[r] = "none" /\ audits[r] = << >> /\ r \notin failures
  /\ pc[r] \notin {"sign", "done"} => \A c \in caps : c[1] # r
  /\ pc[r] \notin {"ready", "sign", "done"} => events[r] = <<"auth_request">>
  /\ pc[r] = "sign" => events[r] = <<"auth_request", "token_issued">>

\* TrailAgrees of one request.
Told(r) ==
  pc[r] = "done" =>
    /\ code[r] # "method_not_allowed" =>
         /\ events[r][1] = "auth_request"
         /\ events[r][Len(events[r])] = IF code[r] = "granted" THEN "code_issued" ELSE "failed"
    /\ audits[r] = IF code[r] \in {"granted", "no_policy", "policy_denied"} THEN <<code[r]>> ELSE << >>
    /\ (\E c \in caps : c[1] = r) => code[r] \in {"granted", "mint_failed", "sign_failed"}
    /\ r \in failures <=> code[r] = "invalid_token"

\* What the checks that request r has passed established.
GrantInv(r) ==
  /\ pc[r] \in Keyed \/ code[r] = "granted" => r \in found
  /\ pc[r] \in {"policy", "mint", "sign"} \/ code[r] = "granted" => req[r].genuine
  /\ pc[r] \in {"mint", "sign"} \/ code[r] = "granted" =>
       Row(r).enabled /\ req[r].scopes \subseteq Row(r).scopes
  /\ pc[r] = "sign" \/ code[r] = "granted" =>
       \E c \in caps : c[1] = r /\ c[2] <= MaxTtl * Second

Passed(r) == DeskInv(r) /\ Told(r) /\ GrantInv(r)

PassedInv == \A r \in Request : Passed(r)

\* The history of the provider up to now: what it publishes is recorded, and a
\* cached entry has the keys it published at some moment since the entry's date.
Seen(i, k, from, to)   == \E t \in Time : from <= t /\ t <= to /\ k \in ever[i][t]
Missed(i, k, from, to) == \E t \in Time : from <= t /\ t <= to /\ k \notin always[i][t]

CacheInv(i) ==
  /\ idp[i] \subseteq ever[i][now] /\ always[i][now] \subseteq idp[i]
  /\ cached[i] # NoEntry =>
       \A k \in Kid : IF k \in cached[i].keys THEN Seen(i, k, cached[i].fetched, now)
                                              ELSE Missed(i, k, cached[i].fetched, now)

\* The mutex, the clock and the entry that request r relies on.
LockInv(r) ==
  /\ asked[r] <= now /\ looked[r] <= now
  /\ pc[r] \in {"fetch", "key"} => holder = r
  /\ pc[r] = "key" => /\ cached[req[r].issuer] # NoEntry
                      /\ r \notin stale => cached[req[r].issuer].fetched >= asked[r] - CacheTtl
  /\ r \in found => pc[r] \in Keyed \cup {"done"} /\ Triage(req[r]) = "none"

\* KeysCurrent of one request, with the moments up to now.
JudgedInv(r) ==
  /\ r \in found /\ r \notin stale => Seen(req[r].issuer, req[r].kid, asked[r] - CacheTtl, now)
  /\ r \notin stale /\ pc[r] = "done" /\ Triage(req[r]) = "none" /\ r \notin found =>
       Missed(req[r].issuer, req[r].kid, asked[r] - CacheTtl, looked[r])

KeysInv == /\ \A i \in Issuer : CacheInv(i)
           /\ \A r \in Request : LockInv(r) /\ JudgedInv(r)

Inv == TypeOK /\ PassedInv /\ KeysInv

-----------------------------------------------------------------------------
(* Type correctness.                                                       *)

\* A request in the handler has passed the checks that need no key.
LEMMA Admitted ==
  ASSUME PassedInv, NEW r \in Request, pc[r] \notin {"ready", "done"}
  PROVE  req[r] \in Post /\ Triage(req[r]) = "none" /\ req[r].issuer \in Issuer
<1>1. DeskInv(r)
  BY Zenon DEF PassedInv, Passed
<1> QED
  BY <1>1, TriageAnswers, Zenon DEF DeskInv

LEMMA TypeInit == Init => TypeOK
<1> SUFFICES ASSUME Init PROVE TypeOK
  OBVIOUS
<1>1. 0 \in Time /\ rotations \in 0..MaxRotations /\ now \in Time
  BY CacheAssumption DEF Init, Time
<1>2. idp \in [Issuer -> SUBSET Kid]
  BY DEF Init
<1>3. ever \in [Issuer -> [Time -> SUBSET Kid]] /\ always = ever
  BY <1>2 DEF Init
<1>4. asked \in [Request -> Time] /\ looked = asked
  BY <1>1 DEF Init
<1>5. /\ cached \in [Issuer -> Entry \cup {NoEntry}]
      /\ holder \in Request \cup {NoHolder}
      /\ pc \in [Request -> State] /\ req \in [Request -> Post \cup {NoPost}]
      /\ code \in [Request -> Code]
  BY DEF Init, State, Code
<1>6. events \in [Request -> Seq(Event)] /\ audits \in [Request -> Seq(Code)]
  BY DEF Init
<1>7. caps = {} /\ failures = {} /\ stale = {} /\ found = {}
  BY Zenon DEF Init
<1> QED
  BY <1>1, <1>2, <1>3, <1>4, <1>5, <1>6, <1>7 DEF TypeOK

\* The pieces that the steps of the handler are made of.
LEMMA TypeGoto == ASSUME TypeOK, NEW r \in Request, NEW s \in State, Goto(r, s) PROVE pc' \in [Request -> State]
  BY DEF TypeOK, Goto

LEMMA TypeEmit == ASSUME TypeOK, NEW r \in Request, NEW e \in Event, Emit(r, e) PROVE events' \in [Request -> Seq(Event)]
  BY DEF TypeOK, Emit

LEMMA TypeAudit == ASSUME TypeOK, NEW r \in Request, NEW c \in Code, Audit(r, c) PROVE audits' \in [Request -> Seq(Code)]
  BY DEF TypeOK, Audit

LEMMA TypeDeny ==
  ASSUME TypeOK, NEW r \in Request, NEW c \in Code, Deny(r, c)
  PROVE  pc' \in [Request -> State] /\ code' \in [Request -> Code] /\ events' \in [Request -> Seq(Event)]
<1>1. Goto(r, "done") /\ Emit(r, "failed") /\ code' = [code EXCEPT ![r] = c]
  BY Zenon DEF Deny
<1>2. pc' \in [Request -> State] /\ events' \in [Request -> Seq(Event)]
  BY <1>1, TypeGoto, TypeEmit DEF State, Event
<1> QED
  BY <1>1, <1>2 DEF TypeOK

LEMMA TypeReject ==
  ASSUME TypeOK, NEW r \in Request, RejectToken(r)
  PROVE  /\ pc' \in [Request -> State] /\ code' \in [Request -> Code] /\ events' \in [Request -> Seq(Event)]
         /\ failures' \subseteq Request
<1>1. Deny(r, "invalid_token") /\ failures' = failures \cup {r}
  BY Zenon DEF RejectToken
<1>2. "invalid_token" \in Code
  BY DEF Code
<1> QED
  BY <1>1, <1>2, TypeDeny DEF TypeOK

LEMMA TypeReceive == ASSUME TypeOK, NEW r \in Request, NEW q \in Post, Receive(r, q) PROVE TypeOK'
<1>1. Triage(q) \in Code
  BY TriageAnswers DEF Refusal, Code
<1>2. Goto(r, IF Triage(q) = "none" THEN "lock" ELSE "done") /\ UNCHANGED <<cache, asked, caps, audits, world, history>>
  BY Zenon DEF Receive
<1>3. pc' \in [Request -> State]
  BY <1>2, TypeGoto DEF State
<1>4. req' \in [Request -> Post \cup {NoPost}] /\ code' \in [Request -> Code] /\ failures' \subseteq Request
  BY <1>1 DEF TypeOK, Receive
<1>5. \E s \in Seq(Event) : events' = [events EXCEPT ![r] = s]
  <2>1. << >> \in Seq(Event) /\ <<"auth_request">> \in Seq(Event) /\ <<"auth_request", "failed">> \in Seq(Event)
    BY DEF Event
  <2>2. events' = [events EXCEPT ![r] =
           IF Triage(q) = "method_not_allowed" THEN << >>
           ELSE IF Triage(q) = "none" THEN <<"auth_request">> ELSE <<"auth_request", "failed">>]
    BY Zenon DEF Receive
  <2> QED
    BY <2>1, <2>2, Zenon
<1>6. events' \in [Request -> Seq(Event)]
  BY <1>5 DEF TypeOK
<1> QED
  BY <1>2, <1>3, <1>4, <1>6, Zenon DEF TypeOK, cache, world, history

LEMMA TypeLock == ASSUME TypeOK, NEW r \in Request, Lock(r) PROVE TypeOK'
  BY DEF TypeOK, Lock, Goto, State, output, world, history

LEMMA TypeFetchFails == ASSUME TypeOK, NEW r \in Request, FetchFails(r) PROVE TypeOK'
<1>1. /\ stale' = stale \cup {r} /\ UNCHANGED <<cached, req, asked, caps, audits, world, ever, always, found>>
      /\ \/ RejectToken(r) /\ Unlock /\ looked' = [looked EXCEPT ![r] = now]
         \/ Goto(r, "key") /\ UNCHANGED <<holder, code, events, failures, looked>>
  BY Zenon DEF FetchFails
<1>2. stale' \subseteq Request
  BY <1>1 DEF TypeOK
<1>3. CASE RejectToken(r) /\ Unlock /\ looked' = [looked EXCEPT ![r] = now]
  <2>1. holder' \in Request \cup {NoHolder} /\ looked' \in [Request -> Time]
    BY <1>3 DEF TypeOK, Unlock
  <2> QED
    BY <1>1, <1>2, <1>3, <2>1, TypeReject, Zenon DEF TypeOK, world
<1>4. CASE Goto(r, "key") /\ UNCHANGED <<holder, code, events, failures, looked>>
  <2>1. pc' \in [Request -> State]
    BY <1>4, TypeGoto DEF State
  <2> QED
    BY <1>1, <1>2, <1>4, <2>1, Zenon DEF TypeOK, world
<1> QED
  BY <1>1, <1>3, <1>4, Zenon

LEMMA TypeFetchSucceeds == ASSUME TypeOK, PassedInv, NEW r \in Request, FetchSucceeds(r) PROVE TypeOK'
<1>1. Goto(r, "key") /\ UNCHANGED <<holder, req, asked, code, output, world, history>>
  BY Zenon DEF FetchSucceeds
<1>2. pc' \in [Request -> State]
  BY <1>1, TypeGoto DEF State
<1>3. req[r].issuer \in Issuer
  BY Admitted, Zenon DEF FetchSucceeds
<1>4. cached' \in [Issuer -> Entry \cup {NoEntry}]
  BY <1>3 DEF FetchSucceeds, TypeOK, Entry
<1> QED
  BY <1>1, <1>2, <1>4, Zenon DEF TypeOK, output, world, history

LEMMA TypeFindKey == ASSUME TypeOK, NEW r \in Request, FindKey(r) PROVE TypeOK'
<1>1. /\ Unlock /\ looked' = [looked EXCEPT ![r] = now]
      /\ UNCHANGED <<cached, req, asked, caps, audits, world, ever, always, stale>>
      /\ \/ Goto(r, "token") /\ found' = found \cup {r} /\ UNCHANGED <<code, events, failures>>
         \/ RejectToken(r) /\ UNCHANGED found
  BY Zenon DEF FindKey
<1>2. holder' \in Request \cup {NoHolder} /\ looked' \in [Request -> Time]
  BY <1>1 DEF TypeOK, Unlock
<1>3. CASE Goto(r, "token") /\ found' = found \cup {r} /\ UNCHANGED <<code, events, failures>>
  <2>1. pc' \in [Request -> State] /\ found' \subseteq Request
    BY <1>3, TypeGoto DEF State, TypeOK
  <2> QED
    BY <1>1, <1>2, <1>3, <2>1, Zenon DEF TypeOK, world
<1>4. CASE RejectToken(r) /\ UNCHANGED found
  BY <1>1, <1>2, <1>4, TypeReject, Zenon DEF TypeOK, world
<1> QED
  BY <1>1, <1>3, <1>4, Zenon

LEMMA TypeCheckToken == ASSUME TypeOK, NEW r \in Request, CheckToken(r) PROVE TypeOK'
<1>1. /\ UNCHANGED <<cache, req, asked, caps, audits, world, history>>
      /\ \/ Goto(r, "policy") /\ UNCHANGED <<code, events, failures>>
         \/ RejectToken(r)
  BY Zenon DEF CheckToken
<1>2. CASE Goto(r, "policy") /\ UNCHANGED <<code, events, failures>>
  <2>1. pc' \in [Request -> State]
    BY <1>2, TypeGoto DEF State
  <2> QED
    BY <1>1, <1>2, <2>1, Zenon DEF TypeOK, cache, world, history
<1>3. CASE RejectToken(r)
  BY <1>1, <1>3, TypeReject, Zenon DEF TypeOK, cache, world, history
<1> QED
  BY <1>1, <1>2, <1>3, Zenon

LEMMA TypeApplyPolicy == ASSUME TypeOK, NEW r \in Request, ApplyPolicy(r) PROVE TypeOK'
<1>1. /\ UNCHANGED <<cache, req, asked, caps, failures, world, history>>
      /\ \/ \E c \in {"no_policy", "policy_denied"} : Audit(r, c) /\ Deny(r, c)
         \/ Goto(r, "mint") /\ UNCHANGED <<code, events, audits>>
  BY Zenon DEF ApplyPolicy
<1>2. ASSUME NEW c \in {"no_policy", "policy_denied"}, Audit(r, c), Deny(r, c) PROVE TypeOK'
  <2>1. c \in Code
    BY DEF Code
  <2>2. audits' \in [Request -> Seq(Code)]
    BY <1>2, <2>1, TypeAudit
  <2>3. pc' \in [Request -> State] /\ code' \in [Request -> Code] /\ events' \in [Request -> Seq(Event)]
    BY <1>2, <2>1, TypeDeny, Zenon
  <2> QED
    BY <1>1, <2>2, <2>3, Zenon DEF TypeOK, cache, world, history
<1>3. CASE Goto(r, "mint") /\ UNCHANGED <<code, events, audits>>
  <2>1. pc' \in [Request -> State]
    BY <1>3, TypeGoto DEF State
  <2> QED
    BY <1>1, <1>3, <2>1, Zenon DEF TypeOK, cache, world, history
<1> QED
  BY <1>1, <1>2, <1>3, Zenon

\* The lifetime of the token that Mint stores.
LEMMA MintedTtl ==
  ASSUME PassedInv, NEW r \in Request, pc[r] = "mint"
  PROVE  /\ Ttl(req[r].ttl, Row(r).maxTtl) \in Int
         /\ Ttl(req[r].ttl, Row(r).maxTtl) <= MaxTtl * Second
<1>1. req[r] \in Post /\ req[r].issuer \in Issuer
  BY Admitted
<1>2. req[r].ttl \in Int /\ Row(r).maxTtl \in Int
  BY <1>1, PostAssumption, Zenon DEF Row
<1> QED
  BY <1>2, LifetimeCapped, Zenon

LEMMA TypeMint == ASSUME TypeOK, PassedInv, NEW r \in Request, Mint(r) PROVE TypeOK'
<1> DEFINE cap == <<r, Ttl(req[r].ttl, Row(r).maxTtl)>>
<1>1. cap \in Request \X Int
  BY MintedTtl DEF Mint
<1>2. caps' = caps \cup {cap} \/ caps' = caps
  BY DEF Mint
<1>3. caps' \subseteq Request \X Int
  BY <1>1, <1>2 DEF TypeOK
<1>4. /\ UNCHANGED <<cache, req, asked, audits, failures, world, history>>
      /\ \/ Emit(r, "token_issued") /\ Goto(r, "sign") /\ UNCHANGED code
         \/ Deny(r, "mint_failed")
  BY Zenon DEF Mint
<1>5. CASE Emit(r, "token_issued") /\ Goto(r, "sign") /\ UNCHANGED code
  <2>1. pc' \in [Request -> State] /\ events' \in [Request -> Seq(Event)]
    BY <1>5, TypeGoto, TypeEmit DEF State, Event
  <2> QED
    BY <1>3, <1>4, <1>5, <2>1, Zenon DEF TypeOK, cache, world, history
<1>6. CASE Deny(r, "mint_failed")
  <2>1. "mint_failed" \in Code
    BY DEF Code
  <2> QED
    BY <1>3, <1>4, <1>6, <2>1, TypeDeny, Zenon DEF TypeOK, cache, world, history
<1> QED
  BY <1>4, <1>5, <1>6, Zenon

LEMMA TypeSign == ASSUME TypeOK, NEW r \in Request, Sign(r) PROVE TypeOK'
<1>0. "granted" \in Code /\ "sign_failed" \in Code /\ "code_issued" \in Event /\ "done" \in State
  BY DEF Code, Event, State
<1>1. /\ UNCHANGED <<cache, req, asked, caps, failures, world, history>>
      /\ \/ /\ Audit(r, "granted") /\ Emit(r, "code_issued") /\ Goto(r, "done")
            /\ code' = [code EXCEPT ![r] = "granted"]
         \/ Deny(r, "sign_failed") /\ UNCHANGED audits
  BY Zenon DEF Sign
<1>2. CASE /\ Audit(r, "granted") /\ Emit(r, "code_issued") /\ Goto(r, "done")
           /\ code' = [code EXCEPT ![r] = "granted"]
  <2>1. code' \in [Request -> Code]
    BY <1>0, <1>2 DEF TypeOK
  <2>2. audits' \in [Request -> Seq(Code)] /\ events' \in [Request -> Seq(Event)] /\ pc' \in [Request -> State]
    BY <1>0, <1>2, TypeAudit, TypeEmit, TypeGoto, Zenon
  <2> QED
    BY <1>1, <2>1, <2>2, Zenon DEF TypeOK, cache, world, history
<1>3. CASE Deny(r, "sign_failed") /\ UNCHANGED audits
  BY <1>0, <1>1, <1>3, TypeDeny, Zenon DEF TypeOK, cache, world, history
<1> QED
  BY <1>1, <1>2, <1>3, Zenon

LEMMA TypeWorld ==
  ASSUME TypeOK, Tick \/ (\E i \in Issuer, K \in SUBSET Kid : Rotate(i, K)) \/ UNCHANGED vars
  PROVE  TypeOK'
<1>1. CASE Tick
  <2>1. UNCHANGED <<cache, request, output, idp, rotations, stale, found, looked>>
    BY <1>1, Zenon DEF Tick
  <2>2. now' \in Time
    BY <1>1, CacheAssumption DEF TypeOK, Tick, Time
  <2>3. ever' \in [Issuer -> [Time -> SUBSET Kid]] /\ always' \in [Issuer -> [Time -> SUBSET Kid]]
    BY <1>1 DEF TypeOK, Tick
  <2> QED
    BY <2>1, <2>2, <2>3, Zenon DEF TypeOK, cache, request, output
<1>2. ASSUME NEW i \in Issuer, NEW K \in SUBSET Kid, Rotate(i, K) PROVE TypeOK'
  <2>1. UNCHANGED <<cache, request, output, now, stale, found, looked>>
    BY <1>2, Zenon DEF Rotate
  <2>2. rotations' \in 0..MaxRotations /\ idp' \in [Issuer -> SUBSET Kid]
    BY <1>2, CacheAssumption DEF TypeOK, Rotate
  <2>3. ever' \in [Issuer -> [Time -> SUBSET Kid]] /\ always' \in [Issuer -> [Time -> SUBSET Kid]]
    BY <1>2 DEF TypeOK, Rotate
  <2> QED
    BY <2>1, <2>2, <2>3, Zenon DEF TypeOK, cache, request, output
<1>3. CASE UNCHANGED vars
  BY <1>3, Zenon DEF TypeOK, vars, cache, request, output, world, history
<1> QED
  BY <1>1, <1>2, <1>3

LEMMA TypeNext == TypeOK /\ PassedInv /\ [Next]_vars => TypeOK'
  BY TypeReceive, TypeLock, TypeFetchFails, TypeFetchSucceeds, TypeFindKey, TypeCheckToken, TypeApplyPolicy,
     TypeMint, TypeSign, TypeWorld, Zenon DEF Next, Handle

-----------------------------------------------------------------------------
(* What a step writes, request by request.                                 *)

\* A step that leaves request w alone.
Aside(w) ==
  /\ pc'[w] = pc[w] /\ req'[w] = req[w] /\ asked'[w] = asked[w] /\ looked'[w] = looked[w]
  /\ code'[w] = code[w] /\ events'[w] = events[w] /\ audits'[w] = audits[w]
  /\ (w \in failures' <=> w \in failures) /\ (w \in found' <=> w \in found) /\ (w \in stale' <=> w \in stale)
  /\ \A c : c[1] = w => (c \in caps' <=> c \in caps)

LEMMA AsideKeeps ==
  ASSUME NEW w \in Request, Aside(w), DeskInv(w), Told(w), GrantInv(w)
  PROVE  DeskInv(w)' /\ Told(w)' /\ GrantInv(w)'
<1>1. DeskInv(w)'
  BY Zenon DEF Aside, DeskInv
<1>2. Told(w)'
  BY Zenon DEF Aside, Told
<1>3. GrantInv(w)'
  BY Zenon DEF Aside, GrantInv, Row
<1> QED
  BY <1>1, <1>2, <1>3

LEMMA WroteGoto ==
  ASSUME TypeOK, NEW r \in Request, NEW s, Goto(r, s)
  PROVE  pc'[r] = s /\ \A w \in Request : w # r => pc'[w] = pc[w]
  BY DEF TypeOK, Goto

LEMMA WroteEmit ==
  ASSUME TypeOK, NEW r \in Request, NEW e, Emit(r, e)
  PROVE  events'[r] = Append(events[r], e) /\ \A w \in Request : w # r => events'[w] = events[w]
  BY DEF TypeOK, Emit

LEMMA WroteAudit ==
  ASSUME TypeOK, NEW r \in Request, NEW c, Audit(r, c)
  PROVE  audits'[r] = Append(audits[r], c) /\ \A w \in Request : w # r => audits'[w] = audits[w]
  BY DEF TypeOK, Audit

LEMMA WroteDeny ==
  ASSUME TypeOK, NEW r \in Request, NEW c, Deny(r, c)
  PROVE  /\ pc'[r] = "done" /\ code'[r] = c /\ events'[r] = Append(events[r], "failed")
         /\ \A w \in Request : w # r => pc'[w] = pc[w] /\ code'[w] = code[w] /\ events'[w] = events[w]
<1>1. Goto(r, "done") /\ Emit(r, "failed") /\ code' = [code EXCEPT ![r] = c]
  BY Zenon DEF Deny
<1>2. code'[r] = c /\ \A w \in Request : w # r => code'[w] = code[w]
  BY <1>1 DEF TypeOK
<1>3. pc'[r] = "done" /\ \A w \in Request : w # r => pc'[w] = pc[w]
  BY <1>1, WroteGoto, Zenon
<1>4. /\ events'[r] = Append(events[r], "failed")
      /\ \A w \in Request : w # r => events'[w] = events[w]
  BY <1>1, WroteEmit, Zenon
<1> QED
  BY <1>2, <1>3, <1>4, Zenon

LEMMA WroteReject ==
  ASSUME TypeOK, NEW r \in Request, RejectToken(r)
  PROVE  /\ pc'[r] = "done" /\ code'[r] = "invalid_token" /\ events'[r] = Append(events[r], "failed")
         /\ r \in failures'
         /\ \A w \in Request : w # r => /\ pc'[w] = pc[w] /\ code'[w] = code[w] /\ events'[w] = events[w]
                                        /\ (w \in failures' <=> w \in failures)
<1>1. Deny(r, "invalid_token") /\ failures' = failures \cup {r}
  BY Zenon DEF RejectToken
<1> QED
  BY <1>1, WroteDeny

LEMMA AppendPair == ASSUME NEW S, NEW a \in S, NEW b \in S PROVE Append(<<a>>, b) = <<a, b>>
<1>1. <<a>> \in Seq(S) /\ Len(<<a>>) = 1 /\ <<a>>[1] = a
  OBVIOUS
<1>2. /\ Append(<<a>>, b) \in Seq(S) /\ Len(Append(<<a>>, b)) = 2
      /\ Append(<<a>>, b)[1] = a /\ Append(<<a>>, b)[2] = b
  BY <1>1
<1>3. <<a, b>> \in Seq(S) /\ Len(<<a, b>>) = 2 /\ <<a, b>>[1] = a /\ <<a, b>>[2] = b
  OBVIOUS
<1>4. ASSUME NEW s \in Seq(S), NEW u \in Seq(S), Len(s) = 2, Len(u) = 2, s[1] = u[1], s[2] = u[2] PROVE s = u
  BY <1>4
<1> QED
  BY <1>2, <1>3, <1>4, Zenon

LEMMA TrailEnd ==
  ASSUME NEW s \in {<<"auth_request">>, <<"auth_request", "token_issued">>}, NEW e
  PROVE  Append(s, e)[1] = "auth_request" /\ Append(s, e)[Len(Append(s, e))] = e
<1>1. CASE s = <<"auth_request">>
  BY <1>1
<1>2. CASE s = <<"auth_request", "token_issued">>
  BY <1>2
<1> QED
  BY <1>1, <1>2

\* A request in the handler that is refused with code c tells the truth.
LEMMA Refused ==
  ASSUME NEW r \in Request, DeskInv(r), pc[r] \notin {"ready", "done"},
         NEW c \in {"invalid_token", "no_policy", "policy_denied", "mint_failed", "sign_failed"},
         pc'[r] = "done", code'[r] = c, req'[r] = req[r],
         events'[r] = Append(events[r], "failed"),
         audits'[r] = IF c \in {"no_policy", "policy_denied"} THEN <<c>> ELSE << >>,
         r \in failures' <=> c = "invalid_token",
         (\E x \in caps' : x[1] = r) => c \in {"mint_failed", "sign_failed"}
  PROVE  DeskInv(r)' /\ Told(r)' /\ GrantInv(r)'
<1>1. events[r] \in {<<"auth_request">>, <<"auth_request", "token_issued">>}
  BY Zenon DEF DeskInv
<1>2. events'[r][1] = "auth_request" /\ events'[r][Len(events'[r])] = "failed"
  <2>1. PICK s \in {<<"auth_request">>, <<"auth_request", "token_issued">>} : s = events[r]
    BY <1>1, Zenon
  <2>2. Append(s, "failed")[1] = "auth_request" /\ Append(s, "failed")[Len(Append(s, "failed"))] = "failed"
    BY TrailEnd, Zenon
  <2>3. events'[r] = Append(s, "failed")
    BY <2>1, Zenon
  <2> QED
    BY <2>2, <2>3, Zenon
<1>3. DeskInv(r)'
  BY Zenon DEF DeskInv
<1>4. c # "granted" /\ (c \in {"granted", "no_policy", "policy_denied"} <=> c \in {"no_policy", "policy_denied"})
  OBVIOUS
<1>5. Told(r)'
  <2>1. audits'[r] = IF code'[r] \in {"granted", "no_policy", "policy_denied"} THEN <<code'[r]>> ELSE << >>
    BY <1>4, Zenon
  <2>2. events'[r][Len(events'[r])] = IF code'[r] = "granted" THEN "code_issued" ELSE "failed"
    BY <1>2, <1>4, Zenon
  <2>3. (\E x \in caps' : x[1] = r) => code'[r] \in {"granted", "mint_failed", "sign_failed"}
    OBVIOUS
  <2>4. r \in failures' <=> code'[r] = "invalid_token"
    BY Zenon
  <2> QED
    BY <1>2, <2>1, <2>2, <2>3, <2>4, Zenon DEF Told
<1>6. GrantInv(r)'
  BY <1>4, Zenon DEF GrantInv, Keyed
<1> QED
  BY <1>3, <1>5, <1>6

\* The frame of a step of request r: the others are left alone.
LEMMA ReceiveAside ==
  ASSUME TypeOK, NEW r \in Request, NEW q \in Post, Receive(r, q), NEW w \in Request, w # r
  PROVE  Aside(w)
<1>1. pc'[w] = pc[w] /\ req'[w] = req[w] /\ code'[w] = code[w] /\ events'[w] = events[w]
  BY DEF TypeOK, Receive, Goto
<1>2. w \in failures' <=> w \in failures
  BY DEF Receive
<1>3. UNCHANGED <<asked, looked, audits, found, stale, caps>>
  BY Zenon DEF Receive, history
<1> QED
  BY <1>1, <1>2, <1>3, Zenon DEF Aside

LEMMA LockAside ==
  ASSUME TypeOK, NEW r \in Request, Lock(r), NEW w \in Request, w # r
  PROVE  Aside(w)
<1>1. pc'[w] = pc[w] /\ asked'[w] = asked[w]
  BY DEF TypeOK, Lock, Goto
<1>2. UNCHANGED <<req, code, output, history>>
  BY Zenon DEF Lock
<1> QED
  BY <1>1, <1>2, Zenon DEF Aside, output, history

LEMMA FetchFailsAside ==
  ASSUME TypeOK, NEW r \in Request, FetchFails(r), NEW w \in Request, w # r
  PROVE  Aside(w)
<1>1. w \in stale' <=> w \in stale
  BY DEF FetchFails
<1>2. UNCHANGED <<req, asked, caps, audits, found>>
  BY Zenon DEF FetchFails
<1>3. /\ pc'[w] = pc[w] /\ code'[w] = code[w] /\ events'[w] = events[w] /\ looked'[w] = looked[w]
      /\ (w \in failures' <=> w \in failures)
  <2>1. CASE RejectToken(r) /\ looked' = [looked EXCEPT ![r] = now]
    <3>1. looked'[w] = looked[w]
      BY <2>1 DEF TypeOK
    <3> QED
      BY <2>1, <3>1, WroteReject, Zenon
  <2>2. CASE Goto(r, "key") /\ UNCHANGED <<code, events, failures, looked>>
    BY <2>2, WroteGoto, Zenon
  <2> QED
    BY <2>1, <2>2, Zenon DEF FetchFails
<1> QED
  BY <1>1, <1>2, <1>3, Zenon DEF Aside

LEMMA FetchSucceedsAside ==
  ASSUME TypeOK, NEW r \in Request, FetchSucceeds(r), NEW w \in Request, w # r
  PROVE  Aside(w)
<1>1. Goto(r, "key") /\ UNCHANGED <<req, asked, code, output, history>>
  BY Zenon DEF FetchSucceeds
<1>2. pc'[w] = pc[w]
  BY <1>1, WroteGoto, Zenon
<1> QED
  BY <1>1, <1>2, Zenon DEF Aside, output, history

LEMMA FindKeyAside ==
  ASSUME TypeOK, NEW r \in Request, FindKey(r), NEW w \in Request, w # r
  PROVE  Aside(w)
<1>1. UNCHANGED <<req, asked, caps, audits, stale>> /\ looked' = [looked EXCEPT ![r] = now]
  BY Zenon DEF FindKey
<1>2. looked'[w] = looked[w]
  BY <1>1 DEF TypeOK
<1>3. /\ pc'[w] = pc[w] /\ code'[w] = code[w] /\ events'[w] = events[w]
      /\ (w \in failures' <=> w \in failures) /\ (w \in found' <=> w \in found)
  <2>1. CASE RejectToken(r) /\ UNCHANGED found
    BY <2>1, WroteReject, Zenon
  <2>2. CASE Goto(r, "token") /\ found' = found \cup {r} /\ UNCHANGED <<code, events, failures>>
    BY <2>2, WroteGoto, Zenon
  <2> QED
    BY <2>1, <2>2, Zenon DEF FindKey
<1> QED
  BY <1>1, <1>2, <1>3, Zenon DEF Aside

LEMMA CheckTokenAside ==
  ASSUME TypeOK, NEW r \in Request, CheckToken(r), NEW w \in Request, w # r
  PROVE  Aside(w)
<1>1. UNCHANGED <<req, asked, caps, audits, history>>
  BY Zenon DEF CheckToken
<1>2. /\ pc'[w] = pc[w] /\ code'[w] = code[w] /\ events'[w] = events[w]
      /\ (w \in failures' <=> w \in failures)
  <2>1. CASE RejectToken(r)
    BY <2>1, WroteReject, Zenon
  <2>2. CASE Goto(r, "policy") /\ UNCHANGED <<code, events, failures>>
    BY <2>2, WroteGoto, Zenon
  <2> QED
    BY <2>1, <2>2, Zenon DEF CheckToken
<1> QED
  BY <1>1, <1>2, Zenon DEF Aside, history

LEMMA ApplyPolicyAside ==
  ASSUME TypeOK, NEW r \in Request, ApplyPolicy(r), NEW w \in Request, w # r
  PROVE  Aside(w)
<1>1. UNCHANGED <<req, asked, caps, failures, history>>
  BY Zenon DEF ApplyPolicy
<1>2. pc'[w] = pc[w] /\ code'[w] = code[w] /\ events'[w] = events[w] /\ audits'[w] = audits[w]
  <2>1. ASSUME NEW c, Audit(r, c), Deny(r, c)
        PROVE  pc'[w] = pc[w] /\ code'[w] = code[w] /\ events'[w] = events[w] /\ audits'[w] = audits[w]
    BY <2>1, WroteDeny, WroteAudit, Zenon
  <2>2. CASE Goto(r, "mint") /\ UNCHANGED <<code, events, audits>>
    BY <2>2, WroteGoto, Zenon
  <2> QED
    BY <2>1, <2>2, Zenon DEF ApplyPolicy
<1> QED
  BY <1>1, <1>2, Zenon DEF Aside, history

LEMMA MintAside ==
  ASSUME TypeOK, NEW r \in Request, Mint(r), NEW w \in Request, w # r
  PROVE  Aside(w)
<1>1. UNCHANGED <<req, asked, audits, failures, history>>
  BY Zenon DEF Mint
<1>2. pc'[w] = pc[w] /\ code'[w] = code[w] /\ events'[w] = events[w]
  <2>1. CASE Deny(r, "mint_failed")
    BY <2>1, WroteDeny, Zenon
  <2>2. CASE Emit(r, "token_issued") /\ Goto(r, "sign") /\ UNCHANGED code
    BY <2>2, WroteGoto, WroteEmit, Zenon
  <2> QED
    BY <2>1, <2>2, Zenon DEF Mint
<1>3. \A c : c[1] = w => (c \in caps' <=> c \in caps)
  <2> DEFINE cap == <<r, Ttl(req[r].ttl, Row(r).maxTtl)>>
  <2>1. caps' = caps \cup {cap} \/ caps' = caps
    BY DEF Mint
  <2>2. cap[1] = r
    OBVIOUS
  <2> QED
    BY <2>1, <2>2, Zenon
<1> QED
  BY <1>1, <1>2, <1>3, Zenon DEF Aside, history

LEMMA SignAside ==
  ASSUME TypeOK, NEW r \in Request, Sign(r), NEW w \in Request, w # r
  PROVE  Aside(w)
<1>1. UNCHANGED <<req, asked, caps, failures, history>>
  BY Zenon DEF Sign
<1>2. pc'[w] = pc[w] /\ code'[w] = code[w] /\ events'[w] = events[w] /\ audits'[w] = audits[w]
  <2>1. CASE Deny(r, "sign_failed") /\ UNCHANGED audits
    BY <2>1, WroteDeny, Zenon
  <2>2. CASE /\ Audit(r, "granted") /\ Emit(r, "code_issued") /\ Goto(r, "done")
             /\ code' = [code EXCEPT ![r] = "granted"]
    <3>1. code'[w] = code[w]
      BY <2>2 DEF TypeOK
    <3>2. pc'[w] = pc[w]
      BY <2>2, WroteGoto, Zenon
    <3>3. events'[w] = events[w]
      BY <2>2, WroteEmit, Zenon
    <3>4. audits'[w] = audits[w]
      BY <2>2, WroteAudit, Zenon
    <3> QED
      BY <3>1, <3>2, <3>3, <3>4, Zenon
  <2> QED
    BY <2>1, <2>2, Zenon DEF Sign
<1> QED
  BY <1>1, <1>2, Zenon DEF Aside, history

LEMMA HandleAside ==
  ASSUME TypeOK, NEW r \in Request, Handle(r), NEW w \in Request, w # r
  PROVE  Aside(w)
  BY LockAside, FetchFailsAside, FetchSucceedsAside, FindKeyAside, CheckTokenAside, ApplyPolicyAside,
     MintAside, SignAside, Zenon DEF Handle

-----------------------------------------------------------------------------
(* The trail and the grant.                                                *)

LEMMA PassedInit == Init => PassedInv
<1> SUFFICES ASSUME Init, NEW r \in Request PROVE Passed(r)
  BY DEF PassedInv
<1>1. pc[r] = "ready" /\ code[r] = "none" /\ audits[r] = << >>
  BY DEF Init
<1>2. caps = {} /\ failures = {}
  BY Zenon DEF Init
<1>3. DeskInv(r)
  BY <1>1, <1>2 DEF DeskInv
<1>4. Told(r) /\ GrantInv(r)
  BY <1>1 DEF Told, GrantInv, Keyed
<1> QED
  BY <1>3, <1>4 DEF Passed

LEMMA PassedReceive ==
  ASSUME TypeOK, NEW r \in Request, NEW q \in Post, Passed(r), Receive(r, q)
  PROVE  Passed(r)'
<1> DEFINE c == Triage(q)
<1>0. c \in Refusal \cup {"none"}
  BY TriageAnswers
<1>1. /\ pc[r] = "ready" /\ pc'[r] = (IF c = "none" THEN "lock" ELSE "done")
      /\ req'[r] = q /\ code'[r] = c
      /\ events'[r] = IF c = "method_not_allowed" THEN << >>
                      ELSE IF c = "none" THEN <<"auth_request">> ELSE <<"auth_request", "failed">>
  BY DEF TypeOK, Receive, Goto
<1>2. audits' = audits /\ caps' = caps /\ failures' = IF c = "invalid_token" THEN failures \cup {r} ELSE failures
  BY Zenon DEF Receive
<1>3. audits[r] = << >> /\ r \notin failures /\ (\A x \in caps : x[1] # r)
  BY <1>1, Zenon DEF Passed, DeskInv
<1>4. r \in failures' <=> c = "invalid_token"
  BY <1>2, <1>3, Zenon
<1>5. CASE c = "none"
  <2>1. pc'[r] = "lock" /\ code'[r] = "none" /\ events'[r] = <<"auth_request">> /\ r \notin failures'
    BY <1>1, <1>4, <1>5
  <2>2. DeskInv(r)'
    BY <1>1, <1>2, <1>3, <1>5, <2>1, Zenon DEF DeskInv
  <2>3. Told(r)' /\ GrantInv(r)'
    BY <2>1 DEF Told, GrantInv, Keyed
  <2> QED
    BY <2>2, <2>3 DEF Passed
<1>6. CASE c # "none"
  <2>1. c \in Refusal /\ c \notin {"granted", "no_policy", "policy_denied", "none"}
    BY <1>0, <1>6 DEF Refusal
  <2> HIDE DEF c
  <2>2. pc'[r] = "done" /\ audits'[r] = << >> /\ \A x \in caps' : x[1] # r
    BY <1>1, <1>2, <1>3, <1>6, Zenon
  <2>3. c # "method_not_allowed" =>
          events'[r][1] = "auth_request" /\ events'[r][Len(events'[r])] = "failed"
    BY <1>1, <1>6
  <2>4. DeskInv(r)'
    BY <1>1, <2>2, Zenon DEF DeskInv
  <2>5. Told(r)'
    BY <1>1, <1>4, <2>1, <2>2, <2>3, Zenon DEF Told
  <2>6. GrantInv(r)'
    BY <1>1, <2>1, <2>2 DEF GrantInv, Keyed
  <2> QED
    BY <2>4, <2>5, <2>6 DEF Passed
<1> QED
  BY <1>5, <1>6

\* A step within the handler that only moves on.
LEMMA PassedMove ==
  ASSUME NEW r \in Request, Passed(r), pc[r] \in {"lock", "fetch", "key", "token", "policy"},
         NEW s \in {"fetch", "key", "token", "policy", "mint"}, pc'[r] = s,
         UNCHANGED <<req, code, audits, failures, caps>>, events'[r] = events[r],
         s \in Keyed => r \in found',
         s \in {"policy", "mint"} => req[r].genuine,
         s = "mint" => Row(r).enabled /\ req[r].scopes \subseteq Row(r).scopes
  PROVE  Passed(r)'
<1>1. code[r] = "none" /\ pc[r] \notin {"ready", "sign", "done"} /\ s \notin {"ready", "sign", "done"}
  BY Zenon DEF Passed, DeskInv
<1>2. DeskInv(r)'
  BY <1>1, Zenon DEF Passed, DeskInv
<1>3. Told(r)'
  BY <1>1 DEF Told
<1>4. Row(r)' = Row(r)
  BY Zenon DEF Row
<1>5. GrantInv(r)'
  BY <1>1, <1>4 DEF GrantInv
<1> QED
  BY <1>2, <1>3, <1>5 DEF Passed

LEMMA PassedLock == ASSUME TypeOK, NEW r \in Request, Passed(r), Lock(r) PROVE Passed(r)'
<1>1. /\ pc[r] = "lock" /\ UNCHANGED <<req, code, output>>
      /\ Goto(r, IF Expired(req[r].issuer, now) THEN "fetch" ELSE "key")
  BY Zenon DEF Lock
<1>2. PICK s \in {"fetch", "key"} : pc'[r] = s
  BY <1>1, WroteGoto, Zenon
<1>3. UNCHANGED <<req, code, audits, failures, caps>> /\ events'[r] = events[r]
  BY <1>1, Zenon DEF output
<1> QED
  BY <1>1, <1>2, <1>3, PassedMove DEF Keyed

\* A request that keyByKid or verifyJWT refuses.
LEMMA PassedReject ==
  ASSUME TypeOK, NEW r \in Request, Passed(r), pc[r] \in {"fetch", "key", "token"}, RejectToken(r),
         UNCHANGED <<req, caps, audits>>
  PROVE  Passed(r)'
<1>1. /\ pc'[r] = "done" /\ code'[r] = "invalid_token" /\ events'[r] = Append(events[r], "failed")
      /\ r \in failures'
  BY WroteReject, Zenon
<1>2. DeskInv(r) /\ audits[r] = << >> /\ \A x \in caps : x[1] # r
  BY Zenon DEF Passed, DeskInv
<1>3. audits'[r] = << >> /\ req'[r] = req[r] /\ ~(\E x \in caps' : x[1] = r)
  BY <1>2, Zenon
<1>4. DeskInv(r)' /\ Told(r)' /\ GrantInv(r)'
  BY <1>1, <1>2, <1>3, Refused
<1> QED
  BY <1>4, Zenon DEF Passed

LEMMA PassedFetch ==
  ASSUME TypeOK, NEW r \in Request, Passed(r), FetchFails(r) \/ FetchSucceeds(r)
  PROVE  Passed(r)'
<1>0. pc[r] = "fetch" /\ UNCHANGED <<req, caps, audits>>
  BY Zenon DEF FetchFails, FetchSucceeds, output
<1>1. CASE RejectToken(r)
  BY <1>0, <1>1, PassedReject
<1>2. CASE Goto(r, "key") /\ UNCHANGED <<code, events, failures>>
  <2>1. pc'[r] = "key" /\ events'[r] = events[r]
    BY <1>2, WroteGoto, Zenon
  <2> QED
    BY <1>0, <1>2, <2>1, PassedMove DEF Keyed
<1> QED
  BY <1>1, <1>2, Zenon DEF FetchFails, FetchSucceeds, output

LEMMA PassedFindKey == ASSUME TypeOK, NEW r \in Request, Passed(r), FindKey(r) PROVE Passed(r)'
<1>0. pc[r] = "key" /\ UNCHANGED <<req, caps, audits>>
  BY Zenon DEF FindKey
<1>1. CASE RejectToken(r)
  BY <1>0, <1>1, PassedReject
<1>2. CASE Goto(r, "token") /\ found' = found \cup {r} /\ UNCHANGED <<code, events, failures>>
  <2>1. pc'[r] = "token" /\ events'[r] = events[r] /\ r \in found'
    BY <1>2, WroteGoto, Zenon
  <2> QED
    BY <1>0, <1>2, <2>1, PassedMove
<1> QED
  BY <1>1, <1>2, Zenon DEF FindKey

LEMMA PassedCheckToken == ASSUME TypeOK, NEW r \in Request, Passed(r), CheckToken(r) PROVE Passed(r)'
<1>0. pc[r] = "token" /\ UNCHANGED <<req, caps, audits, found>>
  BY Zenon DEF CheckToken, history
<1>1. CASE RejectToken(r)
  BY <1>0, <1>1, PassedReject
<1>2. CASE req[r].genuine /\ Goto(r, "policy") /\ UNCHANGED <<code, events, failures>>
  <2>1. pc'[r] = "policy" /\ events'[r] = events[r]
    BY <1>2, WroteGoto, Zenon
  <2>2. r \in found'
    BY <1>0, Zenon DEF Passed, GrantInv, Keyed
  <2> QED
    BY <1>0, <1>2, <2>1, <2>2, PassedMove
<1> QED
  BY <1>1, <1>2, Zenon DEF CheckToken

LEMMA PassedApplyPolicy == ASSUME TypeOK, NEW r \in Request, Passed(r), ApplyPolicy(r) PROVE Passed(r)'
<1>0. pc[r] = "policy" /\ UNCHANGED <<req, caps, failures, found>>
  BY Zenon DEF ApplyPolicy, history
<1>1. ASSUME NEW c \in {"no_policy", "policy_denied"}, Audit(r, c), Deny(r, c) PROVE Passed(r)'
  <2>1. DeskInv(r) /\ audits[r] = << >> /\ r \notin failures /\ \A x \in caps : x[1] # r
    BY <1>0, Zenon DEF Passed, DeskInv
  <2>2. pc'[r] = "done" /\ code'[r] = c /\ events'[r] = Append(events[r], "failed")
    BY <1>1, WroteDeny, Zenon
  <2>3. audits'[r] = <<c>>
    BY <1>1, <2>1, WroteAudit
  <2>4. c # "invalid_token" /\ r \notin failures' /\ ~(\E x \in caps' : x[1] = r) /\ req'[r] = req[r]
    BY <1>0, <2>1
  <2>5. DeskInv(r)' /\ Told(r)' /\ GrantInv(r)'
    BY <1>0, <2>1, <2>2, <2>3, <2>4, Refused
  <2> QED
    BY <2>5, Zenon DEF Passed
<1>2. CASE /\ Row(r).enabled /\ ScopesSubset(req[r].scopes, Row(r).scopes)
           /\ Goto(r, "mint") /\ UNCHANGED <<code, events, audits>>
  <2>1. pc'[r] = "mint" /\ events'[r] = events[r]
    BY <1>2, WroteGoto, Zenon
  <2>2. r \in found' /\ req[r].genuine
    BY <1>0, Zenon DEF Passed, GrantInv, Keyed
  <2> QED
    BY <1>0, <1>2, <2>1, <2>2, PassedMove DEF ScopesSubset
<1> QED
  BY <1>1, <1>2, Zenon DEF ApplyPolicy

LEMMA PassedMint == ASSUME TypeOK, PassedInv, NEW r \in Request, Mint(r) PROVE Passed(r)'
<1> DEFINE cap == <<r, Ttl(req[r].ttl, Row(r).maxTtl)>>
<1>0. pc[r] = "mint" /\ UNCHANGED <<req, audits, failures, found>>
  BY Zenon DEF Mint, history
<1>a. cap[1] = r /\ cap[2] <= MaxTtl * Second
  BY <1>0, MintedTtl
<1>b. Passed(r)
  BY Zenon DEF PassedInv
<1>c. DeskInv(r) /\ audits[r] = << >> /\ r \notin failures /\ code[r] = "none" /\ events[r] = <<"auth_request">>
  BY <1>0, <1>b, Zenon DEF Passed, DeskInv
<1>1. CASE Deny(r, "mint_failed")
  <2>1. pc'[r] = "done" /\ code'[r] = "mint_failed" /\ events'[r] = Append(events[r], "failed")
    BY <1>1, WroteDeny, Zenon
  <2>2. audits'[r] = << >> /\ r \notin failures' /\ req'[r] = req[r]
    BY <1>0, <1>c, Zenon
  <2>3. DeskInv(r)' /\ Told(r)' /\ GrantInv(r)'
    BY <1>0, <1>c, <2>1, <2>2, Refused
  <2> QED
    BY <2>3, Zenon DEF Passed
<1>2. CASE caps' = caps \cup {cap} /\ Emit(r, "token_issued") /\ Goto(r, "sign") /\ UNCHANGED code
  <2>1. pc'[r] = "sign" /\ code'[r] = "none"
    BY <1>2, <1>c, WroteGoto, Zenon
  <2>2. events'[r] = <<"auth_request", "token_issued">>
    <3>1. events'[r] = Append(<<"auth_request">>, "token_issued")
      BY <1>2, <1>c, WroteEmit, Zenon
    <3>2. "auth_request" \in Event /\ "token_issued" \in Event
      BY DEF Event
    <3> QED
      BY <3>1, <3>2, AppendPair, Zenon
  <2>3. DeskInv(r)'
    BY <1>0, <1>c, <2>1, <2>2, Zenon DEF DeskInv
  <2>4. Told(r)'
    BY <2>1 DEF Told
  <2>5. r \in found /\ req[r].genuine /\ Row(r).enabled /\ req[r].scopes \subseteq Row(r).scopes
    BY <1>0, <1>b, Zenon DEF Passed, GrantInv, Keyed
  <2>6. \E x \in caps' : x[1] = r /\ x[2] <= MaxTtl * Second
    BY <1>2, <1>a, Zenon
  <2>7. GrantInv(r)'
    BY <1>0, <2>5, <2>6, Zenon DEF GrantInv, Row
  <2> QED
    BY <2>3, <2>4, <2>7 DEF Passed
<1> QED
  BY <1>1, <1>2, Zenon DEF Mint

LEMMA PassedSign == ASSUME TypeOK, NEW r \in Request, Passed(r), Sign(r) PROVE Passed(r)'
<1>0. pc[r] = "sign" /\ UNCHANGED <<req, caps, failures, found>>
  BY Zenon DEF Sign, history
<1>c. /\ DeskInv(r) /\ audits[r] = << >> /\ r \notin failures
      /\ events[r] = <<"auth_request", "token_issued">>
  BY <1>0, Zenon DEF Passed, DeskInv
<1>1. CASE Deny(r, "sign_failed") /\ UNCHANGED audits
  <2>1. pc'[r] = "done" /\ code'[r] = "sign_failed" /\ events'[r] = Append(events[r], "failed")
    BY <1>1, WroteDeny, Zenon
  <2>2. audits'[r] = << >> /\ r \notin failures' /\ req'[r] = req[r]
    BY <1>0, <1>1, <1>c, Zenon
  <2>3. DeskInv(r)' /\ Told(r)' /\ GrantInv(r)'
    BY <1>0, <1>c, <2>1, <2>2, Refused
  <2> QED
    BY <2>3, Zenon DEF Passed
<1>2. CASE /\ Audit(r, "granted") /\ Emit(r, "code_issued") /\ Goto(r, "done")
           /\ code' = [code EXCEPT ![r] = "granted"]
  <2>1. pc'[r] = "done" /\ code'[r] = "granted"
    BY <1>2, WroteGoto DEF TypeOK
  <2>2. audits'[r] = <<"granted">>
    <3>1. audits'[r] = Append(<< >>, "granted")
      BY <1>2, <1>c, WroteAudit, Zenon
    <3>2. Append(<< >>, "granted") = <<"granted">>
      OBVIOUS
    <3> QED
      BY <3>1, <3>2, Zenon
  <2>3. events'[r][1] = "auth_request" /\ events'[r][Len(events'[r])] = "code_issued"
    <3>1. PICK s \in {<<"auth_request">>, <<"auth_request", "token_issued">>} : s = events[r]
      BY <1>c, Zenon
    <3>2. Append(s, "code_issued")[1] = "auth_request" /\ Append(s, "code_issued")[Len(Append(s, "code_issued"))] = "code_issued"
      BY TrailEnd, Zenon
    <3>3. events'[r] = Append(s, "code_issued")
      BY <1>2, <3>1, WroteEmit, Zenon
    <3> QED
      BY <3>2, <3>3, Zenon
  <2>4. DeskInv(r)'
    BY <1>0, <1>c, <2>1, Zenon DEF DeskInv
  <2>5. Told(r)'
    BY <1>0, <1>c, <2>1, <2>2, <2>3, Zenon DEF Told
  <2>6. GrantInv(r)'
    BY <1>0, <2>1, Zenon DEF Passed, GrantInv, Keyed, Row
  <2> QED
    BY <2>4, <2>5, <2>6 DEF Passed
<1> QED
  BY <1>1, <1>2, Zenon DEF Sign

\* The provider, the clock and stuttering leave every request alone.
Quiet == Tick \/ (\E i \in Issuer, K \in SUBSET Kid : Rotate(i, K)) \/ UNCHANGED vars

LEMMA QuietAside == ASSUME Quiet, NEW w \in Request PROVE Aside(w)
<1>1. UNCHANGED <<request, output, stale, found, looked>>
  BY Zenon DEF Quiet, Tick, Rotate, vars, history
<1> QED
  BY <1>1, Zenon DEF Aside, request, output

LEMMA NextKinds ==
  ASSUME [Next]_vars
  PROVE  (\E r \in Request : Handle(r) \/ \E q \in Post : Receive(r, q)) \/ Quiet
  BY Zenon DEF Next, Quiet

LEMMA PassedNext == TypeOK /\ PassedInv /\ [Next]_vars => PassedInv'
<1> SUFFICES ASSUME TypeOK, PassedInv, [Next]_vars, NEW w \in Request PROVE Passed(w)'
  BY Zenon DEF PassedInv
<1>0. Passed(w)
  BY Zenon DEF PassedInv
<1>1. CASE Aside(w)
  BY <1>0, <1>1, AsideKeeps, Zenon DEF Passed
<1>2. CASE Handle(w)
  BY <1>0, <1>2, PassedLock, PassedFetch, PassedFindKey, PassedCheckToken, PassedApplyPolicy, PassedMint, PassedSign,
     Zenon DEF Handle
<1>3. ASSUME NEW q \in Post, Receive(w, q) PROVE Passed(w)'
  BY <1>0, <1>3, PassedReceive, Zenon
<1> QED
  BY <1>1, <1>2, <1>3, NextKinds, HandleAside, ReceiveAside, QuietAside, Zenon

LEMMA TypeCorrect == Spec => [](TypeOK /\ PassedInv)
<1>1. Init => TypeOK /\ PassedInv
  BY TypeInit, PassedInit
<1>2. TypeOK /\ PassedInv /\ [Next]_vars => TypeOK' /\ PassedInv'
  BY TypeNext, PassedNext
<1> QED
  BY <1>1, <1>2, PTL DEF Spec

\* The trust model of oidc.go for any number of requests, issuers and keys: a
\* granted response means that a key of the provider was found, the token was
\* genuine, the policy row is enabled and allows every scope, and the stored
\* token lives no longer than MaxOIDCTTL.
THEOREM GrantCorrect == Spec => []GrantSound
<1>1. PassedInv => GrantSound
  BY Zenon DEF PassedInv, Passed, GrantInv, GrantSound
<1> QED
  BY <1>1, TypeCorrect, PTL

\* Events, audit lines, stored tokens and the failures reported to the
\* brute-force detector agree with the response, for any number of requests.
THEOREM TrailCorrect == Spec => []TrailAgrees
<1>1. TypeOK /\ PassedInv => TrailAgrees
  BY Zenon DEF PassedInv, Passed, Told, TrailAgrees
<1> QED
  BY <1>1, TypeCorrect, PTL

-----------------------------------------------------------------------------
(* The keys.                                                               *)

\* The record of the moments up to now only loosens: a key once published stays
\* recorded, a key once withdrawn is never recorded as published all along.
Grows(i) == \A t \in Time : t <= now => ever[i][t] \subseteq ever'[i][t] /\ always'[i][t] \subseteq always[i][t]

Recorded == now \in Time /\ now' \in Time /\ now <= now' /\ \A i \in Issuer : Grows(i)

LEMMA Clocks ==
  ASSUME TypeOK
  PROVE  /\ now \in Time /\ now \in Int /\ now <= now /\ CacheTtl \in Nat /\ CacheTtl \in Int
         /\ \A r \in Request : asked[r] \in Int /\ looked[r] \in Int /\ looked[r] \in Time
<1>1. Time \subseteq Int /\ CacheTtl \in Nat /\ CacheTtl \in Int
  BY CacheAssumption DEF Time
<1>2. now \in Time /\ asked \in [Request -> Time] /\ looked \in [Request -> Time]
  BY Zenon DEF TypeOK
<1>3. now <= now
  BY <1>1, <1>2
<1> QED
  BY <1>1, <1>2, <1>3, Zenon

LEMMA Entries == ASSUME NEW e \in Entry PROVE e # NoEntry /\ e.fetched \in Int
<1>1. e.fetched \in Time /\ Time \subseteq Int
  BY CacheAssumption DEF Entry, Time
<1> QED
  BY <1>1, EntryAssumption, Zenon

LEMMA CachedEntry ==
  ASSUME TypeOK, NEW i \in Issuer, cached[i] # NoEntry
  PROVE  cached[i] \in Entry
  BY DEF TypeOK

LEMMA NoLater ==
  ASSUME NEW a \in Int, NEW b \in Int, NEW c \in Int, a <= b, b <= c PROVE a <= c
  OBVIOUS

LEMMA HistorySteps ==
  ASSUME NEW r \in Request, Handle(r) \/ \E q \in Post : Receive(r, q)
  PROVE  UNCHANGED <<ever, always, idp, now>>
<1>1. CASE Handle(r)
  <2>1. CASE Lock(r) \/ FetchSucceeds(r)
    BY <2>1, Zenon DEF Lock, FetchSucceeds, world, history
  <2>2. CASE FetchFails(r) \/ FindKey(r)
    BY <2>2, Zenon DEF FetchFails, FindKey, world
  <2>3. CASE CheckToken(r) \/ ApplyPolicy(r) \/ Mint(r) \/ Sign(r)
    BY <2>3, Zenon DEF CheckToken, ApplyPolicy, Mint, Sign, world, history
  <2> QED
    BY <1>1, <2>1, <2>2, <2>3, Zenon DEF Handle
<1>2. ASSUME NEW q \in Post, Receive(r, q) PROVE UNCHANGED <<ever, always, idp, now>>
  BY <1>2, Zenon DEF Receive, world, history
<1> QED
  BY <1>1, <1>2, Zenon

LEMMA RecordedNext == ASSUME TypeOK, TypeOK', [Next]_vars PROVE Recorded
<1>0. now \in Time /\ now' \in Time /\ Time \subseteq Int
  BY CacheAssumption DEF TypeOK, Time
<1>1. CASE UNCHANGED <<ever, always, now>>
  BY <1>0, <1>1 DEF Recorded, Grows
<1>2. CASE Tick
  <2>a. now' = now + 1
    BY <1>2, Zenon DEF Tick
  <2>1. now' = now + 1 /\ now <= now' /\ \A t \in Time : t <= now => t # now + 1
    BY <1>0, <2>a
  <2>2. \A i \in Issuer, t \in Time : t # now + 1 => ever'[i][t] = ever[i][t] /\ always'[i][t] = always[i][t]
    BY <1>2 DEF Tick, TypeOK
  <2> QED
    BY <1>0, <2>1, <2>2, Zenon DEF Recorded, Grows
<1>3. ASSUME NEW i \in Issuer, NEW K \in SUBSET Kid, Rotate(i, K) PROVE Recorded
  <2>1. now' = now /\ now <= now'
    BY <1>0, <1>3 DEF Rotate
  <2>2. /\ ever \in [Issuer -> [Time -> SUBSET Kid]] /\ always \in [Issuer -> [Time -> SUBSET Kid]]
        /\ ever' = [ever EXCEPT ![i][now] = @ \cup K] /\ always' = [always EXCEPT ![i][now] = @ \cap K]
    BY <1>3, Zenon DEF Rotate, TypeOK
  <2>3. \A j \in Issuer, t \in Time : ever[j][t] \subseteq ever'[j][t]
    BY <1>0, <2>2
  <2>4. \A j \in Issuer, t \in Time : always'[j][t] \subseteq always[j][t]
    BY <1>0, <2>2
  <2> QED
    BY <1>0, <2>1, <2>3, <2>4, Zenon DEF Recorded, Grows
<1> QED
  BY <1>1, <1>2, <1>3, NextKinds, HistorySteps, Zenon DEF Quiet, vars, history, world

LEMMA SeenKeeps ==
  ASSUME Recorded, NEW i \in Issuer, NEW k, NEW from, Seen(i, k, from, now)
  PROVE  \E t \in Time : from <= t /\ t <= now' /\ k \in ever'[i][t]
<1>1. PICK t \in Time : from <= t /\ t <= now /\ k \in ever[i][t]
  BY Zenon DEF Seen
<1>2. t <= now'
  BY <1>1, CacheAssumption DEF Recorded, Time
<1> QED
  BY <1>1, <1>2, Zenon DEF Recorded, Grows

LEMMA MissedKeeps ==
  ASSUME Recorded, NEW i \in Issuer, NEW k, NEW from, NEW to \in Time, NEW upto \in Time, to <= now, to <= upto,
         Missed(i, k, from, to)
  PROVE  \E t \in Time : from <= t /\ t <= upto /\ k \notin always'[i][t]
<1>1. PICK t \in Time : from <= t /\ t <= to /\ k \notin always[i][t]
  BY Zenon DEF Missed
<1>2. t <= now /\ t <= upto
  BY <1>1, CacheAssumption DEF Recorded, Time
<1> QED
  BY <1>1, <1>2, Zenon DEF Recorded, Grows

LEMMA KeysInit == Init => KeysInv
<1> SUFFICES ASSUME Init PROVE KeysInv
  OBVIOUS
<1>1. ASSUME NEW i \in Issuer PROVE CacheInv(i)
  <2>1. 0 \in Time /\ now = 0
    BY CacheAssumption DEF Init, Time
  <2>2. ever[i][now] = idp[i] /\ always = ever /\ cached[i] = NoEntry
    BY <2>1 DEF Init
  <2> QED
    BY <2>2, Zenon DEF CacheInv
<1>2. ASSUME NEW r \in Request PROVE LockInv(r) /\ JudgedInv(r)
  <2>1. pc[r] = "ready" /\ asked[r] = 0 /\ looked[r] = 0 /\ now = 0 /\ found = {}
    BY DEF Init
  <2>2. pc[r] \notin {"fetch", "key", "done"} /\ asked[r] <= now /\ looked[r] <= now /\ r \notin found
    BY <2>1
  <2>3. pc[r] # "key" /\ pc[r] # "done"
    BY <2>1
  <2> QED
    BY <2>2, <2>3, Zenon DEF LockInv, JudgedInv
<1> QED
  BY <1>1, <1>2, Zenon DEF KeysInv

\* The cached entry of an issuer, when neither it nor the keys move.
LEMMA CacheStays ==
  ASSUME UNCHANGED <<ever, always, idp, now>>, NEW i \in Issuer, cached'[i] = cached[i], CacheInv(i)
  PROVE  CacheInv(i)'
  BY Zenon DEF CacheInv, Seen, Missed

\* The entries after a fetch have the keys of this moment.
LEMMA CacheFetched ==
  ASSUME TypeOK, PassedInv, KeysInv, NEW r \in Request, FetchSucceeds(r), NEW i \in Issuer
  PROVE  CacheInv(i)'
<1>0. CacheInv(i) /\ LockInv(r) /\ UNCHANGED <<ever, always, idp, now>> /\ req[r].issuer \in Issuer
  BY HistorySteps, Admitted, Zenon DEF KeysInv, Handle, FetchSucceeds
<1>1. CASE i # req[r].issuer
  <2>1. cached'[i] = cached[i]
    BY <1>1 DEF FetchSucceeds, TypeOK
  <2> QED
    BY <1>0, <2>1, CacheStays, Zenon
<1>2. CASE i = req[r].issuer
  <2>1. cached'[i].keys = idp[i] /\ cached'[i].fetched = asked[r]
    BY <1>2 DEF FetchSucceeds, TypeOK
  <2>2. asked[r] <= now /\ now <= now /\ now \in Time
    BY <1>0, CacheAssumption DEF LockInv, TypeOK, Time
  <2>3. idp[i] \subseteq ever[i][now] /\ always[i][now] \subseteq idp[i]
    BY <1>0, Zenon DEF CacheInv
  <2>4. ASSUME NEW k \in Kid
        PROVE  IF k \in cached'[i].keys THEN Seen(i, k, asked[r], now) ELSE Missed(i, k, asked[r], now)
    BY <2>1, <2>2, <2>3, Zenon DEF Seen, Missed
  <2> QED
    BY <1>0, <2>1, <2>3, <2>4, Zenon DEF CacheInv, Seen, Missed
<1> QED
  BY <1>1, <1>2

\* The entries while the keys or the clock move.
LEMMA CacheQuiet ==
  ASSUME TypeOK, TypeOK', KeysInv, Quiet, NEW i \in Issuer
  PROVE  CacheInv(i)'
<1>0. CacheInv(i) /\ Recorded
  BY RecordedNext, Zenon DEF KeysInv, Quiet, Next
<1>1. cached' = cached
  BY Zenon DEF Quiet, Tick, Rotate, vars, cache
<1>2. idp'[i] \subseteq ever'[i][now'] /\ always'[i][now'] \subseteq idp'[i]
  <2>0. idp[i] \subseteq ever[i][now] /\ always[i][now] \subseteq idp[i] /\ now \in Time
    BY <1>0, Zenon DEF CacheInv, Recorded
  <2>1. CASE Tick
    <3>1. now' = now + 1 /\ now' \in Time /\ idp' = idp
      BY <2>1, <1>0, Zenon DEF Tick, Recorded
    <3>2. ever'[i][now + 1] = idp[i] /\ always'[i][now + 1] = idp[i]
      BY <2>1, <3>1 DEF Tick, TypeOK
    <3> QED
      BY <3>1, <3>2
  <2>2. ASSUME NEW j \in Issuer, NEW K \in SUBSET Kid, Rotate(j, K)
        PROVE  idp'[i] \subseteq ever'[i][now'] /\ always'[i][now'] \subseteq idp'[i]
    <3>1. now' = now
      BY <2>2, Zenon DEF Rotate
    <3>2. CASE i = j
      <4>1. idp'[i] = K /\ ever'[i][now] = ever[i][now] \cup K /\ always'[i][now] = always[i][now] \cap K
        BY <2>0, <2>2, <3>2 DEF Rotate, TypeOK
      <4> QED
        BY <3>1, <4>1
    <3>3. CASE i # j
      <4>1. idp'[i] = idp[i] /\ ever'[i] = ever[i] /\ always'[i] = always[i]
        BY <2>2, <3>3 DEF Rotate, TypeOK
      <4> QED
        BY <2>0, <3>1, <4>1
    <3> QED
      BY <3>2, <3>3
  <2>3. CASE UNCHANGED vars
    BY <2>0, <2>3, Zenon DEF vars, world, history
  <2> QED
    BY <2>1, <2>2, <2>3, Zenon DEF Quiet
<1>3. ASSUME cached[i] # NoEntry, NEW k \in Kid
      PROVE  (IF k \in cached[i].keys THEN Seen(i, k, cached[i].fetched, now)
                                      ELSE Missed(i, k, cached[i].fetched, now))'
  <2>1. now \in Time /\ now' \in Time /\ now <= now' /\ now <= now
    BY <1>0, CacheAssumption DEF Recorded, Time
  <2>3. CASE k \in cached[i].keys
    <3>1. Seen(i, k, cached[i].fetched, now)
      BY <1>0, <1>3, <2>3, Zenon DEF CacheInv
    <3>2. \E t \in Time : cached[i].fetched <= t /\ t <= now' /\ k \in ever'[i][t]
      BY <1>0, <3>1, SeenKeeps, Zenon
    <3> QED
      BY <1>1, <2>3, <3>2, Zenon DEF Seen
  <2>4. CASE k \notin cached[i].keys
    <3>1. Missed(i, k, cached[i].fetched, now)
      BY <1>0, <1>3, <2>4, Zenon DEF CacheInv
    <3>2. \E t \in Time : cached[i].fetched <= t /\ t <= now' /\ k \notin always'[i][t]
      BY <1>0, <2>1, <3>1, MissedKeeps, Zenon
    <3> QED
      BY <1>1, <2>4, <3>2, Zenon DEF Missed
  <2> QED
    BY <2>3, <2>4, Zenon
<1> QED
  BY <1>1, <1>2, <1>3, Zenon DEF CacheInv

\* A step of request r leaves alone the mutex and the entry that another holds.
LEMMA MutexKept ==
  ASSUME KeysInv, NEW r \in Request, Handle(r) \/ \E q \in Post : Receive(r, q),
         NEW w \in Request, w # r, pc[w] \in {"fetch", "key"}
  PROVE  UNCHANGED <<cached, holder>>
<1>0. LockInv(w) /\ LockInv(r)
  BY Zenon DEF KeysInv
<1>a. holder = w /\ (pc[r] \in {"fetch", "key"} => holder = r)
  BY <1>0, Zenon DEF LockInv
<1>1. holder = w /\ (pc[r] \in {"fetch", "key"} => holder = r) /\ holder # NoHolder
  BY <1>a, NamesAssumption, Zenon
<1>2. pc[r] \notin {"fetch", "key"} /\ ~Lock(r)
  BY <1>1, Zenon DEF Lock
<1>3. ASSUME NEW q \in Post, Receive(r, q) PROVE UNCHANGED <<cached, holder>>
  BY <1>3, Zenon DEF Receive, cache
<1>4. CASE Handle(r)
  <2>1. CheckToken(r) \/ ApplyPolicy(r) \/ Mint(r) \/ Sign(r)
    BY <1>2, <1>4, Zenon DEF Handle, FetchFails, FetchSucceeds, FindKey
  <2> QED
    BY <2>1, Zenon DEF CheckToken, ApplyPolicy, Mint, Sign, cache
<1> QED
  BY <1>3, <1>4, Zenon

LEMMA LockAlone ==
  ASSUME TypeOK, Recorded, NEW w \in Request, LockInv(w), Aside(w),
         pc[w] \in {"fetch", "key"} => UNCHANGED <<cached, holder>>
  PROVE  LockInv(w)'
<1>1. asked'[w] <= now' /\ looked'[w] <= now'
  <2>1. asked[w] <= now /\ looked[w] <= now /\ asked'[w] = asked[w] /\ looked'[w] = looked[w]
    BY Zenon DEF LockInv, Aside
  <2>2. now' \in Int /\ now <= now'
    <3>1. now' \in Time /\ now <= now'
      BY Zenon DEF Recorded
    <3> QED
      BY <3>1, CacheAssumption DEF Time
  <2> QED
    BY <2>1, <2>2, Clocks, NoLater, Zenon
<1>2. pc'[w] \in {"fetch", "key"} => holder' = w
  BY Zenon DEF LockInv, Aside
<1>3. pc'[w] = "key" => /\ cached'[req'[w].issuer] # NoEntry
                        /\ w \notin stale' => cached'[req'[w].issuer].fetched >= asked'[w] - CacheTtl
  <2>1. CASE pc[w] = "key"
    <3>1. cached' = cached
      BY <2>1, Zenon
    <3> QED
      BY <2>1, <3>1, Zenon DEF LockInv, Aside
  <2>2. CASE pc[w] # "key"
    BY <2>2, Zenon DEF Aside
  <2> QED
    BY <2>1, <2>2, Zenon
<1>4. w \in found' => pc'[w] \in Keyed \cup {"done"} /\ Triage(req'[w]) = "none"
  BY Zenon DEF LockInv, Aside
<1> QED
  BY <1>1, <1>2, <1>3, <1>4, Zenon DEF LockInv

LEMMA JudgedAlone ==
  ASSUME TypeOK, Recorded, NEW w \in Request, LockInv(w), JudgedInv(w), Aside(w)
  PROVE  JudgedInv(w)'
<1>0. /\ pc'[w] = pc[w] /\ req'[w] = req[w] /\ asked'[w] = asked[w] /\ looked'[w] = looked[w]
      /\ (w \in found' <=> w \in found) /\ (w \in stale' <=> w \in stale)
  BY Zenon DEF Aside
<1>1. ASSUME w \in found, w \notin stale
      PROVE  Seen(req[w].issuer, req[w].kid, asked[w] - CacheTtl, now)'
  <2>1. req[w].issuer \in Issuer
    BY <1>1, TriageAnswers, Zenon DEF LockInv
  <2>2. Seen(req[w].issuer, req[w].kid, asked[w] - CacheTtl, now)
    BY <1>1, Zenon DEF JudgedInv
  <2>3. \E t \in Time : asked[w] - CacheTtl <= t /\ t <= now' /\ req[w].kid \in ever'[req[w].issuer][t]
    BY <2>1, <2>2, SeenKeeps, Zenon
  <2> QED
    BY <1>0, <2>3, Zenon DEF Seen
<1>2. ASSUME w \notin stale, pc[w] = "done", Triage(req[w]) = "none", w \notin found
      PROVE  Missed(req[w].issuer, req[w].kid, asked[w] - CacheTtl, looked[w])'
  <2>1. req[w].issuer \in Issuer
    BY <1>2, TriageAnswers, Zenon
  <2>2. Missed(req[w].issuer, req[w].kid, asked[w] - CacheTtl, looked[w])
    BY <1>2, Zenon DEF JudgedInv
  <2>3. looked[w] \in Time /\ looked[w] <= now /\ looked[w] <= looked[w]
    BY CacheAssumption DEF TypeOK, LockInv, Time
  <2>4. \E t \in Time : asked[w] - CacheTtl <= t /\ t <= looked[w] /\ req[w].kid \notin always'[req[w].issuer][t]
    BY <2>1, <2>2, <2>3, MissedKeeps, Zenon
  <2> QED
    BY <1>0, <2>4, Zenon DEF Missed
<1> QED
  BY <1>0, <1>1, <1>2, Zenon DEF JudgedInv

LEMMA NotKeyed ==
  ASSUME NEW r \in Request, LockInv(r), pc[r] \in {"ready", "lock", "fetch", "key"}
  PROVE  r \notin found /\ asked[r] <= now /\ looked[r] <= now
<1>1. pc[r] \notin Keyed \cup {"done"}
  BY DEF Keyed
<1> QED
  BY <1>1, Zenon DEF LockInv

LEMMA KeysReceive ==
  ASSUME TypeOK, NEW r \in Request, LockInv(r), NEW q \in Post, Receive(r, q)
  PROVE  LockInv(r)' /\ JudgedInv(r)'
<1>1. /\ pc[r] = "ready" /\ pc'[r] = (IF Triage(q) = "none" THEN "lock" ELSE "done") /\ req'[r] = q
  BY DEF TypeOK, Receive, Goto
<1>2. UNCHANGED <<asked, looked, now, found, stale>>
  BY Zenon DEF Receive, world, history
<1>3. r \notin found /\ asked[r] <= now /\ looked[r] <= now
  BY <1>1, NotKeyed, Zenon
<1>4. pc'[r] \notin {"fetch", "key"} /\ (pc'[r] = "done" => Triage(req'[r]) # "none")
  BY <1>1
<1>5. LockInv(r)'
  BY <1>2, <1>3, <1>4, Zenon DEF LockInv
<1>6. JudgedInv(r)'
  BY <1>2, <1>3, <1>4, Zenon DEF JudgedInv
<1> QED
  BY <1>5, <1>6

LEMMA KeysLock ==
  ASSUME TypeOK, PassedInv, NEW r \in Request, LockInv(r), Lock(r)
  PROVE  LockInv(r)' /\ JudgedInv(r)'
<1>0. /\ pc[r] = "lock" /\ holder' = r /\ UNCHANGED <<cached, req, looked, now, found, stale>>
      /\ Goto(r, IF Expired(req[r].issuer, now) THEN "fetch" ELSE "key")
  BY Zenon DEF Lock, world, history
<1>1. pc'[r] = (IF Expired(req[r].issuer, now) THEN "fetch" ELSE "key")
  BY <1>0, WroteGoto, Zenon
<1>2. asked'[r] = now
  BY DEF Lock, TypeOK
<1>3. now \in Int /\ CacheTtl \in Int /\ now <= now
  BY Clocks, Zenon
<1>4. r \notin found /\ looked[r] <= now
  BY <1>0, NotKeyed, Zenon
<1>5. req[r].issuer \in Issuer
  BY <1>0, Admitted
<1>6. ASSUME ~Expired(req[r].issuer, now)
      PROVE  cached[req[r].issuer] # NoEntry /\ cached[req[r].issuer].fetched >= now - CacheTtl
  <2>1. cached[req[r].issuer] # NoEntry /\ ~(now - cached[req[r].issuer].fetched > CacheTtl)
    BY <1>6, Zenon DEF Expired
  <2>2. PICK f \in Int : f = cached[req[r].issuer].fetched
    BY <1>5, <2>1, CachedEntry, Entries, Zenon
  <2>3. ~(now - f > CacheTtl) => f >= now - CacheTtl
    BY <1>3
  <2> QED
    BY <2>1, <2>2, <2>3, Zenon
<1>7. pc'[r] \in {"fetch", "key"} /\ (pc'[r] = "key" => ~Expired(req[r].issuer, now))
  BY <1>1
<1>8. LockInv(r)'
  BY <1>0, <1>2, <1>3, <1>4, <1>6, <1>7, Zenon DEF LockInv
<1>9. JudgedInv(r)'
  <2>1. pc'[r] # "done"
    BY <1>7
  <2> QED
    BY <1>0, <1>4, <2>1, Zenon DEF JudgedInv
<1> QED
  BY <1>8, <1>9

LEMMA KeysFetchFails ==
  ASSUME TypeOK, PassedInv, NEW r \in Request, LockInv(r), FetchFails(r)
  PROVE  LockInv(r)' /\ JudgedInv(r)'
<1>0. pc[r] = "fetch" /\ r \in stale' /\ UNCHANGED <<cached, req, asked, now, found>>
  BY Zenon DEF FetchFails, world
<1>1. r \notin found /\ holder = r /\ asked[r] <= now /\ looked[r] <= now
  <2>1. holder = r
    BY <1>0, Zenon DEF LockInv
  <2> QED
    BY <1>0, <2>1, NotKeyed, Zenon
<1>2. looked'[r] <= now
  <2>1. now <= now
    BY Clocks, Zenon
  <2>2. looked'[r] \in {looked[r], now}
    BY DEF FetchFails, TypeOK
  <2> QED
    BY <1>1, <2>1, <2>2, Zenon
<1>3. \/ pc'[r] = "done"
      \/ pc'[r] = "key" /\ holder' = holder /\ cached[req[r].issuer] # NoEntry
  BY WroteReject, WroteGoto, Zenon DEF FetchFails
<1>4. LockInv(r)'
  BY <1>0, <1>1, <1>2, <1>3 DEF LockInv
<1>5. JudgedInv(r)'
  BY <1>0, Zenon DEF JudgedInv
<1> QED
  BY <1>4, <1>5

LEMMA KeysFetchSucceeds ==
  ASSUME TypeOK, PassedInv, NEW r \in Request, LockInv(r), FetchSucceeds(r)
  PROVE  LockInv(r)' /\ JudgedInv(r)'
<1>0. /\ pc[r] = "fetch" /\ UNCHANGED <<holder, req, asked, looked, now, found, stale>>
      /\ Goto(r, "key")
  BY Zenon DEF FetchSucceeds, world, history
<1>1. r \notin found /\ holder = r /\ asked[r] <= now /\ looked[r] <= now
  <2>1. holder = r
    BY <1>0, Zenon DEF LockInv
  <2> QED
    BY <1>0, <2>1, NotKeyed, Zenon
<1>2. pc'[r] = "key"
  BY <1>0, WroteGoto, Zenon
<1>3. req[r].issuer \in Issuer
  BY <1>0, Admitted
<1>4. cached'[req[r].issuer] = [keys |-> idp[req[r].issuer], fetched |-> asked[r]]
  BY <1>3 DEF FetchSucceeds, TypeOK
<1>5. cached'[req[r].issuer] # NoEntry
  <2>1. idp[req[r].issuer] \in SUBSET Kid /\ asked[r] \in Time
    BY <1>3, Zenon DEF TypeOK
  <2>2. PICK K \in SUBSET Kid : K = idp[req[r].issuer]
    BY <2>1, Zenon
  <2>3. PICK a \in Time : a = asked[r]
    BY <2>1, Zenon
  <2>4. [keys |-> K, fetched |-> a] \in Entry
    BY DEF Entry
  <2> QED
    BY <1>4, <2>2, <2>3, <2>4, Entries, Zenon
<1>6. cached'[req[r].issuer].fetched >= asked[r] - CacheTtl
  <2>1. cached'[req[r].issuer].fetched = asked[r]
    <3>1. PICK K : K = idp[req[r].issuer]
      OBVIOUS
    <3>2. PICK t : t = asked[r]
      OBVIOUS
    <3>3. PICK e : e = cached'[req[r].issuer]
      OBVIOUS
    <3>4. e = [keys |-> K, fetched |-> t]
      BY <1>4, <3>1, <3>2, <3>3, Zenon
    <3>5. e.fetched = t
      BY <3>4
    <3> QED
      BY <3>2, <3>3, <3>5, Zenon
  <2>2. PICK a \in Int : a = asked[r]
    BY Clocks, Zenon
  <2>3. CacheTtl \in Nat
    BY Clocks, Zenon
  <2>4. a >= a - CacheTtl
    BY <2>3
  <2> QED
    BY <2>1, <2>2, <2>4, Zenon
<1>7. LockInv(r)'
  BY <1>0, <1>1, <1>2, <1>5, <1>6, Zenon DEF LockInv
<1>8. JudgedInv(r)'
  <2>1. pc'[r] # "done"
    BY <1>2
  <2> QED
    BY <1>0, <1>1, <2>1, Zenon DEF JudgedInv
<1> QED
  BY <1>7, <1>8

LEMMA KeysFindKey ==
  ASSUME TypeOK, PassedInv, KeysInv, NEW r \in Request, FindKey(r)
  PROVE  LockInv(r)' /\ JudgedInv(r)'
<1> DEFINE i == req[r].issuer
           k == req[r].kid
<1>0. pc[r] = "key" /\ UNCHANGED <<cached, req, asked, now, ever, always, stale>>
  BY Zenon DEF FindKey, world
<1>a. LockInv(r)
  BY Zenon DEF KeysInv
<1>1. /\ r \notin found /\ asked[r] <= now /\ cached[i] # NoEntry
      /\ r \notin stale => cached[i].fetched >= asked[r] - CacheTtl
  <2>1. r \notin found /\ asked[r] <= now
    BY <1>0, <1>a, NotKeyed, Zenon
  <2> QED
    BY <1>0, <1>a, <2>1, Zenon DEF LockInv
<1>2. i \in Issuer /\ k \in Kid /\ Triage(req[r]) = "none"
  BY <1>0, Admitted, PostAssumption, Zenon
<1>3. looked'[r] = now /\ now <= now
  <2>1. looked' = [looked EXCEPT ![r] = now] /\ looked \in [Request -> Time]
    BY Zenon DEF FindKey, TypeOK
  <2> QED
    BY <2>1, Clocks, Zenon
<1>4. IF k \in cached[i].keys THEN Seen(i, k, cached[i].fetched, now) ELSE Missed(i, k, cached[i].fetched, now)
  BY <1>1, <1>2, Zenon DEF KeysInv, CacheInv
<1>5. ASSUME NEW t \in Time, r \notin stale, cached[i].fetched <= t PROVE asked[r] - CacheTtl <= t
  <2>1. asked[r] \in Int /\ CacheTtl \in Int
    BY Clocks, Zenon
  <2>2. t \in Int
    BY CacheAssumption DEF Time
  <2>3. cached[i].fetched \in Int
    BY <1>1, <1>2, CachedEntry, Entries, Zenon
  <2>4. asked[r] - CacheTtl <= cached[i].fetched
    BY <1>1, <1>5, Zenon
  <2>5. asked[r] - CacheTtl \in Int
    BY <2>1
  <2> QED
    BY <1>5, <2>2, <2>3, <2>4, <2>5, NoLater, Zenon
<1>6. CASE k \in cached[i].keys
  <2>1. Goto(r, "token") /\ r \in found'
    BY <1>6, Zenon DEF FindKey
  <2>2. pc'[r] = "token"
    BY <2>1, WroteGoto, Zenon
  <2>3. LockInv(r)'
    BY <1>0, <1>1, <1>2, <1>3, <2>1, <2>2 DEF LockInv, Keyed
  <2>4. r \notin stale => Seen(i, k, asked[r] - CacheTtl, now)
    BY <1>4, <1>5, <1>6, Zenon DEF Seen
  <2>5. JudgedInv(r)'
    BY <1>0, <2>1, <2>4, Zenon DEF JudgedInv, Seen
  <2> QED
    BY <2>3, <2>5
<1>7. CASE k \notin cached[i].keys
  <2>1. RejectToken(r) /\ found' = found
    BY <1>7, Zenon DEF FindKey
  <2>2. pc'[r] = "done"
    BY <2>1, WroteReject, Zenon
  <2>3. LockInv(r)'
    BY <1>0, <1>1, <1>3, <2>1, <2>2 DEF LockInv
  <2>4. r \notin stale => Missed(i, k, asked[r] - CacheTtl, now)
    BY <1>4, <1>5, <1>7, Zenon DEF Missed
  <2>5. JudgedInv(r)'
    BY <1>0, <1>1, <1>3, <2>1, <2>4, Zenon DEF JudgedInv, Missed
  <2> QED
    BY <2>3, <2>5
<1> QED
  BY <1>6, <1>7

\* The steps after the key was found.
LEMMA KeysLater ==
  ASSUME TypeOK, PassedInv, NEW r \in Request, LockInv(r), JudgedInv(r),
         CheckToken(r) \/ ApplyPolicy(r) \/ Mint(r) \/ Sign(r)
  PROVE  LockInv(r)' /\ JudgedInv(r)'
<1>0. pc[r] \in Keyed /\ UNCHANGED <<req, asked, now, ever, always, stale, found, looked>>
  BY Zenon DEF CheckToken, ApplyPolicy, Mint, Sign, Keyed, world, history
<1>1. r \in found
  BY <1>0, Zenon DEF PassedInv, Passed, GrantInv
<1>2. pc'[r] \in Keyed \cup {"done"} /\ pc'[r] \notin {"fetch", "key"}
  <2>1. CASE CheckToken(r)
    <3>1. pc'[r] \in {"done", "policy"}
      BY <2>1, WroteReject, WroteGoto, Zenon DEF CheckToken
    <3> QED
      BY <3>1 DEF Keyed
  <2>2. CASE ApplyPolicy(r)
    <3>1. pc'[r] \in {"done", "mint"}
      BY <2>2, WroteDeny, WroteGoto, Zenon DEF ApplyPolicy
    <3> QED
      BY <3>1 DEF Keyed
  <2>3. CASE Mint(r)
    <3>1. pc'[r] \in {"done", "sign"}
      BY <2>3, WroteDeny, WroteGoto, Zenon DEF Mint
    <3> QED
      BY <3>1 DEF Keyed
  <2>4. CASE Sign(r)
    <3>1. pc'[r] = "done"
      BY <2>4, WroteDeny, WroteGoto, Zenon DEF Sign
    <3> QED
      BY <3>1
  <2> QED
    BY <2>1, <2>2, <2>3, <2>4
<1>3. LockInv(r)'
  BY <1>0, <1>1, <1>2, Zenon DEF LockInv
<1>4. JudgedInv(r)'
  BY <1>0, <1>1, Zenon DEF JudgedInv, Seen
<1> QED
  BY <1>3, <1>4

LEMMA KeysNext == TypeOK /\ TypeOK' /\ PassedInv /\ KeysInv /\ [Next]_vars => KeysInv'
<1> SUFFICES ASSUME TypeOK, TypeOK', PassedInv, KeysInv, [Next]_vars PROVE KeysInv'
  OBVIOUS
<1>0. Recorded
  BY RecordedNext
<1>1. ASSUME NEW i \in Issuer PROVE CacheInv(i)'
  <2>0. CacheInv(i)
    BY Zenon DEF KeysInv
  <2>1. CASE Quiet
    BY <2>1, CacheQuiet
  <2>2. ASSUME NEW r \in Request, Handle(r) \/ \E q \in Post : Receive(r, q) PROVE CacheInv(i)'
    <3>1. CASE FetchSucceeds(r)
      BY <3>1, CacheFetched
    <3>2. CASE ~FetchSucceeds(r)
      <4>1. cached' = cached
        BY <2>2, <3>2, Zenon DEF Handle, Receive, Lock, FetchFails, FindKey, CheckToken, ApplyPolicy, Mint, Sign, cache
      <4> QED
        BY <2>0, <2>2, <4>1, HistorySteps, CacheStays
    <3> QED
      BY <3>1, <3>2
  <2> QED
    BY <2>1, <2>2, NextKinds, Zenon
<1>2. ASSUME NEW w \in Request PROVE LockInv(w)' /\ JudgedInv(w)'
  <2>0. LockInv(w) /\ JudgedInv(w)
    BY Zenon DEF KeysInv
  <2>1. CASE Quiet
    <3>1. UNCHANGED <<cached, holder>>
      BY <2>1, Zenon DEF Quiet, Tick, Rotate, vars, cache
    <3> QED
      BY <1>0, <2>0, <2>1, <3>1, QuietAside, LockAlone, JudgedAlone, Zenon
  <2>2. ASSUME NEW r \in Request, Handle(r) \/ \E q \in Post : Receive(r, q), w # r
        PROVE  LockInv(w)' /\ JudgedInv(w)'
    <3>1. Aside(w)
      BY <2>2, HandleAside, ReceiveAside, Zenon
    <3>2. pc[w] \in {"fetch", "key"} => UNCHANGED <<cached, holder>>
      BY <2>2, MutexKept, Zenon
    <3> QED
      BY <1>0, <2>0, <3>1, <3>2, LockAlone, JudgedAlone, Zenon
  <2>3. CASE Handle(w)
    BY <2>0, <2>3, KeysLock, KeysFetchFails, KeysFetchSucceeds, KeysFindKey, KeysLater, Zenon DEF Handle
  <2>4. ASSUME NEW q \in Post, Receive(w, q) PROVE LockInv(w)' /\ JudgedInv(w)'
    BY <2>0, <2>4, KeysReceive, Zenon
  <2> QED
    BY <2>1, <2>2, <2>3, <2>4, NextKinds, Zenon
<1> QED
  BY <1>1, <1>2, Zenon DEF KeysInv

LEMMA KeysHold == ASSUME TypeOK, KeysInv PROVE KeysCurrent
<1>1. ASSUME NEW r \in found, r \notin stale
      PROVE  \E t \in Time : t >= asked[r] - CacheTtl /\ req[r].kid \in ever[req[r].issuer][t]
  <2>1. r \in Request
    BY Zenon DEF TypeOK
  <2>2. PICK t \in Time : asked[r] - CacheTtl <= t /\ req[r].kid \in ever[req[r].issuer][t]
    BY <1>1, <2>1, Zenon DEF KeysInv, JudgedInv, Seen
  <2>3. t >= asked[r] - CacheTtl
    BY <2>2
  <2> QED
    BY <2>2, <2>3, Zenon
<1>2. ASSUME NEW r \in Request, r \notin stale, pc[r] = "done", Triage(req[r]) = "none", r \notin found
      PROVE  \E t \in Time : /\ t >= asked[r] - CacheTtl /\ t <= looked[r]
                              /\ req[r].kid \notin always[req[r].issuer][t]
  <2>1. PICK t \in Time : /\ asked[r] - CacheTtl <= t /\ t <= looked[r]
                          /\ req[r].kid \notin always[req[r].issuer][t]
    BY <1>2, Zenon DEF KeysInv, JudgedInv, Missed
  <2>2. t >= asked[r] - CacheTtl
    BY <2>1
  <2> QED
    BY <2>1, <2>2, Zenon
<1> QED
  BY <1>1, <1>2, Zenon DEF KeysCurrent, KeyFresh, RotationFollowed

\* However requests, fetches, rotations and the clock interleave around the one
\* mutex of idpJWKSCache, a request whose fetch did not fail is judged by keys
\* no older than JWKSCacheTTL, and finds a key published all that time.
THEOREM KeysCorrect == Spec => []KeysCurrent
<1>1. Init => KeysInv
  BY KeysInit
<1>2. TypeOK /\ TypeOK' /\ PassedInv /\ KeysInv /\ [Next]_vars => KeysInv'
  BY KeysNext
<1>3. TypeOK /\ KeysInv => KeysCurrent
  BY KeysHold
<1> QED
  BY <1>1, <1>2, <1>3, TypeCorrect, PTL DEF Spec
=============================================================================
