--------------------------- MODULE OidcBootstrap ---------------------------
(***************************************************************************)
(* broker/oidc.go: POST /api/v1/sigils/bootstrap-oidc.  Each request is a  *)
(* process; requests share the JWKS cache, whose mutex is held across the  *)
(* fetch from the identity provider, while the provider rotates its keys,  *)
(* fails, and time passes.                                                 *)
(***************************************************************************)
EXTENDS OidcTtl, Sequences, FiniteSets

CONSTANTS
  Request,      \* the HTTP requests, each made once
  Post,         \* what a request may carry
  NoPost,       \* the content of a request that was not made yet
  Issuer,       \* configured issuers
  Kid,          \* key ids
  Policy,       \* [Issuer \X subjects -> rows]; a missing row is not enabled
  NoEntry,      \* an issuer that is not cached
  NoHolder,     \* the cache mutex is free
  CacheTtl,     \* JWKSCacheTTL, in seconds
  MaxTime,      \* bound on the clock
  MaxRotations, \* bound on the key changes of the providers
  Outages       \* TRUE when a fetch, the store or the signing may fail

ASSUME CacheAssumption == {CacheTtl, MaxTime, MaxRotations} \subseteq Nat /\ Outages \in BOOLEAN

ASSUME NamesAssumption == NoHolder \notin Request

\* requested_ttl_sec and max_ttl_sec are ints; Kid has the key ids of the tokens.
ASSUME PostAssumption ==
  \A q \in Post : /\ q.ttl \in Int /\ q.kid \in Kid
                  /\ q.issuer \in Issuer => Policy[q.issuer, q.sub].maxTtl \in Int

VARIABLES
  \* idpJWKSCache
  cached,    \* issuer |-> the keys fetched and when
  holder,    \* the request that holds the mutex
  \* the requests
  pc, req,
  asked,     \* c.now() of keyByKid
  code,      \* the error code of the response, "granted" for 200
  \* what the handler leaves behind
  caps,      \* capability tokens in the store: request and ttl
  events,    \* request |-> events published
  audits,    \* request |-> lines of the audit file
  failures,  \* requests for which RecordFailure was called
  \* the world
  idp,       \* issuer |-> keys the provider publishes
  rotations,
  now,
  \* history, read by the properties only
  ever,      \* issuer |-> second |-> keys published at some moment of it
  always,    \* issuer |-> second |-> keys published at every moment of it
  stale,     \* requests whose fetch failed
  found,     \* requests for which keyByKid returned a key
  looked     \* when keyByKid returned

cache   == <<cached, holder>>
request == <<pc, req, asked, code>>
output  == <<caps, events, audits, failures>>
world   == <<idp, rotations, now>>
history == <<ever, always, stale, found, looked>>
vars    == <<cache, request, output, world, history>>

-----------------------------------------------------------------------------

Time == 0..MaxTime

Entry == [keys : SUBSET Kid, fetched : Time]

ASSUME EntryAssumption == NoEntry \notin Entry

Code == {"none", "method_not_allowed", "invalid_request", "audience_mismatch", "unknown_issuer",
         "invalid_token", "no_policy", "policy_denied", "mint_failed", "sign_failed", "granted"}

State == {"ready", "lock", "fetch", "key", "token", "policy", "mint", "sign", "done"}

Event == {"auth_request", "failed", "token_issued", "code_issued"}

TypeOK ==
  /\ cached \in [Issuer -> Entry \cup {NoEntry}]
  /\ holder \in Request \cup {NoHolder}
  /\ pc \in [Request -> State]
  /\ req \in [Request -> Post \cup {NoPost}]
  /\ asked \in [Request -> Time]
  /\ code \in [Request -> Code]
  /\ caps \subseteq Request \X Int
  /\ events \in [Request -> Seq(Event)]
  /\ audits \in [Request -> Seq(Code)]
  /\ failures \subseteq Request
  /\ idp \in [Issuer -> SUBSET Kid]
  /\ rotations \in 0..MaxRotations
  /\ now \in Time
  /\ ever \in [Issuer -> [Time -> SUBSET Kid]]
  /\ always \in [Issuer -> [Time -> SUBSET Kid]]
  /\ stale \subseteq Request
  /\ found \subseteq Request
  /\ looked \in [Request -> Time]

Init ==
  /\ cached = [i \in Issuer |-> NoEntry]
  /\ holder = NoHolder
  /\ pc = [r \in Request |-> "ready"]
  /\ req = [r \in Request |-> NoPost]
  /\ asked = [r \in Request |-> 0]
  /\ code = [r \in Request |-> "none"]
  /\ caps = {}
  /\ events = [r \in Request |-> << >>]
  /\ audits = [r \in Request |-> << >>]
  /\ failures = {}
  /\ idp \in [Issuer -> {K \in SUBSET Kid : Cardinality(K) = 1}]
  /\ rotations = 0 /\ now = 0
  /\ ever = [i \in Issuer |-> [t \in Time |-> IF t = 0 THEN idp[i] ELSE {}]]
  /\ always = ever
  /\ stale = {} /\ found = {}
  /\ looked = asked

-----------------------------------------------------------------------------
(* Handle.                                                                 *)

Goto(r, s) == pc' = [pc EXCEPT ![r] = s]

Emit(r, e) == events' = [events EXCEPT ![r] = Append(@, e)]

Audit(r, outcome) == audits' = [audits EXCEPT ![r] = Append(@, outcome)]

\* publishFail and writeOIDCErr.
Deny(r, c) ==
  /\ Goto(r, "done")
  /\ code' = [code EXCEPT ![r] = c]
  /\ Emit(r, "failed")

\* A token that verifyJWT rejects also counts for the brute-force detector.
RejectToken(r) ==
  /\ Deny(r, "invalid_token")
  /\ failures' = failures \cup {r}

\* The checks that need no key, in the order of the code; the parser looks for
\* a supported algorithm and a kid before it asks for the key.
Triage(q) ==
  IF ~q.post THEN "method_not_allowed"
  ELSE IF ~q.decodes \/ ~q.complete THEN "invalid_request"
  ELSE IF ~q.audience THEN "audience_mismatch"
  ELSE IF q.scopes = {} THEN "invalid_request"
  ELSE IF q.issuer \notin Issuer THEN "unknown_issuer"
  ELSE IF ~q.parses THEN "invalid_token" ELSE "none"

\* Mutant: a refused request leaves before its failure is published.
ReceiveSilent(r, q) ==
  LET c == Triage(q)
  IN  /\ pc[r] = "ready"
      /\ req' = [req EXCEPT ![r] = q]
      /\ Goto(r, IF c = "none" THEN "lock" ELSE "done")
      /\ code' = [code EXCEPT ![r] = c]
      /\ events' = [events EXCEPT ![r] = IF c = "method_not_allowed" THEN << >> ELSE <<"auth_request">>]
      /\ failures' = IF c = "invalid_token" THEN failures \cup {r} ELSE failures
      /\ UNCHANGED <<cache, asked, caps, audits, world, history>>

\* A wrong method is answered before anything is published.
Receive(r, q) ==
  LET c == Triage(q)
  IN  /\ pc[r] = "ready"
      /\ req' = [req EXCEPT ![r] = q]
      /\ Goto(r, IF c = "none" THEN "lock" ELSE "done")
      /\ code' = [code EXCEPT ![r] = c]
      /\ events' = [events EXCEPT ![r] =
           IF c = "method_not_allowed" THEN << >>
           ELSE IF c = "none" THEN <<"auth_request">> ELSE <<"auth_request", "failed">>]
      /\ failures' = IF c = "invalid_token" THEN failures \cup {r} ELSE failures
      /\ UNCHANGED <<cache, asked, caps, audits, world, history>>

-----------------------------------------------------------------------------
(* keyByKid.                                                               *)

\* Mutant: an entry never expires.
ExpiredNever(i, t) == cached[i] = NoEntry

Expired(i, t) == cached[i] = NoEntry \/ t - cached[i].fetched > CacheTtl

\* Take the mutex, read the clock, look at the age of the entry.
Lock(r) ==
  /\ pc[r] = "lock" /\ holder = NoHolder
  /\ holder' = r
  /\ asked' = [asked EXCEPT ![r] = now]
  /\ Goto(r, IF Expired(req[r].issuer, now) THEN "fetch" ELSE "key")
  /\ UNCHANGED <<cached, req, code, output, world, history>>

Unlock == holder' = NoHolder

\* Mutant: the error path keeps the mutex.
FetchFailsLocked(r) ==
  /\ Outages /\ pc[r] = "fetch"
  /\ stale' = stale \cup {r}
  /\ IF cached[req[r].issuer] = NoEntry
     THEN RejectToken(r) /\ looked' = [looked EXCEPT ![r] = now]
     ELSE Goto(r, "key") /\ UNCHANGED <<code, events, failures, looked>>
  /\ UNCHANGED <<cached, holder, req, asked, caps, audits, world, ever, always, found>>

\* The fetch fails: an old entry goes on serving, a missing one is an error.
FetchFails(r) ==
  /\ Outages /\ pc[r] = "fetch"
  /\ stale' = stale \cup {r}
  /\ IF cached[req[r].issuer] = NoEntry
     THEN RejectToken(r) /\ Unlock /\ looked' = [looked EXCEPT ![r] = now]
     ELSE Goto(r, "key") /\ UNCHANGED <<holder, code, events, failures, looked>>
  /\ UNCHANGED <<cached, req, asked, caps, audits, world, ever, always, found>>

\* It succeeds: the entry is dated with the clock read before the fetch.
FetchSucceeds(r) ==
  /\ pc[r] = "fetch"
  /\ cached' = [cached EXCEPT ![req[r].issuer] =
                  [keys |-> idp[req[r].issuer], fetched |-> asked[r]]]
  /\ Goto(r, "key")
  /\ UNCHANGED <<holder, req, asked, code, output, world, history>>

\* Look for the kid in the entry and release the mutex.
FindKey(r) ==
  /\ pc[r] = "key"
  /\ Unlock
  /\ looked' = [looked EXCEPT ![r] = now]
  /\ \/ /\ req[r].kid \in cached[req[r].issuer].keys
        /\ Goto(r, "token")
        /\ found' = found \cup {r}
        /\ UNCHANGED <<code, events, failures>>
     \/ /\ req[r].kid \notin cached[req[r].issuer].keys
        /\ RejectToken(r)
        /\ UNCHANGED found
  /\ UNCHANGED <<cached, req, asked, caps, audits, world, ever, always, stale>>

-----------------------------------------------------------------------------
(* The rest of Handle.                                                     *)

\* The signature and the claims, with the time after the fetch.
CheckToken(r) ==
  /\ pc[r] = "token"
  /\ \/ /\ req[r].genuine /\ now < req[r].exp
        /\ Goto(r, "policy")
        /\ UNCHANGED <<code, events, failures>>
     \/ /\ ~req[r].genuine \/ now >= req[r].exp
        /\ RejectToken(r)
  /\ UNCHANGED <<cache, req, asked, caps, audits, world, history>>

Row(r) == Policy[req[r].issuer, req[r].sub]

\* Mutant: one allowed scope is enough.
ScopesOverlap(requested, allowed) == requested \cap allowed # {}

ScopesSubset(requested, allowed) == requested \subseteq allowed

\* An enabled row, and scopes it allows; a refusal is audited.
ApplyPolicy(r) ==
  /\ pc[r] = "policy"
  /\ \/ /\ ~Row(r).enabled
        /\ Audit(r, "no_policy") /\ Deny(r, "no_policy")
     \/ /\ Row(r).enabled /\ ~ScopesSubset(req[r].scopes, Row(r).scopes)
        /\ Audit(r, "policy_denied") /\ Deny(r, "policy_denied")
     \/ /\ Row(r).enabled /\ ScopesSubset(req[r].scopes, Row(r).scopes)
        /\ Goto(r, "mint")
        /\ UNCHANGED <<code, events, audits>>
  /\ UNCHANGED <<cache, req, asked, caps, failures, world, history>>

\* IssueCap; when it fails, the row may be in the store all the same.
Mint(r) ==
  LET cap == <<r, Ttl(req[r].ttl, Row(r).maxTtl)>>
  IN  /\ pc[r] = "mint"
      /\ \/ /\ caps' = caps \cup {cap}
            /\ Emit(r, "token_issued")
            /\ Goto(r, "sign")
            /\ UNCHANGED code
         \/ /\ Outages
            /\ \E C \in {{}, {cap}} : caps' = caps \cup C
            /\ Deny(r, "mint_failed")
      /\ UNCHANGED <<cache, req, asked, audits, failures, world, history>>

\* signCapJWT, the audit line, the last event and the response.
Sign(r) ==
  /\ pc[r] = "sign"
  /\ \/ /\ Audit(r, "granted")
        /\ Emit(r, "code_issued")
        /\ Goto(r, "done")
        /\ code' = [code EXCEPT ![r] = "granted"]
     \/ /\ Outages
        /\ Deny(r, "sign_failed")
        /\ UNCHANGED audits
  /\ UNCHANGED <<cache, req, asked, caps, failures, world, history>>

Handle(r) ==
  \/ Lock(r) \/ FetchFails(r) \/ FetchSucceeds(r) \/ FindKey(r)
  \/ CheckToken(r) \/ ApplyPolicy(r) \/ Mint(r) \/ Sign(r)

-----------------------------------------------------------------------------
(* The identity provider and the clock.                                    *)

Rotate(i, K) ==
  /\ rotations < MaxRotations /\ K # idp[i]
  /\ rotations' = rotations + 1
  /\ idp' = [idp EXCEPT ![i] = K]
  /\ ever' = [ever EXCEPT ![i][now] = @ \cup K]
  /\ always' = [always EXCEPT ![i][now] = @ \cap K]
  /\ UNCHANGED <<cache, request, output, now, stale, found, looked>>

Tick ==
  /\ now < MaxTime
  /\ now' = now + 1
  /\ ever' = [i \in Issuer |-> [ever[i] EXCEPT ![now + 1] = idp[i]]]
  /\ always' = [i \in Issuer |-> [always[i] EXCEPT ![now + 1] = idp[i]]]
  /\ UNCHANGED <<cache, request, output, idp, rotations, stale, found, looked>>

Next ==
  \/ \E r \in Request, q \in Post : Receive(r, q)
  \/ \E r \in Request : Handle(r)
  \/ \E i \in Issuer, K \in SUBSET Kid : Rotate(i, K)
  \/ Tick

Spec == Init /\ [][Next]_vars

\* Goroutines run, a free mutex is handed on, and a fetch ends: the provider
\* answers or its connection fails (the client itself sets no timeout).
FairSpec == Spec /\ \A r \in Request : WF_vars(Handle(r))

-----------------------------------------------------------------------------
(* Properties.                                                             *)

\* The trust model of oidc.go:9-14: a response with a token means that the
\* provider's key vouched for the caller, the policy row is enabled and allows
\* every scope, and the stored token lives no longer than MaxOIDCTTL.
GrantSound ==
  \A r \in Request : code[r] = "granted" =>
    /\ r \in found /\ req[r].genuine
    /\ Row(r).enabled /\ req[r].scopes \subseteq Row(r).scopes
    /\ \E c \in caps : c[1] = r /\ c[2] <= MaxTtl * Second

\* Unless its fetch failed, a request is judged by keys the provider published
\* no longer than JWKSCacheTTL before the request got the mutex, however long
\* it waited and however long the fetch took.
KeyFresh ==
  \A r \in found \ stale :
    \E t \in Time : t >= asked[r] - CacheTtl /\ req[r].kid \in ever[req[r].issuer][t]

\* A key that the provider published all along since JWKSCacheTTL before the
\* request got the mutex is found: a rotation is followed within the TTL.
RotationFollowed ==
  \A r \in Request \ stale :
    pc[r] = "done" /\ Triage(req[r]) = "none" /\ r \notin found =>
      \E t \in Time : /\ t >= asked[r] - CacheTtl /\ t <= looked[r]
                      /\ req[r].kid \notin always[req[r].issuer][t]

\* The cache, shared under one mutex, neither keeps an old key alive nor a new
\* one away for longer than JWKSCacheTTL.
KeysCurrent == KeyFresh /\ RotationFollowed

\* What observers are told agrees with the response: "All outcomes publish NATS
\* lifecycle events" (oidc.go:301; a wrong method excepted), the audit file says
\* granted for exactly the granted requests, a token in the store belongs to a
\* request that was granted or failed after minting, and the brute-force
\* detector hears of exactly the rejected tokens.  Codes, events and audit lines
\* are the ones TypeOK lists.
TrailAgrees ==
  /\ TypeOK
  /\ \A r \in Request : pc[r] = "done" =>
       /\ code[r] # "method_not_allowed" =>
            /\ events[r][1] = "auth_request"
            /\ events[r][Len(events[r])] = IF code[r] = "granted" THEN "code_issued" ELSE "failed"
       /\ audits[r] = IF code[r] \in {"granted", "no_policy", "policy_denied"} THEN <<code[r]>> ELSE << >>
       /\ (\E c \in caps : c[1] = r) => code[r] \in {"granted", "mint_failed", "sign_failed"}
       /\ r \in failures <=> code[r] = "invalid_token"

\* Every request is answered, and the mutex is free in the end.
AllAnswered ==
  \A r \in Request : pc[r] \notin {"ready", "done"} ~> (pc[r] = "done" /\ holder # r)
=============================================================================
