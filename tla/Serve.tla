------------------------------- MODULE Serve -------------------------------
(***************************************************************************)
(* `hanko-broker serve`: the start of the process, the HTTP requests it    *)
(* has in flight, what they do to the store and to the NATS publisher, and *)
(* the ways it stops (cmd/hanko-broker/serve.go, broker/http.go,           *)
(* broker/http_admin.go).  The store outlives the process (PgStore).  The  *)
(* publisher is seen from its callers: an event reaches NATS within the    *)
(* deadline of Publish or waits in the ring, and of an event only its      *)
(* origin is kept (NatsPublisher has the outages and the connections).     *)
(* The bootstrap handler is seen from its calls (OidcBootstrap has its     *)
(* decisions).                                                             *)
(***************************************************************************)
EXTENDS Integers, FiniteSets

CONSTANTS
  Req,        \* the HTTP requests, each sent once
  Sigil,      \* sigil UUIDs
  Key,        \* Ed25519 key pairs
  None,       \* no key, no target, no code
  Background, \* the origin of events that no handler publishes
  Secret,     \* TRUE when HANKO_ADMIN_SECRET is set
  Oidc,       \* TRUE when an issuer map is configured
  MaxBoots,   \* bound on the starts of the process
  MaxKills    \* bound on the deaths by SIGKILL or power loss

ASSUME ServeAssumption ==
  /\ MaxBoots \in Nat /\ MaxKills \in Nat
  /\ Secret \in BOOLEAN /\ Oidc \in BOOLEAN
  /\ None \notin Key \cup Sigil
  /\ Background \notin Req

ASSUME CodeAssumption == None \notin Nat

VARIABLES
  \* the process
  main,       \* where runServe stands
  exit,       \* how the last process ended
  boots, kills,
  ctx,        \* the context of the signals: "live", "done"
  signer,     \* the key loadBrokerKey returned
  jwks,       \* the key in jwksDocument
  store,      \* the pool of openStore: "closed", "open"
  pub,        \* the publisher: "none", "open", "closed"
  ring,       \* the origins of the events buffered in the publisher
  \* the requests
  pc,         \* where a handler stands
  life,       \* the process that accepted the request
  target,     \* the sigil of a revocation
  code,       \* the status of the answer
  key,        \* the key of the document or of the token in the answer
  \* the world
  keyfile,    \* the content of broker.key
  revoked,    \* ids in the revocation list of the store
  \* history, read by the properties only
  authorised, \* the revocations that carried the secret
  announced   \* the revocations whose event was passed to Publish

process  == <<main, exit, boots, kills, ctx, signer, jwks, store, pub>>
requests == <<pc, life, target, code, key>>
world    == <<keyfile, revoked>>
history  == <<authorised, announced>>
vars     == <<process, ring, requests, world, history>>

-----------------------------------------------------------------------------

\* Handler steps; "new" was not sent, "cut" died with its process.
Stage == {"new", "read", "revoke", "announce", "hello", "idp", "issue", "sign",
          "fail", "answered", "cut", "refused"}

InFlight == {r \in Req : pc[r] \notin {"new", "answered", "cut", "refused"}}

TypeOK ==
  /\ main \in {"off", "openStore", "publisher", "key", "serving", "shutdown",
               "closePublisher", "closeStore"}
  /\ exit \in {None, 0, 1, 137}
  /\ boots \in 0..MaxBoots /\ kills \in 0..MaxKills
  /\ ctx \in {"live", "done"} /\ store \in {"closed", "open"}
  /\ signer \in Key \cup {None} /\ jwks \in Key \cup {None} /\ keyfile \in Key \cup {None}
  /\ pub \in {"none", "open", "closed"}
  /\ ring \subseteq Req \cup {Background}
  /\ pc \in [Req -> Stage]
  /\ life \in [Req -> 0..MaxBoots]
  /\ target \in [Req -> Sigil \cup {None}]
  /\ code \in [Req -> {None, 200, 204, 400, 401, 403, 404, 405, 500}]
  /\ key \in [Req -> Key \cup {None}]
  /\ revoked \subseteq Sigil /\ announced \subseteq Req /\ authorised \subseteq Req

Init ==
  /\ main = "off" /\ exit = None /\ boots = 0 /\ kills = 0 /\ ctx = "live"
  /\ signer = None /\ jwks = None /\ store = "closed" /\ pub = "none"
  /\ ring = {}
  /\ pc = [r \in Req |-> "new"]
  /\ life = [r \in Req |-> 0]
  /\ target = [r \in Req |-> None]
  /\ code = [r \in Req |-> None]
  /\ key = [r \in Req |-> None]
  /\ keyfile \in Key \cup {None} /\ revoked = {}
  /\ authorised = {} /\ announced = {}

-----------------------------------------------------------------------------
(* The publisher, from its callers.                                        *)

\* Publish: NATS confirms within the deadline, or the event goes to the ring.
\* A closed publisher still takes events.
Publish(o) == ring' \in {ring, ring \cup {o}}

\* flush, from the drain loop, hands the ring to the connection.
Flush ==
  /\ pub = "open" /\ ring # {}
  /\ ring' = {}
  /\ UNCHANGED <<process, requests, world, history>>

\* The CDC goroutine, the reload callback and `go d.pub.Publish` of the detector
\* publish while the process lives: nobody stops them or waits for them.
PublishBackground ==
  /\ pub # "none"
  /\ Publish(Background)
  /\ UNCHANGED <<process, requests, world, history>>

-----------------------------------------------------------------------------
(* The end of the process: the ring and the handlers go with it.           *)

End(how) ==
  /\ main' = "off" /\ exit' = how
  /\ ctx' = "live" /\ signer' = None /\ jwks' = None
  /\ store' = "closed" /\ pub' = "none"
  /\ ring' = {}
  /\ pc' = [r \in Req |-> IF r \in InFlight THEN "cut" ELSE pc[r]]
  /\ UNCHANGED <<boots, life, target, code, key, world, history>>

\* os.Exit(1), from die and from loadBrokerKey: no deferred call runs.
Die == End(1) /\ UNCHANGED kills

Kill ==
  /\ main # "off" /\ kills < MaxKills
  /\ kills' = kills + 1
  /\ End(137)

-----------------------------------------------------------------------------
(* runServe.                                                               *)

Start ==
  /\ main = "off" /\ boots < MaxBoots
  /\ main' = "openStore" /\ exit' = None /\ boots' = boots + 1
  /\ UNCHANGED <<kills, ctx, signer, jwks, store, pub, ring, requests, world,
                 history>>

OpenStore ==
  /\ main = "openStore"
  /\ \/ /\ main' = "publisher" /\ store' = "open"
        /\ UNCHANGED <<exit, boots, kills, ctx, signer, jwks, pub, ring, requests,
                       world, history>>
     \/ Die

\* The publisher, the metrics listener, the reload subscription and the CDC
\* goroutine; none of them can stop the start.
Wire ==
  /\ main = "publisher"
  /\ main' = "key" /\ pub' = "open"
  /\ UNCHANGED <<exit, boots, kills, ctx, signer, jwks, store, ring, requests,
                 world, history>>

\* buildJWKS: the document is made once, from the signer of the broker.
BuildJWKS == jwks' = signer'

\* loadBrokerKey, broker.New and NewHTTPServer.  An OIDC configuration that
\* does not load ends the process too.
LoadBrokerKey ==
  /\ main = "key"
  /\ \/ /\ keyfile # None
        /\ main' = "serving" /\ signer' = keyfile
        /\ BuildJWKS
        /\ UNCHANGED <<exit, boots, kills, ctx, store, pub, ring, requests, world,
                       history>>
     \/ (keyfile = None \/ Oidc) /\ Die

\* ListenAndServe fails: errCh, then die.
ListenFails ==
  /\ main = "serving"
  /\ Die

Signal ==
  /\ main = "serving" /\ ctx = "live"
  /\ ctx' = "done"
  /\ UNCHANGED <<main, exit, boots, kills, signer, jwks, store, pub, ring, requests, world,
                 history>>

\* srv.Shutdown closes the listener ...
BeginShutdown ==
  /\ main = "serving" /\ ctx = "done"
  /\ main' = "shutdown"
  /\ UNCHANGED <<exit, boots, kills, ctx, signer, jwks, store, pub, ring, requests,
                 world, history>>

\* Mutant: the listener is closed and nobody waits for the handlers.
ShutdownIdleAtOnce == TRUE

\* ... waits for the connections to become idle ...
ShutdownIdle == InFlight = {}

FinishShutdown ==
  /\ main = "shutdown" /\ ShutdownIdle
  /\ main' = "closePublisher"
  /\ UNCHANGED <<exit, boots, kills, ctx, signer, jwks, store, pub, ring, requests,
                 world, history>>

\* Mutant: Shutdown(context.Background()).
ShutdownTimeoutNever == FALSE

\* ... for five seconds at most, after which os.Exit(1) skips the deferred calls.
ShutdownTimeout ==
  /\ main = "shutdown" /\ InFlight # {}
  /\ Die

\* Mutant: the loop returns without its last flush.
ClosePublisherUnflushed ==
  /\ main = "closePublisher"
  /\ main' = "closeStore" /\ pub' = "closed"
  /\ UNCHANGED <<exit, boots, kills, ctx, signer, jwks, store, ring, requests, world,
                 history>>

\* The deferred calls, last one first: natsPub.Close flushes the ring into the
\* connection and starts its drain ...
ClosePublisher ==
  /\ main = "closePublisher"
  /\ main' = "closeStore" /\ pub' = "closed"
  /\ ring' = {}
  /\ UNCHANGED <<exit, boots, kills, ctx, signer, jwks, store, requests, world,
                 history>>

\* ... then sc.Close, and main returns.
CloseStore ==
  /\ main = "closeStore"
  /\ End(0)
  /\ UNCHANGED kills

\* keygen --force in another process.
Keygen(k) ==
  /\ k # keyfile
  /\ keyfile' = k
  /\ UNCHANGED <<process, ring, requests, revoked, history>>

-----------------------------------------------------------------------------
(* The handlers.                                                           *)

Goto(r, s) == pc' = [pc EXCEPT ![r] = s]

Answer(r, c) ==
  /\ code' = [code EXCEPT ![r] = c]
  /\ Goto(r, "answered")

\* The listener takes the connection, or nobody listens.
Accept(r) ==
  /\ pc[r] = "new"
  /\ \/ /\ main = "serving"
        /\ Goto(r, "read")
        /\ life' = [life EXCEPT ![r] = boots]
     \/ /\ main # "serving"
        /\ Goto(r, "refused")
        /\ UNCHANGED life
  /\ UNCHANGED <<process, ring, target, code, key, world, history>>

\* What a request can get wrong: its path, its method, its secret, its body.
Request == [route : {"healthz", "jwks", "revoke", "bootstrap", "unknown"},
            method : BOOLEAN, secret : BOOLEAN, body : BOOLEAN]

\* The mux, requireAdminSecret and the early returns of the handlers.
EarlyStatus(q) ==
  IF q.route = "unknown" \/ (q.route = "bootstrap" /\ ~Oidc) THEN 404
  ELSE IF q.route = "revoke" /\ ~(Secret /\ q.secret) THEN 401
  ELSE IF ~q.method THEN 405
  ELSE IF q.route \in {"healthz", "jwks"} THEN 200
  ELSE IF q.route = "revoke" /\ ~q.body THEN 400
  ELSE None

\* Mutant: the document is made from the key file when it is asked for.
ServedKeyOfFile == keyfile

\* The key of the document handleJWKS serves.
ServedKey == jwks

Dispatch(r, q) ==
  /\ pc[r] = "read"
  /\ \/ /\ EarlyStatus(q) # None
        /\ Answer(r, EarlyStatus(q))
        /\ key' = IF q.route = "jwks" /\ EarlyStatus(q) = 200
                  THEN [key EXCEPT ![r] = ServedKey] ELSE key
        /\ UNCHANGED <<target, authorised>>
     \/ /\ EarlyStatus(q) = None /\ q.route = "revoke"
        /\ \E s \in Sigil : target' = [target EXCEPT ![r] = s]
        /\ authorised' = IF Secret /\ q.secret THEN authorised \cup {r} ELSE authorised
        /\ Goto(r, "revoke")
        /\ UNCHANGED <<code, key>>
     \/ /\ EarlyStatus(q) = None /\ q.route = "bootstrap"
        /\ Goto(r, "hello")
        /\ UNCHANGED <<code, key, target, authorised>>
  /\ UNCHANGED <<process, ring, life, world, announced>>

\* Mutant: the error of the store is not looked at.
RevokeUnchecked(r) ==
  /\ pc[r] = "revoke"
  /\ \E R \in {{}, {target[r]}} : revoked' = revoked \cup R
  /\ Goto(r, "announce")
  /\ UNCHANGED <<process, ring, life, target, code, key, keyfile, history>>

\* RevokeSigil, its store call: an error is a 500, and the row may be there.
Revoke(r) ==
  /\ pc[r] = "revoke"
  /\ \/ /\ revoked' = revoked \cup {target[r]}
        /\ Goto(r, "announce")
        /\ UNCHANGED code
     \/ /\ \E R \in {{}, {target[r]}} : revoked' = revoked \cup R
        /\ Answer(r, 500)
  /\ UNCHANGED <<process, ring, life, target, key, keyfile, history>>

\* RevokeSigil, its event; the handler then answers 204.
Announce(r) ==
  /\ pc[r] = "announce"
  /\ Publish(r)
  /\ announced' = announced \cup {r}
  /\ Answer(r, 204)
  /\ UNCHANGED <<process, life, target, key, world, authorised>>

\* Handle of the bootstrap endpoint: auth_request, then the checks that need no
\* identity provider.
Hello(r) ==
  /\ pc[r] = "hello"
  /\ Publish(r)
  /\ \/ \E c \in {400, 401} : code' = [code EXCEPT ![r] = c] /\ Goto(r, "fail")
     \/ Goto(r, "idp") /\ UNCHANGED code
  /\ UNCHANGED <<process, life, target, key, world, history>>

\* verifyJWT and the policy.
IdpAnswers(r) ==
  /\ pc[r] = "idp"
  /\ \/ Goto(r, "issue") /\ UNCHANGED code
     \/ \E c \in {401, 403} : code' = [code EXCEPT ![r] = c] /\ Goto(r, "fail")
  /\ UNCHANGED <<process, ring, life, target, key, world, history>>

\* IssueCap and token_issued.
Issue(r) ==
  /\ pc[r] = "issue"
  /\ \/ Publish(r) /\ Goto(r, "sign") /\ UNCHANGED code
     \/ code' = [code EXCEPT ![r] = 500] /\ Goto(r, "fail") /\ UNCHANGED ring
  /\ UNCHANGED <<process, life, target, key, world, history>>

\* signCapJWT with the signer of the broker, and code_issued.
Sign(r) ==
  /\ pc[r] = "sign"
  /\ \/ key' = [key EXCEPT ![r] = signer] /\ Publish(r) /\ Answer(r, 200)
     \/ /\ code' = [code EXCEPT ![r] = 500] /\ Goto(r, "fail")
        /\ UNCHANGED <<key, ring>>
  /\ UNCHANGED <<process, life, target, world, history>>

\* auditAndWriteError: the failed event, then the answer.
Fail(r) ==
  /\ pc[r] = "fail"
  /\ Publish(r)
  /\ Goto(r, "answered")
  /\ UNCHANGED <<process, life, target, code, key, world, history>>

Handler(r) ==
  \/ \E q \in Request : Dispatch(r, q)
  \/ Revoke(r) \/ Announce(r)
  \/ Hello(r) \/ IdpAnswers(r) \/ Issue(r) \/ Sign(r) \/ Fail(r)

Main ==
  \/ OpenStore \/ Wire \/ LoadBrokerKey
  \/ BeginShutdown \/ FinishShutdown \/ ShutdownTimeout
  \/ ClosePublisher \/ CloseStore

Next ==
  \/ Start \/ Main \/ ListenFails \/ Signal \/ Kill
  \/ \E r \in Req : Accept(r) \/ Handler(r)
  \/ Flush \/ PublishBackground
  \/ \E k \in Key : Keygen(k)

Spec == Init /\ [][Next]_vars

\* The main goroutine runs and the timer of Shutdown fires.  Nothing is asked of
\* the handlers: the client of the identity provider has no timeout and the
\* server none for bodies and answers.
FairSpec == Spec /\ WF_vars(Main)

-----------------------------------------------------------------------------
(* Properties.                                                             *)

\* The admin endpoint tells the truth (http_admin.go: "Success: 204 No Content",
\* "500 on store error").  Whatever kills, restarts, retries and lost answers do,
\* a 204 means that the sigil is revoked and its event was handed over; the
\* event never runs ahead of the row; and every row was asked for by a request
\* that carried the secret.
RevokeTruthful ==
  /\ \A r \in Req : code[r] = 204 => r \in announced
  /\ \A r \in announced : target[r] \in revoked
  /\ \A s \in revoked : \E r \in authorised : target[r] = s

\* Graceful stop: a process that returns from main has answered every request it
\* accepted and leaves no event of a handler behind in the ring.  (Events of
\* other goroutines it may leave, and os.Exit(1) leaves both.)
GracefulStop ==
  [][main # "off" /\ exit' = 0 => InFlight = {} /\ ring \cap Req = {}]_vars

\* The deferred calls run in an order that never takes the store, the publisher
\* or the key away from a handler; the variables keep their types.
ResourcesOutliveHandlers ==
  /\ TypeOK
  /\ InFlight # {} => store = "open" /\ pub = "open" /\ signer # None

\* "caching at boot is correct" (http.go:41-43): within one life of the process,
\* a token from the bootstrap endpoint verifies with the document that any other
\* client fetched, whatever happened to the key file in between.
PublishedKeySigns ==
  \A r, q \in Req : life[r] = life[q] /\ {key[r], key[q]} \subseteq Key => key[r] = key[q]

\* A signal ends the process, whatever its handlers wait for.
SignalStops == ctx = "done" ~> main = "off"
=============================================================================
