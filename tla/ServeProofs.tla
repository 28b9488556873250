---------------------------- MODULE ServeProofs ----------------------------
(***************************************************************************)
(* Theorems about Serve, for any number of requests, sigils, keys, starts  *)
(* and kills.                                                              *)
(***************************************************************************)
EXTENDS Serve, TLAPS

USE DEF Stage

-----------------------------------------------------------------------------
(* Types.                                                                  *)

\* The target of a request is a sigil once the handler revokes.
TypeInv ==
  /\ TypeOK
  /\ \A r \in Req : pc[r] \in {"revoke", "announce"} => target[r] \in Sigil

LEMMA TypeInit == Init => TypeInv
  BY ServeAssumption DEF Init, TypeInv, TypeOK

\* The steps of the process, of its environment and of the publisher.
LEMMA TypeProcess ==
  ASSUME TypeInv, \/ Start \/ Main \/ ListenFails \/ Signal \/ Kill
                 \/ Flush \/ PublishBackground
                 \/ \E k \in Key : Keygen(k)
  PROVE  TypeInv'
<1> USE ServeAssumption DEF process, requests, world, history
<1>1. CASE Start
  BY <1>1 DEF TypeInv, TypeOK, Start
<1>2. ASSUME NEW how \in {0, 1, 137}, End(how), kills' \in 0..MaxKills
      PROVE  TypeInv'
  BY <1>2 DEF TypeInv, TypeOK, End, InFlight
<1>3. CASE Die
  BY <1>2, <1>3 DEF Die, TypeInv, TypeOK
<1>4. CASE Kill
  BY <1>2, <1>4 DEF Kill, TypeInv, TypeOK
<1>5. CASE OpenStore \/ Wire
  BY <1>3, <1>5 DEF TypeInv, TypeOK, OpenStore, Wire
<1>6. CASE LoadBrokerKey
  BY <1>3, <1>6 DEF TypeInv, TypeOK, LoadBrokerKey, BuildJWKS
<1>7. CASE BeginShutdown \/ FinishShutdown \/ Signal
  BY <1>7 DEF TypeInv, TypeOK, BeginShutdown, FinishShutdown, Signal
<1>8. CASE ShutdownTimeout \/ ListenFails
  BY <1>3, <1>8 DEF ShutdownTimeout, ListenFails
<1>9. CASE ClosePublisher
  BY <1>9 DEF TypeInv, TypeOK, ClosePublisher
<1>10. CASE CloseStore
  BY <1>2, <1>10 DEF CloseStore, TypeInv, TypeOK
<1>11. CASE Flush \/ PublishBackground
  BY <1>11 DEF TypeInv, TypeOK, Flush, PublishBackground, Publish
<1>12. CASE \E k \in Key : Keygen(k)
  BY <1>12 DEF TypeInv, TypeOK, Keygen
<1> QED
  BY <1>1, <1>4, <1>5, <1>6, <1>7, <1>8, <1>9, <1>10, <1>11, <1>12 DEF Main

\* The steps of a request.
LEMMA TypeRequest ==
  ASSUME TypeInv, NEW r \in Req, Accept(r) \/ Handler(r)
  PROVE  TypeInv'
<1> USE DEF process, requests, world, history, Goto, Answer, Publish
<1>1. CASE Accept(r)
  BY <1>1 DEF TypeInv, TypeOK, Accept
<1>2. ASSUME NEW q \in Request, Dispatch(r, q)
      PROVE  TypeInv'
  <2>1. EarlyStatus(q) \in {None, 200, 400, 401, 404, 405}
    BY DEF EarlyStatus
  <2> QED
    BY <1>2, <2>1 DEF TypeInv, TypeOK, Dispatch, ServedKey
<1>3. CASE Revoke(r)
  BY <1>3 DEF TypeInv, TypeOK, Revoke
<1>4. CASE Announce(r)
  BY <1>4 DEF TypeInv, TypeOK, Announce
<1>5. CASE Hello(r) \/ IdpAnswers(r)
  BY <1>5 DEF TypeInv, TypeOK, Hello, IdpAnswers
<1>6. CASE Issue(r) \/ Sign(r) \/ Fail(r)
  BY <1>6 DEF TypeInv, TypeOK, Issue, Sign, Fail
<1> QED
  BY <1>1, <1>2, <1>3, <1>4, <1>5, <1>6 DEF Handler

LEMMA TypeNext == TypeInv /\ [Next]_vars => TypeInv'
<1> SUFFICES ASSUME TypeInv, [Next]_vars PROVE TypeInv'
  OBVIOUS
<1>1. CASE UNCHANGED vars
  BY <1>1 DEF TypeInv, TypeOK, vars, process, requests, world, history, InFlight
<1> QED
  BY <1>1, TypeProcess, TypeRequest DEF Next

-----------------------------------------------------------------------------
(* Revocations.                                                            *)

\* RevokeTruthful speaks of answers and rows.  Inductively: a request on its way
\* to the store carried the secret, one on its way to its event has its row, and
\* the target of either is not chosen again.
RevokeInv ==
  /\ TypeInv
  /\ RevokeTruthful
  /\ \A r \in Req :
       /\ pc[r] \in {"revoke", "announce"} => r \in authorised
       /\ pc[r] = "announce" => target[r] \in revoked
       /\ r \in authorised \cup announced => pc[r] \notin {"new", "read"}

LEMMA RevokeInit == Init => RevokeInv
  BY TypeInit, CodeAssumption DEF Init, RevokeInv, RevokeTruthful

\* Steps that touch neither the store nor the requests of a live process.
LEMMA RevokeFrame ==
  ASSUME RevokeInv, TypeInv',
         \A r \in Req : pc'[r] = pc[r] \/ (pc'[r] = "cut" /\ pc[r] # "new"),
         UNCHANGED <<target, code, revoked, history>>
  PROVE  RevokeInv'
  BY DEF RevokeInv, RevokeTruthful, history, TypeInv, TypeOK

LEMMA RevokeProcess ==
  ASSUME RevokeInv, TypeInv',
         \/ Start \/ Main \/ ListenFails \/ Signal \/ Kill
         \/ Flush \/ PublishBackground
         \/ \E k \in Key : Keygen(k)
  PROVE  RevokeInv'
<1> USE DEF process, requests, world, history
<1>1. ASSUME UNCHANGED <<requests, revoked, history>> PROVE RevokeInv'
  <2>1. \A r \in Req : pc'[r] = pc[r]
    BY <1>1
  <2> QED
    BY <1>1, <2>1, RevokeFrame
<1>2. ASSUME NEW how \in {0, 1, 137}, End(how) PROVE RevokeInv'
  <2>1. \A r \in Req : pc'[r] = pc[r] \/ (pc'[r] = "cut" /\ pc[r] # "new")
    BY <1>2 DEF End, InFlight
  <2>2. UNCHANGED <<target, code, revoked, history>>
    BY <1>2 DEF End
  <2> QED
    BY <2>1, <2>2, RevokeFrame
<1>3. CASE Die
  BY <1>2, <1>3 DEF Die
<1>4. CASE Start \/ Wire \/ Signal \/ BeginShutdown \/ FinishShutdown \/ ClosePublisher
  BY <1>1, <1>4 DEF Start, Wire, Signal, BeginShutdown, FinishShutdown, ClosePublisher
<1>5. CASE OpenStore \/ LoadBrokerKey \/ ShutdownTimeout \/ ListenFails
  BY <1>1, <1>3, <1>5 DEF OpenStore, LoadBrokerKey, ShutdownTimeout, ListenFails
<1>6. CASE Kill \/ CloseStore
  BY <1>2, <1>6 DEF Kill, CloseStore
<1>7. CASE Flush \/ PublishBackground \/ \E k \in Key : Keygen(k)
  BY <1>1, <1>7 DEF Flush, PublishBackground, Keygen
<1> QED
  BY <1>4, <1>5, <1>6, <1>7 DEF Main

LEMMA RevokeRequest ==
  ASSUME RevokeInv, TypeInv', NEW r \in Req, Accept(r) \/ Handler(r)
  PROVE  RevokeInv'
<1> USE DEF process, requests, world, history, Goto, Answer
<1>1. CASE Accept(r)
  BY <1>1 DEF Accept, RevokeInv, RevokeTruthful, TypeInv, TypeOK
<1>2. ASSUME NEW q \in Request, Dispatch(r, q)
      PROVE  RevokeInv'
  <2>1. EarlyStatus(q) \in {None, 200, 400, 401, 404, 405}
    BY DEF EarlyStatus
  <2>2. r \notin authorised \cup announced
    BY <1>2 DEF Dispatch, RevokeInv
  <2>3. CASE EarlyStatus(q) # None
    BY <1>2, <2>1, <2>2, <2>3 DEF Dispatch, RevokeInv, RevokeTruthful, TypeInv, TypeOK
  <2>4. CASE EarlyStatus(q) = None /\ q.route = "revoke"
    <3>1. Secret /\ q.secret
      BY <2>4, ServeAssumption, CodeAssumption DEF EarlyStatus
    <3> QED
      BY <1>2, <2>2, <2>4, <3>1 DEF Dispatch, RevokeInv, RevokeTruthful, TypeInv, TypeOK
  <2>5. CASE EarlyStatus(q) = None /\ q.route = "bootstrap"
    BY <1>2, <2>2, <2>5 DEF Dispatch, RevokeInv, RevokeTruthful, TypeInv, TypeOK
  <2> QED
    BY <1>2, <2>3, <2>4, <2>5 DEF Dispatch
<1>3. CASE Revoke(r)
  BY <1>3 DEF Revoke, RevokeInv, RevokeTruthful, TypeInv, TypeOK
<1>4. CASE Announce(r)
  BY <1>4 DEF Announce, RevokeInv, RevokeTruthful, TypeInv, TypeOK
<1>5. CASE Hello(r) \/ IdpAnswers(r)
  BY <1>5 DEF Hello, IdpAnswers, RevokeInv, RevokeTruthful, TypeInv, TypeOK
<1>6. CASE Issue(r) \/ Sign(r) \/ Fail(r)
  BY <1>6 DEF Issue, Sign, Fail, RevokeInv, RevokeTruthful, TypeInv, TypeOK
<1> QED
  BY <1>1, <1>2, <1>3, <1>4, <1>5, <1>6 DEF Handler

LEMMA RevokeNext == RevokeInv /\ [Next]_vars => RevokeInv'
<1> SUFFICES ASSUME RevokeInv, [Next]_vars PROVE RevokeInv'
  OBVIOUS
<1>1. TypeInv'
  BY TypeNext DEF RevokeInv
<1>2. CASE UNCHANGED vars
  <2>1. \A r \in Req : pc'[r] = pc[r]
    BY <1>2 DEF vars, requests
  <2> QED
    BY <1>1, <1>2, <2>1, RevokeFrame DEF vars, requests, world
<1> QED
  BY <1>1, <1>2, RevokeProcess, RevokeRequest DEF Next

\* The admin endpoint (http_admin.go) answers 204 only for a sigil that is revoked
\* and announced, announces no revocation before its row, and writes no row
\* without the secret, for any number of requests, restarts and store errors.
THEOREM RevokeContract == Spec => []RevokeTruthful
<1>1. RevokeInv => RevokeTruthful
  BY DEF RevokeInv
<1> QED
  BY <1>1, RevokeInit, RevokeNext, PTL DEF Spec

-----------------------------------------------------------------------------
(* Keys and resources.                                                     *)

Up == {"serving", "shutdown", "closePublisher", "closeStore"}

\* PublishedKeySigns compares answers of one life.  Inductively: a handler runs
\* only in the present process while it serves or shuts down, nothing was accepted
\* in a life that does not serve yet, and what the present life gave out is its
\* signer, the key of its document.
KeyInv ==
  /\ TypeInv
  /\ PublishedKeySigns
  /\ main \in Up => signer \in Key /\ jwks = signer
  /\ main \notin {"off", "openStore"} => store = "open"
  /\ main \in {"key", "serving", "shutdown", "closePublisher"} => pub = "open"
  /\ \A r \in Req :
       /\ r \in InFlight => life[r] = boots /\ main \in {"serving", "shutdown"}
       /\ life[r] <= boots
       /\ main \in {"openStore", "publisher", "key"} => life[r] < boots
       /\ main \in Up /\ life[r] = boots /\ key[r] \in Key => key[r] = signer
       /\ pc[r] \in {"new", "refused"} => key[r] = None

LEMMA KeyInit == Init => KeyInv
  BY TypeInit, ServeAssumption DEF Init, KeyInv, PublishedKeySigns, InFlight, Up

LEMMA KeyProcess ==
  ASSUME KeyInv, TypeInv',
         \/ Start \/ Main \/ ListenFails \/ Signal \/ Kill
         \/ Flush \/ PublishBackground
         \/ \E k \in Key : Keygen(k)
  PROVE  KeyInv'
<1> USE DEF process, requests, world, history, Up
<1>1. CASE Start
  BY <1>1 DEF Start, KeyInv, TypeInv, TypeOK, PublishedKeySigns, InFlight
<1>2. ASSUME NEW how \in {0, 1, 137}, End(how) PROVE KeyInv'
  BY <1>2 DEF End, KeyInv, TypeInv, TypeOK, PublishedKeySigns, InFlight
<1>3. CASE Die
  BY <1>2, <1>3 DEF Die
<1>4. CASE Wire \/ Signal \/ BeginShutdown
  BY <1>4 DEF Wire, Signal, BeginShutdown, KeyInv, PublishedKeySigns, InFlight
<1>5. CASE FinishShutdown
  BY <1>5 DEF FinishShutdown, ShutdownIdle, KeyInv, PublishedKeySigns, InFlight
<1>6. CASE ClosePublisher
  BY <1>6 DEF ClosePublisher, KeyInv, PublishedKeySigns, InFlight
<1>7. CASE OpenStore
  BY <1>3, <1>7 DEF OpenStore, KeyInv, PublishedKeySigns, InFlight
<1>8. CASE LoadBrokerKey
  <2>1. CASE keyfile # None /\ main' = "serving" /\ signer' = keyfile /\ BuildJWKS
             /\ UNCHANGED <<exit, boots, kills, ctx, store, pub, ring, requests, world, history>>
    BY <1>8, <2>1 DEF LoadBrokerKey, BuildJWKS, KeyInv, TypeInv, TypeOK, PublishedKeySigns, InFlight
  <2> QED
    BY <1>3, <1>8, <2>1 DEF LoadBrokerKey
<1>9. CASE ShutdownTimeout \/ ListenFails
  BY <1>3, <1>9 DEF ShutdownTimeout, ListenFails
<1>10. CASE Kill \/ CloseStore
  BY <1>2, <1>10 DEF Kill, CloseStore
<1>11. CASE Flush \/ PublishBackground \/ \E k \in Key : Keygen(k)
  <2>1. UNCHANGED <<process, requests>>
    BY <1>11 DEF Flush, PublishBackground, Keygen
  <2>2. PublishedKeySigns' /\ InFlight' = InFlight
    BY <2>1 DEF KeyInv, PublishedKeySigns, InFlight
  <2> QED
    BY <2>1, <2>2 DEF KeyInv
<1> HIDE DEF process, requests, world, history, Up
<1> QED
  BY <1>1, <1>4, <1>5, <1>6, <1>7, <1>8, <1>9, <1>10, <1>11 DEF Main

\* A handler moves a request in flight and leaves the process alone.
LEMMA HandlerStep ==
  ASSUME NEW r \in Req, Handler(r)
  PROVE  r \in InFlight /\ UNCHANGED <<process, life>>
<1>1. ASSUME NEW q \in Request, Dispatch(r, q) PROVE r \in InFlight /\ UNCHANGED <<process, life>>
  BY <1>1 DEF Dispatch, InFlight
<1>2. CASE Revoke(r) \/ Announce(r)
  BY <1>2 DEF Revoke, Announce, InFlight
<1>3. CASE Hello(r) \/ IdpAnswers(r)
  BY <1>3 DEF Hello, IdpAnswers, InFlight
<1>4. CASE Issue(r) \/ Sign(r) \/ Fail(r)
  BY <1>4 DEF Issue, Sign, Fail, InFlight
<1> QED
  BY <1>1, <1>2, <1>3, <1>4 DEF Handler

\* A step of a handler that gives out no key, or the key of its process.
LEMMA KeyFrame ==
  ASSUME KeyInv, TypeInv', UNCHANGED <<process, life>>,
         NEW r \in Req, r \in InFlight,
         \A q \in Req \ {r} : pc'[q] = pc[q],
         pc'[r] \notin {"new", "refused"},
         NEW k \in {key[r], signer}, key' = [key EXCEPT ![r] = k]
  PROVE  KeyInv'
<1>1. signer \in Key /\ main \in Up /\ life[r] = boots
  BY DEF KeyInv, Up
<1>2. \A q \in Req : key'[q] \in Key => key'[q] = key[q] \/ (q = r /\ key'[q] = signer)
  BY DEF KeyInv, TypeInv, TypeOK
<1>3. PublishedKeySigns'
  BY <1>1, <1>2 DEF KeyInv, PublishedKeySigns
<1>4. \A q \in Req : (q \in InFlight)' => q \in InFlight
  BY DEF InFlight
<1>5. \A q \in Req : pc'[q] \in {"new", "refused"} => key'[q] = None
  BY DEF KeyInv, TypeInv, TypeOK
<1> QED
  BY <1>1, <1>2, <1>3, <1>4, <1>5 DEF KeyInv, process

LEMMA KeyRequest ==
  ASSUME KeyInv, TypeInv', NEW r \in Req, Accept(r) \/ Handler(r)
  PROVE  KeyInv'
<1> USE DEF Goto, Answer
<1>1. CASE Accept(r)
  <2>1. key'[r] = None /\ key' = key
    BY <1>1 DEF Accept, KeyInv
  <2>2. \A q \in Req : key[q] \in Key => q # r
    BY <2>1, ServeAssumption
  <2>3. \A q \in Req \ {r} : life'[q] = life[q] /\ pc'[q] = pc[q]
    BY <1>1 DEF Accept, KeyInv, TypeInv, TypeOK
  <2>4. PublishedKeySigns'
    BY <2>1, <2>2, <2>3 DEF KeyInv, PublishedKeySigns
  <2>5. UNCHANGED process
    BY <1>1 DEF Accept
  <2>6. \/ main = "serving" /\ pc'[r] = "read" /\ life'[r] = boots
        \/ main # "serving" /\ pc'[r] = "refused" /\ life'[r] = life[r]
    BY <1>1 DEF Accept, KeyInv, TypeInv, TypeOK
  <2>7. \A q \in Req : (q \in InFlight)' =>
          (q \in InFlight /\ q # r) \/ (q = r /\ life'[r] = boots /\ main = "serving")
    BY <2>3, <2>6 DEF InFlight
  <2>8. \A q \in Req : life'[q] <= boots
    BY <2>3, <2>6 DEF KeyInv, TypeInv, TypeOK
  <2>9. \A q \in Req : main \in {"openStore", "publisher", "key"} => life'[q] < boots
    BY <2>3, <2>6 DEF KeyInv
  <2>10. \A q \in Req : pc'[q] \in {"new", "refused"} => key'[q] = None
    BY <2>1, <2>3 DEF KeyInv
  <2>11. \A q \in Req : main \in Up /\ life'[q] = boots /\ key'[q] \in Key => key'[q] = signer
    BY <2>1, <2>2, <2>3 DEF KeyInv
  <2> QED
    BY <2>3, <2>4, <2>5, <2>7, <2>8, <2>9, <2>10, <2>11 DEF KeyInv, process
<1>2. CASE Handler(r)
  <2>1. r \in InFlight
    BY <1>2, HandlerStep
  <2>2. UNCHANGED <<process, life>>
    BY <1>2, HandlerStep
  <2> DEFINE Moves == \E s \in Stage \ {"new", "refused"} : pc' = [pc EXCEPT ![r] = s]
  <2>3. Moves
    <3>1. CASE \E q \in Request : Dispatch(r, q)
      BY <3>1 DEF Dispatch
    <3>2. CASE Revoke(r) \/ Announce(r)
      BY <3>2 DEF Revoke, Announce
    <3>3. CASE Hello(r) \/ IdpAnswers(r)
      BY <3>3 DEF Hello, IdpAnswers
    <3>4. CASE Issue(r) \/ Sign(r) \/ Fail(r)
      BY <3>4 DEF Issue, Sign, Fail
    <3> HIDE DEF Moves, Goto, Answer
    <3> QED
      BY <1>2, <3>1, <3>2, <3>3, <3>4 DEF Handler
  <2>4. (\A q \in Req \ {r} : pc'[q] = pc[q]) /\ pc'[r] \notin {"new", "refused"}
    BY <2>3 DEF KeyInv, TypeInv, TypeOK
  <2>5. key' = [key EXCEPT ![r] = key[r]] \/ key' = [key EXCEPT ![r] = signer]
    <3>1. key = [key EXCEPT ![r] = key[r]]
      BY DEF KeyInv, TypeInv, TypeOK
    <3>2. jwks = signer
      BY <2>1 DEF KeyInv, Up
    <3> QED
      BY <1>2, <3>1, <3>2, Zenon DEF Handler, Dispatch, ServedKey, Revoke, Announce, Hello, IdpAnswers, Issue, Sign, Fail
  <2> QED
    BY <2>1, <2>2, <2>4, <2>5, KeyFrame
<1> QED
  BY <1>1, <1>2

LEMMA KeyNext == KeyInv /\ [Next]_vars => KeyInv'
<1> SUFFICES ASSUME KeyInv, [Next]_vars PROVE KeyInv'
  OBVIOUS
<1>1. TypeInv'
  BY TypeNext DEF KeyInv
<1>2. CASE UNCHANGED vars
  BY <1>1, <1>2, Zenon DEF vars, process, requests, KeyInv, PublishedKeySigns, InFlight
<1> QED
  BY <1>1, <1>2, KeyProcess, KeyRequest DEF Next

\* Within one life of the process every token is signed by the key that every
\* client was given (http.go:41-43), for any number of requests and of changes to
\* the key file.
THEOREM KeyContract == Spec => []PublishedKeySigns
<1>1. KeyInv => PublishedKeySigns
  BY DEF KeyInv
<1> QED
  BY <1>1, KeyInit, KeyNext, PTL DEF Spec

\* While a handler runs, the store, the publisher and the key are there: the
\* deferred calls of runServe come after the last handler.
THEOREM ResourceContract == Spec => []ResourcesOutliveHandlers
<1>1. KeyInv => ResourcesOutliveHandlers
  BY ServeAssumption DEF KeyInv, TypeInv, ResourcesOutliveHandlers, InFlight, Up
<1> QED
  BY <1>1, KeyInit, KeyNext, PTL DEF Spec

-----------------------------------------------------------------------------
(* The graceful stop.                                                      *)

StopInv ==
  /\ KeyInv
  /\ main # "off" => exit = None
  /\ main = "closeStore" => ring \cap Req = {}

LEMMA StopInit == Init => StopInv
  BY KeyInit DEF Init, StopInv

LEMMA StopNext == StopInv /\ [Next]_vars => StopInv'
<1> SUFFICES ASSUME StopInv, [Next]_vars PROVE StopInv'
  OBVIOUS
<1>1. KeyInv'
  BY KeyNext DEF StopInv
<1>2. CASE UNCHANGED vars
  BY <1>1, <1>2 DEF vars, process, StopInv
<1>3. ASSUME NEW r \in Req, Accept(r) PROVE StopInv'
  BY <1>1, <1>3 DEF Accept, process, StopInv
<1>4. ASSUME NEW r \in Req, Handler(r) PROVE StopInv'
  <2>1. UNCHANGED process /\ main # "closeStore"
    BY <1>4, HandlerStep DEF StopInv, KeyInv
  <2> QED
    BY <1>1, <2>1 DEF StopInv, process
<1>5. CASE main' = "off"
  BY <1>1, <1>5 DEF StopInv
<1>6. ASSUME Die \/ Kill \/ CloseStore PROVE main' = "off"
  BY <1>6 DEF Die, Kill, CloseStore, End
<1>7. CASE Start \/ OpenStore \/ Wire \/ LoadBrokerKey
  BY <1>1, <1>5, <1>6, <1>7 DEF Start, OpenStore, Wire, LoadBrokerKey, StopInv
<1>8. CASE BeginShutdown \/ FinishShutdown \/ ClosePublisher \/ Signal
  BY <1>1, <1>8 DEF BeginShutdown, FinishShutdown, ClosePublisher, Signal, StopInv
<1>9. CASE ShutdownTimeout \/ ListenFails \/ Kill \/ CloseStore
  BY <1>5, <1>6, <1>9 DEF ShutdownTimeout, ListenFails
<1>10. CASE Flush \/ PublishBackground \/ \E k \in Key : Keygen(k)
  BY <1>1, <1>10, ServeAssumption DEF Flush, PublishBackground, Publish, Keygen, process, StopInv
<1> QED
  BY <1>2, <1>3, <1>4, <1>7, <1>8, <1>9, <1>10 DEF Next, Main

\* A process that returns from main has answered what it accepted and leaves no
\* event of a handler in the ring.
THEOREM StopContract == Spec => GracefulStop
<1>1. StopInv /\ [Next]_vars => [main # "off" /\ exit' = 0 => InFlight = {} /\ ring \cap Req = {}]_vars
  <2> SUFFICES ASSUME StopInv, Next, main # "off", exit' = 0
               PROVE  InFlight = {} /\ ring \cap Req = {}
    BY DEF vars
  <2>1. exit' # exit
    BY CodeAssumption DEF StopInv
  <2>2. CASE CloseStore
    <3>1. main = "closeStore"
      BY <2>2 DEF CloseStore
    <3>2. InFlight = {}
      BY <3>1 DEF StopInv, KeyInv, InFlight
    <3> QED
      BY <3>1, <3>2 DEF StopInv
  <2>3. ASSUME NEW r \in Req, Accept(r) \/ Handler(r) PROVE FALSE
    BY <2>1, <2>3, HandlerStep DEF Accept, process
  <2>4. ~(Die \/ Kill)
    BY DEF Die, Kill, End
  <2>5. ~(Start \/ OpenStore \/ Wire \/ LoadBrokerKey)
    BY <2>1, <2>4 DEF Start, OpenStore, Wire, LoadBrokerKey
  <2>6. ~(BeginShutdown \/ FinishShutdown \/ ClosePublisher \/ Signal)
    BY <2>1 DEF BeginShutdown, FinishShutdown, ClosePublisher, Signal
  <2>7. ~(ShutdownTimeout \/ ListenFails)
    BY <2>4 DEF ShutdownTimeout, ListenFails
  <2>8. ~(Flush \/ PublishBackground \/ \E k \in Key : Keygen(k))
    BY <2>1 DEF Flush, PublishBackground, Keygen, process
  <2> QED
    BY <2>2, <2>3, <2>4, <2>5, <2>6, <2>7, <2>8 DEF Next, Main
<1> QED
  BY <1>1, StopInit, StopNext, PTL DEF Spec, GracefulStop
=============================================================================
