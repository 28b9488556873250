--------------------------- MODULE NatsPublisher ---------------------------
(***************************************************************************)
(* internal/observability/nats_publisher.go: Publish calls that run at     *)
(* once, the goroutine each may leave behind, the ring buffer, the drain   *)
(* loop, Close, and the NATS connections they use.  Everything between two *)
(* holds of the mutex is a step of its own.  An event stands for one       *)
(* Publish call.                                                           *)
(***************************************************************************)
EXTENDS Integers, Sequences, FiniteSets

CONSTANTS
  Event,     \* the Publish calls, each made once
  Opaque,    \* those whose payload json.Marshal rejects
  NoEvent,   \* an empty slot, an idle drain loop
  Capacity,  \* ringBufferSize
  MaxConns,  \* bound on the connections made
  MaxBreaks, \* bound on the outages of the NATS server
  Closes,    \* TRUE when the process shuts down, FALSE while it serves
  Refusals   \* TRUE when conn.Publish may return an error on a live connection

ASSUME CapacityAssumption == Capacity \in Nat \ {0}

ASSUME EventAssumption == IsFiniteSet(Event) /\ Opaque \subseteq Event /\ NoEvent \notin Event

ASSUME LimitsAssumption == {MaxConns, MaxBreaks} \subseteq Nat /\ {Closes, Refusals} \subseteq BOOLEAN

VARIABLES
  \* NATSPublisher
  conn,      \* the current connection, 0 for nil
  ring, ringHead, ringTail, ringCount,
  drops,
  signals,   \* signals waiting in drainCh
  closing,   \* closeCh is closed
  closed,    \* Close returned
  \* Publish
  pc,        \* where a call stands
  via,       \* the connection it read
  sender,    \* where its goroutine stands
  \* drainLoop
  dpc,       \* where the loop stands
  last,      \* it is in the flush that precedes its return
  held,      \* the event flush took from the ring
  \* NATS
  server,    \* the server can be reached
  link,      \* status of the connections made so far
  hooked,    \* the connection with a ReconnectHandler, 0 for none
  outbox,    \* copies a connection took and the server did not get yet
  arrived,   \* copies the server got
  breaks,    \* outages so far
  \* history, read by the properties only
  turned,    \* events that found the ring full
  owed,      \* events in the ring when Close was called
  late,      \* calls that gave up waiting for their goroutine
  refused,   \* events whose conn.Publish in flush failed
  cut        \* copies lost with a connection

state   == <<conn, ring, ringHead, ringTail, ringCount, drops, signals, closing, closed>>
callers == <<pc, via, sender>>
drain   == <<dpc, last, held>>
nats    == <<server, link, hooked, outbox, arrived, breaks>>
history == <<turned, owed, late, refused, cut>>
vars    == <<state, callers, drain, nats, history>>

-----------------------------------------------------------------------------

Slot == 0..(Capacity - 1)

Conn == 1..MaxConns

\* An event sent by its own goroutine, and the same event sent by flush.
Copy == Event \X {"direct", "drain"}

TypeOK ==
  /\ conn \in 0..MaxConns
  /\ ring \in [Slot -> Event \cup {NoEvent}]
  /\ ringHead \in Slot /\ ringTail \in Slot
  /\ ringCount \in 0..Capacity
  /\ drops \in Nat
  /\ signals \in 0..Capacity
  /\ closing \in BOOLEAN /\ closed \in BOOLEAN
  /\ pc \in [Event -> {"ready", "check", "wait", "buffer", "signal", "drop", "done"}]
  /\ via \in [Event -> 0..MaxConns]
  /\ sender \in [Event -> {"none", "publish", "flush", "nil", "err"}]
  /\ dpc \in {"select", "retry", "flush", "publish", "returned"}
  /\ last \in BOOLEAN
  /\ held \in Event \cup {NoEvent}
  /\ server \in BOOLEAN
  /\ link \in [Conn -> {"unmade", "up", "down", "draining", "closed"}]
  /\ outbox \in [Conn -> SUBSET Copy]
  /\ arrived \subseteq Copy
  /\ hooked \in 0..MaxConns
  /\ breaks \in 0..MaxBreaks
  /\ turned \subseteq Event /\ owed \subseteq Event
  /\ late \subseteq Event /\ refused \subseteq Event /\ cut \subseteq Copy

\* The events in the ring, oldest first.
Buffered == [i \in 1..ringCount |-> ring[(ringTail + i - 1) % Capacity]]

InRing == {Buffered[i] : i \in 1..ringCount}

\* A connection that sends; a draining one does until it is closed.
Live(c) == link[c] \in {"up", "draining"}

\* conn != nil && conn.IsConnected()
IsConnected(c) == c # 0 /\ Live(c)

\* NewNATSPublisher: the first Connect succeeds or the publisher starts without one.
Init ==
  /\ server \in BOOLEAN
  /\ conn = IF server /\ MaxConns > 0 THEN 1 ELSE 0
  /\ link = [c \in Conn |-> IF c = conn THEN "up" ELSE "unmade"]
  /\ ring = [i \in Slot |-> NoEvent]
  /\ ringHead = 0 /\ ringTail = 0 /\ ringCount = 0
  /\ drops = 0 /\ signals = 0 /\ closing = FALSE /\ closed = FALSE
  /\ pc = [e \in Event |-> "ready"]
  /\ via = [e \in Event |-> 0]
  /\ sender = [e \in Event |-> "none"]
  /\ dpc = "select" /\ last = FALSE /\ held = NoEvent
  /\ outbox = [c \in Conn |-> {}]
  /\ arrived = {}
  /\ hooked = conn
  /\ breaks = 0
  /\ turned = {} /\ owed = {} /\ late = {} /\ refused = {} /\ cut = {}

-----------------------------------------------------------------------------
(* nats.Conn, as far as the publisher uses it.                             *)

\* Whether conn.Publish may return nil: it takes the message unless the
\* connection is closed, into a buffer while it reconnects.
Takes(c) == link[c] \in {"up", "down", "draining"}

\* Whether it may return an error.  A draining connection does so once it is done
\* with its subscriptions.
Rejects(c) == link[c] \in {"closed", "draining"} \/ Refusals

\* conn.Drain, over the links that the caller leaves.  It returns at once: a live
\* connection goes on sending what it holds, a broken one is closed and gives it up.
Drain(c, links) ==
  /\ link' = [links EXCEPT ![c] = IF @ = "up" THEN "draining" ELSE "closed"]
  /\ outbox' = [outbox EXCEPT ![c] = IF link[c] = "up" THEN @ ELSE {}]
  /\ cut' = IF link[c] = "up" THEN cut ELSE cut \cup outbox[c]

\* A non-blocking send on drainCh, a channel of Capacity places.
Signal == signals' = IF signals < Capacity THEN signals + 1 ELSE signals

Deliver(c) ==
  /\ Live(c)
  /\ outbox[c] # {}
  /\ arrived' = arrived \cup outbox[c]
  /\ outbox' = [outbox EXCEPT ![c] = {}]
  /\ UNCHANGED <<state, callers, drain, server, link, hooked, breaks, history>>

\* The goroutine of Drain has sent everything and closes the connection.
Drained(c) ==
  /\ link[c] = "draining" /\ outbox[c] = {}
  /\ link' = [link EXCEPT ![c] = "closed"]
  /\ UNCHANGED <<state, callers, drain, server, hooked, outbox, arrived, breaks, history>>

\* An outage breaks every connection; what was on the wire may be lost.  A draining
\* connection does not reconnect: it is closed, and all it holds is lost.
Outage ==
  /\ server /\ breaks < MaxBreaks
  /\ server' = FALSE
  /\ breaks' = breaks + 1
  /\ link' = [c \in Conn |-> IF link[c] = "up" THEN "down"
                              ELSE IF link[c] = "draining" THEN "closed" ELSE link[c]]
  /\ \E R \in [Conn -> SUBSET Copy] :
       /\ \A c \in Conn : R[c] \in IF link[c] = "up" THEN SUBSET outbox[c]
                                   ELSE IF link[c] = "draining" THEN {outbox[c]} ELSE {{}}
       /\ outbox' = [c \in Conn |-> outbox[c] \ R[c]]
       /\ cut' = cut \cup UNION {R[c] : c \in Conn}
  /\ UNCHANGED <<state, callers, drain, hooked, arrived, turned, owed, late, refused>>

Recovery ==
  /\ ~server
  /\ server' = TRUE
  /\ UNCHANGED <<state, callers, drain, link, hooked, outbox, arrived, breaks, history>>

\* The client library reconnects by itself; only the first connection tells
\* the drain loop.
Reconnect(c) ==
  /\ server /\ link[c] = "down"
  /\ link' = [link EXCEPT ![c] = "up"]
  /\ IF c = hooked THEN Signal ELSE UNCHANGED signals
  /\ UNCHANGED <<conn, ring, ringHead, ringTail, ringCount, drops, closing, closed,
                 callers, drain, server, hooked, outbox, arrived, breaks, history>>

-----------------------------------------------------------------------------
(* Publish.                                                                *)

Goto(e, s) == pc' = [pc EXCEPT ![e] = s]

\* Marshal, then read p.conn under the mutex.
Publish(e) ==
  /\ pc[e] = "ready"
  /\ IF e \in Opaque
     THEN Goto(e, "done") /\ UNCHANGED via
     ELSE Goto(e, "check") /\ via' = [via EXCEPT ![e] = conn]
  /\ UNCHANGED <<state, sender, drain, nats, history>>

\* Start the goroutine, or go straight to the ring.
CheckConn(e) ==
  /\ pc[e] = "check"
  /\ Goto(e, IF IsConnected(via[e]) THEN "wait" ELSE "buffer")
  /\ sender' = [sender EXCEPT ![e] = IF IsConnected(via[e]) THEN "publish" ELSE @]
  /\ UNCHANGED <<state, via, drain, nats, history>>

\* The goroutine's conn.Publish.
SenderPublish(e) ==
  /\ sender[e] = "publish"
  /\ \/ /\ Takes(via[e])
        /\ outbox' = [outbox EXCEPT ![via[e]] = @ \cup {<<e, "direct">>}]
        /\ sender' = [sender EXCEPT ![e] = "flush"]
     \/ /\ Rejects(via[e])
        /\ sender' = [sender EXCEPT ![e] = "err"]
        /\ UNCHANGED outbox
  /\ UNCHANGED <<state, pc, via, drain, server, link, hooked, arrived, breaks, history>>

\* Its conn.FlushTimeout: nil once the connection is up and has nothing left
\* to send, an error on a broken connection or after 100 ms.
SenderFlush(e) ==
  /\ sender[e] = "flush"
  /\ \E r \in {"nil", "err"} :
       /\ r = "nil" => Live(via[e]) /\ outbox[via[e]] = {}
       /\ sender' = [sender EXCEPT ![e] = r]
  /\ UNCHANGED <<state, pc, via, drain, nats, history>>

\* Mutant: the success path does not return.
AwaitFallsThrough(e) ==
  /\ pc[e] = "wait"
  /\ \/ sender[e] \in {"nil", "err"} /\ Goto(e, "buffer") /\ UNCHANGED late
     \/ Goto(e, "buffer") /\ late' = late \cup {e}
  /\ UNCHANGED <<state, via, sender, drain, nats, turned, owed, refused, cut>>

\* The select of Publish: the goroutine's answer, or the deadline.
Await(e) ==
  /\ pc[e] = "wait"
  /\ \/ sender[e] = "nil" /\ Goto(e, "done") /\ UNCHANGED late
     \/ sender[e] = "err" /\ Goto(e, "buffer") /\ UNCHANGED late
     \/ Goto(e, "buffer") /\ late' = late \cup {e}
  /\ UNCHANGED <<state, via, sender, drain, nats, turned, owed, refused, cut>>

\* Mutant: the count is not compared with the capacity.
BufferUnguarded(e) ==
  /\ pc[e] = "buffer"
  /\ ring' = [ring EXCEPT ![ringHead] = e]
  /\ ringHead' = (ringHead + 1) % Capacity
  /\ ringCount' = ringCount + 1
  /\ Goto(e, "signal")
  /\ UNCHANGED <<conn, ringTail, drops, signals, closing, closed, via, sender,
                 drain, nats, history>>

\* Under the mutex: a free slot of the ring, or none.
Buffer(e) ==
  /\ pc[e] = "buffer"
  /\ \/ /\ ringCount < Capacity
        /\ ring' = [ring EXCEPT ![ringHead] = e]
        /\ ringHead' = (ringHead + 1) % Capacity
        /\ ringCount' = ringCount + 1
        /\ Goto(e, "signal")
        /\ UNCHANGED turned
     \/ /\ ringCount >= Capacity
        /\ Goto(e, "drop")
        /\ turned' = turned \cup {e}
        /\ UNCHANGED <<ring, ringHead, ringCount>>
  /\ UNCHANGED <<conn, ringTail, drops, signals, closing, closed, via, sender,
                 drain, nats, owed, late, refused, cut>>

\* After it: wake the drain loop, or count the drop.
Finish(e) ==
  /\ \/ pc[e] = "signal" /\ Signal /\ UNCHANGED drops
     \/ pc[e] = "drop" /\ drops' = drops + 1 /\ UNCHANGED signals
  /\ Goto(e, "done")
  /\ UNCHANGED <<conn, ring, ringHead, ringTail, ringCount, closing, closed, via, sender,
                 drain, nats, history>>

Caller(e) == CheckConn(e) \/ Await(e) \/ Buffer(e) \/ Finish(e)

Sender(e) == SenderPublish(e) \/ SenderFlush(e)

-----------------------------------------------------------------------------
(* drainLoop, flush and Close.                                             *)

\* Mutant: the loop returns without its last flush.
SelectCloseAtOnce ==
  /\ dpc = "select" /\ closing
  /\ dpc' = "returned" /\ last' = TRUE
  /\ UNCHANGED <<state, callers, held, nats, history>>

\* The select of drainLoop takes any ready branch.
SelectClose ==
  /\ dpc = "select" /\ closing
  /\ dpc' = "flush" /\ last' = TRUE
  /\ UNCHANGED <<state, callers, held, nats, history>>

SelectSignal ==
  /\ dpc = "select" /\ signals > 0
  /\ signals' = signals - 1
  /\ dpc' = "flush"
  /\ UNCHANGED <<conn, ring, ringHead, ringTail, ringCount, drops, closing, closed,
                 callers, last, held, nats, history>>

\* Mutant: the ticker is left to the retries of a lost connection.
SelectTickRetryOnly ==
  /\ dpc = "select" /\ ~IsConnected(conn)
  /\ dpc' = "retry"
  /\ UNCHANGED <<state, callers, last, held, nats, history>>

SelectTick ==
  /\ dpc = "select"
  /\ dpc' = IF IsConnected(conn) THEN "flush" ELSE "retry"
  /\ UNCHANGED <<state, callers, last, held, nats, history>>

Unmade == {c \in Conn : link[c] = "unmade"}

\* nats.Connect outside the mutex; a new connection replaces the old one, which is drained.
Retry ==
  /\ dpc = "retry"
  /\ dpc' = "flush"
  /\ \/ /\ server
        /\ \E c \in Unmade :
             /\ \A d \in Unmade : c <= d
             /\ conn' = c
             /\ LET links == [link EXCEPT ![c] = "up"]
                IN  IF conn # 0 THEN Drain(conn, links) ELSE link' = links /\ UNCHANGED <<outbox, cut>>
     \/ (~server \/ Unmade = {}) /\ UNCHANGED <<conn, link, outbox, cut>>
  /\ UNCHANGED <<ring, ringHead, ringTail, ringCount, drops, signals, closing, closed,
                 callers, last, held, server, hooked, arrived, breaks, turned, owed, late,
                 refused>>

\* Mutant: the closeCh branch lacks its return.
FlushDoneLoops == dpc' = "select"

FlushDone == dpc' = IF last THEN "returned" ELSE "select"

\* Under the mutex: nothing to send, nowhere to send it, or the oldest event.
FlushPop ==
  /\ dpc = "flush"
  /\ \/ /\ ringCount = 0 \/ ~IsConnected(conn)
        /\ FlushDone
        /\ UNCHANGED <<ringTail, ringCount, held>>
     \/ /\ ringCount > 0 /\ IsConnected(conn)
        /\ held' = ring[ringTail]
        /\ ringTail' = (ringTail + 1) % Capacity
        /\ ringCount' = ringCount - 1
        /\ dpc' = "publish"
  /\ UNCHANGED <<conn, ring, ringHead, drops, signals, closing, closed, callers, last, nats, history>>

\* After it: conn.Publish.  An event it refuses is logged and forgotten.
FlushPublish ==
  /\ dpc = "publish"
  /\ held' = NoEvent
  /\ \/ /\ Takes(conn)
        /\ outbox' = [outbox EXCEPT ![conn] = @ \cup {<<held, "drain">>}]
        /\ dpc' = "flush"
        /\ UNCHANGED refused
     \/ /\ Rejects(conn)
        /\ refused' = refused \cup {held}
        /\ FlushDone
        /\ UNCHANGED outbox
  /\ UNCHANGED <<state, callers, last, server, link, hooked, arrived, breaks, turned, owed, late, cut>>

DrainLoop == SelectClose \/ SelectSignal \/ SelectTick \/ Retry \/ FlushPop \/ FlushPublish

\* Close is called once: it wakes the loop and waits for its return ...
Close ==
  /\ Closes /\ ~closing
  /\ closing' = TRUE
  /\ owed' = InRing
  /\ UNCHANGED <<conn, ring, ringHead, ringTail, ringCount, drops, signals, closed,
                 callers, drain, nats, turned, late, refused, cut>>

\* ... and starts the drain of the connection.
CloseReturn ==
  /\ closing /\ ~closed
  /\ dpc = "returned"
  /\ closed' = TRUE
  /\ IF conn # 0
     THEN Drain(conn, link)
     ELSE UNCHANGED <<link, outbox, cut>>
  /\ UNCHANGED <<conn, ring, ringHead, ringTail, ringCount, drops, signals, closing,
                 callers, drain, server, hooked, arrived, breaks, turned, owed, late, refused>>

-----------------------------------------------------------------------------

Next ==
  \/ \E e \in Event : Publish(e) \/ Caller(e) \/ Sender(e)
  \/ DrainLoop
  \/ Close
  \/ CloseReturn
  \/ Outage
  \/ Recovery
  \/ \E c \in Conn : Deliver(c) \/ Drained(c) \/ Reconnect(c)

Spec == Init /\ [][Next]_vars

\* Goroutines keep running, a select among ready branches is random, the server
\* comes back and the client library keeps reconnecting (MaxReconnects(-1)).
FairSpec ==
  /\ Spec
  /\ \A e \in Event : WF_vars(Caller(e)) /\ WF_vars(Sender(e))
  /\ WF_vars(DrainLoop) /\ SF_vars(SelectClose) /\ SF_vars(SelectTick)
  /\ WF_vars(CloseReturn) /\ WF_vars(Recovery)
  /\ \A c \in Conn : WF_vars(Reconnect(c)) /\ WF_vars(Deliver(c))

-----------------------------------------------------------------------------
(* Properties.                                                             *)

\* Publish returned because its goroutine reported success in time.
Confirmed(e) == pc[e] = "done" /\ sender[e] = "nil" /\ e \notin late

Sent(e, way) == <<e, way>> \in arrived \cup cut \cup UNION {outbox[c] : c \in Conn}

\* No event vanishes unseen and none is stored twice: once Publish returned,
\* its event met exactly one fate.  Its goroutine delivered it, the ring was
\* full, it waits in the ring or in the hands of flush, flush handed it to a
\* connection, or flush met an error.  drops counts the second fate exactly.
\* (The variables have their types, which makes the fates well defined.)
EveryEventAccounted ==
  /\ TypeOK
  /\ \A e \in Event \ Opaque : pc[e] = "done" =>
       Cardinality({f \in 1..6 :
         \/ f = 1 /\ Confirmed(e)
         \/ f = 2 /\ e \in turned
         \/ f = 3 /\ e \in InRing
         \/ f = 4 /\ e = held
         \/ f = 5 /\ Sent(e, "drain")
         \/ f = 6 /\ e \in refused}) = 1
  /\ drops = Cardinality({e \in turned : pc[e] = "done"})

\* A confirmed event reached its connection once: a second copy is sent only
\* for a call that gave up at the deadline or was told of an error, while the
\* first copy was already on its way.
DuplicateOnlyAfterDoubt ==
  \A e \in Event :
    /\ Confirmed(e) => Sent(e, "direct") /\ ~Sent(e, "drain")
    /\ Sent(e, "direct") /\ Sent(e, "drain") => e \in late \/ sender[e] = "err"

\* "Close drains pending events" (nats_publisher.go:241): over a connection that
\* never broke and refused nothing, what was in the ring when Close was called has
\* been handed to the connection when Close returns.  The connection may still be
\* sending it, and events of Publish calls under way may stay in the ring.
CloseDrains ==
  closed /\ hooked # 0 /\ breaks = 0 /\ refused = {} =>
    \A e \in owed : Sent(e, "drain")

\* The array, its two indices and its count behave as a bounded queue whatever
\* callers and the drain loop do between their holds of the mutex.
Fifo == INSTANCE BoundedFifo WITH Limit <- Capacity, queue <- Buffered

ImplementsFifo == Fifo!FifoSpec

\* NF-1, NF-2: no state of the connection keeps a Publish call from returning.
PublishReturns ==
  \A e \in Event : pc[e] \notin {"ready", "done"} ~> pc[e] = "done"

\* The drain goroutine replays what outages left in the ring.
RingDrains ==
  \A e \in Event : e \in InRing ~> (e \notin InRing \/ dpc = "returned")

\* Close returns.
CloseReturns == closing ~> closed

\* Neither call of the interface blocks its caller for good.
CallsReturn == PublishReturns /\ CloseReturns
=============================================================================
