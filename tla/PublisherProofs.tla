-------------------------- MODULE PublisherProofs --------------------------
(***************************************************************************)
(* Theorems about the publisher, for every capacity, number of calls,      *)
(* number of connections and outages: its ring buffer implements a bounded *)
(* queue, every event meets one fate, a second copy is sent only after     *)
(* doubt, and Close drains the ring.                                       *)
(***************************************************************************)
EXTENDS NatsPublisher, TLAPS

-----------------------------------------------------------------------------
(* The invariants.                                                         *)

\* The position d slots after t in a ring of C slots.
At(C, t, d) == IF t + d < C THEN t + d ELSE t + d - C

\* The inductive invariant: the write position is ringCount slots after the
\* read position.
RingInv ==
  /\ ring \in [Slot -> Event \cup {NoEvent}]
  /\ ringTail \in Slot
  /\ ringCount \in 0..Capacity
  /\ ringHead = At(Capacity, ringTail, ringCount)

ringvars == <<ring, ringHead, ringTail, ringCount>>

\* Copies that a connection took, whatever became of them.
SentSet == arrived \cup cut \cup UNION {outbox[c] : c \in Conn}

\* The ring holds events, each once.
DistinctInv ==
  /\ \A i \in 1..ringCount : Buffered[i] \in Event
  /\ \A i, j \in 1..ringCount : Buffered[i] = Buffered[j] => i = j

\* The call has no confirmation: it found no connection, was told of an error,
\* or gave up.
Doubt(e) == sender[e] \in {"none", "err"} \/ e \in late

\* The places of an event that Publish could not confirm.
Placed(e) ==
  e \in turned \/ e \in InRing \/ e = held \/ <<e, "drain">> \in SentSet \/ e \in refused

OnePlace(e) ==
  /\ e \in turned => e \notin InRing /\ e # held /\ <<e, "drain">> \notin SentSet /\ e \notin refused
  /\ e \in InRing => e # held /\ <<e, "drain">> \notin SentSet /\ e \notin refused
  /\ e = held => <<e, "drain">> \notin SentSet /\ e \notin refused
  /\ <<e, "drain">> \in SentSet => e \notin refused

\* Where the event is, by where its call stands.
PlaceInv(e) ==
  /\ OnePlace(e)
  /\ Placed(e) <=> \/ pc[e] \in {"signal", "drop"}
                   \/ pc[e] = "done" /\ e \notin Opaque /\ Doubt(e)
  /\ pc[e] = "drop" => e \in turned
  /\ pc[e] = "signal" => e \notin turned

\* What its goroutine did, by where its call stands.
CallInv(e) ==
  /\ e \in Opaque => pc[e] \in {"ready", "done"} /\ sender[e] = "none"
  /\ pc[e] \in {"ready", "check"} => sender[e] = "none" /\ e \notin late
  /\ pc[e] = "wait" => sender[e] # "none" /\ e \notin late
  /\ pc[e] \in {"buffer", "signal", "drop"} => Doubt(e)
  /\ pc[e] = "done" => Doubt(e) \/ sender[e] = "nil"
  /\ sender[e] # "none" => via[e] # 0
  /\ sender[e] \in {"none", "publish"} => <<e, "direct">> \notin SentSet
  /\ sender[e] \in {"flush", "nil"} => <<e, "direct">> \in SentSet

\* flush holds an event between its two steps only, and has a connection then.
HeldInv ==
  /\ dpc = "publish" <=> held # NoEvent
  /\ dpc = "publish" => conn # 0

DropsInv == drops = Cardinality({e \in turned : pc[e] = "done"})

AccountInv ==
  /\ TypeOK /\ RingInv /\ DistinctInv /\ HeldInv /\ DropsInv
  /\ \A e \in Event : PlaceInv(e) /\ CallInv(e)

\* The connection made at the start serves until Close returns if it never
\* breaks; what Close owes leaves the ring by the last flush.
Unbroken == hooked # 0 /\ breaks = 0

CloseOrder ==
  /\ last => closing
  /\ closed => dpc = "returned"
  /\ dpc = "returned" => last
  /\ ~closing => owed = {}

CloseLink ==
  Unbroken => conn = hooked /\ dpc # "retry" /\ (~closed => link[conn] = "up")

Kept(e) == e \in InRing \/ e = held \/ <<e, "drain">> \in SentSet \/ e \in refused

CloseOwed ==
  /\ \A e \in owed : Kept(e)
  /\ Unbroken /\ refused = {} /\ dpc = "returned" => \A e \in owed : <<e, "drain">> \in SentSet

CloseInv == CloseOrder /\ CloseLink /\ CloseOwed

-----------------------------------------------------------------------------
(* The copies.                                                             *)

\* Between outbox, wire and loss a copy moves; none is forgotten.
LEMMA SentMoves ==
  ASSUME NEW box \in [Conn -> SUBSET Copy], NEW got, NEW lost, NEW gone \in [Conn -> SUBSET Copy],
         \A c \in Conn : gone[c] \subseteq outbox[c] /\ box[c] = outbox[c] \ gone[c],
         got \cup lost = arrived \cup cut \cup UNION {gone[c] : c \in Conn}
  PROVE  got \cup lost \cup UNION {box[c] : c \in Conn} = SentSet
<1>1. \A x \in UNION {gone[c] : c \in Conn} : x \in UNION {outbox[c] : c \in Conn}
  <2> SUFFICES ASSUME NEW c \in Conn, NEW x \in gone[c]
               PROVE  x \in UNION {outbox[d] : d \in Conn}
    OBVIOUS
  <2>1. x \in outbox[c]
    OBVIOUS
  <2> QED
    BY <2>1, Zenon
<1>2. \A x \in UNION {box[c] : c \in Conn} : x \in UNION {outbox[c] : c \in Conn}
  <2> SUFFICES ASSUME NEW c \in Conn, NEW x \in box[c]
               PROVE  x \in UNION {outbox[d] : d \in Conn}
    OBVIOUS
  <2>1. x \in outbox[c]
    OBVIOUS
  <2> QED
    BY <2>1, Zenon
<1>3. \A x \in UNION {outbox[c] : c \in Conn} :
        x \in UNION {gone[c] : c \in Conn} \/ x \in UNION {box[c] : c \in Conn}
  <2> SUFFICES ASSUME NEW c \in Conn, NEW x \in outbox[c]
               PROVE  x \in UNION {gone[d] : d \in Conn} \/ x \in UNION {box[d] : d \in Conn}
    OBVIOUS
  <2>1. x \in gone[c] \/ x \in box[c]
    OBVIOUS
  <2> QED
    BY <2>1, Zenon
<1> QED
  BY <1>1, <1>2, <1>3 DEF SentSet

\* A connection takes a copy.
LEMMA SentTakes ==
  ASSUME outbox \in [Conn -> SUBSET Copy], NEW c \in Conn, NEW x,
         outbox' = [outbox EXCEPT ![c] = @ \cup {x}], UNCHANGED <<arrived, cut>>
  PROVE  SentSet' = SentSet \cup {x}
<1>1. \A d \in Conn : outbox'[d] = IF d = c THEN outbox[c] \cup {x} ELSE outbox[d]
  OBVIOUS
<1>2. UNION {outbox'[d] : d \in Conn} = (UNION {outbox[d] : d \in Conn}) \cup {x}
  <2>1. \A y \in UNION {outbox'[d] : d \in Conn} : y \in UNION {outbox[d] : d \in Conn} \/ y = x
    BY <1>1
  <2>2. \A y \in UNION {outbox[d] : d \in Conn} : y \in UNION {outbox'[d] : d \in Conn}
    BY <1>1
  <2>3. x \in UNION {outbox'[d] : d \in Conn}
    BY <1>1
  <2> QED
    BY <2>1, <2>2, <2>3
<1> QED
  BY <1>2 DEF SentSet

LEMMA SentDrain ==
  ASSUME TypeOK, NEW c \in Conn, NEW links, Drain(c, links), arrived' = arrived
  PROVE  SentSet' = SentSet
<1> DEFINE gone == [d \in Conn |-> IF d = c /\ link[c] # "up" THEN outbox[d] ELSE {}]
<1>1. outbox' \in [Conn -> SUBSET Copy] /\ gone \in [Conn -> SUBSET Copy]
  BY DEF TypeOK, Drain
<1>2. \A d \in Conn : gone[d] \subseteq outbox[d] /\ outbox'[d] = outbox[d] \ gone[d]
  BY DEF TypeOK, Drain
<1>3. UNION {gone[d] : d \in Conn} = IF link[c] = "up" THEN {} ELSE outbox[c]
  OBVIOUS
<1>4. arrived' \cup cut' = arrived \cup cut \cup UNION {gone[d] : d \in Conn}
  BY <1>3 DEF Drain
<1> HIDE DEF gone
<1> QED
  BY <1>1, <1>2, <1>4, SentMoves DEF SentSet

LEMMA SentDeliver ==
  ASSUME TypeOK, NEW c \in Conn, Deliver(c)
  PROVE  SentSet' = SentSet
<1> DEFINE gone == [d \in Conn |-> IF d = c THEN outbox[d] ELSE {}]
<1>1. outbox' \in [Conn -> SUBSET Copy] /\ gone \in [Conn -> SUBSET Copy]
  BY DEF TypeOK, Deliver
<1>2. \A d \in Conn : gone[d] \subseteq outbox[d] /\ outbox'[d] = outbox[d] \ gone[d]
  BY DEF TypeOK, Deliver
<1>3. UNION {gone[d] : d \in Conn} = outbox[c]
  OBVIOUS
<1>4. arrived' \cup cut' = arrived \cup cut \cup UNION {gone[d] : d \in Conn}
  BY <1>3 DEF Deliver, history
<1> HIDE DEF gone
<1> QED
  BY <1>1, <1>2, <1>4, SentMoves DEF SentSet

LEMMA SentOutage ==
  ASSUME TypeOK, Outage
  PROVE  SentSet' = SentSet /\ outbox' \in [Conn -> SUBSET Copy] /\ cut' \subseteq Copy
<1>1. PICK R \in [Conn -> SUBSET Copy] :
        /\ \A c \in Conn : R[c] \in IF link[c] = "up" THEN SUBSET outbox[c]
                                    ELSE IF link[c] = "draining" THEN {outbox[c]} ELSE {{}}
        /\ outbox' = [c \in Conn |-> outbox[c] \ R[c]]
        /\ cut' = cut \cup UNION {R[c] : c \in Conn}
  BY Zenon DEF Outage
<1>2. \A c \in Conn : R[c] \subseteq outbox[c] /\ outbox'[c] = outbox[c] \ R[c]
  BY <1>1
<1>3. outbox' \in [Conn -> SUBSET Copy] /\ cut' \subseteq Copy
  BY <1>1 DEF TypeOK
<1>4. arrived' \cup cut' = arrived \cup cut \cup UNION {R[c] : c \in Conn}
  BY <1>1 DEF Outage
<1> QED
  BY <1>2, <1>3, <1>4, SentMoves DEF SentSet

-----------------------------------------------------------------------------
(* Types.                                                                  *)

LEMMA AtSlot ==
  ASSUME NEW t \in Slot, NEW n \in 0..Capacity PROVE At(Capacity, t, n) \in Slot
  BY CapacityAssumption DEF Slot, At

LEMMA SignalType ==
  ASSUME TypeOK, Signal PROVE signals' \in 0..Capacity
  BY CapacityAssumption DEF TypeOK, Signal

LEMMA DrainType ==
  ASSUME TypeOK, NEW c \in Conn, NEW links \in [Conn -> {"unmade", "up", "down", "draining", "closed"}],
         Drain(c, links)
  PROVE  /\ link' \in [Conn -> {"unmade", "up", "down", "draining", "closed"}]
         /\ outbox' \in [Conn -> SUBSET Copy] /\ cut' \subseteq Copy
  BY DEF TypeOK, Drain

LEMMA TypeCallers ==
  ASSUME AccountInv, RingInv', NEW e \in Event, Publish(e) \/ Caller(e) \/ Sender(e)
  PROVE  TypeOK'
<1>0. TypeOK
  BY DEF AccountInv
<1>1. CASE Publish(e)
  BY <1>0, <1>1 DEF TypeOK, Publish, Goto, state, drain, nats, history
<1>2. CASE CheckConn(e)
  BY <1>0, <1>2 DEF TypeOK, CheckConn, Goto, state, drain, nats, history
<1>3. CASE Await(e)
  BY <1>0, <1>3 DEF TypeOK, Await, Goto, state, drain, nats, history
<1>4. CASE Buffer(e)
  <2>1. /\ ring' \in [Slot -> Event \cup {NoEvent}] /\ ringHead' \in Slot /\ ringTail' \in Slot
        /\ ringCount' \in 0..Capacity
    BY AtSlot, Zenon DEF RingInv
  <2> QED
    BY <1>0, <1>4, <2>1 DEF TypeOK, Buffer, Goto, drain, nats
<1>5. CASE Finish(e)
  <2>1. signals' \in 0..Capacity
    BY <1>0, <1>5, SignalType DEF Finish, TypeOK
  <2> QED
    BY <1>0, <1>5, <2>1 DEF TypeOK, Finish, Goto, drain, nats, history
<1>6. CASE SenderPublish(e)
  <2>1. outbox' \in [Conn -> SUBSET Copy] /\ sender' \in [Event -> {"none", "publish", "flush", "nil", "err"}]
    BY <1>0, <1>6 DEF TypeOK, SenderPublish, Copy
  <2> QED
    BY <1>0, <1>6, <2>1 DEF TypeOK, SenderPublish, state, drain, history
<1>7. CASE SenderFlush(e)
  BY <1>0, <1>7 DEF TypeOK, SenderFlush, state, drain, nats, history
<1> QED
  BY <1>1, <1>2, <1>3, <1>4, <1>5, <1>6, <1>7 DEF Caller, Sender

LEMMA TypeLoop ==
  ASSUME AccountInv, RingInv', DrainLoop
  PROVE  TypeOK'
<1>0. TypeOK
  BY DEF AccountInv
<1>1. CASE SelectClose
  BY <1>0, <1>1 DEF TypeOK, SelectClose, state, callers, nats, history
<1>2. CASE SelectSignal
  BY <1>0, <1>2, CapacityAssumption DEF TypeOK, SelectSignal, callers, nats, history
<1>3. CASE SelectTick
  BY <1>0, <1>3 DEF TypeOK, SelectTick, state, callers, nats, history
<1>4. CASE Retry
  <2>1. ASSUME NEW c \in Unmade, conn' = c,
               LET links == [link EXCEPT ![c] = "up"]
               IN  IF conn # 0 THEN Drain(conn, links) ELSE link' = links /\ UNCHANGED <<outbox, cut>>
        PROVE  TypeOK'
    <3>1. c \in Conn
      BY DEF Unmade
    <3> DEFINE links == [link EXCEPT ![c] = "up"]
    <3>2. links \in [Conn -> {"unmade", "up", "down", "draining", "closed"}]
      BY <1>0, Zenon DEF TypeOK
    <3>3. /\ link' \in [Conn -> {"unmade", "up", "down", "draining", "closed"}]
          /\ outbox' \in [Conn -> SUBSET Copy] /\ cut' \subseteq Copy
      <4>1. CASE conn # 0
        <5>1. conn \in Conn
          BY <1>0, <4>1 DEF TypeOK, Conn
        <5>2. Drain(conn, links)
          BY <2>1, <4>1
        <5> HIDE DEF links
        <5> QED
          BY <1>0, <3>2, <5>1, <5>2, DrainType, Zenon
      <4>2. CASE conn = 0
        BY <1>0, <2>1, <3>2, <4>2 DEF TypeOK
      <4> QED
        BY <4>1, <4>2
    <3>4. conn' \in 0..MaxConns
      BY <2>1, <3>1, LimitsAssumption DEF Conn
    <3> QED
      BY <1>0, <1>4, <3>3, <3>4 DEF Retry, TypeOK, callers
  <2>2. CASE UNCHANGED <<conn, link, outbox, cut>>
    BY <1>0, <1>4, <2>2 DEF Retry, TypeOK, callers
  <2> QED
    BY <1>4, <2>1, <2>2, Zenon DEF Retry
<1>5. CASE FlushPop
  <2>1. /\ ring' \in [Slot -> Event \cup {NoEvent}] /\ ringHead' \in Slot /\ ringTail' \in Slot
        /\ ringCount' \in 0..Capacity
    BY AtSlot, Zenon DEF RingInv
  <2> QED
    BY <1>0, <1>5, <2>1 DEF TypeOK, FlushPop, FlushDone, callers, nats, history
<1>6. CASE FlushPublish
  <2>1. held \in Event /\ conn \in Conn
    BY <1>0, <1>6 DEF FlushPublish, AccountInv, HeldInv, TypeOK, Conn
  <2>2. outbox' \in [Conn -> SUBSET Copy] /\ refused' \subseteq Event
    BY <1>0, <1>6, <2>1 DEF FlushPublish, TypeOK, Copy
  <2> QED
    BY <1>0, <1>6, <2>2 DEF FlushPublish, FlushDone, TypeOK, state, callers
<1> QED
  BY <1>1, <1>2, <1>3, <1>4, <1>5, <1>6 DEF DrainLoop

LEMMA TypeOthers ==
  ASSUME AccountInv,
         \/ Close \/ CloseReturn \/ Outage \/ Recovery
         \/ \E c \in Conn : Deliver(c) \/ Drained(c) \/ Reconnect(c)
  PROVE  TypeOK'
<1>0. TypeOK
  BY DEF AccountInv
<1>1. CASE Close
  <2>1. InRing \subseteq Event
    BY DEF AccountInv, DistinctInv, InRing
  <2> QED
    BY <1>0, <1>1, <2>1 DEF Close, TypeOK, callers, drain, nats
<1>2. CASE CloseReturn
  <2>1. CASE conn # 0
    <3>1. conn \in Conn
      BY <1>0, <2>1 DEF TypeOK, Conn
    <3>2. /\ link' \in [Conn -> {"unmade", "up", "down", "draining", "closed"}]
          /\ outbox' \in [Conn -> SUBSET Copy] /\ cut' \subseteq Copy
      BY <1>0, <1>2, <2>1, <3>1, DrainType DEF CloseReturn, TypeOK
    <3> QED
      BY <1>0, <1>2, <3>2 DEF CloseReturn, TypeOK, callers, drain
  <2>2. CASE conn = 0
    BY <1>0, <1>2, <2>2 DEF CloseReturn, TypeOK, callers, drain
  <2> QED
    BY <2>1, <2>2
<1>3. CASE Outage
  <2>1. outbox' \in [Conn -> SUBSET Copy] /\ cut' \subseteq Copy
    BY <1>0, <1>3, SentOutage
  <2>2. link' \in [Conn -> {"unmade", "up", "down", "draining", "closed"}]
    BY <1>0, <1>3 DEF Outage, TypeOK
  <2>3. breaks' \in 0..MaxBreaks
    BY <1>0, <1>3, LimitsAssumption DEF Outage, TypeOK
  <2>4. /\ UNCHANGED <<state, callers, drain, hooked, arrived, turned, owed, late, refused>>
        /\ server' \in BOOLEAN
    BY <1>3, Zenon DEF Outage
  <2> QED
    BY <1>0, <2>1, <2>2, <2>3, <2>4 DEF TypeOK, state, callers, drain
<1>4. CASE Recovery
  BY <1>0, <1>4 DEF Recovery, TypeOK, state, callers, drain, history
<1>5. ASSUME NEW c \in Conn, Deliver(c) PROVE TypeOK'
  BY <1>0, <1>5 DEF Deliver, TypeOK, state, callers, drain, history
<1>6. ASSUME NEW c \in Conn, Drained(c) PROVE TypeOK'
  BY <1>0, <1>6 DEF Drained, TypeOK, state, callers, drain, history
<1>7. ASSUME NEW c \in Conn, Reconnect(c) PROVE TypeOK'
  <2>1. signals' \in 0..Capacity
    BY <1>0, <1>7, SignalType DEF Reconnect, TypeOK
  <2> QED
    BY <1>0, <1>7, <2>1 DEF Reconnect, TypeOK, callers, drain, history
<1> QED
  BY <1>1, <1>2, <1>3, <1>4, <1>5, <1>6, <1>7

-----------------------------------------------------------------------------
(* Accounting.                                                             *)

\* Steps that touch neither the ring nor the events turned away.
LEMMA RingFrame ==
  ASSUME RingInv, UNCHANGED ringvars, turned' = turned
  PROVE  RingInv' /\ UNCHANGED <<Buffered, turned>>
  BY DEF RingInv, ringvars, Buffered

\* Nothing that the account of e reads has changed.
Stays(e) ==
  /\ pc'[e] = pc[e] /\ sender'[e] = sender[e] /\ via'[e] = via[e]
  /\ e \in late' <=> e \in late
  /\ e \in turned' <=> e \in turned
  /\ e \in InRing' <=> e \in InRing
  /\ (e = held') <=> (e = held)
  /\ e \in refused' <=> e \in refused
  /\ <<e, "drain">> \in SentSet' <=> <<e, "drain">> \in SentSet
  /\ <<e, "direct">> \in SentSet' <=> <<e, "direct">> \in SentSet

LEMMA StaysKeeps ==
  ASSUME NEW e \in Event, PlaceInv(e), CallInv(e), Stays(e)
  PROVE  PlaceInv(e)' /\ CallInv(e)'
<1>1. (Doubt(e) <=> Doubt(e)') /\ (Placed(e) <=> Placed(e)')
  BY Zenon DEF Stays, Doubt, Placed
<1>2. PlaceInv(e)'
  BY <1>1 DEF Stays, PlaceInv, OnePlace
<1>3. CallInv(e)'
  BY <1>1 DEF Stays, CallInv
<1> QED
  BY <1>2, <1>3

\* The steps of NATS and of Close, and those of the loop outside flush.
Quiet ==
  /\ UNCHANGED <<pc, sender, via, late, turned, held, refused, drops, ringvars>>
  /\ SentSet' = SentSet
  /\ \/ UNCHANGED <<dpc, conn>>
     \/ dpc # "publish" /\ dpc' # "publish"

LEMMA QuietKeeps ==
  ASSUME AccountInv, TypeOK', Quiet
  PROVE  AccountInv'
<1>1. RingInv' /\ Buffered' = Buffered /\ ringCount' = ringCount
  BY RingFrame DEF AccountInv, Quiet, ringvars
<1>2. InRing' = InRing /\ DistinctInv'
  BY <1>1 DEF AccountInv, DistinctInv, InRing
<1>3. HeldInv'
  BY DEF AccountInv, HeldInv, Quiet
<1>4. DropsInv'
  BY DEF AccountInv, DropsInv, Quiet
<1>5. \A e \in Event : Stays(e)
  BY <1>2 DEF Quiet, Stays
<1>6. \A e \in Event : PlaceInv(e)' /\ CallInv(e)'
  BY <1>5, StaysKeeps, Zenon DEF AccountInv
<1> QED
  BY <1>1, <1>2, <1>3, <1>4, <1>6, Zenon DEF AccountInv

LEMMA QuietSteps ==
  ASSUME AccountInv,
         \/ SelectClose \/ SelectSignal \/ SelectTick \/ Retry
         \/ Close \/ CloseReturn \/ Outage \/ Recovery
         \/ \E c \in Conn : Deliver(c) \/ Drained(c) \/ Reconnect(c)
  PROVE  Quiet
<1>0. TypeOK
  BY DEF AccountInv
<1>1. CASE SelectClose \/ SelectSignal \/ SelectTick
  BY <1>1 DEF SelectClose, SelectSignal, SelectTick, Quiet, SentSet, state, callers, nats, history, ringvars
<1>2. CASE Retry
  <2>1. SentSet' = SentSet
    <3>1. ASSUME NEW links, conn # 0, Drain(conn, links) PROVE SentSet' = SentSet
      <4>1. conn \in Conn
        BY <1>0, <3>1 DEF TypeOK, Conn
      <4> QED
        BY <1>0, <1>2, <3>1, <4>1, SentDrain DEF Retry
    <3>2. CASE UNCHANGED <<outbox, cut>>
      BY <1>2, <3>2, Zenon DEF Retry, SentSet
    <3> QED
      BY <1>2, <3>1, <3>2, Zenon DEF Retry
  <2> QED
    BY <1>2, <2>1 DEF Retry, Quiet, callers, ringvars
<1>3. CASE Close \/ Recovery
  BY <1>3 DEF Close, Recovery, Quiet, SentSet, state, callers, drain, nats, history, ringvars
<1>4. CASE CloseReturn
  <2>1. SentSet' = SentSet
    <3>1. CASE conn # 0
      <4>1. conn \in Conn
        BY <1>0, <3>1 DEF TypeOK, Conn
      <4> QED
        BY <1>0, <1>4, <3>1, <4>1, SentDrain DEF CloseReturn
    <3>2. CASE conn = 0
      BY <1>4, <3>2, Zenon DEF CloseReturn, SentSet
    <3> QED
      BY <3>1, <3>2
  <2> QED
    BY <1>4, <2>1 DEF CloseReturn, Quiet, callers, drain, ringvars
<1>5. CASE Outage
  <2>1. UNCHANGED <<state, callers, drain, turned, late, refused>>
    BY <1>5, Zenon DEF Outage
  <2> QED
    BY <1>0, <1>5, <2>1, SentOutage DEF Quiet, state, callers, drain, ringvars
<1>6. ASSUME NEW c \in Conn, Deliver(c) PROVE Quiet
  BY <1>0, <1>6, SentDeliver, Zenon DEF Deliver, Quiet, state, callers, drain, history, ringvars
<1>7. ASSUME NEW c \in Conn, Drained(c) \/ Reconnect(c) PROVE Quiet
  <2>1. /\ UNCHANGED <<conn, ring, ringHead, ringTail, ringCount, drops>>
        /\ UNCHANGED <<callers, drain, outbox, arrived, history>>
    BY <1>7, Zenon DEF Drained, Reconnect, state
  <2>2. SentSet' = SentSet
    BY <2>1, Zenon DEF SentSet, history
  <2> QED
    BY <2>1, <2>2, Zenon DEF Quiet, callers, drain, history, ringvars
<1> QED
  BY <1>1, <1>2, <1>3, <1>4, <1>5, <1>6, <1>7

LEMMA OneMoves ==
  ASSUME AccountInv, TypeOK', RingInv', DistinctInv', HeldInv', DropsInv',
         NEW e \in Event, PlaceInv(e)', CallInv(e)', \A q \in Event \ {e} : Stays(q)
  PROVE  AccountInv'
<1>1. \A q \in Event : PlaceInv(q)' /\ CallInv(q)'
  BY StaysKeeps, Zenon DEF AccountInv
<1> QED
  BY <1>1, Zenon DEF AccountInv

\* A step of e's call or goroutine leaves ring, drain loop and other calls alone ...
CallStep(e) ==
  /\ UNCHANGED ringvars /\ UNCHANGED <<turned, held, refused, dpc, conn>>
  /\ \A q \in Event \ {e} :
       pc'[q] = pc[q] /\ sender'[q] = sender[q] /\ via'[q] = via[q] /\ (q \in late' <=> q \in late)
  /\ \A q \in Event : <<q, "drain">> \in SentSet' <=> <<q, "drain">> \in SentSet
  /\ \A q \in Event \ {e} : <<q, "direct">> \in SentSet' <=> <<q, "direct">> \in SentSet

\* ... and does not change whether e needs a place.
NeedsPlace(e) ==
  pc[e] \in {"signal", "drop"} \/ (pc[e] = "done" /\ e \notin Opaque /\ Doubt(e))

LEMMA CallMoves ==
  ASSUME AccountInv, TypeOK', NEW e \in Event, CallStep(e), CallInv(e)', DropsInv',
         NeedsPlace(e)' <=> NeedsPlace(e),
         pc'[e] \in {"signal", "drop"} => pc'[e] = pc[e]
  PROVE  AccountInv'
<1>1. RingInv' /\ Buffered' = Buffered /\ ringCount' = ringCount
  BY RingFrame, Zenon DEF AccountInv, CallStep, ringvars
<1>2. InRing' = InRing /\ DistinctInv'
  BY <1>1, Zenon DEF AccountInv, DistinctInv, InRing
<1>3. HeldInv'
  BY Zenon DEF AccountInv, HeldInv, CallStep
<1>4. \A q \in Event \ {e} : Stays(q)
  BY <1>2, Zenon DEF CallStep, Stays
<1>5. PlaceInv(e)'
  <2>1. PlaceInv(e)
    BY Zenon DEF AccountInv
  <2>2. Placed(e)' <=> Placed(e)
    BY <1>2, Zenon DEF CallStep, Placed
  <2>3. OnePlace(e)'
    BY <1>2, <2>1, Zenon DEF CallStep, PlaceInv, OnePlace
  <2>4. Placed(e)' <=> NeedsPlace(e)'
    BY <2>1, <2>2, Zenon DEF PlaceInv, NeedsPlace
  <2>5. /\ pc'[e] = "drop" => e \in turned'
        /\ pc'[e] = "signal" => e \notin turned'
    BY <2>1, Zenon DEF PlaceInv, CallStep
  <2> QED
    BY <2>3, <2>4, <2>5, Zenon DEF PlaceInv, NeedsPlace
<1> QED
  BY <1>1, <1>2, <1>3, <1>4, <1>5, OneMoves, Zenon

LEMMA SameDrops ==
  ASSUME AccountInv, UNCHANGED <<turned, drops>>, NEW e \in Event,
         \A q \in Event \ {e} : pc'[q] = pc[q],
         e \notin turned \/ (pc[e] = "done" <=> pc'[e] = "done")
  PROVE  DropsInv'
<1>1. turned \subseteq Event
  BY DEF AccountInv, TypeOK
<1>2. {q \in turned : pc'[q] = "done"} = {q \in turned : pc[q] = "done"}
  BY <1>1
<1> QED
  BY <1>2 DEF AccountInv, DropsInv

LEMMA PublishStep ==
  ASSUME AccountInv, TypeOK', NEW e \in Event, Publish(e)
  PROVE  AccountInv'
<1>0. TypeOK /\ PlaceInv(e) /\ CallInv(e)
  BY Zenon DEF AccountInv
<1>1. UNCHANGED <<state, sender, drain, nats, history>>
  BY Zenon DEF Publish
<1>2. SentSet' = SentSet
  BY <1>1 DEF SentSet, nats, history
<1>3. /\ pc[e] = "ready" /\ pc'[e] = IF e \in Opaque THEN "done" ELSE "check"
      /\ \A q \in Event \ {e} : pc'[q] = pc[q] /\ via'[q] = via[q]
  BY <1>0 DEF Publish, Goto, TypeOK
<1>4. CallStep(e)
  BY <1>1, <1>2, <1>3 DEF CallStep, state, drain, history, ringvars
<1>5. CallInv(e)'
  BY <1>0, <1>1, <1>2, <1>3 DEF CallInv, Doubt, history
<1>6. e \notin turned
  BY <1>0, <1>3 DEF PlaceInv, Placed
<1>7. DropsInv'
  BY <1>1, <1>3, <1>6, SameDrops, Zenon DEF state, history
<1>8. NeedsPlace(e)' <=> NeedsPlace(e)
  BY <1>3, Zenon DEF NeedsPlace
<1> QED
  BY <1>3, <1>4, <1>5, <1>7, <1>8, CallMoves

LEMMA CheckStep ==
  ASSUME AccountInv, TypeOK', NEW e \in Event, CheckConn(e)
  PROVE  AccountInv'
<1>0. TypeOK /\ PlaceInv(e) /\ CallInv(e)
  BY Zenon DEF AccountInv
<1>1. UNCHANGED <<state, via, drain, nats, history>>
  BY Zenon DEF CheckConn
<1>2. SentSet' = SentSet
  BY <1>1 DEF SentSet, nats, history
<1>3. /\ pc[e] = "check"
      /\ \/ pc'[e] = "wait" /\ sender'[e] = "publish" /\ via[e] # 0
         \/ pc'[e] = "buffer" /\ sender'[e] = sender[e]
      /\ \A q \in Event \ {e} : pc'[q] = pc[q] /\ sender'[q] = sender[q]
  BY <1>0 DEF CheckConn, Goto, IsConnected, TypeOK
<1>4. CallStep(e)
  BY <1>1, <1>2, <1>3, Zenon DEF CallStep, state, drain, history, ringvars
<1>5. CallInv(e)'
  BY <1>0, <1>1, <1>2, <1>3, Zenon DEF CallInv, Doubt, history
<1>6. DropsInv'
  BY <1>1, <1>3, SameDrops, Zenon DEF state, history
<1>7. NeedsPlace(e)' <=> NeedsPlace(e)
  BY <1>3, Zenon DEF NeedsPlace
<1> QED
  BY <1>3, <1>4, <1>5, <1>6, <1>7, CallMoves

LEMMA AwaitStep ==
  ASSUME AccountInv, TypeOK', NEW e \in Event, Await(e)
  PROVE  AccountInv'
<1>0. TypeOK /\ PlaceInv(e) /\ CallInv(e)
  BY Zenon DEF AccountInv
<1>1. UNCHANGED <<state, via, sender, drain, nats, turned, owed, refused, cut>>
  BY Zenon DEF Await
<1>2. SentSet' = SentSet
  BY <1>1, Zenon DEF SentSet, nats
<1>3. /\ pc[e] = "wait"
      /\ \/ pc'[e] = "done" /\ sender[e] = "nil" /\ late' = late
         \/ pc'[e] = "buffer" /\ sender[e] = "err" /\ late' = late
         \/ pc'[e] = "buffer" /\ late' = late \cup {e}
      /\ \A q \in Event \ {e} : pc'[q] = pc[q]
  BY <1>0 DEF Await, Goto, TypeOK
<1>4. CallStep(e)
  BY <1>1, <1>2, <1>3, Zenon DEF CallStep, state, drain, ringvars
<1>5. CallInv(e)'
  BY <1>0, <1>1, <1>2, <1>3, Zenon DEF CallInv, Doubt
<1>6. e \notin turned /\ e \notin late
  BY <1>0, <1>3 DEF PlaceInv, Placed, CallInv
<1>7. DropsInv'
  BY <1>1, <1>3, <1>6, SameDrops, Zenon DEF state
<1>8. NeedsPlace(e)' <=> NeedsPlace(e)
  BY <1>1, <1>3, <1>6 DEF NeedsPlace, Doubt
<1> QED
  BY <1>3, <1>4, <1>5, <1>7, <1>8, CallMoves

LEMMA SenderPublishStep ==
  ASSUME AccountInv, TypeOK', NEW e \in Event, SenderPublish(e)
  PROVE  AccountInv'
<1>0. TypeOK /\ PlaceInv(e) /\ CallInv(e)
  BY Zenon DEF AccountInv
<1>1. UNCHANGED <<state, pc, via, drain, arrived, history>>
  BY Zenon DEF SenderPublish
<1>2. /\ sender[e] = "publish"
      /\ \/ sender'[e] = "flush" /\ SentSet' = SentSet \cup {<<e, "direct">>}
         \/ sender'[e] = "err" /\ SentSet' = SentSet
      /\ \A q \in Event \ {e} : sender'[q] = sender[q]
  <2>1. CASE outbox' = [outbox EXCEPT ![via[e]] = @ \cup {<<e, "direct">>}]
    <3>1. via[e] \in Conn
      <4>1. sender[e] = "publish" /\ via[e] \in 0..MaxConns
        BY <1>0 DEF SenderPublish, TypeOK
      <4>2. via[e] # 0
        BY <1>0, <4>1, Zenon DEF CallInv
      <4> QED
        BY <4>1, <4>2 DEF Conn
    <3>2. outbox \in [Conn -> SUBSET Copy] /\ UNCHANGED <<arrived, cut>>
      BY <1>0, <1>1, Zenon DEF TypeOK, history
    <3>3. SentSet' = SentSet \cup {<<e, "direct">>}
      BY <2>1, <3>1, <3>2, SentTakes, Zenon
    <3>4. CASE UNCHANGED outbox
      BY <1>0, <1>1, <3>3, <3>4 DEF SenderPublish, TypeOK, SentSet, history
    <3>5. CASE sender' = [sender EXCEPT ![e] = "flush"]
      BY <1>0, <3>3, <3>5 DEF SenderPublish, TypeOK
    <3> QED
      BY <3>4, <3>5, Zenon DEF SenderPublish
  <2>2. CASE UNCHANGED outbox /\ sender' = [sender EXCEPT ![e] = "err"]
    BY <1>0, <1>1, <2>2 DEF SenderPublish, TypeOK, SentSet, history
  <2> QED
    BY <2>1, <2>2, Zenon DEF SenderPublish
<1>3. \A q \in Event : <<q, "drain">> \in SentSet' <=> <<q, "drain">> \in SentSet
  BY <1>2
<1>4. \A q \in Event \ {e} : <<q, "direct">> \in SentSet' <=> <<q, "direct">> \in SentSet
  BY <1>2
<1>5. CallStep(e)
  BY <1>1, <1>2, <1>3, <1>4, Zenon DEF CallStep, state, drain, history, ringvars
<1>6. e \in late' <=> e \in late
  BY <1>1, Zenon DEF history
<1>7. pc[e] \in {"buffer", "signal", "drop", "done"} => e \in late
  BY <1>0, <1>2, Zenon DEF CallInv, Doubt
<1>8. CallInv(e)'
  BY <1>0, <1>1, <1>2, <1>6, <1>7 DEF CallInv, Doubt
<1>9. DropsInv'
  BY <1>1, SameDrops, Zenon DEF state, history
<1>10. NeedsPlace(e)' <=> NeedsPlace(e)
  BY <1>1, <1>6, <1>7 DEF NeedsPlace, Doubt
<1> QED
  BY <1>1, <1>5, <1>8, <1>9, <1>10, CallMoves, Zenon

LEMMA SenderFlushStep ==
  ASSUME AccountInv, TypeOK', NEW e \in Event, SenderFlush(e)
  PROVE  AccountInv'
<1>0. TypeOK /\ PlaceInv(e) /\ CallInv(e)
  BY Zenon DEF AccountInv
<1>1. UNCHANGED <<state, pc, via, drain, nats, history>>
  BY Zenon DEF SenderFlush
<1>2. SentSet' = SentSet
  BY <1>1 DEF SentSet, nats, history
<1>3. /\ sender[e] = "flush" /\ sender'[e] \in {"nil", "err"}
      /\ \A q \in Event \ {e} : sender'[q] = sender[q]
  BY <1>0 DEF SenderFlush, TypeOK
<1>4. CallStep(e)
  BY <1>1, <1>2, <1>3, Zenon DEF CallStep, state, drain, history, ringvars
<1>5. e \in late' <=> e \in late
  BY <1>1, Zenon DEF history
<1>6. pc[e] \in {"buffer", "signal", "drop", "done"} => e \in late
  BY <1>0, <1>3 DEF CallInv, Doubt
<1>7. CallInv(e)'
  BY <1>0, <1>1, <1>2, <1>3, <1>5, <1>6 DEF CallInv, Doubt
<1>8. DropsInv'
  BY <1>1, SameDrops, Zenon DEF state, history
<1>9. NeedsPlace(e)' <=> NeedsPlace(e)
  BY <1>1, <1>5, <1>6 DEF NeedsPlace, Doubt
<1> QED
  BY <1>1, <1>4, <1>7, <1>8, <1>9, CallMoves, Zenon

LEMMA FinishStep ==
  ASSUME AccountInv, TypeOK', NEW e \in Event, Finish(e), DropsInv'
  PROVE  AccountInv'
<1>0. TypeOK /\ PlaceInv(e) /\ CallInv(e)
  BY Zenon DEF AccountInv
<1>1. /\ UNCHANGED <<conn, ring, ringHead, ringTail, ringCount, closing, closed, via, sender>>
      /\ UNCHANGED <<drain, nats, history>>
  BY Zenon DEF Finish
<1>2. SentSet' = SentSet
  BY <1>1 DEF SentSet, nats, history
<1>3. /\ \/ pc[e] = "signal" /\ drops' = drops
         \/ pc[e] = "drop" /\ drops' = drops + 1
      /\ pc'[e] = "done"
      /\ \A q \in Event \ {e} : pc'[q] = pc[q]
  BY <1>0 DEF Finish, Goto, TypeOK
<1>4. CallStep(e)
  BY <1>1, <1>2, <1>3, Zenon DEF CallStep, drain, history, ringvars
<1>5. e \notin Opaque /\ Doubt(e) /\ Doubt(e)'
  BY <1>0, <1>1, <1>3, Zenon DEF CallInv, Doubt, history
<1>6. CallInv(e)'
  BY <1>0, <1>1, <1>2, <1>3, <1>5, Zenon DEF CallInv
<1>7. NeedsPlace(e)' <=> NeedsPlace(e)
  BY <1>3, <1>5 DEF NeedsPlace
<1> QED
  BY <1>3, <1>4, <1>6, <1>7, CallMoves

\* The event takes the place that its call found for it.
LEMMA BufferMoves ==
  ASSUME AccountInv, TypeOK', RingInv', DistinctInv', NEW e \in Event, Buffer(e),
         \/ pc'[e] = "signal" /\ InRing' = InRing \cup {e} /\ turned' = turned
         \/ pc'[e] = "drop" /\ InRing' = InRing /\ turned' = turned \cup {e}
  PROVE  AccountInv'
<1>0. TypeOK /\ PlaceInv(e) /\ CallInv(e) /\ HeldInv
  BY Zenon DEF AccountInv
<1>1. /\ pc[e] = "buffer" /\ UNCHANGED <<conn, via, sender, drain, nats, late, refused, cut, drops>>
      /\ \A q \in Event \ {e} : pc'[q] = pc[q]
  BY <1>0 DEF Buffer, Goto, TypeOK
<1>2. SentSet' = SentSet
  BY <1>1, Zenon DEF SentSet, nats
<1>3. HeldInv' /\ held' = held
  BY <1>0, <1>1, Zenon DEF HeldInv, drain
<1>4. Doubt(e) /\ Doubt(e)'
  BY <1>0, <1>1 DEF CallInv, Doubt
<1>5. CallInv(e)'
  <2>1. e \notin Opaque
    BY <1>0, <1>1, Zenon DEF CallInv
  <2> QED
    BY <1>0, <1>1, <1>2, <1>4, <2>1, Zenon DEF CallInv
<1>6. ~Placed(e)
  BY <1>0, <1>1, Zenon DEF PlaceInv
<1>7. PlaceInv(e)'
  BY <1>1, <1>2, <1>3, <1>6 DEF PlaceInv, OnePlace, Placed
<1>8. \A q \in Event \ {e} : Stays(q)
  BY <1>1, <1>2, <1>3 DEF Stays
<1>9. DropsInv'
  <2>1. {q \in turned' : pc'[q] = "done"} = {q \in turned : pc[q] = "done"}
    BY <1>0, <1>1 DEF TypeOK
  <2> QED
    BY <1>1, <2>1 DEF AccountInv, DropsInv
<1> QED
  BY <1>3, <1>5, <1>7, <1>8, <1>9, OneMoves, Zenon

\* flush takes the oldest event from the ring ...
LEMMA PopMoves ==
  ASSUME AccountInv, TypeOK', RingInv', DistinctInv', FlushPop,
         held' \in Event, held' \in InRing, InRing' = InRing \ {held'},
         dpc' = "publish", IsConnected(conn)
  PROVE  AccountInv'
<1>e. PICK e \in Event : e = held'
  OBVIOUS
<1>0. TypeOK /\ PlaceInv(e) /\ CallInv(e) /\ HeldInv
  BY Zenon DEF AccountInv
<1>1. dpc = "flush" /\ UNCHANGED <<conn, drops, callers, nats, history>>
  BY Zenon DEF FlushPop
<1>2. SentSet' = SentSet
  BY <1>1 DEF SentSet, nats, history
<1>3. held = NoEvent
  BY <1>0, <1>1 DEF HeldInv
<1>4. HeldInv'
  BY <1>1, EventAssumption DEF HeldInv, IsConnected
<1>5. \A q \in Event : pc'[q] = pc[q] /\ sender'[q] = sender[q] /\ via'[q] = via[q]
  BY <1>1 DEF callers
<1>6. UNCHANGED <<turned, late, refused>>
  BY <1>1 DEF history
<1>7. CallInv(e)'
  <2>1. Doubt(e)' <=> Doubt(e)
    BY <1>5, <1>6, Zenon DEF Doubt
  <2> QED
    BY <1>0, <1>2, <1>5, <1>6, <2>1, Zenon DEF CallInv
<1>8. PlaceInv(e)'
  <2>1. Placed(e) /\ Placed(e)' /\ (Doubt(e)' <=> Doubt(e))
    BY <1>e, <1>5, <1>6 DEF Placed, Doubt
  <2>2. OnePlace(e)'
    BY <1>e, <1>0, <1>2, <1>6 DEF PlaceInv, OnePlace
  <2> QED
    BY <1>0, <1>5, <1>6, <2>1, <2>2, Zenon DEF PlaceInv
<1>9. \A q \in Event \ {e} : Stays(q)
  BY <1>e, <1>2, <1>3, <1>5, <1>6, EventAssumption DEF Stays
<1>10. DropsInv'
  BY <1>1 DEF AccountInv, DropsInv, callers, history
<1> QED
  BY <1>4, <1>7, <1>8, <1>9, <1>10, OneMoves, Zenon

\* ... and hands it to the connection, or meets an error.
LEMMA FlushPublishStep ==
  ASSUME AccountInv, TypeOK', FlushPublish
  PROVE  AccountInv'
<1>0. TypeOK /\ HeldInv /\ RingInv /\ DistinctInv
  BY Zenon DEF AccountInv
<1>1. /\ dpc = "publish" /\ held' = NoEvent /\ dpc' # "publish"
      /\ UNCHANGED <<state, callers, arrived, turned, late, cut>>
  BY DEF FlushPublish, FlushDone
<1>2. held \in Event /\ conn \in Conn
  BY <1>0, <1>1 DEF HeldInv, TypeOK, Conn
<1>e. PICK e \in Event : e = held
  BY <1>2
<1>3. PlaceInv(e) /\ CallInv(e)
  BY Zenon DEF AccountInv
<1>4. \/ SentSet' = SentSet \cup {<<e, "drain">>} /\ refused' = refused
      \/ SentSet' = SentSet /\ refused' = refused \cup {e}
  <2>1. CASE outbox' = [outbox EXCEPT ![conn] = @ \cup {<<held, "drain">>}] /\ refused' = refused
    <3>1. outbox \in [Conn -> SUBSET Copy] /\ UNCHANGED <<arrived, cut>>
      BY <1>0, <1>1, Zenon DEF TypeOK
    <3> QED
      BY <1>2, <1>e, <2>1, <3>1, SentTakes, Zenon
  <2>2. CASE refused' = refused \cup {held} /\ outbox' = outbox
    BY <1>1, <1>e, <2>2 DEF SentSet
  <2> QED
    BY <2>1, <2>2, Zenon DEF FlushPublish
<1>5. RingInv' /\ DistinctInv' /\ InRing' = InRing
  <2>1. UNCHANGED ringvars /\ turned' = turned
    BY <1>1 DEF state, ringvars
  <2>2. RingInv' /\ Buffered' = Buffered
    BY <1>0, <2>1, RingFrame, Zenon
  <2> QED
    BY <1>0, <2>1, <2>2 DEF DistinctInv, InRing, ringvars
<1>6. HeldInv'
  BY <1>1 DEF HeldInv
<1>7. \A q \in Event : pc'[q] = pc[q] /\ sender'[q] = sender[q] /\ via'[q] = via[q]
  BY <1>1 DEF callers
<1>8. \A q \in Event : <<q, "direct">> \in SentSet' <=> <<q, "direct">> \in SentSet
  BY <1>4
<1>9. \A q \in Event \ {e} : <<q, "drain">> \in SentSet' <=> <<q, "drain">> \in SentSet
  BY <1>4
<1>10. CallInv(e)'
  <2>1. Doubt(e)' <=> Doubt(e)
    BY <1>1, <1>7 DEF Doubt
  <2> QED
    BY <1>1, <1>3, <1>7, <1>8, <2>1, Zenon DEF CallInv
<1>11. PlaceInv(e)'
  <2>1. Placed(e) /\ Placed(e)' /\ (Doubt(e)' <=> Doubt(e))
    BY <1>1, <1>e, <1>4, <1>7, Zenon DEF Placed, Doubt
  <2>2. OnePlace(e)'
    BY <1>1, <1>e, <1>3, <1>4, <1>5, EventAssumption DEF PlaceInv, OnePlace
  <2> QED
    BY <1>1, <1>3, <1>7, <2>1, <2>2 DEF PlaceInv
<1>12. \A q \in Event \ {e} : Stays(q)
  <2>1. \A q \in Event \ {e} : q # held' /\ q # held
    BY <1>1, <1>e, EventAssumption, Zenon
  <2>2. \A q \in Event \ {e} : q \in refused' <=> q \in refused
    BY <1>4
  <2> QED
    BY <1>1, <1>5, <1>7, <1>8, <1>9, <2>1, <2>2, Zenon DEF Stays
<1>13. DropsInv'
  BY <1>1 DEF AccountInv, DropsInv, state, callers
<1> QED
  BY <1>5, <1>6, <1>10, <1>11, <1>12, <1>13, OneMoves, Zenon

-----------------------------------------------------------------------------
(* Close.                                                                  *)

\* What the calls of Publish and their goroutines leave to the others.
LEMMA CallsFrame ==
  ASSUME NEW e \in Event, Publish(e) \/ Caller(e) \/ Sender(e)
  PROVE  UNCHANGED <<dpc, last, held, closing, closed, conn, hooked, breaks, link, owed, refused>>
<1>1. CASE Publish(e) \/ CheckConn(e) \/ Await(e)
  BY <1>1, Zenon DEF Publish, CheckConn, Await, state, drain, nats, history
<1>2. CASE Buffer(e)
  BY <1>2, Zenon DEF Buffer, drain, nats
<1>3. CASE Finish(e)
  BY <1>3, Zenon DEF Finish, drain, nats, history
<1>4. CASE Sender(e)
  BY <1>4, Zenon DEF Sender, SenderPublish, SenderFlush, state, drain, nats, history
<1> QED
  BY <1>1, <1>2, <1>3, <1>4, Zenon DEF Caller

LEMMA CallsSend ==
  ASSUME TypeOK, NEW e \in Event, Publish(e) \/ Caller(e) \/ Sender(e)
  PROVE  SentSet \subseteq SentSet'
<1>1. CASE SenderPublish(e)
  <2>1. \A c \in Conn : outbox[c] \subseteq outbox'[c]
    BY <1>1 DEF SenderPublish, TypeOK
  <2>2. UNCHANGED <<arrived, cut>>
    BY <1>1, Zenon DEF SenderPublish, history
  <2> QED
    BY <2>1, <2>2, Zenon DEF SentSet
<1>2. CASE ~SenderPublish(e)
  <2>1. UNCHANGED <<outbox, arrived, cut>>
    BY <1>2, Zenon DEF Publish, Caller, CheckConn, Await, Buffer, Finish, Sender, SenderFlush, nats, history
  <2> QED
    BY <2>1, Zenon DEF SentSet
<1> QED
  BY <1>1, <1>2

LEMMA CloseCalls ==
  ASSUME AccountInv, CloseInv, NEW e \in Event, Publish(e) \/ Caller(e) \/ Sender(e),
         InRing \subseteq InRing'
  PROVE  CloseInv'
<1>1. UNCHANGED <<dpc, last, held, closing, closed, conn, hooked, breaks, link, owed, refused>>
  BY CallsFrame
<1>2. SentSet \subseteq SentSet'
  BY CallsSend, Zenon DEF AccountInv
<1>3. CloseOrder' /\ CloseLink'
  BY <1>1 DEF CloseInv, CloseOrder, CloseLink, Unbroken
<1>4. CloseOwed'
  BY <1>1, <1>2 DEF CloseInv, CloseOwed, Kept, Unbroken
<1> QED
  BY <1>3, <1>4 DEF CloseInv

\* Outside flush and Close, what is owed stays where it is.
LEMMA CloseQuiet ==
  ASSUME AccountInv, Quiet, CloseOwed, owed' = owed, Unbroken' => Unbroken,
         dpc' = "returned" => dpc = "returned"
  PROVE  CloseOwed'
<1>1. InRing' = InRing
  <2>1. Buffered' = Buffered /\ ringCount' = ringCount
    BY RingFrame DEF AccountInv, Quiet, ringvars
  <2> QED
    BY <2>1 DEF InRing
<1>2. UNCHANGED <<held, refused>> /\ SentSet' = SentSet
  BY Zenon DEF Quiet
<1> QED
  BY <1>1, <1>2, Zenon DEF CloseOwed, Kept

LEMMA CloseLoop ==
  ASSUME AccountInv, CloseInv, SelectClose \/ SelectSignal \/ SelectTick \/ Retry
  PROVE  CloseInv'
<1>0. TypeOK /\ CloseOrder /\ CloseLink /\ CloseOwed
  BY Zenon DEF AccountInv, CloseInv
<1>1. UNCHANGED <<closing, closed, hooked, breaks, owed>> /\ dpc # "returned" /\ dpc' # "returned"
  BY DEF SelectClose, SelectSignal, SelectTick, Retry, state, nats, history
<1>2. CloseOrder'
  BY <1>0, <1>1 DEF CloseOrder, SelectClose, SelectSignal, SelectTick, Retry
<1>3. CloseLink'
  <2>1. CASE Retry
    BY <1>0, <1>1, <2>1, Zenon DEF CloseLink, Unbroken, Retry
  <2>2. CASE SelectClose \/ SelectSignal \/ SelectTick
    <3>1. UNCHANGED <<conn, link>>
      BY <2>2 DEF SelectClose, SelectSignal, SelectTick, state, nats
    <3>2. ~closed
      BY <1>0, <1>1 DEF CloseOrder
    <3> QED
      BY <1>0, <1>1, <2>2, <3>1, <3>2
      DEF CloseLink, Unbroken, SelectClose, SelectSignal, SelectTick, IsConnected, Live
  <2> QED
    BY <2>1, <2>2, Zenon
<1>4. CloseOwed'
  BY <1>0, <1>1, QuietSteps, CloseQuiet DEF Unbroken
<1> QED
  BY <1>2, <1>3, <1>4 DEF CloseInv

LEMMA CloseNats ==
  ASSUME AccountInv, CloseInv,
         Outage \/ Recovery \/ \E c \in Conn : Deliver(c) \/ Drained(c) \/ Reconnect(c)
  PROVE  CloseInv'
<1>0. TypeOK /\ CloseOrder /\ CloseLink /\ CloseOwed
  BY Zenon DEF AccountInv, CloseInv
<1>1. UNCHANGED <<dpc, last, conn, closing, closed, hooked, owed>>
  BY Zenon DEF Outage, Recovery, Deliver, Drained, Reconnect, state, drain, nats, history
<1>2. CloseOrder'
  BY <1>0, <1>1 DEF CloseOrder
<1>3. (Unbroken' => Unbroken) /\ CloseLink'
  <2>1. CASE Outage
    <3>1. breaks' = breaks + 1 /\ breaks \in 0..MaxBreaks
      BY <1>0, <2>1, Zenon DEF Outage, TypeOK
    <3>2. breaks' # 0
      BY <3>1, LimitsAssumption
    <3> QED
      BY <3>2, Zenon DEF Unbroken, CloseLink
  <2>2. CASE Recovery \/ \E c \in Conn : Deliver(c)
    <3>1. UNCHANGED <<link, breaks>>
      BY <2>2, Zenon DEF Recovery, Deliver
    <3> QED
      BY <1>0, <1>1, <3>1 DEF Unbroken, CloseLink
  <2>3. ASSUME NEW c \in Conn, Drained(c) \/ Reconnect(c)
        PROVE  (Unbroken' => Unbroken) /\ CloseLink'
    <3>1. /\ breaks' = breaks /\ link[c] # "up"
          /\ \A d \in Conn : d # c => link'[d] = link[d]
      BY <1>0, <2>3, Zenon DEF Drained, Reconnect, TypeOK
    <3>2. Unbroken => conn \in Conn
      BY <1>0 DEF CloseLink, Unbroken, TypeOK, Conn
    <3> QED
      BY <1>0, <1>1, <3>1, <3>2, Zenon DEF Unbroken, CloseLink
  <2> QED
    BY <2>1, <2>2, <2>3, Zenon
<1>4. CloseOwed'
  BY <1>0, <1>1, <1>3, QuietSteps, CloseQuiet
<1> QED
  BY <1>2, <1>3, <1>4 DEF CloseInv

LEMMA CloseClose ==
  ASSUME AccountInv, CloseInv, Close \/ CloseReturn
  PROVE  CloseInv'
<1>0. TypeOK /\ CloseOrder /\ CloseLink /\ CloseOwed /\ RingInv
  BY Zenon DEF AccountInv, CloseInv
<1>1. UNCHANGED <<dpc, last, conn, hooked, breaks>>
  BY Zenon DEF Close, CloseReturn, drain, nats
<1>2. CloseOrder' /\ CloseLink'
  <2>1. CASE Close
    BY <1>0, <1>1, <2>1, Zenon DEF Close, CloseOrder, CloseLink, Unbroken, nats
  <2>2. CASE CloseReturn
    BY <1>0, <1>1, <2>2 DEF CloseReturn, CloseOrder, CloseLink, Unbroken
  <2> QED
    BY <2>1, <2>2, Zenon
<1>3. CloseOwed'
  <2>1. CASE Close
    <3>1. dpc # "returned" /\ owed' = InRing
      BY <1>0, <2>1 DEF Close, CloseOrder
    <3>2. InRing' = InRing
      BY <2>1 DEF Close, InRing, Buffered
    <3> QED
      BY <1>1, <3>1, <3>2, Zenon DEF CloseOwed, Kept
  <2>2. CASE CloseReturn
    <3>1. owed' = owed
      BY <2>2, Zenon DEF CloseReturn
    <3> QED
      BY <1>0, <1>1, <2>2, <3>1, QuietSteps, CloseQuiet DEF Unbroken
  <2> QED
    BY <2>1, <2>2
<1> QED
  BY <1>2, <1>3 DEF CloseInv

LEMMA FlushFrame ==
  ASSUME AccountInv, CloseInv, FlushPop \/ FlushPublish
  PROVE  /\ UNCHANGED <<last, closing, closed, conn, hooked, breaks, link, owed>>
         /\ CloseOrder' /\ CloseLink' /\ ~closed
<1>0. TypeOK /\ CloseOrder /\ CloseLink
  BY Zenon DEF AccountInv, CloseInv
<1>1. /\ UNCHANGED <<last, closing, closed, conn, hooked, breaks, link, owed>>
      /\ dpc \in {"flush", "publish"}
      /\ dpc' = "returned" => last
      /\ dpc' # "retry"
  BY DEF FlushPop, FlushPublish, FlushDone, state, nats, history
<1>2. ~closed
  BY <1>0, <1>1 DEF CloseOrder
<1>3. CloseOrder' /\ CloseLink'
  BY <1>0, <1>1, <1>2 DEF CloseOrder, CloseLink, Unbroken
<1> QED
  BY <1>1, <1>2, <1>3

\* flush ends with the ring empty, unless the connection broke.
LEMMA CloseEndsFlush ==
  ASSUME AccountInv, CloseInv, FlushPop, UNCHANGED <<ringTail, ringCount, held>>,
         ringCount = 0 \/ ~IsConnected(conn)
  PROVE  CloseInv'
<1>1. CloseOrder' /\ CloseLink' /\ ~closed /\ UNCHANGED <<hooked, breaks, owed>>
  BY FlushFrame
<1>2. dpc = "flush" /\ UNCHANGED <<ring, ringHead, nats, history>>
  BY Zenon DEF FlushPop
<1>3. SentSet' = SentSet /\ refused' = refused /\ InRing' = InRing
  BY <1>2 DEF SentSet, nats, history, InRing, Buffered
<1>4. \A e \in owed : Kept(e) /\ e \in Event
  BY Zenon DEF CloseInv, CloseOwed, AccountInv, TypeOK
<1>5. ASSUME Unbroken, refused = {}, NEW e \in owed PROVE <<e, "drain">> \in SentSet
  <2>1. IsConnected(conn)
    BY <1>1, <1>5 DEF CloseInv, CloseLink, Unbroken, IsConnected, Live
  <2>2. InRing = {}
    BY <2>1 DEF InRing
  <2>3. held = NoEvent
    BY <1>2 DEF AccountInv, HeldInv
  <2> QED
    BY <1>4, <1>5, <2>2, <2>3, EventAssumption DEF Kept
<1>6. Unbroken' = Unbroken
  BY <1>1 DEF Unbroken
<1>7. CloseOwed'
  BY <1>1, <1>3, <1>4, <1>5, <1>6 DEF CloseOwed, Kept
<1> QED
  BY <1>1, <1>7 DEF CloseInv

LEMMA ClosePop ==
  ASSUME AccountInv, CloseInv, FlushPop, InRing' = InRing \ {held'}, dpc' = "publish"
  PROVE  CloseInv'
<1>1. CloseOrder' /\ CloseLink' /\ owed' = owed
  BY FlushFrame
<1>2. dpc = "flush" /\ UNCHANGED <<nats, history>>
  BY Zenon DEF FlushPop
<1>3. SentSet' = SentSet /\ refused' = refused
  BY <1>2 DEF SentSet, nats, history
<1>4. \A e \in owed : Kept(e) /\ e # held
  BY <1>2, EventAssumption DEF CloseInv, CloseOwed, AccountInv, TypeOK, HeldInv
<1>5. CloseOwed'
  BY <1>1, <1>3, <1>4 DEF CloseOwed, Kept
<1> QED
  BY <1>1, <1>5 DEF CloseInv

LEMMA CloseFlushPublish ==
  ASSUME AccountInv, CloseInv, FlushPublish
  PROVE  CloseInv'
<1>1. CloseOrder' /\ CloseLink' /\ owed' = owed
  BY FlushFrame
<1>2. TypeOK /\ RingInv /\ HeldInv
  BY Zenon DEF AccountInv
<1>3. InRing' = InRing
  BY DEF FlushPublish, state, InRing, Buffered
<1>4. \/ SentSet' = SentSet \cup {<<held, "drain">>} /\ refused' = refused /\ dpc' = "flush"
      \/ SentSet' = SentSet /\ refused' = refused \cup {held}
  <2>1. CASE outbox' = [outbox EXCEPT ![conn] = @ \cup {<<held, "drain">>}] /\ refused' = refused
             /\ dpc' = "flush"
    <3>1. conn \in Conn
      BY <1>2 DEF FlushPublish, HeldInv, TypeOK, Conn
    <3>2. outbox \in [Conn -> SUBSET Copy] /\ UNCHANGED <<arrived, cut>>
      BY <1>2, Zenon DEF TypeOK, FlushPublish
    <3> QED
      BY <2>1, <3>1, <3>2, SentTakes, Zenon
  <2>2. CASE refused' = refused \cup {held} /\ outbox' = outbox
    BY <2>2 DEF FlushPublish, SentSet
  <2> QED
    BY <2>1, <2>2, Zenon DEF FlushPublish
<1>5. \A e \in owed : Kept(e)'
  <2>1. \A e \in owed : Kept(e)
    BY Zenon DEF CloseInv, CloseOwed
  <2> QED
    BY <1>3, <1>4, <2>1, Zenon DEF Kept
<1>6. CloseOwed'
  BY <1>1, <1>4, <1>5 DEF CloseOwed
<1> QED
  BY <1>1, <1>6 DEF CloseInv

-----------------------------------------------------------------------------
(* The ring.                                                               *)

LEMMA SeqEqual ==
  ASSUME NEW S, NEW s \in Seq(S), NEW t \in Seq(S), Len(s) = Len(t),
         \A i \in 1..Len(s) : s[i] = t[i]
  PROVE  s = t
  OBVIOUS

LEMMA AppendIs ==
  ASSUME NEW S, NEW s \in Seq(S), NEW x \in S
  PROVE  /\ Append(s, x) \in Seq(S) /\ Len(Append(s, x)) = Len(s) + 1
         /\ \A i \in 1..Len(s) : Append(s, x)[i] = s[i]
         /\ Append(s, x)[Len(s) + 1] = x
  OBVIOUS

LEMMA TailIs ==
  ASSUME NEW S, NEW s \in Seq(S), s # << >>
  PROVE  /\ Tail(s) \in Seq(S) /\ Len(Tail(s)) = Len(s) - 1
         /\ \A i \in 1..(Len(s) - 1) : Tail(s)[i] = s[i + 1]
  OBVIOUS

LEMMA ModBelow ==
  ASSUME NEW C \in Nat \ {0}, NEW a \in Nat, a < C
  PROVE  a % C = a
  BY Z3

LEMMA ModAbove ==
  ASSUME NEW C \in Nat \ {0}, NEW a \in Nat, C <= a, a < C + C
  PROVE  a % C = a - C
  BY Z3

LEMMA ModAt ==
  ASSUME NEW C \in Nat \ {0}, NEW t \in 0..(C - 1), NEW d \in 0..C
  PROVE  (t + d) % C = At(C, t, d)
<1>1. CASE t + d < C
  BY <1>1, ModBelow DEF At
<1>2. CASE ~(t + d < C)
  <2>1. t + d \in Nat /\ C <= t + d /\ t + d < C + C
    BY <1>2
  <2>2. (t + d) % C = (t + d) - C
    BY <2>1, ModAbove, Zenon
  <2> QED
    BY <1>2, <2>2 DEF At
<1> QED
  BY <1>1, <1>2

\* Where the i-th oldest event is.
LEMMA IndexAt ==
  ASSUME NEW t \in Slot, NEW i \in 1..Capacity
  PROVE  (t + i - 1) % Capacity = At(Capacity, t, i - 1)
<1>1. i - 1 \in 0..Capacity /\ t + i - 1 = t + (i - 1)
  BY CapacityAssumption DEF Slot
<1> QED
  BY <1>1, ModAt, CapacityAssumption DEF Slot

LEMMA BufferedAt ==
  ASSUME RingInv
  PROVE  Buffered = [i \in 1..ringCount |-> ring[At(Capacity, ringTail, i - 1)]]
<1>1. \A i \in 1..ringCount : (ringTail + i - 1) % Capacity = At(Capacity, ringTail, i - 1)
  BY IndexAt, CapacityAssumption DEF RingInv
<1> QED
  BY <1>1 DEF Buffered

LEMMA RingInit == Init => RingInv /\ Fifo!FifoInit
<1> SUFFICES ASSUME Init PROVE RingInv /\ Fifo!FifoInit
  OBVIOUS
<1>1. RingInv
  BY CapacityAssumption DEF Init, RingInv, Slot, At
<1>2. Buffered = << >>
  BY DEF Init, Buffered
<1> QED
  BY <1>1, <1>2 DEF Init, Fifo!FifoInit

LEMMA Entered ==
  ASSUME RingInv, NEW e \in Event, ringCount < Capacity,
         ring' = [ring EXCEPT ![ringHead] = e],
         ringHead' = (ringHead + 1) % Capacity,
         ringCount' = ringCount + 1, ringTail' = ringTail
  PROVE  RingInv' /\ Len(Buffered) < Capacity /\ Buffered' = Append(Buffered, e)
<1>1. ringHead \in Slot /\ (ringHead + 1) % Capacity = At(Capacity, ringHead, 1)
  <2>1. ringHead \in 0..(Capacity - 1) /\ 1 \in 0..Capacity
    BY CapacityAssumption DEF RingInv, Slot, At
  <2> QED
    BY <2>1, CapacityAssumption, ModAt DEF Slot
<1>2. RingInv'
  BY <1>1, CapacityAssumption DEF RingInv, Slot, At
<1>3. \A i \in 1..ringCount : At(Capacity, ringTail, i - 1) \in Slot
                              /\ At(Capacity, ringTail, i - 1) # ringHead
  BY CapacityAssumption DEF RingInv, Slot, At
<1>4. Buffered' = [i \in 1..(ringCount + 1) |-> ring'[At(Capacity, ringTail, i - 1)]]
  <2>1. Buffered' = [i \in 1..(ringCount + 1) |-> ring'[(ringTail + i - 1) % Capacity]]
    BY DEF Buffered
  <2>2. ringTail \in Slot /\ ringCount + 1 \in 0..Capacity
    BY CapacityAssumption DEF RingInv
  <2>3. \A i \in 1..(ringCount + 1) : (ringTail + i - 1) % Capacity = At(Capacity, ringTail, i - 1)
    BY <2>2, IndexAt, CapacityAssumption DEF RingInv
  <2> QED
    BY <2>1, <2>3
<1>5. Buffered = [i \in 1..ringCount |-> ring[At(Capacity, ringTail, i - 1)]]
  BY BufferedAt
<1>6. \A i \in 1..ringCount : Buffered'[i] = Buffered[i]
  BY <1>3, <1>4, <1>5 DEF RingInv
<1>7. Buffered'[ringCount + 1] = e
  BY <1>1, <1>4 DEF RingInv
<1>8. Len(Buffered) = ringCount /\ Buffered \in Seq(Event \cup {NoEvent})
  BY <1>3, <1>5 DEF RingInv
<1>9. Len(Buffered') = ringCount + 1 /\ Buffered' \in Seq(Event \cup {NoEvent})
  <2>1. \A i \in 1..(ringCount + 1) : Buffered'[i] \in Event \cup {NoEvent}
    BY <1>3, <1>5, <1>6, <1>7 DEF RingInv
  <2> QED
    BY <1>4, <2>1 DEF RingInv
<1>10. \A i \in 1..(ringCount + 1) : Buffered'[i] = Append(Buffered, e)[i]
  BY <1>6, <1>7, <1>8 DEF RingInv
<1>11. Buffered' = Append(Buffered, e)
  BY <1>8, <1>9, <1>10, SeqEqual, AppendIs DEF RingInv
<1> QED
  BY <1>2, <1>8, <1>11

LEMMA Left ==
  ASSUME RingInv, ringCount > 0,
         ringTail' = (ringTail + 1) % Capacity,
         ringCount' = ringCount - 1, UNCHANGED <<ring, ringHead>>
  PROVE  RingInv' /\ Buffered # << >> /\ Buffered' = Tail(Buffered)
<1>1. ringTail' = At(Capacity, ringTail, 1)
  BY CapacityAssumption, ModAt DEF RingInv, Slot
<1>2. RingInv'
  BY <1>1, CapacityAssumption DEF RingInv, Slot, At
<1>3. \A i \in 1..ringCount : At(Capacity, ringTail, i - 1) \in Slot
  BY CapacityAssumption DEF RingInv, Slot, At
<1>4. \A i \in 1..(ringCount - 1) : At(Capacity, ringTail', i - 1) = At(Capacity, ringTail, i)
  BY <1>1, CapacityAssumption DEF RingInv, Slot, At
<1>5. Buffered' = [i \in 1..(ringCount - 1) |-> ring[At(Capacity, ringTail', i - 1)]]
  <2>1. Buffered' = [i \in 1..(ringCount - 1) |-> ring[(ringTail' + i - 1) % Capacity]]
    BY DEF Buffered
  <2>2. \A i \in 1..(ringCount - 1) : (ringTail' + i - 1) % Capacity = At(Capacity, ringTail', i - 1)
    BY <1>2, IndexAt, CapacityAssumption DEF RingInv
  <2> QED
    BY <2>1, <2>2
<1>6. Buffered = [i \in 1..ringCount |-> ring[At(Capacity, ringTail, i - 1)]]
  BY BufferedAt
<1>7. Buffered \in Seq(Event \cup {NoEvent}) /\ Len(Buffered) = ringCount
  BY <1>3, <1>6 DEF RingInv
<1>8. \A i \in 1..(ringCount - 1) : Buffered'[i] = Buffered[i + 1]
  <2> SUFFICES ASSUME NEW i \in 1..(ringCount - 1) PROVE Buffered'[i] = Buffered[i + 1]
    OBVIOUS
  <2>1. i + 1 \in 1..ringCount /\ (i + 1) - 1 = i
    BY DEF RingInv
  <2>2. Buffered[i + 1] = ring[At(Capacity, ringTail, i)]
    BY <2>1, <1>6
  <2> QED
    BY <2>2, <1>4, <1>5
<1>9. Len(Buffered') = ringCount - 1 /\ Buffered' \in Seq(Event \cup {NoEvent})
  <2>1. \A i \in 1..(ringCount - 1) : Buffered'[i] \in Event \cup {NoEvent}
    BY <1>7, <1>8 DEF RingInv
  <2> QED
    BY <1>5, <2>1 DEF RingInv
<1>10. Buffered # << >>
  BY <1>7
<1>11. /\ Tail(Buffered) \in Seq(Event \cup {NoEvent})
       /\ Len(Tail(Buffered)) = ringCount - 1
       /\ \A i \in 1..(ringCount - 1) : Tail(Buffered)[i] = Buffered[i + 1]
  BY <1>7, <1>10, TailIs, Zenon DEF RingInv
<1>12. Buffered' = Tail(Buffered)
  BY <1>8, <1>9, <1>11, SeqEqual, Zenon
<1> QED
  BY <1>2, <1>10, <1>12

LEMMA RingStep ==
  ASSUME RingInv, [Next]_vars
  PROVE  RingInv' /\ [Fifo!FifoNext]_<<Buffered, turned>>
<1>1. ASSUME NEW e \in Event, Buffer(e)
      PROVE  RingInv' /\ Fifo!FifoNext
  <2>1. CASE ringCount < Capacity
    <3>1. /\ ring' = [ring EXCEPT ![ringHead] = e]
          /\ ringHead' = (ringHead + 1) % Capacity
          /\ ringCount' = ringCount + 1 /\ ringTail' = ringTail /\ turned' = turned
      BY <1>1, <2>1, CapacityAssumption DEF Buffer, RingInv
    <3>2. RingInv' /\ Len(Buffered) < Capacity /\ Buffered' = Append(Buffered, e)
      BY <2>1, <3>1, Entered, Zenon
    <3> QED
      BY <3>1, <3>2 DEF Fifo!FifoNext, Fifo!Enter
  <2>2. CASE ringCount >= Capacity
    <3>1. UNCHANGED ringvars /\ turned' = turned \cup {e}
      BY <1>1, <2>2, CapacityAssumption DEF Buffer, RingInv, ringvars
    <3>2. RingInv' /\ Buffered' = Buffered
      BY <3>1 DEF RingInv, ringvars, Buffered
    <3>3. Len(Buffered) = Capacity
      BY <2>2, CapacityAssumption DEF RingInv, Buffered
    <3> QED
      BY <3>1, <3>2, <3>3, Zenon DEF Fifo!FifoNext, Fifo!TurnAway
  <2> QED
    BY <2>1, <2>2, CapacityAssumption DEF RingInv
<1>2. CASE FlushPop
  <2>1. CASE UNCHANGED <<ringTail, ringCount>>
    BY <1>2, <2>1, RingFrame, Zenon DEF FlushPop, ringvars, history
  <2>2. CASE ringCount > 0 /\ ringTail' = (ringTail + 1) % Capacity /\ ringCount' = ringCount - 1
    BY <1>2, <2>2, Left DEF FlushPop, history, Fifo!FifoNext, Fifo!Leave
  <2> QED
    BY <1>2, <2>1, <2>2, Zenon DEF FlushPop
<1>3. ASSUME NEW e \in Event, Publish(e) \/ CheckConn(e) \/ Await(e) \/ Finish(e) \/ Sender(e)
      PROVE  UNCHANGED ringvars /\ turned' = turned
  BY <1>3, Zenon DEF Publish, CheckConn, Await, Finish, Sender, SenderPublish, SenderFlush, state,
              history, ringvars
<1>4. ASSUME SelectClose \/ SelectSignal \/ SelectTick \/ Retry \/ FlushPublish
      PROVE  UNCHANGED ringvars /\ turned' = turned
  BY <1>4, Zenon DEF SelectClose, SelectSignal, SelectTick, Retry, FlushPublish, state, history, ringvars
<1>5. ASSUME Close \/ CloseReturn \/ Outage \/ Recovery
      PROVE  UNCHANGED ringvars /\ turned' = turned
  BY <1>5, Zenon DEF Close, CloseReturn, Outage, Recovery, state, history, ringvars
<1>6. ASSUME NEW c \in Conn, Deliver(c) \/ Drained(c) \/ Reconnect(c)
      PROVE  UNCHANGED ringvars /\ turned' = turned
  BY <1>6, Zenon DEF Deliver, Drained, Reconnect, state, history, ringvars
<1>7. ASSUME UNCHANGED vars
      PROVE  UNCHANGED ringvars /\ turned' = turned
  BY <1>7 DEF vars, state, history, ringvars
<1> QED
  BY <1>1, <1>2, <1>3, <1>4, <1>5, <1>6, <1>7, RingFrame DEF Next, Caller, DrainLoop

\* nats_publisher.go: an array, two indices and a count.  Whatever callers, the
\* drain loop and NATS do, the buffer is a queue of at most Capacity events that
\* loses, doubles and reorders none of those it holds.
THEOREM RingImplementsFifo == Spec => ImplementsFifo
<1>1. Init => RingInv /\ Fifo!FifoInit
  BY RingInit
<1>2. RingInv /\ [Next]_vars => RingInv' /\ [Fifo!FifoNext]_(Fifo!fvars)
  BY RingStep DEF Fifo!fvars
<1> QED
  BY <1>1, <1>2, PTL DEF Spec, ImplementsFifo, Fifo!FifoSpec

-----------------------------------------------------------------------------
(* The ring as a set.                                                      *)

LEMMA BufferedSeq ==
  ASSUME RingInv
  PROVE  Buffered \in Seq(Event \cup {NoEvent}) /\ Len(Buffered) = ringCount
<1>1. \A i \in 1..ringCount : At(Capacity, ringTail, i - 1) \in Slot
  BY CapacityAssumption DEF RingInv, Slot, At
<1>2. Buffered = [i \in 1..ringCount |-> ring[At(Capacity, ringTail, i - 1)]]
  BY BufferedAt
<1> QED
  BY <1>1, <1>2 DEF RingInv

LEMMA EnteredSet ==
  ASSUME RingInv, DistinctInv, NEW e \in Event, e \notin InRing,
         Buffered' = Append(Buffered, e), ringCount' = ringCount + 1
  PROVE  DistinctInv' /\ InRing' = InRing \cup {e}
<1>1. ringCount \in Nat /\ Buffered \in Seq(Event \cup {NoEvent}) /\ Len(Buffered) = ringCount
  BY BufferedSeq, CapacityAssumption DEF RingInv
<1>2. /\ \A i \in 1..ringCount : Buffered'[i] = Buffered[i]
      /\ Buffered'[ringCount + 1] = e
  BY <1>1
<1>3. \A i \in 1..ringCount' : i \in 1..ringCount \/ i = ringCount + 1
  BY <1>1
<1>4. 1..ringCount \subseteq 1..ringCount' /\ ringCount + 1 \in 1..ringCount'
  BY <1>1
<1>5. \A i \in 1..ringCount : Buffered[i] # e
  BY Zenon DEF InRing
<1>6. DistinctInv'
  <2>1. \A i \in 1..ringCount' : Buffered'[i] \in Event
    BY <1>2, <1>3, Zenon DEF DistinctInv
  <2>2. ASSUME NEW i \in 1..ringCount', NEW j \in 1..ringCount', Buffered'[i] = Buffered'[j]
        PROVE  i = j
    <3>1. CASE i \in 1..ringCount /\ j \in 1..ringCount
      BY <1>2, <2>2, <3>1, Zenon DEF DistinctInv
    <3>2. CASE i = ringCount + 1
      BY <1>2, <1>3, <1>5, <2>2, <3>2, Zenon
    <3>3. CASE j = ringCount + 1
      BY <1>2, <1>3, <1>5, <2>2, <3>3, Zenon
    <3> QED
      BY <1>3, <3>1, <3>2, <3>3, Zenon
  <2> QED
    BY <2>1, <2>2, Zenon DEF DistinctInv
<1>7. InRing' = InRing \cup {e}
  BY <1>2, <1>3, <1>4, Zenon DEF InRing
<1> QED
  BY <1>6, <1>7, Zenon

LEMMA LeftSet ==
  ASSUME RingInv, DistinctInv, ringCount > 0,
         Buffered' = Tail(Buffered), ringCount' = ringCount - 1
  PROVE  /\ DistinctInv' /\ ring[ringTail] \in InRing /\ ring[ringTail] \in Event
         /\ InRing' = InRing \ {ring[ringTail]}
<1>1. ringCount \in Nat /\ Buffered \in Seq(Event \cup {NoEvent}) /\ Len(Buffered) = ringCount
  BY BufferedSeq, CapacityAssumption DEF RingInv
<1>2. Buffered[1] = ring[ringTail] /\ 1 \in 1..ringCount
  <2>1. 1 \in 1..ringCount
    BY <1>1
  <2>2. At(Capacity, ringTail, 1 - 1) = ringTail
    BY CapacityAssumption DEF RingInv, Slot, At
  <2>3. Buffered[1] = ring[At(Capacity, ringTail, 1 - 1)]
    BY <2>1, BufferedAt, Zenon
  <2> QED
    BY <2>1, <2>2, <2>3, Zenon
<1>3. \A i \in 1..ringCount' : i + 1 \in 1..ringCount /\ Buffered'[i] = Buffered[i + 1]
  BY <1>1
<1>4. \A i \in 1..ringCount : i = 1 \/ \E j \in 1..ringCount' : i = j + 1
  <2> SUFFICES ASSUME NEW i \in 1..ringCount, i # 1 PROVE \E j \in 1..ringCount' : i = j + 1
    OBVIOUS
  <2>1. i - 1 \in 1..ringCount' /\ i = (i - 1) + 1
    BY <1>1
  <2> QED
    BY <2>1
<1>5. DistinctInv'
  <2>1. \A i \in 1..ringCount' : Buffered'[i] \in Event
    BY <1>3, Zenon DEF DistinctInv
  <2>2. ASSUME NEW i \in 1..ringCount', NEW j \in 1..ringCount', Buffered'[i] = Buffered'[j]
        PROVE  i = j
    <3>1. i + 1 = j + 1
      BY <1>3, <2>2, Zenon DEF DistinctInv
    <3> QED
      BY <1>1, <3>1
  <2>3. \A i, j \in 1..ringCount' : Buffered'[i] = Buffered'[j] => i = j
    BY <2>2, Zenon
  <2> QED
    BY <2>1, <2>3, Zenon DEF DistinctInv
<1>6. \A i \in 1..ringCount' : Buffered[i + 1] # Buffered[1]
  <2>1. \A i \in 1..ringCount' : i + 1 # 1
    BY <1>1
  <2> QED
    BY <1>2, <1>3, <2>1 DEF DistinctInv
<1>7. InRing' = {Buffered[i + 1] : i \in 1..ringCount'}
  BY <1>3, Zenon DEF InRing
<1>8. InRing' = InRing \ {Buffered[1]}
  <2>1. \A x \in InRing' : x \in InRing /\ x # Buffered[1]
    BY <1>3, <1>6, <1>7, Zenon DEF InRing
  <2>2. ASSUME NEW x \in InRing, x # Buffered[1] PROVE x \in InRing'
    <3>1. PICK i \in 1..ringCount : x = Buffered[i]
      BY <2>2 DEF InRing
    <3>2. PICK j \in 1..ringCount' : i = j + 1
      BY <1>4, <2>2, <3>1, Zenon
    <3> QED
      BY <1>7, <3>1, <3>2, Zenon
  <2> QED
    BY <2>1, <2>2, Zenon
<1>9. Buffered[1] \in InRing /\ Buffered[1] \in Event
  BY <1>2 DEF InRing, DistinctInv
<1> QED
  BY <1>2, <1>5, <1>8, <1>9, Zenon

-----------------------------------------------------------------------------
(* The steps together.                                                     *)

LEMMA AccountStart ==
  ASSUME Init, DropsInv
  PROVE  AccountInv /\ CloseInv
<1>1. RingInv
  BY RingInit, Zenon
<1>2. TypeOK
  <2>1. conn \in 0..MaxConns /\ hooked = conn /\ MaxBreaks \in Nat /\ (conn # 0 => conn \in Conn)
    BY LimitsAssumption DEF Init, Conn
  <2>2. /\ link \in [Conn -> {"unmade", "up", "down", "draining", "closed"}]
        /\ outbox \in [Conn -> SUBSET Copy]
    <3>1. /\ link = [c \in Conn |-> IF c = conn THEN "up" ELSE "unmade"]
          /\ outbox = [c \in Conn |-> {}]
      BY Zenon DEF Init
    <3> QED
      BY <3>1
  <2>3. 0 \in Slot
    BY CapacityAssumption DEF Slot
  <2>4. /\ ring \in [Slot -> Event \cup {NoEvent}] /\ via \in [Event -> 0..MaxConns]
        /\ pc \in [Event -> {"ready", "check", "wait", "buffer", "signal", "drop", "done"}]
        /\ sender \in [Event -> {"none", "publish", "flush", "nil", "err"}]
    <3>1. /\ ring = [i \in Slot |-> NoEvent] /\ via = [e \in Event |-> 0]
          /\ pc = [e \in Event |-> "ready"] /\ sender = [e \in Event |-> "none"]
      BY Zenon DEF Init
    <3>2. 0 \in 0..MaxConns
      BY LimitsAssumption
    <3> QED
      BY <3>1, <3>2, Zenon
  <2>5. server \in BOOLEAN /\ closing \in BOOLEAN /\ closed \in BOOLEAN /\ last \in BOOLEAN
    BY Zenon DEF Init
  <2>6. /\ ringHead = 0 /\ ringTail = 0 /\ ringCount = 0 /\ drops = 0 /\ signals = 0 /\ breaks = 0
        /\ dpc = "select" /\ held = NoEvent
        /\ arrived = {} /\ turned = {} /\ owed = {} /\ late = {} /\ refused = {} /\ cut = {}
    BY Zenon DEF Init
  <2>7. 0 \in 0..Capacity /\ 0 \in 0..MaxBreaks /\ 0 \in Nat
    BY CapacityAssumption, LimitsAssumption
  <2> QED
    BY <2>1, <2>2, <2>3, <2>4, <2>5, <2>6, <2>7, Zenon DEF TypeOK
<1>3. SentSet = {} /\ InRing = {}
  BY DEF Init, SentSet, InRing
<1>4. DistinctInv /\ HeldInv
  BY DEF Init, DistinctInv, HeldInv
<1>6. ASSUME NEW e \in Event PROVE PlaceInv(e) /\ CallInv(e)
  <2>1. pc[e] = "ready" /\ sender[e] = "none" /\ via[e] = 0 /\ e # held
    BY EventAssumption, Zenon DEF Init
  <2>2. turned = {} /\ refused = {} /\ late = {}
    BY DEF Init
  <2>3. ~Placed(e) /\ OnePlace(e)
    BY <1>3, <2>1, <2>2 DEF Placed, OnePlace
  <2> QED
    BY <1>3, <2>1, <2>2, <2>3, Zenon DEF PlaceInv, CallInv
<1>7. CloseInv
  <2>1. CloseOrder /\ CloseOwed
    BY DEF Init, CloseOrder, CloseOwed
  <2>2. CloseLink
    <3>1. hooked = conn /\ dpc = "select" /\ link = [c \in Conn |-> IF c = conn THEN "up" ELSE "unmade"]
      BY Zenon DEF Init
    <3>2. conn # 0 => conn \in Conn
      BY LimitsAssumption DEF Init, Conn
    <3> QED
      BY <3>1, <3>2 DEF CloseLink, Unbroken
  <2> QED
    BY <2>1, <2>2 DEF CloseInv
<1> QED
  BY <1>1, <1>2, <1>4, <1>6, <1>7, Zenon DEF AccountInv

LEMMA BufferStep ==
  ASSUME AccountInv, CloseInv, TypeOK', RingInv', NEW e \in Event, Buffer(e)
  PROVE  AccountInv' /\ CloseInv'
<1>0. TypeOK /\ RingInv /\ DistinctInv /\ PlaceInv(e)
  BY Zenon DEF AccountInv
<1>1. e \notin InRing
  BY <1>0, Zenon DEF Buffer, PlaceInv, Placed
<1>2. CASE ringCount < Capacity
  <2>1. /\ ring' = [ring EXCEPT ![ringHead] = e]
        /\ ringHead' = (ringHead + 1) % Capacity
        /\ ringCount' = ringCount + 1 /\ ringTail' = ringTail /\ turned' = turned
        /\ pc'[e] = "signal"
    <3>1. ~(ringCount >= Capacity)
      BY <1>0, <1>2, CapacityAssumption DEF RingInv
    <3>2. /\ pc' = [pc EXCEPT ![e] = "signal"]
          /\ pc \in [Event -> {"ready", "check", "wait", "buffer", "signal", "drop", "done"}]
      BY <1>0, <3>1, Zenon DEF Buffer, Goto, TypeOK
    <3>3. pc'[e] = "signal"
      BY <3>2
    <3> QED
      BY <3>1, <3>3, Zenon DEF Buffer
  <2>2. Buffered' = Append(Buffered, e)
    BY <1>0, <1>2, <2>1, Entered, Zenon
  <2>3. DistinctInv' /\ InRing' = InRing \cup {e}
    BY <1>0, <1>1, <2>1, <2>2, EnteredSet, Zenon
  <2>4. AccountInv'
    BY <2>1, <2>3, BufferMoves, Zenon
  <2> QED
    BY <2>3, <2>4, CloseCalls DEF Caller
<1>3. CASE ringCount >= Capacity
  <2>1. UNCHANGED ringvars /\ turned' = turned \cup {e} /\ pc'[e] = "drop"
    <3>1. ~(ringCount < Capacity)
      BY <1>0, <1>3, CapacityAssumption DEF RingInv
    <3>2. /\ pc' = [pc EXCEPT ![e] = "drop"]
          /\ pc \in [Event -> {"ready", "check", "wait", "buffer", "signal", "drop", "done"}]
      BY <1>0, <3>1, Zenon DEF Buffer, Goto, TypeOK
    <3>3. pc'[e] = "drop"
      BY <3>2
    <3> QED
      BY <3>1, <3>3, Zenon DEF Buffer, ringvars
  <2>2. DistinctInv' /\ InRing' = InRing
    BY <1>0, <2>1, Zenon DEF DistinctInv, InRing, Buffered, ringvars
  <2>3. AccountInv'
    BY <2>1, <2>2, BufferMoves, Zenon
  <2> QED
    BY <2>2, <2>3, CloseCalls DEF Caller
<1> QED
  BY <1>0, <1>2, <1>3, CapacityAssumption DEF RingInv

LEMMA FlushPopStep ==
  ASSUME AccountInv, CloseInv, TypeOK', RingInv', FlushPop
  PROVE  AccountInv' /\ CloseInv'
<1>0. TypeOK /\ RingInv /\ DistinctInv /\ HeldInv
  BY Zenon DEF AccountInv
<1>1. CASE /\ ringCount = 0 \/ ~IsConnected(conn)
           /\ FlushDone /\ UNCHANGED <<ringTail, ringCount, held>>
  <2>1. Quiet
    BY <1>1, Zenon DEF FlushPop, FlushDone, Quiet, SentSet, callers, nats, history, ringvars
  <2> QED
    BY <1>1, <2>1, QuietKeeps, CloseEndsFlush
<1>2. CASE /\ ringCount > 0 /\ IsConnected(conn) /\ held' = ring[ringTail]
           /\ ringTail' = (ringTail + 1) % Capacity
           /\ ringCount' = ringCount - 1 /\ dpc' = "publish"
  <2>1. UNCHANGED <<ring, ringHead>>
    BY Zenon DEF FlushPop
  <2>2. Buffered' = Tail(Buffered)
    BY <1>0, <1>2, <2>1, Left, Zenon
  <2>3. DistinctInv' /\ held' \in InRing /\ held' \in Event /\ InRing' = InRing \ {held'}
    BY <1>0, <1>2, <2>2, LeftSet
  <2> QED
    BY <1>2, <2>3, PopMoves, ClosePop
<1> QED
  BY <1>1, <1>2, Zenon DEF FlushPop

LEMMA AccountMoves ==
  ASSUME AccountInv, CloseInv, [Next]_vars, \A e \in Event : Finish(e) => DropsInv'
  PROVE  AccountInv' /\ CloseInv'
<1>0. RingInv /\ RingInv'
  BY RingStep, Zenon DEF AccountInv
<1>1. ASSUME NEW e \in Event, Publish(e) \/ Caller(e) \/ Sender(e)
      PROVE  AccountInv' /\ CloseInv'
  <2>1. TypeOK'
    BY <1>0, <1>1, TypeCallers, Zenon
  <2>2. CASE Buffer(e)
    BY <1>0, <2>1, <2>2, BufferStep, Zenon
  <2>3. CASE ~Buffer(e)
    <3>1. AccountInv'
      BY <1>1, <2>1, <2>3, PublishStep, CheckStep, AwaitStep, FinishStep, SenderPublishStep,
         SenderFlushStep, Zenon DEF Caller, Sender
    <3>2. UNCHANGED ringvars /\ turned' = turned
      BY <1>1, <2>3, Zenon DEF Publish, Caller, CheckConn, Await, Finish, Sender, SenderPublish,
         SenderFlush, state, history, ringvars
    <3>3. InRing' = InRing
      BY <3>2 DEF InRing, Buffered, ringvars
    <3> QED
      BY <1>1, <3>1, <3>3, CloseCalls
  <2> QED
    BY <2>2, <2>3
<1>2. CASE DrainLoop
  <2>1. TypeOK'
    BY <1>0, <1>2, TypeLoop, Zenon
  <2>2. CASE FlushPop
    BY <1>0, <2>1, <2>2, FlushPopStep, Zenon
  <2>3. CASE FlushPublish
    BY <2>1, <2>3, FlushPublishStep, CloseFlushPublish, Zenon
  <2>4. CASE SelectClose \/ SelectSignal \/ SelectTick \/ Retry
    BY <2>1, <2>4, QuietSteps, QuietKeeps, CloseLoop, Zenon
  <2> QED
    BY <1>2, <2>2, <2>3, <2>4, Zenon DEF DrainLoop
<1>3. CASE \/ Close \/ CloseReturn \/ Outage \/ Recovery
           \/ \E c \in Conn : Deliver(c) \/ Drained(c) \/ Reconnect(c)
  <2>1. TypeOK'
    BY <1>3, TypeOthers, Zenon
  <2>2. AccountInv'
    BY <1>3, <2>1, QuietSteps, QuietKeeps, Zenon
  <2> QED
    BY <1>3, <2>2, CloseNats, CloseClose, Zenon
<1>4. CASE UNCHANGED vars
  <2>1. TypeOK'
    BY <1>4, Zenon DEF AccountInv, TypeOK, vars, state, callers, drain, nats, history
  <2>2. Quiet
    BY <1>4, Zenon DEF Quiet, SentSet, vars, state, callers, drain, nats, history, ringvars
  <2>3. CloseOrder' /\ CloseLink' /\ owed' = owed /\ dpc' = dpc /\ Unbroken' = Unbroken
    BY <1>4, Zenon DEF CloseInv, CloseOrder, CloseLink, Unbroken, vars, state, drain, nats, history
  <2> QED
    BY <2>1, <2>2, <2>3, QuietKeeps, CloseQuiet DEF CloseInv
<1> QED
  BY <1>1, <1>2, <1>3, <1>4, Zenon DEF Next

-----------------------------------------------------------------------------
(* Counting.                                                               *)

INSTANCE FiniteSetTheorems

\* A drop is counted when its call returns.
LEMMA CountsDrop ==
  ASSUME AccountInv, turned' = turned, NEW e \in turned, pc[e] # "done", pc'[e] = "done",
         \A q \in Event \ {e} : pc'[q] = pc[q], drops' = drops + 1
  PROVE  DropsInv'
<1> DEFINE Was == {q \in turned : pc[q] = "done"}
           Is  == {q \in turned : pc'[q] = "done"}
<1>1. turned \subseteq Event
  BY DEF AccountInv, TypeOK
<1>2. Is = Was \cup {e}
  BY <1>1, Zenon
<1>3. IsFiniteSet(Was) /\ e \notin Was
  <2>1. Was \subseteq Event
    BY <1>1, Zenon
  <2> QED
    BY <2>1, EventAssumption, FS_Subset
<1>4. Cardinality(Is) = Cardinality(Was) + 1
  <2> HIDE DEF Is, Was
  <2> QED
    BY <1>2, <1>3, FS_AddElement
<1> QED
  BY <1>4, Zenon DEF AccountInv, DropsInv

LEMMA FinishCounts ==
  ASSUME AccountInv, NEW e \in Event, Finish(e)
  PROVE  DropsInv'
<1>1. TypeOK /\ PlaceInv(e)
  BY Zenon DEF AccountInv
<1>2. /\ \/ pc[e] = "signal" /\ drops' = drops
         \/ pc[e] = "drop" /\ drops' = drops + 1
      /\ pc'[e] = "done" /\ turned' = turned
      /\ \A q \in Event \ {e} : pc'[q] = pc[q]
  BY <1>1, Zenon DEF Finish, Goto, TypeOK, history
<1>3. CASE pc[e] = "signal"
  BY <1>1, <1>2, <1>3, SameDrops, Zenon DEF PlaceInv
<1>4. CASE pc[e] = "drop"
  BY <1>1, <1>2, <1>4, CountsDrop DEF PlaceInv
<1> QED
  BY <1>2, <1>3, <1>4

LEMMA AccountInvariant == Spec => [](AccountInv /\ CloseInv)
<1>1. Init => AccountInv /\ CloseInv
  <2> SUFFICES ASSUME Init PROVE AccountInv /\ CloseInv
    OBVIOUS
  <2>1. {e \in turned : pc[e] = "done"} = {} /\ drops = 0
    BY DEF Init
  <2>2. DropsInv
    BY <2>1, FS_EmptySet, Zenon DEF DropsInv
  <2> QED
    BY <2>2, AccountStart, Zenon
<1>2. AccountInv /\ CloseInv /\ [Next]_vars => (AccountInv /\ CloseInv)'
  BY AccountMoves, FinishCounts, Zenon
<1> QED
  BY <1>1, <1>2, PTL DEF Spec

-----------------------------------------------------------------------------
(* The theorems.                                                           *)

\* Publish, flush and the goroutines together: once Publish returned, the event
\* met exactly one of six fates, and drops counts those that the full ring
\* turned away.
THEOREM OneFate == Spec => []EveryEventAccounted
<1>1. ASSUME AccountInv PROVE EveryEventAccounted
  <2>1. TypeOK /\ DropsInv
    BY <1>1, Zenon DEF AccountInv
  <2>2. ASSUME NEW e \in Event \ Opaque, pc[e] = "done"
        PROVE  Cardinality({f \in 1..6 :
                 \/ f = 1 /\ Confirmed(e)
                 \/ f = 2 /\ e \in turned
                 \/ f = 3 /\ e \in InRing
                 \/ f = 4 /\ e = held
                 \/ f = 5 /\ Sent(e, "drain")
                 \/ f = 6 /\ e \in refused}) = 1
    <3> DEFINE Fate(f) == \/ f = 1 /\ Confirmed(e)
                          \/ f = 2 /\ e \in turned
                          \/ f = 3 /\ e \in InRing
                          \/ f = 4 /\ e = held
                          \/ f = 5 /\ Sent(e, "drain")
                          \/ f = 6 /\ e \in refused
    <3>1. PlaceInv(e) /\ CallInv(e)
      BY <1>1, Zenon DEF AccountInv
    <3>2. Sent(e, "drain") <=> <<e, "drain">> \in SentSet
      BY Zenon DEF Sent, SentSet
    <3>3. Confirmed(e) <=> ~Doubt(e)
      BY <2>2, <3>1, Zenon DEF Confirmed, Doubt, CallInv
    <3>4. Placed(e) <=> Doubt(e)
      BY <2>2, <3>1 DEF PlaceInv
    <3>5. PICK k \in 1..6 : Fate(k)
      BY <3>2, <3>3, <3>4 DEF Placed
    <3>6. \A f \in 1..6 : Fate(f) => f = k
      <4>1. OnePlace(e)
        BY <3>1, Zenon DEF PlaceInv
      <4> QED
        BY <3>2, <3>3, <3>4, <3>5, <4>1 DEF Placed, OnePlace
    <3>7. {f \in 1..6 : Fate(f)} = {k}
      BY <3>5, <3>6, Zenon
    <3> QED
      BY <3>7, FS_Singleton, Zenon
  <2> QED
    BY <2>1, <2>2, Zenon DEF EveryEventAccounted, DropsInv
<1> QED
  BY <1>1, AccountInvariant, PTL

\* Publish and its goroutine against flush: an event whose call was told of
\* success is not sent again, and a second copy follows a deadline or an error.
THEOREM NoIdleDuplicate == Spec => []DuplicateOnlyAfterDoubt
<1>1. ASSUME AccountInv PROVE DuplicateOnlyAfterDoubt
  <2> SUFFICES ASSUME NEW e \in Event
               PROVE  /\ Confirmed(e) => Sent(e, "direct") /\ ~Sent(e, "drain")
                      /\ Sent(e, "direct") /\ Sent(e, "drain") => e \in late \/ sender[e] = "err"
    BY Zenon DEF DuplicateOnlyAfterDoubt
  <2>1. PlaceInv(e) /\ CallInv(e) /\ sender[e] \in {"none", "publish", "flush", "nil", "err"}
    BY <1>1 DEF AccountInv, TypeOK
  <2>2. /\ Sent(e, "drain") <=> <<e, "drain">> \in SentSet
        /\ Sent(e, "direct") <=> <<e, "direct">> \in SentSet
    BY DEF Sent, SentSet
  <2>3. Sent(e, "drain") => Doubt(e)
    BY <2>1, <2>2 DEF PlaceInv, Placed, CallInv
  <2>4. Sent(e, "direct") => sender[e] # "none"
    BY <2>1, <2>2, Zenon DEF CallInv
  <2>5. Confirmed(e) => ~Doubt(e) /\ Sent(e, "direct")
    BY <2>1, <2>2 DEF Confirmed, Doubt, CallInv
  <2> QED
    BY <2>3, <2>4, <2>5 DEF Doubt
<1> QED
  BY <1>1, AccountInvariant, PTL

\* Close and the last flush of drainLoop, whatever Publish calls are under way:
\* when Close returns, what the ring held at its call has been sent, unless the
\* connection broke or refused an event.
THEOREM CloseHandsOver == Spec => []CloseDrains
<1>1. ASSUME CloseInv PROVE CloseDrains
  BY <1>1, Zenon DEF CloseInv, CloseOrder, CloseOwed, Unbroken, CloseDrains, Sent, SentSet
<1> QED
  BY <1>1, AccountInvariant, PTL
=============================================================================
