----------------------------- MODULE BruteForce -----------------------------
(***************************************************************************)
(* internal/observability/brute_force.go: the sliding-window detector, fed *)
(* by concurrent HTTP handlers.  RecordFailure reads the clock before it   *)
(* takes the mutex, so failures are recorded out of the order of their     *)
(* time stamps; the alert is published by a goroutine of its own.          *)
(***************************************************************************)
EXTENDS Integers, FiniteSets

CONSTANTS
  Handler,    \* the RecordFailure calls, each made once
  Client,     \* client ids (source addresses)
  Threshold,  \* failures that make a burst
  Window,     \* windowSec
  MaxTime,    \* bound on the clock
  MaxLag      \* bound on the seconds a handler waits for the mutex

ASSUME DetectorAssumption == {Threshold, Window} \subseteq Nat \ {0}

ASSUME ClockAssumption == {MaxTime, MaxLag} \subseteq Nat

VARIABLES
  failures,   \* client |-> the calls whose time stamps its slice holds
  turn,       \* a call's place in the slice: how many of its client were recorded before
  alerted,    \* the (client, bucket) keys that fired
  pending,    \* alerts whose goroutine has not published yet
  published,  \* alerts handed to the publisher
  pc,         \* where a handler stands
  client,     \* the client of a handler
  at,         \* the time stamp of a handler
  now

detector == <<failures, turn, alerted, pending, published>>
handlers == <<pc, client, at>>
vars     == <<detector, handlers, now>>

-----------------------------------------------------------------------------

Time == 0..MaxTime

Alert == [client : Client, first : Time, last : Time, count : Nat]

TypeOK ==
  /\ failures \in [Client -> SUBSET Handler]
  /\ turn \in [Handler -> Nat]
  /\ alerted \subseteq Client \X Nat
  /\ pending \subseteq Alert
  /\ published \subseteq Alert
  /\ pc \in [Handler -> {"ready", "stamped", "done"}]
  /\ client \in [Handler -> Client]
  /\ at \in [Handler -> Time]
  /\ now \in Time

Init ==
  /\ failures = [c \in Client |-> {}]
  /\ turn = [h \in Handler |-> 0]
  /\ alerted = {} /\ pending = {} /\ published = {}
  /\ pc = [h \in Handler |-> "ready"]
  /\ client \in [Handler -> Client]
  /\ at = [h \in Handler |-> 0]
  /\ now = 0

Recorded(c) == {h \in Handler : client[h] = c /\ pc[h] = "done"}

-----------------------------------------------------------------------------

\* time.Now(), before the mutex.
RecordFailure(h) ==
  /\ pc[h] = "ready"
  /\ pc' = [pc EXCEPT ![h] = "stamped"]
  /\ at' = [at EXCEPT ![h] = now]
  /\ UNCHANGED <<detector, client, now>>

\* Mutant: nothing is pruned.
PruneNothing(h) == failures[client[h]]

\* The entries not before at[h] - Window.
Prune(h) == {g \in failures[client[h]] : at[g] >= at[h] - Window}

\* The head of the slice once h is appended to the entries kept.
First(kept, h) ==
  IF kept = {} THEN h ELSE CHOOSE g \in kept : \A x \in kept : turn[g] <= turn[x]

\* The bucket of a time stamp.
Bucket(t) == t \div Window

\* The slice h leaves behind.
Store(h) ==
  /\ failures' = [failures EXCEPT ![client[h]] = Prune(h) \cup {h}]
  /\ turn' = [turn EXCEPT ![h] = Cardinality(Recorded(client[h]))]

\* The goroutine of a new alert.
Raise(h, key, count) ==
  /\ alerted' = alerted \cup {key}
  /\ pending' = pending \cup
       {[client |-> client[h], first |-> at[First(Prune(h), h)], last |-> at[h], count |-> count]}

\* Mutant: one alert per client for the life of the process.
RecordFailureAtOnce(h) ==
  LET count == Cardinality(Prune(h) \cup {h})
      key   == <<client[h], 0>>
  IN  /\ pc[h] = "stamped"
      /\ pc' = [pc EXCEPT ![h] = "done"]
      /\ Store(h)
      /\ IF count < Threshold \/ key \in alerted
         THEN UNCHANGED <<alerted, pending>>
         ELSE Raise(h, key, count)
      /\ UNCHANGED <<published, client, at, now>>

\* Mutant: the key is not looked up.
RecordFailureAtUndeduped(h) ==
  LET count == Cardinality(Prune(h) \cup {h})
      key   == <<client[h], Bucket(at[First(Prune(h), h)])>>
  IN  /\ pc[h] = "stamped"
      /\ pc' = [pc EXCEPT ![h] = "done"]
      /\ Store(h)
      /\ IF count < Threshold
         THEN UNCHANGED <<alerted, pending>>
         ELSE Raise(h, key, count)
      /\ UNCHANGED <<published, client, at, now>>

\* recordFailureAt, under the mutex.
RecordFailureAt(h) ==
  LET count == Cardinality(Prune(h) \cup {h})
      key   == <<client[h], Bucket(at[First(Prune(h), h)])>>
  IN  /\ pc[h] = "stamped"
      /\ pc' = [pc EXCEPT ![h] = "done"]
      /\ Store(h)
      /\ IF count < Threshold \/ key \in alerted
         THEN UNCHANGED <<alerted, pending>>
         ELSE Raise(h, key, count)
      /\ UNCHANGED <<published, client, at, now>>

\* go d.pub.Publish(...)
PublishAlert(a) ==
  /\ a \in pending
  /\ pending' = pending \ {a}
  /\ published' = published \cup {a}
  /\ UNCHANGED <<failures, turn, alerted, handlers, now>>

\* No handler waits for the mutex longer than MaxLag.
Tick ==
  /\ now < MaxTime
  /\ \A h \in Handler : pc[h] = "stamped" => now - at[h] < MaxLag
  /\ now' = now + 1
  /\ UNCHANGED <<detector, handlers>>

Next ==
  \/ \E h \in Handler : RecordFailure(h) \/ RecordFailureAt(h)
  \/ \E a \in pending : PublishAlert(a)
  \/ Tick

Spec == Init /\ [][Next]_vars

-----------------------------------------------------------------------------
(* Properties.                                                             *)

Raised == pending \cup published

\* Detection (brute_force.go:3-4).  Threshold failures of one client that lie
\* within Window seconds never go unnoticed: an alert for the client was raised
\* for the last of them or less than two windows (and the lag) before it.
BurstAlerted ==
  \A c \in Client : \A H \in SUBSET Recorded(c) :
    LET stamps == {at[h] : h \in H}
    IN  /\ Cardinality(H) = Threshold
        /\ \A t, u \in stamps : t - u <= Window - MaxLag
        => \E a \in Raised :
             /\ a.client = c
             /\ \E t \in stamps : a.last <= t + MaxLag
             /\ \A t \in stamps : a.last > t - 2 * Window - MaxLag

\* No false alarm: an alert is backed by Threshold recorded failures of its
\* client, no two further apart than the window and the time handlers waited;
\* it is one of the alerts that TypeOK describes.
AlertBacked ==
  /\ TypeOK
  /\ \A a \in Raised :
       /\ a.count >= Threshold
       /\ \E H \in SUBSET Recorded(a.client) :
            /\ Cardinality(H) = a.count
            /\ \A g, h \in H : at[g] - at[h] <= Window + MaxLag

\* The alerts of one client are spread out: however many failures there are, no
\* more than two are raised for those of any Window seconds while handlers wait
\* for the mutex a second at most.  A later stamp that overtakes others can empty
\* the slice early, so longer waits allow a third alert, and one more for every
\* window begun that a handler may wait beyond two seconds.
AlertsBounded ==
  \A c \in Client, t \in Time :
    Cardinality({a \in Raised : a.client = c /\ a.last \in t..(t + Window - 1)}) <=
      IF MaxLag <= 1 THEN 2 ELSE 3 + ((MaxLag + Window - 3) \div Window)
=============================================================================
