--------------------------- MODULE DetectorProofs ---------------------------
(***************************************************************************)
(* The brute-force detector notices every burst, raises no false alarm and *)
(* spreads its alerts, for every number of handlers, every order in which  *)
(* they get the mutex, and every threshold, window and length of waits.    *)
(***************************************************************************)
EXTENDS BruteForce, FiniteSetTheorems, FunctionTheorems, NaturalsInduction,
        WellFoundedInduction, TLAPS

\* A stamp is taken before it is recorded, and no handler waits too long.
ClockInv ==
  /\ TypeOK
  /\ \A h \in Handler : pc[h] # "ready" => at[h] <= now
  /\ \A h \in Handler : pc[h] = "stamped" => now <= at[h] + MaxLag

\* The slice of a client holds recorded calls, in the order of their turns.  An
\* entry survived every call recorded after it, and a recorded call that is not
\* an entry fell behind the window of another.
Slice(c) ==
  /\ IsFiniteSet(Recorded(c))
  /\ failures[c] \subseteq Recorded(c)
  /\ \A g \in Recorded(c) : turn[g] < Cardinality(Recorded(c))
  /\ \A g, h \in Recorded(c) : turn[g] = turn[h] => g = h
  /\ \A y \in failures[c], g \in Recorded(c) :
       turn[y] <= turn[g] => at[g] <= at[y] + Window
  /\ \A x \in Recorded(c) \ failures[c] :
       \E g \in Recorded(c) : at[x] + Window < at[g]

SliceInv == \A c \in Client : Slice(c)

\* The keys are those of the alerts raised, one each.
KeyInv ==
  /\ \A k \in alerted : \E a \in Raised : a.client = k[1] /\ Bucket(a.first) = k[2]
  /\ \A a \in Raised : <<a.client, Bucket(a.first)>> \in alerted

Heads(c) == {y \in failures[c] : \A x \in failures[c] : turn[y] <= turn[x]}

Dated(a) ==
  /\ a.last <= now
  /\ a.first <= a.last + MaxLag
  /\ a.last <= a.first + Window

Backed(a) ==
  /\ a.count >= Threshold
  /\ \E H \in SUBSET Recorded(a.client) :
       /\ Cardinality(H) = a.count
       /\ \A g, h \in H : at[g] - at[h] <= Window + MaxLag

\* The head of the slice is still the alert's first failure, or it is a later one
\* and the first failure has fallen behind a window.
HeadInv(a) ==
  /\ failures[a.client] # {}
  /\ \A y \in Heads(a.client) :
       /\ a.first <= at[y]
       /\ a.first < at[y] => \E g \in Recorded(a.client) : a.first + Window < at[g]

\* The entries up to the failure that raised the alert lie in one window.
AnchorInv(a) ==
  \E h \in Recorded(a.client) :
    /\ at[h] = a.last
    /\ \A y \in failures[a.client] : turn[y] <= turn[h] => at[y] <= a.first + Window

AlertInv == \A a \in Raised : Dated(a) /\ Backed(a) /\ HeadInv(a) /\ AnchorInv(a)

\* What separates an alert b from an earlier alert a of the same client.
Spaced(a, b) ==
  /\ a.first < b.first
  /\ a.first + Window < b.last + MaxLag
  /\ b.first <= a.first + Window \/ a.last + Window < b.last + MaxLag

SpacingInv ==
  \A a, b \in Raised : a # b /\ a.client = b.client =>
    /\ Bucket(a.first) # Bucket(b.first)
    /\ Spaced(a, b) \/ Spaced(b, a)

\* BurstAlerted, over the calls instead of their stamps.
Burst(H) ==
  /\ Cardinality(H) = Threshold
  /\ \A g, h \in H : at[g] - at[h] <= Window - MaxLag

Answers(a, H) ==
  /\ \E h \in H : a.last <= at[h] + MaxLag
  /\ \A h \in H : a.last > at[h] - 2 * Window - MaxLag

Noticed(c) ==
  \A H \in SUBSET Recorded(c) : Burst(H) => \E a \in Raised : a.client = c /\ Answers(a, H)

NoticedInv == \A c \in Client : Noticed(c)

DetectorInv ==
  ClockInv /\ SliceInv /\ KeyInv /\ AlertInv /\ SpacingInv /\ NoticedInv

-----------------------------------------------------------------------------
(* Numbers.                                                                *)

LEMMA Quotient ==
  ASSUME NEW n \in Int, NEW w \in Nat \ {0}
  PROVE  /\ n \div w \in Int
         /\ w * (n \div w) <= n
         /\ n < w * (n \div w) + w
  OBVIOUS

LEMMA QuotientBelow ==
  ASSUME NEW w \in Nat \ {0}, NEW n \in Int, NEW q \in Int, n < w * q
  PROVE  n \div w < q
  BY Quotient

LEMMA QuotientAbove ==
  ASSUME NEW w \in Nat \ {0}, NEW n \in Int, NEW q \in Int, w * q <= n
  PROVE  q <= n \div w
  BY Quotient

\* Two numbers at most w apart have the same quotient or consecutive ones.
LEMMA QuotientNext ==
  ASSUME NEW w \in Nat \ {0}, NEW e \in Int, NEW n \in Int, e <= n, n <= e + w
  PROVE  n \div w \in (e \div w)..((e \div w) + 1)
<1>1. PICK p \in Int : p = e \div w
  BY Quotient, Zenon
<1>2. w * p <= e /\ e < w * p + w
  BY <1>1, Quotient
<1>3. w * p \in Int /\ w * (p + 2) = w * p + 2 * w
  OBVIOUS
<1>4. w * p <= n /\ n < w * (p + 2)
  BY <1>2, <1>3
<1>5. p <= n \div w
  BY <1>4, QuotientAbove
<1>6. p + 2 \in Int
  OBVIOUS
<1>7. n \div w < p + 2
  BY <1>4, <1>6, QuotientBelow
<1>8. n \div w \in Int
  BY Quotient
<1> QED
  BY <1>1, <1>5, <1>7, <1>8

LEMMA SpareBuckets ==
  ASSUME NEW w \in Nat \ {0}, NEW l \in Nat, l > 1
  PROVE  (l + w - 3) \div w \in Nat
<1>1. l + w - 3 \in Int /\ w * 0 <= l + w - 3 /\ 0 \in Int
  OBVIOUS
<1>2. (l + w - 3) \div w \in Int /\ 0 <= (l + w - 3) \div w
  BY <1>1, Quotient, QuotientAbove
<1> QED
  BY <1>2

\* The quotients of the numbers from a window before t to l - 2 after it.
LEMMA SpanBuckets ==
  ASSUME NEW w \in Nat \ {0}, NEW l \in Nat, NEW t \in Nat, NEW n \in Int,
         t - w <= n, n <= t + l - 2
  PROVE  n \div w \in ((t - w) \div w)..((t - w) \div w + 1 + (l + w - 3) \div w)
<1>1. t - w \in Int /\ l + w - 3 \in Int
  OBVIOUS
<1>2. PICK p \in Int : p = (t - w) \div w
  BY <1>1, Quotient, Zenon
<1>3. PICK m \in Int : m = (l + w - 3) \div w
  BY <1>1, Quotient, Zenon
<1>4. w * p <= t - w /\ t - w < w * p + w
  BY <1>1, <1>2, Quotient
<1>5. l + w - 3 < w * m + w
  BY <1>1, <1>3, Quotient
<1>6. w * p \in Int /\ w * m \in Int /\ w * (p + 2 + m) = w * p + 2 * w + w * m
  OBVIOUS
<1>7. w * p <= n /\ n < w * (p + 2 + m)
  BY <1>4, <1>5, <1>6
<1>8. p <= n \div w
  BY <1>7, QuotientAbove
<1>9. p + 2 + m \in Int
  OBVIOUS
<1>10. n \div w < p + 2 + m
  BY <1>7, <1>9, QuotientBelow
<1>11. n \div w \in Int
  BY Quotient
<1> QED
  BY <1>2, <1>3, <1>8, <1>10, <1>11

LEMMA OneLater ==
  ASSUME NEW n \in Nat, NEW t \in Nat, NEW l \in Nat
  PROVE  (t <= n => t <= n + 1) /\ (n - t < l => n + 1 <= t + l)
  OBVIOUS

\* Two stamps of one bucket are less than a window apart.
LEMMA SameBucket ==
  ASSUME NEW a \in Time, NEW b \in Time, Bucket(a) = Bucket(b)
  PROVE  b < a + Window
<1>1. Window \in Nat \ {0} /\ a \in Int /\ b \in Int
  BY DetectorAssumption, ClockAssumption DEF Time
<1>2. a \div Window = b \div Window
  BY DEF Bucket
<1> QED
  BY <1>1, <1>2, Quotient

LEMMA BucketNat == ASSUME NEW a \in Time PROVE Bucket(a) \in Nat
<1>1. Window \in Nat \ {0} /\ a \in Int /\ a >= 0
  BY DetectorAssumption, ClockAssumption DEF Time
<1>2. Window * 0 <= a
  BY <1>1
<1>3. a \div Window \in Int /\ 0 <= a \div Window
  BY <1>1, <1>2, Quotient, QuotientAbove
<1> QED
  BY <1>3 DEF Bucket

LessThan == {p \in Nat \X Nat : p[1] < p[2]}

LEMMA Least ==
  ASSUME NEW T, T \subseteq Nat, T # {}
  PROVE  \E x \in T : \A y \in T : x <= y
<1>1. IsWellFoundedOn(LessThan, Nat)
  BY NatLessThanWellFounded, Zenon DEF OpToRel, LessThan
<1>2. PICK x \in T : \A y \in T : ~(<<y, x>> \in LessThan)
  BY <1>1, WFMin, Zenon
<1>3. \A y \in T : x <= y
  <2> SUFFICES ASSUME NEW y \in T PROVE x <= y
    OBVIOUS
  <2>1. x \in Nat /\ y \in Nat /\ ~(<<y, x>> \in LessThan)
    BY <1>2
  <2> QED
    BY <2>1 DEF LessThan
<1> QED
  BY <1>3

\* A set of calls that is not empty has one of least turn.
LEMMA LeastTurn ==
  ASSUME NEW S \in SUBSET Handler, S # {}, turn \in [Handler -> Nat]
  PROVE  \E g \in S : \A x \in S : turn[g] <= turn[x]
<1> DEFINE T == {turn[g] : g \in S}
<1>1. T \subseteq Nat /\ T # {}
  OBVIOUS
<1>2. PICK n \in T : \A m \in T : n <= m
  BY <1>1, Least, Zenon
<1> QED
  BY <1>2, Zenon

\* The facts about the constants.
LEMMA Numbers ==
  /\ Threshold \in Nat \ {0} /\ Window \in Nat \ {0}
  /\ MaxTime \in Nat /\ MaxLag \in Nat
  /\ \A t \in Time : t \in Nat /\ t \in Int
  BY DetectorAssumption, ClockAssumption DEF Time

-----------------------------------------------------------------------------
(* Initial states, and the steps that record nothing.                      *)

LEMMA DetectorInitially == Init => DetectorInv
<1> SUFFICES ASSUME Init PROVE DetectorInv
  OBVIOUS
<1>1. ClockInv
  BY Numbers DEF Init, ClockInv, TypeOK, Time
<1>2. Raised = {} /\ alerted = {}
  BY DEF Init, Raised
<1>3. \A c \in Client : Recorded(c) = {} /\ failures[c] = {}
  BY DEF Init, Recorded
<1>4. SliceInv
  BY <1>3, FS_EmptySet, Zenon DEF SliceInv, Slice
<1>5. KeyInv /\ AlertInv /\ SpacingInv
  BY <1>2, Zenon DEF KeyInv, AlertInv, SpacingInv
<1>6. NoticedInv
  <2> SUFFICES ASSUME NEW c \in Client, NEW H \in SUBSET Recorded(c), Burst(H)
               PROVE  FALSE
    BY Zenon DEF NoticedInv, Noticed
  <2>1. H = {}
    BY <1>3, Zenon
  <2> QED
    BY <2>1, FS_EmptySet, Numbers DEF Burst
<1> QED
  BY <1>1, <1>4, <1>5, <1>6, Zenon DEF DetectorInv

\* A step that leaves the slices, the alerts and the recorded stamps alone.
LEMMA DetectorFrame ==
  ASSUME DetectorInv, ClockInv',
         failures' = failures, turn' = turn, alerted' = alerted, Raised' = Raised,
         now <= now',
         \A c \in Client : Recorded(c)' = Recorded(c),
         \A c \in Client : \A h \in Recorded(c) : at'[h] = at[h]
  PROVE  DetectorInv'
<1>1. \A a \in Raised : a \in Alert
  BY DEF DetectorInv, ClockInv, TypeOK, Raised
<1>2. \A a \in Raised : a.client \in Client /\ a.last \in Int
  BY <1>1, Numbers DEF Alert
<1>3. SliceInv'
  <2> SUFFICES ASSUME NEW c \in Client PROVE Slice(c)'
    BY Zenon DEF SliceInv
  <2>1. Slice(c) /\ Recorded(c)' = Recorded(c)
    BY Zenon DEF DetectorInv, SliceInv
  <2>2. \A g \in Recorded(c) : at'[g] = at[g]
    OBVIOUS
  <2>3. IsFiniteSet(Recorded(c)') /\ failures'[c] \subseteq Recorded(c)'
    BY <2>1 DEF Slice
  <2>4. \A y \in failures'[c], g \in Recorded(c)' :
          turn'[y] <= turn'[g] => at'[g] <= at'[y] + Window
    BY <2>1, <2>2, Zenon DEF Slice
  <2>5. \A x \in Recorded(c)' \ failures'[c] :
          \E g \in Recorded(c)' : at'[x] + Window < at'[g]
    BY <2>1, <2>2, Zenon DEF Slice
  <2>6. \A g \in Recorded(c)' : turn'[g] < Cardinality(Recorded(c)')
    BY <2>1, Zenon DEF Slice
  <2>7. \A g, h \in Recorded(c)' : turn'[g] = turn'[h] => g = h
    BY <2>1, Zenon DEF Slice
  <2> QED
    BY <2>3, <2>4, <2>5, <2>6, <2>7, Zenon DEF Slice
<1>4. KeyInv'
  BY Zenon DEF DetectorInv, KeyInv, Bucket
<1>5. SpacingInv'
  BY Zenon DEF DetectorInv, SpacingInv, Spaced, Bucket
<1>6. NoticedInv'
  <2> SUFFICES ASSUME NEW c \in Client, NEW H \in SUBSET Recorded(c), Burst(H)'
               PROVE  \E a \in Raised : a.client = c /\ Answers(a, H)'
    BY Zenon DEF NoticedInv, Noticed
  <2>1. \A g \in H : at'[g] = at[g]
    BY Zenon
  <2>2. Burst(H)
    BY <2>1, Zenon DEF Burst
  <2>3. PICK a \in Raised : a.client = c /\ Answers(a, H)
    BY <2>2, Zenon DEF DetectorInv, NoticedInv, Noticed
  <2>4. Answers(a, H)'
    BY <2>1, <2>3, Zenon DEF Answers
  <2> QED
    BY <2>3, <2>4
<1>7. AlertInv'
  <2> SUFFICES ASSUME NEW a \in Raised
               PROVE  Dated(a)' /\ Backed(a)' /\ HeadInv(a)' /\ AnchorInv(a)'
    BY Zenon DEF AlertInv
  <2>1. Dated(a) /\ Backed(a) /\ HeadInv(a) /\ AnchorInv(a)
    BY DEF DetectorInv, AlertInv
  <2>2. a.client \in Client /\ failures[a.client] \subseteq Recorded(a.client)
    BY <1>2, Zenon DEF DetectorInv, SliceInv, Slice
  <2>3. Dated(a)'
    BY <2>1, <1>2, Numbers DEF Dated, DetectorInv, ClockInv, TypeOK, Time
  <2>4. Backed(a)'
    BY <2>1, <2>2, Zenon DEF Backed
  <2>5. HeadInv(a)'
    BY <2>1, <2>2, Zenon DEF HeadInv, Heads
  <2>6. AnchorInv(a)'
    BY <2>1, <2>2, Zenon DEF AnchorInv
  <2> QED
    BY <2>3, <2>4, <2>5, <2>6
<1> QED
  BY <1>3, <1>4, <1>5, <1>6, <1>7, Zenon DEF DetectorInv

-----------------------------------------------------------------------------
(* Recording a failure.                                                    *)

\* Call h records a failure of c, keeps the entries K, and f heads the slice.
Records(h, c, K, f) ==
  RecordFailureAt(h) /\ c = client[h] /\ K = Prune(h) /\ f = First(K, h)

\* What the slice of the client looks like before and after.
LEMMA Recording ==
  ASSUME DetectorInv, NEW h \in Handler, NEW c, NEW K, NEW f, Records(h, c, K, f)
  PROVE  /\ c \in Client /\ h \notin Recorded(c)
         /\ Recorded(c)' = Recorded(c) \cup {h}
         /\ \A d \in Client \ {c} : Recorded(d)' = Recorded(d) /\ failures'[d] = failures[d]
         /\ \A d \in Client : h \notin Recorded(d)
         /\ failures'[c] = K \cup {h}
         /\ K \subseteq failures[c] /\ failures[c] \subseteq Recorded(c)
         /\ turn'[h] = Cardinality(Recorded(c))
         /\ \A g \in Handler : g # h => turn'[g] = turn[g]
         /\ \A g \in Recorded(c) : turn'[g] = turn[g] /\ turn'[g] < turn'[h]
         /\ at' = at /\ now' = now /\ client' = client
         /\ turn \in [Handler -> Nat] /\ turn' \in [Handler -> Nat]
<1>1. TypeOK /\ Slice(c) /\ c \in Client
  BY DEF Records, DetectorInv, ClockInv, TypeOK, SliceInv
<1>2. /\ pc[h] = "stamped" /\ pc' = [pc EXCEPT ![h] = "done"]
      /\ failures' = [failures EXCEPT ![c] = K \cup {h}]
      /\ turn' = [turn EXCEPT ![h] = Cardinality(Recorded(c))]
      /\ at' = at /\ now' = now /\ client' = client
  BY DEF Records, RecordFailureAt, Store
<1>3. \A d \in Client : h \notin Recorded(d)
  BY <1>2 DEF Recorded
<1>4. /\ Recorded(c)' = Recorded(c) \cup {h}
      /\ \A d \in Client \ {c} : Recorded(d)' = Recorded(d)
  <2>1. c = client[h] /\ pc'[h] = "done" /\ pc[h] # "done"
    BY <1>1, <1>2 DEF Records, TypeOK
  <2>2. \A g \in Handler \ {h} : pc'[g] = pc[g]
    BY <1>1, <1>2 DEF TypeOK
  <2> QED
    BY <1>2, <2>1, <2>2, Zenon DEF Recorded
<1>5. /\ failures'[c] = K \cup {h}
      /\ \A d \in Client \ {c} : failures'[d] = failures[d]
  BY <1>1, <1>2 DEF TypeOK
<1>6. /\ turn'[h] = Cardinality(Recorded(c))
      /\ \A g \in Handler : g # h => turn'[g] = turn[g]
  BY <1>1, <1>2 DEF TypeOK
<1>7. K \subseteq failures[c] /\ failures[c] \subseteq Recorded(c)
  BY <1>1, Zenon DEF Records, Prune, Slice
<1>8. \A g \in Recorded(c) : g \in Handler /\ g # h
  BY <1>1, <1>3 DEF Recorded
<1>9. \A g \in Recorded(c) : turn'[g] = turn[g] /\ turn'[g] < turn'[h]
  BY <1>1, <1>6, <1>8, Zenon DEF Slice
<1>10. turn \in [Handler -> Nat] /\ turn' \in [Handler -> Nat]
  BY <1>1, <1>2, FS_CardinalityType DEF Slice, TypeOK
<1> QED
  BY <1>1, <1>2, <1>3, <1>4, <1>5, <1>6, <1>7, <1>9, <1>10

\* No recorded stamp is further ahead of the new one than a handler may wait.
LEMMA Overtaken ==
  ASSUME DetectorInv, NEW h \in Handler, NEW c, NEW K, NEW f, Records(h, c, K, f)
  PROVE  /\ at[h] \in Time /\ now \in Time /\ at[h] <= now /\ now <= at[h] + MaxLag
         /\ \A g \in Recorded(c) : at[g] \in Time /\ at[g] <= now
         /\ \A g \in K : at[g] \in Time /\ at[h] <= at[g] + Window /\ at[g] <= now
<1>1. ClockInv /\ Slice(c) /\ pc[h] = "stamped"
  BY DEF Records, DetectorInv, RecordFailureAt, SliceInv, ClockInv, TypeOK
<1>2. at[h] \in Time /\ now \in Time /\ at[h] <= now /\ now <= at[h] + MaxLag
  BY <1>1 DEF ClockInv, TypeOK
<1>3. \A g \in Recorded(c) : at[g] \in Time /\ at[g] <= now
  BY <1>1 DEF ClockInv, TypeOK, Recorded
<1>4. ASSUME NEW g \in K
      PROVE  g \in Recorded(c) /\ at[g] >= at[h] - Window
  BY <1>1, Zenon DEF Records, Prune, Slice
<1>5. ASSUME NEW g \in K
      PROVE  at[g] \in Time /\ at[h] <= at[g] + Window /\ at[g] <= now
  BY <1>2, <1>3, <1>4, Numbers
<1> QED
  BY <1>2, <1>3, <1>5

\* The head of the new slice.
LEMMA Front ==
  ASSUME DetectorInv, NEW h \in Handler, NEW c, NEW K, NEW f, Records(h, c, K, f)
  PROVE  /\ f \in K \cup {h} /\ f \in Handler /\ at[f] \in Time
         /\ \A y \in K \cup {h} : turn'[f] <= turn'[y] /\ at[y] <= at[f] + Window
         /\ at[f] <= now
<1>1. /\ K \subseteq failures[c] /\ failures[c] \subseteq Recorded(c) /\ c \in Client
      /\ \A g \in Recorded(c) : turn'[g] = turn[g] /\ turn'[g] < turn'[h]
      /\ turn \in [Handler -> Nat] /\ turn' \in [Handler -> Nat]
  BY Recording
<1>2. /\ at[h] \in Time /\ at[h] <= now
      /\ \A g \in K : at[g] \in Time /\ at[h] <= at[g] + Window /\ at[g] <= now
  BY Overtaken
<1>3. Slice(c) /\ Recorded(c) \subseteq Handler
  BY <1>1, Zenon DEF DetectorInv, SliceInv, Recorded
<1>4. turn'[h] <= turn'[h] /\ at[h] <= at[h] + Window
  BY <1>1, <1>2, Numbers
<1>5. CASE K = {}
  <2>1. f = h
    BY <1>5, Zenon DEF Records, First
  <2> QED
    BY <1>2, <1>4, <1>5, <2>1, Zenon
<1>6. CASE K # {}
  <2>1. \E g \in K : \A x \in K : turn[g] <= turn[x]
    BY <1>1, <1>3, <1>6, LeastTurn, Zenon
  <2>2. f \in K /\ \A x \in K : turn[f] <= turn[x]
    BY <1>6, <2>1, Zenon DEF Records, First
  <2>3. ASSUME NEW x \in K
        PROVE  turn'[f] <= turn'[x] /\ at[x] <= at[f] + Window
    BY <1>1, <1>3, <2>2, Zenon DEF Slice
  <2>4. turn'[f] < turn'[h] /\ turn'[f] \in Nat /\ turn'[h] \in Nat
    BY <1>1, <1>3, <2>2
  <2>5. turn'[f] <= turn'[h]
    BY <2>4
  <2> QED
    BY <1>1, <1>2, <1>3, <2>2, <2>3, <2>5, Zenon
<1> QED
  BY <1>5, <1>6

LEMMA RecordSlice ==
  ASSUME DetectorInv, NEW h \in Handler, NEW c, NEW K, NEW f, Records(h, c, K, f)
  PROVE  SliceInv'
<1>1. /\ c \in Client /\ h \notin Recorded(c)
      /\ Recorded(c)' = Recorded(c) \cup {h}
      /\ \A d \in Client \ {c} : Recorded(d)' = Recorded(d) /\ failures'[d] = failures[d]
      /\ \A d \in Client : h \notin Recorded(d)
      /\ failures'[c] = K \cup {h}
      /\ K \subseteq failures[c] /\ failures[c] \subseteq Recorded(c)
      /\ turn'[h] = Cardinality(Recorded(c))
      /\ \A g \in Handler : g # h => turn'[g] = turn[g]
      /\ \A g \in Recorded(c) : turn'[g] = turn[g] /\ turn'[g] < turn'[h]
      /\ at' = at
      /\ turn \in [Handler -> Nat] /\ turn' \in [Handler -> Nat]
  BY Recording
<1>2. /\ at[h] \in Time
      /\ \A g \in Recorded(c) : at[g] \in Time
      /\ \A g \in K : at[h] <= at[g] + Window
  BY Overtaken
<1>3. \A d \in Client : Slice(d) /\ Recorded(d) \subseteq Handler
  BY Zenon DEF DetectorInv, SliceInv, Recorded
<1>4. ASSUME NEW d \in Client \ {c} PROVE Slice(d)'
  <2>1. /\ Recorded(d)' = Recorded(d) /\ failures'[d] = failures[d]
        /\ \A g \in Recorded(d) : turn'[g] = turn[g]
    BY <1>1, <1>3, Zenon
  <2>2. \A g, x \in Recorded(d)' : turn'[g] = turn'[x] => g = x
    <3>1. \A g, x \in Recorded(d) : turn[g] = turn[x] => g = x
      BY <1>3, Zenon DEF Slice
    <3> QED
      BY <2>1, <3>1
  <2>3. \A g \in Recorded(d)' : turn'[g] < Cardinality(Recorded(d)')
    <3>1. \A g \in Recorded(d) : turn[g] < Cardinality(Recorded(d))
      BY <1>3, Zenon DEF Slice
    <3> QED
      BY <2>1, <3>1
  <2>4. \A y \in failures'[d], g \in Recorded(d)' :
          turn'[y] <= turn'[g] => at'[g] <= at'[y] + Window
    <3>1. /\ failures[d] \subseteq Recorded(d)
          /\ \A y \in failures[d], g \in Recorded(d) :
               turn[y] <= turn[g] => at[g] <= at[y] + Window
      BY <1>3, Zenon DEF Slice
    <3> QED
      BY <1>1, <2>1, <3>1
  <2>5. IsFiniteSet(Recorded(d)') /\ failures'[d] \subseteq Recorded(d)'
    BY <1>3, <2>1 DEF Slice
  <2>6. \A x \in Recorded(d)' \ failures'[d] :
          \E g \in Recorded(d)' : at'[x] + Window < at'[g]
    <3>1. \A x \in Recorded(d) \ failures[d] :
            \E g \in Recorded(d) : at[x] + Window < at[g]
      BY <1>3, Zenon DEF Slice
    <3> QED
      BY <1>1, <2>1, <3>1
  <2> QED
    BY <2>2, <2>3, <2>4, <2>5, <2>6, Zenon DEF Slice
<1>5. Slice(c)'
  <2>1. Slice(c)
    BY <1>1, <1>3
  <2>2. /\ IsFiniteSet(Recorded(c)')
        /\ Cardinality(Recorded(c)') = Cardinality(Recorded(c)) + 1
        /\ Cardinality(Recorded(c)) \in Nat
    BY <1>1, <2>1, FS_AddElement, FS_CardinalityType DEF Slice
  <2>3. failures'[c] \subseteq Recorded(c)'
    BY <1>1, Zenon
  <2>4. \A g \in Recorded(c)' : turn'[g] < Cardinality(Recorded(c)')
    <3> SUFFICES ASSUME NEW g \in Recorded(c)' PROVE turn'[g] < Cardinality(Recorded(c)')
      BY Zenon
    <3>1. g \in Handler
      BY <1>1, <1>3, Zenon
    <3>2. turn'[g] < turn'[h] \/ turn'[g] = turn'[h]
      BY <1>1, Zenon
    <3>3. turn'[g] \in Nat /\ turn'[h] \in Nat
      BY <1>1, <3>1
    <3> QED
      BY <1>1, <2>2, <3>2, <3>3
  <2>5. \A g, x \in Recorded(c)' : turn'[g] = turn'[x] => g = x
    <3>1. \A g, x \in Recorded(c) : turn'[g] = turn'[x] => g = x
      BY <1>1, <2>1, Zenon DEF Slice
    <3>2. \A g \in Recorded(c) : turn'[g] # turn'[h]
      BY <1>1, <1>3
    <3> QED
      BY <1>1, <3>1, <3>2, Zenon
  <2>6. ASSUME NEW y \in failures'[c], NEW g \in Recorded(c)', turn'[y] <= turn'[g]
        PROVE  at[g] <= at[y] + Window
    <3>1. CASE y = h
      <4>1. g = h
        <5>1. \A x \in Recorded(c) : ~(turn'[h] <= turn'[x])
          BY <1>1, <1>3
        <5> QED
          BY <1>1, <2>6, <3>1, <5>1, Zenon
      <4> QED
        BY <1>2, <3>1, <4>1, Numbers
    <3>2. CASE y # h /\ g = h
      BY <1>1, <1>2, <3>2, Zenon
    <3>3. CASE y # h /\ g # h
      BY <1>1, <2>1, <2>6, <3>3, Zenon DEF Slice
    <3> QED
      BY <3>1, <3>2, <3>3
  <2>7. ASSUME NEW x \in Recorded(c)' \ failures'[c]
        PROVE  \E g \in Recorded(c)' : at[x] + Window < at[g]
    <3>1. x \in Recorded(c) /\ x \notin K
      BY <1>1, Zenon
    <3>2. CASE x \in failures[c]
      <4>1. ~(at[x] >= at[h] - Window)
        BY <3>1, <3>2, Zenon DEF Records, Prune
      <4>2. at[x] + Window < at[h]
        BY <1>2, <3>1, <4>1, Numbers
      <4> QED
        BY <1>1, <4>2, Zenon
    <3>3. CASE x \notin failures[c]
      BY <1>1, <2>1, <3>1, <3>3, Zenon DEF Slice
    <3> QED
      BY <3>2, <3>3
  <2> QED
    <3>1. \A y \in failures'[c], g \in Recorded(c)' :
            turn'[y] <= turn'[g] => at'[g] <= at'[y] + Window
      BY <1>1, <2>6, Zenon
    <3>2. \A x \in Recorded(c)' \ failures'[c] :
            \E g \in Recorded(c)' : at'[x] + Window < at'[g]
      BY <1>1, <2>7, Zenon
    <3> QED
      BY <2>2, <2>3, <2>4, <2>5, <3>1, <3>2, Zenon DEF Slice
<1> QED
  BY <1>4, <1>5, Zenon DEF SliceInv

\* The alert that h raises, if it does.
NewAlert(h, c, K, f) ==
  [client |-> c, first |-> at[f], last |-> at[h], count |-> Cardinality(K \cup {h})]

LEMMA Raising ==
  ASSUME DetectorInv, NEW h \in Handler, NEW c, NEW K, NEW f, Records(h, c, K, f)
  PROVE  \/ /\ Raised' = Raised /\ alerted' = alerted
            /\ Cardinality(K \cup {h}) < Threshold \/ <<c, Bucket(at[f])>> \in alerted
         \/ /\ Raised' = Raised \cup {NewAlert(h, c, K, f)}
            /\ pending' = pending \cup {NewAlert(h, c, K, f)} /\ published' = published
            /\ alerted' = alerted \cup {<<c, Bucket(at[f])>>}
            /\ ~(Cardinality(K \cup {h}) < Threshold) /\ <<c, Bucket(at[f])>> \notin alerted
<1> DEFINE count == Cardinality(K \cup {h})
           key == <<c, Bucket(at[f])>>
<1>1. /\ IF count < Threshold \/ key \in alerted
         THEN UNCHANGED <<alerted, pending>>
         ELSE Raise(h, key, count)
      /\ published' = published
  BY Zenon DEF Records, RecordFailureAt
<1>2. CASE count < Threshold \/ key \in alerted
  <2>1. alerted' = alerted /\ pending' = pending
    BY <1>1, <1>2, Zenon
  <2> QED
    BY <1>1, <1>2, <2>1, Zenon DEF Raised
<1>3. CASE ~(count < Threshold \/ key \in alerted)
  <2>1. Raise(h, key, count)
    BY <1>1, <1>3, Zenon
  <2>2. alerted' = alerted \cup {key} /\ pending' = pending \cup {NewAlert(h, c, K, f)}
    BY <2>1, Zenon DEF Raise, Records, NewAlert
  <2> QED
    BY <1>1, <1>3, <2>2, Zenon DEF Raised
<1> QED
  BY <1>2, <1>3, Zenon

\* The entries with the new one: how many, and how far apart.
LEMMA Fresh ==
  ASSUME DetectorInv, NEW h \in Handler, NEW c, NEW K, NEW f, Records(h, c, K, f)
  PROVE  /\ K \cup {h} \subseteq Recorded(c)'
         /\ IsFiniteSet(K \cup {h}) /\ Cardinality(K \cup {h}) \in Nat
         /\ \A g, x \in K \cup {h} : at[g] - at[x] <= Window + MaxLag
<1>1. /\ Recorded(c)' = Recorded(c) \cup {h} /\ K \subseteq Recorded(c) /\ c \in Client
  BY Recording, Zenon
<1>2. IsFiniteSet(Recorded(c)')
  BY <1>1, RecordSlice, Zenon DEF SliceInv, Slice
<1>3. K \cup {h} \subseteq Recorded(c)'
  BY <1>1, Zenon
<1>4. IsFiniteSet(K \cup {h})
  BY <1>2, <1>3, FS_Subset, Zenon
<1>5. /\ at[h] \in Time /\ now \in Time /\ at[h] <= now /\ now <= at[h] + MaxLag
      /\ \A g \in K : at[g] \in Time /\ at[h] <= at[g] + Window /\ at[g] <= now
  BY Overtaken
<1>6. ASSUME NEW g \in K \cup {h}
      PROVE  at[g] \in Time /\ at[h] <= at[g] + Window /\ at[g] <= at[h] + MaxLag
  BY <1>5, Numbers
<1>7. ASSUME NEW g \in K \cup {h}, NEW x \in K \cup {h}
      PROVE  at[g] - at[x] <= Window + MaxLag
  <2>1. /\ at[g] \in Time /\ at[g] <= at[h] + MaxLag
        /\ at[x] \in Time /\ at[h] <= at[x] + Window /\ at[h] \in Time
    BY <1>5, <1>6
  <2> QED
    BY <2>1, Numbers
<1> QED
  BY <1>3, <1>4, <1>7, FS_CardinalityType

LEMMA NewAlertType ==
  ASSUME DetectorInv, NEW h \in Handler, NEW c, NEW K, NEW f, Records(h, c, K, f)
  PROVE  NewAlert(h, c, K, f) \in Alert /\ Bucket(at[f]) \in Nat
<1>1. c \in Client /\ at[f] \in Time /\ at[h] \in Time /\ Cardinality(K \cup {h}) \in Nat
  BY Recording, Front, Overtaken, Fresh, Zenon
<1> QED
  BY <1>1, BucketNat DEF NewAlert, Alert

LEMMA RecordClock ==
  ASSUME DetectorInv, NEW h \in Handler, NEW c, NEW K, NEW f, Records(h, c, K, f)
  PROVE  ClockInv'
<1>1. ClockInv /\ TypeOK
  BY DEF DetectorInv, ClockInv
<1>2. /\ pc[h] = "stamped" /\ pc' = [pc EXCEPT ![h] = "done"]
      /\ failures' = [failures EXCEPT ![c] = K \cup {h}]
      /\ at' = at /\ now' = now /\ client' = client /\ published' = published
  BY Zenon DEF Records, RecordFailureAt, Store
<1>3. pc' \in [Handler -> {"ready", "stamped", "done"}]
  BY <1>1, <1>2 DEF TypeOK
<1>4. \A g \in Handler : (pc'[g] # "ready" => pc[g] # "ready")
                          /\ (pc'[g] = "stamped" => pc[g] = "stamped")
  BY <1>1, <1>2 DEF TypeOK
<1>5. /\ \A g \in Handler : pc'[g] # "ready" => at'[g] <= now'
      /\ \A g \in Handler : pc'[g] = "stamped" => now' <= at'[g] + MaxLag
  BY <1>1, <1>2, <1>4, Zenon DEF ClockInv
<1>6. turn' \in [Handler -> Nat] /\ c \in Client /\ K \subseteq Recorded(c)
  BY Recording, Zenon
<1>7. failures' \in [Client -> SUBSET Handler]
  <2>1. K \cup {h} \in SUBSET Handler
    BY <1>6, Zenon DEF Recorded
  <2> QED
    BY <1>1, <1>2, <2>1 DEF TypeOK
<1>8. alerted' \subseteq Client \X Nat /\ pending' \subseteq Alert
  <2>1. alerted \subseteq Client \X Nat /\ pending \subseteq Alert
    BY <1>1 DEF TypeOK
  <2>2. NewAlert(h, c, K, f) \in Alert /\ <<c, Bucket(at[f])>> \in Client \X Nat
    BY <1>6, NewAlertType
  <2>3. \/ alerted' = alerted /\ pending' = pending
        \/ alerted' = alerted \cup {<<c, Bucket(at[f])>>}
           /\ pending' = pending \cup {NewAlert(h, c, K, f)}
    BY Zenon DEF Records, RecordFailureAt, Raise, NewAlert
  <2> QED
    BY <2>1, <2>2, <2>3, Zenon
<1>9. TypeOK'
  BY <1>1, <1>2, <1>3, <1>6, <1>7, <1>8, Zenon DEF TypeOK
<1> QED
  BY <1>5, <1>9, Zenon DEF ClockInv

LEMMA RecordKeys ==
  ASSUME DetectorInv, NEW h \in Handler, NEW c, NEW K, NEW f, Records(h, c, K, f)
  PROVE  KeyInv'
<1> DEFINE new == NewAlert(h, c, K, f)
           key == <<c, Bucket(at[f])>>
<1>1. KeyInv
  BY DEF DetectorInv
<1>2. new.client = c /\ new.first = at[f] /\ key[1] = c /\ key[2] = Bucket(at[f])
  BY DEF NewAlert
<1>3. \/ Raised' = Raised /\ alerted' = alerted
      \/ Raised' = Raised \cup {new} /\ alerted' = alerted \cup {key}
  BY Raising, Zenon
<1> HIDE DEF new, key
<1>4. ASSUME NEW k \in alerted'
      PROVE  \E a \in Raised' : a.client = k[1] /\ Bucket(a.first) = k[2]
  BY <1>1, <1>2, <1>3, Zenon DEF KeyInv
<1>5. <<new.client, Bucket(new.first)>> = key
  BY <1>2 DEF key
<1>6. ASSUME NEW a \in Raised'
      PROVE  <<a.client, Bucket(a.first)>> \in alerted'
  BY <1>1, <1>3, <1>5, Zenon DEF KeyInv
<1> QED
  BY <1>4, <1>6, Zenon DEF KeyInv, Bucket

\* The head of the new slice is the only one of least turn.
LEMMA NewHead ==
  ASSUME DetectorInv, NEW h \in Handler, NEW c, NEW K, NEW f, Records(h, c, K, f)
  PROVE  Heads(c)' = {f}
<1>1. /\ failures'[c] = K \cup {h} /\ c \in Client
      /\ turn' \in [Handler -> Nat]
  BY Recording
<1>2. /\ f \in K \cup {h}
      /\ \A y \in K \cup {h} : turn'[f] <= turn'[y]
  BY Front
<1>3. /\ failures'[c] \subseteq Recorded(c)' /\ Recorded(c)' \subseteq Handler
      /\ \A g, x \in Recorded(c)' : turn'[g] = turn'[x] => g = x
  BY <1>1, RecordSlice, Zenon DEF SliceInv, Slice, Recorded
<1>4. f \in Heads(c)'
  BY <1>1, <1>2, Zenon DEF Heads
<1>5. ASSUME NEW y \in Heads(c)' PROVE y = f
  <2>1. /\ y \in failures'[c] /\ turn'[y] <= turn'[f] /\ turn'[f] <= turn'[y]
        /\ y \in Handler /\ f \in Handler
    BY <1>1, <1>2, <1>3, Zenon DEF Heads
  <2>2. turn'[y] = turn'[f]
    BY <1>1, <2>1
  <2> QED
    BY <1>1, <1>2, <1>3, <2>1, <2>2, Zenon
<1> QED
  BY <1>4, <1>5, Zenon

\* The stamp at the head grows when the head changes, and the old head has fallen
\* behind the new stamp.
LEMMA HeadMoves ==
  ASSUME DetectorInv, NEW h \in Handler, NEW c, NEW K, NEW f, Records(h, c, K, f),
         failures[c] # {}
  PROVE  \E y \in Heads(c) : y = f \/ (at[y] < at[f] /\ at[y] + Window < at[h] /\ at[y] \in Time)
<1>1. /\ K \subseteq failures[c] /\ failures[c] \subseteq Recorded(c) /\ c \in Client
      /\ turn \in [Handler -> Nat] /\ turn' \in [Handler -> Nat]
      /\ \A g \in Recorded(c) : turn'[g] = turn[g] /\ turn'[g] < turn'[h]
  BY Recording
<1>2. Recorded(c) \subseteq Handler
  BY Zenon DEF Recorded
<1>3. PICK y \in failures[c] : \A x \in failures[c] : turn[y] <= turn[x]
  BY <1>1, <1>2, LeastTurn, Zenon
<1>4. y \in Heads(c)
  BY <1>3, Zenon DEF Heads
<1>5. /\ f \in K \cup {h} /\ at[f] \in Time
      /\ \A x \in K \cup {h} : turn'[f] <= turn'[x] /\ at[x] <= at[f] + Window
  BY Front
<1>6. CASE y \in K
  <2>1. turn'[f] <= turn'[y] /\ turn'[y] = turn[y] /\ turn'[y] < turn'[h]
    BY <1>1, <1>3, <1>5, <1>6, Zenon
  <2>2. turn'[y] \in Nat /\ turn'[h] \in Nat /\ y \in Recorded(c)
    BY <1>1, <1>2, <1>3
  <2>3. ~(turn'[h] <= turn'[y])
    BY <2>1, <2>2
  <2>4. f \in K
    BY <1>5, <2>1, <2>3, Zenon
  <2>5. f \in Recorded(c) /\ turn'[f] = turn[f] /\ turn[y] <= turn[f]
    BY <1>1, <1>3, <2>4, Zenon
  <2>6. turn[f] \in Nat /\ turn[y] \in Nat
    BY <1>1, <1>2, <2>2, <2>5
  <2>7. turn[f] = turn[y]
    BY <2>1, <2>5, <2>6
  <2>8. f = y
    BY <1>1, <2>2, <2>5, <2>7, Zenon DEF DetectorInv, SliceInv, Slice
  <2> QED
    BY <1>4, <2>8, Zenon
<1>7. CASE y \notin K
  <2>1. at[y] \in Time /\ at[h] \in Time /\ at[h] <= at[f] + Window
    BY <1>1, <1>3, <1>5, Overtaken
  <2>2. ~(at[y] >= at[h] - Window)
    BY <1>3, <1>7, Zenon DEF Records, Prune
  <2>3. at[y] < at[f] /\ at[y] + Window < at[h]
    BY <1>5, <2>1, <2>2, Numbers
  <2> QED
    BY <1>4, <2>1, <2>3, Zenon
<1> QED
  BY <1>6, <1>7, Zenon

\* What an alert of another client relies on does not change.
LEMMA RecordOther ==
  ASSUME DetectorInv, NEW h \in Handler, NEW c, NEW K, NEW f, Records(h, c, K, f),
         NEW a \in Raised, a.client # c, a.client \in Client
  PROVE  HeadInv(a)' /\ AnchorInv(a)'
<1>1. PICK d \in Client \ {c} : d = a.client
  BY Zenon
<1>2. /\ Recorded(d)' = Recorded(d) /\ failures'[d] = failures[d]
      /\ at' = at /\ h \notin Recorded(d)
      /\ \A g \in Handler : g # h => turn'[g] = turn[g]
  BY Recording
<1>3. failures[d] \subseteq Recorded(d) /\ Recorded(d) \subseteq Handler
  BY Zenon DEF DetectorInv, SliceInv, Slice, Recorded
<1>4. \A g \in Recorded(d) : turn'[g] = turn[g]
  BY <1>2, <1>3, Zenon
<1>5. HeadInv(a) /\ AnchorInv(a)
  BY DEF DetectorInv, AlertInv
<1>6. Heads(d)' = Heads(d)
  BY <1>2, <1>3, <1>4 DEF Heads
<1>7. HeadInv(a)'
  BY <1>1, <1>2, <1>5, <1>6, Zenon DEF HeadInv
<1>8. PICK g \in Recorded(d) :
        /\ at[g] = a.last
        /\ \A y \in failures[d] : turn[y] <= turn[g] => at[y] <= a.first + Window
  BY <1>1, <1>5, Zenon DEF AnchorInv
<1>9. \A y \in failures[d] : turn'[y] <= turn'[g] => at[y] <= a.first + Window
  BY <1>3, <1>4, <1>8, Zenon
<1>10. AnchorInv(a)'
  BY <1>1, <1>2, <1>8, <1>9, Zenon DEF AnchorInv
<1> QED
  BY <1>7, <1>10

LEMMA RecordSame ==
  ASSUME DetectorInv, NEW h \in Handler, NEW c, NEW K, NEW f, Records(h, c, K, f),
         NEW a \in Raised, a.client = c
  PROVE  HeadInv(a)' /\ AnchorInv(a)'
<1>1. /\ Recorded(c)' = Recorded(c) \cup {h} /\ failures'[c] = K \cup {h} /\ c \in Client
      /\ K \subseteq failures[c] /\ failures[c] \subseteq Recorded(c)
      /\ \A g \in Recorded(c) : turn'[g] = turn[g] /\ turn'[g] < turn'[h]
      /\ turn' \in [Handler -> Nat] /\ at' = at
  BY Recording
<1>2. HeadInv(a) /\ AnchorInv(a) /\ a \in Alert
  BY DEF DetectorInv, AlertInv, ClockInv, TypeOK, Raised
<1>3. a.first \in Time
  BY <1>2 DEF Alert
<1>4. at[f] \in Time /\ at[h] \in Time
  BY Front, Overtaken, Zenon
<1>5. PICK y \in Heads(c) : y = f \/ (at[y] < at[f] /\ at[y] + Window < at[h] /\ at[y] \in Time)
  BY <1>2, HeadMoves, Zenon DEF HeadInv
<1>6. /\ a.first <= at[y]
      /\ a.first < at[y] => \E g \in Recorded(c) : a.first + Window < at[g]
  BY <1>2, <1>5, Zenon DEF HeadInv
<1>7. /\ a.first <= at[f]
      /\ a.first < at[f] => \E g \in Recorded(c) \cup {h} : a.first + Window < at[g]
  <2>1. CASE y = f
    BY <1>6, <2>1, Zenon
  <2>2. CASE at[y] < at[f] /\ at[y] + Window < at[h] /\ at[y] \in Time
    <3>1. a.first <= at[f] /\ a.first + Window < at[h]
      BY <1>3, <1>4, <1>6, <2>2, Numbers
    <3> QED
      BY <3>1, Zenon
  <2> QED
    BY <1>5, <2>1, <2>2, Zenon
<1>8. HeadInv(a)'
  <2>1. Heads(c)' = {f} /\ failures'[c] # {}
    BY <1>1, NewHead, Zenon
  <2> QED
    BY <1>1, <1>7, <2>1, Zenon DEF HeadInv
<1>9. PICK g \in Recorded(c) :
        /\ at[g] = a.last
        /\ \A x \in failures[c] : turn[x] <= turn[g] => at[x] <= a.first + Window
  BY <1>2, Zenon DEF AnchorInv
<1>10. ASSUME NEW x \in failures'[c], turn'[x] <= turn'[g]
       PROVE  at[x] <= a.first + Window
  <2>1. turn'[g] < turn'[h] /\ turn'[g] \in Nat /\ turn'[h] \in Nat
    BY <1>1 DEF Recorded
  <2>2. ~(turn'[h] <= turn'[g])
    BY <2>1
  <2>3. x \in K
    BY <1>1, <1>10, <2>2, Zenon
  <2> QED
    BY <1>1, <1>9, <1>10, <2>3, Zenon
<1>11. AnchorInv(a)'
  BY <1>1, <1>9, <1>10, Zenon DEF AnchorInv
<1> QED
  BY <1>8, <1>11

LEMMA RecordAlerts ==
  ASSUME DetectorInv, NEW h \in Handler, NEW c, NEW K, NEW f, Records(h, c, K, f)
  PROVE  AlertInv'
<1>0. PICK new : new = NewAlert(h, c, K, f)
  BY Zenon
<1>1. /\ Recorded(c)' = Recorded(c) \cup {h} /\ failures'[c] = K \cup {h} /\ c \in Client
      /\ \A d \in Client \ {c} : Recorded(d)' = Recorded(d)
      /\ at' = at /\ now' = now
  BY Recording
<1>2. ASSUME NEW a \in Raised
      PROVE  Dated(a)' /\ Backed(a)' /\ HeadInv(a)' /\ AnchorInv(a)'
  <2>1. Dated(a) /\ Backed(a) /\ a \in Alert
    BY DEF DetectorInv, AlertInv, ClockInv, TypeOK, Raised
  <2>2. a.client \in Client
    BY <2>1 DEF Alert
  <2>3. Recorded(a.client) \subseteq Recorded(a.client)'
    BY <1>1, <2>2
  <2>4. Dated(a)'
    BY <1>1, <2>1, Zenon DEF Dated
  <2>5. Backed(a)'
    BY <1>1, <2>1, <2>3, Zenon DEF Backed
  <2> QED
    BY <2>2, <2>4, <2>5, RecordOther, RecordSame, Zenon
<1>3. ASSUME ~(Cardinality(K \cup {h}) < Threshold)
      PROVE  Dated(new)' /\ Backed(new)' /\ HeadInv(new)' /\ AnchorInv(new)'
  <2>2. /\ new.client = c /\ new.first = at[f] /\ new.last = at[h]
        /\ new.count = Cardinality(K \cup {h})
    BY <1>0 DEF NewAlert
  <2>3. /\ f \in K \cup {h} /\ at[f] \in Time /\ at[f] <= now
        /\ \A y \in K \cup {h} : at[y] <= at[f] + Window
    BY Front
  <2>4. at[h] \in Time /\ now \in Time /\ at[h] <= now /\ now <= at[h] + MaxLag
    BY Overtaken
  <2>5. /\ K \cup {h} \subseteq Recorded(c)' /\ Cardinality(K \cup {h}) \in Nat
        /\ \A g, x \in K \cup {h} : at[g] - at[x] <= Window + MaxLag
    BY Fresh, Zenon
  <2>6. Dated(new)'
    <3>1. at[h] <= now /\ at[f] <= at[h] + MaxLag /\ at[h] <= at[f] + Window
      BY <2>3, <2>4, Numbers
    <3> QED
      BY <1>1, <2>2, <3>1, Zenon DEF Dated
  <2>7. Backed(new)'
    <3>1. Cardinality(K \cup {h}) >= Threshold
      BY <1>3, <2>5, Numbers
    <3> QED
      BY <1>1, <2>2, <2>5, <3>1, Zenon DEF Backed
  <2>8. HeadInv(new)'
    <3>1. Heads(c)' = {f} /\ failures'[c] # {}
      BY <1>1, NewHead, Zenon
    <3>2. at[f] <= at[f] /\ ~(at[f] < at[f])
      BY <2>3, Numbers
    <3> QED
      BY <1>1, <2>2, <3>1, <3>2, Zenon DEF HeadInv
  <2>9. AnchorInv(new)'
    BY <1>1, <2>2, <2>3, Zenon DEF AnchorInv
  <2> QED
    BY <2>6, <2>7, <2>8, <2>9
<1>4. \/ Raised' = Raised
      \/ Raised' = Raised \cup {new} /\ ~(Cardinality(K \cup {h}) < Threshold)
  BY <1>0, Raising, Zenon
<1>5. ASSUME NEW a \in Raised'
      PROVE  Dated(a)' /\ Backed(a)' /\ HeadInv(a)' /\ AnchorInv(a)'
  <2>1. CASE a \in Raised
    BY <1>2, <2>1, Zenon
  <2>2. CASE a \notin Raised
    <3>1. a = new /\ ~(Cardinality(K \cup {h}) < Threshold)
      BY <1>4, <2>2, Zenon
    <3>2. Dated(new)' /\ Backed(new)' /\ HeadInv(new)' /\ AnchorInv(new)'
      BY <1>3, <3>1, Zenon
    <3> QED
      BY <3>1, <3>2
  <2> QED
    BY <2>1, <2>2, Zenon
<1> QED
  BY <1>5, Zenon DEF AlertInv

\* A new alert is spaced from every earlier one of the client.
LEMMA RecordSpacing ==
  ASSUME DetectorInv, NEW h \in Handler, NEW c, NEW K, NEW f, Records(h, c, K, f)
  PROVE  SpacingInv'
<1>1. PICK new : new = NewAlert(h, c, K, f)
  BY Zenon
<1>2. new.client = c /\ new.first = at[f] /\ new.last = at[h]
  BY <1>1 DEF NewAlert
<1>3. \/ Raised' = Raised
      \/ Raised' = Raised \cup {new} /\ <<c, Bucket(at[f])>> \notin alerted
  BY <1>1, Raising, Zenon
<1>4. ASSUME NEW a \in Raised, a.client = c, <<c, Bucket(at[f])>> \notin alerted
      PROVE  Bucket(a.first) # Bucket(new.first) /\ Spaced(a, new)
  <2>1. Bucket(a.first) # Bucket(at[f])
    BY <1>4, Zenon DEF DetectorInv, KeyInv
  <2>2. HeadInv(a)' /\ AnchorInv(a) /\ a \in Alert
    BY <1>4, RecordSame DEF DetectorInv, AlertInv, ClockInv, TypeOK, Raised
  <2>3. a.first \in Time /\ a.last \in Time
    BY <2>2 DEF Alert
  <2>4. /\ at[f] \in Time /\ f \in K \cup {h}
        /\ \A y \in K \cup {h} : turn'[f] <= turn'[y]
    BY Front
  <2>5. /\ at[h] \in Time /\ now \in Time /\ at[h] <= now /\ now <= at[h] + MaxLag
        /\ \A g \in Recorded(c) : at[g] \in Time /\ at[g] <= now
    BY Overtaken
  <2>6. /\ Recorded(c)' = Recorded(c) \cup {h} /\ at' = at /\ c \in Client
        /\ failures'[c] = K \cup {h}
    BY Recording
  <2>7. /\ a.first <= at[f]
        /\ a.first < at[f] => \E g \in Recorded(c) \cup {h} : a.first + Window < at[g]
    <3>1. Heads(a.client)' = {f} /\ Recorded(a.client)' = Recorded(c) \cup {h}
      BY <1>4, <2>6, NewHead
    <3> QED
      BY <2>2, <2>6, <3>1, Zenon DEF HeadInv
  <2>8. a.first # at[f]
    BY <2>1, Zenon
  <2>9. a.first < at[f]
    BY <2>3, <2>4, <2>7, <2>8, Numbers
  <2>10. PICK g \in Recorded(c) \cup {h} : a.first + Window < at[g]
    BY <2>7, <2>9, Zenon
  <2>11. at[g] \in Time /\ at[g] <= now
    BY <2>5
  <2>12. a.first + Window < at[h] + MaxLag
    BY <2>3, <2>5, <2>10, <2>11, Numbers
  <2>13. at[f] <= a.first + Window \/ a.last + Window < at[h] + MaxLag
    <3>1. AnchorInv(a)' /\ Slice(c)'
      BY <1>4, <2>6, RecordSame, RecordSlice, Zenon DEF SliceInv
    <3>2. PICK x \in Recorded(c)' :
            /\ at[x] = a.last
            /\ \A y \in failures'[c] : turn'[y] <= turn'[x] => at[y] <= a.first + Window
      BY <1>4, <2>6, <3>1, Zenon DEF AnchorInv
    <3>3. CASE x \in failures'[c]
      BY <2>4, <2>6, <3>2, <3>3, Zenon
    <3>4. CASE x \notin failures'[c]
      <4>1. PICK z \in Recorded(c)' : at[x] + Window < at[z]
        BY <2>6, <3>1, <3>2, <3>4, Zenon DEF Slice
      <4>2. at[z] \in Time /\ at[z] <= now
        BY <2>5, <2>6, <4>1
      <4> QED
        BY <2>3, <2>5, <3>2, <4>1, <4>2, Numbers
    <3> QED
      BY <3>3, <3>4, Zenon
  <2> QED
    BY <1>2, <2>1, <2>9, <2>12, <2>13, Zenon DEF Spaced
<1>5. ASSUME NEW a \in Raised', NEW b \in Raised', a # b, a.client = b.client
      PROVE  Bucket(a.first) # Bucket(b.first) /\ (Spaced(a, b) \/ Spaced(b, a))
  <2>1. CASE a \in Raised /\ b \in Raised
    BY <1>5, <2>1, Zenon DEF DetectorInv, SpacingInv
  <2>2. CASE a \in Raised /\ b \notin Raised
    BY <1>2, <1>3, <1>4, <1>5, <2>2, Zenon
  <2>3. CASE a \notin Raised /\ b \in Raised
    BY <1>2, <1>3, <1>4, <1>5, <2>3, Zenon
  <2>4. CASE a \notin Raised /\ b \notin Raised
    <3>1. a = new /\ b = new
      BY <1>3, <2>4
    <3> QED
      BY <1>5, <3>1
  <2> QED
    BY <2>1, <2>2, <2>3, <2>4, Zenon
<1> QED
  BY <1>5, Zenon DEF SpacingInv, Spaced, Bucket

\* When the last failure of a burst is recorded the others are still entries.
LEMMA BurstKept ==
  ASSUME DetectorInv, NEW h \in Handler, NEW c, NEW K, NEW f, Records(h, c, K, f),
         NEW H \in SUBSET (Recorded(c) \cup {h}), h \in H, Burst(H)
  PROVE  H \subseteq K \cup {h}
<1> SUFFICES ASSUME NEW x \in H, x # h PROVE x \in K
  OBVIOUS
<1>1. x \in Recorded(c) /\ at[h] - at[x] <= Window - MaxLag
  BY Zenon DEF Burst
<1>2. /\ at[h] \in Time /\ now \in Time /\ now <= at[h] + MaxLag
      /\ \A g \in Recorded(c) : at[g] \in Time /\ at[g] <= now
  BY Overtaken
<1>3. x \in failures[c]
  <2> SUFFICES ASSUME x \notin failures[c] PROVE FALSE
    BY Zenon
  <2>1. PICK g \in Recorded(c) : at[x] + Window < at[g]
    BY <1>1, Recording, Zenon DEF DetectorInv, SliceInv, Slice
  <2>2. at[g] \in Time /\ at[g] <= now /\ at[x] \in Time
    BY <1>1, <1>2
  <2> QED
    BY <1>1, <1>2, <2>1, <2>2, Numbers
<1>4. at[x] \in Time
  BY <1>1, <1>2
<1>5. at[x] >= at[h] - Window
  BY <1>1, <1>2, <1>4, Numbers
<1> QED
  BY <1>3, <1>5, Zenon DEF Records, Prune

\* The alert whose key keeps h silent, or the one h raises, answers the burst.
LEMMA BurstAnswered ==
  ASSUME DetectorInv, NEW h \in Handler, NEW c, NEW K, NEW f, Records(h, c, K, f),
         NEW H \in SUBSET (Recorded(c) \cup {h}), h \in H, Burst(H)
  PROVE  \E a \in Raised' : a.client = c /\ Answers(a, H)
<1>1. H \subseteq K \cup {h} /\ Cardinality(H) = Threshold
  BY BurstKept, Zenon DEF Burst
<1>2. IsFiniteSet(K \cup {h}) /\ Cardinality(K \cup {h}) \in Nat
  BY Fresh, Zenon
<1>3. Cardinality(H) <= Cardinality(K \cup {h})
  BY <1>1, <1>2, FS_Subset
<1>4. ~(Cardinality(K \cup {h}) < Threshold)
  BY <1>1, <1>2, <1>3, Numbers
<1>5. <<c, Bucket(at[f])>> \in alerted'
  BY <1>4, Raising
<1>6. PICK k : k = <<c, Bucket(at[f])>>
  BY Zenon
<1>7. k \in alerted' /\ k[1] = c /\ k[2] = Bucket(at[f])
  BY <1>5, <1>6
<1>8. PICK a \in Raised' : a.client = k[1] /\ Bucket(a.first) = k[2]
  BY <1>7, RecordKeys, Zenon DEF KeyInv, Bucket
<1>9. /\ a.client = c /\ Bucket(a.first) = Bucket(at[f])
      /\ a.last <= now /\ a.first <= a.last + MaxLag
  <2>1. Dated(a)' /\ now' = now
    BY RecordAlerts, Recording, Zenon DEF AlertInv
  <2> QED
    BY <1>7, <1>8, <2>1, Zenon DEF Dated
<1>10. a \in Alert
  BY RecordClock DEF ClockInv, TypeOK, Raised
<1>11. a.first \in Time /\ a.last \in Time
  BY <1>10 DEF Alert
<1>12. /\ at[f] \in Time
       /\ \A x \in K \cup {h} : at[x] <= at[f] + Window
  BY Front
<1>13. at[f] < a.first + Window
  BY <1>9, <1>11, <1>12, SameBucket, Zenon
<1>14. /\ at[h] \in Time /\ now \in Time /\ now <= at[h] + MaxLag
       /\ \A x \in K : at[x] \in Time
  BY Overtaken
<1>15. a.last <= at[h] + MaxLag
  BY <1>9, <1>11, <1>14, Numbers
<1>16. ASSUME NEW x \in H PROVE a.last > at[x] - 2 * Window - MaxLag
  <2>1. at[x] \in Time /\ at[x] <= at[f] + Window
    BY <1>1, <1>12, <1>14, Zenon
  <2> QED
    BY <1>9, <1>11, <1>12, <1>13, <2>1, Numbers
<1> QED
  BY <1>9, <1>15, <1>16, Zenon DEF Answers

LEMMA RecordNoticed ==
  ASSUME DetectorInv, NEW h \in Handler, NEW c, NEW K, NEW f, Records(h, c, K, f)
  PROVE  NoticedInv'
<1> SUFFICES ASSUME NEW d \in Client, NEW H \in SUBSET Recorded(d)', Burst(H)'
             PROVE  \E a \in Raised' : a.client = d /\ Answers(a, H)'
  BY Zenon DEF NoticedInv, Noticed
<1>1. /\ Recorded(c)' = Recorded(c) \cup {h} /\ at' = at
      /\ d # c => Recorded(d)' = Recorded(d)
  BY Recording
<1>2. Burst(H) /\ \A a : Answers(a, H) => Answers(a, H)'
  BY <1>1, Zenon DEF Burst, Answers
<1>3. Raised \subseteq Raised'
  BY Raising
<1>4. CASE d = c /\ h \in H
  BY <1>1, <1>2, <1>4, BurstAnswered
<1>5. CASE ~(d = c /\ h \in H)
  <2>1. H \in SUBSET Recorded(d)
    BY <1>1, <1>5
  <2>2. PICK a \in Raised : a.client = d /\ Answers(a, H)
    BY <1>2, <2>1, Zenon DEF DetectorInv, NoticedInv, Noticed
  <2> QED
    BY <1>2, <1>3, <2>2, Zenon
<1> QED
  BY <1>4, <1>5, Zenon

-----------------------------------------------------------------------------
(* Every step.                                                             *)

LEMMA DetectorRecord ==
  ASSUME DetectorInv, NEW h \in Handler, RecordFailureAt(h)
  PROVE  DetectorInv'
<1>1. PICK c : c = client[h]
  BY Zenon
<1>2. PICK K : K = Prune(h)
  BY Zenon
<1>3. PICK f : f = First(K, h)
  BY Zenon
<1>4. Records(h, c, K, f)
  BY <1>1, <1>2, <1>3, Zenon DEF Records
<1> QED
  BY <1>4, RecordClock, RecordSlice, RecordKeys, RecordAlerts, RecordSpacing, RecordNoticed,
     Zenon DEF DetectorInv

LEMMA DetectorStamp ==
  ASSUME DetectorInv, NEW h \in Handler, RecordFailure(h)
  PROVE  DetectorInv'
<1>1. TypeOK /\ ClockInv
  BY DEF DetectorInv, ClockInv
<1>2. /\ pc[h] = "ready" /\ pc' = [pc EXCEPT ![h] = "stamped"]
      /\ at' = [at EXCEPT ![h] = now] /\ client' = client /\ now' = now
      /\ failures' = failures /\ turn' = turn /\ alerted' = alerted
      /\ pending' = pending /\ published' = published
  BY DEF RecordFailure, detector
<1>3. now \in Nat
  BY <1>1, Numbers DEF TypeOK
<1>4. TypeOK'
  BY <1>1, <1>2 DEF TypeOK
<1>5. now <= now /\ now <= now + MaxLag
  BY <1>3, Numbers
<1>6. /\ pc'[h] = "stamped" /\ at'[h] = now
      /\ \A g \in Handler : g # h => pc'[g] = pc[g] /\ at'[g] = at[g]
  BY <1>1, <1>2 DEF TypeOK
<1>7. ClockInv'
  BY <1>1, <1>2, <1>4, <1>5, <1>6, Zenon DEF ClockInv
<1>8. \A c \in Client : Recorded(c)' = Recorded(c)
  BY <1>2, <1>6 DEF Recorded
<1>9. \A c \in Client : \A g \in Recorded(c) : at'[g] = at[g]
  BY <1>2, <1>6 DEF Recorded
<1>10. Raised' = Raised /\ now <= now'
  BY <1>2, <1>5, Zenon DEF Raised
<1> QED
  BY <1>2, <1>7, <1>8, <1>9, <1>10, DetectorFrame

LEMMA DetectorPublish ==
  ASSUME DetectorInv, NEW a \in pending, PublishAlert(a)
  PROVE  DetectorInv'
<1>1. TypeOK /\ ClockInv
  BY DEF DetectorInv, ClockInv
<1>2. /\ pending' = pending \ {a} /\ published' = published \cup {a}
      /\ failures' = failures /\ turn' = turn /\ alerted' = alerted
      /\ pc' = pc /\ client' = client /\ at' = at /\ now' = now
  BY DEF PublishAlert, handlers
<1>3. TypeOK'
  BY <1>1, <1>2 DEF TypeOK
<1>4. ClockInv'
  BY <1>1, <1>2, <1>3, Zenon DEF ClockInv
<1>5. Raised' = Raised
  BY <1>2 DEF Raised
<1>6. now <= now'
  BY <1>1, <1>2, Numbers DEF TypeOK
<1>7. \A c \in Client : Recorded(c)' = Recorded(c)
  BY <1>2, Zenon DEF Recorded
<1> QED
  BY <1>2, <1>4, <1>5, <1>6, <1>7, DetectorFrame

LEMMA DetectorTick == DetectorInv /\ Tick => DetectorInv'
<1> SUFFICES ASSUME DetectorInv, Tick PROVE DetectorInv'
  OBVIOUS
<1>1. TypeOK /\ ClockInv
  BY DEF DetectorInv, ClockInv
<1>2. /\ now < MaxTime /\ now' = now + 1
      /\ \A h \in Handler : pc[h] = "stamped" => now - at[h] < MaxLag
      /\ failures' = failures /\ turn' = turn /\ alerted' = alerted
      /\ pending' = pending /\ published' = published
      /\ pc' = pc /\ client' = client /\ at' = at
  BY DEF Tick, detector, handlers
<1>3. now \in Nat /\ now' \in Time /\ now <= now'
  BY <1>1, <1>2, Numbers DEF TypeOK, Time
<1>4. TypeOK'
  BY <1>1, <1>2, <1>3, Zenon DEF TypeOK
<1>5. ASSUME NEW h \in Handler
      PROVE  /\ pc[h] # "ready" => at[h] <= now'
             /\ pc[h] = "stamped" => now' <= at[h] + MaxLag
  <2>1. /\ pc[h] # "ready" => at[h] <= now
        /\ pc[h] = "stamped" => now - at[h] < MaxLag
        /\ at[h] \in Time
    BY <1>1, <1>2 DEF ClockInv, TypeOK
  <2>2. \A t \in Time : (t <= now => t <= now') /\ (now - t < MaxLag => now' <= t + MaxLag)
    BY <1>2, <1>3, Numbers, OneLater, Zenon
  <2> QED
    BY <2>1, <2>2, Zenon
<1>6. ClockInv'
  BY <1>2, <1>4, <1>5, Zenon DEF ClockInv
<1>7. Raised' = Raised /\ \A c \in Client : Recorded(c)' = Recorded(c)
  BY <1>2, Zenon DEF Raised, Recorded
<1> QED
  BY <1>2, <1>3, <1>6, <1>7, DetectorFrame

LEMMA DetectorStutter == DetectorInv /\ UNCHANGED vars => DetectorInv'
<1> SUFFICES ASSUME DetectorInv, UNCHANGED vars PROVE DetectorInv'
  OBVIOUS
<1>1. /\ failures' = failures /\ turn' = turn /\ alerted' = alerted
      /\ pending' = pending /\ published' = published
      /\ pc' = pc /\ client' = client /\ at' = at /\ now' = now
  BY DEF vars, detector, handlers
<1>2. ClockInv /\ now <= now'
  BY <1>1, Numbers DEF DetectorInv, ClockInv, TypeOK
<1>3. ClockInv'
  BY <1>1, <1>2, Zenon DEF ClockInv, TypeOK
<1>4. Raised' = Raised /\ \A c \in Client : Recorded(c)' = Recorded(c)
  BY <1>1, Zenon DEF Raised, Recorded
<1> QED
  BY <1>1, <1>2, <1>3, <1>4, DetectorFrame

LEMMA DetectorStep == DetectorInv /\ [Next]_vars => DetectorInv'
<1> SUFFICES ASSUME DetectorInv, [Next]_vars PROVE DetectorInv'
  OBVIOUS
<1>1. \/ \E h \in Handler : RecordFailure(h)
      \/ \E h \in Handler : RecordFailureAt(h)
      \/ \E a \in pending : PublishAlert(a)
      \/ Tick
      \/ UNCHANGED vars
  BY Zenon DEF Next
<1> QED
  BY <1>1, DetectorStamp, DetectorRecord, DetectorPublish, DetectorTick, DetectorStutter, Zenon

LEMMA DetectorInductive == Spec => []DetectorInv
  BY DetectorInitially, DetectorStep, PTL DEF Spec

-----------------------------------------------------------------------------
(* The alerts of any Window seconds.                                       *)

\* The alerts of c for failures of the Window seconds from t.
Within(c, t) == {a \in Raised : a.client = c /\ a.last \in t..(t + Window - 1)}

\* Alerts of distinct buckets are no more than the buckets.
LEMMA CountBuckets ==
  ASSUME NEW S, NEW p \in Int, NEW q \in Int, p <= q,
         \A a \in S : Bucket(a.first) \in p..q,
         \A a, b \in S : a # b => Bucket(a.first) # Bucket(b.first)
  PROVE  IsFiniteSet(S) /\ Cardinality(S) \in Nat /\ Cardinality(S) <= q - p + 1
<1> DEFINE g == [a \in S |-> Bucket(a.first)]
<1>1. g \in [S -> p..q] /\ \A a, b \in S : g[a] = g[b] => a = b
  BY Zenon
<1>2. g \in Injection(S, p..q)
  BY <1>1, Zenon DEF Injection, IsInjective
<1>3. IsFiniteSet(p..q) /\ Cardinality(p..q) = q - p + 1
  BY FS_Interval
<1> HIDE DEF g
<1>4. IsFiniteSet(S) /\ Cardinality(S) <= Cardinality(p..q)
  BY <1>2, <1>3, FS_Injection, Zenon
<1> QED
  BY <1>3, <1>4, FS_CardinalityType

LEMMA WithinFacts ==
  ASSUME DetectorInv, NEW c \in Client, NEW t \in Time
  PROVE  /\ \A a \in Within(c, t) :
              /\ a.first \in Time /\ a.last \in Time /\ t <= a.last /\ a.last < t + Window
              /\ a.last <= a.first + Window
         /\ \A a, b \in Within(c, t) : a # b =>
              Bucket(a.first) # Bucket(b.first) /\ (Spaced(a, b) \/ Spaced(b, a))
<1>1. ASSUME NEW a \in Within(c, t)
      PROVE  /\ a.first \in Time /\ a.last \in Time /\ t <= a.last /\ a.last < t + Window
             /\ a.last <= a.first + Window
  <2>1. a \in Raised /\ a.last \in t..(t + Window - 1)
    BY DEF Within
  <2>2. a \in Alert /\ Dated(a)
    BY <2>1 DEF DetectorInv, ClockInv, TypeOK, AlertInv, Raised
  <2>3. a.first \in Time /\ a.last \in Time /\ a.last <= a.first + Window
    BY <2>2 DEF Alert, Dated
  <2> QED
    BY <2>1, <2>3, Numbers
<1>2. \A a, b \in Within(c, t) : a # b =>
        Bucket(a.first) # Bucket(b.first) /\ (Spaced(a, b) \/ Spaced(b, a))
  BY Zenon DEF DetectorInv, SpacingInv, Within
<1> QED
  BY <1>1, <1>2

\* With waits of a second at most, the first failures of the alerts lie within a
\* window of the earliest one, which meets two buckets.
LEMMA TwoAlerts ==
  ASSUME DetectorInv, MaxLag <= 1, NEW c \in Client, NEW t \in Time
  PROVE  Cardinality(Within(c, t)) <= 2
<1> DEFINE S == Within(c, t)
<1>1. /\ \A a \in S : a.first \in Time /\ a.last \in Time /\ t <= a.last /\ a.last < t + Window
      /\ \A a, b \in S : a # b =>
           Bucket(a.first) # Bucket(b.first) /\ (Spaced(a, b) \/ Spaced(b, a))
  BY WithinFacts
<1> HIDE DEF S
<1>2. CASE S = {}
  BY <1>2, FS_EmptySet DEF S
<1>3. CASE S # {}
  <2> DEFINE T == {a.first : a \in S}
  <2>1. T \subseteq Nat /\ T # {}
    BY <1>1, <1>3, Numbers, Zenon
  <2>2. PICK n \in T : \A m \in T : n <= m
    BY <2>1, Least, Zenon
  <2>3. PICK e \in S : \A a \in S : e.first <= a.first
    BY <2>2, Zenon
  <2>4. PICK p \in Nat : p = Bucket(e.first)
    BY <1>1, BucketNat, Zenon
  <2>5. ASSUME NEW a \in S PROVE e.first <= a.first /\ a.first <= e.first + Window
    <3>1. e.first \in Time /\ a.first \in Time /\ e.first <= a.first
      BY <1>1, <2>3, Zenon
    <3>2. CASE a = e
      BY <3>1, <3>2, Numbers
    <3>3. CASE a # e
      <4>1. Spaced(e, a) \/ Spaced(a, e)
        BY <1>1, <3>3, Zenon
      <4>2. ~Spaced(a, e)
        BY <3>1, Numbers DEF Spaced
      <4>3. a.first <= e.first + Window \/ e.last + Window < a.last + MaxLag
        BY <4>1, <4>2, Zenon DEF Spaced
      <4>4. e.last \in Time /\ a.last \in Time /\ t <= e.last /\ a.last < t + Window
        BY <1>1, Zenon
      <4>5. ~(e.last + Window < a.last + MaxLag)
        BY <4>4, Numbers
      <4> QED
        BY <3>1, <4>3, <4>5, Zenon
    <3> QED
      BY <3>2, <3>3, Zenon
  <2>6. ASSUME NEW a \in S PROVE Bucket(a.first) \in p..(p + 1)
    <3>1. /\ e.first \in Int /\ a.first \in Int
          /\ e.first <= a.first /\ a.first <= e.first + Window
      BY <1>1, <2>5, Numbers
    <3> QED
      BY <2>4, <3>1, Numbers, QuotientNext, Zenon DEF Bucket
  <2>7. PICK q \in Int : q = p + 1 /\ p <= q /\ p \in Int /\ q - p + 1 = 2
    OBVIOUS
  <2>8. \A a, b \in S : a # b => Bucket(a.first) # Bucket(b.first)
    BY <1>1, Zenon
  <2>9. Cardinality(S) <= q - p + 1
    BY <2>6, <2>7, <2>8, CountBuckets, Zenon
  <2> QED
    BY <2>7, <2>9 DEF S
<1> QED
  BY <1>2, <1>3

\* In general only the alert with the latest first failure escapes the buckets
\* from a window before t to the longest wait after it.
LEMMA ManyAlerts ==
  ASSUME DetectorInv, MaxLag > 1, NEW c \in Client, NEW t \in Time
  PROVE  Cardinality(Within(c, t)) <= 3 + ((MaxLag + Window - 3) \div Window)
<1> DEFINE S == Within(c, t)
<1>1. /\ \A a \in S : /\ a.first \in Time /\ a.last \in Time
                       /\ t <= a.last /\ a.last < t + Window /\ a.last <= a.first + Window
      /\ \A a, b \in S : a # b =>
           Bucket(a.first) # Bucket(b.first) /\ (Spaced(a, b) \/ Spaced(b, a))
  BY WithinFacts
<1> HIDE DEF S
<1>2. PICK m \in Nat : m = (MaxLag + Window - 3) \div Window
  BY Numbers, SpareBuckets, Zenon
<1>3. CASE S = {}
  <2>1. Cardinality(S) = 0
    BY <1>3, FS_EmptySet
  <2> QED
    BY <1>2, <2>1 DEF S
<1>4. CASE S # {}
  <2> DEFINE T == {MaxTime - a.first : a \in S}
  <2>1. \A n \in Time : MaxTime - n \in Nat
    BY Numbers DEF Time
  <2>2. T \subseteq Nat /\ T # {}
    BY <1>1, <1>4, <2>1, Zenon
  <2>3. PICK n \in T : \A k \in T : n <= k
    BY <2>2, Least, Zenon
  <2>4. PICK e \in S : \A a \in S : MaxTime - e.first <= MaxTime - a.first
    BY <2>3, Zenon
  <2>5. ASSUME NEW a \in S, a # e
        PROVE  /\ a.first \in Int /\ t - Window <= a.first
               /\ a.first <= t + MaxLag - 2
    <3>1. /\ a.first \in Time /\ a.last \in Time /\ t <= a.last /\ a.last <= a.first + Window
          /\ e.first \in Time /\ e.last \in Time /\ e.last < t + Window
      BY <1>1, Zenon
    <3>2. MaxTime - e.first <= MaxTime - a.first
      BY <2>4, Zenon
    <3>3. a.first <= e.first
      BY <3>1, <3>2, Numbers
    <3>4. ~Spaced(e, a)
      BY <3>1, <3>3, Numbers DEF Spaced
    <3>5. a.first + Window < e.last + MaxLag
      BY <1>1, <2>5, <3>4, Zenon DEF Spaced
    <3> QED
      BY <3>1, <3>5, Numbers
  <2>6. PICK p \in Int : p = (t - Window) \div Window
    <3>1. t - Window \in Int
      BY Numbers
    <3> QED
      BY <3>1, Numbers, Quotient, Zenon
  <2>7. PICK q \in Int : q = p + 1 + m /\ p <= q /\ q - p + 1 = m + 2
    OBVIOUS
  <2>8. ASSUME NEW a \in S \ {e} PROVE Bucket(a.first) \in p..q
    BY <1>2, <2>5, <2>6, <2>7, Numbers, SpanBuckets, Zenon DEF Bucket
  <2>9. \A a, b \in S \ {e} : a # b => Bucket(a.first) # Bucket(b.first)
    BY <1>1, Zenon
  <2>10. /\ IsFiniteSet(S \ {e}) /\ Cardinality(S \ {e}) \in Nat
         /\ Cardinality(S \ {e}) <= q - p + 1
    BY <2>7, <2>8, <2>9, CountBuckets, Zenon
  <2>11. Cardinality((S \ {e}) \cup {e}) = Cardinality(S \ {e}) + 1
    BY <2>10, FS_AddElement
  <2>12. (S \ {e}) \cup {e} = S
    BY Zenon
  <2> QED
    <3>1. PICK k \in Nat : k = Cardinality(S \ {e})
      BY <2>10, Zenon
    <3>2. k <= m + 2
      BY <2>7, <2>10, <3>1
    <3>3. Cardinality(S) = k + 1
      BY <2>11, <2>12, <3>1, Zenon
    <3>4. Cardinality(S) <= 3 + m
      BY <3>2, <3>3
    <3> QED
      BY <1>2, <3>4, Zenon DEF S
<1> QED
  BY <1>3, <1>4

-----------------------------------------------------------------------------
(* The theorems.                                                           *)

\* Detection (brute_force.go:3-4): Threshold failures of one client within the
\* window are alerted, for every number of concurrent handlers, every order in
\* which they get the mutex and every window.
THEOREM BurstsNoticed == Spec => []BurstAlerted
<1>1. DetectorInv => BurstAlerted
  <2> SUFFICES ASSUME DetectorInv, NEW c \in Client, NEW H \in SUBSET Recorded(c),
                      Cardinality(H) = Threshold,
                      \A t, u \in {at[h] : h \in H} : t - u <= Window - MaxLag
               PROVE  \E a \in Raised :
                        /\ a.client = c
                        /\ \E t \in {at[h] : h \in H} : a.last <= t + MaxLag
                        /\ \A t \in {at[h] : h \in H} : a.last > t - 2 * Window - MaxLag
    BY Zenon DEF BurstAlerted
  <2>1. Burst(H)
    BY Zenon DEF Burst
  <2>2. PICK a \in Raised : a.client = c /\ Answers(a, H)
    BY <2>1, Zenon DEF DetectorInv, NoticedInv, Noticed
  <2> QED
    BY <2>2, Zenon DEF Answers
<1> QED
  BY <1>1, DetectorInductive, PTL

\* No false alarm (brute_force.go:101-103): every alert counts recorded failures
\* of its client that lie as close as the window and the waits allow.
THEOREM AlarmsJustified == Spec => []AlertBacked
<1>1. DetectorInv => AlertBacked
  BY Zenon DEF DetectorInv, ClockInv, AlertInv, Backed, AlertBacked
<1> QED
  BY <1>1, DetectorInductive, PTL

\* The dedup key (brute_force.go:105-113) limits the alerts of one client, for
\* every window, threshold and length of the waits.
THEOREM AlertsSpread == Spec => []AlertsBounded
<1>1. DetectorInv => AlertsBounded
  <2> SUFFICES ASSUME DetectorInv, NEW c \in Client, NEW t \in Time
               PROVE  Cardinality(Within(c, t)) <=
                        IF MaxLag <= 1 THEN 2 ELSE 3 + ((MaxLag + Window - 3) \div Window)
    BY Zenon DEF AlertsBounded, Within
  <2>1. CASE MaxLag <= 1
    BY <2>1, TwoAlerts, Zenon
  <2>2. CASE ~(MaxLag <= 1)
    <3>1. MaxLag > 1
      BY <2>2, Numbers
    <3> QED
      BY <2>2, <3>1, ManyAlerts, Zenon
  <2> QED
    BY <2>1, <2>2
<1> QED
  BY <1>1, DetectorInductive, PTL
=============================================================================
