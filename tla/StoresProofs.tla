---------------------------- MODULE StoresProofs ----------------------------
(***************************************************************************)
(* The implementations of broker.Store keep the contract of the interface  *)
(* and agree with one another, for every set of ids, nonces and values and *)
(* any number of revocations.                                              *)
(***************************************************************************)
EXTENDS Stores, FiniteSetTheorems, TLAPS

MemState ==
  [rows : Rows, revs : Seq(Entry), revokedIDs : SUBSET (Sigil \cup Cap), nonces : SUBSET Nonce]
PgState ==
  [rows : Rows, revocation_entries : SUBSET Entry, consumed_nonces : SUBSET Nonce]
PgsState ==
  [rows : Rows, hanko_revocations : Seq(Entry), consumed_nonces : SUBSET Nonce,
   hanko_audit : SUBSET Nonce]

StateInv ==
  /\ mem \in MemState /\ pg \in PgState /\ pgs \in PgsState
  /\ mem.rows = pg.rows

\* The index of MemStore, its list and the table of PgStore hold the same ids,
\* among them the acknowledged ones; the table has finitely many rows, one per id.
RevocationInv ==
  /\ revokes \in 0..MaxRevokes
  /\ acked \in [Store -> SUBSET (Sigil \cup Cap)]
  /\ mem.revokedIDs = Listed(mem.revs)
  /\ mem.revokedIDs = {e.id : e \in pg.revocation_entries}
  /\ IsFiniteSet(pg.revocation_entries)
  /\ \A e, f \in pg.revocation_entries : e.id = f.id => e = f
  /\ acked["mem"] \subseteq mem.revokedIDs
  /\ acked["pg"] \subseteq mem.revokedIDs
  /\ acked["pgs"] \subseteq Listed(pgs.hanko_revocations)

\* A nonce was won once at most, and only if the store has recorded it.
NonceInv ==
  /\ wins \in [Store -> [Nonce -> Nat]]
  /\ mem.nonces = pg.consumed_nonces
  /\ wins["mem"] = wins["pg"]
  /\ \A n \in Nonce :
       /\ wins["mem"][n] \in 0..1 /\ wins["pgs"][n] \in 0..1
       /\ wins["mem"][n] = 1 => n \in mem.nonces
       /\ wins["pgs"][n] = 1 => n \in pgs.consumed_nonces

StoresInv == StateInv /\ RevocationInv /\ NonceInv

-----------------------------------------------------------------------------
(* Operators.                                                              *)

\* A list made of a finite set names what the set names.
LEMMA ListedSet ==
  ASSUME NEW S, IsFiniteSet(S)
  PROVE  Listed(SetToSeq(S)) = {e.id : e \in S}
<1> DEFINE n == Cardinality(S)
           f == SetToSeq(S)
<1>1. n \in Nat /\ ExistsBijection(1..n, S)
  BY FS_CardinalityType
<1>2. \E g \in [1..n -> S] : IsInjective(g)
  BY <1>1 DEF ExistsBijection, Bijection, Injection
<1>3. f \in [1..n -> S] /\ IsInjective(f)
  BY <1>2 DEF SetToSeq
<1>4. f \in Injection(1..n, S)
  BY <1>3 DEF Injection
<1>5. IsFiniteSet(1..n) /\ Cardinality(1..n) = n
  BY <1>1, FS_Interval
<1> HIDE DEF f, n
<1>6. f \in Surjection(1..n, S)
  BY <1>4, <1>5, FS_Injection DEF n
<1>7. \A e \in S : \E i \in 1..n : f[i] = e
  BY <1>6 DEF Surjection
<1>8. Listed(f) = {e.id : e \in S}
  BY <1>3, <1>7 DEF Listed
<1> QED
  BY <1>8 DEF f

LEMMA ListedReverse ==
  ASSUME NEW s \in Seq(Entry)
  PROVE  Listed(Reverse(s)) = Listed(s)
<1>1. Len(s) \in Nat /\ DOMAIN s = 1..Len(s)
  OBVIOUS
<1>2. /\ DOMAIN Reverse(s) = 1..Len(s)
      /\ \A i \in 1..Len(s) : Reverse(s)[i] = s[(Len(s) - i) + 1]
  BY <1>1 DEF Reverse
<1>3. \A i \in 1..Len(s) : (Len(s) - i) + 1 \in 1..Len(s)
  BY <1>1
<1>4. \A i \in 1..Len(s) : s[i] = Reverse(s)[(Len(s) - i) + 1]
  <2> SUFFICES ASSUME NEW i \in 1..Len(s) PROVE s[i] = Reverse(s)[(Len(s) - i) + 1]
    OBVIOUS
  <2>1. (Len(s) - ((Len(s) - i) + 1)) + 1 = i
    BY <1>1
  <2> QED
    BY <1>2, <1>3, <2>1
<1> QED
  BY <1>1, <1>2, <1>3, <1>4 DEF Listed

LEMMA ListedAppend ==
  ASSUME NEW s \in Seq(Entry), NEW e \in Entry
  PROVE  Listed(Append(s, e)) = Listed(s) \cup {e.id}
<1>1. /\ Len(s) \in Nat /\ DOMAIN s = 1..Len(s) /\ DOMAIN Append(s, e) = 1..(Len(s) + 1)
      /\ Append(s, e)[Len(s) + 1] = e
      /\ \A i \in 1..Len(s) : Append(s, e)[i] = s[i]
  OBVIOUS
<1>2. \A i \in DOMAIN Append(s, e) : i \in DOMAIN s \/ i = Len(s) + 1
  BY <1>1
<1>3. DOMAIN s \subseteq DOMAIN Append(s, e) /\ Len(s) + 1 \in DOMAIN Append(s, e)
  BY <1>1
<1> QED
  BY <1>1, <1>2, <1>3 DEF Listed

-----------------------------------------------------------------------------
(* Initial states.                                                         *)

LEMMA StoresInit == Init => StoresInv
<1> SUFFICES ASSUME Init PROVE StoresInv
  OBVIOUS
<1>1. Blank \in Rows
  BY DEF Blank, Rows
<1>2. << >> \in Seq(Entry)
  OBVIOUS
<1>3. StateInv
  BY <1>1, <1>2 DEF Init, StateInv, MemState, PgState, PgsState
<1>4. Listed(<< >>) = {} /\ {e.id : e \in {}} = {}
  BY DEF Listed
<1>5. RevocationInv
  BY <1>4, FS_EmptySet, StoresAssumption DEF Init, RevocationInv, Store
<1>6. NonceInv
  BY DEF Init, NonceInv, Store
<1> QED
  BY <1>3, <1>5, <1>6 DEF StoresInv

-----------------------------------------------------------------------------
(* SaveSigil and SaveCap write rows and nothing else.                      *)

RowsOnly ==
  /\ mem'.revs = mem.revs /\ mem'.revokedIDs = mem.revokedIDs /\ mem'.nonces = mem.nonces
  /\ pg'.revocation_entries = pg.revocation_entries
  /\ pg'.consumed_nonces = pg.consumed_nonces
  /\ pgs'.hanko_revocations = pgs.hanko_revocations
  /\ pgs'.consumed_nonces = pgs.consumed_nonces
  /\ UNCHANGED <<revokes, acked, wins>>

LEMMA RowsOnlyKeeps == ASSUME StoresInv, RowsOnly PROVE RevocationInv' /\ NonceInv'
<1>0. /\ Listed(mem'.revs) = Listed(mem.revs)
      /\ Listed(pgs'.hanko_revocations) = Listed(pgs.hanko_revocations)
  BY DEF RowsOnly
<1>1. RevocationInv'
  <2>1. IsFiniteSet(pg'.revocation_entries)
    BY DEF StoresInv, RevocationInv, RowsOnly
  <2> QED
    BY <1>0, <2>1 DEF StoresInv, RevocationInv, RowsOnly
<1>2. NonceInv'
  BY DEF StoresInv, NonceInv, RowsOnly
<1> QED
  BY <1>1, <1>2

LEMMA StoresSaveSigil ==
  ASSUME StoresInv, NEW s \in Sigil, NEW v \in Value, SaveSigil(s, v)
  PROVE  StoresInv'
<1> DEFINE r == [sigils |-> [mem.rows.sigils EXCEPT ![s] = v], caps |-> mem.rows.caps]
<1>0. mem \in MemState /\ pg \in PgState /\ pgs \in PgsState /\ mem.rows = pg.rows
  BY DEF StoresInv, StateInv
<1>1. mem' \in MemState /\ mem'.rows = r
  BY <1>0, Zenon DEF SaveSigil, MemSaveSigil, MemState, Rows
<1>2. pg' \in PgState /\ pg'.rows = r
  BY <1>0 DEF SaveSigil, PgSaveSigil, PgState, Rows
<1>3. pgs' \in PgsState
  BY <1>0 DEF SaveSigil, PgsSaveSigil, PgsState, Rows
<1>4. RowsOnly
  BY <1>0 DEF SaveSigil, MemSaveSigil, PgSaveSigil, PgsSaveSigil, MemState, PgState, PgsState, RowsOnly
<1> QED
  BY <1>0, <1>1, <1>2, <1>3, <1>4, RowsOnlyKeeps, Zenon DEF StoresInv, StateInv

\* The sigil GetSigil found in one store is in the other: PgStore does not
\* refuse what MemStore accepts.
LEMMA StoresSaveCap ==
  ASSUME StoresInv, NEW c \in Cap, NEW v \in Value, SaveCap(c, v)
  PROVE  StoresInv'
<1> DEFINE r == [sigils |-> mem.rows.sigils, caps |-> [mem.rows.caps EXCEPT ![c] = v]]
<1>0. mem \in MemState /\ pg \in PgState /\ pgs \in PgsState /\ mem.rows = pg.rows
  BY DEF StoresInv, StateInv
<1>1. mem' \in MemState /\ mem'.rows = r
  BY <1>0, Zenon DEF SaveCap, MemSaveCap, MemState, Rows
<1>2. pg' = [pg EXCEPT !.rows.caps[c] = v]
  BY <1>0 DEF SaveCap, PgSaveCap
<1>3. pg' \in PgState /\ pg'.rows = r
  BY <1>0, <1>2 DEF PgState, Rows
<1>4. \E w \in Value \cup {None} : pgs' = [pgs EXCEPT !.rows.caps[c] = w]
  <2>1. pgs.rows.caps[c] \in Value \cup {None}
    BY <1>0 DEF PgsState, Rows
  <2> QED
    BY <2>1 DEF SaveCap, PgsSaveCap
<1>5. /\ pgs' \in PgsState /\ pgs'.hanko_revocations = pgs.hanko_revocations
      /\ pgs'.consumed_nonces = pgs.consumed_nonces
  BY <1>0, <1>4 DEF PgsState, Rows
<1>6. RowsOnly
  BY <1>0, <1>2, <1>5 DEF SaveCap, MemSaveCap, MemState, PgState, RowsOnly
<1> QED
  BY <1>1, <1>3, <1>5, <1>6, RowsOnlyKeeps, Zenon DEF StoresInv, StateInv

-----------------------------------------------------------------------------
(* Revoke.                                                                 *)

LEMMA StoresRevoke ==
  ASSUME StoresInv, NEW e \in Entry, Revoke(e)
  PROVE  StoresInv'
<1>0. mem \in MemState /\ pg \in PgState /\ pgs \in PgsState /\ mem.rows = pg.rows
  BY DEF StoresInv, StateInv
<1>1. e.id \in Sigil \cup Cap
  BY DEF Entry
<1>2. /\ mem'.rows = mem.rows /\ mem'.nonces = mem.nonces
      /\ mem'.revs = Append(mem.revs, e) /\ mem'.revokedIDs = mem.revokedIDs \cup {e.id}
  BY <1>0, Zenon DEF Revoke, MemRevoke, MemState
<1>3. mem.revs \in Seq(Entry) /\ Append(mem.revs, e) \in Seq(Entry)
  BY <1>0 DEF MemState
<1>4. mem' \in MemState
  <2>1. mem.revokedIDs \cup {e.id} \in SUBSET (Sigil \cup Cap)
    BY <1>0, <1>1 DEF MemState
  <2> QED
    BY <1>0, <1>3, <2>1, Zenon DEF Revoke, MemRevoke, MemState
<1>5. /\ pg'.rows = pg.rows /\ pg'.consumed_nonces = pg.consumed_nonces
      /\ pg'.revocation_entries = IF \E f \in pg.revocation_entries : f.id = e.id
                                  THEN pg.revocation_entries ELSE pg.revocation_entries \cup {e}
  BY <1>0, Zenon DEF Revoke, PgRevoke, PgState
<1>6. pg' \in PgState
  <2>1. pg'.revocation_entries \in SUBSET Entry
    BY <1>0, <1>5 DEF PgState
  <2> QED
    BY <1>0, <1>5, <2>1, Zenon DEF Revoke, PgRevoke, PgState
<1>7. /\ pgs'.rows = pgs.rows /\ pgs'.consumed_nonces = pgs.consumed_nonces
      /\ pgs'.hanko_revocations = IF PgsAccepts(e) THEN Append(pgs.hanko_revocations, e)
                                  ELSE pgs.hanko_revocations
  BY <1>0, Zenon DEF Revoke, PgsRevoke, PgsState
<1>8. pgs.hanko_revocations \in Seq(Entry) /\ Append(pgs.hanko_revocations, e) \in Seq(Entry)
  BY <1>0 DEF PgsState
<1>9. pgs' \in PgsState
  <2>1. pgs'.hanko_revocations \in Seq(Entry)
    BY <1>7, <1>8, Zenon
  <2> QED
    BY <1>0, <1>7, <2>1, Zenon DEF Revoke, PgsRevoke, PgsState
<1>10. StateInv'
  BY <1>0, <1>2, <1>4, <1>5, <1>6, <1>9, Zenon DEF StateInv
<1>11. NonceInv'
  BY <1>2, <1>5, <1>7, Zenon DEF StoresInv, NonceInv, Revoke
<1>12. RevocationInv
  BY Zenon DEF StoresInv
<1>13. mem'.revokedIDs = Listed(mem'.revs)
  <2>1. mem.revokedIDs = Listed(mem.revs)
    BY <1>12, Zenon DEF RevocationInv
  <2>2. Listed(Append(mem.revs, e)) = Listed(mem.revs) \cup {e.id}
    BY <1>3, ListedAppend
  <2> QED
    BY <1>2, <2>1, <2>2, Zenon
<1>14. mem'.revokedIDs = {f.id : f \in pg'.revocation_entries}
  <2>1. mem.revokedIDs = {f.id : f \in pg.revocation_entries}
    BY <1>12, Zenon DEF RevocationInv
  <2> QED
    BY <1>2, <1>5, <2>1
<1>15. IsFiniteSet(pg'.revocation_entries)
  <2>1. IsFiniteSet(pg.revocation_entries)
    BY <1>12, Zenon DEF RevocationInv
  <2>2. IsFiniteSet(pg.revocation_entries \cup {e})
    BY <2>1, FS_AddElement
  <2> QED
    BY <1>5, <2>1, <2>2, Zenon
<1>16. \A f, g \in pg'.revocation_entries : f.id = g.id => f = g
  <2>1. \A f, g \in pg.revocation_entries : f.id = g.id => f = g
    BY <1>12, Zenon DEF RevocationInv
  <2> QED
    BY <1>5, <2>1
<1>17. /\ acked'["mem"] = acked["mem"] \cup {e.id} /\ acked'["pg"] = acked["pg"] \cup {e.id}
       /\ acked'["pgs"] = IF PgsAccepts(e) THEN acked["pgs"] \cup {e.id} ELSE acked["pgs"]
  BY DEF Revoke, Store
<1>18. acked' \in [Store -> SUBSET (Sigil \cup Cap)]
  <2>1. acked \in [Store -> SUBSET (Sigil \cup Cap)]
    BY <1>12, Zenon DEF RevocationInv
  <2> QED
    BY <1>1, <2>1 DEF Revoke
<1>19. acked'["pgs"] \subseteq Listed(pgs'.hanko_revocations)
  <2>1. acked["pgs"] \subseteq Listed(pgs.hanko_revocations)
    BY <1>12, Zenon DEF RevocationInv
  <2>2. Listed(Append(pgs.hanko_revocations, e)) = Listed(pgs.hanko_revocations) \cup {e.id}
    BY <1>8, ListedAppend
  <2> QED
    BY <1>7, <1>17, <2>1, <2>2
<1>20. revokes' \in 0..MaxRevokes
  <2>1. revokes \in 0..MaxRevokes
    BY <1>12, Zenon DEF RevocationInv
  <2> QED
    BY <2>1, StoresAssumption DEF Revoke
<1>21. acked'["mem"] \subseteq mem'.revokedIDs /\ acked'["pg"] \subseteq mem'.revokedIDs
  <2>1. acked["mem"] \subseteq mem.revokedIDs /\ acked["pg"] \subseteq mem.revokedIDs
    BY <1>12, Zenon DEF RevocationInv
  <2> QED
    BY <1>2, <1>17, <2>1
<1>22. RevocationInv'
  BY <1>13, <1>14, <1>15, <1>16, <1>18, <1>19, <1>20, <1>21, Zenon DEF RevocationInv
<1> QED
  BY <1>10, <1>11, <1>22, Zenon DEF StoresInv

-----------------------------------------------------------------------------
(* The nonces.                                                             *)

\* What either call does to the revocation state: nothing.
NoncesOnly ==
  /\ mem'.rows = mem.rows /\ mem'.revs = mem.revs /\ mem'.revokedIDs = mem.revokedIDs
  /\ pg'.rows = pg.rows /\ pg'.revocation_entries = pg.revocation_entries
  /\ pgs'.hanko_revocations = pgs.hanko_revocations
  /\ mem' \in MemState /\ pg' \in PgState /\ pgs' \in PgsState
  /\ UNCHANGED <<revokes, acked>>

LEMMA NoncesOnlyKeeps == ASSUME StoresInv, NoncesOnly PROVE StateInv' /\ RevocationInv'
<1>0. /\ Listed(mem'.revs) = Listed(mem.revs)
      /\ Listed(pgs'.hanko_revocations) = Listed(pgs.hanko_revocations)
  BY DEF NoncesOnly
<1>1. IsFiniteSet(pg'.revocation_entries)
  BY DEF StoresInv, RevocationInv, NoncesOnly
<1>2. RevocationInv'
  BY <1>0, <1>1 DEF StoresInv, RevocationInv, NoncesOnly
<1>3. StateInv'
  BY DEF StoresInv, StateInv, NoncesOnly
<1> QED
  BY <1>2, <1>3

LEMMA StoresRecord ==
  ASSUME StoresInv, NEW n \in Nonce, RecordNonce(n)
  PROVE  StoresInv'
<1>0. mem \in MemState /\ pg \in PgState /\ pgs \in PgsState
  BY DEF StoresInv, StateInv
<1>1. NoncesOnly
  BY <1>0 DEF RecordNonce, MemRecordNonce, PgRecordNonce, PgsRecordNonce,
              MemState, PgState, PgsState, NoncesOnly
<1>2. /\ mem'.nonces = mem.nonces \cup {n} /\ pg'.consumed_nonces = pg.consumed_nonces \cup {n}
      /\ pgs'.consumed_nonces = pgs.consumed_nonces
  BY <1>0 DEF RecordNonce, MemRecordNonce, PgRecordNonce, PgsRecordNonce, MemState, PgState, PgsState
<1>3. NonceInv'
  BY <1>2 DEF StoresInv, NonceInv, RecordNonce
<1> QED
  BY <1>1, <1>3, NoncesOnlyKeeps DEF StoresInv

LEMMA StoresTry ==
  ASSUME StoresInv, NEW n \in Nonce, TryRecordNonce(n)
  PROVE  StoresInv'
<1>0. mem \in MemState /\ pg \in PgState /\ pgs \in PgsState
  BY DEF StoresInv, StateInv
<1>1. /\ mem' = [mem EXCEPT !.nonces = @ \cup {n}]
      /\ pg' = [pg EXCEPT !.consumed_nonces = @ \cup {n}]
      /\ pgs' = [pgs EXCEPT !.consumed_nonces = @ \cup {n}]
      /\ UNCHANGED <<revokes, acked>>
  BY DEF TryRecordNonce, MemTryRecordNonce, PgTryRecordNonce, PgsTryRecordNonce
<1>2. NoncesOnly
  BY <1>0, <1>1, Zenon DEF MemState, PgState, PgsState, NoncesOnly
<1>3. /\ mem'.nonces = mem.nonces \cup {n} /\ pg'.consumed_nonces = pg.consumed_nonces \cup {n}
      /\ pgs'.consumed_nonces = pgs.consumed_nonces \cup {n}
  BY <1>0, <1>1 DEF MemState, PgState, PgsState
<1> DEFINE answer == [mem |-> MemTryRecordNonce(n), pg |-> PgTryRecordNonce(n),
                      pgs |-> PgsTryRecordNonce(n)]
           won(x) == answer[x][1]
<1>4. wins' = [x \in Store |-> [wins[x] EXCEPT ![n] = IF won(x) /\ @ < 2 THEN @ + 1 ELSE @]]
  BY Zenon DEF TryRecordNonce
<1>5. wins \in [Store -> [Nonce -> Nat]]
  BY DEF StoresInv, NonceInv
<1>6. wins' \in [Store -> [Nonce -> Nat]]
  BY <1>4, <1>5
<1>7. \A x \in Store, m \in Nonce :
        wins'[x][m] = IF m = n /\ won(x) /\ wins[x][m] < 2 THEN wins[x][m] + 1 ELSE wins[x][m]
  BY <1>4, <1>5
<1> HIDE DEF won, answer
<1>8. /\ won("mem") <=> n \notin mem.nonces
      /\ won("pg") <=> n \notin mem.nonces
      /\ won("pgs") <=> n \notin pgs.consumed_nonces
  <2>1. /\ won("mem") = (n \notin mem.nonces)
        /\ won("pg") = (n \notin pg.consumed_nonces)
        /\ won("pgs") = (n \notin pgs.consumed_nonces)
    BY Zenon DEF won, answer, MemTryRecordNonce, PgTryRecordNonce, PgsTryRecordNonce
  <2> QED
    BY <2>1, Zenon DEF StoresInv, NonceInv
<1>9. \A m \in Nonce :
        /\ wins'["mem"][m] \in 0..1 /\ wins'["pgs"][m] \in 0..1
        /\ wins'["mem"][m] = 1 => m \in mem'.nonces
        /\ wins'["pgs"][m] = 1 => m \in pgs'.consumed_nonces
        /\ wins'["mem"][m] = wins'["pg"][m]
  <2> SUFFICES ASSUME NEW m \in Nonce
               PROVE  /\ wins'["mem"][m] \in 0..1 /\ wins'["pgs"][m] \in 0..1
                      /\ wins'["mem"][m] = 1 => m \in mem'.nonces
                      /\ wins'["pgs"][m] = 1 => m \in pgs'.consumed_nonces
                      /\ wins'["mem"][m] = wins'["pg"][m]
    OBVIOUS
  <2>1. /\ wins["mem"][m] \in 0..1 /\ wins["pgs"][m] \in 0..1 /\ wins["mem"][m] = wins["pg"][m]
        /\ wins["mem"][m] = 1 => m \in mem.nonces
        /\ wins["pgs"][m] = 1 => m \in pgs.consumed_nonces
    BY DEF StoresInv, NonceInv
  <2>2. "mem" \in Store /\ "pg" \in Store /\ "pgs" \in Store
    BY DEF Store
  <2> QED
    BY <1>3, <1>7, <1>8, <2>1, <2>2
<1>10. wins'["mem"] = wins'["pg"]
  BY <1>6, <1>9 DEF Store
<1>11. NonceInv'
  BY <1>3, <1>6, <1>9, <1>10 DEF StoresInv, NonceInv
<1> QED
  BY <1>2, <1>11, NoncesOnlyKeeps DEF StoresInv

-----------------------------------------------------------------------------
(* Theorems.                                                               *)

LEMMA StoresNext == StoresInv /\ [Next]_vars => StoresInv'
<1> SUFFICES ASSUME StoresInv, [Next]_vars PROVE StoresInv'
  OBVIOUS
<1>1. CASE UNCHANGED vars
  BY <1>1, Zenon DEF vars, StoresInv, StateInv, RevocationInv, NonceInv
<1>2. CASE Next
  BY <1>2, StoresSaveSigil, StoresSaveCap, StoresRevoke, StoresRecord, StoresTry DEF Next
<1> QED
  BY <1>1, <1>2

LEMMA StoresInvariant == Spec => []StoresInv
  BY StoresInit, StoresNext, PTL DEF Spec

\* MemStore and PgStore give the same answer to every query of the interface after
\* any sequence of calls.
THEOREM StoresEquivalent == Spec => []StoresAgree
<1>1. StoresInv => StoresAgree
  <2> SUFFICES ASSUME StoresInv PROVE StoresAgree
    OBVIOUS
  <2>1. TypeOK
    BY DEF StoresInv, StateInv, RevocationInv, NonceInv, MemState, PgState, PgsState, TypeOK
  <2>2. \A n \in Nonce : MemNonceUsed(n) <=> PgNonceUsed(n)
    BY DEF StoresInv, NonceInv, MemNonceUsed, PgNonceUsed
  <2>3. \A id \in Sigil \cup Cap : MemIsRevoked(id) <=> PgIsRevoked(id)
    BY DEF StoresInv, RevocationInv, MemIsRevoked, PgIsRevoked
  <2> QED
    BY <2>1, <2>2, <2>3 DEF StoresAgree, StoresInv, StateInv
<1> QED
  BY <1>1, StoresInvariant, PTL

\* An acknowledged Revoke is seen by IsRevoked for good in all three stores, and
\* RevocationList names exactly what IsRevoked knows.
THEOREM RevocationKept == Spec => []RevokeSticks
<1>1. StoresInv => RevokeSticks
  <2> SUFFICES ASSUME StoresInv PROVE RevokeSticks
    OBVIOUS
  <2>1. \A id : MemIsRevoked(id) <=> id \in Listed(MemRevocationList)
    BY DEF StoresInv, RevocationInv, MemIsRevoked, MemRevocationList
  <2>2. Listed(PgRevocationList) = {e.id : e \in pg.revocation_entries}
    BY ListedSet DEF StoresInv, RevocationInv, PgRevocationList
  <2>3. \A id : PgIsRevoked(id) <=> id \in {e.id : e \in pg.revocation_entries}
    BY DEF PgIsRevoked
  <2>4. Listed(PgsRevocationList) = Listed(pgs.hanko_revocations)
    BY ListedReverse DEF StoresInv, StateInv, PgsState, PgsRevocationList
  <2>5. \A id : PgsIsRevoked(id) <=> id \in Listed(pgs.hanko_revocations)
    BY DEF PgsIsRevoked, Listed
  <2> QED
    BY <2>1, <2>2, <2>3, <2>4, <2>5 DEF RevokeSticks, StoresInv, RevocationInv, MemIsRevoked
<1> QED
  BY <1>1, StoresInvariant, PTL

\* TryRecordNonce tells at most one caller that it was first, the same one in
\* MemStore and PgStore, and NonceUsed reports the nonce from then on.
THEOREM OneConsumerPerNonce == Spec => []OneConsumer
<1>1. StoresInv => OneConsumer
  BY DEF StoresInv, NonceInv, OneConsumer, Store, MemNonceUsed, PgNonceUsed
<1> QED
  BY <1>1, StoresInvariant, PTL
=============================================================================
