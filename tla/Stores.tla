------------------------------- MODULE Stores -------------------------------
(***************************************************************************)
(* The three implementations of broker.Store side by side: MemStore        *)
(* (store/mem.go), PgStore (store/postgres.go) and PGStore                 *)
(* (store/pgstore/pgstore.go).  Every call of the interface goes to each of *)
(* them, and the states they reach are compared through what the interface *)
(* shows.  A call is atomic in all three (a mutex, or one SQL statement);  *)
(* calls that fail half-way are the subject of Attestation.                *)
(***************************************************************************)
EXTENDS Integers, Sequences, FiniteSets, SequencesExt

CONSTANTS
  Sigil, Cap,   \* UUIDs
  Nonce,
  Owner,        \* cap |-> the sigil it is issued for
  Value,        \* what a later save of the same id may change
  Operator,     \* a revoked_by that is no sigil
  None,         \* no row
  MaxRevokes    \* bound on Revoke calls

ASSUME StoresAssumption ==
  /\ MaxRevokes \in Nat
  /\ Owner \in [Cap -> Sigil]
  /\ Operator \notin Sigil /\ None \notin Value

VARIABLES
  mem,          \* MemStore
  pg,           \* PgStore: tables of migrations_sql/001_initial.sql
  pgs,          \* PGStore: tables of its migrationSQL
  revokes,      \* Revoke calls so far
  acked,        \* store |-> ids for which Revoke returned nil
  wins          \* store |-> nonce |-> times TryRecordNonce returned true

vars == <<mem, pg, pgs, revokes, acked, wins>>

Store == {"mem", "pg", "pgs"}

Entry == [id : Sigil \cup Cap, by : Sigil \cup {Operator}]

Rows == [sigils : [Sigil -> Value \cup {None}], caps : [Cap -> Value \cup {None}]]

Blank == [sigils |-> [s \in Sigil |-> None], caps |-> [c \in Cap |-> None]]

TypeOK ==
  /\ mem.rows \in Rows /\ mem.revs \in Seq(Entry)
  /\ mem.revokedIDs \subseteq Sigil \cup Cap /\ mem.nonces \subseteq Nonce
  /\ pg.rows \in Rows /\ pg.revocation_entries \subseteq Entry /\ pg.consumed_nonces \subseteq Nonce
  /\ \A e, f \in pg.revocation_entries : e.id = f.id => e = f
  /\ pgs.rows \in Rows /\ pgs.hanko_revocations \in Seq(Entry)
  /\ pgs.consumed_nonces \subseteq Nonce /\ pgs.hanko_audit \subseteq Nonce
  /\ revokes \in 0..MaxRevokes
  /\ acked \in [Store -> SUBSET (Sigil \cup Cap)]
  /\ wins \in [Store -> [Nonce -> Nat]]

Init ==
  /\ mem = [rows |-> Blank, revs |-> << >>, revokedIDs |-> {}, nonces |-> {}]
  /\ pg = [rows |-> Blank, revocation_entries |-> {}, consumed_nonces |-> {}]
  /\ pgs = [rows |-> Blank, hanko_revocations |-> << >>, consumed_nonces |-> {}, hanko_audit |-> {}]
  /\ revokes = 0
  /\ acked = [x \in Store |-> {}]
  /\ wins = [x \in Store |-> [n \in Nonce |-> 0]]

-----------------------------------------------------------------------------
(* MemStore.                                                               *)

MemSaveSigil(s, v) == [mem EXCEPT !.rows.sigils[s] = v]

MemSaveCap(c, v) == [mem EXCEPT !.rows.caps[c] = v]

\* Mutant: the index is filled for sigils only.
MemRevokeSigilsOnly(e) ==
  [mem EXCEPT !.revs = Append(@, e), !.revokedIDs = @ \cup ({e.id} \cap Sigil)]

MemRevoke(e) == [mem EXCEPT !.revs = Append(@, e), !.revokedIDs = @ \cup {e.id}]

MemIsRevoked(id) == id \in mem.revokedIDs

MemRevocationList == mem.revs

MemNonceUsed(n) == n \in mem.nonces

MemRecordNonce(n) == [mem EXCEPT !.nonces = @ \cup {n}]

\* TryRecordNonce: the answer, and the state.
MemTryRecordNonce(n) == <<n \notin mem.nonces, [mem EXCEPT !.nonces = @ \cup {n}]>>

-----------------------------------------------------------------------------
(* PgStore.                                                                *)

PgSaveSigil(s, v) == [pg EXCEPT !.rows.sigils[s] = v]

\* Mutant: ON CONFLICT DO NOTHING.
PgSaveCapOnce(c, v) ==
  [pg EXCEPT !.rows.caps[c] = IF pg.rows.sigils[Owner[c]] # None /\ @ = None THEN v ELSE @]

\* sigil_id references a row of sigils; a save without one is refused.
PgSaveCap(c, v) ==
  [pg EXCEPT !.rows.caps[c] = IF pg.rows.sigils[Owner[c]] # None THEN v ELSE @]

\* ON CONFLICT (id) DO NOTHING: the first entry stands.
PgRevoke(e) ==
  [pg EXCEPT !.revocation_entries =
     IF \E f \in @ : f.id = e.id THEN @ ELSE @ \cup {e}]

PgIsRevoked(id) == \E e \in pg.revocation_entries : e.id = id

\* ORDER BY revoked_at: the entries' order is left open here.
PgRevocationList == SetToSeq(pg.revocation_entries)

PgNonceUsed(n) == n \in pg.consumed_nonces

PgRecordNonce(n) == [pg EXCEPT !.consumed_nonces = @ \cup {n}]

\* Mutant: the row count is not looked at.
PgTryRecordNonceUncounted(n) == <<TRUE, [pg EXCEPT !.consumed_nonces = @ \cup {n}]>>

PgTryRecordNonce(n) ==
  <<n \notin pg.consumed_nonces, [pg EXCEPT !.consumed_nonces = @ \cup {n}]>>

-----------------------------------------------------------------------------
(* PGStore.                                                                *)

PgsSaveSigil(s, v) == [pgs EXCEPT !.rows.sigils[s] = v]

PgsSaveCap(c, v) ==
  [pgs EXCEPT !.rows.caps[c] = IF pgs.rows.sigils[Owner[c]] # None THEN v ELSE @]

\* revoked_by references a row of hanko_sigils: Revoke is refused without one.
PgsAccepts(e) == e.by \in Sigil /\ pgs.rows.sigils[e.by] # None

PgsRevoke(e) ==
  [pgs EXCEPT !.hanko_revocations = IF PgsAccepts(e) THEN Append(@, e) ELSE @]

PgsIsRevoked(id) == \E i \in DOMAIN pgs.hanko_revocations : pgs.hanko_revocations[i].id = id

PgsRevocationList == Reverse(pgs.hanko_revocations)

\* RecordNonce writes the audit table, TryRecordNonce a table of its own.
PgsRecordNonce(n) == [pgs EXCEPT !.hanko_audit = @ \cup {n}]

PgsTryRecordNonce(n) ==
  <<n \notin pgs.consumed_nonces, [pgs EXCEPT !.consumed_nonces = @ \cup {n}]>>

-----------------------------------------------------------------------------
(* The calls of the interface.                                             *)

SaveSigil(s, v) ==
  /\ mem' = MemSaveSigil(s, v) /\ pg' = PgSaveSigil(s, v) /\ pgs' = PgsSaveSigil(s, v)
  /\ UNCHANGED <<revokes, acked, wins>>

\* The broker saves a capability once GetSigil has found its sigil.
SaveCap(c, v) ==
  /\ mem.rows.sigils[Owner[c]] # None
  /\ mem' = MemSaveCap(c, v) /\ pg' = PgSaveCap(c, v) /\ pgs' = PgsSaveCap(c, v)
  /\ UNCHANGED <<revokes, acked, wins>>

Revoke(e) ==
  /\ revokes < MaxRevokes
  /\ revokes' = revokes + 1
  /\ mem' = MemRevoke(e) /\ pg' = PgRevoke(e) /\ pgs' = PgsRevoke(e)
  /\ acked' = [x \in Store |-> IF x = "pgs" /\ ~PgsAccepts(e) THEN acked[x] ELSE acked[x] \cup {e.id}]
  /\ UNCHANGED wins

RecordNonce(n) ==
  /\ mem' = MemRecordNonce(n) /\ pg' = PgRecordNonce(n) /\ pgs' = PgsRecordNonce(n)
  /\ UNCHANGED <<revokes, acked, wins>>

TryRecordNonce(n) ==
  LET answer == [mem |-> MemTryRecordNonce(n), pg |-> PgTryRecordNonce(n), pgs |-> PgsTryRecordNonce(n)]
  IN  /\ mem' = answer.mem[2] /\ pg' = answer.pg[2] /\ pgs' = answer.pgs[2]
      /\ wins' = [x \in Store |-> [wins[x] EXCEPT ![n] = IF answer[x][1] /\ @ < 2 THEN @ + 1 ELSE @]]
      /\ UNCHANGED <<revokes, acked>>

Next ==
  \/ \E s \in Sigil, v \in Value : SaveSigil(s, v)
  \/ \E c \in Cap, v \in Value : SaveCap(c, v)
  \/ \E e \in Entry : Revoke(e)
  \/ \E n \in Nonce : RecordNonce(n) \/ TryRecordNonce(n)

Spec == Init /\ [][Next]_vars

-----------------------------------------------------------------------------
(* Properties.                                                             *)

Listed(list) == {list[i].id : i \in DOMAIN list}

\* The contract tests run against MemStore and PgStore alike: after any calls
\* the two agree on every answer of GetSigil, GetCap, NonceUsed and IsRevoked,
\* although one replaces rows and the other merges them.  TypeOK has the primary
\* key of the revocation table.
StoresAgree ==
  /\ TypeOK
  /\ mem.rows = pg.rows
  /\ \A n \in Nonce : MemNonceUsed(n) <=> PgNonceUsed(n)
  /\ \A id \in Sigil \cup Cap : MemIsRevoked(id) <=> PgIsRevoked(id)

\* broker.go, Store: "After Revoke returns, IsRevoked(entry.ID) MUST return true
\* on the same store instance", for good; and RevocationList, kept for consumers
\* "that need the full list", names exactly the ids that IsRevoked knows.
RevokeSticks ==
  /\ \A id \in acked["mem"] : MemIsRevoked(id)
  /\ \A id \in acked["pg"] : PgIsRevoked(id)
  /\ \A id \in acked["pgs"] : PgsIsRevoked(id)
  /\ \A id \in Sigil \cup Cap :
       /\ MemIsRevoked(id) <=> id \in Listed(MemRevocationList)
       /\ PgIsRevoked(id) <=> id \in Listed(PgRevocationList)
       /\ PgsIsRevoked(id) <=> id \in Listed(PgsRevocationList)

\* TryRecordNonce has at most one first consumer of a nonce in each store.
\* MemStore and PgStore name the same one however the calls mix it with
\* RecordNonce, and from then on NonceUsed reports the nonce in both.
OneConsumer ==
  \A n \in Nonce :
    /\ \A x \in Store : wins[x][n] <= 1
    /\ wins["mem"][n] = wins["pg"][n]
    /\ wins["pg"][n] > 0 => MemNonceUsed(n) /\ PgNonceUsed(n)

=============================================================================
