-------------------------------- MODULE Cli --------------------------------
(***************************************************************************)
(* The one-shot commands of hanko-broker (cmd/hanko-broker/main.go) as     *)
(* processes that share the key file and the database: keygen, issue,      *)
(* verify, revoke and list.  A process may be killed at any time and its   *)
(* statements may fail.  The checks of VerifyAttestation are in two steps  *)
(* here (Attestation has them all).  A capability and its nonce are one.   *)
(***************************************************************************)
EXTENDS Integers, FiniteSets

CONSTANTS
  Proc,        \* processes that run at once
  Sigil, Cap,  \* UUIDs
  Carried,     \* sets of capabilities that attestations are asked for with
  Key,         \* Ed25519 key pairs
  None,        \* no command, no key
  Absent,      \* broker.key does not exist
  Torn         \* broker.key exists and holds no key

ASSUME CliAssumption ==
  /\ {None, Absent, Torn} \cap Key = {} /\ Sigil \cap Cap = {} /\ Absent # Torn
  /\ Carried \subseteq SUBSET Cap

VARIABLES
  \* the machine
  file,        \* broker.key
  made,        \* keys generated so far
  printed,     \* envelopes written to stdout so far
  \* the database
  sigils, caps, revoked, consumed,
  \* the processes
  pc, cmd, key,
  exit,        \* status of the last process to end: 0, or not 0 (1)
  \* history, read by the properties only
  saw,         \* process |-> keys written when its keygen looked at the file
  since,       \* process |-> acked when its verify started
  failed,      \* process |-> ids that its verify asked about and got no answer
  written,     \* keys that a keygen wrote
  spoilt,      \* the last keygen to open the file died or failed before it wrote
  acked,       \* ids whose revocation exited 0
  accepted     \* capabilities of envelopes that verify accepted over Postgres

machine   == <<file, made, printed>>
database  == <<sigils, caps, revoked, consumed>>
processes == <<pc, cmd, key, exit, saw, since, failed>>
history   == <<written, spoilt, acked, accepted>>
vars      == <<machine, database, processes, history>>

-----------------------------------------------------------------------------

Envelope == [sigil : Sigil, caps : Carried, by : Key]

\* What main and extractStoreFlag make of a command line.  pg is FALSE for
\* --store mem, the default without HANKO_PG_DSN.
Command ==
  [verb : {"keygen"}, force : BOOLEAN]
  \cup [verb : {"issue sigil", "list"}, pg : BOOLEAN]
  \cup [verb : {"issue cap"}, pg : BOOLEAN, sigil : Sigil]
  \cup [verb : {"issue attestation"}, pg : BOOLEAN, sigil : Sigil, caps : Carried]
  \cup [verb : {"verify"}, pg : BOOLEAN, env : Envelope]
  \cup [verb : {"revoke"}, pg : BOOLEAN, id : Sigil \cup Cap]

Stage == {"idle", "stat", "generate", "truncate", "write", "open", "load", "run", "consume"}

TypeOK ==
  /\ file \in Key \cup {Absent, Torn}
  /\ made \subseteq Key /\ written \subseteq made
  /\ printed \subseteq Envelope
  /\ sigils \subseteq Sigil /\ caps \subseteq Cap /\ consumed \subseteq Cap
  /\ revoked \subseteq Sigil \cup Cap /\ acked \subseteq Sigil \cup Cap
  /\ pc \in [Proc -> Stage]
  /\ cmd \in [Proc -> Command \cup {None}]
  /\ key \in [Proc -> Key \cup {None}]
  /\ exit \in {0, 1}
  /\ saw \in [Proc -> SUBSET Key] /\ spoilt \in BOOLEAN
  /\ since \in [Proc -> SUBSET (Sigil \cup Cap)]
  /\ failed \in [Proc -> SUBSET (Sigil \cup Cap)]
  /\ accepted \subseteq Cap

Init ==
  /\ file = Absent /\ made = {} /\ printed = {}
  /\ sigils = {} /\ caps = {} /\ revoked = {} /\ consumed = {}
  /\ pc = [p \in Proc |-> "idle"]
  /\ cmd = [p \in Proc |-> None]
  /\ key = [p \in Proc |-> None]
  /\ exit = 1
  /\ written = {} /\ saw = [p \in Proc |-> {}] /\ spoilt = FALSE
  /\ acked = {} /\ since = [p \in Proc |-> {}] /\ accepted = {}
  /\ failed = [p \in Proc |-> {}]

-----------------------------------------------------------------------------

Goto(p, s) == pc' = [pc EXCEPT ![p] = s] /\ UNCHANGED <<cmd, key, exit, saw, since, failed>>

\* The end of a process; what it knew is forgotten.
End(p, code) ==
  /\ pc' = [pc EXCEPT ![p] = "idle"]
  /\ cmd' = [cmd EXCEPT ![p] = None]
  /\ key' = [key EXCEPT ![p] = None]
  /\ exit' = code
  /\ saw' = [saw EXCEPT ![p] = {}]
  /\ since' = [since EXCEPT ![p] = {}]
  /\ failed' = [failed EXCEPT ![p] = {}]

\* A command line that parses, or one that does not.  verify reads an envelope
\* that some process printed.
Start(p, c) ==
  /\ pc[p] = "idle"
  /\ c.verb = "verify" => c.env \in printed
  /\ \/ /\ pc' = [pc EXCEPT ![p] = IF c.verb = "keygen" THEN "stat" ELSE "open"]
        /\ cmd' = [cmd EXCEPT ![p] = c]
        /\ since' = [since EXCEPT ![p] = IF c.verb = "verify" THEN acked ELSE {}]
        /\ UNCHANGED exit
     \/ exit' = 1 /\ UNCHANGED <<pc, cmd, since>>
  /\ UNCHANGED <<machine, database, key, saw, failed, history>>

Kill(p) ==
  /\ pc[p] # "idle"
  /\ End(p, 1)
  /\ spoilt' = (spoilt \/ pc[p] = "write")
  /\ UNCHANGED <<machine, database, written, acked, accepted>>

-----------------------------------------------------------------------------
(* keygen.                                                                 *)

\* Mutant: the answer of Stat is not looked at.
StatIgnored(p) ==
  /\ pc[p] = "stat"
  /\ pc' = [pc EXCEPT ![p] = "generate"]
  /\ saw' = [saw EXCEPT ![p] = written]
  /\ UNCHANGED <<machine, database, cmd, key, exit, since, failed, history>>

Stat(p) ==
  /\ pc[p] = "stat"
  /\ \/ /\ file = Absent \/ cmd[p].force
        /\ pc' = [pc EXCEPT ![p] = "generate"]
        /\ saw' = [saw EXCEPT ![p] = written]
        /\ UNCHANGED <<cmd, key, exit, since, failed>>
     \/ file # Absent /\ ~cmd[p].force /\ End(p, 1)
  /\ UNCHANGED <<machine, database, history>>

\* GenerateKeyPair and MkdirAll.
Generate(p) ==
  /\ pc[p] = "generate"
  /\ \/ \E k \in Key \ made :
          /\ made' = made \cup {k}
          /\ key' = [key EXCEPT ![p] = k]
          /\ pc' = [pc EXCEPT ![p] = "truncate"]
          /\ UNCHANGED <<cmd, exit, saw, since, failed>>
     \/ End(p, 1) /\ UNCHANGED made
  /\ UNCHANGED <<file, printed, database, history>>

\* os.WriteFile opens with O_CREATE|O_TRUNC ...
Truncate(p) ==
  /\ pc[p] = "truncate"
  /\ \/ file' = Torn /\ Goto(p, "write")
     \/ End(p, 1) /\ UNCHANGED file
  /\ UNCHANGED <<made, printed, database, history>>

\* Mutant: the error of os.WriteFile is not looked at.
WriteUnchecked(p) ==
  /\ pc[p] = "write"
  /\ \/ file' = key[p] /\ written' = written \cup {key[p]} /\ spoilt' = FALSE
     \/ UNCHANGED <<file, written, spoilt>>
  /\ End(p, 0)
  /\ UNCHANGED <<made, printed, database, acked, accepted>>

\* ... and then writes.
Write(p) ==
  /\ pc[p] = "write"
  /\ \/ /\ file' = key[p] /\ written' = written \cup {key[p]} /\ spoilt' = FALSE
        /\ End(p, 0)
     \/ /\ spoilt' = TRUE
        /\ End(p, 1)
        /\ UNCHANGED <<file, written>>
  /\ UNCHANGED <<made, printed, database, acked, accepted>>

-----------------------------------------------------------------------------
(* The other commands.                                                     *)

\* openStore; list needs no key.
OpenStore(p) ==
  /\ pc[p] = "open"
  /\ \/ Goto(p, IF cmd[p].verb = "list" THEN "run" ELSE "load")
     \/ cmd[p].pg /\ End(p, 1)
  /\ UNCHANGED <<machine, database, history>>

\* loadBrokerKey.
LoadBrokerKey(p) ==
  /\ pc[p] = "load"
  /\ \/ /\ file \in Key
        /\ key' = [key EXCEPT ![p] = file]
        /\ pc' = [pc EXCEPT ![p] = "run"]
        /\ UNCHANGED <<cmd, exit, saw, since, failed>>
     \/ file \notin Key /\ End(p, 1)
  /\ UNCHANGED <<machine, database, history>>

Runs(p, verb) == pc[p] = "run" /\ cmd[p].verb = verb

\* A statement that changes table to new: it succeeds, or the process reports an
\* error and the row may be there.  With --store mem the table dies with the process.
Statement(p, table, new, become) ==
  \/ End(p, 0) /\ become = (IF cmd[p].pg THEN new ELSE table)
  \/ cmd[p].pg /\ End(p, 1) /\ become \in {table, new}

\* IssueSigil with a fresh id.
IssueSigil(p) ==
  /\ Runs(p, "issue sigil")
  /\ \E s \in Sigil \ sigils : Statement(p, sigils, sigils \cup {s}, sigils')
  /\ UNCHANGED <<machine, caps, revoked, consumed, history>>

\* IssueCap: the sigil has to be there, which a fresh MemStore never has.
IssueCap(p) ==
  /\ Runs(p, "issue cap")
  /\ \/ /\ cmd[p].pg /\ cmd[p].sigil \in sigils
        /\ \E c \in Cap \ caps : Statement(p, caps, caps \cup {c}, caps')
     \/ ~(cmd[p].pg /\ cmd[p].sigil \in sigils) /\ End(p, 1) /\ UNCHANGED caps
  /\ UNCHANGED <<machine, sigils, revoked, consumed, history>>

\* The capabilities have to be there, the sigil need not; a query may fail.
IssueAttestation(p) ==
  /\ Runs(p, "issue attestation")
  /\ LET found == IF cmd[p].pg THEN caps ELSE {}
     IN  \/ /\ cmd[p].caps \subseteq found
            /\ printed' = printed \cup {[sigil |-> cmd[p].sigil, caps |-> cmd[p].caps, by |-> key[p]]}
            /\ End(p, 0)
         \/ (cmd[p].pg \/ cmd[p].caps # {}) /\ End(p, 1) /\ UNCHANGED printed
  /\ UNCHANGED <<file, made, database, history>>

\* A denial: nonces of capabilities before the one it is about are consumed, and
\* so may be that of an insert that failed.
Deny(p) ==
  /\ End(p, 1)
  /\ \E used \in SUBSET (IF cmd[p].pg /\ cmd[p].env.by = key[p] THEN cmd[p].env.caps ELSE {}) :
       consumed' = consumed \cup used

\* Every lookup of IsRevoked among ids that has an answer says no; lost are the ids
\* whose query failed, which reads as no.
NoneRevoked(p, ids, lost) ==
  /\ cmd[p].pg => (ids \ lost) \cap revoked = {}
  /\ lost # {} => cmd[p].pg

\* Mutant: a revocation of the envelope's sigil is not looked up.
VerifyCapsOnly(p) ==
  /\ Runs(p, "verify")
  /\ \/ /\ cmd[p].env.by = key[p]
        /\ NoneRevoked(p, cmd[p].env.caps, {})
        /\ Goto(p, "consume") /\ UNCHANGED consumed
     \/ Deny(p)
  /\ UNCHANGED <<machine, sigils, caps, revoked, history>>

\* VerifyAttestation up to the nonces.  An expiry may deny any envelope.
Verify(p) ==
  /\ Runs(p, "verify")
  /\ \/ LET ids == {cmd[p].env.sigil} \cup cmd[p].env.caps
        IN  /\ cmd[p].env.by = key[p]
            /\ \E lost \in SUBSET ids :
                 /\ NoneRevoked(p, ids, lost)
                 /\ failed' = [failed EXCEPT ![p] = lost]
            /\ pc' = [pc EXCEPT ![p] = "consume"]
            /\ UNCHANGED <<cmd, key, exit, saw, since, consumed>>
     \/ Deny(p)
  /\ UNCHANGED <<machine, sigils, caps, revoked, history>>

\* TryRecordNonce for every capability.
Consume(p) ==
  /\ pc[p] = "consume"
  /\ LET used == IF cmd[p].pg THEN cmd[p].env.caps ELSE {}
     IN  \/ /\ used \cap consumed = {}
            /\ End(p, 0)
            /\ consumed' = consumed \cup used
            /\ accepted' = accepted \cup used
         \/ used # {} /\ Deny(p) /\ UNCHANGED accepted
  /\ UNCHANGED <<machine, sigils, caps, revoked, written, spoilt, acked>>

\* RevokeSigil, or Revoke for a capability: any id is taken.
Revoke(p) ==
  /\ Runs(p, "revoke")
  /\ Statement(p, revoked, revoked \cup {cmd[p].id}, revoked')
  /\ acked' = IF cmd[p].pg /\ exit' = 0 THEN acked \cup {cmd[p].id} ELSE acked
  /\ UNCHANGED <<machine, sigils, caps, consumed, written, spoilt, accepted>>

\* list sigils: MemStore cannot.
List(p) ==
  /\ Runs(p, "list")
  /\ \/ cmd[p].pg /\ End(p, 0)
     \/ End(p, 1)
  /\ UNCHANGED <<machine, database, history>>

Next ==
  \E p \in Proc :
    \/ \E c \in Command : Start(p, c)
    \/ Kill(p)
    \/ Stat(p) \/ Generate(p) \/ Truncate(p) \/ Write(p)
    \/ OpenStore(p) \/ LoadBrokerKey(p)
    \/ IssueSigil(p) \/ IssueCap(p) \/ IssueAttestation(p)
    \/ Verify(p) \/ Consume(p) \/ Revoke(p) \/ List(p)

Spec == Init /\ [][Next]_vars

-----------------------------------------------------------------------------
(* Properties.                                                             *)

\* "refusing to overwrite existing key" (main.go:523): a key that a keygen wrote
\* is truncated or replaced only by a keygen with --force, or by one that looked
\* at the file before that key was written.
OverwriteExplained ==
  [][file' # file /\ file \in Key =>
       (\E p \in Proc :
          /\ pc[p] \in {"truncate", "write"} /\ pc'[p] # pc[p]
          /\ (cmd[p].force \/ file \notin saw[p]))]_vars

\* broker.key exists without a key in it only while a keygen writes it, or after
\* one was killed or reported an error at that point; exit 0 of keygen means that
\* the key was written as a whole, however many run at once.  TypeOK has that a
\* command never runs with anything but a generated key.
KeyWhole ==
  /\ TypeOK
  /\ file = Torn => spoilt \/ \E p \in Proc : pc[p] = "write"

\* verify over Postgres exits 0 only for an envelope of the key it loaded, none
\* of whose capabilities another verify accepted, and of whose ids a revoke had
\* reported none revoked before it started, except for those whose lookup failed;
\* whichever processes ran, failed or were killed in between.
VerifyHonest ==
  [][\A p \in Proc :
       pc[p] = "consume" /\ pc'[p] = "idle" /\ exit' = 0 /\ cmd[p].pg =>
         LET env == cmd[p].env
         IN  /\ env.by = key[p]
             /\ (({env.sigil} \cup env.caps) \ failed[p]) \cap since[p] = {}
             /\ env.caps \cap accepted = {}]_vars
=============================================================================
