----------------------------- MODULE CliProofs -----------------------------
(***************************************************************************)
(* Theorems about Cli, for any number of processes, keys and ids.          *)
(***************************************************************************)
EXTENDS Cli, TLAPS

USE DEF machine, database, history

-----------------------------------------------------------------------------
(* What a process knows.                                                   *)

\* The local state of the processes is made of functions on Proc.
Local ==
  /\ pc \in [Proc -> Stage]
  /\ cmd = [p \in Proc |-> cmd[p]]
  /\ key = [p \in Proc |-> key[p]]
  /\ saw = [p \in Proc |-> saw[p]]
  /\ since = [p \in Proc |-> since[p]]
  /\ failed = [p \in Proc |-> failed[p]]

\* The key file: as long as nobody created it no key was written, so a keygen
\* without --force that passed Stat saw none; what it will write is a key.
KeygenInv ==
  /\ file = Absent => written = {}
  /\ \A p \in Proc :
       /\ pc[p] \in {"generate", "truncate", "write"} => cmd[p].force \/ saw[p] = {}
       /\ pc[p] \in {"truncate", "write"} => key[p] \in Key

\* The database: revocations that were reported are there, and so are the nonces
\* of accepted envelopes; a verify that is about to consume has made its checks.
VerifyInv ==
  /\ acked \subseteq revoked
  /\ accepted \subseteq consumed
  /\ \A p \in Proc :
       /\ since[p] \subseteq revoked
       /\ pc[p] = "consume" =>
            /\ cmd[p].env.by = key[p]
            /\ cmd[p].pg =>
                 (({cmd[p].env.sigil} \cup cmd[p].env.caps) \ failed[p]) \cap since[p] = {}

CliInv == Local /\ KeygenInv /\ VerifyInv

LEMMA CliInit == Init => CliInv
  BY DEF Init, CliInv, Local, KeygenInv, VerifyInv, Stage

-----------------------------------------------------------------------------
(* The steps of a process.                                                 *)

\* A process that ends forgets what it knew; the other processes do not move.
LEMMA EndLocal ==
  ASSUME CliInv, NEW p \in Proc, NEW code, End(p, code)
  PROVE  /\ Local'
         /\ pc'[p] = "idle" /\ since'[p] = {}
         /\ \A q \in Proc \ {p} :
              /\ pc'[q] = pc[q] /\ cmd'[q] = cmd[q] /\ key'[q] = key[q]
              /\ saw'[q] = saw[q] /\ since'[q] = since[q] /\ failed'[q] = failed[q]
  BY Zenon DEF CliInv, Local, End, Stage

\* So it leaves the invariants alone, provided that the tables only grow.
LEMMA EndKeeps ==
  ASSUME CliInv, NEW p \in Proc, NEW code, End(p, code),
         revoked \subseteq revoked', acked' \subseteq revoked', accepted' \subseteq consumed',
         file' = Absent => written' = {}
  PROVE  CliInv'
<1>1. Local'
  BY EndLocal
<1>2. KeygenInv'
  BY EndLocal DEF CliInv, KeygenInv
<1>3. VerifyInv'
  BY EndLocal DEF CliInv, VerifyInv
<1> QED
  BY <1>1, <1>2, <1>3 DEF CliInv

\* A move that is neither the passing of Stat nor of the checks of verify.
LEMMA GotoKeeps ==
  ASSUME CliInv, NEW p \in Proc, NEW s \in Stage \ {"generate", "consume"},
         pc' = [pc EXCEPT ![p] = s], pc[p] # "consume",
         s \in {"truncate", "write"} => pc[p] \in {"generate", "truncate"} /\ key'[p] \in Key,
         key' = [key EXCEPT ![p] = key'[p]],
         UNCHANGED <<cmd, saw, since, failed, database, written, acked, accepted>>,
         file' = Absent => file = Absent
  PROVE  CliInv'
<1>1. Local'
  BY Zenon DEF CliInv, Local
<1>2. KeygenInv'
  BY Zenon DEF CliInv, Local, KeygenInv
<1>3. VerifyInv'
  BY Zenon DEF CliInv, Local, VerifyInv
<1> QED
  BY <1>1, <1>2, <1>3 DEF CliInv

LEMMA StartStep ==
  ASSUME CliInv, NEW p \in Proc, NEW c \in Command, Start(p, c)
  PROVE  CliInv'
<1>1. Local'
  BY DEF CliInv, Local, Start, Stage
<1>2. KeygenInv'
  BY DEF CliInv, Local, KeygenInv, Start
<1>3. VerifyInv'
  BY DEF CliInv, Local, VerifyInv, Start
<1> QED
  BY <1>1, <1>2, <1>3 DEF CliInv

LEMMA KeygenStep ==
  ASSUME CliInv, NEW p \in Proc, Stat(p) \/ Generate(p) \/ Truncate(p) \/ Write(p)
  PROVE  CliInv'
<1> USE DEF CliInv
<1>1. ASSUME NEW code, End(p, code), UNCHANGED <<machine, database, history>>
      PROVE  CliInv'
  BY <1>1, EndKeeps DEF KeygenInv, VerifyInv
<1>2. CASE Stat(p)
  <2>1. CASE /\ file = Absent \/ cmd[p].force
             /\ pc' = [pc EXCEPT ![p] = "generate"]
             /\ saw' = [saw EXCEPT ![p] = written]
             /\ UNCHANGED <<cmd, key, exit, since, failed, machine, database, history>>
    <3>1. Local'
      BY <2>1, Zenon DEF Local, Stage
    <3>2. KeygenInv'
      BY <2>1 DEF Local, KeygenInv
    <3>3. VerifyInv'
      BY <2>1 DEF Local, VerifyInv
    <3> QED
      BY <3>1, <3>2, <3>3
  <2> QED
    BY <1>1, <1>2, <2>1 DEF Stat
<1>3. CASE Generate(p)
  <2>1. ASSUME NEW k \in Key \ made,
               key' = [key EXCEPT ![p] = k], pc' = [pc EXCEPT ![p] = "truncate"],
               UNCHANGED <<cmd, exit, saw, since, failed, file, printed, database, history>>
        PROVE  CliInv'
    <3>1. key' = [key EXCEPT ![p] = key'[p]] /\ key'[p] \in Key
      BY <2>1 DEF Local
    <3> QED
      BY <1>3, <2>1, <3>1, GotoKeeps, Zenon DEF Generate, Stage
  <2> QED
    BY <1>1, <1>3, <2>1 DEF Generate
<1>4. CASE Truncate(p)
  <2>1. CASE file' = Torn /\ Goto(p, "write")
    <3>1. key' = [key EXCEPT ![p] = key'[p]] /\ key'[p] \in Key
      BY <1>4, <2>1 DEF Truncate, Goto, Local, KeygenInv
    <3> QED
      BY <1>4, <2>1, <3>1, GotoKeeps, CliAssumption, Zenon DEF Truncate, Goto, Stage
  <2> QED
    BY <1>1, <1>4, <2>1 DEF Truncate
<1>5. CASE Write(p)
  <2>1. CASE file' = key[p] /\ written' = written \cup {key[p]} /\ End(p, 0)
    <3>1. key[p] # Absent
      BY <1>5, CliAssumption DEF Write, KeygenInv
    <3> QED
      BY <1>5, <2>1, <3>1, EndKeeps DEF Write, VerifyInv
  <2>2. CASE End(p, 1) /\ UNCHANGED <<file, written>>
    BY <1>5, <2>2, EndKeeps DEF Write, KeygenInv, VerifyInv
  <2> QED
    BY <1>5, <2>1, <2>2 DEF Write
<1> QED
  BY <1>2, <1>3, <1>4, <1>5

LEMMA CommandStep ==
  ASSUME CliInv, NEW p \in Proc,
         \/ Kill(p) \/ OpenStore(p) \/ LoadBrokerKey(p) \/ IssueSigil(p) \/ IssueCap(p)
         \/ IssueAttestation(p) \/ Verify(p) \/ Consume(p) \/ Revoke(p) \/ List(p)
  PROVE  CliInv'
<1> USE DEF CliInv
<1>1. ASSUME NEW code, End(p, code), UNCHANGED <<file, written, revoked, acked>>,
             accepted' \subseteq consumed'
      PROVE  CliInv'
  BY <1>1, EndKeeps DEF KeygenInv, VerifyInv
<1>2. accepted \subseteq consumed
  BY DEF VerifyInv
<1>3. CASE Kill(p)
  BY <1>1, <1>2, <1>3 DEF Kill
<1>4. CASE OpenStore(p)
  <2>1. ASSUME NEW s \in {"run", "load"}, Goto(p, s) PROVE CliInv'
    <3>1. key' = [key EXCEPT ![p] = key'[p]]
      BY <2>1 DEF Goto, Local
    <3> QED
      BY <1>4, <2>1, <3>1, GotoKeeps, Zenon DEF OpenStore, Goto, Stage
  <2> QED
    BY <1>1, <1>2, <1>4, <2>1 DEF OpenStore
<1>5. CASE LoadBrokerKey(p)
  <2>1. CASE key' = [key EXCEPT ![p] = file] /\ pc' = [pc EXCEPT ![p] = "run"]
             /\ UNCHANGED <<cmd, exit, saw, since, failed>>
    <3>1. key' = [key EXCEPT ![p] = key'[p]]
      BY <2>1 DEF Local
    <3> QED
      BY <1>5, <2>1, <3>1, GotoKeeps, Zenon DEF LoadBrokerKey, Stage
  <2> QED
    BY <1>1, <1>2, <1>5, <2>1 DEF LoadBrokerKey
<1>6. CASE IssueSigil(p) \/ IssueCap(p) \/ IssueAttestation(p) \/ List(p)
  BY <1>1, <1>2, <1>6, Zenon DEF IssueSigil, IssueCap, IssueAttestation, List, Statement
<1>7. CASE Verify(p)
  <2> DEFINE ids == {cmd[p].env.sigil} \cup cmd[p].env.caps
  <2>1. ASSUME NEW lost, cmd[p].env.by = key[p],
               cmd[p].pg => (ids \ lost) \cap revoked = {},
               failed' = [failed EXCEPT ![p] = lost],
               pc' = [pc EXCEPT ![p] = "consume"],
               UNCHANGED <<cmd, key, exit, saw, since, consumed>>
        PROVE  CliInv'
    <3>1. Local'
      BY <2>1 DEF Local, Stage
    <3>2. KeygenInv'
      BY <1>7, <2>1 DEF Verify, Local, KeygenInv
    <3>3. VerifyInv'
      BY <1>7, <2>1 DEF Verify, Local, VerifyInv
    <3> QED
      BY <3>1, <3>2, <3>3
  <2>2. CASE Deny(p)
    BY <1>1, <1>2, <1>7, <2>2, Zenon DEF Verify, Deny
  <2> QED
    BY <1>7, <2>1, <2>2, Zenon DEF Verify, NoneRevoked
<1>8. CASE Consume(p)
  <2> DEFINE used == IF cmd[p].pg THEN cmd[p].env.caps ELSE {}
  <2>1. CASE End(p, 0) /\ consumed' = consumed \cup used /\ accepted' = accepted \cup used
    BY <1>1, <1>2, <1>8, <2>1 DEF Consume
  <2>2. CASE Deny(p) /\ UNCHANGED accepted
    BY <1>1, <1>2, <1>8, <2>2 DEF Consume, Deny
  <2> QED
    BY <1>8, <2>1, <2>2, Zenon DEF Consume
<1>9. CASE Revoke(p)
  <2>1. ASSUME NEW code, End(p, code), revoked \subseteq revoked', acked' \subseteq revoked'
        PROVE  CliInv'
    BY <1>2, <1>9, <2>1, EndKeeps DEF Revoke, KeygenInv
  <2>2. acked \subseteq revoked
    BY DEF VerifyInv
  <2>3. CASE End(p, 0) /\ revoked' = (IF cmd[p].pg THEN revoked \cup {cmd[p].id} ELSE revoked)
    BY <1>9, <2>1, <2>2, <2>3 DEF Revoke
  <2>4. CASE End(p, 1) /\ revoked' \in {revoked, revoked \cup {cmd[p].id}}
    <3>1. acked' = acked
      BY <1>9, <2>4 DEF Revoke, End
    <3> QED
      BY <2>1, <2>2, <2>4, <3>1
  <2> QED
    BY <1>9, <2>3, <2>4 DEF Revoke, Statement
<1> QED
  BY <1>3, <1>4, <1>5, <1>6, <1>7, <1>8, <1>9

LEMMA CliNext == CliInv /\ [Next]_vars => CliInv'
<1> SUFFICES ASSUME CliInv, [Next]_vars PROVE CliInv'
  OBVIOUS
<1>1. CASE UNCHANGED vars
  BY <1>1 DEF vars, processes, CliInv, Local, KeygenInv, VerifyInv
<1> QED
  BY <1>1, StartStep, KeygenStep, CommandStep DEF Next

-----------------------------------------------------------------------------
(* The theorems.                                                           *)

\* Only the steps of q move q, and only a keygen moves the file.
LEMMA OthersWait ==
  ASSUME CliInv, NEW q \in Proc,
         \/ \E c \in Command : Start(q, c)
         \/ Kill(q)
         \/ Stat(q) \/ Generate(q) \/ Truncate(q) \/ Write(q)
         \/ OpenStore(q) \/ LoadBrokerKey(q)
         \/ IssueSigil(q) \/ IssueCap(q) \/ IssueAttestation(q)
         \/ Verify(q) \/ Consume(q) \/ Revoke(q) \/ List(q)
  PROVE  /\ \A p \in Proc \ {q} : pc'[p] = pc[p]
         /\ file' # file => Truncate(q) \/ Write(q)
         /\ pc[q] = "consume" => Kill(q) \/ Consume(q)
  BY Zenon DEF CliInv, Local, Start, Kill, Stat, Generate, Truncate, Write, OpenStore, LoadBrokerKey,
         IssueSigil, IssueCap, IssueAttestation, Verify, Consume, Revoke, List,
         Goto, End, Runs, Statement, Deny

\* A key that a keygen wrote is overwritten only with --force, or by a keygen that
\* looked at the file before (main.go, runKeygen), for any number of processes.
THEOREM OverwriteContract == Spec => OverwriteExplained
<1> DEFINE Explained ==
      file' # file /\ file \in Key =>
        (\E p \in Proc :
           /\ pc[p] \in {"truncate", "write"} /\ pc'[p] # pc[p]
           /\ (cmd[p].force \/ file \notin saw[p]))
<1>1. CliInv /\ [Next]_vars => [Explained]_vars
  <2> SUFFICES ASSUME CliInv, Next, file' # file PROVE Explained
    BY DEF vars
  <2>1. PICK q \in Proc : Truncate(q) \/ Write(q)
    BY OthersWait, Zenon DEF Next
  <2>2. pc[q] \in {"truncate", "write"} /\ pc'[q] # pc[q]
    BY <2>1 DEF Truncate, Write, Goto, End, CliInv, Local
  <2>3. cmd[q].force \/ file \notin saw[q]
    BY <2>2 DEF CliInv, KeygenInv
  <2> QED
    BY <2>2, <2>3
<1> QED
  BY <1>1, CliInit, CliNext, PTL DEF Spec, OverwriteExplained

\* verify exits 0 once for a capability, and never for an envelope of another key
\* or with an id that a revoke had reported before and whose lookup was answered
\* (main.go, runVerify, runRevoke), for any number of processes that fail or die.
THEOREM VerifyContract == Spec => VerifyHonest
<1> DEFINE Honest(p) ==
      pc[p] = "consume" /\ pc'[p] = "idle" /\ exit' = 0 /\ cmd[p].pg =>
        LET env == cmd[p].env
        IN  /\ env.by = key[p]
            /\ (({env.sigil} \cup env.caps) \ failed[p]) \cap since[p] = {}
            /\ env.caps \cap accepted = {}
<1>1. CliInv /\ [Next]_vars => [\A p \in Proc : Honest(p)]_vars
  <2> SUFFICES ASSUME CliInv, Next, NEW p \in Proc, pc[p] = "consume", pc'[p] = "idle",
                      exit' = 0, cmd[p].pg
               PROVE  Honest(p)
    BY DEF vars
  <2>1. Kill(p) \/ Consume(p)
    BY OthersWait DEF Next
  <2>2. cmd[p].env.caps \cap consumed = {}
    BY <2>1 DEF Kill, Consume, Deny, End
  <2> QED
    BY <2>2 DEF CliInv, VerifyInv
<1> QED
  BY <1>1, CliInit, CliNext, PTL DEF Spec, VerifyHonest

-----------------------------------------------------------------------------
(* Types, and the key file as a whole.                                     *)

\* A process runs a command, with a key once it has loaded or made one.
TypeInv ==
  /\ TypeOK
  /\ \A p \in Proc :
       /\ pc[p] # "idle" => cmd[p] \in Command
       /\ pc[p] = "run" => cmd[p].verb = "list" \/ key[p] \in Key
       /\ pc[p] = "consume" => cmd[p].verb = "verify"
       /\ pc[p] \in {"truncate", "write"} => key[p] \in made

\* The second conjunct of KeyWhole.
TornInv == file = Torn => spoilt \/ \E p \in Proc : pc[p] = "write"

LEMMA CommandFields ==
  ASSUME NEW c \in Command
  PROVE  /\ c.verb = "revoke" => c.id \in Sigil \cup Cap
         /\ c.verb = "verify" => c.env \in Envelope
         /\ c.verb = "issue attestation" => c.sigil \in Sigil /\ c.caps \in Carried
  BY Zenon DEF Command

LEMMA EnvelopeFields ==
  ASSUME NEW e \in Envelope
  PROVE  e.sigil \in Sigil /\ e.caps \subseteq Cap
  BY CliAssumption DEF Envelope

\* A process that ends is typed, and so is everything else if what the step
\* writes is.
LEMMA EndTyped ==
  ASSUME TypeInv, NEW p \in Proc, NEW code \in {0, 1}, End(p, code),
         file' \in Key \cup {Absent, Torn},
         made \subseteq made', made' \subseteq Key, written' \subseteq made', printed' \subseteq Envelope,
         sigils' \subseteq Sigil, caps' \subseteq Cap, consumed' \subseteq Cap,
         revoked' \subseteq Sigil \cup Cap, acked' \subseteq Sigil \cup Cap,
         accepted' \subseteq Cap, spoilt' \in BOOLEAN
  PROVE  TypeInv'
<1>1. pc' \in [Proc -> Stage]
  BY DEF TypeInv, TypeOK, End, Stage
<1>2. cmd' \in [Proc -> Command \cup {None}]
  BY DEF TypeInv, TypeOK, End
<1>3. key' \in [Proc -> Key \cup {None}] /\ exit' \in {0, 1}
  BY DEF TypeInv, TypeOK, End
<1>4. /\ saw' \in [Proc -> SUBSET Key]
      /\ since' \in [Proc -> SUBSET (Sigil \cup Cap)]
      /\ failed' \in [Proc -> SUBSET (Sigil \cup Cap)]
  BY DEF TypeInv, TypeOK, End
<1>5. TypeOK'
  BY <1>1, <1>2, <1>3, <1>4, Zenon DEF TypeOK
<1>6. /\ pc'[p] = "idle"
      /\ \A q \in Proc \ {p} : pc'[q] = pc[q] /\ cmd'[q] = cmd[q] /\ key'[q] = key[q]
  BY DEF TypeInv, TypeOK, End
<1>7. \A q \in Proc :
        /\ pc'[q] # "idle" => cmd'[q] \in Command
        /\ pc'[q] = "run" => cmd'[q].verb = "list" \/ key'[q] \in Key
        /\ pc'[q] = "consume" => cmd'[q].verb = "verify"
        /\ pc'[q] \in {"truncate", "write"} => key'[q] \in made'
  BY <1>6 DEF TypeInv
<1> QED
  BY <1>5, <1>7, Zenon DEF TypeInv

\* A process that goes on with a command it has.
LEMMA GoesOnTyped ==
  ASSUME TypeInv, NEW p \in Proc, NEW s \in Stage, pc' = [pc EXCEPT ![p] = s],
         pc[p] # "idle", cmd' = cmd,
         key' \in [Proc -> Key \cup {None}], \A q \in Proc \ {p} : key'[q] = key[q],
         s = "run" => cmd[p].verb = "list" \/ key'[p] \in Key,
         s = "consume" => cmd[p].verb = "verify",
         s \in {"truncate", "write"} => key'[p] \in made',
         saw' \in [Proc -> SUBSET Key], failed' \in [Proc -> SUBSET (Sigil \cup Cap)],
         file' \in Key \cup {Absent, Torn}, made \subseteq made', made' \subseteq Key,
         UNCHANGED <<printed, database, exit, since, history>>
  PROVE  TypeInv'
<1>1. pc' \in [Proc -> Stage]
  BY DEF TypeInv, TypeOK
<1>2. TypeOK'
  BY <1>1 DEF TypeInv, TypeOK
<1>3. pc'[p] = s /\ \A q \in Proc \ {p} : pc'[q] = pc[q]
  BY DEF TypeInv, TypeOK
<1> QED
  BY <1>2, <1>3 DEF TypeInv

LEMMA TypedInit == Init => TypeInv /\ TornInv
  BY CliAssumption, Zenon DEF Init, TypeInv, TypeOK, TornInv, Stage

LEMMA TypedStart ==
  ASSUME TypeInv, NEW p \in Proc, NEW c \in Command, Start(p, c)
  PROVE  TypeInv'
<1>1. pc' \in [Proc -> Stage]
  BY DEF Start, TypeInv, TypeOK, Stage
<1>2. cmd' \in [Proc -> Command \cup {None}]
  BY DEF Start, TypeInv, TypeOK
<1>3. since' \in [Proc -> SUBSET (Sigil \cup Cap)]
  BY DEF Start, TypeInv, TypeOK
<1>4. exit' \in {0, 1}
  BY DEF Start, TypeInv, TypeOK
<1>5. TypeOK'
  BY <1>1, <1>2, <1>3, <1>4 DEF Start, TypeInv, TypeOK
<1>6. \A q \in Proc :
        /\ pc'[q] # "idle" => cmd'[q] \in Command
        /\ pc'[q] = "run" => cmd'[q].verb = "list" \/ key'[q] \in Key
        /\ pc'[q] = "consume" => cmd'[q].verb = "verify"
        /\ pc'[q] \in {"truncate", "write"} => key'[q] \in made'
  BY DEF Start, TypeInv, TypeOK
<1> QED
  BY <1>5, <1>6 DEF TypeInv

LEMMA TypedKeygen ==
  ASSUME TypeInv, CliInv, NEW p \in Proc, Stat(p) \/ Generate(p) \/ Truncate(p) \/ Write(p)
  PROVE  TypeInv'
<1>1. ASSUME End(p, 1), UNCHANGED <<machine, database, history>>
      PROVE  TypeInv'
  BY <1>1, EndTyped DEF TypeInv, TypeOK
<1>2. CASE Stat(p)
  <2>1. CASE /\ pc' = [pc EXCEPT ![p] = "generate"]
             /\ saw' = [saw EXCEPT ![p] = written]
             /\ UNCHANGED <<cmd, key, exit, since, failed>>
    <3>1. saw' \in [Proc -> SUBSET Key]
      BY <2>1 DEF TypeInv, TypeOK
    <3> QED
      BY <1>2, <2>1, <3>1, GoesOnTyped, Zenon DEF Stat, TypeInv, TypeOK, Stage
  <2> QED
    BY <1>1, <1>2, <2>1, Zenon DEF Stat
<1>3. CASE Generate(p)
  <2>1. ASSUME NEW k \in Key \ made, made' = made \cup {k}, key' = [key EXCEPT ![p] = k],
               pc' = [pc EXCEPT ![p] = "truncate"], UNCHANGED <<cmd, exit, saw, since, failed>>
        PROVE  TypeInv'
    <3>1. key' \in [Proc -> Key \cup {None}] /\ \A q \in Proc \ {p} : key'[q] = key[q]
      BY <2>1 DEF TypeInv, TypeOK
    <3> QED
      BY <1>3, <2>1, <3>1, GoesOnTyped, Zenon DEF Generate, TypeInv, TypeOK, Stage
  <2> QED
    BY <1>1, <1>3, <2>1 DEF Generate
<1>4. CASE Truncate(p)
  <2>1. CASE file' = Torn /\ Goto(p, "write")
    BY <1>4, <2>1, GoesOnTyped, Zenon DEF Truncate, Goto, TypeInv, TypeOK, Stage
  <2> QED
    BY <1>1, <1>4, <2>1 DEF Truncate
<1>5. CASE Write(p)
  <2>1. key[p] \in Key
    BY <1>5 DEF Write, CliInv, KeygenInv
  <2>2. CASE file' = key[p] /\ written' = written \cup {key[p]} /\ spoilt' = FALSE /\ End(p, 0)
    <3>1. key[p] \in made
      BY <1>5, Zenon DEF Write, TypeInv
    <3> QED
      BY <1>5, <2>1, <2>2, <3>1, EndTyped, Zenon DEF Write, TypeInv, TypeOK
  <2>3. CASE spoilt' = TRUE /\ End(p, 1) /\ UNCHANGED <<file, written>>
    BY <1>5, <2>3, EndTyped DEF Write, TypeInv, TypeOK
  <2> QED
    BY <1>5, <2>2, <2>3, Zenon DEF Write
<1> QED
  BY <1>2, <1>3, <1>4, <1>5

LEMMA TypedCommand ==
  ASSUME TypeInv, NEW p \in Proc,
         \/ Kill(p) \/ OpenStore(p) \/ LoadBrokerKey(p) \/ IssueSigil(p) \/ IssueCap(p)
         \/ IssueAttestation(p) \/ Verify(p) \/ Consume(p) \/ Revoke(p) \/ List(p)
  PROVE  TypeInv'
<1> USE DEF TypeInv
<1>0. cmd[p] \in Command
  BY Zenon DEF Kill, OpenStore, LoadBrokerKey, IssueSigil, IssueCap, IssueAttestation, Verify,
         Consume, Revoke, List, Runs
<1>1. ASSUME NEW code \in {0, 1}, End(p, code), UNCHANGED <<machine, database, history>>
      PROVE  TypeInv'
  BY <1>1, EndTyped DEF TypeOK
<1>2. ASSUME Deny(p), cmd[p].verb = "verify", UNCHANGED <<machine, sigils, caps, revoked, history>>
      PROVE  TypeInv'
  <2>1. consumed' \subseteq Cap
    BY <1>0, <1>2, CommandFields, EnvelopeFields, Zenon DEF Deny, TypeOK
  <2> QED
    BY <1>2, <2>1, EndTyped DEF Deny, TypeOK
<1>3. CASE Kill(p)
  <2>1. spoilt' \in BOOLEAN
    BY <1>3, Zenon DEF Kill
  <2> QED
    BY <1>3, <2>1, EndTyped DEF Kill, TypeOK
<1>4. CASE OpenStore(p)
  <2>1. CASE Goto(p, IF cmd[p].verb = "list" THEN "run" ELSE "load")
    BY <1>4, <2>1, GoesOnTyped, Zenon DEF OpenStore, Goto, TypeOK, Stage
  <2> QED
    BY <1>1, <1>4, <2>1, Zenon DEF OpenStore
<1>5. CASE LoadBrokerKey(p)
  <2>1. CASE /\ file \in Key /\ key' = [key EXCEPT ![p] = file] /\ pc' = [pc EXCEPT ![p] = "run"]
             /\ UNCHANGED <<cmd, exit, saw, since, failed>>
    <3>1. /\ key' \in [Proc -> Key \cup {None}] /\ key'[p] \in Key
          /\ \A q \in Proc \ {p} : key'[q] = key[q]
      BY <2>1 DEF TypeOK
    <3> QED
      BY <1>5, <2>1, <3>1, GoesOnTyped, Zenon DEF LoadBrokerKey, TypeOK, Stage
  <2> QED
    BY <1>1, <1>5, <2>1, Zenon DEF LoadBrokerKey
<1>6. CASE IssueSigil(p)
  <2>1. PICK s \in Sigil : Statement(p, sigils, sigils \cup {s}, sigils')
    BY <1>6, Zenon DEF IssueSigil
  <2>2. PICK code \in {0, 1} : End(p, code)
    BY <2>1, Zenon DEF Statement
  <2>3. sigils' \subseteq Sigil
    BY <2>1 DEF Statement, TypeOK
  <2> QED
    BY <1>6, <2>2, <2>3, EndTyped, Zenon DEF IssueSigil, TypeOK
<1>7. CASE IssueCap(p)
  <2>1. CASE \E c \in Cap \ caps : Statement(p, caps, caps \cup {c}, caps')
    <3>1. PICK code \in {0, 1} : End(p, code)
      BY <2>1, Zenon DEF Statement
    <3>2. caps' \subseteq Cap
      BY <2>1 DEF Statement, TypeOK
    <3> QED
      BY <1>7, <3>1, <3>2, EndTyped, Zenon DEF IssueCap, TypeOK
  <2> QED
    BY <1>1, <1>7, <2>1, Zenon DEF IssueCap
<1>8. CASE IssueAttestation(p)
  <2> DEFINE env == [sigil |-> cmd[p].sigil, caps |-> cmd[p].caps, by |-> key[p]]
  <2>1. CASE printed' = printed \cup {env} /\ End(p, 0)
    <3>1. cmd[p].sigil \in Sigil /\ cmd[p].caps \in Carried /\ key[p] \in Key
      BY <1>0, <1>8, CommandFields, Zenon DEF IssueAttestation, Runs
    <3>2. env \in Envelope
      BY <3>1, Zenon DEF Envelope
    <3> HIDE DEF env
    <3> QED
      BY <1>8, <2>1, <3>2, EndTyped, Zenon DEF IssueAttestation, TypeOK
  <2>2. CASE End(p, 1) /\ UNCHANGED printed
    BY <1>1, <1>8, <2>2, Zenon DEF IssueAttestation
  <2> QED
    BY <1>8, <2>1, <2>2, Zenon DEF IssueAttestation
<1>9. CASE Verify(p)
  <2>1. cmd[p].verb = "verify" /\ pc[p] = "run"
    BY <1>9, Zenon DEF Verify, Runs
  <2> DEFINE ids == {cmd[p].env.sigil} \cup cmd[p].env.caps
  <2>2. ids \subseteq Sigil \cup Cap
    BY <1>0, <2>1, CommandFields, EnvelopeFields, Zenon
  <2>3. ASSUME NEW lost \in SUBSET ids, failed' = [failed EXCEPT ![p] = lost],
               pc' = [pc EXCEPT ![p] = "consume"], UNCHANGED <<cmd, key, exit, saw, since, consumed>>
        PROVE  TypeInv'
    <3>1. failed' \in [Proc -> SUBSET (Sigil \cup Cap)]
      BY <2>2, <2>3, Zenon DEF TypeOK
    <3> QED
      BY <1>9, <2>1, <2>3, <3>1, GoesOnTyped, Zenon DEF Verify, TypeOK, Stage
  <2>4. CASE Deny(p)
    BY <1>2, <1>9, <2>1, <2>4, Zenon DEF Verify
  <2> QED
    BY <1>9, <2>3, <2>4, Zenon DEF Verify
<1>10. CASE Consume(p)
  <2> DEFINE used == IF cmd[p].pg THEN cmd[p].env.caps ELSE {}
  <2>1. cmd[p].verb = "verify"
    BY <1>10, Zenon DEF Consume
  <2>2. used \subseteq Cap
    BY <1>0, <2>1, CommandFields, EnvelopeFields, Zenon
  <2>3. CASE End(p, 0) /\ consumed' = consumed \cup used /\ accepted' = accepted \cup used
    <3> HIDE DEF used
    <3> QED
      BY <1>10, <2>2, <2>3, EndTyped, Zenon DEF Consume, TypeOK
  <2>4. CASE Deny(p) /\ UNCHANGED accepted
    BY <1>2, <1>10, <2>1, <2>4, Zenon DEF Consume
  <2> QED
    BY <1>10, <2>3, <2>4, Zenon DEF Consume
<1>11. CASE Revoke(p)
  <2>1. cmd[p].id \in Sigil \cup Cap
    BY <1>0, <1>11, CommandFields, Zenon DEF Revoke, Runs
  <2>2. PICK code \in {0, 1} : End(p, code)
    BY <1>11, Zenon DEF Revoke, Statement
  <2>3. revoked' \subseteq Sigil \cup Cap /\ acked' \subseteq Sigil \cup Cap
    BY <1>11, <2>1 DEF Revoke, Statement, TypeOK
  <2> QED
    BY <1>11, <2>2, <2>3, EndTyped, Zenon DEF Revoke, TypeOK
<1>12. CASE List(p)
  BY <1>1, <1>12, Zenon DEF List
<1> QED
  BY <1>3, <1>4, <1>5, <1>6, <1>7, <1>8, <1>9, <1>10, <1>11, <1>12, Zenon

\* Between Truncate and Write the file is torn and the process is at its write;
\* it leaves that place by writing a key, or with spoilt set.
LEMMA TornStep ==
  ASSUME TypeInv, TornInv, CliInv, [Next]_vars
  PROVE  TornInv'
<1>1. CASE UNCHANGED vars
  BY <1>1 DEF vars, processes, TornInv
<1>2. ASSUME NEW p \in Proc, Write(p) PROVE TornInv'
  <2>1. key[p] # Torn
    BY <1>2, CliAssumption DEF Write, CliInv, KeygenInv
  <2> QED
    BY <1>2, <2>1 DEF Write, TornInv
<1>3. ASSUME NEW p \in Proc, Kill(p) PROVE TornInv'
  BY <1>3, Zenon DEF Kill, End, TornInv, TypeInv, TypeOK
<1>4. ASSUME NEW p \in Proc, Truncate(p) PROVE TornInv'
  BY <1>4 DEF Truncate, Goto, End, TornInv, TypeInv, TypeOK
<1>5. ASSUME NEW p \in Proc,
             \/ \E c \in Command : Start(p, c)
             \/ Stat(p) \/ Generate(p) \/ OpenStore(p) \/ LoadBrokerKey(p)
             \/ IssueSigil(p) \/ IssueCap(p) \/ IssueAttestation(p)
             \/ Verify(p) \/ Consume(p) \/ Revoke(p) \/ List(p)
      PROVE  TornInv'
  <2>1. UNCHANGED <<file, spoilt>> /\ pc[p] # "write"
    BY <1>5, Zenon DEF Start, Stat, Generate, OpenStore, LoadBrokerKey, IssueSigil, IssueCap,
                IssueAttestation, Verify, Consume, Revoke, List, Runs
  <2>2. \A q \in Proc \ {p} : pc'[q] = pc[q]
    BY <1>5, OthersWait, Zenon
  <2> QED
    BY <2>1, <2>2 DEF TornInv
<1> QED
  BY <1>1, <1>2, <1>3, <1>4, <1>5 DEF Next

\* keygen (main.go, runKeygen): whatever runs at once, fails or is killed, the key
\* file lacks its key only while one writes it or after one that did not exit 0;
\* every table and process keeps its type, so no command runs with a torn key.
THEOREM KeyFileWhole == Spec => []KeyWhole
<1>1. TypeInv /\ CliInv /\ [Next]_vars => TypeInv'
  <2> SUFFICES ASSUME TypeInv, CliInv, [Next]_vars PROVE TypeInv'
    OBVIOUS
  <2>1. CASE UNCHANGED vars
    BY <2>1 DEF vars, processes, TypeInv, TypeOK
  <2> QED
    BY <2>1, TypedStart, TypedKeygen, TypedCommand DEF Next
<1>2. TypeInv /\ TornInv => KeyWhole
  BY DEF TypeInv, TornInv, KeyWhole
<1> QED
  BY <1>1, <1>2, CliInit, CliNext, TypedInit, TornStep, PTL DEF Spec
=============================================================================
