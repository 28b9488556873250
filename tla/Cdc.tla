-------------------------------- MODULE Cdc ---------------------------------
(***************************************************************************)
(* internal/observability/cdc.go: the goroutine that tails hanko_audit by  *)
(* logical replication and publishes one event per row change.  The table  *)
(* is one row; the log is the sequence of committed changes, an LSN the    *)
(* number of changes before it.  Hashing is injective, so a hashed map is  *)
(* the map itself.                                                         *)
(***************************************************************************)
EXTENDS Integers, Sequences, FiniteSets

CONSTANTS
  Id, Text,    \* values of the column id and of the other columns
  Null, Absent,
  Column,      \* the columns other than id
  Identity,    \* REPLICA IDENTITY the table may have: "full", "default"
  Toasted,     \* values stored out of line: unchanged ones are not sent
  MaxChanges,  \* bound on the length of the log
  MaxStops     \* bound on sessions that end

\* The text of a NULL, and of a column that is not there.
Empty == ""

ASSUME CdcAssumption ==
  /\ MaxChanges \in Nat /\ MaxStops \in Nat
  /\ Identity \subseteq {"full", "default"} /\ Toasted \subseteq Text \ {Empty}
  /\ Empty \notin Id /\ Null \notin Id \cup Text /\ "id" \notin Column

VARIABLES
  row,         \* the row of hanko_audit, or Absent
  log,         \* committed changes: [table, op, old, new, identity, kept: the slot existed]
  slot,        \* confirmed_flush_lsn of the slot; -1 before it exists
  pc,          \* the goroutine: off, identified, slotted, streaming, stopped
  xlogpos,     \* sysident.XLogPos, then clientXLogPos
  from,        \* where the server starts the stream of this session
  cursor,      \* the last change received
  out,         \* positions of the changes published, in order
  stops

db      == <<row, log>>
session == <<pc, xlogpos, from, cursor>>
vars    == <<db, slot, session, out, stops>>

-----------------------------------------------------------------------------
(* pgoutput messages and their decoding.                                   *)

Row == {r \in [{"id"} \cup Column -> Id \cup Text \cup {Null}] :
          r["id"] \in Id /\ \A c \in Column : r[c] \in Text \cup {Null}}

\* A tuple maps columns to data, NULLs and values left out because unchanged.
Tuple == [{"id"} \cup Column -> [kind : {"t", "n", "u"}, data : Id \cup Text \cup {Empty}]]

\* No row, and no tuple: nil.
ASSUME AbsentAssumption == Absent \notin Row \cup Tuple

Datum(v) == IF v = Null THEN [kind |-> "n", data |-> Empty] ELSE [kind |-> "t", data |-> v]

\* What the server sends as the new tuple of change ch.
NewTuple(ch) ==
  [c \in DOMAIN ch.new |->
     IF ch.op = "update" /\ c \in Column /\ ch.new[c] = ch.old[c] /\ ch.new[c] \in Toasted
     THEN [kind |-> "u", data |-> Empty] ELSE Datum(ch.new[c])]

\* The old tuple: the whole row, or the key alone if it is needed.
OldTuple(ch) ==
  IF ch.identity = "full" THEN [c \in DOMAIN ch.old |-> Datum(ch.old[c])]
  ELSE IF ch.op = "delete" \/ ch.old["id"] # ch.new["id"]
       THEN [c \in DOMAIN ch.old |-> Datum(IF c = "id" THEN ch.old[c] ELSE Null)]
       ELSE Absent

tupleToMap(tup) ==
  IF tup = Absent THEN << >>
  ELSE [c \in {d \in DOMAIN tup : tup[d].kind # "u"} |-> tup[c].data]

rowID(fields) == IF "id" \in DOMAIN fields THEN fields["id"] ELSE Empty

diffColumns(old, new) ==
  {k \in DOMAIN new : k \notin DOMAIN old \/ old[k] # new[k]} \cup (DOMAIN old \ DOMAIN new)

HandleInsert(ch) ==
  LET fields == tupleToMap(NewTuple(ch))
  IN  [op |-> "insert", id |-> rowID(fields), fields |-> fields, diff |-> {}]

\* Mutant: the row is named after its old tuple first.
HandleUpdateOldId(ch) ==
  LET new == tupleToMap(NewTuple(ch))
      old == tupleToMap(OldTuple(ch))
  IN  [op |-> "update", id |-> IF rowID(old) # Empty THEN rowID(old) ELSE rowID(new),
       fields |-> new, diff |-> diffColumns(old, new)]

HandleUpdate(ch) ==
  LET new == tupleToMap(NewTuple(ch))
      old == tupleToMap(OldTuple(ch))
  IN  [op |-> "update", id |-> IF rowID(new) # Empty THEN rowID(new) ELSE rowID(old),
       fields |-> new, diff |-> diffColumns(old, new)]

HandleDelete(ch) ==
  LET old == tupleToMap(OldTuple(ch))
  IN  [op |-> "delete", id |-> rowID(old), fields |-> old, diff |-> {}]

\* The event PublishChange emits.
PublishChange(ch) ==
  IF ch.op = "insert" THEN HandleInsert(ch)
  ELSE IF ch.op = "update" THEN HandleUpdate(ch) ELSE HandleDelete(ch)

-----------------------------------------------------------------------------

Position == 0..Len(log)

TypeOK ==
  /\ row \in Row \cup {Absent}
  /\ \A i \in DOMAIN log : log[i].table \in {"hanko_audit", "other"}
  /\ slot \in {-1} \cup Position
  /\ pc \in {"off", "identified", "slotted", "streaming", "stopped"}
  /\ xlogpos \in Position /\ from \in Position /\ cursor \in Position
  /\ out \in Seq(1..Len(log))
  /\ stops \in 0..MaxStops

Init ==
  /\ row = Absent /\ log = << >>
  /\ slot = -1 /\ pc = "off"
  /\ xlogpos = 0 /\ from = 0 /\ cursor = 0
  /\ out = << >> /\ stops = 0

\* A transaction commits a change of the audited row.
Write(op, new, identity) ==
  /\ Len(log) < MaxChanges
  /\ op = "insert" <=> row = Absent
  /\ op = "delete" <=> new = Absent
  /\ log' = Append(log, [table |-> "hanko_audit", op |-> op, old |-> row, new |-> new,
                         identity |-> identity, kept |-> slot # -1])
  /\ row' = new
  /\ UNCHANGED <<slot, session, out, stops>>

\* A change of another table of the publication.
WriteOther ==
  /\ Len(log) < MaxChanges
  /\ log' = Append(log, [table |-> "other", op |-> "insert", old |-> Absent, new |-> Absent,
                         identity |-> "full", kept |-> slot # -1])
  /\ UNCHANGED <<row, slot, session, out, stops>>

IdentifySystem ==
  /\ pc = "off"
  /\ pc' = "identified" /\ xlogpos' = Len(log)
  /\ UNCHANGED <<db, slot, from, cursor, out, stops>>

\* A new slot starts at the end of the log; an existing one is kept.
CreateReplicationSlot ==
  /\ pc = "identified"
  /\ pc' = "slotted"
  /\ slot' = IF slot = -1 THEN Len(log) ELSE slot
  /\ UNCHANGED <<db, xlogpos, from, cursor, out, stops>>

\* The server starts at the later of the position asked for and the slot's.
StartReplication ==
  /\ pc = "slotted"
  /\ pc' = "streaming"
  /\ from' = IF xlogpos > slot THEN xlogpos ELSE slot
  /\ cursor' = from'
  /\ UNCHANGED <<db, slot, xlogpos, out, stops>>

\* Mutant: a DeleteMessage is not dispatched.
DispatchKeepsDeletes ==
  /\ pc = "streaming" /\ cursor < Len(log)
  /\ cursor' = cursor + 1 /\ xlogpos' = cursor'
  /\ out' = IF log[cursor'].table = "hanko_audit" /\ log[cursor'].op # "delete"
            THEN Append(out, cursor') ELSE out
  /\ UNCHANGED <<db, slot, pc, from, stops>>

\* The next message: a change of the audited table is published, and then the
\* client position moves past it.
Dispatch ==
  /\ pc = "streaming" /\ cursor < Len(log)
  /\ cursor' = cursor + 1 /\ xlogpos' = cursor'
  /\ out' = IF log[cursor'].table = "hanko_audit" THEN Append(out, cursor') ELSE out
  /\ UNCHANGED <<db, slot, pc, from, stops>>

\* Mutant: the status reports the end of the server's log.
StandbyStatusServerEnd ==
  /\ pc = "streaming"
  /\ slot' = Len(log)
  /\ UNCHANGED <<db, session, out, stops>>

\* The periodic status update; the server never moves a slot back.
StandbyStatus ==
  /\ pc = "streaming"
  /\ slot' = IF xlogpos > slot THEN xlogpos ELSE slot
  /\ UNCHANGED <<db, session, out, stops>>

\* An error returns from StartReplication, which nobody calls again.
Stop ==
  /\ pc \in {"identified", "slotted", "streaming"} /\ stops < MaxStops
  /\ pc' = "stopped" /\ stops' = stops + 1
  /\ UNCHANGED <<db, slot, xlogpos, from, cursor, out>>

\* The broker is started again.
Restart ==
  /\ pc = "stopped"
  /\ pc' = "off"
  /\ UNCHANGED <<db, slot, xlogpos, from, cursor, out, stops>>

Loop == IdentifySystem \/ CreateReplicationSlot \/ StartReplication \/ Dispatch

Next ==
  \/ \E op \in {"insert", "update", "delete"}, new \in Row \cup {Absent}, identity \in Identity :
       Write(op, new, identity)
  \/ WriteOther
  \/ Loop \/ StandbyStatus \/ Stop \/ Restart

Spec == Init /\ [][Next]_vars

\* The goroutine runs, and a broker that stopped is started again.
FairSpec == Spec /\ WF_vars(Loop) /\ WF_vars(Restart)

-----------------------------------------------------------------------------
(* Properties.                                                             *)

Audited(i) == log[i].table = "hanko_audit"
Published(i) == \E k \in DOMAIN out : out[k] = i

\* What the broker confirmed, and the server may forget, it had published,
\* as far as it lies in the session (the position follows dispatch).
ConfirmedPublished ==
  pc = "streaming" => \A i \in (from + 1)..slot : Audited(i) => Published(i)

\* Within a session nothing is passed over: the changes of the audited table
\* received so far, and no others, were published; and across sessions and
\* restarts no change is published twice or after a later one.  Positions stay
\* within the log (TypeOK).
SessionComplete ==
  /\ TypeOK
  /\ pc = "streaming" => \A i \in (from + 1)..cursor : Audited(i) <=> Published(i)
  /\ \A j, k \in DOMAIN out : j < k => out[j] < out[k]

\* An event names the row it is about: by its id after an update that changes
\* the id, by the old one for a delete, whatever part of the old row was sent.
RowIdentified ==
  \A k \in DOMAIN out :
    LET ch == log[out[k]]
    IN  PublishChange(ch).id = IF ch.op = "delete" THEN ch.old["id"] ELSE ch.new["id"]

AsText(v) == IF v = Null THEN Empty ELSE v

\* With the whole old row sent, the diff is exactly the columns whose text
\* changed (null and "" read the same) and the unchanged ones out of line.
DiffExact ==
  \A k \in DOMAIN out :
    LET ch == log[out[k]]
    IN  ch.op = "update" /\ ch.identity = "full" =>
          PublishChange(ch).diff =
            {c \in DOMAIN ch.new : AsText(ch.old[c]) # AsText(ch.new[c])
                                     \/ (c \in Column /\ ch.new[c] \in Toasted)}

\* Events tell consumers which row changed and in which columns.
EventsFaithful == RowIdentified /\ DiffExact

\* A change committed behind the start of a running session is published as
\* long as the session lasts.
SessionFollows ==
  \A i \in 1..MaxChanges :
    (pc = "streaming" /\ i > from /\ i <= Len(log) /\ Audited(i)) ~> (Published(i) \/ pc # "streaming")

\* cdc.go:4-6: "Each row insert/update/delete becomes a
\* shikki.<ws>.broker.hanko.cdc.audit_row_* event."  Claimed here only for changes
\* committed while the slot, which keeps them for the broker, exists.
EveryChangePublished ==
  \A i \in 1..MaxChanges : (i <= Len(log) /\ Audited(i) /\ log[i].kept) ~> Published(i)
=============================================================================
