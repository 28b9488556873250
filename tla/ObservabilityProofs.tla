------------------------ MODULE ObservabilityProofs -------------------------
(***************************************************************************)
(* Two parts of internal/observability.                                    *)
(* The replication goroutine publishes what it confirms, in the order of   *)
(* the log and once, and its events describe the changes, for every set of *)
(* rows and columns and any number of changes and restarts.                *)
(* Config reloads are atomic, and events and counters report them, for     *)
(* every set of keys and of requests and however the connection breaks.    *)
(***************************************************************************)
EXTENDS Cdc, ConfigReload, FiniteSetTheorems, TLAPS

(* The replication goroutine.                                              *)

Change ==
  [table : {"hanko_audit", "other"}, op : {"insert", "update", "delete"},
   old : Row \cup {Absent}, new : Row \cup {Absent}, identity : {"full", "default"},
   kept : BOOLEAN]

\* An insert has no old row, a delete no new one, anything else has both.
WellFormed(ch) ==
  /\ ch.op = "insert" <=> ch.old = Absent
  /\ ch.op = "delete" <=> ch.new = Absent

LogInv ==
  /\ log \in Seq(Change)
  /\ \A i \in DOMAIN log : Audited(i) => WellFormed(log[i])

\* Every position the goroutine and the slot hold lies within what was received.
SessionInv ==
  /\ pc = "streaming" => from <= cursor /\ xlogpos <= cursor /\ slot <= cursor
  /\ pc = "slotted" => slot >= 0

\* What was published lies behind the position a session starts from or has
\* reached; only changes of the audited table are published.
OutInv ==
  /\ \A k \in DOMAIN out : Audited(out[k])
  /\ \A j, k \in DOMAIN out : j < k => out[j] < out[k]
  /\ pc \in {"identified", "slotted"} => \A k \in DOMAIN out : out[k] <= xlogpos
  /\ pc = "streaming" => \A k \in DOMAIN out : out[k] <= cursor
  /\ pc = "streaming" => \A i \in (from + 1)..cursor : Audited(i) <=> Published(i)

CdcInv == TypeOK /\ LogInv /\ SessionInv /\ OutInv

-----------------------------------------------------------------------------
(* The events.                                                             *)

Columns == {"id"} \cup Column

LEMMA RowType ==
  ASSUME NEW r \in Row
  PROVE  /\ r \in [Columns -> Id \cup Text \cup {Null}]
         /\ r["id"] \in Id /\ r["id"] # Null /\ r["id"] # Empty
         /\ \A c \in Column : r[c] \in Text \cup {Null}
  BY CdcAssumption DEF Row, Columns

LEMMA DatumType ==
  ASSUME NEW v \in Id \cup Text \cup {Null}
  PROVE  /\ Datum(v) \in [kind : {"t", "n", "u"}, data : Id \cup Text \cup {Empty}]
         /\ Datum(v).kind # "u" /\ Datum(v).data = AsText(v)
  BY DEF Datum, AsText

\* The map of a whole row: the text of every column.
LEMMA RowMap ==
  ASSUME NEW r \in Row
  PROVE  tupleToMap([c \in DOMAIN r |-> Datum(r[c])]) = [c \in Columns |-> AsText(r[c])]
<1> DEFINE tup == [c \in DOMAIN r |-> Datum(r[c])]
<1>1. DOMAIN r = Columns /\ \A c \in Columns : r[c] \in Id \cup Text \cup {Null}
  BY RowType
<1>2. \A c \in Columns : /\ tup[c] \in [kind : {"t", "n", "u"}, data : Id \cup Text \cup {Empty}]
                         /\ tup[c].kind # "u" /\ tup[c].data = AsText(r[c])
  BY <1>1, DatumType
<1>3. tup \in Tuple /\ DOMAIN tup = Columns
  BY <1>1, <1>2, Zenon DEF Tuple, Columns
<1>4. tup # Absent
  BY <1>3, AbsentAssumption
<1> HIDE DEF tup
<1>5. {d \in DOMAIN tup : tup[d].kind # "u"} = Columns
  BY <1>2, <1>3
<1>6. tupleToMap(tup) = [c \in Columns |-> tup[c].data]
  BY <1>4, <1>5 DEF tupleToMap
<1>7. tupleToMap(tup) = [c \in Columns |-> AsText(r[c])]
  BY <1>2, <1>6
<1> QED
  BY <1>7 DEF tup

\* The columns an update leaves out of its new tuple.
LeftOut(ch) == {c \in Column : ch.op = "update" /\ ch.new[c] = ch.old[c] /\ ch.new[c] \in Toasted}

LEMMA NewMap ==
  ASSUME NEW ch \in Change, ch.new \in Row
  PROVE  tupleToMap(NewTuple(ch)) = [c \in Columns \ LeftOut(ch) |-> AsText(ch.new[c])]
<1> DEFINE tup == NewTuple(ch)
<1>1. DOMAIN ch.new = Columns /\ \A c \in Columns : ch.new[c] \in Id \cup Text \cup {Null}
  BY RowType
<1>2. tup = [c \in Columns |-> IF c \in LeftOut(ch) THEN [kind |-> "u", data |-> Empty]
                               ELSE Datum(ch.new[c])]
  BY <1>1 DEF NewTuple, LeftOut
<1> HIDE DEF tup
<1>3. DOMAIN tup = Columns
  BY <1>2
<1>4. \A c \in Columns :
        /\ tup[c] \in [kind : {"t", "n", "u"}, data : Id \cup Text \cup {Empty}]
        /\ tup[c].kind = "u" <=> c \in LeftOut(ch)
        /\ c \notin LeftOut(ch) => tup[c].data = AsText(ch.new[c])
  <2> SUFFICES ASSUME NEW c \in Columns
               PROVE  /\ tup[c] \in [kind : {"t", "n", "u"}, data : Id \cup Text \cup {Empty}]
                      /\ tup[c].kind = "u" <=> c \in LeftOut(ch)
                      /\ c \notin LeftOut(ch) => tup[c].data = AsText(ch.new[c])
    OBVIOUS
  <2>1. CASE c \in LeftOut(ch)
    <3>1. tup[c] = [kind |-> "u", data |-> Empty]
      BY <1>2, <2>1
    <3>2. tup[c].kind = "u" /\ tup[c] \in [kind : {"t", "n", "u"}, data : Id \cup Text \cup {Empty}]
      BY <3>1
    <3> QED
      BY <2>1, <3>2
  <2>2. CASE c \notin LeftOut(ch)
    <3>1. tup[c] = Datum(ch.new[c])
      BY <1>2, <2>2
    <3> QED
      BY <1>1, <2>2, <3>1, DatumType
  <2> QED
    BY <2>1, <2>2
<1>5. tup \in Tuple
  BY <1>2, <1>3, <1>4, Zenon DEF Tuple, Columns
<1>6. tup # Absent
  BY <1>5, AbsentAssumption
<1>7. {d \in DOMAIN tup : tup[d].kind # "u"} = Columns \ LeftOut(ch)
  BY <1>3, <1>4
<1>8. tupleToMap(tup) = [c \in Columns \ LeftOut(ch) |-> tup[c].data]
  BY <1>6, <1>7 DEF tupleToMap
<1>9. tupleToMap(tup) = [c \in Columns \ LeftOut(ch) |-> AsText(ch.new[c])]
  BY <1>4, <1>8
<1> QED
  BY <1>9 DEF tup

\* The id is always part of the new tuple, and it is not empty.
LEMMA NewId ==
  ASSUME NEW ch \in Change, ch.new \in Row
  PROVE  rowID(tupleToMap(NewTuple(ch))) = ch.new["id"] /\ ch.new["id"] # Empty
<1>1. "id" \in Columns \ LeftOut(ch)
  BY CdcAssumption DEF Columns, LeftOut
<1>2. ch.new["id"] # Null /\ ch.new["id"] # Empty
  BY RowType
<1> QED
  BY <1>1, <1>2, NewMap, Zenon DEF rowID, AsText

\* The key alone, every other column NULL, is a row too; its map keeps the id.
LEMMA KeyMap ==
  ASSUME NEW r \in Row
  PROVE  LET tup == [c \in DOMAIN r |-> Datum(IF c = "id" THEN r[c] ELSE Null)]
         IN  rowID(tupleToMap(tup)) = r["id"]
<1> DEFINE key == [c \in DOMAIN r |-> IF c = "id" THEN r[c] ELSE Null]
           tup == [c \in DOMAIN r |-> Datum(IF c = "id" THEN r[c] ELSE Null)]
<1>1. DOMAIN r = Columns /\ "id" \in Columns /\ r["id"] \in Id /\ r["id"] # Null
  BY RowType DEF Columns
<1>2. key \in Row /\ key["id"] = r["id"]
  BY <1>1, CdcAssumption, Zenon DEF Row, Columns
<1>3. tup = [c \in DOMAIN key |-> Datum(key[c])]
  OBVIOUS
<1> HIDE DEF key, tup
<1>4. tupleToMap(tup) = [c \in Columns |-> AsText(key[c])]
  BY <1>2, <1>3, RowMap
<1>5. rowID(tupleToMap(tup)) = r["id"]
  BY <1>1, <1>2, <1>4 DEF rowID, AsText
<1> QED
  BY <1>5 DEF tup

LEMMA FullOldMap ==
  ASSUME NEW ch \in Change, ch.old \in Row, ch.identity = "full"
  PROVE  tupleToMap(OldTuple(ch)) = [c \in Columns |-> AsText(ch.old[c])]
  BY RowMap DEF OldTuple

LEMMA OldId ==
  ASSUME NEW ch \in Change, ch.op = "delete", ch.old \in Row
  PROVE  rowID(tupleToMap(OldTuple(ch))) = ch.old["id"]
<1>1. CASE ch.identity = "full"
  <2>1. "id" \in Columns /\ ch.old["id"] # Null
    BY RowType DEF Columns
  <2> QED
    BY <1>1, <2>1, FullOldMap DEF rowID, AsText
<1>2. CASE ch.identity # "full"
  <2>1. OldTuple(ch) = [c \in DOMAIN ch.old |-> Datum(IF c = "id" THEN ch.old[c] ELSE Null)]
    BY <1>2 DEF OldTuple
  <2> QED
    BY <2>1, KeyMap
<1> QED
  BY <1>1, <1>2

\* PublishChange names the row: after its id, the old one for a delete.
LEMMA EventId ==
  ASSUME NEW ch \in Change, WellFormed(ch)
  PROVE  PublishChange(ch).id = IF ch.op = "delete" THEN ch.old["id"] ELSE ch.new["id"]
<1>1. CASE ch.op = "insert"
  <2>1. PublishChange(ch) = HandleInsert(ch)
    BY <1>1 DEF PublishChange
  <2>2. ch.new \in Row
    BY <1>1 DEF Change, WellFormed
  <2> QED
    BY <1>1, <2>1, <2>2, NewId DEF HandleInsert
<1>2. CASE ch.op = "update"
  <2>1. PublishChange(ch) = HandleUpdate(ch)
    BY <1>2 DEF PublishChange
  <2>2. ch.new \in Row
    BY <1>2 DEF Change, WellFormed
  <2> QED
    BY <1>2, <2>1, <2>2, NewId DEF HandleUpdate
<1>3. CASE ch.op = "delete"
  <2>1. PublishChange(ch) = HandleDelete(ch)
    BY <1>3 DEF PublishChange
  <2>2. ch.old \in Row
    BY <1>3 DEF Change, WellFormed
  <2> QED
    BY <1>3, <2>1, <2>2, OldId DEF HandleDelete
<1> QED
  BY <1>1, <1>2, <1>3 DEF Change

\* Over the whole old row the diff has the columns whose text changed, and
\* those that were left out.
LEMMA EventDiff ==
  ASSUME NEW ch \in Change, WellFormed(ch), ch.op = "update", ch.identity = "full"
  PROVE  PublishChange(ch).diff =
           {c \in DOMAIN ch.new : AsText(ch.old[c]) # AsText(ch.new[c])
                                    \/ (c \in Column /\ ch.new[c] \in Toasted)}
<1> DEFINE new == tupleToMap(NewTuple(ch))
           old == tupleToMap(OldTuple(ch))
<1>1. PublishChange(ch) = HandleUpdate(ch)
  BY DEF PublishChange
<1>2. PublishChange(ch).diff = diffColumns(old, new)
  BY <1>1 DEF HandleUpdate
<1>3. ch.new \in Row /\ ch.old \in Row
  BY DEF Change, WellFormed
<1>4. /\ new = [c \in Columns \ LeftOut(ch) |-> AsText(ch.new[c])]
      /\ old = [c \in Columns |-> AsText(ch.old[c])]
  BY <1>3, NewMap, FullOldMap
<1> HIDE DEF new, old
<1>5. diffColumns(old, new) =
        {c \in Columns \ LeftOut(ch) : AsText(ch.old[c]) # AsText(ch.new[c])} \cup LeftOut(ch)
  <2>1. DOMAIN old = Columns /\ DOMAIN new = Columns \ LeftOut(ch)
    BY <1>4
  <2>2. LeftOut(ch) \subseteq Columns
    BY DEF LeftOut, Columns
  <2>3. \A c \in Columns \ LeftOut(ch) : old[c] # new[c] <=> AsText(ch.old[c]) # AsText(ch.new[c])
    BY <1>4
  <2> QED
    BY <2>1, <2>2, <2>3 DEF diffColumns
<1>6. DOMAIN ch.new = Columns
  BY <1>3, RowType
<1>7. \A c \in Column : ch.new[c] \in Toasted /\ c \notin LeftOut(ch) =>
        AsText(ch.old[c]) # AsText(ch.new[c])
  <2> SUFFICES ASSUME NEW c \in Column, ch.new[c] \in Toasted, ch.new[c] # ch.old[c]
               PROVE  AsText(ch.old[c]) # AsText(ch.new[c])
    BY DEF LeftOut
  <2>1. ch.new[c] # Empty /\ ch.new[c] # Null
    BY CdcAssumption
  <2> QED
    BY <2>1 DEF AsText
<1> QED
  BY <1>2, <1>5, <1>6, <1>7 DEF LeftOut, Columns

-----------------------------------------------------------------------------
(* The session.                                                            *)

LEMMA CdcInit == Init => CdcInv
<1> SUFFICES ASSUME Init PROVE CdcInv
  OBVIOUS
<1>1. TypeOK
  BY CdcAssumption DEF Init, TypeOK, Position
<1>2. LogInv /\ SessionInv /\ OutInv
  BY DEF Init, LogInv, SessionInv, OutInv
<1> QED
  BY <1>1, <1>2 DEF CdcInv

\* The log grows: positions and what they hold stay as they are.
LEMMA CdcGrows ==
  ASSUME CdcInv, NEW ch \in Change, ch.table = "hanko_audit" => WellFormed(ch),
         log' = Append(log, ch), row' \in Row \cup {Absent}, UNCHANGED <<slot, session, out, stops>>
  PROVE  CdcInv'
<1>1. log \in Seq(Change) /\ Len(log) \in Nat
  BY DEF CdcInv, LogInv
<1>2. /\ log' \in Seq(Change) /\ Len(log') = Len(log) + 1
      /\ DOMAIN log = 1..Len(log) /\ DOMAIN log' = 1..(Len(log) + 1)
      /\ \A i \in 1..Len(log) : log'[i] = log[i]
      /\ log'[Len(log) + 1] = ch
  BY <1>1
<1>3. TypeOK'
  <2>1. \A i \in DOMAIN log' : log'[i].table \in {"hanko_audit", "other"}
    <3>1. \A i \in DOMAIN log' : log'[i] \in Change
      BY <1>2
    <3> QED
      BY <3>1 DEF Change
  <2>2. Position \subseteq Position'
    BY <1>1, <1>2 DEF Position
  <2>3. out' \in Seq(1..Len(log'))
    <3>1. out \in Seq(1..Len(log)) /\ out' = out
      BY DEF CdcInv, TypeOK
    <3>2. 1..Len(log) \subseteq 1..Len(log')
      BY <1>1, <1>2
    <3> QED
      BY <3>1, <3>2
  <2> QED
    BY <2>1, <2>2, <2>3 DEF CdcInv, TypeOK, session
<1>4. LogInv'
  BY <1>1, <1>2 DEF CdcInv, LogInv, Audited
<1>5. SessionInv'
  BY DEF CdcInv, SessionInv, session
<1>6. /\ cursor \in 0..Len(log) /\ from \in 0..Len(log)
      /\ \A k \in DOMAIN out : out[k] \in 1..Len(log)
  BY DEF CdcInv, TypeOK, Position
<1>7. \A i \in 1..Len(log) : Audited(i)' <=> Audited(i)
  BY <1>2 DEF Audited
<1>8. \A i : Published(i)' <=> Published(i)
  BY DEF Published
<1>9. \A k \in DOMAIN out' : Audited(out[k])'
  BY <1>6, <1>7 DEF CdcInv, OutInv
<1>10. pc' = "streaming" => \A i \in (from' + 1)..cursor' : Audited(i)' <=> Published(i)'
  <2> SUFFICES ASSUME pc = "streaming", NEW i \in (from + 1)..cursor
               PROVE  Audited(i)' <=> Published(i)'
    BY DEF session
  <2>1. i \in 1..Len(log)
    BY <1>1, <1>6
  <2> QED
    BY <1>7, <1>8, <2>1 DEF CdcInv, OutInv
<1>11. OutInv'
  BY <1>9, <1>10 DEF CdcInv, OutInv, session
<1> QED
  BY <1>3, <1>4, <1>5, <1>11 DEF CdcInv

LEMMA CdcWrite ==
  ASSUME CdcInv, NEW op \in {"insert", "update", "delete"}, NEW new \in Row \cup {Absent},
         NEW identity \in Identity, Write(op, new, identity)
  PROVE  CdcInv'
<1> DEFINE ch == [table |-> "hanko_audit", op |-> op, old |-> row, new |-> new,
                  identity |-> identity, kept |-> slot # -1]
<1>1. ch \in Change /\ WellFormed(ch)
  <2>1. row \in Row \cup {Absent} /\ identity \in {"full", "default"}
    BY CdcAssumption DEF CdcInv, TypeOK
  <2>2. (slot # -1) \in BOOLEAN
    OBVIOUS
  <2>3. ch \in Change
    BY <2>1, <2>2, Zenon DEF Change
  <2> QED
    BY <2>3 DEF WellFormed, Write
<1>2. log' = Append(log, ch) /\ row' \in Row \cup {Absent} /\ UNCHANGED <<slot, session, out, stops>>
  BY DEF Write
<1> HIDE DEF ch
<1> QED
  BY <1>1, <1>2, CdcGrows

LEMMA CdcWriteOther == CdcInv /\ WriteOther => CdcInv'
<1> SUFFICES ASSUME CdcInv, WriteOther PROVE CdcInv'
  OBVIOUS
<1> DEFINE ch == [table |-> "other", op |-> "insert", old |-> Absent, new |-> Absent,
                  identity |-> "full", kept |-> slot # -1]
<1>1. (slot # -1) \in BOOLEAN
  OBVIOUS
<1>2. ch \in Change /\ ch.table # "hanko_audit"
  BY <1>1, Zenon DEF Change
<1>3. log' = Append(log, ch) /\ row' \in Row \cup {Absent} /\ UNCHANGED <<slot, session, out, stops>>
  BY DEF WriteOther, CdcInv, TypeOK
<1> HIDE DEF ch
<1> QED
  BY <1>2, <1>3, CdcGrows

\* What the steps of a session use: positions are numbers within the log.
LEMMA Positions ==
  ASSUME CdcInv
  PROVE  /\ Len(log) \in Nat /\ slot \in {-1} \cup 0..Len(log)
         /\ xlogpos \in 0..Len(log) /\ from \in 0..Len(log) /\ cursor \in 0..Len(log)
         /\ out \in Seq(1..Len(log)) /\ Len(out) \in Nat /\ DOMAIN out = 1..Len(out)
         /\ \A k \in DOMAIN out : out[k] \in 1..Len(log)
<1>1. log \in Seq(Change) /\ out \in Seq(1..Len(log))
  BY DEF CdcInv, TypeOK, LogInv
<1>2. Len(log) \in Nat /\ Len(out) \in Nat /\ DOMAIN out = 1..Len(out)
  BY <1>1
<1>3. \A k \in DOMAIN out : out[k] \in 1..Len(log)
  BY <1>1
<1> QED
  BY <1>1, <1>2, <1>3 DEF CdcInv, TypeOK, Position

LEMMA CdcIdentify == CdcInv /\ IdentifySystem => CdcInv'
<1> SUFFICES ASSUME CdcInv, IdentifySystem PROVE CdcInv'
  OBVIOUS
<1>1. TypeOK'
  BY Positions DEF CdcInv, TypeOK, Position, IdentifySystem, db
<1>2. LogInv' /\ SessionInv'
  BY DEF CdcInv, LogInv, SessionInv, Audited, IdentifySystem, db
<1>3. OutInv'
  BY Positions DEF CdcInv, OutInv, Audited, IdentifySystem, db
<1> QED
  BY <1>1, <1>2, <1>3 DEF CdcInv

LEMMA CdcSlot == CdcInv /\ CreateReplicationSlot => CdcInv'
<1> SUFFICES ASSUME CdcInv, CreateReplicationSlot PROVE CdcInv'
  OBVIOUS
<1>1. TypeOK'
  BY Positions DEF CdcInv, TypeOK, Position, CreateReplicationSlot, db
<1>2. LogInv' /\ SessionInv'
  BY Positions DEF CdcInv, LogInv, SessionInv, Audited, CreateReplicationSlot, db
<1>3. OutInv'
  BY DEF CdcInv, OutInv, Audited, CreateReplicationSlot, db
<1> QED
  BY <1>1, <1>2, <1>3 DEF CdcInv

LEMMA CdcStart == CdcInv /\ StartReplication => CdcInv'
<1> SUFFICES ASSUME CdcInv, StartReplication PROVE CdcInv'
  OBVIOUS
<1>1. /\ from' \in 0..Len(log) /\ cursor' = from' /\ xlogpos <= from' /\ slot <= from'
      /\ pc = "slotted" /\ pc' = "streaming" /\ UNCHANGED <<db, slot, xlogpos, out, stops>>
  BY Positions DEF CdcInv, SessionInv, StartReplication
<1>2. TypeOK'
  BY <1>1 DEF CdcInv, TypeOK, Position, db
<1>3. LogInv' /\ SessionInv'
  BY <1>1, Positions DEF CdcInv, LogInv, SessionInv, Audited, db
<1>4. \A k \in DOMAIN out : out[k] <= cursor'
  BY <1>1, Positions DEF CdcInv, OutInv
<1>5. \A i \in (from' + 1)..cursor' : FALSE
  <2>1. ASSUME NEW a \in Int, NEW i \in (a + 1)..a PROVE FALSE
    OBVIOUS
  <2>2. from' \in Int /\ cursor' = from'
    BY <1>1, Positions
  <2> QED
    BY <2>1, <2>2, Zenon
<1>6. OutInv'
  BY <1>1, <1>4, <1>5, Zenon DEF CdcInv, OutInv, Audited, db
<1> QED
  BY <1>2, <1>3, <1>6 DEF CdcInv

LEMMA CdcDispatch == CdcInv /\ Dispatch => CdcInv'
<1> SUFFICES ASSUME CdcInv, Dispatch PROVE CdcInv'
  OBVIOUS
<1>1. /\ pc = "streaming" /\ cursor' = cursor + 1 /\ xlogpos' = cursor + 1
      /\ cursor + 1 \in 1..Len(log) /\ UNCHANGED <<db, slot, pc, from, stops>>
      /\ out' = IF Audited(cursor + 1) THEN Append(out, cursor + 1) ELSE out
  BY Positions DEF Dispatch, Audited
<1>2. out' \in Seq(1..Len(log))
  <2>1. out \in Seq(1..Len(log)) /\ Append(out, cursor + 1) \in Seq(1..Len(log))
    BY <1>1, Positions
  <2> QED
    BY <1>1, <2>1, Zenon
<1>3. TypeOK'
  BY <1>1, <1>2 DEF CdcInv, TypeOK, Position, db
<1>4. LogInv' /\ SessionInv'
  BY <1>1, Positions DEF CdcInv, LogInv, SessionInv, Audited, db
<1>5. \A i : Audited(i)' <=> Audited(i)
  BY <1>1 DEF Audited, db
<1>6. \A k \in DOMAIN out : out[k] \in 1..cursor /\ Audited(out[k])
  BY <1>1, Positions DEF CdcInv, OutInv
<1>7. \A i \in (from + 1)..cursor : Audited(i) <=> Published(i)
  BY <1>1 DEF CdcInv, OutInv
<1>8. CASE Audited(cursor + 1)
  <2>1. /\ DOMAIN out' = 1..(Len(out) + 1) /\ out'[Len(out) + 1] = cursor + 1
        /\ \A k \in DOMAIN out : out'[k] = out[k]
    BY <1>1, <1>8, Positions
  <2>2. \A k \in DOMAIN out' : k \in DOMAIN out \/ k = Len(out) + 1
    BY <2>1, Positions
  <2>3. \A k \in DOMAIN out' : out'[k] <= cursor' /\ Audited(out'[k])
    BY <1>1, <1>6, <1>8, <2>1, <2>2, Positions
  <2>4. \A j, k \in DOMAIN out' : j < k => out'[j] < out'[k]
    <3> SUFFICES ASSUME NEW j \in DOMAIN out', NEW k \in DOMAIN out', j < k
                 PROVE  out'[j] < out'[k]
      OBVIOUS
    <3>1. j \in DOMAIN out
      BY <2>1, Positions
    <3>2. CASE k \in DOMAIN out
      BY <2>1, <3>1, <3>2 DEF CdcInv, OutInv
    <3>3. CASE k = Len(out) + 1
      BY <1>6, <2>1, <3>1, <3>3, Positions
    <3> QED
      BY <2>2, <3>2, <3>3
  <2>5. \A i : Published(i)' <=> (Published(i) \/ i = cursor + 1)
    <3>1. DOMAIN out \subseteq DOMAIN out' /\ Len(out) + 1 \in DOMAIN out'
      BY <2>1, Positions
    <3>2. \A i : (\E k \in DOMAIN out' : out'[k] = i) <=>
                 ((\E k \in DOMAIN out : out[k] = i) \/ i = cursor + 1)
      BY <2>1, <2>2, <3>1
    <3> QED
      BY <3>2 DEF Published
  <2>6. \A i \in (from' + 1)..cursor' : Audited(i)' <=> Published(i)'
    <3> SUFFICES ASSUME NEW i \in (from + 1)..(cursor + 1)
                 PROVE  Audited(i)' <=> Published(i)'
      BY <1>1
    <3>1. i \in (from + 1)..cursor \/ i = cursor + 1
      BY Positions
    <3> QED
      BY <1>5, <1>7, <1>8, <2>5, <3>1
  <2> QED
    BY <1>1, <1>3, <1>4, <1>5, <2>3, <2>4, <2>6 DEF CdcInv, OutInv
<1>9. CASE ~Audited(cursor + 1)
  <2>1. out' = out /\ \A i : Published(i)' <=> Published(i)
    BY <1>1, <1>9 DEF Published
  <2>2. ~Published(cursor + 1)
    BY <1>6, Positions DEF Published
  <2>3. \A i \in (from' + 1)..cursor' : Audited(i)' <=> Published(i)'
    <3> SUFFICES ASSUME NEW i \in (from + 1)..(cursor + 1)
                 PROVE  Audited(i)' <=> Published(i)'
      BY <1>1
    <3>1. i \in (from + 1)..cursor \/ i = cursor + 1
      BY Positions
    <3> QED
      BY <1>5, <1>7, <1>9, <2>1, <2>2, <3>1
  <2>4. \A k \in DOMAIN out : out[k] <= cursor'
    BY <1>1, <1>6, Positions
  <2>5. OutInv'
    BY <1>1, <1>5, <1>6, <2>1, <2>3, <2>4 DEF CdcInv, OutInv
  <2> QED
    BY <1>3, <1>4, <2>5 DEF CdcInv
<1> QED
  BY <1>8, <1>9

LEMMA CdcStatus == CdcInv /\ StandbyStatus => CdcInv'
<1> SUFFICES ASSUME CdcInv, StandbyStatus PROVE CdcInv'
  OBVIOUS
<1>1. /\ slot' \in 0..Len(log) /\ slot' <= cursor /\ pc = "streaming"
      /\ UNCHANGED <<db, session, out, stops>>
  BY Positions DEF CdcInv, SessionInv, StandbyStatus
<1>2. TypeOK'
  BY <1>1 DEF CdcInv, TypeOK, Position, db, session
<1>3. LogInv' /\ SessionInv'
  BY <1>1 DEF CdcInv, LogInv, SessionInv, Audited, db, session
<1>4. OutInv'
  BY <1>1 DEF CdcInv, OutInv, Audited, Published, db, session
<1> QED
  BY <1>2, <1>3, <1>4 DEF CdcInv

\* A session that ends, and the broker that starts again, forget nothing.
LEMMA CdcEnds ==
  ASSUME CdcInv, pc' \in {"off", "stopped"}, stops' \in 0..MaxStops,
         UNCHANGED <<db, slot, xlogpos, from, cursor, out>>
  PROVE  CdcInv'
<1>1. TypeOK'
  BY DEF CdcInv, TypeOK, Position, db
<1>2. LogInv' /\ SessionInv'
  BY DEF CdcInv, LogInv, SessionInv, Audited, db
<1>3. OutInv'
  BY DEF CdcInv, OutInv, Audited, Published, db
<1> QED
  BY <1>1, <1>2, <1>3 DEF CdcInv

LEMMA CdcNext == CdcInv /\ [Next]_vars => CdcInv'
<1> SUFFICES ASSUME CdcInv, [Next]_vars PROVE CdcInv'
  OBVIOUS
<1>1. CASE \E op \in {"insert", "update", "delete"}, new \in Row \cup {Absent}, identity \in Identity :
             Write(op, new, identity)
  BY <1>1, CdcWrite
<1>2. CASE WriteOther
  BY <1>2, CdcWriteOther
<1>3. CASE Loop
  BY <1>3, CdcIdentify, CdcSlot, CdcStart, CdcDispatch DEF Loop
<1>4. CASE StandbyStatus
  BY <1>4, CdcStatus
<1>5. CASE Stop
  <2>1. stops' \in 0..MaxStops
    BY <1>5, CdcAssumption DEF Stop, CdcInv, TypeOK
  <2> QED
    BY <1>5, <2>1, CdcEnds DEF Stop
<1>6. CASE Restart
  BY <1>6, CdcEnds DEF Restart, CdcInv, TypeOK
<1>7. CASE UNCHANGED vars
  <2>1. UNCHANGED <<row, log, slot, pc, xlogpos, from, cursor, out, stops>>
    BY <1>7 DEF vars, db, session
  <2>2. TypeOK'
    BY <2>1 DEF CdcInv, TypeOK, Position
  <2>3. LogInv' /\ SessionInv'
    BY <2>1 DEF CdcInv, LogInv, SessionInv, Audited
  <2>4. OutInv'
    BY <2>1 DEF CdcInv, OutInv, Audited, Published
  <2> QED
    BY <2>2, <2>3, <2>4 DEF CdcInv
<1> QED
  BY <1>1, <1>2, <1>3, <1>4, <1>5, <1>6, <1>7 DEF Next

-----------------------------------------------------------------------------
(* The theorems.                                                           *)

\* Within a session no change of the audited table is passed over, and across
\* sessions and restarts none is published twice or out of order.
THEOREM SessionCorrect == Spec => []SessionComplete
<1>1. CdcInv => SessionComplete
  BY DEF CdcInv, OutInv, SessionComplete
<1> QED
  BY <1>1, CdcInit, CdcNext, PTL DEF Spec

\* A standby status update confirms only what was published: whatever part of
\* the log the server may forget, as far as this session goes, is out.
THEOREM ConfirmedCorrect == Spec => []ConfirmedPublished
<1>1. CdcInv => ConfirmedPublished
  <2> SUFFICES ASSUME CdcInv, pc = "streaming", NEW i \in (from + 1)..slot, Audited(i)
               PROVE  Published(i)
    BY DEF ConfirmedPublished
  <2>1. i \in (from + 1)..cursor
    BY Positions DEF CdcInv, SessionInv
  <2> QED
    BY <2>1 DEF CdcInv, OutInv
<1> QED
  BY <1>1, CdcInit, CdcNext, PTL DEF Spec

\* Every event published names its row and, when the server sends whole old
\* rows, lists exactly the columns that changed or were left out.
THEOREM EventsCorrect == Spec => []EventsFaithful
<1>1. CdcInv => EventsFaithful
  <2> SUFFICES ASSUME CdcInv PROVE EventsFaithful
    OBVIOUS
  <2>1. \A k \in DOMAIN out : log[out[k]] \in Change /\ WellFormed(log[out[k]])
    <3> SUFFICES ASSUME NEW k \in DOMAIN out
                 PROVE  log[out[k]] \in Change /\ WellFormed(log[out[k]])
      OBVIOUS
    <3>1. log \in Seq(Change) /\ out[k] \in DOMAIN log
      BY Positions DEF CdcInv, LogInv
    <3> QED
      BY <3>1 DEF CdcInv, LogInv, OutInv
  <2>2. RowIdentified
    BY <2>1, EventId DEF RowIdentified
  <2>3. DiffExact
    BY <2>1, EventDiff DEF DiffExact
  <2> QED
    BY <2>2, <2>3 DEF EventsFaithful
<1> QED
  BY <1>1, CdcInit, CdcNext, PTL DEF Spec

-----------------------------------------------------------------------------
(* Config reload.                                                          *)

Answered(a) == {r \in Request : answer[r] = a}

\* A message not handled yet is there once, was sent and has no answer.
InboxFresh ==
  /\ \A i, j \in DOMAIN inbox : inbox[i] = inbox[j] => i = j
  /\ \A i \in DOMAIN inbox : /\ inbox[i] \in sent /\ inbox[i] # handled
                             /\ answer[inbox[i]] = "none"

\* The request in hand has no answer yet; past validation it is valid, and
\* the candidate is the live config with the whole request applied.
HandlingInv ==
  /\ stage = "idle" => handled = NoRequest
  /\ stage # "idle" => handled \in sent /\ answer[handled] = "none"
  /\ stage \in {"commit", "announce"} => Valid(Payload[handled])
  /\ stage = "commit" => candidate = Merge(current, Payload[handled])

ReportInv ==
  /\ IsFiniteSet(sent)
  /\ \A r \in Request : answer[r] # "none" =>
       r \in sent /\ (answer[r] = "reloaded" <=> Valid(Payload[r]))
  /\ reloads["success"] = Cardinality(Answered("reloaded"))
  /\ reloads["failure"] = Cardinality(Answered("reload_failed"))

ReloadInv == ReloaderTypeOK /\ InboxFresh /\ HandlingInv /\ ReportInv

-----------------------------------------------------------------------------
(* Operators.                                                              *)

\* A valid fragment on top of a config is a config.
LEMMA MergeType ==
  ASSUME NEW r \in Request, NEW c \in Config, Valid(Payload[r])
  PROVE  Merge(c, Payload[r]) \in Config
<1> DEFINE f == Payload[r].keys
<1>1. /\ DOMAIN f \subseteq Reloadable
      /\ \A k \in DOMAIN f : f[k] # BadValue
  BY DEF Valid
<1>2. \A k \in DOMAIN f : f[k] \in Value
  BY <1>1 DEF Value, Range
<1>3. Merge(c, Payload[r]) = [k \in Reloadable |-> IF k \in DOMAIN f THEN f[k] ELSE c[k]]
  BY DEF Merge
<1> HIDE DEF f
<1>4. \A k \in Reloadable : (IF k \in DOMAIN f THEN f[k] ELSE c[k]) \in Value
  BY <1>1, <1>2 DEF Config
<1> QED
  BY <1>3, <1>4 DEF Config

-----------------------------------------------------------------------------
(* Initial states.                                                         *)

LEMMA ReloadInit == ReloaderInit => ReloadInv
<1> SUFFICES ASSUME ReloaderInit PROVE ReloadInv
  OBVIOUS
<1>1. ReloaderTypeOK
  BY SeedAssumption, ReloadAssumption DEF ReloaderInit, ReloaderTypeOK
<1>2. Answered("reloaded") = {} /\ Answered("reload_failed") = {}
  BY DEF ReloaderInit, Answered
<1>3. ReportInv
  BY <1>2, FS_EmptySet, Zenon DEF ReloaderInit, ReportInv
<1>4. InboxFresh /\ HandlingInv
  BY DEF ReloaderInit, InboxFresh, HandlingInv
<1> QED
  BY <1>1, <1>3, <1>4 DEF ReloadInv

-----------------------------------------------------------------------------
(* The callback.                                                           *)

\* Handing the request in hand its answer settles the books.
LEMMA AnswerReports ==
  ASSUME ReloadInv, stage # "idle", NEW e, NEW result,
         \/ e = "reloaded" /\ result = "success" /\ Valid(Payload[handled])
         \/ e = "reload_failed" /\ result = "failure" /\ ~Valid(Payload[handled]),
         Answer(e, result), sent' = sent
  PROVE  ReportInv'
<1>1. handled \in Request /\ handled \in sent /\ answer[handled] = "none"
  BY DEF ReloadInv, HandlingInv, ReloaderTypeOK
<1>2. /\ answer'[handled] = e
      /\ \A r \in Request : r # handled => answer'[r] = answer[r]
  BY <1>1 DEF Answer, ReloadInv, ReloaderTypeOK
<1>3. \A a \in {"reloaded", "reload_failed"} :
        IsFiniteSet(Answered(a)) /\ Answered(a) \subseteq sent
  <2>1. \A a \in {"reloaded", "reload_failed"} : Answered(a) \subseteq sent
    BY DEF ReloadInv, ReportInv, Answered
  <2> QED
    BY <2>1, FS_Subset DEF ReloadInv, ReportInv
<1>4. Answered(e)' = Answered(e) \cup {handled} /\ handled \notin Answered(e)
  BY <1>1, <1>2 DEF Answered
<1>5. Cardinality(Answered(e)') = Cardinality(Answered(e)) + 1
  BY <1>3, <1>4, FS_AddElement, Zenon
<1>6. /\ e = "reloaded" => Answered("reload_failed")' = Answered("reload_failed")
      /\ e = "reload_failed" => Answered("reloaded")' = Answered("reloaded")
  BY <1>1, <1>2 DEF Answered
<1>7. /\ reloads'[result] = reloads[result] + 1
      /\ \A x \in {"success", "failure"} : x # result => reloads'[x] = reloads[x]
  BY DEF Answer, ReloadInv, ReloaderTypeOK
<1>8. /\ reloads'["success"] = Cardinality(Answered("reloaded")')
      /\ reloads'["failure"] = Cardinality(Answered("reload_failed")')
  BY <1>5, <1>6, <1>7 DEF ReloadInv, ReportInv
<1>9. \A r \in Request : answer'[r] # "none" =>
        r \in sent' /\ (answer'[r] = "reloaded" <=> Valid(Payload[r]))
  BY <1>1, <1>2 DEF ReloadInv, ReportInv
<1> QED
  BY <1>8, <1>9 DEF ReloadInv, ReportInv

LEMMA AnswerKeeps ==
  ASSUME ReloadInv, stage # "idle", NEW e \in {"reloaded", "reload_failed"},
         NEW result \in {"success", "failure"}, Answer(e, result),
         UNCHANGED <<current, candidate, inbox, sent, carrier, up, server, breaks>>
  PROVE  ReloaderTypeOK' /\ InboxFresh' /\ HandlingInv'
<1>1. handled \in Request /\ handled' = NoRequest /\ stage' = "idle"
  BY DEF ReloadInv, HandlingInv, ReloaderTypeOK, Answer
<1>2. ReloaderTypeOK'
  <2>1. answer' \in [Request -> {"none", "reloaded", "reload_failed"}]
    BY <1>1 DEF Answer, ReloadInv, ReloaderTypeOK
  <2>2. reloads' \in [{"success", "failure"} -> Nat]
    BY DEF Answer, ReloadInv, ReloaderTypeOK
  <2> QED
    BY <1>1, <2>1, <2>2 DEF ReloadInv, ReloaderTypeOK
<1>3. InboxFresh'
  <2>1. \A i \in DOMAIN inbox : inbox[i] \in Request
    BY DEF ReloadInv, ReloaderTypeOK
  <2> QED
    BY <1>1, <2>1, ReloadAssumption DEF ReloadInv, InboxFresh, Answer, ReloaderTypeOK
<1> QED
  BY <1>1, <1>2, <1>3 DEF HandlingInv

LEMMA ReloadTake == ReloadInv /\ Take => ReloadInv'
<1> SUFFICES ASSUME ReloadInv, Take PROVE ReloadInv'
  OBVIOUS
<1>1. inbox \in Seq(Request) /\ inbox # << >> /\ inbox' = Tail(inbox)
  BY DEF ReloadInv, ReloaderTypeOK, Take
<1>2. /\ Head(inbox) = inbox[1] /\ 1 \in DOMAIN inbox
      /\ Len(inbox) \in Nat /\ DOMAIN inbox = 1..Len(inbox)
      /\ DOMAIN inbox' = 1..(Len(inbox) - 1)
      /\ \A i \in DOMAIN inbox' : inbox'[i] = inbox[i + 1] /\ i + 1 \in DOMAIN inbox /\ i + 1 # 1
      /\ inbox' \in Seq(Request)
  BY <1>1
<1>3. inbox[1] \in Request /\ inbox[1] \in sent /\ answer[inbox[1]] = "none"
  BY <1>1, <1>2 DEF ReloadInv, InboxFresh
<1>4. ReloaderTypeOK'
  BY <1>2, <1>3 DEF ReloadInv, ReloaderTypeOK, Take
<1>5. HandlingInv'
  BY <1>2, <1>3 DEF ReloadInv, HandlingInv, Take
<1>6. InboxFresh'
  <2>1. \A i, j \in DOMAIN inbox' : inbox'[i] = inbox'[j] => i = j
    <3> SUFFICES ASSUME NEW i \in DOMAIN inbox', NEW j \in DOMAIN inbox', inbox'[i] = inbox'[j]
                 PROVE  i = j
      OBVIOUS
    <3>1. i + 1 = j + 1
      BY <1>2 DEF ReloadInv, InboxFresh
    <3> QED
      BY <1>2, <3>1
  <2>2. \A i \in DOMAIN inbox' : /\ inbox'[i] \in sent' /\ answer'[inbox'[i]] = "none"
                                 /\ inbox'[i] # handled /\ inbox'[i] # inbox[1]
    BY <1>2 DEF ReloadInv, InboxFresh, Take
  <2>3. handled' \in {handled, inbox[1]}
    BY <1>2 DEF Take
  <2> QED
    BY <2>1, <2>2, <2>3 DEF InboxFresh
<1>7. ReportInv'
  BY DEF ReloadInv, ReportInv, Answered, Take
<1> QED
  BY <1>4, <1>5, <1>6, <1>7 DEF ReloadInv

LEMMA ReloadValidate == ReloadInv /\ Validate => ReloadInv'
<1> SUFFICES ASSUME ReloadInv, Validate PROVE ReloadInv'
  OBVIOUS
<1>1. stage # "idle" /\ handled \in Request /\ current' = current /\ UNCHANGED bus
  BY DEF ReloadInv, HandlingInv, ReloaderTypeOK, Validate
<1>2. CASE ~Valid(Payload[handled])
  <2>1. Answer("reload_failed", "failure") /\ candidate' = candidate
    BY <1>2 DEF Validate
  <2>2. ReportInv'
    BY <1>1, <1>2, <2>1, AnswerReports DEF bus
  <2>3. ReloaderTypeOK' /\ InboxFresh' /\ HandlingInv'
    BY <1>1, <2>1, AnswerKeeps DEF bus
  <2> QED
    BY <2>2, <2>3 DEF ReloadInv
<1>3. CASE Valid(Payload[handled])
  <2>1. /\ candidate' = Merge(current, Payload[handled]) /\ stage' = "commit"
        /\ UNCHANGED <<handled, answer, reloads>>
    BY <1>3 DEF Validate
  <2>2. candidate' \in Config
    BY <1>1, <1>3, <2>1, MergeType DEF ReloadInv, ReloaderTypeOK
  <2>3. ReloaderTypeOK'
    BY <1>1, <2>1, <2>2 DEF ReloadInv, ReloaderTypeOK, bus
  <2>4. HandlingInv'
    BY <1>1, <1>3, <2>1 DEF ReloadInv, HandlingInv, bus
  <2>5. InboxFresh' /\ ReportInv'
    BY <1>1, <2>1 DEF ReloadInv, InboxFresh, ReportInv, Answered, bus
  <2> QED
    BY <2>3, <2>4, <2>5 DEF ReloadInv
<1> QED
  BY <1>2, <1>3

LEMMA ReloadCommit == ReloadInv /\ Commit => ReloadInv'
<1> SUFFICES ASSUME ReloadInv, Commit PROVE ReloadInv'
  OBVIOUS
<1>1. ReloaderTypeOK' /\ HandlingInv'
  BY DEF ReloadInv, ReloaderTypeOK, HandlingInv, Commit, bus
<1>2. InboxFresh' /\ ReportInv'
  BY DEF ReloadInv, InboxFresh, ReportInv, Answered, Commit, bus
<1> QED
  BY <1>1, <1>2 DEF ReloadInv

LEMMA ReloadAnnounce == ReloadInv /\ Announce => ReloadInv'
<1> SUFFICES ASSUME ReloadInv, Announce PROVE ReloadInv'
  OBVIOUS
<1>1. /\ stage # "idle" /\ Valid(Payload[handled]) /\ Answer("reloaded", "success")
      /\ UNCHANGED <<current, candidate, bus>>
  BY DEF ReloadInv, HandlingInv, Announce
<1>2. ReportInv'
  BY <1>1, AnswerReports DEF bus
<1>3. ReloaderTypeOK' /\ InboxFresh' /\ HandlingInv'
  BY <1>1, AnswerKeeps DEF bus
<1> QED
  BY <1>2, <1>3 DEF ReloadInv

-----------------------------------------------------------------------------
(* The bus.                                                                *)

LEMMA ReloadSend == ASSUME ReloadInv, NEW r \in Request, Send(r) PROVE ReloadInv'
<1>1. /\ r \notin sent /\ sent' = sent \cup {r} /\ inbox' \in {inbox, Append(inbox, r)}
      /\ UNCHANGED <<reloader, carrier, up, server, breaks>>
  BY DEF Send
<1>2. inbox \in Seq(Request)
  BY DEF ReloadInv, ReloaderTypeOK
<1>3. inbox' \in Seq(Request)
  BY <1>1, <1>2
<1>4. ReloaderTypeOK'
  BY <1>1, <1>3 DEF ReloadInv, ReloaderTypeOK, reloader
<1>5. HandlingInv' /\ r # handled /\ answer[r] = "none"
  BY <1>1, ReloadAssumption DEF ReloadInv, HandlingInv, ReportInv, reloader
<1>6. InboxFresh'
  <2>1. CASE inbox' = inbox
    BY <1>1, <2>1 DEF ReloadInv, InboxFresh, reloader
  <2>2. CASE inbox' = Append(inbox, r)
    <3>1. /\ DOMAIN inbox = 1..Len(inbox) /\ DOMAIN inbox' = 1..(Len(inbox) + 1)
          /\ Len(inbox) \in Nat /\ inbox'[Len(inbox) + 1] = r
          /\ \A i \in DOMAIN inbox : inbox'[i] = inbox[i]
      BY <1>2, <2>2
    <3>2. \A i \in DOMAIN inbox : inbox[i] # r
      BY <1>1 DEF ReloadInv, InboxFresh
    <3>3. \A i \in DOMAIN inbox' : i \in DOMAIN inbox \/ i = Len(inbox) + 1
      BY <3>1
    <3>4. \A i, j \in DOMAIN inbox' : inbox'[i] = inbox'[j] => i = j
      BY <3>1, <3>2, <3>3 DEF ReloadInv, InboxFresh
    <3>5. \A i \in DOMAIN inbox' : inbox'[i] \in sent' /\ inbox'[i] # handled
                                   /\ answer[inbox'[i]] = "none"
      BY <1>1, <1>5, <3>1, <3>3 DEF ReloadInv, InboxFresh
    <3> QED
      BY <1>1, <3>4, <3>5 DEF InboxFresh, reloader
  <2> QED
    BY <1>1, <2>1, <2>2
<1>7. ReportInv'
  <2>1. IsFiniteSet(sent')
    BY <1>1, FS_AddElement DEF ReloadInv, ReportInv
  <2> QED
    BY <1>1, <2>1 DEF ReloadInv, ReportInv, Answered, reloader
<1> QED
  BY <1>4, <1>5, <1>6, <1>7 DEF ReloadInv

\* Outages and new connections touch the link and at most empty the inbox.
LEMMA ReloadLink ==
  ASSUME ReloadInv, UNCHANGED <<reloader, sent>>, inbox' \in {inbox, << >>},
         carrier' \in {"none", "subscribed", "other"}, up' \in BOOLEAN, server' \in BOOLEAN,
         breaks' \in 0..MaxBreaks
  PROVE  ReloadInv'
<1>1. inbox' \in Seq(Request)
  <2>1. inbox \in Seq(Request) /\ << >> \in Seq(Request)
    BY DEF ReloadInv, ReloaderTypeOK
  <2> QED
    BY <2>1, Zenon
<1>2. ReloaderTypeOK'
  BY <1>1 DEF ReloadInv, ReloaderTypeOK, reloader
<1>3. InboxFresh'
  BY DEF ReloadInv, InboxFresh, reloader
<1>4. HandlingInv' /\ ReportInv'
  BY DEF ReloadInv, HandlingInv, ReportInv, Answered, reloader
<1> QED
  BY <1>2, <1>3, <1>4 DEF ReloadInv

-----------------------------------------------------------------------------
(* The theorems.                                                           *)

LEMMA ReloadNext == ReloadInv /\ [ReloaderNext]_rvars => ReloadInv'
<1> SUFFICES ASSUME ReloadInv, [ReloaderNext]_rvars PROVE ReloadInv'
  OBVIOUS
<1>0. /\ carrier \in {"none", "subscribed", "other"} /\ up \in BOOLEAN /\ server \in BOOLEAN
      /\ breaks \in 0..MaxBreaks /\ MaxBreaks \in Nat
  BY ReloadAssumption DEF ReloadInv, ReloaderTypeOK
<1>1. CASE Callback
  BY <1>1, ReloadTake, ReloadValidate, ReloadCommit, ReloadAnnounce DEF Callback
<1>2. CASE \E r \in Request : Send(r)
  BY <1>2, ReloadSend
<1>3. CASE Outage
  <2>1. breaks' \in 0..MaxBreaks
    BY <1>0, <1>3 DEF Outage
  <2> QED
    BY <1>0, <1>3, <2>1, ReloadLink, Zenon DEF Outage
<1>4. CASE Recovery
  BY <1>0, <1>4, ReloadLink DEF Recovery
<1>5. CASE Reconnect
  BY <1>0, <1>5, ReloadLink DEF Reconnect
<1>6. CASE Replace
  BY <1>0, <1>6, ReloadLink DEF Replace
<1>7. CASE UNCHANGED rvars
  BY <1>0, <1>7, ReloadLink DEF rvars, bus
<1> QED
  BY <1>1, <1>2, <1>3, <1>4, <1>5, <1>6, <1>7 DEF ReloaderNext

\* The events and hanko_config_reload_total agree: every request that was
\* answered was answered as it deserves, and each counter is the number of
\* answers of its kind.
THEOREM AnswersCorrect == ReloaderSpec => []AnswersAgree
<1>1. ReloadInv => AnswersAgree
  BY DEF ReloadInv, ReportInv, AnswersAgree, Answered
<1> QED
  BY <1>1, ReloadInit, ReloadNext, PTL DEF ReloaderSpec

\* ApplyReload "applies it atomically" (config_reload.go:101-103): a step that
\* changes the live config applies one whole valid request to it.
THEOREM AtomicReload == ReloaderSpec => ReloadAtomic
<1> DEFINE Applied == current' # current => /\ Valid(Payload[handled])
                                            /\ current' = Merge(current, Payload[handled])
<1>1. ASSUME ReloadInv, [ReloaderNext]_rvars PROVE [Applied]_rvars
  <2>1. CASE Commit
    BY <1>1, <2>1 DEF ReloadInv, HandlingInv, Commit
  <2>2. CASE ~Commit
    BY <1>1, <2>2 DEF ReloaderNext, Callback, Take, Validate, Announce, Send, Outage, Recovery,
      Reconnect, Replace, reloader, rvars
  <2> QED
    BY <2>1, <2>2
<1> QED
  BY <1>1, ReloadInit, ReloadNext, PTL DEF ReloaderSpec, ReloadAtomic
=============================================================================
