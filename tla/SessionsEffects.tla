---------------------------- MODULE SessionsEffects ----------------------------
(***************************************************************************)
(* What overlapping calls tell and leave behind: answers are what is       *)
(* committed, no call takes a shipping mark back, and a call during which  *)
(* no other one commits is a step of its service.                          *)
(***************************************************************************)
EXTENDS SessionsTypes

\* Only its commit ends a session that has answered as "done".
LEMMA OnlyCommit ==
  ASSUME SessionsTypeOK, [SessionsNext]_vars, NEW s \in Sessions,
         at[s] = "answered", at'[s] = "done"
  PROVE  Commit(s)
<1>1. ASSUME NEW o \in Sessions, NEW outcome \in {"refused", "failed"}, RollBack(o, outcome)
      PROVE  FALSE
  BY <1>1 DEF RollBack, SessionsTypeOK
<1>2. CASE DetectDeadlock
  BY <1>1, <1>2 DEF DetectDeadlock
<1>3. ASSUME NEW o \in Sessions, NEW m \in Messages, Begin(o, m) PROVE FALSE
  BY <1>3 DEF Begin, SessionsTypeOK
<1>4. ASSUME NEW o \in Sessions, Step(o) PROVE Commit(s)
  <2>1. CASE Read(o) \/ Write(o) \/ Check(o) \/ Answer(o)
    BY <2>1 DEF Read, Write, Check, Answer, SessionsTypeOK
  <2>2. CASE Collide(o)
    BY <1>1, <2>2 DEF Collide
  <2>3. CASE Commit(o)
    BY <2>3 DEF Commit, SessionsTypeOK
  <2>4. ASSUME NEW accepts, NEW rows, NEW flush, NEW logged,
               Handle(o, accepts, rows, flush, logged)
        PROVE  FALSE
    BY <1>1, <2>4 DEF Handle, SessionsTypeOK
  <2>5. CASE HandleCascade(o)
    BY <2>5 DEF HandleCascade, SessionsTypeOK
  <2>6. CASE Handler(o) /\ ~HandleCascade(o)
    BY <2>4, <2>6 DEF Handler, HandleDecision, HandleAssign, HandleShipping, HandleChange,
                      HandleStart, HandleSendToRepair, HandleResolve
  <2> QED BY <1>4, <2>1, <2>2, <2>3, <2>5, <2>6 DEF Step
<1>5. ASSUME NEW o \in Sessions, Lose(o) PROVE FALSE
  BY <1>1, <1>5 DEF Lose
<1>6. CASE UNCHANGED vars
  BY <1>6 DEF vars, sessions
<1> QED BY <1>2, <1>3, <1>4, <1>5, <1>6 DEF SessionsNext

LEMMA CommitTellsTruth ==
  ASSUME SessionsTypeOK, NEW s \in Sessions, Commit(s), call[s].on \in DOMAIN held[s]
  PROVE  copies[s][call[s].on].now = Stored(call[s].on)'
<1> DEFINE k == call[s].on
<1>1. /\ k \in RowIds
      /\ held[s][k] = copies[s][k].now
  BY DEF SessionsTypeOK, SessionOK, RowsOK
<1>2. /\ items' = Committed(s, items)
      /\ requests' = Committed(s, requests)
      /\ tickets' = Committed(s, tickets)
      /\ call' = call
  BY DEF Commit
<1>3. /\ DOMAIN items = Items /\ DOMAIN requests = Requests /\ DOMAIN tickets = Tickets
  BY DEF SessionsTypeOK, TableTypes, TypeOK
<1>4. k \in Items => items'[k] = held[s][k]
  BY <1>2, <1>3 DEF Committed
<1>5. k \in Requests => requests'[k] = held[s][k]
  BY <1>2, <1>3 DEF Committed
<1>6. k \in Tickets => tickets'[k] = held[s][k]
  BY <1>2, <1>3 DEF Committed
<1> QED BY <1>1, <1>2, <1>4, <1>5, <1>6, SessionsAssumption DEF Stored, RowIds

\* What a caller was told of the row it addressed is what the commit leaves in
\* the database, whatever has been committed while the call was running.
THEOREM AnswersHold == SessionsSafety => AnswersAreCommitted
<1>1. SessionsTypeOK /\ [SessionsNext]_vars =>
        [\A s \in Sessions :
           at[s] = "answered" /\ at'[s] = "done" /\ call[s].on \in DOMAIN held[s] =>
             copies[s][call[s].on].now = Stored(call[s].on)']_vars
  BY OnlyCommit, CommitTellsTruth
<1> QED BY <1>1, SessionsTypeCorrect, PTL DEF SessionsSafety, AnswersAreCommitted

-----------------------------------------------------------------------------
(* Shipping marks.                                                         *)

KeepsMarks(old, new) ==
  /\ old.ship_initiated => new.ship_initiated
  /\ old.ship_completed => new.ship_completed

\* A handler assigns no mark away, and a row that is written keeps those of
\* the committed one: an UPDATE names the columns that changed.
MarksOK(s) ==
  /\ \A r \in Requests \cap DOMAIN copies[s] : KeepsMarks(copies[s][r].db, copies[s][r].now)
  /\ \A r \in Requests \cap DOMAIN held[s] : KeepsMarks(requests[r], held[s][r])

MarksInvariant ==
  /\ SessionsTypeOK
  /\ LockInvariant
  /\ \A s \in Sessions : MarksOK(s)

\* A step of s on tables that stay as they are.
LEMMA LocalMarks ==
  ASSUME MarksInvariant, NEW s \in Sessions, Local(s), MarksOK(s)'
  PROVE  \A o \in Sessions : MarksOK(o)'
BY DEF MarksInvariant, MarksOK, Local, Others, tables

LEMMA RollBackMarks ==
  ASSUME MarksInvariant, NEW s \in Sessions, NEW outcome, RollBack(s, outcome)
  PROVE  \A o \in Sessions : MarksOK(o)'
<1>1. DOMAIN copies'[s] = {} /\ DOMAIN held'[s] = {}
  BY DEF RollBack, ReleasedBy, NoRows, MarksInvariant, SessionsTypeOK
<1>2. Local(s)
  BY DEF RollBack, ReleasedBy, Local, Others, MarksInvariant, SessionsTypeOK
<1> QED BY <1>1, <1>2, LocalMarks DEF MarksOK

\* New rows for copies, none of which takes a mark from a request.
RowKeepsMarks(s, k, v) == k \in Requests \cap DOMAIN copies[s] => KeepsMarks(Copy(s, k), v)

RowsKeepMarks(s, rows) == \A k \in DOMAIN rows : RowKeepsMarks(s, k, rows[k])

LEMMA OneRowKeepsMarks ==
  ASSUME NEW s, NEW k, NEW v, RowKeepsMarks(s, k, v)
  PROVE  RowsKeepMarks(s, Row(k, v))
BY DEF RowsKeepMarks, Row

LEMMA WithKeepsMarks ==
  ASSUME NEW s, NEW rows, NEW k, NEW v, RowsKeepMarks(s, rows), RowKeepsMarks(s, k, v)
  PROVE  RowsKeepMarks(s, With(rows, k, v))
BY DEF RowsKeepMarks, With

LEMMA HandleMarks ==
  ASSUME MarksInvariant, NEW s \in Sessions, NEW accepts, NEW rows, NEW flush, NEW logged,
         Handle(s, accepts, rows, flush, logged), RowsKeepMarks(s, rows)
  PROVE  \A o \in Sessions : MarksOK(o)'
<1> USE DEF MarksInvariant, SessionsTypeOK
<1>1. CASE ~accepts
  BY <1>1, RollBackMarks DEF Handle
<1>2. CASE accepts
  <2>1. /\ copies' = [copies EXCEPT ![s] =
             [k \in DOMAIN @ |-> IF k \in DOMAIN rows THEN [@[k] EXCEPT !.now = rows[k]]
                                                     ELSE @[k]]]
        /\ \E order : plan' = [plan EXCEPT ![s] = order]
        /\ entries' = [entries EXCEPT ![s] = logged]
        /\ at' = [at EXCEPT ![s] = "writing"]
        /\ UNCHANGED <<tables, call, held, fresh>>
    BY <1>2 DEF Handle
  <2>2. Local(s)
    BY <2>1 DEF Local, Others
  <2>3. ASSUME NEW r \in Requests \cap DOMAIN copies'[s]
        PROVE  KeepsMarks(copies'[s][r].db, copies'[s][r].now)
    <3>1. /\ r \in DOMAIN copies[s]
          /\ copies'[s][r] = IF r \in DOMAIN rows THEN [copies[s][r] EXCEPT !.now = rows[r]]
                                                  ELSE copies[s][r]
      BY <2>1
    <3>2. copies[s][r] \in [db : RowSet(r), now : RowSet(r)]
      BY <3>1 DEF SessionOK, RowsOK
    <3>3. KeepsMarks(copies[s][r].db, copies[s][r].now)
      BY <3>1 DEF MarksOK
    <3>4. r \in DOMAIN rows => KeepsMarks(copies[s][r].now, rows[r])
      BY <3>1 DEF RowsKeepMarks, RowKeepsMarks, Copy
    <3> QED BY <3>1, <3>2, <3>3, <3>4 DEF KeepsMarks
  <2>4. MarksOK(s)'
    BY <2>1, <2>3 DEF MarksOK, tables
  <2> QED BY <2>2, <2>4, LocalMarks
<1> QED BY <1>1, <1>2

\* No operation assigns FALSE to a mark.
LEMMA UpdatesKeepMarks ==
  ASSUME NEW req \in RequestRow, NEW i, NEW range, NEW wfh
  PROVE  /\ KeepsMarks(req, RejectedRow(req))
         /\ KeepsMarks(req, CancelledRow(req))
         /\ KeepsMarks(req, EscalatedRow(req))
         /\ KeepsMarks(req, AssignedRow(req, i, range, wfh))
         /\ KeepsMarks(req, ShipRow(req))
         /\ KeepsMarks(req, DeliveredRow(req))
         /\ KeepsMarks(req, CompletedRow(req))
         /\ KeepsMarks(req, RepointedRow(req, i))
         /\ KeepsMarks(req, LostRow(req))
BY DEF KeepsMarks, RequestRow, RejectedRow, CancelledRow, EscalatedRow, AssignedRow, ShipRow,
       DeliveredRow, CompletedRow, RepointedRow, LostRow

LEMMA HandlerMarks ==
  ASSUME MarksInvariant, NEW s \in Sessions, Handler(s)
  PROVE  \A o \in Sessions : MarksOK(o)'
<1> DEFINE c == call[s]
           t == c.on
           row == Copy(s, t)
<1>1. /\ CallOK(s)
      /\ \A k \in DOMAIN copies[s] : Copy(s, k) \in RowSet(k)
  BY DEF MarksInvariant, SessionsTypeOK, SessionOK, RowsOK, Copy
<1>2. \A r \in Requests \cap DOMAIN copies[s] : Copy(s, r) \in RequestRow
  BY <1>1, RowsByTable
<1>3. \A k, v : k \notin Requests => RowKeepsMarks(s, k, v)
  BY DEF RowKeepsMarks
<1>4. None \notin Requests /\ Items \cap Requests = {} /\ Tickets \cap Requests = {}
  BY SessionsAssumption DEF RowIds
<1>5. ASSUME c.op \in TicketOps, at[s] = "reading", Unread(s) = {}
      PROVE  t \notin Requests /\ row \in LiveTicket /\ row.item \notin Requests
  <2>1. t \in Tickets /\ t \in DOMAIN copies[s]
    BY <1>1, <1>5, AllRead DEF CallOK, WellFormed, MarksInvariant
  <2>2. row \in LiveTicket
    BY <1>1, <2>1, RowsByTable
  <2> QED BY <1>4, <2>1, <2>2 DEF LiveTicket
<1>6. CASE HandleDecision(s)
  <2>1. /\ RowKeepsMarks(s, t, RejectedRow(row))
        /\ RowKeepsMarks(s, t, CancelledRow(row))
        /\ RowKeepsMarks(s, t, EscalatedRow(row))
    BY <1>2, UpdatesKeepMarks DEF RowKeepsMarks
  <2> QED BY <1>6, <2>1, HandleMarks, OneRowKeepsMarks DEF HandleDecision
<1>7. CASE HandleAssign(s)
  <2> DEFINE i == c.to
  <2>1. PICK range \in BookingRange, wfh \in WfhChoices :
          Handle(s, /\ Assignable(row)
                    /\ AssignableItem(Copy(s, i), row)
                    /\ ~OverlapsAssigned(i, range, t),
                 Rows(t, AssignedRow(row, i, range, wfh), i, OwnedRow(Copy(s, i), row.requester)),
                 AtOnce({t, i}), Logs(i, "available", "assigned"))
    BY <1>7 DEF HandleAssign
  <2>2. i \notin Requests
    BY <1>1, <1>4, <1>7 DEF CallOK, WellFormed, HandleAssign
  <2>3. RowKeepsMarks(s, t, AssignedRow(row, i, range, wfh))
    BY <1>2, UpdatesKeepMarks DEF RowKeepsMarks
  <2>4. RowsKeepMarks(s, Rows(t, AssignedRow(row, i, range, wfh),
                              i, OwnedRow(Copy(s, i), row.requester)))
    BY <1>3, <2>2, <2>3, OneRowKeepsMarks, WithKeepsMarks DEF Rows
  <2> QED BY <2>1, <2>4, HandleMarks
<1>8. CASE HandleShipping(s)
  <2> DEFINE i == row.item
  <2>1. at[s] = "reading" /\ Unread(s) = {} /\ c.op \in RequestOps
    BY <1>8 DEF HandleShipping, Handle, RequestOps
  <2>2. t \in Requests \cap DOMAIN copies[s]
    BY <1>1, <2>1, AllRead DEF CallOK, WellFormed, MarksInvariant
  <2>3. i \notin Requests
    BY <1>2, <1>4, <2>2 DEF RequestRow
  <2>4. /\ RowKeepsMarks(s, t, ShipRow(row))
        /\ RowKeepsMarks(s, t, DeliveredRow(row))
        /\ RowKeepsMarks(s, t, CompletedRow(row))
    BY <1>2, UpdatesKeepMarks DEF RowKeepsMarks
  <2>5. \A new, moved : RowKeepsMarks(s, t, new) => RowsKeepMarks(s, Rows(t, new, i, moved))
    BY <1>3, <2>3, OneRowKeepsMarks, WithKeepsMarks DEF Rows
  <2> QED BY <1>8, <2>4, <2>5, HandleMarks DEF HandleShipping
<1>9. CASE HandleCascade(s)
  <2> USE DEF MarksInvariant, SessionsTypeOK
  <2> DEFINE found == UNION {OpenForItem(j) : j \in Items \cap DOMAIN copies[s]}
  <2>1. /\ copies' = [copies EXCEPT ![s] =
             [k \in DOMAIN @ \cup found |->
                IF k \in found THEN [db |-> tickets[k], now |-> AutoClosed(tickets[k])] ELSE @[k]]]
        /\ UNCHANGED <<tables, call, held, entries, fresh>>
        /\ \E order : plan' = [plan EXCEPT ![s] = order]
        /\ at' = [at EXCEPT ![s] = "writing"]
    BY <1>9 DEF HandleCascade
  <2>2. found \cap Requests = {}
    BY <1>4 DEF OpenForItem
  <2> HIDE DEF found
  <2>3. Local(s)
    BY <2>1 DEF Local, Others
  <2>4. MarksOK(s)'
    BY <2>1, <2>2 DEF MarksOK, tables
  <2> QED BY <2>3, <2>4, LocalMarks
<1>10. CASE HandleChange(s)
  <2>1. t \notin Requests
    BY <1>1, <1>4, <1>10 DEF CallOK, WellFormed, HandleChange
  <2> QED BY <1>3, <1>10, <2>1, HandleMarks, OneRowKeepsMarks DEF HandleChange
<1>11. CASE HandleStart(s)
  <2>1. t \notin Requests
    BY <1>5, <1>11 DEF HandleStart, Handle, TicketOps
  <2> QED BY <1>3, <1>11, <2>1, HandleMarks, OneRowKeepsMarks DEF HandleStart
<1>12. CASE HandleSendToRepair(s)
  <2>1. row.item \notin Requests
    BY <1>5, <1>12 DEF HandleSendToRepair, Handle, TicketOps
  <2> QED BY <1>3, <1>12, <2>1, HandleMarks, OneRowKeepsMarks DEF HandleSendToRepair
<1>13. CASE HandleResolve(s)
  <2> DEFINE i == row.item
             r == row.request
             new == c.to
  <2>1. t \notin Requests /\ i \notin Requests
    BY <1>5, <1>13 DEF HandleResolve, Handle, TicketOps
  <2>2. \A rows, v : RowsKeepMarks(s, rows) => RowsKeepMarks(s, With(rows, t, v))
    BY <1>3, <2>1, WithKeepsMarks
  <2>3. /\ RowsKeepMarks(s, NoRows)
        /\ \A v : RowsKeepMarks(s, Row(i, v))
    BY <1>3, <2>1, OneRowKeepsMarks DEF RowsKeepMarks, NoRows
  <2>4. /\ RowKeepsMarks(s, r, RepointedRow(Copy(s, r), new))
        /\ RowKeepsMarks(s, r, LostRow(Copy(s, r)))
    BY <1>2, UpdatesKeepMarks DEF RowKeepsMarks
  <2>5. c.op = "swap" => \A v1, v2 : RowsKeepMarks(s, Rows(i, v1, new, v2))
    <3>1. c.op = "swap" => new \notin Requests
      BY <1>1, <1>4 DEF CallOK, WellFormed
    <3> QED BY <1>3, <2>3, <3>1, WithKeepsMarks DEF Rows
  <2>6. /\ c.op = "swap" => \A v1, v2 :
             RowsKeepMarks(s, With(Rows(i, v1, new, v2), r, RepointedRow(Copy(s, r), new)))
        /\ \A v : RowsKeepMarks(s, Rows(i, v, r, LostRow(Copy(s, r))))
    BY <2>3, <2>4, <2>5, WithKeepsMarks DEF Rows
  <2>7. PICK accepts, rows, flush, logged :
          Handle(s, accepts, rows, flush, logged) /\ RowsKeepMarks(s, rows)
    BY <1>13, <2>2, <2>3, <2>6 DEF HandleResolve
  <2> QED BY <2>7, HandleMarks
<1> QED BY <1>6, <1>7, <1>8, <1>9, <1>10, <1>11, <1>12, <1>13 DEF Handler

\* The UPDATE of a request sets the marks this session has set, and keeps those
\* committed meanwhile.
LEMMA MergedKeepsMarks ==
  ASSUME NEW base \in RequestRow, NEW db \in RequestRow, NEW now \in RequestRow,
         KeepsMarks(db, now)
  PROVE  KeepsMarks(base, Merged(base, db, now))
BY DEF KeepsMarks, Merged, RequestRow

LEMMA WriteMarks ==
  ASSUME MarksInvariant, NEW s \in Sessions, Write(s)
  PROVE  \A o \in Sessions : MarksOK(o)'
<1> USE DEF MarksInvariant, SessionsTypeOK
<1> DEFINE k == plan[s][1]
           row == Merged(Stored(k), copies[s][k].db, copies[s][k].now)
<1>1. /\ held' = [held EXCEPT ![s] = With(@, k, row)]
      /\ copies' = [copies EXCEPT ![s][k] = Loaded(row)]
      /\ UNCHANGED <<tables, call, entries, fresh>>
      /\ plan[s] # <<>>
  BY DEF Write, Refreshed
<1>2. Local(s)
  BY <1>1 DEF Write, Local, Others
<1>3. k \in DOMAIN copies[s]
  BY <1>1 DEF SessionOK, RowsOK
<1>4. ASSUME k \in Requests PROVE KeepsMarks(requests[k], row)
  <2>1. copies[s][k] \in [db : RequestRow, now : RequestRow]
    <3>1. copies[s][k] \in [db : RowSet(k), now : RowSet(k)]
      BY <1>3 DEF SessionOK, RowsOK
    <3> QED BY <1>4, <3>1, RowsByTable
  <2>2. KeepsMarks(copies[s][k].db, copies[s][k].now)
    BY <1>3, <1>4 DEF MarksOK
  <2>3. Stored(k) = requests[k] /\ requests[k] \in RequestRow
    BY <1>4, RowsByTable DEF TableTypes, TypeOK
  <2> QED BY <2>1, <2>2, <2>3, MergedKeepsMarks
<1> HIDE DEF row
<1>5. /\ \A j \in DOMAIN copies'[s] : copies'[s][j] = IF j = k THEN Loaded(row) ELSE copies[s][j]
      /\ DOMAIN copies'[s] = DOMAIN copies[s]
  BY <1>1, <1>3
<1>6. \A j \in DOMAIN held'[s] :
        \/ j = k /\ held'[s][j] = row
        \/ j \in DOMAIN held[s] /\ held'[s][j] = held[s][j]
  BY <1>1 DEF With
<1>7. \A r \in Requests \cap DOMAIN copies'[s] : KeepsMarks(copies'[s][r].db, copies'[s][r].now)
  BY <1>5 DEF MarksOK, KeepsMarks, Loaded
<1>8. \A r \in Requests \cap DOMAIN held'[s] : KeepsMarks(requests'[r], held'[s][r])
  BY <1>1, <1>4, <1>6 DEF MarksOK, tables, With
<1>9. MarksOK(s)'
  BY <1>7, <1>8 DEF MarksOK
<1> QED BY <1>2, <1>9, LocalMarks

\* A commit keeps the marks in the tables, and locks keep it from the rows
\* other sessions have written.
LEMMA CommitMarks ==
  ASSUME MarksInvariant, NEW s \in Sessions, Commit(s)
  PROVE  /\ \A r \in Requests : KeepsMarks(requests[r], requests'[r])
         /\ \A o \in Sessions : MarksOK(o)'
<1> USE DEF MarksInvariant, SessionsTypeOK
<1>1. /\ requests' = Committed(s, requests)
      /\ held' = [held EXCEPT ![s] = NoRows]
      /\ copies' = copies
  BY DEF Commit
<1>2. \A r \in Requests :
        requests'[r] = IF r \in DOMAIN held[s] THEN held[s][r] ELSE requests[r]
  BY <1>1 DEF Committed, TableTypes, TypeOK
<1>3. \A r \in Requests : KeepsMarks(requests[r], requests'[r])
  BY <1>2 DEF MarksOK, KeepsMarks
<1>4. MarksOK(s)'
  BY <1>1 DEF MarksOK, NoRows
<1>5. ASSUME NEW o \in Sessions, o # s PROVE MarksOK(o)'
  <2>1. held'[o] = held[o] /\ \A r \in DOMAIN held[o] : r \notin DOMAIN held[s]
    BY <1>1, <1>5 DEF LockInvariant, IndexInvariant, LocksExclude
  <2> QED BY <1>1, <1>2, <2>1 DEF MarksOK
<1> QED BY <1>3, <1>4, <1>5

LEMMA StepMarks ==
  ASSUME MarksInvariant, NEW s \in Sessions, Step(s)
  PROVE  /\ \A r \in Requests : KeepsMarks(requests[r], requests'[r])
         /\ \A o \in Sessions : MarksOK(o)'
<1> USE DEF MarksInvariant, SessionsTypeOK
<1>1. ~Commit(s) => requests' = requests
  BY DEF Step, Read, Write, Check, Collide, Answer, Handler, HandleDecision, HandleAssign,
         HandleShipping, HandleCascade, HandleChange, HandleStart, HandleSendToRepair,
         HandleResolve, Handle, RollBack, tables
<1>2. CASE Commit(s)
  BY <1>2, CommitMarks
<1>3. CASE Read(s)
  <2>1. PICK n \in Unread(s) :
          copies' = [copies EXCEPT ![s] =
                       With(@, Wanted(s)[n], Loaded(Stored(Wanted(s)[n])))]
    BY <1>3 DEF Read
  <2>2. Local(s) /\ UNCHANGED <<tables, held>>
    BY <1>3, <2>1 DEF Read, Local, Others
  <2>3. MarksOK(s)'
    BY <2>1, <2>2 DEF MarksOK, KeepsMarks, With, Loaded, tables
  <2> QED BY <1>1, <1>3, <2>2, <2>3, LocalMarks DEF KeepsMarks, tables
<1>4. CASE Check(s) \/ Answer(s)
  <2>1. Local(s) /\ UNCHANGED <<tables, copies, held>>
    BY <1>4 DEF Check, Answer, Local, Others
  <2>2. MarksOK(s)'
    BY <2>1 DEF MarksOK, tables
  <2> QED BY <2>1, <2>2, LocalMarks DEF KeepsMarks, tables
<1>5. CASE Handler(s)
  BY <1>1, <1>5, HandlerMarks, CommitMarks DEF KeepsMarks
<1>6. CASE Write(s)
  BY <1>1, <1>6, WriteMarks, CommitMarks DEF KeepsMarks
<1>7. CASE Collide(s)
  BY <1>1, <1>7, RollBackMarks, CommitMarks DEF Collide, KeepsMarks
<1> QED BY <1>2, <1>3, <1>4, <1>5, <1>6, <1>7 DEF Step

LEMMA NextMarks ==
  ASSUME MarksInvariant, [SessionsNext]_vars
  PROVE  /\ \A r \in Requests : KeepsMarks(requests[r], requests'[r])
         /\ MarksInvariant'
<1>1. SessionsTypeOK' /\ LockInvariant'
  BY NextSessionTypes, NextLocks DEF MarksInvariant
<1> SUFFICES /\ \A r \in Requests : KeepsMarks(requests[r], requests'[r])
             /\ \A s \in Sessions : MarksOK(s)'
  BY <1>1 DEF MarksInvariant
<1>2. ASSUME NEW s \in Sessions, NEW outcome, RollBack(s, outcome)
      PROVE  /\ \A r \in Requests : KeepsMarks(requests[r], requests'[r])
             /\ \A o \in Sessions : MarksOK(o)'
  BY <1>2, RollBackMarks DEF RollBack, KeepsMarks, tables
<1>3. CASE DetectDeadlock
  BY <1>2, <1>3 DEF DetectDeadlock
<1>4. ASSUME NEW s \in Sessions, NEW m \in Messages, Begin(s, m)
      PROVE  /\ \A r \in Requests : KeepsMarks(requests[r], requests'[r])
             /\ \A o \in Sessions : MarksOK(o)'
  BY <1>4 DEF Begin, MarksInvariant, MarksOK, KeepsMarks, tables
<1>5. ASSUME NEW s \in Sessions, Step(s)
      PROVE  /\ \A r \in Requests : KeepsMarks(requests[r], requests'[r])
             /\ \A o \in Sessions : MarksOK(o)'
  BY <1>5, StepMarks
<1>6. ASSUME NEW s \in Sessions, Lose(s)
      PROVE  /\ \A r \in Requests : KeepsMarks(requests[r], requests'[r])
             /\ \A o \in Sessions : MarksOK(o)'
  BY <1>2, <1>6 DEF Lose
<1>7. CASE UNCHANGED vars
  BY <1>7 DEF vars, sessions, tables, MarksInvariant, MarksOK, KeepsMarks
<1> QED BY <1>3, <1>4, <1>5, <1>6, <1>7 DEF SessionsNext

\* A device sent or received by mail stays marked so, whichever calls overlap
\* the one that marked it.
THEOREM MarksStick == SessionsSafety => ShippingMarksStick
<1>1. SessionsInit => MarksInvariant
  <2> SUFFICES ASSUME SessionsInit PROVE MarksInvariant
    OBVIOUS
  <2>1. \A s \in Sessions : DOMAIN copies[s] = {} /\ DOMAIN held[s] = {}
    BY DEF SessionsInit, NoRows
  <2> QED BY <2>1, InitSessionTypes, InitLocks DEF MarksInvariant, MarksOK
<1>2. MarksInvariant /\ [SessionsNext]_vars => MarksInvariant'
  BY NextMarks
<1>3. MarksInvariant /\ [SessionsNext]_vars =>
        [\A r \in Requests :
           /\ requests[r].ship_initiated => requests'[r].ship_initiated
           /\ requests[r].ship_completed => requests'[r].ship_completed]_vars
  BY NextMarks DEF KeepsMarks
<1> QED BY <1>1, <1>2, <1>3, PTL DEF SessionsSafety, ShippingMarksStick

-----------------------------------------------------------------------------
(* Effects.  What a call has in mind, in terms of the committed tables:    *)
(* the new rows and the log entries, once its handler has accepted.        *)

Decided(c, rows, logged) ==
  LET r == c.on
      req == requests[r]
  IN
  /\ r \in Requests
  /\ logged = NoRows
  /\ \/ c.op = "reject" /\ Rejectable(req) /\ rows = Row(r, RejectedRow(req))
     \/ c.op = "cancel" /\ Cancellable(req) /\ rows = Row(r, CancelledRow(req))
     \/ c.op = "escalate" /\ Escalatable(req) /\ rows = Row(r, EscalatedRow(req))

Assigned(c, rows, logged) ==
  LET r == c.on
      i == c.to
  IN
  /\ c.op = "assign"
  /\ r \in Requests /\ i \in Items
  /\ logged = Logs(i, "available", "assigned")
  /\ \E range \in BookingRange, wfh \in WfhChoices :
       /\ Assignable(requests[r])
       /\ AssignableItem(items[i], requests[r])
       /\ ~OverlapsAssigned(i, range, r)
       /\ rows = Rows(r, AssignedRow(requests[r], i, range, wfh),
                      i, OwnedRow(items[i], requests[r].requester))

Moved(c, rows, logged) ==
  LET r == c.on
      i == requests[r].item
  IN
  /\ r \in Requests /\ i \in Items /\ HasDevice(requests[r])
  /\ \/ /\ c.op = "ship" /\ Shippable(requests[r], items[i])
        /\ rows = Rows(r, ShipRow(requests[r]), i, ShipItem(items[i]))
        /\ logged = Logs(i, "assigned", "shipping_pending")
     \/ /\ c.op = "deliver" /\ Deliverable(items[i])
        /\ rows = Rows(r, DeliveredRow(requests[r]), i, DeliveredItem(items[i]))
        /\ logged = Logs(i, "shipping_pending", "assigned")

\* The first flush of complete_return ...
Returned(c, rows, logged) ==
  LET r == c.on
      i == requests[r].item
  IN
  /\ r \in Requests /\ i \in Items /\ HasDevice(requests[r]) /\ Returnable(items[i])
  /\ c.next \in ReturnNextStatuses
  /\ rows = Rows(r, CompletedRow(requests[r]), i, ReturnedItem(items[i], c.next))
  /\ logged = Logs(i, items[i].status, c.next)

\* ... and with it the cascade.
Cascaded(c, rows, logged) ==
  LET open == OpenForItem(requests[c.on].item) IN
  \E first :
    /\ Returned(c, first, logged)
    /\ rows = [k \in DOMAIN first \cup open |->
                 IF k \in open THEN AutoClosed(tickets[k]) ELSE first[k]]

Changed(c, rows, logged) ==
  LET i == c.on IN
  /\ c.op = "change"
  /\ i \in Items /\ c.next \in ManualStatuses
  /\ rows = Row(i, ChangedItem(items[i], c.next))
  /\ logged = Logs(i, items[i].status, c.next)

\* The first flush of start, and with it the device of a damage ticket.
Started(c, rows, logged) ==
  LET t == c.on IN
  /\ t \in Tickets /\ Startable(tickets[t])
  /\ rows = Row(t, StartedRow(tickets[t]))
  /\ logged = NoRows

Damaged(c, rows, logged) == Started(c, rows, logged) /\ tickets[c.on].type = "damage"

SentToRepair(c, rows, logged) ==
  LET t == c.on
      i == tickets[t].item
  IN
  /\ t \in Tickets /\ Startable(tickets[t]) /\ tickets[t].type = "damage" /\ i \in Items
  /\ rows = Rows(t, StartedRow(tickets[t]), i, InRepairItem(items[i]))
  /\ logged = Logs(i, items[i].status, "under_repair")

Resolved(c, rows, logged) ==
  LET t == c.on
      i == tickets[t].item
      r == tickets[t].request
      new == c.to
      closed(resolution) == ResolvedRow(tickets[t], resolution, new)
  IN
  /\ t \in Tickets /\ i \in Items /\ Resolvable(tickets[t])
  /\ \/ /\ c.op = "remote"
        /\ rows = Row(t, closed("remote_resolved"))
        /\ logged = NoRows
     \/ /\ c.op = "repair" /\ Repairable(items[i])
        /\ rows = With(Row(i, RepairedItem(items[i])), t, closed("repaired_in_place"))
        /\ logged = Logs(i, "under_repair", "assigned")
     \/ /\ c.op = "swap"
        /\ new \in Items /\ new # i /\ r \in Requests /\ c.next \in SwapOutStatuses
        /\ SwapTarget(items[new], items[i])
        /\ rows = With(With(Rows(i, SwappedOutItem(items[i], c.next),
                                new, SwappedInItem(items[new], requests[r])),
                           r, RepointedRow(requests[r], new)),
                      t, closed("swapped"))
        /\ logged = With(Logs(i, Untold, Untold), new, <<Untold, "assigned">>)
     \/ /\ c.op = "lost" /\ r \in Requests
        /\ rows = With(Rows(i, LostItem(items[i]), r, LostRow(requests[r])),
                      t, closed("marked_lost"))
        /\ logged = Logs(i, items[i].status, "lost")

\* What a call, while it reads or afterwards, has in mind.
Effect(c, reading, rows, logged) ==
  \/ Decided(c, rows, logged)
  \/ Assigned(c, rows, logged)
  \/ Moved(c, rows, logged)
  \/ c.op = "return" /\ Returned(c, rows, logged)
  \/ c.op = "close_tickets" /\ reading /\ Returned(c, rows, logged)
  \/ c.op = "close_tickets" /\ ~reading /\ Cascaded(c, rows, logged)
  \/ Changed(c, rows, logged)
  \/ c.op = "start" /\ Started(c, rows, logged)
  \/ c.op = "send_to_repair" /\ reading /\ Damaged(c, rows, logged)
  \/ c.op = "send_to_repair" /\ ~reading /\ SentToRepair(c, rows, logged)
  \/ Resolved(c, rows, logged)

\* It is read off the tables.
LEMMA EffectKept ==
  ASSUME NEW c, NEW reading, NEW rows, NEW logged, Effect(c, reading, rows, logged),
         UNCHANGED <<items, requests, tickets>>
  PROVE  Effect(c, reading, rows, logged)'
<1>1. Decided(c, rows, logged) => Decided(c, rows, logged)'
  BY DEF Decided
<1>2. Assigned(c, rows, logged) => Assigned(c, rows, logged)'
  BY DEF Assigned, OverlapsAssigned
<1>3. Moved(c, rows, logged) => Moved(c, rows, logged)'
  BY DEF Moved
<1>4. \A first : Returned(c, first, logged) => Returned(c, first, logged)'
  BY DEF Returned
<1>5. Cascaded(c, rows, logged) => Cascaded(c, rows, logged)'
  BY <1>4 DEF Cascaded, OpenForItem
<1>6. Changed(c, rows, logged) => Changed(c, rows, logged)'
  BY DEF Changed
<1>7. Started(c, rows, logged) => Started(c, rows, logged)'
  BY DEF Started
<1>8. Damaged(c, rows, logged) => Damaged(c, rows, logged)'
  BY <1>7 DEF Damaged
<1>9. SentToRepair(c, rows, logged) => SentToRepair(c, rows, logged)'
  BY DEF SentToRepair
<1>10. Resolved(c, rows, logged) => Resolved(c, rows, logged)'
  BY DEF Resolved
<1> QED BY <1>1, <1>2, <1>3, <1>4, <1>5, <1>6, <1>7, <1>8, <1>9, <1>10 DEF Effect

LEMMA StoredKept ==
  ASSUME UNCHANGED <<items, requests, tickets>>
  PROVE  \A k \in RowIds : Stored(k)' = Stored(k)
BY DEF Stored

-----------------------------------------------------------------------------
(* Undisturbed calls.                                                      *)

\* The call has not decided anything yet.
Deciding(s) == at[s] = "reading" /\ call[s].op \notin {"close_tickets", "send_to_repair"}

\* The first part of return loads nothing but its two rows.
OnlyReturnRows(s) ==
  \/ call[s].op = "return"
  \/ call[s].op = "close_tickets" /\ at[s] = "reading"
  => DOMAIN copies[s] \subseteq {call[s].on, requests[call[s].on].item}

\* The copies are the committed rows, except for these new ones.
Shows(s, rows) ==
  /\ DOMAIN rows \subseteq DOMAIN copies[s]
  /\ \A k \in DOMAIN copies[s] : Copy(s, k) = IF k \in DOMAIN rows THEN rows[k] ELSE Stored(k)

Means(s, rows) == Shows(s, rows) /\ Effect(call[s], at[s] = "reading", rows, entries[s])

\* While no other call commits, a session's copies are what the tables have,
\* and its new rows what an atomic step of its service would make of them.
Undisturbed(s) ==
  fresh[s] /\ Running(s) =>
    /\ \A k \in DOMAIN copies[s] \ DOMAIN held[s] : copies[s][k].db = Stored(k)
    /\ OnlyReturnRows(s)
    /\ Deciding(s) \/ \E rows : Means(s, rows)
    /\ at[s] = "answered" => Continues(s) = {}

AtomicInvariant ==
  /\ SessionsTypeOK
  /\ LockInvariant
  /\ \A s \in Sessions : Undisturbed(s)

\* A session that does not move, on tables that do not either.
LEMMA UndisturbedKept ==
  ASSUME NEW o, Undisturbed(o), DOMAIN copies[o] \subseteq RowIds,
         UNCHANGED <<items, requests, tickets>>,
         UNCHANGED <<call[o], at[o], copies[o], held[o], entries[o]>>,
         fresh'[o] => fresh[o]
  PROVE  Undisturbed(o)'
<1> SUFFICES ASSUME fresh[o], Running(o)
             PROVE  /\ \A k \in DOMAIN copies'[o] \ DOMAIN held'[o] : copies'[o][k].db = Stored(k)'
                    /\ OnlyReturnRows(o)'
                    /\ Deciding(o)' \/ \E rows : Means(o, rows)'
                    /\ at'[o] = "answered" => Continues(o)' = {}
  BY DEF Undisturbed, Running
<1>1. \A k \in DOMAIN copies'[o] \ DOMAIN held'[o] : copies'[o][k].db = Stored(k)'
  BY StoredKept DEF Undisturbed
<1>2. OnlyReturnRows(o)'
  BY DEF Undisturbed, OnlyReturnRows
<1>3. ASSUME NEW rows, Means(o, rows) PROVE Means(o, rows)'
  <2>1. Shows(o, rows)'
    BY <1>3, StoredKept DEF Means, Shows, Copy
  <2>2. Effect(call[o], at[o] = "reading", rows, entries[o])'
    BY <1>3, EffectKept DEF Means
  <2> QED BY <2>1, <2>2 DEF Means
<1>4. at'[o] = "answered" => Continues(o)' = {}
  BY DEF Undisturbed, Continues, Copy
<1> QED BY <1>1, <1>2, <1>3, <1>4 DEF Undisturbed, Deciding

\* A step of s that neither commits nor makes others undisturbed again.
Alone(s) == Local(s) /\ \A o \in Others(s) : fresh'[o] => fresh[o]

LEMMA AloneUndisturbed ==
  ASSUME AtomicInvariant, NEW s \in Sessions, Alone(s), Undisturbed(s)'
  PROVE  \A o \in Sessions : Undisturbed(o)'
<1> SUFFICES ASSUME NEW o \in Others(s) PROVE Undisturbed(o)'
  BY DEF Others
<1>1. Undisturbed(o) /\ DOMAIN copies[o] \subseteq RowIds
  BY DEF AtomicInvariant, SessionsTypeOK, SessionOK, RowsOK, Others
<1> QED BY <1>1, UndisturbedKept DEF Alone, Local, tables

LEMMA RollBackUndisturbed ==
  ASSUME AtomicInvariant, NEW s \in Sessions, NEW outcome \in Ended, RollBack(s, outcome)
  PROVE  \A o \in Sessions : Undisturbed(o)'
<1> USE DEF AtomicInvariant, SessionsTypeOK
<1>1. Alone(s)
  BY DEF RollBack, ReleasedBy, Alone, Local, Others
<1>2. Undisturbed(s)'
  BY DEF RollBack, Undisturbed, Running
<1> QED BY <1>1, <1>2, AloneUndisturbed

LEMMA BeginUndisturbed ==
  ASSUME AtomicInvariant, NEW s \in Sessions, NEW m \in Messages, Begin(s, m)
  PROVE  \A o \in Sessions : Undisturbed(o)'
<1> USE DEF AtomicInvariant, SessionsTypeOK
<1>1. Alone(s)
  BY DEF Begin, Alone, Local, Others
<1>2. DOMAIN copies'[s] = {} /\ at'[s] = "reading" /\ call'[s] = m
  BY DEF Begin, SessionOK, StageOK
<1>3. m.op \notin {"close_tickets", "send_to_repair"}
  <2>1. m.op \in AllOperations
    BY SessionsAssumption DEF Messages
  <2> QED BY <2>1 DEF AllOperations
<1>4. Undisturbed(s)'
  BY <1>2, <1>3 DEF Undisturbed, Deciding, OnlyReturnRows
<1> QED BY <1>1, <1>4, AloneUndisturbed

\* Before it decides, a session has nothing but committed rows.
LEMMA CopiesAreStored ==
  ASSUME SessionsTypeOK, NEW s \in Sessions, Undisturbed(s), fresh[s], Deciding(s)
  PROVE  \A k \in DOMAIN copies[s] : Copy(s, k) = Stored(k) /\ k \notin DOMAIN held[s]
<1>1. Running(s) /\ SessionOK(s)
  BY DEF SessionsTypeOK, Deciding, Running, Ended
<1>2. plan[s] = <<>> /\ DOMAIN held[s] = {} /\ Planned(s) = {}
  BY <1>1 DEF SessionOK, PlanOK, StageOK, Deciding, Planned
<1> QED BY <1>1, <1>2 DEF Undisturbed, SessionOK, PlanOK, Copy

\* A row read now is the committed one; before deciding, all copies are.
LEMMA ReadUndisturbed ==
  ASSUME AtomicInvariant, NEW s \in Sessions, Read(s)
  PROVE  \A o \in Sessions : Undisturbed(o)'
<1> USE DEF AtomicInvariant, SessionsTypeOK
<1>1. PICK n \in Unread(s) :
        copies' = [copies EXCEPT ![s] =
                     With(@, Wanted(s)[n], Loaded(Stored(Wanted(s)[n])))]
  BY DEF Read
<1> DEFINE k == Wanted(s)[n]
<1>2. at[s] = "reading" /\ UNCHANGED <<tables, call, at, plan, held, entries, fresh>>
  BY DEF Read
<1>3. k \in RowIds /\ k \notin DOMAIN copies[s] /\ DOMAIN copies[s] \subseteq RowIds
  BY <1>1, <1>2, WantedRows DEF Unread, SessionOK, RowsOK
<1>4. Alone(s)
  BY <1>1, <1>2 DEF Alone, Local, Others
<1>5. \A j \in RowIds : Stored(j)' = Stored(j)
  BY <1>2, StoredKept DEF tables
<1>6. ASSUME fresh[s], call[s].op \in {"return", "close_tickets"}
      PROVE  k \in {call[s].on, requests[call[s].on].item}
  <2> DEFINE on == call[s].on
  <2>1. Undisturbed(s) /\ (call[s].op = "return" => Deciding(s))
    BY <1>2 DEF Deciding
  <2>2. on \in Requests
    BY <1>6 DEF SessionOK, CallOK, WellFormed, RequestOps
  <2>3. CASE on \notin DOMAIN copies[s]
    BY <1>1, <2>3 DEF Unread, Wanted
  <2>4. CASE on \in DOMAIN copies[s]
    <3>1. call[s].op = "return" /\ k = Copy(s, on).item
      <4>1. CASE call[s].op = "return"
        <5>1. Wanted(s) = <<Copy(s, on).item>>
          BY <2>4, <4>1 DEF Wanted, Copy
        <5> QED BY <1>1, <4>1, <5>1 DEF Unread
      <4>2. CASE call[s].op = "close_tickets"
        <5>1. Wanted(s) = <<>>
          BY <2>4, <4>2 DEF Wanted
        <5> QED BY <1>1, <5>1 DEF Unread
      <4> QED BY <1>6, <4>1, <4>2
    <3>2. Copy(s, on) = requests[on]
      BY <1>6, <2>1, <2>2, <2>4, <3>1, CopiesAreStored, RowsByTable
    <3> QED BY <3>1, <3>2
  <2> QED BY <2>3, <2>4
<1> HIDE DEF k
<1>7. /\ DOMAIN copies'[s] = DOMAIN copies[s] \cup {k}
      /\ copies'[s][k] = Loaded(Stored(k))
      /\ \A j \in DOMAIN copies[s] : copies'[s][j] = copies[s][j]
  BY <1>1, <1>3 DEF k, With
<1>8. ASSUME fresh[s] PROVE Undisturbed(s)'
  <2>1. /\ Undisturbed(s) /\ Running(s) /\ Running(s)'
        /\ Deciding(s)' <=> Deciding(s)
    BY <1>2 DEF Running, Ended, Deciding
  <2>2. \A j \in DOMAIN copies'[s] \ DOMAIN held'[s] : copies'[s][j].db = Stored(j)'
    BY <1>2, <1>3, <1>5, <1>7, <1>8, <2>1 DEF Undisturbed, Loaded
  <2>3. OnlyReturnRows(s)'
    BY <1>2, <1>6, <1>7, <1>8, <2>1 DEF Undisturbed, OnlyReturnRows, tables
  <2>4. ASSUME ~Deciding(s) PROVE \E rows : Means(s, rows)'
    <3>1. PICK rows : Means(s, rows)
      BY <1>8, <2>1, <2>4 DEF Undisturbed
    <3>2. Shows(s, rows)'
      BY <1>3, <1>5, <1>7, <3>1 DEF Means, Shows, Copy, Loaded
    <3>3. Effect(call[s], at[s] = "reading", rows, entries[s])'
      BY <1>2, <3>1, EffectKept DEF Means, tables
    <3> QED BY <3>2, <3>3 DEF Means
  <2> QED BY <1>2, <2>1, <2>2, <2>3, <2>4 DEF Undisturbed
<1> QED BY <1>2, <1>4, <1>8, AloneUndisturbed DEF Undisturbed

\* The UPDATE of a row nobody has changed makes it what the handler assigned.
LEMMA MergedFresh ==
  ASSUME NEW k \in RowIds, NEW base \in RowSet(k), NEW now \in RowSet(k)
  PROVE  Merged(base, base, now) = now
<1>1. CASE k \in Items
  <2>1. base \in LiveItem /\ now \in LiveItem
    BY <1>1, RowsByTable
  <2> QED BY <2>1 DEF Merged, LiveItem
<1>2. CASE k \in Requests
  <2>1. base \in RequestRow /\ now \in RequestRow
    BY <1>2, RowsByTable
  <2> QED BY <2>1 DEF Merged, RequestRow
<1>3. CASE k \in Tickets
  <2>1. base \in LiveTicket /\ now \in LiveTicket
    BY <1>3, RowsByTable
  <2> QED BY <2>1 DEF Merged, LiveTicket
<1> QED BY <1>1, <1>2, <1>3 DEF RowIds

LEMMA WriteUndisturbed ==
  ASSUME AtomicInvariant, NEW s \in Sessions, Write(s)
  PROVE  \A o \in Sessions : Undisturbed(o)'
<1> USE DEF AtomicInvariant, SessionsTypeOK
<1> DEFINE k == plan[s][1]
           row == Merged(Stored(k), copies[s][k].db, copies[s][k].now)
<1>1. /\ held' = [held EXCEPT ![s] = With(@, k, row)]
      /\ copies' = [copies EXCEPT ![s][k] = Loaded(row)]
      /\ UNCHANGED <<tables, call, entries, fresh>>
      /\ at[s] = "writing" /\ at'[s] \in {"writing", "checking"}
      /\ plan[s] # <<>>
  BY DEF Write, Refreshed
<1>2. Alone(s)
  BY <1>1 DEF Write, Alone, Local, Others
<1>3. /\ k \in DOMAIN copies[s] /\ k \notin DOMAIN held[s] /\ k \in RowIds
      /\ copies[s][k] \in [db : RowSet(k), now : RowSet(k)]
  <2>1. k \in DOMAIN copies[s] /\ 1 \in DOMAIN plan[s]
    BY <1>1 DEF SessionOK, RowsOK
  <2> QED BY <1>1, <2>1 DEF SessionOK, RowsOK, PlanOK
<1>4. ASSUME fresh[s] PROVE Undisturbed(s)'
  <2>1. Undisturbed(s) /\ Running(s) /\ ~Deciding(s)
    BY <1>1 DEF Running, Ended, Deciding
  <2>2. row = copies[s][k].now
    <3>1. copies[s][k].db = Stored(k)
      BY <1>3, <1>4, <2>1 DEF Undisturbed
    <3> QED BY <1>3, <3>1, MergedFresh
  <2> HIDE DEF k, row
  <2>3. /\ DOMAIN copies'[s] = DOMAIN copies[s]
        /\ \A j \in DOMAIN copies[s] :
             /\ copies'[s][j].now = copies[s][j].now
             /\ j # k => copies'[s][j] = copies[s][j]
        /\ DOMAIN held'[s] = DOMAIN held[s] \cup {k}
    BY <1>1, <1>3, <2>2 DEF Loaded, With
  <2>4. \A j \in RowIds : Stored(j)' = Stored(j)
    BY <1>1, StoredKept DEF tables
  <2>5. DOMAIN copies[s] \subseteq RowIds
    BY DEF SessionOK, RowsOK
  <2>6. \A j \in DOMAIN copies'[s] \ DOMAIN held'[s] : copies'[s][j].db = Stored(j)'
    BY <1>4, <2>1, <2>3, <2>4, <2>5 DEF Undisturbed
  <2>7. OnlyReturnRows(s)'
    BY <1>1, <1>4, <2>1, <2>3 DEF Undisturbed, OnlyReturnRows, tables
  <2>8. \E rows : Means(s, rows)'
    <3>1. PICK rows : Means(s, rows)
      BY <1>4, <2>1 DEF Undisturbed
    <3>2. Shows(s, rows)'
      BY <2>3, <2>4, <2>5, <3>1 DEF Means, Shows, Copy
    <3>3. Effect(call[s], FALSE, rows, entries[s])'
      BY <1>1, <3>1, EffectKept DEF Means, tables
    <3> QED BY <1>1, <3>2, <3>3 DEF Means
  <2> QED BY <1>1, <2>6, <2>7, <2>8 DEF Undisturbed
<1> QED BY <1>1, <1>2, <1>4, AloneUndisturbed DEF Undisturbed

LEMMA CheckUndisturbed ==
  ASSUME AtomicInvariant, NEW s \in Sessions, Check(s)
  PROVE  \A o \in Sessions : Undisturbed(o)'
<1> USE DEF AtomicInvariant, SessionsTypeOK
<1>1. /\ at[s] = "checking" /\ at'[s] = "writing"
      /\ UNCHANGED <<tables, call, copies, held, entries, fresh>>
  BY DEF Check
<1>2. Alone(s)
  BY <1>1 DEF Check, Alone, Local, Others
<1>3. ASSUME fresh[s] PROVE Undisturbed(s)'
  <2>1. Undisturbed(s) /\ Running(s) /\ ~Deciding(s)
    BY <1>1 DEF Running, Ended, Deciding
  <2>2. \A j \in RowIds : Stored(j)' = Stored(j)
    BY <1>1, StoredKept DEF tables
  <2>3. DOMAIN copies[s] \subseteq RowIds
    BY DEF SessionOK, RowsOK
  <2>4. \A j \in DOMAIN copies'[s] \ DOMAIN held'[s] : copies'[s][j].db = Stored(j)'
    BY <1>1, <1>3, <2>1, <2>2, <2>3 DEF Undisturbed
  <2>5. OnlyReturnRows(s)'
    BY <1>1, <1>3, <2>1 DEF Undisturbed, OnlyReturnRows, tables
  <2>6. \E rows : Means(s, rows)'
    <3>1. PICK rows : Means(s, rows)
      BY <1>3, <2>1 DEF Undisturbed
    <3>2. Shows(s, rows)'
      BY <1>1, <2>2, <2>3, <3>1 DEF Means, Shows, Copy
    <3>3. Effect(call[s], FALSE, rows, entries[s])'
      BY <1>1, <3>1, EffectKept DEF Means, tables
    <3> QED BY <1>1, <3>2, <3>3 DEF Means
  <2> QED BY <1>1, <2>4, <2>5, <2>6 DEF Undisturbed
<1> QED BY <1>1, <1>2, <1>3, AloneUndisturbed DEF Undisturbed

\* The answer is sent, or the second part of the handler begins.
LEMMA AnswerUndisturbed ==
  ASSUME AtomicInvariant, NEW s \in Sessions, Answer(s)
  PROVE  \A o \in Sessions : Undisturbed(o)'
<1> USE DEF AtomicInvariant, SessionsTypeOK
<1>1. at[s] = "writing" /\ UNCHANGED <<tables, copies, plan, held, entries, fresh>>
  BY DEF Answer
<1>2. Alone(s)
  BY <1>1 DEF Answer, Alone, Local, Others
<1>3. ASSUME fresh[s] PROVE Undisturbed(s)'
  <2>1. Undisturbed(s) /\ Running(s) /\ ~Deciding(s)
    BY <1>1 DEF Running, Ended, Deciding
  <2>2. \A j \in RowIds : Stored(j)' = Stored(j)
    BY <1>1, StoredKept DEF tables
  <2>3. DOMAIN copies[s] \subseteq RowIds
    BY DEF SessionOK, RowsOK
  <2>4. \A j \in DOMAIN copies'[s] \ DOMAIN held'[s] : copies'[s][j].db = Stored(j)'
    BY <1>1, <1>3, <2>1, <2>2, <2>3 DEF Undisturbed
  <2>5. PICK rows : Means(s, rows)
    BY <1>3, <2>1 DEF Undisturbed
  <2>6. Shows(s, rows)'
    BY <1>1, <2>2, <2>3, <2>5 DEF Means, Shows, Copy
  <2>7. CASE Continues(s) = {} /\ at' = [at EXCEPT ![s] = "answered"] /\ UNCHANGED call
    <3>1. OnlyReturnRows(s)'
      BY <1>1, <1>3, <2>1, <2>7 DEF Undisturbed, OnlyReturnRows, tables
    <3>2. Effect(call[s], FALSE, rows, entries[s])'
      BY <1>1, <2>5, <2>7, EffectKept DEF Means, tables
    <3>3. Continues(s)' = {}
      BY <1>1, <2>7 DEF Continues, Copy
    <3>4. at'[s] = "answered"
      BY <2>7
    <3>5. Means(s, rows)'
      BY <2>6, <3>2, <3>4 DEF Means
    <3> QED BY <2>4, <3>1, <3>3, <3>5 DEF Undisturbed
  <2>8. ASSUME NEW op \in Continues(s), call' = [call EXCEPT ![s].op = op],
               at' = [at EXCEPT ![s] = "reading"]
        PROVE  Undisturbed(s)'
    <3>1. call'[s] = [call[s] EXCEPT !.op = op] /\ at'[s] = "reading"
      BY <2>8
    <3>2. call[s] \in CallRow
      BY DEF SessionOK, CallOK
    <3>3. \/ call[s].op = "return" /\ op = "close_tickets"
          \/ /\ call[s].op = "start" /\ op = "send_to_repair"
             /\ Copy(s, call[s].on).type = "damage"
      BY <2>8 DEF Continues
    <3>4. OnlyReturnRows(s)'
      BY <1>1, <1>3, <2>1, <3>1, <3>2, <3>3 DEF CallRow, Undisturbed, OnlyReturnRows, tables
    <3>5. Effect(call[s], FALSE, rows, entries[s])
      BY <1>1, <2>5 DEF Means
    <3>6. Effect(call'[s], TRUE, rows, entries[s])
      <4> DEFINE c == call[s]
                 d == call'[s]
      <4>1. d.op = op /\ d.on = c.on /\ d.to = c.to /\ d.next = c.next
        BY <3>1, <3>2 DEF CallRow
      <4>2. CASE c.op = "return"
        <5>1. Returned(c, rows, entries[s])
          BY <3>5, <4>2 DEF Effect, Decided, Assigned, Moved, Changed, Resolved
        <5>2. Returned(d, rows, entries[s])
          BY <4>1, <5>1 DEF Returned
        <5> QED BY <3>3, <4>1, <4>2, <5>2 DEF Effect
      <4>3. CASE c.op = "start"
        <5>1. Started(c, rows, entries[s])
          BY <3>5, <4>3 DEF Effect, Decided, Assigned, Moved, Changed, Resolved
        <5>2. /\ c.on \in Tickets /\ c.on \in DOMAIN copies[s] /\ c.on \in DOMAIN rows
              /\ rows[c.on] = StartedRow(tickets[c.on])
          BY <2>5, <5>1 DEF Started, Row, Means, Shows
        <5>3. Copy(s, c.on) = StartedRow(tickets[c.on])
          BY <2>5, <5>2 DEF Means, Shows
        <5>4. tickets[c.on] \in LiveTicket
          BY <5>2, StoredType, RowsByTable DEF SessionOK, RowsOK, RowIds
        <5>5. tickets[c.on].type = "damage"
          BY <3>3, <4>3, <5>3, <5>4 DEF StartedRow, LiveTicket
        <5>6. Damaged(d, rows, entries[s])
          BY <4>1, <5>1, <5>5 DEF Damaged, Started
        <5> QED BY <3>3, <4>1, <4>3, <5>6 DEF Effect
      <4> QED BY <3>3, <4>2, <4>3
    <3>7. Effect(call[s], TRUE, rows, entries[s])'
      BY <1>1, <3>6, EffectKept DEF tables
    <3>8. Means(s, rows)'
      BY <2>6, <3>1, <3>7 DEF Means
    <3> QED BY <2>4, <3>1, <3>4, <3>8 DEF Undisturbed
  <2> QED BY <2>7, <2>8 DEF Answer
<1> QED BY <1>1, <1>2, <1>3, AloneUndisturbed DEF Undisturbed

-----------------------------------------------------------------------------
(* Handling undisturbed.                                                   *)

\* A handler that accepts in an undisturbed session: with its new rows the
\* copies show all the rows of an effect.
LEMMA HandleUndisturbed ==
  ASSUME AtomicInvariant, NEW s \in Sessions,
         NEW accepts, NEW rows, NEW flush, NEW logged,
         Handle(s, accepts, rows, flush, logged),
         fresh[s] /\ accepts =>
           \E all :
             /\ DOMAIN all \subseteq DOMAIN copies[s]
             /\ \A k \in DOMAIN copies[s] :
                  (IF k \in DOMAIN rows THEN rows[k] ELSE Copy(s, k))
                     = IF k \in DOMAIN all THEN all[k] ELSE Stored(k)
             /\ Effect(call[s], FALSE, all, logged)
  PROVE  \A o \in Sessions : Undisturbed(o)'
<1> USE DEF AtomicInvariant, SessionsTypeOK
<1>1. CASE ~accepts
  BY <1>1, RollBackUndisturbed DEF Handle, Ended
<1>2. CASE accepts
  <2>1. /\ copies' = [copies EXCEPT ![s] =
             [k \in DOMAIN @ |-> IF k \in DOMAIN rows THEN [@[k] EXCEPT !.now = rows[k]]
                                                     ELSE @[k]]]
        /\ entries' = [entries EXCEPT ![s] = logged]
        /\ at' = [at EXCEPT ![s] = "writing"]
        /\ UNCHANGED <<tables, call, held, fresh>>
        /\ at[s] = "reading"
    BY <1>2 DEF Handle
  <2>2. Alone(s)
    BY <1>2, <2>1 DEF Handle, Alone, Local, Others
  <2>3. ASSUME fresh[s] PROVE Undisturbed(s)'
    <3>1. Undisturbed(s) /\ Running(s)
      BY <2>1 DEF Running, Ended
    <3>2. \A j \in RowIds : Stored(j)' = Stored(j)
      BY <2>1, StoredKept DEF tables
    <3>3. /\ DOMAIN copies[s] \subseteq RowIds
          /\ \A k \in DOMAIN copies[s] : copies[s][k] \in [db : RowSet(k), now : RowSet(k)]
      BY DEF SessionOK, RowsOK
    <3>4. /\ DOMAIN copies'[s] = DOMAIN copies[s]
          /\ \A k \in DOMAIN copies[s] :
               /\ copies'[s][k].db = copies[s][k].db
               /\ copies'[s][k].now = IF k \in DOMAIN rows THEN rows[k] ELSE copies[s][k].now
      BY <2>1, <3>3
    <3>5. \A j \in DOMAIN copies'[s] \ DOMAIN held'[s] : copies'[s][j].db = Stored(j)'
      BY <2>1, <2>3, <3>1, <3>2, <3>3, <3>4 DEF Undisturbed
    <3>6. OnlyReturnRows(s)'
      BY <2>1, <2>3, <3>1, <3>4 DEF Undisturbed, OnlyReturnRows, tables
    <3>7. \E all : Means(s, all)'
      <4>1. PICK all :
              /\ DOMAIN all \subseteq DOMAIN copies[s]
              /\ \A k \in DOMAIN copies[s] :
                   (IF k \in DOMAIN rows THEN rows[k] ELSE Copy(s, k))
                      = IF k \in DOMAIN all THEN all[k] ELSE Stored(k)
              /\ Effect(call[s], FALSE, all, logged)
        BY <1>2, <2>3
      <4>2. Shows(s, all)'
        BY <3>2, <3>3, <3>4, <4>1 DEF Shows, Copy
      <4>3. Effect(call[s], FALSE, all, entries[s])'
        <5>1. entries'[s] = logged /\ call'[s] = call[s]
          BY <2>1
        <5> QED BY <2>1, <4>1, <5>1, EffectKept DEF tables
      <4>4. at'[s] = "writing"
        BY <2>1
      <4> QED BY <4>2, <4>3, <4>4 DEF Means
    <3> QED BY <2>1, <3>5, <3>6, <3>7 DEF Undisturbed
  <2> QED BY <2>1, <2>2, <2>3, AloneUndisturbed DEF Undisturbed
<1> QED BY <1>1, <1>2

\* The handlers that read and decide in one go.
LEMMA DecideUndisturbed ==
  ASSUME AtomicInvariant, NEW s \in Sessions, Deciding(s),
         NEW accepts, NEW rows, NEW flush, NEW logged,
         Handle(s, accepts, rows, flush, logged),
         /\ fresh[s] /\ accepts
         /\ \A k \in DOMAIN copies[s] : Copy(s, k) = Stored(k)
         => /\ DOMAIN rows \subseteq DOMAIN copies[s]
            /\ Effect(call[s], FALSE, rows, logged)
  PROVE  \A o \in Sessions : Undisturbed(o)'
<1>1. fresh[s] => \A k \in DOMAIN copies[s] : Copy(s, k) = Stored(k)
  BY CopiesAreStored DEF AtomicInvariant
<1>2. fresh[s] /\ accepts =>
        \E all :
          /\ DOMAIN all \subseteq DOMAIN copies[s]
          /\ \A k \in DOMAIN copies[s] :
               (IF k \in DOMAIN rows THEN rows[k] ELSE Copy(s, k))
                  = IF k \in DOMAIN all THEN all[k] ELSE Stored(k)
          /\ Effect(call[s], FALSE, all, logged)
  <2> SUFFICES ASSUME fresh[s], accepts
               PROVE  \E all :
                        /\ DOMAIN all \subseteq DOMAIN copies[s]
                        /\ \A k \in DOMAIN copies[s] :
                             (IF k \in DOMAIN rows THEN rows[k] ELSE Copy(s, k))
                                = IF k \in DOMAIN all THEN all[k] ELSE Stored(k)
                        /\ Effect(call[s], FALSE, all, logged)
    OBVIOUS
  <2> WITNESS rows
  <2> QED BY <1>1
<1> QED BY <1>2, HandleUndisturbed

LEMMA DecisionUndisturbed ==
  ASSUME AtomicInvariant, NEW s \in Sessions, HandleDecision(s)
  PROVE  \A o \in Sessions : Undisturbed(o)'
<1> USE DEF AtomicInvariant
<1> DEFINE r == call[s].on
           req == Copy(s, r)
<1>1. Deciding(s) /\ Unread(s) = {} /\ call[s].op \in {"reject", "cancel", "escalate"}
  BY DEF HandleDecision, Handle, Deciding
<1>2. r \in Requests /\ r \in DOMAIN copies[s]
  BY <1>1, AllRead DEF SessionsTypeOK, SessionOK, CallOK, WellFormed, RequestOps, Deciding
<1>3. Stored(r) = requests[r] /\ \A v : DOMAIN Row(r, v) = {r}
  BY <1>2, RowsByTable DEF Row
<1>4. CASE call[s].op = "reject" /\ Handle(s, Rejectable(req), Row(r, RejectedRow(req)), AtOnce({r}), NoRows)
  <2>1. Rejectable(req) /\ req = requests[r] =>
          Effect(call[s], FALSE, Row(r, RejectedRow(req)), NoRows)
    BY <1>2, <1>4 DEF Effect, Decided
  <2> QED BY <1>1, <1>2, <1>3, <1>4, <2>1, DecideUndisturbed
<1>5. CASE call[s].op = "cancel" /\ Handle(s, Cancellable(req), Row(r, CancelledRow(req)), AtOnce({r}), NoRows)
  <2>1. Cancellable(req) /\ req = requests[r] =>
          Effect(call[s], FALSE, Row(r, CancelledRow(req)), NoRows)
    BY <1>2, <1>5 DEF Effect, Decided
  <2> QED BY <1>1, <1>2, <1>3, <1>5, <2>1, DecideUndisturbed
<1>6. CASE call[s].op = "escalate" /\ Handle(s, Escalatable(req), Row(r, EscalatedRow(req)), AtOnce({r}), NoRows)
  <2>1. Escalatable(req) /\ req = requests[r] =>
          Effect(call[s], FALSE, Row(r, EscalatedRow(req)), NoRows)
    BY <1>2, <1>6 DEF Effect, Decided
  <2> QED BY <1>1, <1>2, <1>3, <1>6, <2>1, DecideUndisturbed
<1> QED BY <1>4, <1>5, <1>6 DEF HandleDecision

LEMMA AssignUndisturbed ==
  ASSUME AtomicInvariant, NEW s \in Sessions, HandleAssign(s)
  PROVE  \A o \in Sessions : Undisturbed(o)'
<1> USE DEF AtomicInvariant
<1> DEFINE r == call[s].on
           i == call[s].to
           req == Copy(s, r)
           item == Copy(s, i)
<1>1. PICK range \in BookingRange, wfh \in WfhChoices :
        Handle(s, /\ Assignable(req)
                  /\ AssignableItem(item, req)
                  /\ ~OverlapsAssigned(i, range, r),
               Rows(r, AssignedRow(req, i, range, wfh), i, OwnedRow(item, req.requester)),
               AtOnce({r, i}), Logs(i, "available", "assigned"))
  BY DEF HandleAssign
<1> DEFINE rows == Rows(r, AssignedRow(req, i, range, wfh), i, OwnedRow(item, req.requester))
           accepts == /\ Assignable(req)
                      /\ AssignableItem(item, req)
                      /\ ~OverlapsAssigned(i, range, r)
<1>2. Deciding(s) /\ at[s] = "reading" /\ Unread(s) = {} /\ call[s].op = "assign"
  BY DEF HandleAssign, Handle, Deciding
<1>3. r \in Requests /\ r \in DOMAIN copies[s] /\ i \in Items /\ i \in DOMAIN copies[s]
  BY <1>2, AllRead, RowsRead DEF SessionsTypeOK, SessionOK, CallOK, WellFormed, RequestOps
<1>4. Stored(r) = requests[r] /\ Stored(i) = items[i] /\ DOMAIN rows = {r, i}
  BY <1>3, RowsByTable DEF Row, Rows, With
<1>5. accepts /\ req = requests[r] /\ item = items[i] =>
        Effect(call[s], FALSE, rows, Logs(i, "available", "assigned"))
  BY <1>2, <1>3 DEF Effect, Assigned
<1> HIDE DEF rows, accepts
<1>6. Handle(s, accepts, rows, AtOnce({r, i}), Logs(i, "available", "assigned"))
  BY <1>1 DEF rows, accepts
<1> QED BY <1>2, <1>3, <1>4, <1>5, <1>6, DecideUndisturbed

LEMMA ShippingUndisturbed ==
  ASSUME AtomicInvariant, NEW s \in Sessions, HandleShipping(s)
  PROVE  \A o \in Sessions : Undisturbed(o)'
<1> USE DEF AtomicInvariant
<1> DEFINE r == call[s].on
           req == Copy(s, r)
           i == req.item
           item == Copy(s, i)
<1>1. /\ Deciding(s) /\ at[s] = "reading" /\ Unread(s) = {}
      /\ call[s].op \in {"ship", "deliver", "return"}
  BY DEF HandleShipping, Handle, Deciding
<1>2. r \in Requests /\ r \in DOMAIN copies[s] /\ req \in RequestRow
  BY <1>1, AllRead, RowsByTable DEF SessionsTypeOK, SessionOK, CallOK, WellFormed, RequestOps
<1>3. HasDevice(req) => i \in Items /\ i \in DOMAIN copies[s]
  BY <1>1, <1>2, RowsRead DEF HasDevice, RequestRow
<1>4. /\ Stored(r) = requests[r]
      /\ i \in Items => Stored(i) = items[i]
      /\ \A row, moved : DOMAIN Rows(r, row, i, moved) = {r, i}
  BY <1>2, RowsByTable DEF Row, Rows, With
<1>5. ASSUME NEW accepts, NEW row, NEW moved, NEW logged,
             Handle(s, HasDevice(req) /\ accepts, Rows(r, row, i, moved), AtOnce({r, i}), logged),
             HasDevice(req) /\ accepts /\ i \in Items /\ req = requests[r] /\ item = items[i] =>
               Effect(call[s], FALSE, Rows(r, row, i, moved), logged)
      PROVE  \A o \in Sessions : Undisturbed(o)'
  BY <1>1, <1>2, <1>3, <1>4, <1>5, DecideUndisturbed
<1>6. CASE /\ call[s].op = "ship"
           /\ Handle(s, HasDevice(req) /\ Shippable(req, item), Rows(r, ShipRow(req), i, ShipItem(item)),
                     AtOnce({r, i}), Logs(i, item.status, ShipItem(item).status))
  <2>1. ASSUME HasDevice(req), Shippable(req, item), i \in Items, req = requests[r], item = items[i]
        PROVE  Effect(call[s], FALSE, Rows(r, ShipRow(req), i, ShipItem(item)),
                      Logs(i, item.status, ShipItem(item).status))
    <3>1. item.status = "assigned" /\ ShipItem(item).status = "shipping_pending"
      BY <2>1, RowsByTable DEF Shippable, ShipItem, SessionsTypeOK, TableTypes, LiveItem
    <3>2. Moved(call[s], Rows(r, ShipRow(req), i, ShipItem(item)),
                Logs(i, "assigned", "shipping_pending"))
      BY <1>2, <1>6, <2>1 DEF Moved
    <3> QED BY <3>1, <3>2 DEF Effect
  <2> QED BY <1>5, <1>6, <2>1
<1>7. CASE /\ call[s].op = "deliver"
           /\ Handle(s, HasDevice(req) /\ Deliverable(item),
                     Rows(r, DeliveredRow(req), i, DeliveredItem(item)),
                     AtOnce({r, i}), Logs(i, item.status, DeliveredItem(item).status))
  <2>1. ASSUME HasDevice(req), Deliverable(item), i \in Items, req = requests[r], item = items[i]
        PROVE  Effect(call[s], FALSE, Rows(r, DeliveredRow(req), i, DeliveredItem(item)),
                      Logs(i, item.status, DeliveredItem(item).status))
    <3>1. item.status = "shipping_pending" /\ DeliveredItem(item).status = "assigned"
      BY <2>1, RowsByTable DEF Deliverable, DeliveredItem, SessionsTypeOK, TableTypes, LiveItem
    <3>2. Moved(call[s], Rows(r, DeliveredRow(req), i, DeliveredItem(item)),
                Logs(i, "shipping_pending", "assigned"))
      BY <1>2, <1>7, <2>1 DEF Moved
    <3> QED BY <3>1, <3>2 DEF Effect
  <2> QED BY <1>5, <1>7, <2>1
<1>8. CASE /\ call[s].op = "return"
           /\ Handle(s, HasDevice(req) /\ Returnable(item),
                     Rows(r, CompletedRow(req), i, ReturnedItem(item, call[s].next)),
                     AtOnce({r, i}), Logs(i, item.status, ReturnedItem(item, call[s].next).status))
  <2> DEFINE next == call[s].next
  <2>1. ASSUME HasDevice(req), Returnable(item), i \in Items, req = requests[r], item = items[i]
        PROVE  Effect(call[s], FALSE, Rows(r, CompletedRow(req), i, ReturnedItem(item, next)),
                      Logs(i, item.status, ReturnedItem(item, next).status))
    <3>1. ReturnedItem(item, next).status = next
      BY <2>1, RowsByTable DEF ReturnedItem, SessionsTypeOK, TableTypes, LiveItem
    <3>2. next \in ReturnNextStatuses
      BY <1>8 DEF SessionsTypeOK, SessionOK, CallOK, WellFormed
    <3>3. Returned(call[s], Rows(r, CompletedRow(req), i, ReturnedItem(item, next)),
                   Logs(i, item.status, next))
      BY <1>2, <2>1, <3>2 DEF Returned
    <3> QED BY <1>8, <3>1, <3>3 DEF Effect
  <2> QED BY <1>5, <1>8, <2>1
<1> QED BY <1>6, <1>7, <1>8 DEF HandleShipping

LEMMA ChangeUndisturbed ==
  ASSUME AtomicInvariant, NEW s \in Sessions, HandleChange(s)
  PROVE  \A o \in Sessions : Undisturbed(o)'
<1> USE DEF AtomicInvariant
<1> DEFINE i == call[s].on
           item == Copy(s, i)
           next == call[s].next
           rows == Row(i, ChangedItem(item, next))
           logged == Logs(i, item.status, next)
<1>1. Deciding(s) /\ Unread(s) = {} /\ call[s].op = "change"
  BY DEF HandleChange, Handle, Deciding
<1>2. i \in Items /\ i \in DOMAIN copies[s] /\ next \in ManualStatuses
  BY <1>1, AllRead DEF SessionsTypeOK, SessionOK, CallOK, WellFormed, Deciding
<1>3. Stored(i) = items[i] /\ DOMAIN rows = {i}
  BY <1>2, RowsByTable DEF Row
<1>4. item = items[i] => Effect(call[s], FALSE, rows, logged)
  BY <1>1, <1>2 DEF Effect, Changed
<1> HIDE DEF rows, logged
<1>5. Handle(s, TRUE, rows, AtOnce({i}), logged)
  BY DEF HandleChange, rows, logged
<1> QED BY <1>1, <1>2, <1>3, <1>4, <1>5, DecideUndisturbed

LEMMA StartUndisturbed ==
  ASSUME AtomicInvariant, NEW s \in Sessions, HandleStart(s)
  PROVE  \A o \in Sessions : Undisturbed(o)'
<1> USE DEF AtomicInvariant
<1> DEFINE t == call[s].on
           ticket == Copy(s, t)
           rows == Row(t, StartedRow(ticket))
<1>1. Deciding(s) /\ Unread(s) = {} /\ call[s].op = "start"
  BY DEF HandleStart, Handle, Deciding
<1>2. t \in Tickets /\ t \in DOMAIN copies[s]
  BY <1>1, AllRead DEF SessionsTypeOK, SessionOK, CallOK, WellFormed, TicketOps, Deciding
<1>3. Stored(t) = tickets[t] /\ DOMAIN rows = {t}
  BY <1>2, RowsByTable DEF Row
<1>4. Startable(ticket) /\ ticket = tickets[t] => Effect(call[s], FALSE, rows, NoRows)
  BY <1>1, <1>2 DEF Effect, Started
<1> HIDE DEF rows
<1>5. Handle(s, Startable(ticket), rows, AtOnce({t}), NoRows)
  BY DEF HandleStart, rows
<1> QED BY <1>1, <1>2, <1>3, <1>4, <1>5, DecideUndisturbed

LEMMA SendToRepairUndisturbed ==
  ASSUME AtomicInvariant, NEW s \in Sessions, HandleSendToRepair(s)
  PROVE  \A o \in Sessions : Undisturbed(o)'
<1> USE DEF AtomicInvariant
<1> DEFINE t == call[s].on
           i == Copy(s, t).item
           item == Copy(s, i)
           rows == Row(i, InRepairItem(item))
           logged == Logs(i, item.status, "under_repair")
           all == Rows(t, StartedRow(tickets[t]), i, InRepairItem(items[i]))
<1>1. at[s] = "reading" /\ Unread(s) = {} /\ call[s].op = "send_to_repair"
  BY DEF HandleSendToRepair, Handle
<1>2. t \in Tickets /\ t \in DOMAIN copies[s] /\ Copy(s, t) \in LiveTicket
  BY <1>1, AllRead, RowsByTable DEF SessionsTypeOK, SessionOK, CallOK, WellFormed, TicketOps
<1>3. i \in Items /\ i \in DOMAIN copies[s] /\ i # t
  BY <1>1, <1>2, RowsRead, SessionsAssumption DEF LiveTicket, RowIds
<1>4. ASSUME fresh[s]
      PROVE  /\ DOMAIN all \subseteq DOMAIN copies[s]
             /\ \A k \in DOMAIN copies[s] :
                  (IF k \in DOMAIN rows THEN rows[k] ELSE Copy(s, k))
                     = IF k \in DOMAIN all THEN all[k] ELSE Stored(k)
             /\ Effect(call[s], FALSE, all, logged)
  <2>1. PICK first : Means(s, first)
    BY <1>1, <1>4 DEF Undisturbed, Running, Ended, Deciding
  <2>2. Damaged(call[s], first, entries[s])
    BY <1>1, <2>1 DEF Means, Effect, Decided, Assigned, Moved, Changed, Resolved
  <2>3. /\ first = Row(t, StartedRow(tickets[t]))
        /\ Startable(tickets[t]) /\ tickets[t].type = "damage"
    BY <2>2 DEF Damaged, Started
  <2>4. DOMAIN first = {t} /\ first[t] = StartedRow(tickets[t])
    BY <2>3 DEF Row
  <2>5. \A k \in DOMAIN copies[s] : Copy(s, k) = IF k = t THEN StartedRow(tickets[t]) ELSE Stored(k)
    BY <2>1, <2>4 DEF Means, Shows
  <2>6. tickets[t] \in LiveTicket
    BY <1>2, StoredType, RowsByTable DEF SessionsTypeOK, SessionOK, RowsOK, RowIds
  <2>7. i = tickets[t].item
    BY <1>2, <2>5, <2>6 DEF StartedRow, LiveTicket
  <2>8. item = items[i]
    BY <1>3, <2>5, RowsByTable
  <2>9. /\ DOMAIN all = {t, i} /\ all[i] = InRepairItem(items[i])
        /\ all[t] = StartedRow(tickets[t])
        /\ DOMAIN rows = {i} /\ rows[i] = InRepairItem(items[i])
    BY <1>3, <2>8 DEF Row, Rows, With
  <2>10. Effect(call[s], FALSE, all, logged)
    <3>1. SentToRepair(call[s], all, logged)
      BY <1>2, <1>3, <2>3, <2>7, <2>8 DEF SentToRepair
    <3> QED BY <1>1, <3>1 DEF Effect
  <2> HIDE DEF all, rows, logged
  <2> QED BY <1>2, <1>3, <2>5, <2>9, <2>10
<1> HIDE DEF all, rows, logged
<1>5. Handle(s, TRUE, rows, AtOnce({i}), logged)
  BY DEF HandleSendToRepair, rows, logged
<1> QED BY <1>4, <1>5, HandleUndisturbed

LEMMA CascadeUndisturbed ==
  ASSUME AtomicInvariant, NEW s \in Sessions, HandleCascade(s)
  PROVE  \A o \in Sessions : Undisturbed(o)'
<1> USE DEF AtomicInvariant, SessionsTypeOK
<1> DEFINE r == call[s].on
           i == requests[r].item
           found == UNION {OpenForItem(j) : j \in Items \cap DOMAIN copies[s]}
<1>1. /\ call[s].op = "close_tickets" /\ at[s] = "reading" /\ at'[s] = "writing"
      /\ copies' = [copies EXCEPT ![s] =
           [k \in DOMAIN @ \cup found |->
              IF k \in found THEN [db |-> tickets[k], now |-> AutoClosed(tickets[k])] ELSE @[k]]]
      /\ UNCHANGED <<tables, call, held, entries, fresh>>
  BY DEF HandleCascade
<1>2. Alone(s)
  BY <1>1 DEF HandleCascade, Alone, Local, Others
<1>3. found \subseteq Tickets /\ found \subseteq RowIds /\ DOMAIN copies[s] \subseteq RowIds
  BY DEF OpenForItem, RowIds, SessionOK, RowsOK
<1>4. ASSUME fresh[s] PROVE Undisturbed(s)'
  <2>1. Undisturbed(s) /\ Running(s) /\ ~Deciding(s)
    BY <1>1 DEF Running, Ended, Deciding
  <2>2. PICK first : Means(s, first)
    BY <1>4, <2>1 DEF Undisturbed
  <2>3. Returned(call[s], first, entries[s])
    BY <1>1, <2>2 DEF Means, Effect, Decided, Assigned, Moved, Changed, Resolved
  <2>4. DOMAIN first = {r, i} /\ r \in Requests /\ i \in Items
    BY <2>3 DEF Returned, Row, Rows, With
  <2>5. Items \cap DOMAIN copies[s] = {i}
    <3>1. DOMAIN copies[s] \subseteq {r, i} /\ {r, i} \subseteq DOMAIN copies[s]
      BY <1>1, <1>4, <2>1, <2>2, <2>4 DEF Undisturbed, OnlyReturnRows, Means, Shows
    <3> QED BY <2>4, <3>1, SessionsAssumption
  <2>6. found = OpenForItem(i)
    BY <2>5
  <2>7. PICK all : all = [k \in DOMAIN first \cup OpenForItem(i) |->
                           IF k \in OpenForItem(i) THEN AutoClosed(tickets[k]) ELSE first[k]]
    OBVIOUS
  <2>8. Effect(call[s], FALSE, all, entries[s])
    <3>1. Cascaded(call[s], all, entries[s])
      BY <2>3, <2>7 DEF Cascaded
    <3> QED BY <1>1, <3>1 DEF Effect
  <2>9. /\ DOMAIN all = DOMAIN first \cup found
        /\ \A k \in DOMAIN all : all[k] = IF k \in found THEN AutoClosed(tickets[k]) ELSE first[k]
    BY <2>6, <2>7
  <2> HIDE DEF found
  <2>10. /\ DOMAIN copies'[s] = DOMAIN copies[s] \cup found
        /\ \A k \in DOMAIN copies'[s] : copies'[s][k] =
             IF k \in found THEN [db |-> tickets[k], now |-> AutoClosed(tickets[k])]
                            ELSE copies[s][k]
    BY <1>1
  <2>11. \A k \in RowIds : Stored(k)' = Stored(k)
    BY <1>1, StoredKept DEF tables
  <2>12. \A k \in found : Stored(k) = tickets[k]
    BY <1>3, RowsByTable
  <2>13. \A k \in DOMAIN copies'[s] \ DOMAIN held'[s] : copies'[s][k].db = Stored(k)'
    BY <1>1, <1>3, <1>4, <2>1, <2>10, <2>11, <2>12 DEF Undisturbed
  <2>14. Shows(s, all)'
    <3>1. ASSUME NEW k \in found PROVE copies'[s][k].now = all[k]
      <4>1. copies'[s][k] = [db |-> tickets[k], now |-> AutoClosed(tickets[k])]
        BY <2>10
      <4>2. all[k] = AutoClosed(tickets[k])
        BY <2>9
      <4> QED BY <4>1, <4>2
    <3>2. ASSUME NEW k \in DOMAIN copies[s], k \notin found
          PROVE  copies'[s][k].now = IF k \in DOMAIN all THEN all[k] ELSE Stored(k)
      <4>1. copies'[s][k].now = Copy(s, k)
        BY <2>10, <3>2 DEF Copy
      <4>2. Copy(s, k) = IF k \in DOMAIN first THEN first[k] ELSE Stored(k)
        BY <2>2 DEF Means, Shows
      <4> QED BY <2>9, <3>2, <4>1, <4>2
    <3>3. DOMAIN all \subseteq DOMAIN copies'[s]
      BY <2>2, <2>9, <2>10 DEF Means, Shows
    <3> QED BY <1>3, <2>9, <2>10, <2>11, <3>1, <3>2, <3>3 DEF Shows, Copy
  <2>15. Effect(call[s], FALSE, all, entries[s])'
    BY <1>1, <2>8, EffectKept DEF tables
  <2>16. Means(s, all)' /\ OnlyReturnRows(s)'
    BY <1>1, <2>14, <2>15 DEF Means, OnlyReturnRows
  <2> QED BY <1>1, <2>13, <2>16 DEF Undisturbed
<1> QED BY <1>1, <1>2, <1>4, AloneUndisturbed DEF Undisturbed

LEMMA ResolveUndisturbed ==
  ASSUME AtomicInvariant, NEW s \in Sessions, HandleResolve(s)
  PROVE  \A o \in Sessions : Undisturbed(o)'
<1> USE DEF AtomicInvariant
<1> DEFINE c == call[s]
           t == c.on
           ticket == Copy(s, t)
           i == ticket.item
           r == ticket.request
           new == c.to
           closed(resolution) == ResolvedRow(ticket, resolution, new)
<1>1. /\ Deciding(s) /\ at[s] = "reading" /\ Unread(s) = {}
      /\ c.op \in {"remote", "repair", "swap", "lost"}
  BY DEF HandleResolve, Handle, Deciding
<1>2. t \in Tickets /\ t \in DOMAIN copies[s] /\ ticket \in LiveTicket
  BY <1>1, AllRead, RowsByTable DEF SessionsTypeOK, SessionOK, CallOK, WellFormed, TicketOps
<1>3. i \in Items /\ i \in DOMAIN copies[s]
  BY <1>1, <1>2, RowsRead, SessionsAssumption DEF LiveTicket, RowIds
<1>4. /\ c.op \in {"swap", "lost"} /\ r # None => r \in Requests /\ r \in DOMAIN copies[s]
      /\ c.op = "swap" => new \in Items /\ new \in DOMAIN copies[s] /\ c.next \in SwapOutStatuses
  BY <1>1, <1>2, RowsRead DEF LiveTicket, SessionsTypeOK, SessionOK, CallOK, WellFormed
<1>5. /\ Stored(t) = tickets[t] /\ Stored(i) = items[i]
      /\ r \in Requests => Stored(r) = requests[r]
      /\ new \in Items => Stored(new) = items[new]
  BY <1>2, <1>3, RowsByTable
<1> DEFINE current ==
             /\ ticket = tickets[t] /\ Copy(s, i) = items[i]
             /\ c.op \in {"swap", "lost"} => r \in Requests /\ Copy(s, r) = requests[r]
             /\ c.op = "swap" => new \in Items /\ Copy(s, new) = items[new]
<1>6. ASSUME NEW accepts, NEW rows, NEW flush, NEW logged, NEW resolution,
             Handle(s, Resolvable(ticket) /\ accepts, With(rows, t, closed(resolution)),
                    With(flush, t, 3), logged),
             accepts => DOMAIN rows \subseteq DOMAIN copies[s],
             accepts => (c.op \in {"swap", "lost"} => r # None),
             Resolvable(ticket) /\ accepts /\ current
               => Resolved(c, With(rows, t, closed(resolution)), logged)
      PROVE  \A o \in Sessions : Undisturbed(o)'
  <2> DEFINE all == With(rows, t, closed(resolution))
             willing == Resolvable(ticket) /\ accepts
  <2>1. DOMAIN all = DOMAIN rows \cup {t}
    BY DEF With
  <2>2. /\ willing
        /\ \A k \in DOMAIN copies[s] : Copy(s, k) = Stored(k)
        => DOMAIN all \subseteq DOMAIN copies[s] /\ Effect(c, FALSE, all, logged)
    <3> SUFFICES ASSUME willing, \A k \in DOMAIN copies[s] : Copy(s, k) = Stored(k)
                 PROVE  DOMAIN all \subseteq DOMAIN copies[s] /\ Effect(c, FALSE, all, logged)
      OBVIOUS
    <3>1. current
      BY <1>2, <1>3, <1>4, <1>5, <1>6
    <3>2. Resolved(c, all, logged)
      BY <1>6, <3>1
    <3> HIDE DEF all
    <3> QED BY <1>2, <1>6, <2>1, <3>2 DEF Effect
  <2>3. Handle(s, willing, all, With(flush, t, 3), logged)
    BY <1>6
  <2> HIDE DEF all, willing
  <2> QED BY <1>1, <2>2, <2>3, DecideUndisturbed
<1>7. CASE /\ c.op = "remote"
           /\ Handle(s, Resolvable(ticket) /\ TRUE, With(NoRows, t, closed("remote_resolved")),
                     With(NoRows, t, 3), NoRows)
  <2>1. With(NoRows, t, closed("remote_resolved")) = Row(t, closed("remote_resolved"))
    BY DEF With, NoRows, Row
  <2>2. Resolvable(ticket) /\ current
          => Resolved(c, With(NoRows, t, closed("remote_resolved")), NoRows)
    BY <1>2, <1>3, <1>7, <2>1 DEF Resolved
  <2>3. DOMAIN NoRows \subseteq DOMAIN copies[s]
    BY DEF NoRows
  <2> QED BY <1>6, <1>7, <2>2, <2>3
<1>8. CASE /\ c.op = "repair"
           /\ Handle(s, Resolvable(ticket) /\ Repairable(Copy(s, i)),
                     With(Row(i, RepairedItem(Copy(s, i))), t, closed("repaired_in_place")),
                     With(Row(i, 1), t, 3), Logs(i, "under_repair", "assigned"))
  <2> DEFINE rows == Row(i, RepairedItem(Copy(s, i)))
  <2>1. Resolvable(ticket) /\ Repairable(Copy(s, i)) /\ current
          => Resolved(c, With(rows, t, closed("repaired_in_place")),
                      Logs(i, "under_repair", "assigned"))
    BY <1>2, <1>3, <1>8 DEF Resolved
  <2>2. DOMAIN rows \subseteq DOMAIN copies[s]
    BY <1>3 DEF Row
  <2> HIDE DEF rows
  <2>3. Handle(s, Resolvable(ticket) /\ Repairable(Copy(s, i)),
               With(rows, t, closed("repaired_in_place")),
               With(Row(i, 1), t, 3), Logs(i, "under_repair", "assigned"))
    BY <1>8 DEF rows
  <2> QED BY <1>6, <1>8, <2>1, <2>2, <2>3
<1>9. CASE /\ c.op = "swap"
           /\ Handle(s,
                /\ Resolvable(ticket)
                /\ new # i /\ r # None /\ SwapTarget(Copy(s, new), Copy(s, i)),
                With(With(Rows(i, SwappedOutItem(Copy(s, i), c.next),
                               new, SwappedInItem(Copy(s, new), Copy(s, r))),
                          r, RepointedRow(Copy(s, r), new)),
                     t, closed("swapped")),
                With(AtOnce({r, i, new}), t, 3),
                With(Logs(i, Untold, Untold), new, <<Untold, "assigned">>))
  <2> DEFINE accepts == new # i /\ r # None /\ SwapTarget(Copy(s, new), Copy(s, i))
             rows == With(Rows(i, SwappedOutItem(Copy(s, i), c.next),
                               new, SwappedInItem(Copy(s, new), Copy(s, r))),
                          r, RepointedRow(Copy(s, r), new))
             logged == With(Logs(i, Untold, Untold), new, <<Untold, "assigned">>)
  <2>1. Resolvable(ticket) /\ accepts /\ current
          => Resolved(c, With(rows, t, closed("swapped")), logged)
    BY <1>2, <1>3, <1>4, <1>9 DEF Resolved
  <2>2. accepts => DOMAIN rows \subseteq DOMAIN copies[s]
    BY <1>3, <1>4, <1>9 DEF Row, Rows, With
  <2>3. accepts => r # None
    OBVIOUS
  <2> HIDE DEF accepts, rows, logged
  <2>4. Handle(s, Resolvable(ticket) /\ accepts, With(rows, t, closed("swapped")),
               With(AtOnce({r, i, new}), t, 3), logged)
    BY <1>9 DEF accepts, rows, logged
  <2> QED BY <1>6, <2>1, <2>2, <2>3, <2>4
<1>10. CASE /\ c.op = "lost"
            /\ Handle(s, Resolvable(ticket) /\ r # None,
                      With(Rows(i, LostItem(Copy(s, i)), r, LostRow(Copy(s, r))),
                           t, closed("marked_lost")),
                      With(Rows(i, 1, r, 2), t, 3), Logs(i, Copy(s, i).status, "lost"))
  <2> DEFINE rows == Rows(i, LostItem(Copy(s, i)), r, LostRow(Copy(s, r)))
             logged == Logs(i, Copy(s, i).status, "lost")
  <2>1. Resolvable(ticket) /\ r # None /\ current
          => Resolved(c, With(rows, t, closed("marked_lost")), logged)
    BY <1>2, <1>3, <1>10 DEF Resolved
  <2>2. r # None => DOMAIN rows \subseteq DOMAIN copies[s]
    BY <1>3, <1>4, <1>10 DEF Row, Rows, With
  <2> HIDE DEF rows, logged
  <2>3. Handle(s, Resolvable(ticket) /\ r # None, With(rows, t, closed("marked_lost")),
               With(Rows(i, 1, r, 2), t, 3), logged)
    BY <1>10 DEF rows, logged
  <2> QED BY <1>6, <2>1, <2>2, <2>3
<1> QED BY <1>7, <1>8, <1>9, <1>10 DEF HandleResolve

LEMMA HandlerUndisturbed ==
  ASSUME AtomicInvariant, NEW s \in Sessions, Handler(s)
  PROVE  \A o \in Sessions : Undisturbed(o)'
BY DecisionUndisturbed, AssignUndisturbed, ShippingUndisturbed, CascadeUndisturbed,
   ChangeUndisturbed, StartUndisturbed, SendToRepairUndisturbed, ResolveUndisturbed DEF Handler

-----------------------------------------------------------------------------
(* Committing undisturbed.                                                 *)

\* A table with new rows, and the trail with new entries.
Applied(rows, table) ==
  [k \in DOMAIN table |-> IF k \in DOMAIN rows THEN rows[k] ELSE table[k]]

Logged(logged) ==
  [i \in Items |->
     IF i \in DOMAIN logged
       THEN LET e == logged[i] IN
            IF e[1] = Untold THEN AppendedEvent(trail[i], e[2]) ELSE Appended(trail[i], e[1], e[2])
       ELSE trail[i]]

Applies(rows, logged) ==
  /\ items' = Applied(rows, items)
  /\ requests' = Applied(rows, requests)
  /\ tickets' = Applied(rows, tickets)
  /\ trail' = Logged(logged)
  /\ UNCHANGED <<extensions, users>>
  /\ UniqueActive(requests')

\* What an undisturbed session commits are the rows it shows.
LEMMA CommitApplies ==
  ASSUME AtomicInvariant, NEW s \in Sessions, Commit(s), fresh[s], UniqueActive(requests')
  PROVE  \E rows : Means(s, rows) /\ Applies(rows, entries[s])
<1> USE DEF AtomicInvariant, SessionsTypeOK
<1>1. at[s] = "answered"
  BY DEF Commit
<1>2. PICK rows : Means(s, rows)
  BY <1>1 DEF Undisturbed, Running, Ended, Deciding
<1>3. \A k \in DOMAIN copies[s] \ DOMAIN held[s] : Copy(s, k) = Stored(k)
  <2>1. plan[s] = <<>> /\ Planned(s) = {}
    BY <1>1 DEF SessionOK, PlanOK, Planned
  <2> QED BY <1>1, <2>1 DEF Undisturbed, Running, Ended, SessionOK, PlanOK, Copy
<1>4. /\ DOMAIN held[s] \subseteq DOMAIN copies[s]
      /\ \A k \in DOMAIN held[s] : held[s][k] = Copy(s, k)
  BY DEF SessionOK, RowsOK, Copy
<1>5. \A k \in RowIds :
        (IF k \in DOMAIN held[s] THEN held[s][k] ELSE Stored(k))
           = IF k \in DOMAIN rows THEN rows[k] ELSE Stored(k)
  BY <1>2, <1>3, <1>4 DEF Means, Shows
<1>6. DOMAIN items = Items /\ DOMAIN requests = Requests /\ DOMAIN tickets = Tickets
  BY DEF TableTypes, TypeOK
<1>7. /\ Committed(s, items) = Applied(rows, items)
      /\ Committed(s, requests) = Applied(rows, requests)
      /\ Committed(s, tickets) = Applied(rows, tickets)
  BY <1>5, <1>6, RowsByTable DEF Committed, Applied, RowIds
<1>8. Applies(rows, entries[s])
  BY <1>7 DEF Commit, Applies, Logged
<1> QED BY <1>2, <1>8

LEMMA AppliedRow ==
  ASSUME NEW D, NEW table, table = [j \in D |-> table[j]], NEW k, NEW v
  PROVE  /\ k \in D => Applied(Row(k, v), table) = [table EXCEPT ![k] = v]
         /\ k \notin D => Applied(Row(k, v), table) = table
BY DEF Applied, Row

LEMMA AppliedWith ==
  ASSUME NEW table, NEW rows, NEW k, NEW v
  PROVE  /\ k \in DOMAIN table =>
              Applied(With(rows, k, v), table) = [Applied(rows, table) EXCEPT ![k] = v]
         /\ k \notin DOMAIN table => Applied(With(rows, k, v), table) = Applied(rows, table)
BY DEF Applied, With

LEMMA Tables ==
  ASSUME TableTypes
  PROVE  /\ items = [i \in Items |-> items[i]] /\ DOMAIN items = Items
         /\ requests = [r \in Requests |-> requests[r]] /\ DOMAIN requests = Requests
         /\ tickets = [t \in Tickets |-> tickets[t]] /\ DOMAIN tickets = Tickets
         /\ trail = [i \in Items |-> trail[i]]
BY DEF TableTypes, TypeOK

\* The tables with these rows.
Becomes(rows, is, rs, ts) ==
  /\ Applied(rows, items) = is
  /\ Applied(rows, requests) = rs
  /\ Applied(rows, tickets) = ts

LEMMA OneItem ==
  ASSUME TableTypes, NEW k \in Items, NEW v
  PROVE  Becomes(Row(k, v), [items EXCEPT ![k] = v], requests, tickets)
<1>1. k \notin Requests /\ k \notin Tickets
  BY SessionsAssumption
<1> QED BY <1>1, Tables, AppliedRow DEF Becomes

LEMMA OneRequest ==
  ASSUME TableTypes, NEW k \in Requests, NEW v
  PROVE  Becomes(Row(k, v), items, [requests EXCEPT ![k] = v], tickets)
<1>1. k \notin Items /\ k \notin Tickets
  BY SessionsAssumption
<1> QED BY <1>1, Tables, AppliedRow DEF Becomes

LEMMA OneTicket ==
  ASSUME TableTypes, NEW k \in Tickets, NEW v
  PROVE  Becomes(Row(k, v), items, requests, [tickets EXCEPT ![k] = v])
<1>1. k \notin Items /\ k \notin Requests
  BY SessionsAssumption
<1> QED BY <1>1, Tables, AppliedRow DEF Becomes

LEMMA ItemMore ==
  ASSUME TableTypes, NEW rows, NEW is, NEW rs, NEW ts, Becomes(rows, is, rs, ts),
         NEW k \in Items, NEW v
  PROVE  Becomes(With(rows, k, v), [is EXCEPT ![k] = v], rs, ts)
<1>1. k \notin Requests /\ k \notin Tickets
  BY SessionsAssumption
<1> QED BY <1>1, Tables, AppliedWith DEF Becomes

LEMMA RequestMore ==
  ASSUME TableTypes, NEW rows, NEW is, NEW rs, NEW ts, Becomes(rows, is, rs, ts),
         NEW k \in Requests, NEW v
  PROVE  Becomes(With(rows, k, v), is, [rs EXCEPT ![k] = v], ts)
<1>1. k \notin Items /\ k \notin Tickets
  BY SessionsAssumption
<1> QED BY <1>1, Tables, AppliedWith DEF Becomes

LEMMA TicketMore ==
  ASSUME TableTypes, NEW rows, NEW is, NEW rs, NEW ts, Becomes(rows, is, rs, ts),
         NEW k \in Tickets, NEW v
  PROVE  Becomes(With(rows, k, v), is, rs, [ts EXCEPT ![k] = v])
<1>1. k \notin Items /\ k \notin Requests
  BY SessionsAssumption
<1> QED BY <1>1, Tables, AppliedWith DEF Becomes

LEMMA NothingLogged ==
  ASSUME TableTypes
  PROVE  Logged(NoRows) = trail
BY Tables DEF Logged, NoRows

LEMMA LoggedOne ==
  ASSUME TableTypes, NEW i \in Items, NEW from \in DeviceStatuses, NEW to
  PROVE  Logged(Logs(i, from, to)) = [trail EXCEPT ![i] = Appended(@, from, to)]
<1>1. from # Untold
  BY DEF DeviceStatuses, Untold
<1>2. DOMAIN Logs(i, from, to) = {i} /\ Logs(i, from, to)[i] = <<from, to>>
  BY DEF Logs, Row
<1>3. Logged(Logs(i, from, to)) =
        [j \in Items |-> IF j = i THEN Appended(trail[i], from, to) ELSE trail[j]]
  BY <1>1, <1>2 DEF Logged
<1>4. [trail EXCEPT ![i] = Appended(@, from, to)] =
        [j \in Items |-> IF j = i THEN Appended(trail[i], from, to) ELSE trail[j]]
  BY Tables
<1> QED BY <1>3, <1>4

\* Each effect is a step of its service.
LEMMA DecidedSteps ==
  ASSUME TableTypes, NEW c, NEW rows, NEW logged, Decided(c, rows, logged), Applies(rows, logged)
  PROVE  RequestServiceStep
<1> DEFINE r == c.on
           req == requests[r]
<1>1. r \in Requests /\ r \in RowIds /\ r \notin Items /\ r \notin Tickets /\ logged = NoRows
  BY SessionsAssumption DEF Decided, RowIds
<1>2. UNCHANGED <<trail, extensions, users>> /\ UniqueActive(requests')
  BY <1>1, NothingLogged DEF Applies
<1>3. \A v : rows = Row(r, v) =>
        requests' = [requests EXCEPT ![r] = v] /\ UNCHANGED <<items, tickets>>
  BY <1>1, OneRequest DEF Applies, Becomes
<1>4. \/ Rejectable(req) /\ rows = Row(r, RejectedRow(req))
      \/ Cancellable(req) /\ rows = Row(r, CancelledRow(req))
      \/ Escalatable(req) /\ rows = Row(r, EscalatedRow(req))
  BY DEF Decided
<1>5. RejectRequest(r) \/ CancelRequest(r) \/ EscalateToManager(r)
  BY <1>2, <1>3, <1>4 DEF RejectRequest, CancelRequest, EscalateToManager, WriteRequests
<1> QED BY <1>1, <1>5 DEF RequestServiceStep

LEMMA AssignedSteps ==
  ASSUME TableTypes, NEW c, NEW rows, NEW logged, Assigned(c, rows, logged), Applies(rows, logged)
  PROVE  AssignmentServiceStep
<1> DEFINE r == c.on
           i == c.to
<1>1. PICK range \in BookingRange, wfh \in WfhChoices :
        /\ Assignable(requests[r])
        /\ AssignableItem(items[i], requests[r])
        /\ ~OverlapsAssigned(i, range, r)
        /\ rows = Rows(r, AssignedRow(requests[r], i, range, wfh),
                       i, OwnedRow(items[i], requests[r].requester))
  BY DEF Assigned
<1>2. r \in Requests /\ i \in Items /\ r \notin Tickets /\ logged = Logs(i, "available", "assigned")
  BY SessionsAssumption DEF Assigned
<1>3. /\ items' = [items EXCEPT ![i] = OwnedRow(items[i], requests[r].requester)]
      /\ requests' = [requests EXCEPT ![r] = AssignedRow(requests[r], i, range, wfh)]
      /\ tickets' = tickets
  BY <1>1, <1>2, OneRequest, ItemMore DEF Rows, Applies, Becomes
<1>4. trail' = [trail EXCEPT ![i] = Appended(@, "available", "assigned")]
  BY <1>2, LoggedOne DEF Applies, DeviceStatuses
<1>5. Assign(r, i, range, wfh)
  BY <1>1, <1>3, <1>4 DEF Assign, WriteRequests, Applies
<1> QED BY <1>2, <1>5 DEF AssignmentServiceStep

LEMMA MovedSteps ==
  ASSUME TableTypes, NEW c, NEW rows, NEW logged, Moved(c, rows, logged), Applies(rows, logged)
  PROVE  ShippingServiceStep
<1> DEFINE r == c.on
           i == requests[r].item
<1>1. r \in Requests /\ i \in Items /\ r \notin Tickets /\ HasDevice(requests[r])
  BY SessionsAssumption DEF Moved
<1>2. \A v, w : rows = Rows(r, v, i, w) =>
        /\ items' = [items EXCEPT ![i] = w]
        /\ requests' = [requests EXCEPT ![r] = v]
        /\ tickets' = tickets
  BY <1>1, OneRequest, ItemMore DEF Rows, Applies, Becomes
<1>3. CASE /\ Shippable(requests[r], items[i])
           /\ rows = Rows(r, ShipRow(requests[r]), i, ShipItem(items[i]))
           /\ logged = Logs(i, "assigned", "shipping_pending")
  <2>1. trail' = [trail EXCEPT ![i] = Appended(@, "assigned", "shipping_pending")]
    BY <1>1, <1>3, LoggedOne DEF Applies, DeviceStatuses
  <2>2. /\ items' = [items EXCEPT ![i] = ShipItem(items[i])]
        /\ requests' = [requests EXCEPT ![r] = ShipRow(requests[r])]
        /\ tickets' = tickets
    BY <1>2, <1>3
  <2>3. Ship(r)
    BY <1>1, <1>3, <2>1, <2>2 DEF Ship, WriteRequests, Applies
  <2> QED BY <1>1, <2>3 DEF ShippingServiceStep
<1>4. CASE /\ Deliverable(items[i])
           /\ rows = Rows(r, DeliveredRow(requests[r]), i, DeliveredItem(items[i]))
           /\ logged = Logs(i, "shipping_pending", "assigned")
  <2>1. trail' = [trail EXCEPT ![i] = Appended(@, "shipping_pending", "assigned")]
    BY <1>1, <1>4, LoggedOne DEF Applies, DeviceStatuses
  <2>2. /\ items' = [items EXCEPT ![i] = DeliveredItem(items[i])]
        /\ requests' = [requests EXCEPT ![r] = DeliveredRow(requests[r])]
        /\ tickets' = tickets
    BY <1>2, <1>4
  <2>3. ConfirmDelivery(r)
    BY <1>1, <1>4, <2>1, <2>2 DEF ConfirmDelivery, WriteRequests, Applies
  <2> QED BY <1>1, <2>3 DEF ShippingServiceStep
<1> QED BY <1>3, <1>4 DEF Moved

LEMMA CascadedSteps ==
  ASSUME TableTypes, NEW c, NEW rows, NEW logged, Cascaded(c, rows, logged), Applies(rows, logged)
  PROVE  ShippingServiceStep
<1> DEFINE r == c.on
           i == requests[r].item
           next == c.next
           open == OpenForItem(i)
<1>1. PICK first :
        /\ Returned(c, first, logged)
        /\ rows = [k \in DOMAIN first \cup open |->
                     IF k \in open THEN AutoClosed(tickets[k]) ELSE first[k]]
  BY DEF Cascaded
<1>2. /\ r \in Requests /\ i \in Items /\ HasDevice(requests[r]) /\ Returnable(items[i])
      /\ next \in ReturnNextStatuses
      /\ first = Rows(r, CompletedRow(requests[r]), i, ReturnedItem(items[i], next))
      /\ logged = Logs(i, items[i].status, next)
  BY <1>1 DEF Returned
<1>3. DOMAIN first = {r, i} /\ r # i
      /\ first[r] = CompletedRow(requests[r]) /\ first[i] = ReturnedItem(items[i], next)
  BY <1>2, SessionsAssumption DEF Row, Rows, With
<1>4. open \subseteq Tickets
  BY DEF OpenForItem
<1>5. /\ DOMAIN rows = {r, i} \cup open
      /\ \A k \in DOMAIN rows : rows[k] = IF k \in open THEN AutoClosed(tickets[k]) ELSE first[k]
  BY <1>1, <1>3
<1> HIDE DEF open
<1>6. /\ \A j \in Items : j \in DOMAIN rows <=> j = i
      /\ \A q \in Requests : q \in DOMAIN rows <=> q = r
      /\ \A t \in Tickets : t \in DOMAIN rows <=> t \in open
      /\ rows[i] = ReturnedItem(items[i], next)
      /\ rows[r] = CompletedRow(requests[r])
      /\ \A t \in open : rows[t] = AutoClosed(tickets[t])
  <2>1. i \notin Requests \cup Tickets /\ r \notin Items \cup Tickets
        /\ \A t \in Tickets : t \notin Items \cup Requests
    BY <1>2, SessionsAssumption
  <2>2. rows[i] = first[i] /\ rows[r] = first[r]
    BY <1>4, <1>5, <2>1
  <2> QED BY <1>2, <1>3, <1>4, <1>5, <2>1, <2>2
<1>7. items' = [items EXCEPT ![i] = ReturnedItem(items[i], next)]
  <2>1. Applied(rows, items) = [j \in Items |-> IF j = i THEN ReturnedItem(items[i], next) ELSE items[j]]
    BY <1>6, Tables DEF Applied
  <2> QED BY <2>1, Tables DEF Applies
<1>8. requests' = [requests EXCEPT ![r] = CompletedRow(requests[r])]
  <2>1. Applied(rows, requests) = [q \in Requests |-> IF q = r THEN CompletedRow(requests[r]) ELSE requests[q]]
    BY <1>6, Tables DEF Applied
  <2> QED BY <2>1, Tables DEF Applies
<1>9. tickets' = [t \in Tickets |-> IF t \in open THEN AutoClosed(tickets[t]) ELSE tickets[t]]
  <2>1. Applied(rows, tickets) = [t \in Tickets |-> IF t \in open THEN AutoClosed(tickets[t]) ELSE tickets[t]]
    BY <1>6, Tables DEF Applied
  <2> QED BY <2>1 DEF Applies
<1>10. trail' = [trail EXCEPT ![i] = Appended(@, items[i].status, next)]
  <2>1. items[i].status \in DeviceStatuses
    BY <1>2 DEF TableTypes, LiveItem
  <2> QED BY <1>2, <2>1, LoggedOne DEF Applies
<1>11. CompleteReturn(r, next)
  BY <1>2, <1>7, <1>8, <1>9, <1>10
     DEF CompleteReturn, AutoCloseOpenSupport, WriteRequests, Applies, open
<1> QED BY <1>2, <1>11 DEF ShippingServiceStep

LEMMA ChangedSteps ==
  ASSUME TableTypes, NEW c, NEW rows, NEW logged, Changed(c, rows, logged), Applies(rows, logged)
  PROVE  InventoryServiceStep
<1> DEFINE i == c.on
           status == c.next
<1>1. /\ i \in Items /\ i \in RowIds /\ i \notin Requests /\ i \notin Tickets
      /\ status \in ManualStatuses
      /\ rows = Row(i, ChangedItem(items[i], status))
      /\ logged = Logs(i, items[i].status, status)
  BY SessionsAssumption DEF Changed, RowIds
<1>2. /\ items' = [items EXCEPT ![i] = ChangedItem(items[i], status)]
      /\ UNCHANGED <<requests, tickets>>
  BY <1>1, OneItem DEF Applies, Becomes
<1>3. items[i].status \in DeviceStatuses /\ Born(items[i])
  BY <1>1 DEF TableTypes, LiveItem, Born, Absent, DeviceStatuses
<1>4. trail' = [trail EXCEPT ![i] = Appended(@, items[i].status, status)]
  BY <1>1, <1>3, LoggedOne DEF Applies
<1>5. ChangeStatus(i, status)
  BY <1>2, <1>3, <1>4 DEF ChangeStatus, Applies
<1> QED BY <1>1, <1>5 DEF InventoryServiceStep

\* start on a ticket that reports no damage, and on one that does.
LEMMA StartedSteps ==
  ASSUME TableTypes, NEW c, NEW rows, NEW logged, Started(c, rows, logged),
         tickets[c.on].type # "damage", Applies(rows, logged)
  PROVE  SupportServiceStep
<1> DEFINE t == c.on
<1>1. /\ t \in Tickets /\ t \in RowIds /\ t \notin Requests /\ t \notin Items
      /\ rows = Row(t, StartedRow(tickets[t])) /\ Startable(tickets[t])
      /\ logged = NoRows
  BY SessionsAssumption DEF Started, RowIds
<1>2. tickets' = [tickets EXCEPT ![t] = StartedRow(tickets[t])] /\ UNCHANGED <<items, requests>>
  BY <1>1, OneTicket DEF Applies, Becomes
<1>3. UNCHANGED <<trail, extensions, users>>
  BY <1>1, NothingLogged DEF Applies
<1>4. Start(t)
  BY <1>1, <1>2, <1>3 DEF Start
<1> QED BY <1>1, <1>4 DEF SupportServiceStep

LEMMA SentToRepairSteps ==
  ASSUME TableTypes, NEW c, NEW rows, NEW logged, SentToRepair(c, rows, logged),
         Applies(rows, logged)
  PROVE  SupportServiceStep
<1> DEFINE t == c.on
           i == tickets[t].item
<1>1. /\ t \in Tickets /\ t \in Requests \cup Tickets /\ t \notin Requests /\ i \in Items
      /\ Startable(tickets[t]) /\ tickets[t].type = "damage"
      /\ rows = Rows(t, StartedRow(tickets[t]), i, InRepairItem(items[i]))
      /\ logged = Logs(i, items[i].status, "under_repair")
  BY SessionsAssumption DEF SentToRepair
<1>2. Becomes(rows, [items EXCEPT ![i] = InRepairItem(items[i])], requests,
              [tickets EXCEPT ![t] = StartedRow(tickets[t])])
  BY <1>1, OneTicket, ItemMore DEF Rows
<1>3. /\ items' = [items EXCEPT ![i] = InRepairItem(items[i])]
      /\ tickets' = [tickets EXCEPT ![t] = StartedRow(tickets[t])]
      /\ requests' = requests
  BY <1>2 DEF Applies, Becomes
<1>4. trail' = [trail EXCEPT ![i] = Appended(@, items[i].status, "under_repair")]
  <2>1. items[i].status \in DeviceStatuses
    BY <1>1 DEF TableTypes, LiveItem
  <2> QED BY <1>1, <2>1, LoggedOne DEF Applies
<1>5. Start(t)
  BY <1>1, <1>3, <1>4 DEF Start, Applies
<1> QED BY <1>1, <1>5 DEF SupportServiceStep

LEMMA ResolvedSteps ==
  ASSUME TableTypes, NEW c, NEW rows, NEW logged, Resolved(c, rows, logged), Applies(rows, logged)
  PROVE  SupportServiceStep
<1> DEFINE t == c.on
           i == tickets[t].item
           r == tickets[t].request
           new == c.to
           closed(resolution) == ResolvedRow(tickets[t], resolution, new)
<1>1. /\ t \in Tickets /\ t \notin Requests /\ t \notin Items /\ t \in RowIds
      /\ i \in Items /\ i \notin Requests /\ i \notin Tickets /\ i \in RowIds
      /\ Resolvable(tickets[t])
  BY SessionsAssumption DEF Resolved, RowIds
<1>2. items[i].status \in DeviceStatuses
  BY <1>1 DEF TableTypes, LiveItem
<1>3. CASE rows = Row(t, closed("remote_resolved")) /\ logged = NoRows
  <2>1. /\ tickets' = [tickets EXCEPT ![t] = closed("remote_resolved")]
        /\ UNCHANGED <<items, requests>>
    BY <1>1, <1>3, OneTicket DEF Applies, Becomes
  <2>2. UNCHANGED <<trail, extensions, users>>
    BY <1>3, NothingLogged DEF Applies
  <2>3. closed("remote_resolved") = ResolvedRow(tickets[t], "remote_resolved", None)
    BY DEF ResolvedRow
  <2>4. ResolveRemotely(t)
    BY <1>1, <2>1, <2>2, <2>3 DEF ResolveRemotely, Close
  <2> QED BY <1>1, <2>4 DEF SupportServiceStep
<1>4. CASE /\ Repairable(items[i])
           /\ rows = With(Row(i, RepairedItem(items[i])), t, closed("repaired_in_place"))
           /\ logged = Logs(i, "under_repair", "assigned")
  <2> DEFINE repaired == [items EXCEPT ![i] = RepairedItem(items[i])]
             resolved == [tickets EXCEPT ![t] = closed("repaired_in_place")]
  <2>1. Becomes(Row(i, RepairedItem(items[i])), repaired, requests, tickets)
    BY <1>1, OneItem
  <2>2. Becomes(rows, repaired, requests, resolved)
    BY <1>1, <1>4, <2>1, TicketMore
  <2>3. items' = repaired /\ requests' = requests /\ tickets' = resolved
    BY <2>2 DEF Applies, Becomes
  <2>4. trail' = [trail EXCEPT ![i] = Appended(@, "under_repair", "assigned")]
    BY <1>1, <1>4, LoggedOne DEF Applies, DeviceStatuses
  <2>5. closed("repaired_in_place") = ResolvedRow(tickets[t], "repaired_in_place", None)
    BY DEF ResolvedRow
  <2>6. RepairInPlace(t)
    BY <1>1, <1>4, <2>3, <2>4, <2>5 DEF RepairInPlace, Close, Applies
  <2> QED BY <1>1, <2>6 DEF SupportServiceStep
<1>5. CASE /\ new \in Items /\ new # i /\ r \in Requests /\ c.next \in SwapOutStatuses
           /\ SwapTarget(items[new], items[i])
           /\ rows = With(With(Rows(i, SwappedOutItem(items[i], c.next),
                                   new, SwappedInItem(items[new], requests[r])),
                              r, RepointedRow(requests[r], new)),
                         t, closed("swapped"))
           /\ logged = With(Logs(i, Untold, Untold), new, <<Untold, "assigned">>)
  <2> DEFINE out == SwappedOutItem(items[i], c.next)
             in == SwappedInItem(items[new], requests[r])
             pointed == RepointedRow(requests[r], new)
             changed == [[items EXCEPT ![i] = out] EXCEPT ![new] = in]
             repointed == [requests EXCEPT ![r] = pointed]
             resolved == [tickets EXCEPT ![t] = closed("swapped")]
  <2>1. r \in RowIds /\ r # None
    BY <1>5, SessionsAssumption DEF RowIds
  <2>2. Becomes(Row(i, out), [items EXCEPT ![i] = out], requests, tickets)
    BY <1>1, OneItem
  <2>3. Becomes(Rows(i, out, new, in), changed, requests, tickets)
    BY <1>5, <2>2, ItemMore DEF Rows
  <2>4. Becomes(With(Rows(i, out, new, in), r, pointed), changed, repointed, tickets)
    BY <1>5, <2>3, RequestMore
  <2>5. Becomes(rows, changed, repointed, resolved)
    BY <1>1, <1>5, <2>4, TicketMore
  <2>6. items' = changed /\ requests' = repointed /\ tickets' = resolved
    BY <2>5 DEF Applies, Becomes
  <2>7. trail' = [trail EXCEPT ![i] = AppendedEvent(@, Untold),
                               ![new] = AppendedEvent(@, "assigned")]
    <3>1. /\ DOMAIN logged = {i, new}
          /\ logged[i] = <<Untold, Untold>> /\ logged[new] = <<Untold, "assigned">>
      BY <1>5 DEF With, Logs, Row
    <3>2. /\ logged[i][1] = Untold /\ logged[i][2] = Untold
          /\ logged[new][1] = Untold /\ logged[new][2] = "assigned"
      BY <3>1
    <3>3. Logged(logged) = [j \in Items |-> IF j = i THEN AppendedEvent(trail[i], Untold)
                                      ELSE IF j = new THEN AppendedEvent(trail[new], "assigned")
                                      ELSE trail[j]]
      BY <3>1, <3>2 DEF Logged
    <3> QED BY <1>1, <1>5, <3>3, Tables DEF Applies
  <2>8. Swap(t, new, c.next)
    BY <1>1, <1>5, <2>1, <2>6, <2>7 DEF Swap, SwapTarget, Close, WriteRequests, Applies
  <2> QED BY <1>1, <1>5, <2>8 DEF SupportServiceStep
<1>6. CASE /\ r \in Requests
           /\ rows = With(Rows(i, LostItem(items[i]), r, LostRow(requests[r])),
                         t, closed("marked_lost"))
           /\ logged = Logs(i, items[i].status, "lost")
  <2> DEFINE lost == [items EXCEPT ![i] = LostItem(items[i])]
             completed == [requests EXCEPT ![r] = LostRow(requests[r])]
             resolved == [tickets EXCEPT ![t] = closed("marked_lost")]
  <2>1. r # None
    BY <1>6, SessionsAssumption DEF RowIds
  <2>2. Becomes(Row(i, LostItem(items[i])), lost, requests, tickets)
    BY <1>1, OneItem
  <2>3. Becomes(Rows(i, LostItem(items[i]), r, LostRow(requests[r])), lost, completed, tickets)
    BY <1>6, <2>2, RequestMore DEF Rows
  <2>4. Becomes(rows, lost, completed, resolved)
    BY <1>1, <1>6, <2>3, TicketMore
  <2>5. items' = lost /\ requests' = completed /\ tickets' = resolved
    BY <2>4 DEF Applies, Becomes
  <2>6. trail' = [trail EXCEPT ![i] = Appended(@, items[i].status, "lost")]
    BY <1>1, <1>2, <1>6, LoggedOne DEF Applies
  <2>7. closed("marked_lost") = ResolvedRow(tickets[t], "marked_lost", None)
    BY DEF ResolvedRow
  <2>8. MarkLost(t)
    BY <1>1, <2>1, <2>5, <2>6, <2>7 DEF MarkLost, Close, WriteRequests, Applies
  <2> QED BY <1>1, <2>8 DEF SupportServiceStep
<1> QED BY <1>3, <1>4, <1>5, <1>6 DEF Resolved

LEMMA CommitIsAtomic ==
  ASSUME AtomicInvariant, NEW s \in Sessions, Commit(s), fresh[s], UniqueActive(requests')
  PROVE  Next
<1> USE DEF AtomicInvariant, SessionsTypeOK
<1> DEFINE c == call[s]
           logged == entries[s]
<1>1. PICK rows : Means(s, rows) /\ Applies(rows, logged)
  BY CommitApplies
<1>2. /\ c.op # "return" /\ (c.op = "start" => Copy(s, c.on).type # "damage")
      /\ Effect(c, FALSE, rows, logged)
  <2>1. at[s] = "answered" /\ Undisturbed(s) /\ Running(s)
    BY DEF Commit, Running, Ended
  <2>2. Continues(s) = {}
    BY <2>1 DEF Undisturbed
  <2> QED BY <1>1, <2>1, <2>2 DEF Continues, Means
<1>3. CASE c.op = "start" /\ Started(c, rows, logged)
  <2>1. tickets[c.on].type # "damage"
    <3>1. c.on \in Tickets /\ DOMAIN rows = {c.on} /\ rows[c.on] = StartedRow(tickets[c.on])
      BY <1>3 DEF Started, Row
    <3>2. c.on \in DOMAIN copies[s] /\ Copy(s, c.on) = StartedRow(tickets[c.on])
      BY <1>1, <3>1 DEF Means, Shows
    <3>3. tickets[c.on] \in LiveTicket
      BY <3>1, <3>2, StoredType, RowsByTable DEF SessionOK, RowsOK, RowIds
    <3> QED BY <1>2, <1>3, <3>2, <3>3 DEF StartedRow, LiveTicket
  <2> QED BY <1>1, <1>3, <2>1, StartedSteps DEF Next
<1>4. CASE Decided(c, rows, logged)
  BY <1>1, <1>4, DecidedSteps DEF Next
<1>5. CASE Assigned(c, rows, logged)
  BY <1>1, <1>5, AssignedSteps DEF Next
<1>6. CASE Moved(c, rows, logged)
  BY <1>1, <1>6, MovedSteps DEF Next
<1>7. CASE Cascaded(c, rows, logged)
  BY <1>1, <1>7, CascadedSteps DEF Next
<1>8. CASE Changed(c, rows, logged)
  BY <1>1, <1>8, ChangedSteps DEF Next
<1>9. CASE SentToRepair(c, rows, logged)
  BY <1>1, <1>9, SentToRepairSteps DEF Next
<1>10. CASE Resolved(c, rows, logged)
  BY <1>1, <1>10, ResolvedSteps DEF Next
<1> QED BY <1>2, <1>3, <1>4, <1>5, <1>6, <1>7, <1>8, <1>9, <1>10 DEF Effect

LEMMA NextUndisturbed == AtomicInvariant /\ [SessionsNext]_vars => AtomicInvariant'
<1> SUFFICES ASSUME AtomicInvariant, [SessionsNext]_vars
             PROVE  \A o \in Sessions : Undisturbed(o)'
  BY NextSessionTypes, NextLocks DEF AtomicInvariant
<1>1. CASE DetectDeadlock
  BY <1>1, RollBackUndisturbed DEF DetectDeadlock, Ended
<1>2. ASSUME NEW s \in Sessions, NEW m \in Messages, Begin(s, m)
      PROVE  \A o \in Sessions : Undisturbed(o)'
  BY <1>2, BeginUndisturbed
<1>3. ASSUME NEW s \in Sessions, Lose(s) PROVE \A o \in Sessions : Undisturbed(o)'
  BY <1>3, RollBackUndisturbed DEF Lose, Ended
<1>4. ASSUME NEW s \in Sessions, Collide(s) PROVE \A o \in Sessions : Undisturbed(o)'
  BY <1>4, RollBackUndisturbed DEF Collide, Ended
<1>5. ASSUME NEW s \in Sessions, Commit(s) PROVE \A o \in Sessions : Undisturbed(o)'
  <2>1. \A o \in Sessions : fresh'[o] => o = s
    BY <1>5 DEF Commit
  <2>2. at'[s] = "done"
    BY <1>5 DEF Commit, AtomicInvariant, SessionsTypeOK
  <2> QED BY <2>1, <2>2 DEF Undisturbed, Running, Ended
<1>6. ASSUME NEW s \in Sessions, Step(s) PROVE \A o \in Sessions : Undisturbed(o)'
  BY <1>4, <1>5, <1>6, ReadUndisturbed, HandlerUndisturbed, WriteUndisturbed, CheckUndisturbed,
     AnswerUndisturbed DEF Step
<1>7. CASE UNCHANGED vars
  <2> SUFFICES ASSUME NEW o \in Sessions PROVE Undisturbed(o)'
    OBVIOUS
  <2>1. Undisturbed(o) /\ DOMAIN copies[o] \subseteq RowIds
    BY DEF AtomicInvariant, SessionsTypeOK, SessionOK, RowsOK
  <2> QED BY <1>7, <2>1, UndisturbedKept DEF vars, tables, sessions
<1> QED BY <1>1, <1>2, <1>3, <1>6, <1>7 DEF SessionsNext

\* A call during which no other one committed commits the effect of its
\* service's atomic action, although it read without locks, wrote row by row
\* and may have waited for sessions that rolled back.
THEOREM UndisturbedAtomic == SessionsSafety => UndisturbedCallsAreAtomic
<1>1. SessionsInit => AtomicInvariant
  <2> SUFFICES ASSUME SessionsInit PROVE AtomicInvariant
    OBVIOUS
  <2>1. \A s \in Sessions : ~fresh[s]
    BY DEF SessionsInit
  <2> QED BY <2>1, InitSessionTypes, InitLocks DEF AtomicInvariant, Undisturbed
<1>2. AtomicInvariant /\ [SessionsNext]_vars => AtomicInvariant'
  BY NextUndisturbed
<1>3. AtomicInvariant /\ [SessionsNext]_vars =>
        [\A s \in Sessions :
           at[s] = "answered" /\ at'[s] = "done" /\ fresh[s] => Next]_vars
  <2> SUFFICES ASSUME AtomicInvariant, [SessionsNext]_vars, NEW s \in Sessions,
                      at[s] = "answered", at'[s] = "done", fresh[s]
               PROVE  Next
    OBVIOUS
  <2>1. Commit(s)
    BY OnlyCommit DEF AtomicInvariant
  <2>2. UniqueActive(requests')
    BY NextUndisturbed DEF AtomicInvariant, LockInvariant, IndexInvariant
  <2> QED BY <2>1, <2>2, CommitIsAtomic
<1> QED BY <1>1, <1>2, <1>3, PTL DEF SessionsSafety, UndisturbedCallsAreAtomic
=============================================================================
