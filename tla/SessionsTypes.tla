------------------------------ MODULE SessionsTypes ------------------------------
(***************************************************************************)
(* Type correctness of Sessions: the tables, and of every session the      *)
(* call, the identity map, the rows still to write, the rows locked and    *)
(* the log entries.                                                        *)
(***************************************************************************)
EXTENDS SessionsProofs, FiniteSetTheorems

\* Rows that have been inserted: no operation of Sessions inserts a device or
\* a ticket, and none is called on a row that does not exist.
LiveItem ==
  [status : DeviceStatuses, category : Categories \cup {None}, owner : Users \cup {None}]

LiveTicket ==
  [status : SupportStatuses, type : SupportTypes \cup {None}, item : Items,
   request : Requests \cup {None}, resolution : SupportResolutions \cup {None},
   swapped_to : Items \cup {None}, auto_closed : BOOLEAN]

RowSet(k) ==
  CASE k \in Items -> LiveItem
    [] k \in Requests -> RequestRow
    [] k \in Tickets -> LiveTicket

Points ==
  {"idle", "reading", "writing", "checking", "answered", "done", "refused", "failed"}

\* What an operation expects of the call.
RequestOps ==
  {"reject", "cancel", "escalate", "assign", "ship", "deliver", "return", "close_tickets"}

TicketOps == {"start", "send_to_repair", "remote", "repair", "swap", "lost"}

CallRow ==
  [op : RequestOps \cup TicketOps \cup {"none", "change"}, on : RowIds \cup {None},
   to : Items \cup {None}, next : DeviceStatuses \cup {None}]

WellFormed(c) ==
  /\ c.op \in RequestOps => c.on \in Requests
  /\ c.op \in TicketOps => c.on \in Tickets
  /\ c.op = "change" => c.on \in Items /\ c.next \in ManualStatuses
  /\ c.op \in {"assign", "swap"} => c.to \in Items
  /\ c.op \in {"return", "close_tickets"} => c.next \in ReturnNextStatuses
  /\ c.op = "swap" => c.next \in SwapOutStatuses

TableTypes ==
  /\ TypeOK
  /\ items \in [Items -> LiveItem]
  /\ tickets \in [Tickets -> LiveTicket \cup {NoTicket}]

CallOK(s) ==
  /\ call[s] \in CallRow
  /\ WellFormed(call[s])
  /\ at[s] \in Points
  /\ at[s] # "idle" => /\ call[s].op # "none"
                       /\ call[s].on \in Tickets => Born(tickets[call[s].on])

\* The identity map, and the rows written, which it shows.
RowsOK(s) ==
  /\ DOMAIN copies[s] \subseteq RowIds
  /\ \A k \in DOMAIN copies[s] : copies[s][k] \in [db : RowSet(k), now : RowSet(k)]
  /\ \A t \in Tickets \cap DOMAIN copies[s] : Born(tickets[t])
  /\ plan[s] \in Seq(DOMAIN copies[s])
  /\ DOMAIN held[s] \subseteq DOMAIN copies[s]
  /\ \A k \in DOMAIN held[s] : held[s][k] = copies[s][k].now

\* Every row is written once, and those still to write are all that differ
\* from what the session has seen in the database.
Planned(s) == {plan[s][n] : n \in DOMAIN plan[s]}

PlanOK(s) ==
  /\ at[s] \notin {"writing", "checking"} => plan[s] = <<>>
  /\ at[s] = "checking" => plan[s] # <<>> /\ plan[s][1] \in DOMAIN held[s]
  /\ \A m, n \in DOMAIN plan[s] : plan[s][m] = plan[s][n] => m = n
  /\ \A n \in DOMAIN plan[s] : plan[s][n] \in DOMAIN held[s] => at[s] = "checking" /\ n = 1
  /\ \A k \in DOMAIN copies[s] :
       k \in DOMAIN held[s] \/ k \notin Planned(s) => copies[s][k].now = copies[s][k].db

\* Where a handler assigns to rows, it has not written them before.
StageOK(s) ==
  /\ at[s] = "idle" => DOMAIN copies[s] = {}
  /\ at[s] = "reading" /\ call[s].op \notin {"close_tickets", "send_to_repair"}
       => DOMAIN held[s] = {}
  /\ at[s] = "reading" /\ call[s].op = "send_to_repair" => DOMAIN held[s] \subseteq {call[s].on}
  /\ at[s] = "reading" /\ call[s].op = "close_tickets" => Tickets \cap DOMAIN copies[s] = {}
  /\ call[s].op = "return" => Tickets \cap DOMAIN copies[s] = {}
  /\ call[s].op = "start" => DOMAIN copies[s] \subseteq {call[s].on}

\* Rows and log entries a handler may hand over.
RowsTyped(rows) ==
  /\ IsFiniteSet(DOMAIN rows)
  /\ \A k \in DOMAIN rows : k \in RowIds /\ rows[k] \in RowSet(k)

LogTyped(logged) ==
  /\ DOMAIN logged \subseteq Items
  /\ \A i \in DOMAIN logged :
       \E from, to \in DeviceStatuses \cup {Untold} : logged[i] = <<from, to>>

SessionOK(s) == CallOK(s) /\ RowsOK(s) /\ PlanOK(s) /\ StageOK(s) /\ LogTyped(entries[s])

SessionsTypeOK ==
  /\ TableTypes
  /\ DOMAIN call = Sessions
  /\ DOMAIN at = Sessions
  /\ DOMAIN copies = Sessions
  /\ DOMAIN plan = Sessions
  /\ DOMAIN held = Sessions
  /\ DOMAIN entries = Sessions
  /\ fresh \in [Sessions -> BOOLEAN]
  /\ \A s \in Sessions : SessionOK(s)

-----------------------------------------------------------------------------
(* Rows.                                                                   *)

LEMMA RowsByTable ==
  /\ \A k \in Items : RowSet(k) = LiveItem /\ Stored(k) = items[k]
  /\ \A k \in Requests : RowSet(k) = RequestRow /\ Stored(k) = requests[k]
  /\ \A k \in Tickets : RowSet(k) = LiveTicket /\ Stored(k) = tickets[k]
BY SessionsAssumption DEF RowSet, Stored

LEMMA MergedItem ==
  ASSUME NEW base \in LiveItem, NEW db \in LiveItem, NEW now \in LiveItem
  PROVE  Merged(base, db, now) \in LiveItem
BY DEF Merged, LiveItem

LEMMA MergedRequest ==
  ASSUME NEW base \in RequestRow, NEW db \in RequestRow, NEW now \in RequestRow
  PROVE  Merged(base, db, now) \in RequestRow
BY DEF Merged, RequestRow

LEMMA MergedTicket ==
  ASSUME NEW base \in LiveTicket, NEW db \in LiveTicket, NEW now \in LiveTicket
  PROVE  Merged(base, db, now) \in LiveTicket
BY DEF Merged, LiveTicket

\* An UPDATE makes a row of a row, and of an unchanged row the new one.
LEMMA MergedType ==
  ASSUME NEW k \in RowIds, NEW base \in RowSet(k), NEW db \in RowSet(k), NEW now \in RowSet(k)
  PROVE  Merged(base, db, now) \in RowSet(k)
BY RowsByTable, MergedItem, MergedRequest, MergedTicket DEF RowIds

\* A row that exists is stored as a live one.
LEMMA StoredType ==
  ASSUME TableTypes, NEW k \in RowIds, k \in Tickets => Born(tickets[k])
  PROVE  Stored(k) \in RowSet(k)
<1>1. CASE k \in Items
  BY <1>1, RowsByTable DEF TableTypes
<1>2. CASE k \in Requests
  BY <1>2, RowsByTable DEF TableTypes, TypeOK
<1>3. CASE k \in Tickets
  BY <1>3, RowsByTable DEF TableTypes, Born, NoTicket
<1> QED BY <1>1, <1>2, <1>3 DEF RowIds

LEMMA LiveRowUpdates ==
  ASSUME NEW item \in LiveItem, NEW status \in DeviceStatuses, NEW u \in Users \cup {None},
         NEW ticket \in LiveTicket, NEW new \in Items \cup {None},
         NEW resolution \in SupportResolutions
  PROVE  /\ OwnedRow(item, u) \in LiveItem
         /\ ShipItem(item) \in LiveItem
         /\ DeliveredItem(item) \in LiveItem
         /\ ReturnedItem(item, status) \in LiveItem
         /\ ChangedItem(item, status) \in LiveItem
         /\ InRepairItem(item) \in LiveItem
         /\ RepairedItem(item) \in LiveItem
         /\ LostItem(item) \in LiveItem
         /\ SwappedOutItem(item, status) \in LiveItem
         /\ StartedRow(ticket) \in LiveTicket
         /\ AutoClosed(ticket) \in LiveTicket
         /\ ResolvedRow(ticket, resolution, new) \in LiveTicket
<1>1. /\ OwnedRow(item, u) \in LiveItem
      /\ ShipItem(item) \in LiveItem
      /\ DeliveredItem(item) \in LiveItem
      /\ ReturnedItem(item, status) \in LiveItem
      /\ ChangedItem(item, status) \in LiveItem
      /\ InRepairItem(item) \in LiveItem
      /\ RepairedItem(item) \in LiveItem
      /\ LostItem(item) \in LiveItem
      /\ SwappedOutItem(item, status) \in LiveItem
  BY DEF LiveItem, DeviceStatuses, OwnedRow, ShipItem, DeliveredItem, ReturnedItem,
         ChangedItem, InRepairItem, RepairedItem, LostItem, SwappedOutItem
<1>2. StartedRow(ticket) \in LiveTicket /\ AutoClosed(ticket) \in LiveTicket
  BY DEF LiveTicket, SupportStatuses, StartedRow, AutoClosed
<1>3. ResolvedRow(ticket, resolution, new) \in LiveTicket
  BY DEF LiveTicket, SupportStatuses, ResolvedRow
<1> QED BY <1>1, <1>2, <1>3

LEMMA OrdersAreSequences ==
  ASSUME NEW rows, IsFiniteSet(rows), NEW flush, NEW order \in Orders(rows, flush)
  PROVE  /\ order \in Seq(rows)
         /\ rows = {order[n] : n \in DOMAIN order}
         /\ \A m, n \in DOMAIN order : order[m] = order[n] => m = n
<1> DEFINE count == Cardinality(rows)
<1>1. count \in Nat
  BY FS_CardinalityType
<1>2. order \in [1..count -> rows] /\ \A k \in rows : \E n \in DOMAIN order : order[n] = k
  BY DEF Orders
<1>3. IsFiniteSet(1..count) /\ Cardinality(1..count) = count
  BY <1>1, FS_Interval
<1>4. order \in Surjection(1..count, rows)
  BY <1>2 DEF Surjection
<1>5. order \in Injection(1..count, rows)
  BY <1>3, <1>4, FS_SurjSameCardinalityImpliesInj
<1>6. \A m, n \in DOMAIN order : order[m] = order[n] => m = n
  BY <1>2, <1>5 DEF Injection, IsInjective
<1> QED BY <1>1, <1>2, <1>6

-----------------------------------------------------------------------------
(* Calls, and the rows handlers put together.                              *)

LEMMA MessageTypes ==
  ASSUME NEW m \in Messages
  PROVE  m \in CallRow /\ WellFormed(m) /\ m.op # "none" /\ m.on \in RowIds
<1>1. /\ ReturnNextStatuses \subseteq DeviceStatuses
      /\ ManualStatuses \subseteq DeviceStatuses
      /\ SwapOutStatuses \subseteq DeviceStatuses
  BY StoreAssumption DEF ReturnNextStatuses, ChangeableStatuses, DeviceStatuses
<1> USE DEF Call, CallRow, WellFormed, RequestOps, TicketOps, RowIds
<1>2. ASSUME NEW op \in {"reject", "cancel", "escalate", "ship", "deliver"}, NEW r \in Requests,
             m = Call(op, r, None, None)
      PROVE  m \in CallRow /\ WellFormed(m) /\ m.op # "none" /\ m.on \in RowIds
  BY <1>2
<1>3. ASSUME NEW r \in Requests, NEW i \in Items, m = Call("assign", r, i, None)
      PROVE  m \in CallRow /\ WellFormed(m) /\ m.op # "none" /\ m.on \in RowIds
  BY <1>3
<1>4. ASSUME NEW r \in Requests, NEW next \in ReturnNextStatuses,
             m = Call("return", r, None, next)
      PROVE  m \in CallRow /\ WellFormed(m) /\ m.op # "none" /\ m.on \in RowIds
  BY <1>1, <1>4
<1>5. ASSUME NEW i \in Items, NEW status \in ManualStatuses, m = Call("change", i, None, status)
      PROVE  m \in CallRow /\ WellFormed(m) /\ m.op # "none" /\ m.on \in RowIds
  BY <1>1, <1>5
<1>6. ASSUME NEW op \in {"start", "remote", "repair", "lost"}, NEW t \in Tickets,
             m = Call(op, t, None, None)
      PROVE  m \in CallRow /\ WellFormed(m) /\ m.op # "none" /\ m.on \in RowIds
  BY <1>6
<1>7. ASSUME NEW t \in Tickets, NEW i \in Items, NEW next \in SwapOutStatuses,
             m = Call("swap", t, i, next)
      PROVE  m \in CallRow /\ WellFormed(m) /\ m.op # "none" /\ m.on \in RowIds
  BY <1>1, <1>7
<1> QED BY <1>2, <1>3, <1>4, <1>5, <1>6, <1>7 DEF Messages

LEMMA RowTyped ==
  ASSUME NEW k \in RowIds, NEW v \in RowSet(k)
  PROVE  /\ RowsTyped(Row(k, v))
         /\ DOMAIN Row(k, v) = {k}
BY FS_Singleton DEF RowsTyped, Row

LEMMA WithTyped ==
  ASSUME NEW rows, RowsTyped(rows), NEW k \in RowIds, NEW v \in RowSet(k)
  PROVE  /\ RowsTyped(With(rows, k, v))
         /\ DOMAIN With(rows, k, v) = DOMAIN rows \cup {k}
<1>1. DOMAIN With(rows, k, v) = DOMAIN rows \cup {k}
  BY DEF With
<1>2. IsFiniteSet(DOMAIN rows \cup {k})
  BY FS_AddElement DEF RowsTyped
<1>3. \A j \in DOMAIN With(rows, k, v) :
        With(rows, k, v)[j] = IF j = k THEN v ELSE rows[j]
  BY DEF With
<1>4. ASSUME NEW j \in DOMAIN With(rows, k, v)
      PROVE  j \in RowIds /\ With(rows, k, v)[j] \in RowSet(j)
  <2>1. CASE j = k
    BY <1>3, <2>1
  <2>2. CASE j # k
    BY <1>1, <1>3, <2>2 DEF RowsTyped
  <2> QED BY <2>1, <2>2
<1> QED BY <1>1, <1>2, <1>4 DEF RowsTyped

LEMMA NoRowsTyped ==
  RowsTyped(NoRows) /\ DOMAIN NoRows = {} /\ LogTyped(NoRows)
BY FS_EmptySet DEF RowsTyped, LogTyped, NoRows

LEMMA LogsTyped ==
  ASSUME NEW i \in Items, NEW from \in DeviceStatuses \cup {Untold},
         NEW to \in DeviceStatuses \cup {Untold}
  PROVE  LogTyped(Logs(i, from, to))
BY DEF LogTyped, Logs, Row

-----------------------------------------------------------------------------
(* What a step of one session leaves to the others.                        *)

LEMMA SessionKept ==
  ASSUME NEW o, SessionOK(o),
         UNCHANGED <<call[o], at[o], copies[o], plan[o], held[o], entries[o]>>,
         \A t \in Tickets : Born(tickets[t]) => Born(tickets'[t])
  PROVE  SessionOK(o)'
BY DEF SessionOK, CallOK, RowsOK, PlanOK, Planned, StageOK

\* A step of s alone, on tables that stay as they are.
Local(s) ==
  /\ UNCHANGED tables
  /\ DOMAIN call' = Sessions /\ DOMAIN at' = Sessions /\ DOMAIN copies' = Sessions
  /\ DOMAIN plan' = Sessions /\ DOMAIN held' = Sessions /\ DOMAIN entries' = Sessions
  /\ fresh' \in [Sessions -> BOOLEAN]
  /\ \A o \in Others(s) :
       UNCHANGED <<call[o], at[o], copies[o], plan[o], held[o], entries[o]>>

LEMMA LocalTypes ==
  ASSUME SessionsTypeOK, NEW s \in Sessions, Local(s), SessionOK(s)'
  PROVE  SessionsTypeOK'
<1>1. TableTypes'
  BY DEF SessionsTypeOK, TableTypes, TypeOK, Local, tables
<1>2. \A o \in Others(s) : SessionOK(o)'
  BY SessionKept DEF SessionsTypeOK, Local, Others, tables
<1> QED BY <1>1, <1>2 DEF SessionsTypeOK, Local, Others

LEMMA RollBackTypes ==
  ASSUME SessionsTypeOK, NEW s \in Sessions, NEW outcome \in {"refused", "failed"},
         RollBack(s, outcome), at[s] # "idle"
  PROVE  SessionsTypeOK'
<1> USE DEF SessionsTypeOK
<1>1. /\ at'[s] = outcome
      /\ DOMAIN copies'[s] = {} /\ DOMAIN held'[s] = {} /\ DOMAIN entries'[s] = {}
      /\ plan'[s] = <<>>
      /\ call' = call /\ tickets' = tickets
  BY DEF RollBack, ReleasedBy, NoRows, tables
<1>2. Local(s)
  BY DEF Local, RollBack, ReleasedBy, Others
<1>3. SessionOK(s)'
  BY <1>1 DEF SessionOK, CallOK, RowsOK, PlanOK, StageOK, LogTyped, Points
<1> QED BY <1>2, <1>3, LocalTypes

LEMMA BeginTypes ==
  ASSUME SessionsTypeOK, NEW s \in Sessions, NEW m \in Messages, Begin(s, m)
  PROVE  SessionsTypeOK'
<1> USE DEF SessionsTypeOK
<1>1. /\ at'[s] = "reading" /\ call'[s] = m
      /\ copies' = copies /\ plan' = plan /\ held' = held /\ entries' = entries
      /\ tickets' = tickets
  BY DEF Begin, tables
<1>2. Local(s)
  BY DEF Local, Begin, Others
<1>3. DOMAIN copies[s] = {}
  BY DEF Begin, SessionOK, StageOK
<1>4. m.on \in Tickets => Born(tickets[m.on])
  BY RowsByTable DEF Begin
<1>5. CallOK(s)' /\ RowsOK(s)' /\ LogTyped(entries[s])'
  BY <1>1, <1>3, <1>4, MessageTypes DEF SessionOK, CallOK, RowsOK, Points
<1>6. StageOK(s)' /\ PlanOK(s)'
  BY <1>1, <1>3 DEF Begin, SessionOK, RowsOK, PlanOK, StageOK
<1> QED BY <1>2, <1>5, <1>6, LocalTypes DEF SessionOK

-----------------------------------------------------------------------------
(* Reading.                                                                *)

LEMMA CallOn ==
  ASSUME SessionsTypeOK, NEW s \in Sessions, at[s] # "idle"
  PROVE  /\ call[s].on \in RowIds /\ call[s].on # None
         /\ call[s].on \in Tickets => Born(tickets[call[s].on])
<1>1. /\ CallOK(s)
      /\ call[s].op \in RequestOps \cup TicketOps \cup {"change"}
  BY DEF SessionsTypeOK, SessionOK, CallOK, CallRow
<1> QED BY <1>1, SessionsAssumption DEF CallOK, WellFormed, RowIds

\* What is loaded is a row: the URL's, or one a loaded row refers to.
LEMMA WantedRows ==
  ASSUME SessionsTypeOK, NEW s \in Sessions, at[s] = "reading",
         NEW n \in DOMAIN Wanted(s), Wanted(s)[n] # None
  PROVE  /\ Wanted(s)[n] \in RowIds
         /\ Wanted(s)[n] \in Tickets => Wanted(s)[n] = call[s].on
<1> DEFINE c == call[s]
           row == copies[s][c.on].now
<1>1. CASE c.on \notin DOMAIN copies[s]
  BY <1>1, CallOn DEF Wanted
<1>2. CASE c.on \in DOMAIN copies[s]
  <2>1. row \in RowSet(c.on) /\ CallOK(s)
    BY <1>2 DEF SessionsTypeOK, SessionOK, RowsOK
  <2>2. c.op \in RequestOps => row \in RequestRow
    BY <2>1, RowsByTable DEF CallOK, WellFormed
  <2>3. c.op \in TicketOps => row \in LiveTicket
    BY <2>1, RowsByTable DEF CallOK, WellFormed
  <2>4. CASE c.op = "assign"
    <3>1. Wanted(s) = <<c.to>> /\ c.to \in Items
      BY <1>2, <2>1, <2>4 DEF Wanted, CallOK, WellFormed
    <3> QED BY <3>1, SessionsAssumption DEF RowIds
  <2>5. CASE c.op \in {"ship", "deliver", "return", "remote", "repair", "send_to_repair"}
    <3>1. Wanted(s) = <<row.item>>
      BY <1>2, <2>5 DEF Wanted
    <3>2. row.item \in Items \cup {None}
      BY <2>2, <2>3, <2>5 DEF RequestOps, TicketOps, RequestRow, LiveTicket
    <3> QED BY <3>1, <3>2, SessionsAssumption DEF RowIds
  <2>6. CASE c.op = "swap"
    <3>1. Wanted(s) = <<row.item, c.to, row.request>> /\ c.to \in Items
      BY <1>2, <2>1, <2>6 DEF Wanted, CallOK, WellFormed
    <3>2. row.item \in Items /\ row.request \in Requests \cup {None}
      BY <2>3, <2>6 DEF TicketOps, LiveTicket
    <3> QED BY <3>1, <3>2, SessionsAssumption DEF RowIds
  <2>7. CASE c.op = "lost"
    <3>1. Wanted(s) = <<row.item, row.request>>
      BY <1>2, <2>7 DEF Wanted
    <3>2. row.item \in Items /\ row.request \in Requests \cup {None}
      BY <2>3, <2>7 DEF TicketOps, LiveTicket
    <3> QED BY <3>1, <3>2, SessionsAssumption DEF RowIds
  <2>8. CASE c.op \notin {"assign", "ship", "deliver", "return", "remote", "repair",
                          "send_to_repair", "swap", "lost"}
    BY <1>2, <2>8 DEF Wanted
  <2> QED BY <2>4, <2>5, <2>6, <2>7, <2>8
<1> QED BY <1>1, <1>2

\* A row loaded into an identity map that has not got it.
LEMMA ReadTypes ==
  ASSUME SessionsTypeOK, NEW s \in Sessions, Read(s)
  PROVE  SessionsTypeOK'
<1> USE DEF SessionsTypeOK
<1>1. PICK n \in Unread(s) :
        copies' = [copies EXCEPT ![s] =
                     With(@, Wanted(s)[n], Loaded(Stored(Wanted(s)[n])))]
  BY DEF Read
<1> DEFINE k == Wanted(s)[n]
<1>2. at[s] = "reading" /\ UNCHANGED <<tables, call, at, plan, held, entries, fresh>>
  BY DEF Read
<1>3. k \in RowIds /\ (k \in Tickets => k = call[s].on) /\ k \notin DOMAIN copies[s]
  BY <1>1, <1>2, WantedRows DEF Unread
<1>4. k \in Tickets => Born(tickets[k])
  BY <1>2, <1>3, CallOn
<1>5. Stored(k) \in RowSet(k)
  BY <1>3, <1>4, StoredType
<1> HIDE DEF k
<1>6. /\ DOMAIN copies'[s] = DOMAIN copies[s] \cup {k}
      /\ copies'[s][k] = Loaded(Stored(k))
      /\ \A j \in DOMAIN copies[s] : copies'[s][j] = copies[s][j]
  BY <1>1, <1>3 DEF k, With
<1>7. Local(s)
  BY <1>1, <1>2 DEF Local, Others
<1>8. CallOK(s)' /\ LogTyped(entries[s])'
  BY <1>2 DEF SessionOK, CallOK, tables
<1>9. RowsOK(s)'
  <2>1. \A j \in DOMAIN copies'[s] : copies'[s][j] \in [db : RowSet(j), now : RowSet(j)]
    BY <1>5, <1>6 DEF SessionOK, RowsOK, Loaded
  <2>2. plan'[s] \in Seq(DOMAIN copies'[s])
    BY <1>2, <1>6 DEF SessionOK, RowsOK
  <2>3. \A j \in DOMAIN held'[s] : j \in DOMAIN copies[s] /\ held'[s][j] = copies'[s][j].now
    BY <1>2, <1>6 DEF SessionOK, RowsOK
  <2> QED BY <1>2, <1>3, <1>4, <1>6, <2>1, <2>2, <2>3 DEF SessionOK, RowsOK, tables
<1>10. StageOK(s)'
  <2>1. k \in Tickets => call[s].op \notin {"return", "close_tickets"}
    BY <1>3, SessionsAssumption DEF SessionOK, CallOK, WellFormed, RequestOps
  <2>2. call[s].op = "start" => k = call[s].on
    BY <1>1, <1>2 DEF k, Unread, Wanted
  <2> QED BY <1>2, <1>6, <2>1, <2>2 DEF SessionOK, StageOK
<1>11. PlanOK(s)'
  <2>1. \A j \in DOMAIN copies'[s] :
          j \notin Planned(s) => copies'[s][j].now = copies'[s][j].db
    BY <1>6 DEF SessionOK, PlanOK, Loaded
  <2>2. plan[s] = <<>> /\ plan'[s] = <<>> /\ Planned(s) = {} /\ Planned(s)' = {}
    BY <1>2 DEF SessionOK, PlanOK, Planned
  <2> QED BY <1>2, <2>1, <2>2 DEF PlanOK
<1> QED BY <1>7, <1>8, <1>9, <1>10, <1>11, LocalTypes DEF SessionOK

-----------------------------------------------------------------------------
(* Handling.                                                               *)

\* What a handler may hand to Handle.
Handed(s, rows, logged) ==
  /\ RowsTyped(rows)
  /\ DOMAIN rows \subseteq DOMAIN copies[s]
  /\ DOMAIN rows \cap DOMAIN held[s] = {}
  /\ LogTyped(logged)

LEMMA HandleTypes ==
  ASSUME SessionsTypeOK, NEW s \in Sessions, NEW accepts, NEW rows, NEW flush, NEW logged,
         Handle(s, accepts, rows, flush, logged), accepts => Handed(s, rows, logged)
  PROVE  SessionsTypeOK'
<1> USE DEF SessionsTypeOK
<1>1. at[s] = "reading"
  BY DEF Handle
<1>2. CASE ~accepts
  BY <1>1, <1>2, RollBackTypes DEF Handle
<1>3. CASE accepts
  <2> DEFINE dirty == {k \in DOMAIN rows : Dirty(k, copies[s][k].db, rows[k])}
  <2>1. /\ \E order \in Orders(dirty, flush) : plan' = [plan EXCEPT ![s] = order]
        /\ copies' = [copies EXCEPT ![s] =
             [k \in DOMAIN @ |-> IF k \in DOMAIN rows THEN [@[k] EXCEPT !.now = rows[k]]
                                                     ELSE @[k]]]
        /\ entries' = [entries EXCEPT ![s] = logged]
        /\ at' = [at EXCEPT ![s] = "writing"]
        /\ UNCHANGED <<tables, call, held, fresh>>
    BY <1>3 DEF Handle
  <2>2. Local(s)
    BY <2>1 DEF Local, Others
  <2>3. CallOK(s)' /\ LogTyped(entries[s])'
    BY <1>1, <1>3, <2>1 DEF SessionOK, CallOK, Handed, Points, LogTyped, tables
  <2>4. /\ DOMAIN copies'[s] = DOMAIN copies[s]
        /\ \A k \in DOMAIN copies[s] :
             copies'[s][k] = IF k \in DOMAIN rows THEN [copies[s][k] EXCEPT !.now = rows[k]]
                                                  ELSE copies[s][k]
    BY <2>1
  <2>5. StageOK(s)'
    BY <2>1, <2>4 DEF SessionOK, StageOK
  <2>6. plan'[s] \in Seq(DOMAIN copies'[s])
    <3>1. IsFiniteSet(dirty)
      BY <1>3, FS_Subset DEF Handed, RowsTyped
    <3>2. plan'[s] \in Seq(dirty)
      BY <2>1, <3>1, OrdersAreSequences
    <3>3. dirty \subseteq DOMAIN copies[s]
      BY <1>3 DEF Handed
    <3> HIDE DEF dirty
    <3> QED BY <2>4, <3>2, <3>3
  <2>7. \A k \in DOMAIN copies'[s] : copies'[s][k] \in [db : RowSet(k), now : RowSet(k)]
    BY <1>3, <2>4 DEF SessionOK, RowsOK, Handed, RowsTyped
  <2>8. \A k \in DOMAIN held'[s] : k \in DOMAIN copies[s] /\ held'[s][k] = copies'[s][k].now
    BY <1>3, <2>1, <2>4 DEF SessionOK, RowsOK, Handed
  <2>9. RowsOK(s)'
    BY <2>1, <2>4, <2>6, <2>7, <2>8 DEF SessionOK, RowsOK, tables
  <2>10. PlanOK(s)'
    <3>1. IsFiniteSet(dirty)
      BY <1>3, FS_Subset DEF Handed, RowsTyped
    <3>2. /\ dirty = {plan'[s][n] : n \in DOMAIN plan'[s]}
          /\ \A m, n \in DOMAIN plan'[s] : plan'[s][m] = plan'[s][n] => m = n
      <4>1. plan'[s] \in Orders(dirty, flush)
        BY <2>1
      <4> HIDE DEF dirty
      <4> QED BY <3>1, <4>1, OrdersAreSequences
    <3>3. \A n \in DOMAIN plan'[s] : plan'[s][n] \notin DOMAIN held'[s]
      BY <1>3, <2>1, <3>2 DEF Handed
    <3>4. ASSUME NEW k \in DOMAIN copies'[s], k \in DOMAIN held'[s] \/ k \notin dirty
          PROVE  copies'[s][k].now = copies'[s][k].db
      <4>1. copies[s][k].now = copies[s][k].db
        BY <1>1, <2>4 DEF SessionOK, PlanOK, Planned
      <4>2. copies[s][k] \in [db : RowSet(k), now : RowSet(k)]
        BY <2>4 DEF SessionOK, RowsOK
      <4>3. k \in DOMAIN rows => rows[k] = copies[s][k].db
        BY <1>3, <2>1, <3>4 DEF Handed, Dirty
      <4> QED BY <2>4, <4>1, <4>2, <4>3
    <3>5. Planned(s)' = dirty
      BY <3>2 DEF Planned
    <3> HIDE DEF dirty
    <3> QED BY <2>1, <3>2, <3>3, <3>4, <3>5 DEF PlanOK
  <2> QED BY <2>2, <2>3, <2>5, <2>9, <2>10, LocalTypes DEF SessionOK
<1> QED BY <1>2, <1>3

\* Handlers run once the rows they want are loaded.
LEMMA AllRead ==
  ASSUME SessionsTypeOK, NEW s \in Sessions, at[s] = "reading", Unread(s) = {}
  PROVE  /\ call[s].on \in DOMAIN copies[s]
         /\ \A n \in DOMAIN Wanted(s) : Wanted(s)[n] = None \/ Wanted(s)[n] \in DOMAIN copies[s]
         /\ \A k \in DOMAIN copies[s] : k \in RowIds /\ Copy(s, k) \in RowSet(k)
         /\ call[s].op \notin {"close_tickets", "send_to_repair"} => DOMAIN held[s] = {}
<1>1. \A n \in DOMAIN Wanted(s) : Wanted(s)[n] = None \/ Wanted(s)[n] \in DOMAIN copies[s]
  BY DEF Unread
<1>2. call[s].on \in DOMAIN copies[s]
  <2> SUFFICES ASSUME call[s].on \notin DOMAIN copies[s] PROVE FALSE
    OBVIOUS
  <2>1. Wanted(s) = <<call[s].on>>
    BY DEF Wanted
  <2> QED BY <1>1, <2>1, CallOn
<1>3. RowsOK(s) /\ StageOK(s)
  BY DEF SessionsTypeOK, SessionOK
<1> QED BY <1>1, <1>2, <1>3 DEF RowsOK, StageOK, Copy

\* The rows the operations read besides the URL's.
LEMMA RowsRead ==
  ASSUME SessionsTypeOK, NEW s \in Sessions, at[s] = "reading", Unread(s) = {}
  PROVE  LET c == call[s]
             row == Copy(s, c.on)
         IN
         /\ c.op = "assign" => c.to \in DOMAIN copies[s]
         /\ c.op \in {"ship", "deliver", "return", "remote", "repair", "send_to_repair",
                      "swap", "lost"}
              => row.item = None \/ row.item \in DOMAIN copies[s]
         /\ c.op = "swap" => c.to \in DOMAIN copies[s]
         /\ c.op \in {"swap", "lost"} => row.request = None \/ row.request \in DOMAIN copies[s]
<1> DEFINE c == call[s]
           row == Copy(s, c.on)
<1>1. /\ c.on \in DOMAIN copies[s]
      /\ \A n \in DOMAIN Wanted(s) : Wanted(s)[n] = None \/ Wanted(s)[n] \in DOMAIN copies[s]
      /\ CallOK(s)
  BY AllRead DEF SessionsTypeOK, SessionOK
<1>2. c.op \in {"assign", "swap"} => c.to \in Items /\ c.to # None
  BY <1>1, StoreAssumption DEF CallOK, WellFormed
<1>3. CASE c.op = "assign"
  BY <1>1, <1>2, <1>3 DEF Wanted
<1>4. CASE c.op \in {"ship", "deliver", "return", "remote", "repair", "send_to_repair"}
  <2>1. Wanted(s) = <<row.item>>
    BY <1>1, <1>4 DEF Wanted, Copy
  <2> QED BY <1>1, <1>4, <2>1
<1>5. CASE c.op = "swap"
  <2>1. Wanted(s) = <<row.item, c.to, row.request>>
    BY <1>1, <1>5 DEF Wanted, Copy
  <2> QED BY <1>1, <1>2, <1>5, <2>1
<1>6. CASE c.op = "lost"
  <2>1. Wanted(s) = <<row.item, row.request>>
    BY <1>1, <1>6 DEF Wanted, Copy
  <2> QED BY <1>1, <1>6, <2>1
<1> QED BY <1>3, <1>4, <1>5, <1>6

\* One or two rows nothing has been written of.
LEMMA HandedOne ==
  ASSUME NEW s, NEW k \in RowIds, NEW v \in RowSet(k), NEW logged, LogTyped(logged),
         k \in DOMAIN copies[s], k \notin DOMAIN held[s]
  PROVE  Handed(s, Row(k, v), logged)
<1>1. RowsTyped(Row(k, v)) /\ DOMAIN Row(k, v) = {k}
  BY RowTyped
<1> QED BY <1>1 DEF Handed

LEMMA HandedTwo ==
  ASSUME NEW s, NEW r \in Requests, NEW req \in RequestRow, NEW i \in Items, NEW item \in LiveItem,
         NEW logged, LogTyped(logged),
         {r, i} \subseteq DOMAIN copies[s], DOMAIN held[s] = {}
  PROVE  Handed(s, Rows(r, req, i, item), logged)
<1>1. /\ r \in RowIds /\ req \in RowSet(r)
      /\ i \in RowIds /\ item \in RowSet(i)
  BY RowsByTable DEF RowIds
<1>2. RowsTyped(Row(r, req)) /\ DOMAIN Row(r, req) = {r}
  BY <1>1, RowTyped
<1>3. /\ RowsTyped(With(Row(r, req), i, item))
      /\ DOMAIN With(Row(r, req), i, item) = DOMAIN Row(r, req) \cup {i}
  BY <1>1, <1>2, WithTyped
<1> QED BY <1>2, <1>3 DEF Handed, Rows

-----------------------------------------------------------------------------
(* The handlers.                                                           *)

LEMMA DecisionTypes ==
  ASSUME SessionsTypeOK, NEW s \in Sessions, HandleDecision(s)
  PROVE  SessionsTypeOK'
<1> DEFINE r == call[s].on
           req == Copy(s, r)
<1>1. at[s] = "reading" /\ Unread(s) = {} /\ call[s].op \in {"reject", "cancel", "escalate"}
  BY DEF HandleDecision, Handle
<1>2. r \in Requests
  BY <1>1 DEF SessionsTypeOK, SessionOK, CallOK, WellFormed, RequestOps
<1>3. r \in DOMAIN copies[s] /\ DOMAIN held[s] = {} /\ req \in RequestRow
  BY <1>1, <1>2, AllRead, RowsByTable
<1>4. \A row \in RequestRow : Handed(s, Row(r, row), NoRows)
  <2>1. r \in RowIds /\ RowSet(r) = RequestRow
    BY <1>2, RowsByTable DEF RowIds
  <2> QED BY <1>3, <2>1, HandedOne, NoRowsTyped
<1>5. \E accepts \in BOOLEAN, row \in RequestRow :
        Handle(s, accepts, Row(r, row), AtOnce({r}), NoRows)
  <2>1. /\ RejectedRow(req) \in RequestRow
        /\ CancelledRow(req) \in RequestRow
        /\ EscalatedRow(req) \in RequestRow
    BY <1>3, RequestRowUpdates
  <2>2. Rejectable(req) \in BOOLEAN /\ Cancellable(req) \in BOOLEAN /\ Escalatable(req) \in BOOLEAN
    BY DEF Rejectable, Cancellable, Escalatable, Born, Terminal
  <2> QED BY <2>1, <2>2 DEF HandleDecision
<1> QED BY <1>4, <1>5, HandleTypes

LEMMA AssignTypes ==
  ASSUME SessionsTypeOK, NEW s \in Sessions, HandleAssign(s)
  PROVE  SessionsTypeOK'
<1> DEFINE r == call[s].on
           i == call[s].to
           req == Copy(s, r)
<1>1. PICK range \in BookingRange, wfh \in WfhChoices :
        Handle(s,
               /\ Assignable(req)
               /\ AssignableItem(Copy(s, i), req)
               /\ ~OverlapsAssigned(i, range, r),
               Rows(r, AssignedRow(req, i, range, wfh), i, OwnedRow(Copy(s, i), req.requester)),
               AtOnce({r, i}),
               Logs(i, "available", "assigned"))
  BY DEF HandleAssign
<1>2. at[s] = "reading" /\ Unread(s) = {} /\ call[s].op = "assign"
  BY <1>1 DEF HandleAssign, Handle
<1>3. r \in Requests /\ i \in Items
  BY <1>2 DEF SessionsTypeOK, SessionOK, CallOK, WellFormed, RequestOps
<1>4. /\ {r, i} \subseteq DOMAIN copies[s] /\ DOMAIN held[s] = {}
      /\ req \in RequestRow /\ Copy(s, i) \in LiveItem
  BY <1>2, <1>3, AllRead, RowsRead, RowsByTable
<1>5. AssignedRow(req, i, range, wfh) \in RequestRow
  BY <1>3, <1>4, BookedRowTypes, StoreAssumption
<1>6. OwnedRow(Copy(s, i), req.requester) \in LiveItem
  BY <1>4 DEF OwnedRow, LiveItem, RequestRow, DeviceStatuses
<1>7. LogTyped(Logs(i, "available", "assigned"))
  BY <1>3, LogsTyped DEF DeviceStatuses
<1>8. Handed(s, Rows(r, AssignedRow(req, i, range, wfh), i, OwnedRow(Copy(s, i), req.requester)),
             Logs(i, "available", "assigned"))
  BY <1>3, <1>4, <1>5, <1>6, <1>7, HandedTwo
<1> QED BY <1>1, <1>8, HandleTypes

LEMMA ShippingTypes ==
  ASSUME SessionsTypeOK, NEW s \in Sessions, HandleShipping(s)
  PROVE  SessionsTypeOK'
<1> DEFINE r == call[s].on
           req == Copy(s, r)
           i == req.item
           item == Copy(s, i)
<1>1. /\ at[s] = "reading" /\ Unread(s) = {}
      /\ call[s].op \in {"ship", "deliver", "return"}
  BY DEF HandleShipping, Handle
<1>2. /\ r \in Requests
      /\ call[s].op = "return" => call[s].next \in DeviceStatuses
  BY <1>1 DEF SessionsTypeOK, SessionOK, CallOK, WellFormed, RequestOps, ReturnNextStatuses,
              DeviceStatuses
<1>3. /\ r \in DOMAIN copies[s] /\ DOMAIN held[s] = {} /\ req \in RequestRow
      /\ i = None \/ i \in DOMAIN copies[s]
  BY <1>1, <1>2, AllRead, RowsRead, RowsByTable
<1>4. ASSUME HasDevice(req)
      PROVE  i \in Items /\ i \in DOMAIN copies[s] /\ item \in LiveItem
  <2>1. i \in Items /\ i \in DOMAIN copies[s]
    BY <1>3, <1>4 DEF HasDevice, RequestRow
  <2> QED BY <1>1, <2>1, AllRead, RowsByTable
<1>5. ASSUME NEW row \in RequestRow, NEW moved, HasDevice(req) => moved \in LiveItem,
             NEW accepts,
             Handle(s, HasDevice(req) /\ accepts, Rows(r, row, i, moved), AtOnce({r, i}),
                    Logs(i, item.status, moved.status))
      PROVE  SessionsTypeOK'
  <2>1. ASSUME HasDevice(req)
        PROVE  Handed(s, Rows(r, row, i, moved), Logs(i, item.status, moved.status))
    <3>1. /\ i \in Items /\ i \in DOMAIN copies[s] /\ item \in LiveItem
          /\ moved \in LiveItem
      BY <1>4, <1>5, <2>1
    <3>2. LogTyped(Logs(i, item.status, moved.status))
      BY <3>1, LogsTyped DEF LiveItem
    <3> QED BY <1>2, <1>3, <3>1, <3>2, HandedTwo
  <2> QED BY <1>5, <2>1, HandleTypes
<1>6. /\ ShipRow(req) \in RequestRow
      /\ DeliveredRow(req) \in RequestRow
      /\ CompletedRow(req) \in RequestRow
  BY <1>3, RequestRowUpdates
<1>7. ASSUME HasDevice(req)
      PROVE  /\ ShipItem(item) \in LiveItem
             /\ DeliveredItem(item) \in LiveItem
             /\ call[s].op = "return" => ReturnedItem(item, call[s].next) \in LiveItem
  BY <1>2, <1>4, <1>7 DEF ShipItem, DeliveredItem, ReturnedItem, LiveItem, DeviceStatuses
<1>8. CASE Handle(s, HasDevice(req) /\ Shippable(req, item),
                  Rows(r, ShipRow(req), i, ShipItem(item)), AtOnce({r, i}),
                  Logs(i, item.status, ShipItem(item).status))
  BY <1>5, <1>6, <1>7, <1>8
<1>9. CASE Handle(s, HasDevice(req) /\ Deliverable(item),
                  Rows(r, DeliveredRow(req), i, DeliveredItem(item)), AtOnce({r, i}),
                  Logs(i, item.status, DeliveredItem(item).status))
  BY <1>5, <1>6, <1>7, <1>9
<1>10. CASE /\ call[s].op = "return"
            /\ Handle(s, HasDevice(req) /\ Returnable(item),
                      Rows(r, CompletedRow(req), i, ReturnedItem(item, call[s].next)),
                      AtOnce({r, i}),
                      Logs(i, item.status, ReturnedItem(item, call[s].next).status))
  BY <1>5, <1>6, <1>7, <1>10
<1> QED BY <1>8, <1>9, <1>10 DEF HandleShipping

\* The open tickets are loaded as they are found, and closed.
LEMMA CascadeTypes ==
  ASSUME SessionsTypeOK, NEW s \in Sessions, HandleCascade(s)
  PROVE  SessionsTypeOK'
<1> USE DEF SessionsTypeOK
<1> DEFINE found == UNION {OpenForItem(i) : i \in Items \cap DOMAIN copies[s]}
<1>1. /\ call[s].op = "close_tickets" /\ at[s] = "reading"
      /\ copies' = [copies EXCEPT ![s] =
           [k \in DOMAIN @ \cup found |->
              IF k \in found THEN [db |-> tickets[k], now |-> AutoClosed(tickets[k])] ELSE @[k]]]
      /\ \E order \in Orders(found, AtOnce(found)) : plan' = [plan EXCEPT ![s] = order]
      /\ at' = [at EXCEPT ![s] = "writing"]
      /\ UNCHANGED <<tables, call, held, entries, fresh>>
  BY DEF HandleCascade
<1>2. found \subseteq Tickets /\ \A t \in found : Born(tickets[t])
  BY DEF OpenForItem, OpenSupportStatuses, Born, Absent
<1>3. Tickets \cap DOMAIN copies[s] = {}
  BY <1>1 DEF SessionOK, StageOK
<1> HIDE DEF found
<1>4. Local(s)
  BY <1>1 DEF Local, Others
<1>5. CallOK(s)' /\ LogTyped(entries[s])'
  BY <1>1 DEF SessionOK, CallOK, Points, tables
<1>6. /\ DOMAIN copies'[s] = DOMAIN copies[s] \cup found
      /\ \A k \in found :
           copies'[s][k] = [db |-> tickets[k], now |-> AutoClosed(tickets[k])]
      /\ \A k \in DOMAIN copies[s] : k \notin found /\ copies'[s][k] = copies[s][k]
  BY <1>1, <1>2, <1>3
<1>7. \A t \in found : copies'[s][t] \in [db : RowSet(t), now : RowSet(t)]
  <2> SUFFICES ASSUME NEW t \in found
               PROVE  copies'[s][t] \in [db : RowSet(t), now : RowSet(t)]
    OBVIOUS
  <2>1. t \in Tickets /\ t \in RowIds
    BY <1>2 DEF RowIds
  <2>2. tickets[t] \in LiveTicket
    BY <1>2, <2>1, StoredType, RowsByTable
  <2>3. AutoClosed(tickets[t]) \in LiveTicket
    BY <2>2 DEF AutoClosed, LiveTicket, SupportStatuses
  <2>4. RowSet(t) = LiveTicket
    BY <2>1, RowsByTable
  <2>5. copies'[s][t] = [db |-> tickets[t], now |-> AutoClosed(tickets[t])]
    BY <1>6
  <2> QED BY <2>2, <2>3, <2>4, <2>5
<1>8. plan'[s] \in Seq(DOMAIN copies'[s])
  <2>1. IsFiniteSet(found)
    BY <1>2, FS_Subset, SessionsAssumption
  <2>2. plan'[s] \in Seq(found)
    BY <1>1, <2>1, OrdersAreSequences
  <2> QED BY <1>6, <2>2
<1>9. RowsOK(s)'
  <2>1. DOMAIN copies'[s] \subseteq RowIds
    BY <1>2, <1>6 DEF SessionOK, RowsOK, RowIds
  <2>2. \A k \in DOMAIN copies'[s] : copies'[s][k] \in [db : RowSet(k), now : RowSet(k)]
    BY <1>6, <1>7 DEF SessionOK, RowsOK
  <2>3. \A t \in Tickets \cap DOMAIN copies'[s] : Born(tickets'[t])
    BY <1>1, <1>2, <1>3, <1>6 DEF tables
  <2>4. DOMAIN held'[s] \subseteq DOMAIN copies'[s]
    BY <1>1, <1>6 DEF SessionOK, RowsOK
  <2>5. \A k \in DOMAIN held'[s] : held'[s][k] = copies'[s][k].now
    BY <1>1, <1>6 DEF SessionOK, RowsOK
  <2> QED BY <1>1, <1>8, <2>1, <2>2, <2>3, <2>4, <2>5 DEF RowsOK
<1>10. StageOK(s)'
  BY <1>1 DEF StageOK
<1>11. PlanOK(s)'
  <2>1. IsFiniteSet(found)
    BY <1>2, FS_Subset, SessionsAssumption
  <2>2. /\ found = {plan'[s][n] : n \in DOMAIN plan'[s]}
        /\ \A m, n \in DOMAIN plan'[s] : plan'[s][m] = plan'[s][n] => m = n
    BY <1>1, <2>1, OrdersAreSequences
  <2>3. DOMAIN held'[s] \cap found = {}
    BY <1>1, <1>6 DEF SessionOK, RowsOK
  <2>4. Planned(s)' = found
    BY <2>2 DEF Planned
  <2>5. \A k \in DOMAIN copies[s] : copies[s][k].now = copies[s][k].db
    BY <1>1 DEF SessionOK, PlanOK, Planned
  <2> QED BY <1>1, <1>6, <2>2, <2>3, <2>4, <2>5 DEF PlanOK
<1> QED BY <1>4, <1>5, <1>9, <1>10, <1>11, LocalTypes DEF SessionOK

LEMMA ChangeTypes ==
  ASSUME SessionsTypeOK, NEW s \in Sessions, HandleChange(s)
  PROVE  SessionsTypeOK'
<1> DEFINE i == call[s].on
           item == Copy(s, i)
<1>1. /\ at[s] = "reading" /\ Unread(s) = {} /\ call[s].op = "change"
      /\ Handle(s, TRUE, Row(i, ChangedItem(item, call[s].next)), AtOnce({i}),
                Logs(i, item.status, call[s].next))
  BY DEF HandleChange, Handle
<1>2. i \in Items /\ call[s].next \in DeviceStatuses
  BY <1>1, StoreAssumption
     DEF SessionsTypeOK, SessionOK, CallOK, WellFormed, ChangeableStatuses, DeviceStatuses
<1>3. i \in DOMAIN copies[s] /\ DOMAIN held[s] = {} /\ item \in LiveItem
  BY <1>1, <1>2, AllRead, RowsByTable
<1>4. LogTyped(Logs(i, item.status, call[s].next))
  BY <1>2, <1>3, LogsTyped DEF LiveItem
<1>5. /\ i \in RowIds /\ RowSet(i) = LiveItem
      /\ ChangedItem(item, call[s].next) \in LiveItem
  BY <1>2, <1>3, RowsByTable DEF RowIds, ChangedItem, LiveItem
<1>6. Handed(s, Row(i, ChangedItem(item, call[s].next)), Logs(i, item.status, call[s].next))
  BY <1>3, <1>4, <1>5, HandedOne
<1> QED BY <1>1, <1>6, HandleTypes

LEMMA StartTypes ==
  ASSUME SessionsTypeOK, NEW s \in Sessions, HandleStart(s)
  PROVE  SessionsTypeOK'
<1> DEFINE t == call[s].on
           ticket == Copy(s, t)
<1>1. /\ at[s] = "reading" /\ Unread(s) = {} /\ call[s].op = "start"
      /\ Handle(s, Startable(ticket), Row(t, StartedRow(ticket)), AtOnce({t}), NoRows)
  BY DEF HandleStart, Handle
<1>2. t \in Tickets
  BY <1>1 DEF SessionsTypeOK, SessionOK, CallOK, WellFormed, TicketOps
<1>3. t \in DOMAIN copies[s] /\ DOMAIN held[s] = {} /\ ticket \in LiveTicket
  BY <1>1, <1>2, AllRead, RowsByTable
<1>4. /\ t \in RowIds /\ RowSet(t) = LiveTicket
      /\ StartedRow(ticket) \in LiveTicket
  BY <1>2, <1>3, RowsByTable DEF RowIds, StartedRow, LiveTicket, SupportStatuses
<1>5. Handed(s, Row(t, StartedRow(ticket)), NoRows)
  BY <1>3, <1>4, HandedOne, NoRowsTyped
<1> QED BY <1>1, <1>5, HandleTypes

LEMMA SendToRepairTypes ==
  ASSUME SessionsTypeOK, NEW s \in Sessions, HandleSendToRepair(s)
  PROVE  SessionsTypeOK'
<1> DEFINE t == call[s].on
           i == Copy(s, t).item
           item == Copy(s, i)
<1>1. /\ at[s] = "reading" /\ Unread(s) = {} /\ call[s].op = "send_to_repair"
      /\ Handle(s, TRUE, Row(i, InRepairItem(item)), AtOnce({i}),
                Logs(i, item.status, "under_repair"))
  BY DEF HandleSendToRepair, Handle
<1>2. t \in Tickets
  BY <1>1 DEF SessionsTypeOK, SessionOK, CallOK, WellFormed, TicketOps
<1>3. t \in DOMAIN copies[s] /\ Copy(s, t) \in LiveTicket /\ DOMAIN held[s] \subseteq {t}
  BY <1>1, <1>2, AllRead, RowsByTable DEF SessionsTypeOK, SessionOK, StageOK
<1>4. i \in Items /\ i # None /\ i # t
  BY <1>2, <1>3, SessionsAssumption, StoreAssumption DEF LiveTicket
<1>5. i \in DOMAIN copies[s] /\ i \notin DOMAIN held[s] /\ item \in LiveItem
  BY <1>1, <1>3, <1>4, AllRead, RowsRead, RowsByTable
<1>6. LogTyped(Logs(i, item.status, "under_repair"))
  BY <1>4, <1>5, LogsTyped DEF LiveItem, DeviceStatuses
<1>7. /\ i \in RowIds /\ RowSet(i) = LiveItem
      /\ InRepairItem(item) \in LiveItem
  BY <1>4, <1>5, RowsByTable DEF RowIds, InRepairItem, LiveItem, DeviceStatuses
<1>8. Handed(s, Row(i, InRepairItem(item)), Logs(i, item.status, "under_repair"))
  BY <1>5, <1>6, <1>7, HandedOne
<1> QED BY <1>1, <1>8, HandleTypes

LEMMA ResolveTypes ==
  ASSUME SessionsTypeOK, NEW s \in Sessions, HandleResolve(s)
  PROVE  SessionsTypeOK'
<1> DEFINE t == call[s].on
           ticket == Copy(s, t)
           i == ticket.item
           item == Copy(s, i)
           r == ticket.request
           new == call[s].to
           next == call[s].next
           closed(resolution) == ResolvedRow(ticket, resolution, new)
<1>1. /\ at[s] = "reading" /\ Unread(s) = {}
      /\ call[s].op \in {"remote", "repair", "swap", "lost"}
  BY DEF HandleResolve, Handle
<1>2. /\ CallOK(s) /\ t \in Tickets /\ t \in RowIds
      /\ new \in Items \cup {None}
      /\ call[s].op = "swap" => new \in Items /\ next \in DeviceStatuses
  BY <1>1, StoreAssumption
     DEF SessionsTypeOK, SessionOK, CallOK, CallRow, WellFormed, TicketOps, RowIds
<1>3. t \in DOMAIN copies[s] /\ ticket \in LiveTicket /\ DOMAIN held[s] = {}
  BY <1>1, <1>2, AllRead, RowsByTable
<1>4. i \in Items /\ i # None /\ r \in Requests \cup {None}
  BY <1>3, StoreAssumption DEF LiveTicket
<1>5. i \in DOMAIN copies[s] /\ item \in LiveItem /\ i \in RowIds /\ RowSet(i) = LiveItem
  <2>1. i \in DOMAIN copies[s]
    BY <1>1, <1>4, RowsRead
  <2>2. item \in RowSet(i) /\ i \in RowIds
    BY <1>1, <2>1, AllRead
  <2> QED BY <1>4, <2>1, <2>2, RowsByTable
<1>6. \A resolution \in SupportResolutions : closed(resolution) \in RowSet(t)
  <2>1. \A resolution \in SupportResolutions : closed(resolution) \in LiveTicket
    BY <1>2, <1>3 DEF ResolvedRow, LiveTicket, SupportStatuses
  <2> QED BY <1>2, <2>1, RowsByTable
<1> HIDE DEF closed
\* The ticket's row joins those of the branch.
<1>7. ASSUME NEW accepts, NEW rows, NEW flush, NEW logged, NEW resolution \in SupportResolutions,
             Handle(s, Resolvable(ticket) /\ accepts, With(rows, t, closed(resolution)),
                    With(flush, t, 3), logged),
             accepts => RowsTyped(rows) /\ DOMAIN rows \subseteq DOMAIN copies[s] /\ LogTyped(logged)
      PROVE  SessionsTypeOK'
  <2>1. ASSUME accepts PROVE Handed(s, With(rows, t, closed(resolution)), logged)
    <3>1. /\ RowsTyped(With(rows, t, closed(resolution)))
          /\ DOMAIN With(rows, t, closed(resolution)) = DOMAIN rows \cup {t}
      BY <1>2, <1>6, <1>7, <2>1, WithTyped
    <3> QED BY <1>3, <1>7, <2>1, <3>1 DEF Handed
  <2> QED BY <1>7, <2>1, HandleTypes
<1>8. CASE Handle(s, Resolvable(ticket) /\ TRUE, With(NoRows, t, closed("remote_resolved")),
                  With(NoRows, t, 3), NoRows)
  BY <1>7, <1>8, NoRowsTyped DEF SupportResolutions
<1>9. CASE Handle(s, Resolvable(ticket) /\ Repairable(item),
                  With(Row(i, RepairedItem(item)), t, closed("repaired_in_place")),
                  With(Row(i, 1), t, 3), Logs(i, "under_repair", "assigned"))
  <2>1. RepairedItem(item) \in LiveItem
    BY <1>5 DEF RepairedItem, LiveItem, DeviceStatuses
  <2>2. RowsTyped(Row(i, RepairedItem(item))) /\ DOMAIN Row(i, RepairedItem(item)) = {i}
    BY <1>5, <2>1, RowTyped
  <2>3. LogTyped(Logs(i, "under_repair", "assigned"))
    BY <1>4, LogsTyped DEF DeviceStatuses
  <2>4. "repaired_in_place" \in SupportResolutions
    BY DEF SupportResolutions
  <2> QED BY <1>5, <1>7, <1>9, <2>2, <2>3, <2>4
<1>10. ASSUME call[s].op = "swap",
              Handle(s, Resolvable(ticket)
                          /\ (new # i /\ r # None /\ SwapTarget(Copy(s, new), item)),
                     With(With(Rows(i, SwappedOutItem(item, next),
                                    new, SwappedInItem(Copy(s, new), Copy(s, r))),
                               r, RepointedRow(Copy(s, r), new)),
                          t, closed("swapped")),
                     With(AtOnce({r, i, new}), t, 3),
                     With(Logs(i, Untold, Untold), new, <<Untold, "assigned">>))
       PROVE  SessionsTypeOK'
  <2> DEFINE old1 == Row(i, SwappedOutItem(item, next))
             two == With(old1, new, SwappedInItem(Copy(s, new), Copy(s, r)))
             three == With(two, r, RepointedRow(Copy(s, r), new))
             logged == With(Logs(i, Untold, Untold), new, <<Untold, "assigned">>)
  <2>1. ASSUME r # None
        PROVE  RowsTyped(three) /\ DOMAIN three \subseteq DOMAIN copies[s]
    <3>1. /\ new \in Items /\ new \in DOMAIN copies[s] /\ new \in RowIds
          /\ Copy(s, new) \in LiveItem /\ RowSet(new) = LiveItem
      BY <1>1, <1>2, <1>10, AllRead, RowsRead, RowsByTable
    <3>2. /\ r \in Requests /\ r \in DOMAIN copies[s] /\ r \in RowIds
          /\ Copy(s, r) \in RequestRow /\ RowSet(r) = RequestRow
      BY <1>1, <1>4, <1>10, <2>1, AllRead, RowsRead, RowsByTable
    <3>3. SwappedOutItem(item, next) \in LiveItem
      BY <1>2, <1>5, <1>10 DEF SwappedOutItem, LiveItem
    <3>4. SwappedInItem(Copy(s, new), Copy(s, r)) \in LiveItem
      BY <3>1, <3>2 DEF SwappedInItem, LiveItem, RequestRow, DeviceStatuses
    <3>5. RepointedRow(Copy(s, r), new) \in RequestRow
      BY <3>1, <3>2 DEF RepointedRow, RequestRow
    <3>6. RowsTyped(old1) /\ DOMAIN old1 = {i}
      BY <1>5, <3>3, RowTyped
    <3> HIDE DEF old1
    <3>7. RowsTyped(two) /\ DOMAIN two = DOMAIN old1 \cup {new}
      BY <3>1, <3>4, <3>6, WithTyped
    <3> HIDE DEF two
    <3>8. RowsTyped(three) /\ DOMAIN three = DOMAIN two \cup {r}
      BY <3>2, <3>5, <3>7, WithTyped
    <3> QED BY <1>5, <3>1, <3>2, <3>6, <3>7, <3>8
  <2>2. LogTyped(logged)
    BY <1>2, <1>4, <1>10 DEF LogTyped, Logs, Row, With, DeviceStatuses
  <2>3. "swapped" \in SupportResolutions
    BY DEF SupportResolutions
  <2>4. Handle(s, Resolvable(ticket) /\ (new # i /\ r # None /\ SwapTarget(Copy(s, new), item)),
               With(three, t, closed("swapped")), With(AtOnce({r, i, new}), t, 3), logged)
    BY <1>10 DEF Rows
  <2> HIDE DEF three, logged
  <2> QED BY <1>7, <2>1, <2>2, <2>3, <2>4
<1>11. ASSUME call[s].op = "lost",
              Handle(s, Resolvable(ticket) /\ r # None,
                     With(Rows(i, LostItem(item), r, LostRow(Copy(s, r))), t,
                          closed("marked_lost")),
                     With(Rows(i, 1, r, 2), t, 3), Logs(i, item.status, "lost"))
       PROVE  SessionsTypeOK'
  <2> DEFINE one == Row(i, LostItem(item))
             two == With(one, r, LostRow(Copy(s, r)))
  <2>1. ASSUME r # None
        PROVE  RowsTyped(two) /\ DOMAIN two \subseteq DOMAIN copies[s]
    <3>1. /\ r \in Requests /\ r \in DOMAIN copies[s] /\ r \in RowIds
          /\ Copy(s, r) \in RequestRow /\ RowSet(r) = RequestRow
      BY <1>1, <1>4, <1>11, <2>1, AllRead, RowsRead, RowsByTable
    <3>2. LostItem(item) \in LiveItem
      BY <1>5 DEF LostItem, LiveItem, DeviceStatuses
    <3>3. LostRow(Copy(s, r)) \in RequestRow
      BY <3>1, RequestRowUpdates
    <3>4. RowsTyped(one) /\ DOMAIN one = {i}
      BY <1>5, <3>2, RowTyped
    <3> HIDE DEF one
    <3>5. RowsTyped(two) /\ DOMAIN two = DOMAIN one \cup {r}
      BY <3>1, <3>3, <3>4, WithTyped
    <3> QED BY <1>5, <3>1, <3>4, <3>5
  <2>2. LogTyped(Logs(i, item.status, "lost"))
    BY <1>4, <1>5, LogsTyped DEF LiveItem, DeviceStatuses
  <2>3. "marked_lost" \in SupportResolutions
    BY DEF SupportResolutions
  <2>4. Handle(s, Resolvable(ticket) /\ r # None, With(two, t, closed("marked_lost")),
               With(Rows(i, 1, r, 2), t, 3), Logs(i, item.status, "lost"))
    BY <1>11 DEF Rows
  <2> HIDE DEF two
  <2> QED BY <1>7, <2>1, <2>2, <2>3, <2>4
<1> QED BY <1>8, <1>9, <1>10, <1>11 DEF HandleResolve, closed

-----------------------------------------------------------------------------
(* Writing, answering and committing.                                      *)

LEMMA TailOfPlan ==
  ASSUME NEW S, NEW p \in Seq(S), p # <<>>
  PROVE  /\ Tail(p) \in Seq(S)
         /\ \A n \in DOMAIN Tail(p) :
              /\ n \in Nat /\ n + 1 \in DOMAIN p /\ n + 1 # 1
              /\ Tail(p)[n] = p[n + 1]
         /\ \A n \in DOMAIN p :
              n = 1 \/ \E m \in DOMAIN Tail(p) : Tail(p)[m] = p[n]
<1>1. /\ Tail(p) \in Seq(S)
      /\ \A n \in DOMAIN Tail(p) :
           /\ n \in Nat /\ n + 1 \in DOMAIN p /\ n + 1 # 1
           /\ Tail(p)[n] = p[n + 1]
  OBVIOUS
<1>2. ASSUME NEW n \in DOMAIN p, n # 1
      PROVE  \E m \in DOMAIN Tail(p) : Tail(p)[m] = p[n]
  <2>1. n - 1 \in DOMAIN Tail(p) /\ Tail(p)[n - 1] = p[n]
    BY <1>2
  <2> QED BY <2>1
<1> QED BY <1>1, <1>2

\* The row locked is refreshed, so the copy shows what will be committed.
LEMMA WriteTypes ==
  ASSUME SessionsTypeOK, NEW s \in Sessions, Write(s)
  PROVE  SessionsTypeOK'
<1> USE DEF SessionsTypeOK
<1> DEFINE k == plan[s][1]
           row == Merged(Stored(k), copies[s][k].db, copies[s][k].now)
<1>1. /\ at[s] = "writing" /\ plan[s] # <<>>
      /\ held' = [held EXCEPT ![s] = With(@, k, row)]
      /\ copies' = [copies EXCEPT ![s][k] = Loaded(row)]
      /\ IF k \in Requests
           THEN at' = [at EXCEPT ![s] = "checking"] /\ UNCHANGED plan
           ELSE plan' = [plan EXCEPT ![s] = Tail(@)] /\ UNCHANGED at
      /\ UNCHANGED <<tables, call, entries, fresh>>
  BY DEF Write, Refreshed
<1>2. RowsOK(s)
  BY DEF SessionOK
<1>3. k \in DOMAIN copies[s] /\ Tail(plan[s]) \in Seq(DOMAIN copies[s])
  BY <1>1, <1>2 DEF RowsOK
<1>4. /\ k \in RowIds
      /\ k \in Tickets => Born(tickets[k])
      /\ copies[s][k].db \in RowSet(k) /\ copies[s][k].now \in RowSet(k)
  BY <1>2, <1>3 DEF RowsOK
<1>5. Stored(k) \in RowSet(k)
  BY <1>4, StoredType
<1>6. row \in RowSet(k)
  BY <1>4, <1>5, MergedType
<1> HIDE DEF row
<1>7. /\ DOMAIN copies'[s] = DOMAIN copies[s]
      /\ copies'[s][k] = Loaded(row)
      /\ \A j \in DOMAIN copies[s] : j # k => copies'[s][j] = copies[s][j]
      /\ plan'[s] \in Seq(DOMAIN copies[s])
      /\ at'[s] \in {"writing", "checking"}
  BY <1>1, <1>2, <1>3 DEF RowsOK
<1>8. /\ DOMAIN held'[s] = DOMAIN held[s] \cup {k}
      /\ held'[s][k] = row
      /\ \A j \in DOMAIN held[s] : j # k => held'[s][j] = held[s][j]
  BY <1>1 DEF With
<1>9. Local(s)
  BY <1>1 DEF Local, Others
<1>10. CallOK(s)' /\ LogTyped(entries[s])'
  BY <1>1, <1>7 DEF SessionOK, CallOK, Points, tables
<1>11. RowsOK(s)'
  <2>1. \A j \in DOMAIN copies'[s] : copies'[s][j] \in [db : RowSet(j), now : RowSet(j)]
    BY <1>2, <1>6, <1>7 DEF RowsOK, Loaded
  <2>2. \A j \in DOMAIN held'[s] : j \in DOMAIN copies[s] /\ held'[s][j] = copies'[s][j].now
    BY <1>2, <1>3, <1>7, <1>8 DEF RowsOK, Loaded
  <2> QED BY <1>1, <1>2, <1>7, <2>1, <2>2 DEF RowsOK, tables
<1>12. StageOK(s)'
  BY <1>1, <1>7 DEF SessionOK, StageOK
<1>13. PlanOK(s)'
  <2>1. PlanOK(s) /\ plan[s] \in Seq(DOMAIN copies[s])
    BY <1>2 DEF SessionOK, RowsOK
  <2>2. \A n \in DOMAIN plan[s] : n # 1 => plan[s][n] # k
    BY <1>1, <2>1 DEF PlanOK
  <2>3. \A j \in DOMAIN copies'[s] :
          j \in DOMAIN held'[s] \/ j \notin Planned(s) => copies'[s][j].now = copies'[s][j].db
    BY <1>7, <1>8, <2>1 DEF PlanOK, Loaded
  <2>4. CASE k \in Requests
    <3>1. plan'[s] = plan[s] /\ at'[s] = "checking" /\ Planned(s)' = Planned(s)
      BY <1>1, <2>4 DEF Planned
    <3> QED BY <1>1, <1>8, <2>1, <2>2, <2>3, <3>1 DEF PlanOK
  <2>5. CASE k \notin Requests
    <3>1. plan'[s] = Tail(plan[s]) /\ at'[s] = "writing"
      BY <1>1, <2>5
    <3>2. \A n \in DOMAIN Tail(plan[s]) :
            /\ n \in Nat /\ n + 1 \in DOMAIN plan[s] /\ n + 1 # 1
            /\ Tail(plan[s])[n] = plan[s][n + 1]
      BY <1>1, <2>1, TailOfPlan
    <3>3. \A n \in DOMAIN plan[s] :
            n = 1 \/ \E m \in DOMAIN Tail(plan[s]) : Tail(plan[s])[m] = plan[s][n]
      BY <1>1, <2>1, TailOfPlan
    <3>4. \A j \in Planned(s) : j = k \/ j \in Planned(s)'
      BY <3>1, <3>3 DEF Planned
    <3>5. \A m, n \in DOMAIN plan'[s] : plan'[s][m] = plan'[s][n] => m = n
      BY <2>1, <3>1, <3>2 DEF PlanOK
    <3>6. \A n \in DOMAIN plan'[s] : plan'[s][n] \notin DOMAIN held'[s]
      BY <1>1, <1>8, <2>1, <2>2, <3>1, <3>2 DEF PlanOK
    <3>7. k \in DOMAIN held'[s]
      BY <1>8
    <3> QED BY <2>3, <3>1, <3>4, <3>5, <3>6, <3>7 DEF PlanOK
  <2> QED BY <2>4, <2>5
<1> QED BY <1>9, <1>10, <1>11, <1>12, <1>13, LocalTypes DEF SessionOK

LEMMA CheckTypes ==
  ASSUME SessionsTypeOK, NEW s \in Sessions, Check(s)
  PROVE  SessionsTypeOK'
<1> USE DEF SessionsTypeOK
<1>1. /\ at[s] = "checking" /\ at'[s] = "writing"
      /\ plan'[s] = Tail(plan[s])
      /\ UNCHANGED <<tables, call, copies, held, entries, fresh>>
  BY DEF Check
<1>2. Local(s)
  BY <1>1 DEF Check, Local, Others
<1>3. Tail(plan[s]) \in Seq(DOMAIN copies[s])
  BY <1>1 DEF SessionOK, RowsOK, PlanOK
<1>4. CallOK(s)' /\ LogTyped(entries[s])' /\ StageOK(s)'
  BY <1>1 DEF SessionOK, CallOK, StageOK, Points, tables
<1>5. RowsOK(s)'
  BY <1>1, <1>3 DEF SessionOK, RowsOK, tables
<1>6. PlanOK(s)'
  <2>1. PlanOK(s) /\ plan[s] \in Seq(DOMAIN copies[s]) /\ plan[s] # <<>>
    BY <1>1 DEF SessionOK, RowsOK, PlanOK
  <2>2. \A n \in DOMAIN Tail(plan[s]) :
          /\ n \in Nat /\ n + 1 \in DOMAIN plan[s] /\ n + 1 # 1
          /\ Tail(plan[s])[n] = plan[s][n + 1]
    BY <2>1, TailOfPlan
  <2>3. \A n \in DOMAIN plan[s] :
          n = 1 \/ \E m \in DOMAIN Tail(plan[s]) : Tail(plan[s])[m] = plan[s][n]
    BY <2>1, TailOfPlan
  <2>4. \A j \in Planned(s) : j \in DOMAIN held[s] \/ j \in Planned(s)'
    BY <1>1, <2>1, <2>3 DEF Planned, PlanOK
  <2>5. \A m, n \in DOMAIN plan'[s] : plan'[s][m] = plan'[s][n] => m = n
    BY <1>1, <2>1, <2>2 DEF PlanOK
  <2>6. \A n \in DOMAIN plan'[s] : plan'[s][n] \notin DOMAIN held'[s]
    BY <1>1, <2>1, <2>2 DEF PlanOK
  <2>7. \A j \in DOMAIN copies'[s] :
          j \in DOMAIN held'[s] \/ j \notin Planned(s)' => copies'[s][j].now = copies'[s][j].db
    BY <1>1, <2>1, <2>4 DEF PlanOK
  <2> QED BY <1>1, <2>5, <2>6, <2>7 DEF PlanOK
<1> QED BY <1>2, <1>4, <1>5, <1>6, LocalTypes DEF SessionOK

\* return and start go on with a second part, for which their rows are there.
LEMMA AnswerTypes ==
  ASSUME SessionsTypeOK, NEW s \in Sessions, Answer(s)
  PROVE  SessionsTypeOK'
<1> USE DEF SessionsTypeOK
<1>1. /\ at[s] = "writing" /\ at'[s] # "checking"
      /\ plan[s] = <<>>
      /\ UNCHANGED <<tables, copies, plan, held, entries, fresh>>
  BY DEF Answer
<1>2. RowsOK(s)' /\ PlanOK(s)' /\ LogTyped(entries[s])'
  BY <1>1 DEF SessionOK, RowsOK, PlanOK, Planned, tables
<1>3. CASE at' = [at EXCEPT ![s] = "answered"] /\ UNCHANGED call
  <2>1. Local(s)
    BY <1>1, <1>3 DEF Local, Others
  <2>2. CallOK(s)' /\ StageOK(s)'
    BY <1>1, <1>3 DEF SessionOK, CallOK, StageOK, Points, tables
  <2> QED BY <1>2, <2>1, <2>2, LocalTypes DEF SessionOK
<1>4. ASSUME NEW op \in Continues(s),
             call' = [call EXCEPT ![s].op = op], at' = [at EXCEPT ![s] = "reading"]
      PROVE  SessionsTypeOK'
  <2>1. Local(s)
    BY <1>1, <1>4 DEF Local, Others
  <2>2. \/ call[s].op = "return" /\ op = "close_tickets"
        \/ call[s].op = "start" /\ op = "send_to_repair"
    BY <1>4 DEF Continues
  <2>3. call'[s] = [call[s] EXCEPT !.op = op] /\ at'[s] = "reading"
    BY <1>4
  <2>4. CallOK(s)'
    BY <1>1, <2>2, <2>3
       DEF SessionOK, CallOK, CallRow, WellFormed, RequestOps, TicketOps, Points, tables
  <2>5. StageOK(s)'
    BY <1>1, <2>2, <2>3 DEF SessionOK, CallOK, CallRow, RowsOK, StageOK
  <2> QED BY <1>2, <2>1, <2>4, <2>5, LocalTypes DEF SessionOK
<1> QED BY <1>3, <1>4 DEF Answer

LEMMA CommittedTrail ==
  ASSUME SessionsTypeOK, NEW s \in Sessions, Commit(s)
  PROVE  trail' \in [Items -> TrailRow]
<1>1. LogTyped(entries[s]) /\ trail \in [Items -> TrailRow]
  BY DEF SessionsTypeOK, SessionOK, TableTypes, TypeOK
<1>2. ASSUME NEW i \in DOMAIN entries[s], i \in Items
      PROVE  /\ AppendedEvent(trail[i], entries[s][i][2]) \in TrailRow
             /\ Appended(trail[i], entries[s][i][1], entries[s][i][2]) \in TrailRow
  <2>1. entries[s][i][2] \in DeviceStatuses \cup {Untold}
    BY <1>1 DEF LogTyped
  <2> QED BY <1>1, <1>2, <2>1 DEF AppendedEvent, Appended, TrailRow
<1> QED BY <1>1, <1>2 DEF Commit

LEMMA CommitTypes ==
  ASSUME SessionsTypeOK, NEW s \in Sessions, Commit(s)
  PROVE  SessionsTypeOK'
<1> USE DEF SessionsTypeOK
<1>1. RowsOK(s) /\ CallOK(s) /\ StageOK(s)
  BY DEF SessionOK
<1>2. \A k \in DOMAIN held[s] : k \in RowIds /\ held[s][k] \in RowSet(k)
  BY <1>1 DEF RowsOK
<1>3. /\ items' = Committed(s, items)
      /\ requests' = Committed(s, requests)
      /\ tickets' = Committed(s, tickets)
      /\ at[s] = "answered" /\ at' = [at EXCEPT ![s] = "done"]
      /\ held' = [held EXCEPT ![s] = NoRows]
      /\ entries' = [entries EXCEPT ![s] = NoRows]
      /\ fresh' = [o \in Sessions |-> fresh[o] /\ o = s]
      /\ UNCHANGED <<extensions, users, call, copies, plan>>
  BY DEF Commit
<1>4. TableTypes'
  <2>1. items' \in [Items -> LiveItem]
    BY <1>2, <1>3, RowsByTable DEF Committed, TableTypes
  <2>2. requests' \in [Requests -> RequestRow]
    BY <1>2, <1>3, RowsByTable DEF Committed, TableTypes, TypeOK
  <2>3. tickets' \in [Tickets -> LiveTicket \cup {NoTicket}]
    BY <1>2, <1>3, RowsByTable DEF Committed, TableTypes
  <2>4. LiveItem \subseteq ItemRow
    BY DEF LiveItem, ItemRow
  <2>5. LiveTicket \cup {NoTicket} \subseteq TicketRow
    <3>1. LiveTicket \subseteq TicketRow
      BY DEF LiveTicket, TicketRow
    <3>2. NoTicket \in TicketRow
      BY DEF TicketRow, NoTicket
    <3> QED BY <3>1, <3>2
  <2>6. items' \in [Items -> ItemRow] /\ tickets' \in [Tickets -> TicketRow]
    BY <2>1, <2>3, <2>4, <2>5
  <2> QED BY <1>3, <2>1, <2>2, <2>3, <2>6, CommittedTrail DEF TableTypes, TypeOK
<1>5. \A t \in Tickets : Born(tickets[t]) => Born(tickets'[t])
  <2> SUFFICES ASSUME NEW t \in Tickets, Born(tickets[t]) PROVE Born(tickets'[t])
    OBVIOUS
  <2>1. tickets'[t] = IF t \in DOMAIN held[s] THEN held[s][t] ELSE tickets[t]
    BY <1>3 DEF Committed, TableTypes
  <2>2. t \in DOMAIN held[s] => held[s][t] \in LiveTicket
    BY <1>2, RowsByTable
  <2> QED BY <2>1, <2>2 DEF Born, LiveTicket, SupportStatuses, Absent
<1>6. \A o \in Others(s) :
        UNCHANGED <<call[o], at[o], copies[o], plan[o], held[o], entries[o]>>
  BY <1>3 DEF Others
<1>7. \A o \in Others(s) : SessionOK(o)'
  BY <1>5, <1>6, SessionKept DEF Others
<1>8. SessionOK(s)'
  <2>1. DOMAIN held'[s] = {} /\ DOMAIN entries'[s] = {} /\ at'[s] = "done"
    BY <1>3 DEF NoRows
  <2>2. CallOK(s)'
    BY <1>1, <1>3, <1>5, <2>1 DEF CallOK, Points
  <2>3. RowsOK(s)'
    BY <1>1, <1>3, <1>5, <2>1 DEF RowsOK
  <2>4. PlanOK(s)'
    BY <1>3, <2>1 DEF SessionOK, PlanOK, Planned
  <2> QED BY <1>1, <1>3, <2>1, <2>2, <2>3, <2>4 DEF SessionOK, StageOK, LogTyped
<1>9. fresh' \in [Sessions -> BOOLEAN]
  BY <1>3
<1> QED BY <1>3, <1>4, <1>7, <1>8, <1>9 DEF Others

-----------------------------------------------------------------------------
(* Type correctness.                                                       *)

\* Every device exists, and every ticket that does is against a device.
LEMMA SeedLiveRows == SeedInit => TableTypes
<1> SUFFICES ASSUME SeedInit PROVE TableTypes
  OBVIOUS
<1>1. requests \in [Requests -> SeedRequests]
  BY DEF SeedInit
<1>2. items \in [Items -> LiveItem]
  <2> SUFFICES ASSUME NEW i \in Items PROVE items[i] \in LiveItem
    BY DEF SeedInit
  <2>1. items[i] \in SeedItem(i) /\ items[i] \in ItemRow
    BY <1>1, SeedItemType DEF SeedInit
  <2>2. items[i].status \in DeviceStatuses
    <3>1. CASE Lent(i)
      BY <2>1, <3>1 DEF SeedItem, LentStatuses, DeviceStatuses
    <3>2. CASE ~Lent(i)
      BY <2>1, <3>2, SeedAssumption DEF SeedItem, SpareStatuses, DeviceStatuses
    <3> QED BY <3>1, <3>2
  <2> QED BY <2>1, <2>2 DEF ItemRow, LiveItem
<1>3. ASSUME NEW ticket \in SeedTickets PROVE ticket \in LiveTicket \cup {NoTicket}
  <2>1. ticket \in TicketRow
    BY <1>1, <1>3, SeedTicketShape DEF TicketShape
  <2>2. ASSUME ticket.item \in Items, ticket.status \in SupportStatuses
        PROVE  ticket \in LiveTicket
    BY <2>1, <2>2 DEF TicketRow, LiveTicket
  <2> USE DEF NoTicket, SupportStatuses
  <2>3. CASE ticket \in LossTickets
    BY <2>2, <2>3 DEF LossTickets
  <2>4. ASSUME NEW r \in Requests, AtDesk(r), ticket \in DeskTickets(r)
        PROVE  ticket \in LiveTicket
    <3>1. requests[r].item \in Items
      BY <1>1, <2>4, LoanHasItem DEF AtDesk
    <3> QED BY <2>2, <2>4, <3>1 DEF DeskTickets
  <2>5. ASSUME NEW r \in Requests, InUse(r), ticket \in SwappedTickets(r)
        PROVE  ticket \in LiveTicket
    BY <2>2, <2>5 DEF SwappedTickets
  <2>6. ASSUME NEW r \in Requests, requests[r].status = "completed",
               ticket \in AutoClosedTickets(r)
        PROVE  ticket \in LiveTicket
    <3>1. requests[r].item \in Items
      BY <1>1, <2>6, LoanHasItem
    <3> QED BY <2>2, <2>6, <3>1 DEF AutoClosedTickets
  <2> QED BY <1>3, <2>3, <2>4, <2>5, <2>6 DEF SeedTickets
<1>4. tickets \in [Tickets -> LiveTicket \cup {NoTicket}]
  BY <1>3 DEF SeedInit
<1> QED BY <1>2, <1>4, SeedTypeOK DEF TableTypes

LEMMA InitSessionTypes == SessionsInit => SessionsTypeOK
<1> SUFFICES ASSUME SessionsInit PROVE SessionsTypeOK
  OBVIOUS
<1>1. TableTypes
  BY SeedLiveRows DEF SessionsInit
<1>2. ASSUME NEW s \in Sessions PROVE SessionOK(s)
  <2>1. /\ call[s] = NoCall /\ at[s] = "idle" /\ plan[s] = <<>>
        /\ DOMAIN copies[s] = {} /\ DOMAIN held[s] = {} /\ DOMAIN entries[s] = {}
    BY DEF SessionsInit, NoRows
  <2> QED BY <2>1
        DEF SessionOK, CallOK, CallRow, WellFormed, NoCall, Call, RequestOps, TicketOps, Points,
            RowsOK, PlanOK, StageOK, LogTyped
<1> QED BY <1>1, <1>2 DEF SessionsTypeOK, SessionsInit

LEMMA HandlerTypes ==
  ASSUME SessionsTypeOK, NEW s \in Sessions, Handler(s)
  PROVE  SessionsTypeOK'
BY DecisionTypes, AssignTypes, ShippingTypes, CascadeTypes, ChangeTypes, StartTypes,
   SendToRepairTypes, ResolveTypes DEF Handler

LEMMA NextSessionTypes == SessionsTypeOK /\ [SessionsNext]_vars => SessionsTypeOK'
<1> SUFFICES ASSUME SessionsTypeOK, [SessionsNext]_vars PROVE SessionsTypeOK'
  OBVIOUS
<1>1. CASE DetectDeadlock
  <2>1. PICK D \in SUBSET Sessions : Deadlocked(D) /\ \E s \in D : RollBack(s, "failed")
    BY <1>1 DEF DetectDeadlock
  <2>2. PICK s \in D : RollBack(s, "failed")
    BY <2>1
  <2>3. at[s] # "idle"
    BY <2>1 DEF Deadlocked, WaitsFor
  <2> QED BY <2>2, <2>3, RollBackTypes
<1>2. ASSUME NEW s \in Sessions, NEW m \in Messages, Begin(s, m) PROVE SessionsTypeOK'
  BY <1>2, BeginTypes
<1>3. ASSUME NEW s \in Sessions, Step(s) PROVE SessionsTypeOK'
  <2>1. CASE Collide(s)
    BY <2>1, RollBackTypes DEF Collide
  <2> QED BY <1>3, <2>1, ReadTypes, HandlerTypes, WriteTypes, CheckTypes, AnswerTypes,
             CommitTypes DEF Step
<1>4. ASSUME NEW s \in Sessions, Lose(s) PROVE SessionsTypeOK'
  BY <1>4, RollBackTypes DEF Lose, Running
<1>5. CASE UNCHANGED vars
  <2>1. /\ UNCHANGED <<items, requests, tickets, extensions, users, trail>>
        /\ UNCHANGED <<call, at, copies, plan, held, entries, fresh>>
    BY <1>5 DEF vars, sessions, tables
  <2>2. TableTypes'
    BY <2>1 DEF SessionsTypeOK, TableTypes, TypeOK
  <2>3. \A s \in Sessions : SessionOK(s)'
    BY <2>1, SessionKept DEF SessionsTypeOK
  <2> QED BY <2>1, <2>2, <2>3 DEF SessionsTypeOK
<1> QED BY <1>1, <1>2, <1>3, <1>4, <1>5 DEF SessionsNext

\* Whatever the sessions overlap and wherever they are rolled back, the tables
\* keep their types and every session works on rows of the right table, has
\* written only rows it has read, and shows of those what it has written.
THEOREM SessionsTypeCorrect == SessionsSafety => []SessionsTypeOK
BY InitSessionTypes, NextSessionTypes, PTL DEF SessionsSafety
=============================================================================
