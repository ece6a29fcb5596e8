--------------------------------- MODULE Sessions ---------------------------------
(***************************************************************************)
(* HTTP requests that overlap: each is served by a session of its own      *)
(* (app/db/session.py), one Postgres transaction at READ COMMITTED that    *)
(* reads rows without locking them, decides on its copies, writes them     *)
(* back row by row and commits.  The handlers are those of the services;   *)
(* the tables hold what is committed.  Row locks, the wait for a unique    *)
(* key and the deadlock detector are Postgres's.                           *)
(***************************************************************************)
EXTENDS Seed, Sequences, FiniteSets

CONSTANTS
  Sessions,     \* the sessions, each serving one HTTP request
  Operations    \* bound: the operations the clients call

AllOperations ==
  {"reject", "cancel", "escalate", "assign", "ship", "deliver", "return", "change",
   "start", "remote", "repair", "swap", "lost"}

RowIds == Items \cup Requests \cup Tickets

ASSUME SessionsAssumption ==
  /\ Operations \subseteq AllOperations
  /\ Items \cap Requests = {}
  /\ Items \cap Tickets = {}
  /\ Requests \cap Tickets = {}
  /\ None \notin RowIds
  /\ IsFiniteSet(Tickets)

VARIABLES
  call,      \* of each session: the operation and what the client sent
  at,        \* how far its handler is
  copies,    \* its identity map: rows as loaded (db) and as assigned to (now)
  plan,      \* the rows its flushes still have to write, in this order
  held,      \* the rows it has written and locked, with their new values
  entries,   \* the status changes it has logged, of a device <<from, to>>
  fresh      \* no other session has committed since it began

sessions == <<call, at, copies, plan, held, entries, fresh>>

vars == <<tables, sessions>>

Ended == {"done", "refused", "failed"}

Running(s) == at[s] \notin Ended \cup {"idle"}

-----------------------------------------------------------------------------
(* Rows.                                                                   *)

NoRows == [k \in {} |-> None]

\* The committed version of a row.
Stored(k) ==
  CASE k \in Items -> items[k]
    [] k \in Requests -> requests[k]
    [] k \in Tickets -> tickets[k]

Loaded(row) == [db |-> row, now |-> row]

\* An UPDATE that names every column.
Overwritten(base, db, now) == now

\* An UPDATE names the columns whose value the handler has changed; the
\* others keep what has been committed meanwhile.
Merged(base, db, now) ==
  [c \in DOMAIN base |-> IF now[c] # db[c] THEN now[c] ELSE base[c]]

\* A row without net changes is not written.  Requests and tickets always
\* have one: a decision or completion time.
Dirty(k, db, now) == k \in Items => now # db

With(rows, k, v) == [j \in DOMAIN rows \cup {k} |-> IF j = k THEN v ELSE rows[j]]

\* The orders in which rows may be written, flush after flush.  Within a flush
\* the unit of work orders tables and rows by no rule the handlers know of.
Orders(rows, flush) ==
  {p \in [1..Cardinality(rows) -> rows] :
     /\ \A k \in rows : \E n \in DOMAIN p : p[n] = k
     /\ \A m, n \in DOMAIN p : m < n => flush[p[m]] <= flush[p[n]]}

-----------------------------------------------------------------------------
(* Locks.                                                                  *)

Others(s) == Sessions \ {s}

Holders(s, k) == {o \in Others(s) : k \in DOMAIN held[o]}

\* An index on requests that wait for approval only.
ClashWhilePending(row1, row2) ==
  /\ row1.item # None
  /\ row1.status \in {"pending_mgr_approval", "pending_it_approval"}
  /\ <<row1.item, row1.status>> = <<row2.item, row2.status>>

\* The two rows would collide in uq_one_active_request_per_item.
Clash(row1, row2) ==
  /\ row1.item # None
  /\ ~Terminal(row1)
  /\ <<row1.item, row1.status>> = <<row2.item, row2.status>>

\* The request rows of a session whose new versions are in the index.
Indexed(s) ==
  {r \in Requests \cap DOMAIN held[s] : ~(at[s] = "checking" /\ plan[s][1] = r)}

\* Sessions in progress whose outcome decides whether the new version of r is
\* unique: they replace a version that clashes with it, or bring one.
Rivals(s, r) ==
  {o \in Others(s) : \E q \in Requests \cap DOMAIN held[o] :
     /\ q # r
     /\ \/ Clash(held[s][r], requests[q])
        \/ q \in Indexed(o) /\ Clash(held[s][r], held[o][q])}

\* A committed version that nobody is replacing clashes with it.
Duplicate(s, r) ==
  \E q \in Requests \ {r} :
    /\ Holders(s, q) = {}
    /\ Clash(held[s][r], IF q \in DOMAIN held[s] THEN held[s][q] ELSE requests[q])

WaitsFor(s) ==
  CASE at[s] = "writing" /\ plan[s] # <<>> -> Holders(s, plan[s][1])
    [] at[s] = "checking" /\ ~Duplicate(s, plan[s][1]) -> Rivals(s, plan[s][1])
    [] OTHER -> {}

\* A smallest set of sessions each of which waits for another one of the set.
Deadlocked(D) ==
  LET Stuck(E) == E # {} /\ \A s \in E : WaitsFor(s) \cap E # {} IN
  Stuck(D) /\ \A E \in SUBSET D : Stuck(E) => E = D

\* Rolling back without giving up the locks.
LocksAfterRollback(s) == held

\* A rollback takes the session's uncommitted rows and its locks away.
ReleasedBy(s) == [held EXCEPT ![s] = NoRows]

RollBack(s, outcome) ==
  /\ at' = [at EXCEPT ![s] = outcome]
  /\ held' = ReleasedBy(s)
  /\ copies' = [copies EXCEPT ![s] = NoRows]
  /\ plan' = [plan EXCEPT ![s] = <<>>]
  /\ entries' = [entries EXCEPT ![s] = NoRows]
  /\ UNCHANGED <<tables, call, fresh>>

-----------------------------------------------------------------------------
(* A call.                                                                 *)

Call(op, on, to, next) == [op |-> op, on |-> on, to |-> to, next |-> next]

\* What clients send, on the row of the URL: a device and a status in the
\* body where the operation takes them.
Messages ==
  {m \in
     {Call(op, r, None, None) :
        op \in {"reject", "cancel", "escalate", "ship", "deliver"}, r \in Requests}
     \cup {Call("assign", r, i, None) : r \in Requests, i \in Items}
     \cup {Call("return", r, None, next) : r \in Requests, next \in ReturnNextStatuses}
     \cup {Call("change", i, None, status) : i \in Items, status \in ManualStatuses}
     \cup {Call(op, t, None, None) :
             op \in {"start", "remote", "repair", "lost"}, t \in Tickets}
     \cup {Call("swap", t, i, next) : t \in Tickets, i \in Items, next \in SwapOutStatuses}
   : m.op \in Operations}

NoCall == Call("none", None, None, None)

Begin(s, m) ==
  /\ at[s] = "idle"
  /\ Born(Stored(m.on))
  /\ call' = [call EXCEPT ![s] = m]
  /\ at' = [at EXCEPT ![s] = "reading"]
  /\ fresh' = [fresh EXCEPT ![s] = TRUE]
  /\ UNCHANGED <<tables, copies, plan, held, entries>>

\* The rows a handler gets by id, in its order: those the call names and
\* those the row of the URL, once loaded, refers to.
Wanted(s) ==
  LET c == call[s]
      row == copies[s][c.on].now
  IN
  IF c.on \notin DOMAIN copies[s] THEN <<c.on>> ELSE
  CASE c.op = "assign" -> <<c.to>>
    [] c.op \in {"ship", "deliver", "return", "remote", "repair", "send_to_repair"} -> <<row.item>>
    [] c.op = "swap" -> <<row.item, c.to, row.request>>
    [] c.op = "lost" -> <<row.item, row.request>>
    [] OTHER -> <<>>

\* The places among them of the rows it has not loaded yet.
Unread(s) ==
  {n \in DOMAIN Wanted(s) : Wanted(s)[n] # None /\ Wanted(s)[n] \notin DOMAIN copies[s]}

\* A plain SELECT: it waits for nobody and sees what is committed.
Read(s) ==
  /\ at[s] = "reading"
  /\ \E n \in Unread(s) :
       /\ \A m \in Unread(s) : n <= m
       /\ LET k == Wanted(s)[n] IN
          copies' = [copies EXCEPT ![s] = With(@, k, Loaded(Stored(k)))]
  /\ UNCHANGED <<tables, call, at, plan, held, entries, fresh>>

\* What every handler does once it has read its rows: refuse, or assign the
\* new rows and flush, in the order of the flushes, the ones that changed.
Handle(s, accepts, rows, flush, logged) ==
  /\ at[s] = "reading"
  /\ Unread(s) = {}
  /\ IF accepts
       THEN /\ \E order \in Orders({k \in DOMAIN rows : Dirty(k, copies[s][k].db, rows[k])}, flush) :
                 plan' = [plan EXCEPT ![s] = order]
            /\ copies' = [copies EXCEPT ![s] =
                 [k \in DOMAIN @ |-> IF k \in DOMAIN rows THEN [@[k] EXCEPT !.now = rows[k]]
                                                         ELSE @[k]]]
            /\ entries' = [entries EXCEPT ![s] = logged]
            /\ at' = [at EXCEPT ![s] = "writing"]
            /\ UNCHANGED <<tables, call, held, fresh>>
       ELSE RollBack(s, "refused")

\* The handler's copy of a row.
Copy(s, k) == copies[s][k].now

Row(k, v) == [j \in {k} |-> v]

Rows(k1, v1, k2, v2) == With(Row(k1, v1), k2, v2)

\* One flush writes all the rows.
AtOnce(rows) == [k \in rows |-> 1]

Logs(i, from, to) == Row(i, <<from, to>>)

-----------------------------------------------------------------------------
(* The handlers, on the guards and assignments of the services.            *)

HandleDecision(s) ==
  LET r == call[s].on
      Decides(op, accepts, row) ==
        call[s].op = op /\ Handle(s, accepts, Row(r, row), AtOnce({r}), NoRows)
      req == Copy(s, r)
  IN
  \/ Decides("reject", Rejectable(req), RejectedRow(req))
  \/ Decides("cancel", Cancellable(req), CancelledRow(req))
  \/ Decides("escalate", Escalatable(req), EscalatedRow(req))

\* The overlap query is a read of its own, of what is committed by then.
HandleAssign(s) ==
  LET r == call[s].on
      i == call[s].to
      req == Copy(s, r)
  IN
  /\ call[s].op = "assign"
  /\ \E range \in BookingRange, wfh \in WfhChoices :
       Handle(s,
              /\ Assignable(req)
              /\ AssignableItem(Copy(s, i), req)
              /\ ~OverlapsAssigned(i, range, r),
              Rows(r, AssignedRow(req, i, range, wfh), i, OwnedRow(Copy(s, i), req.requester)),
              AtOnce({r, i}),
              Logs(i, "available", "assigned"))

HandleShipping(s) ==
  LET r == call[s].on
      req == Copy(s, r)
      i == req.item
      item == Copy(s, i)
      Moves(op, accepts, row, moved) ==
        /\ call[s].op = op
        /\ Handle(s, HasDevice(req) /\ accepts, Rows(r, row, i, moved), AtOnce({r, i}),
                  Logs(i, item.status, moved.status))
  IN
  \/ Moves("ship", Shippable(req, item), ShipRow(req), ShipItem(item))
  \/ Moves("deliver", Deliverable(item), DeliveredRow(req), DeliveredItem(item))
  \/ Moves("return", Returnable(item), CompletedRow(req), ReturnedItem(item, call[s].next))

\* The cascade of complete_return, after its first flush: the open tickets
\* of the device it loaded are queried, and each is written by a flush of
\* its own.
HandleCascade(s) ==
  LET found == UNION {OpenForItem(i) : i \in Items \cap DOMAIN copies[s]} IN
  /\ call[s].op = "close_tickets"
  /\ at[s] = "reading"
  /\ copies' = [copies EXCEPT ![s] =
       [k \in DOMAIN @ \cup found |->
          IF k \in found THEN [db |-> tickets[k], now |-> AutoClosed(tickets[k])] ELSE @[k]]]
  /\ \E order \in Orders(found, AtOnce(found)) : plan' = [plan EXCEPT ![s] = order]
  /\ at' = [at EXCEPT ![s] = "writing"]
  /\ UNCHANGED <<tables, call, held, entries, fresh>>

HandleChange(s) ==
  LET i == call[s].on
      item == Copy(s, i)
  IN
  /\ call[s].op = "change"
  /\ Handle(s, TRUE, Row(i, ChangedItem(item, call[s].next)), AtOnce({i}),
            Logs(i, item.status, call[s].next))

\* start flushes the ticket before it reads the device ...
HandleStart(s) ==
  LET t == call[s].on IN
  /\ call[s].op = "start"
  /\ Handle(s, Startable(Copy(s, t)), Row(t, StartedRow(Copy(s, t))), AtOnce({t}), NoRows)

\* ... that a damage ticket sends to repair.
HandleSendToRepair(s) ==
  LET i == Copy(s, call[s].on).item
      item == Copy(s, i)
  IN
  /\ call[s].op = "send_to_repair"
  /\ Handle(s, TRUE, Row(i, InRepairItem(item)), AtOnce({i}),
            Logs(i, item.status, "under_repair"))

\* resolve: the branch's flushes, then the ticket's.
HandleResolve(s) ==
  LET t == call[s].on
      ticket == Copy(s, t)
      i == ticket.item
      r == ticket.request
      new == call[s].to
      Resolves(op, accepts, rows, flush, logged, resolution) ==
        /\ call[s].op = op
        /\ Handle(s, Resolvable(ticket) /\ accepts,
                  With(rows, t, ResolvedRow(ticket, resolution, new)),
                  With(flush, t, 3), logged)
  IN
  \/ Resolves("remote", TRUE, NoRows, NoRows, NoRows, "remote_resolved")
  \/ Resolves("repair", Repairable(Copy(s, i)), Row(i, RepairedItem(Copy(s, i))), Row(i, 1),
              Logs(i, "under_repair", "assigned"), "repaired_in_place")
  \/ Resolves("swap", new # i /\ r # None /\ SwapTarget(Copy(s, new), Copy(s, i)),
              With(Rows(i, SwappedOutItem(Copy(s, i), call[s].next),
                        new, SwappedInItem(Copy(s, new), Copy(s, r))),
                   r, RepointedRow(Copy(s, r), new)),
              AtOnce({r, i, new}),
              With(Logs(i, Untold, Untold), new, <<Untold, "assigned">>), "swapped")
  \/ Resolves("lost", r # None,
              Rows(i, LostItem(Copy(s, i)), r, LostRow(Copy(s, r))), Rows(i, 1, r, 2),
              Logs(i, Copy(s, i).status, "lost"), "marked_lost")

-----------------------------------------------------------------------------
(* Flushing, answering and committing.                                     *)

\* What a copy shows after its row was written, without refreshing it.
Unrefreshed(copy, row) == [copy EXCEPT !.db = copy.now]

\* update: flush and refresh, which selects the row once more.
Refreshed(copy, row) == Loaded(row)

\* The UPDATE of one row: it waits until no other transaction holds the row,
\* and is applied to the version committed then.
Write(s) ==
  LET k == plan[s][1]
      copy == copies[s][k]
      row == Merged(Stored(k), copy.db, copy.now)
  IN
  /\ at[s] = "writing"
  /\ plan[s] # <<>>
  /\ Holders(s, k) = {}
  /\ held' = [held EXCEPT ![s] = With(@, k, row)]
  /\ copies' = [copies EXCEPT ![s][k] = Refreshed(copy, row)]
  /\ IF k \in Requests
       THEN at' = [at EXCEPT ![s] = "checking"] /\ UNCHANGED plan
       ELSE plan' = [plan EXCEPT ![s] = Tail(@)] /\ UNCHANGED at
  /\ UNCHANGED <<tables, call, entries, fresh>>

\* The insertion into the unique index, which waits for rivals ...
Check(s) ==
  /\ at[s] = "checking"
  /\ ~Duplicate(s, plan[s][1])
  /\ Rivals(s, plan[s][1]) = {}
  /\ at' = [at EXCEPT ![s] = "writing"]
  /\ plan' = [plan EXCEPT ![s] = Tail(@)]
  /\ UNCHANGED <<tables, call, copies, held, entries, fresh>>

\* ... and raises an IntegrityError, a 409 in assign and a 500 elsewhere.
Collide(s) ==
  /\ at[s] = "checking"
  /\ Duplicate(s, plan[s][1])
  /\ RollBack(s, IF call[s].op = "assign" THEN "refused" ELSE "failed")

\* Forgetting what comes after the first flush.
StopsAtOnce(s) == {}

\* The operations that go on after their first flush.
Continues(s) ==
  CASE call[s].op = "return" -> {"close_tickets"}
    [] call[s].op = "start" /\ Copy(s, call[s].on).type = "damage" -> {"send_to_repair"}
    [] OTHER -> {}

\* The handler returns: FastAPI sends the answer and only then runs the rest
\* of get_db_session.
Answer(s) ==
  /\ at[s] = "writing"
  /\ plan[s] = <<>>
  /\ \/ /\ Continues(s) = {}
        /\ at' = [at EXCEPT ![s] = "answered"]
        /\ UNCHANGED call
     \/ \E op \in Continues(s) :
          /\ call' = [call EXCEPT ![s].op = op]
          /\ at' = [at EXCEPT ![s] = "reading"]
  /\ UNCHANGED <<tables, copies, plan, held, entries, fresh>>

Committed(s, table) == [k \in DOMAIN table |-> IF k \in DOMAIN held[s] THEN held[s][k] ELSE table[k]]

Commit(s) ==
  /\ at[s] = "answered"
  /\ items' = Committed(s, items)
  /\ requests' = Committed(s, requests)
  /\ tickets' = Committed(s, tickets)
  /\ trail' = [i \in Items |->
       IF i \in DOMAIN entries[s]
         THEN LET e == entries[s][i] IN
              IF e[1] = Untold THEN AppendedEvent(trail[i], e[2]) ELSE Appended(trail[i], e[1], e[2])
         ELSE trail[i]]
  /\ at' = [at EXCEPT ![s] = "done"]
  /\ held' = [held EXCEPT ![s] = NoRows]
  /\ entries' = [entries EXCEPT ![s] = NoRows]
  /\ fresh' = [o \in Sessions |-> fresh[o] /\ o = s]
  /\ UNCHANGED <<extensions, users, call, copies, plan>>

\* Postgres breaks a deadlock by failing one of its sessions, any of them.
DetectDeadlock ==
  \E D \in SUBSET Sessions : Deadlocked(D) /\ \E s \in D : RollBack(s, "failed")

\* The connection, or the server process, is lost.
Lose(s) == Running(s) /\ RollBack(s, "failed")

-----------------------------------------------------------------------------
SessionsInit ==
  /\ SeedInit
  /\ call = [s \in Sessions |-> NoCall]
  /\ at = [s \in Sessions |-> "idle"]
  /\ copies = [s \in Sessions |-> NoRows]
  /\ plan = [s \in Sessions |-> <<>>]
  /\ held = [s \in Sessions |-> NoRows]
  /\ entries = [s \in Sessions |-> NoRows]
  /\ fresh = [s \in Sessions |-> FALSE]

Handler(s) ==
  \/ HandleDecision(s)
  \/ HandleAssign(s)
  \/ HandleShipping(s)
  \/ HandleCascade(s)
  \/ HandleChange(s)
  \/ HandleStart(s)
  \/ HandleSendToRepair(s)
  \/ HandleResolve(s)

\* What the server and the database do for a session by themselves.
Step(s) ==
  \/ Read(s)
  \/ Handler(s)
  \/ Write(s)
  \/ Check(s)
  \/ Collide(s)
  \/ Answer(s)
  \/ Commit(s)

SessionsNext ==
  \/ DetectDeadlock
  \/ \E s \in Sessions :
       \/ \E m \in Messages : Begin(s, m)
       \/ Step(s)
       \/ Lose(s)

SessionsSafety == SessionsInit /\ [][SessionsNext]_vars

\* The event loop runs every handler that can go on, Postgres grants a lock
\* once it is free and looks for deadlocks after deadlock_timeout.  Clients
\* need not call, and connections need not be lost.
SessionsSpec ==
  /\ SessionsSafety
  /\ \A s \in Sessions : WF_vars(Step(s))
  /\ WF_vars(DetectDeadlock)

-----------------------------------------------------------------------------
(* Properties.                                                             *)

\* However assignments, swaps and decisions overlap, no two requests are
\* committed with one device and one active status: the unique index holds
\* although every handler checks on stale copies (assignment_service.py,
\* the overlap query before the flush).  Why: a row has at most one writer,
\* and no version that may still be committed clashes with another one.
LocksExclude ==
  \A s1, s2 \in Sessions : s1 # s2 => DOMAIN held[s1] \cap DOMAIN held[s2] = {}

IndexInvariant ==
  /\ LocksExclude
  /\ UniqueActive(requests)
  /\ \A s \in Sessions : \A r \in Indexed(s) : \A q \in Requests \ {r} :
       /\ q \notin DOMAIN held[s] => ~Clash(held[s][r], requests[q])
       /\ \A o \in Sessions : q \in Indexed(o) => ~Clash(held[s][r], held[o][q])

\* A call during which no other one committed has the effect of the atomic
\* action of its service, whatever others are doing uncommitted: reading
\* without locks and writing in several flushes shows in races only.
UndisturbedCallsAreAtomic ==
  [][\A s \in Sessions :
       at[s] = "answered" /\ at'[s] = "done" /\ fresh[s] => Next]_vars

\* What the caller was told of the row it addressed is what the database has
\* when the session commits, other sessions' columns included (repositories
\* refresh the entity after each flush).
AnswersAreCommitted ==
  [][\A s \in Sessions :
       at[s] = "answered" /\ at'[s] = "done" /\ call[s].on \in DOMAIN held[s] =>
         copies[s][call[s].on].now = Stored(call[s].on)']_vars

\* The shipping marks of a request survive every call that overlaps the one
\* that set them: writers name only the columns they changed.
ShippingMarksStick ==
  [][\A r \in Requests :
       /\ requests[r].ship_initiated => requests'[r].ship_initiated
       /\ requests[r].ship_completed => requests'[r].ship_completed]_vars

\* Every call ends, by a commit, a refusal or a failure: sessions that wait
\* for each other's rows or keys do not wait forever.
EveryCallEnds ==
  \A s \in Sessions : at[s] = "reading" ~> at[s] \in Ended
=============================================================================
