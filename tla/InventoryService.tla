----------------------------- MODULE InventoryService -----------------------------
(***************************************************************************)
(* app/services/inventory_service.py: IT adds devices, edits them and sets *)
(* their status by hand.                                                   *)
(***************************************************************************)
EXTENDS Store

NewItem(c) == [status |-> "available", category |-> c, owner |-> None]

\* create_item; the serial number, unique in the table, is the id.
CreateItem(i, c) ==
  /\ ~Born(items[i])
  /\ items' = [items EXCEPT ![i] = NewItem(c)]
  /\ trail' = [trail EXCEPT ![i] = AppendedEvent(@, "available")]
  /\ UNCHANGED <<requests, tickets, extensions, users>>

\* edit_item: of the editable fields only the category is ever read back.
EditItem(i, c) ==
  /\ Born(items[i])
  /\ c # items[i].category
  /\ items' = [items EXCEPT ![i].category = c]
  /\ UNCHANGED <<requests, tickets, extensions, users, trail>>

\* change_status: no guard, and neither the owner nor any request follows.
ChangedItem(item, status) == [item EXCEPT !.status = status]

ChangeStatus(i, status) ==
  /\ Born(items[i])
  /\ items' = [items EXCEPT ![i] = ChangedItem(@, status)]
  /\ trail' = [trail EXCEPT ![i] = Appended(@, items[i].status, status)]
  /\ UNCHANGED <<requests, tickets, extensions, users>>

InventoryServiceStep ==
  \E i \in Items :
    \/ \E c \in Categories : CreateItem(i, c) \/ EditItem(i, c)
    \/ \E status \in ManualStatuses : ChangeStatus(i, status)
=============================================================================
