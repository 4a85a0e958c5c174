----------------------------- MODULE OrderSync -----------------------------
(***************************************************************************)
(* app/services/order_sync.py: sync_sim_orders.  The open orders and the   *)
(* deals are read once (BeginOrderSync); the local orders are then visited *)
(* in id order, one action each, against that reading, while the broker    *)
(* goes on.  The session commits once, at the end: until then the visits   *)
(* change the rows in memory, saved is what the database still holds, and  *)
(* a run that dies or raises goes back to it, but not on its cancels.      *)
(***************************************************************************)
EXTENDS TradeLedger

CONSTANT DealsSupported  \* get_deals() answers (Futu simulation does not)

BeginOrderSync ==
  /\ pc = "idle"
  /\ pc' = "orders"
  /\ \E lost \in OutOfSight :
       rows' = [i \in Orders |-> IF i \in lost THEN [remote[i] EXCEPT !.status = "NONE"]
                                              ELSE remote[i]]
  /\ saved' = [orders |-> orders, position |-> position, plan |-> plan, doomed |-> FALSE]
  /\ todo' = {i \in Orders : orders[i].status \in ReconcileStatuses}
  /\ UNCHANGED <<tables, broker, capital, context, history>>

----------------------------------------------------------------------------
(* _open_or_close_position: what a fill does to the position and the plan. *)
(* The session does not autoflush (app/db.py), so its queries see the      *)
(* database: they miss a row this very sync has added or reopened.         *)

InDatabase(s) == saved.position[s].status # "NONE"

BoughtPosition(o, dealt) ==
  LET old == position[o.symbol]
      size == DealtOr(dealt, o.qty)
  IN IF InDatabase(o.symbol)
     THEN [old EXCEPT !.status = "OPEN", !.plan = o.plan]
     ELSE [NoPosition EXCEPT !.status = "OPEN", !.shares = size, !.available = size,
                             !.plan = o.plan]

SoldPosition(o, dealt) ==
  LET old == position[o.symbol]
      sold == DealtOr(dealt, o.qty)
      left == AtLeastZero(old.shares - sold)
      base == [old EXCEPT !.shares = left,
                          !.available = AtLeastZero(old.available - sold)]
  IN IF saved.position[o.symbol].status # "OPEN" THEN old
     ELSE IF left = 0 THEN [base EXCEPT !.status = "CLOSED", !.verified = TRUE]
     ELSE [base EXCEPT !.partial = @ \/ o.reason = "TARGET_1_PARTIAL"]

\* A second new row of one symbol breaks the unique symbol at the commit.
AddsRowTwice(o) ==
  o.side = "BUY" /\ ~InDatabase(o.symbol) /\ position[o.symbol].status # "NONE"

ApplyFill(o, dealt) ==
  /\ position' = [position EXCEPT ![o.symbol] =
        IF o.side = "BUY" THEN BoughtPosition(o, dealt) ELSE SoldPosition(o, dealt)]
  /\ plan' = IF o.side = "BUY"
             THEN [plan EXCEPT ![o.plan].status = "IN_POSITION"] ELSE plan
  /\ saved' = [saved EXCEPT !.doomed = @ \/ AddsRowTwice(o)]

----------------------------------------------------------------------------
(* The visit of one order. *)

Returned(i) == rows[i].status # "NONE"
ReadStatus(i) == NormalizeStatus[rows[i].status]

\* The row after the status and the dealt quantity of the reading are copied.
\* The age of an order that is over is of no use any more.
Refreshed(i) ==
  IF Returned(i)
  THEN [orders[i] EXCEPT !.status = ReadStatus(i), !.dealt = rows[i].filled,
                         !.age = IF ReadStatus(i) \in ReconcileStatuses THEN @ ELSE 0]
  ELSE orders[i]

Visited(i) == /\ pc = "orders" /\ todo # {} /\ i = First(todo)
              /\ todo' = todo \ {i}
              /\ UNCHANGED <<issues, gate, dayEntries, held, reserved,
                             pc, rows, capital, context, history>>

SyncFilled(i) ==
  /\ Visited(i)
  /\ Refreshed(i).status = "FILLED"
  /\ orders' = [orders EXCEPT ![i] = Refreshed(i)]
  /\ ApplyFill(orders[i], rows[i].filled)
  /\ UNCHANGED remote

TimedOut(i) == Refreshed(i).status = "SUBMITTED" /\ orders[i].age > 0

\* A row that is not filled, nor a SUBMITTED order over its time.
SyncRefreshed(i) ==
  /\ Visited(i)
  /\ Refreshed(i).status # "FILLED" /\ ~TimedOut(i)
  /\ orders' = [orders EXCEPT ![i] = Refreshed(i)]
  /\ UNCHANGED <<position, plan, saved, remote>>

\* An exit over its time waits for the reconciliation; its reason grows.
SyncSellTimedOut(i) ==
  /\ Visited(i)
  /\ TimedOut(i) /\ orders[i].side = "SELL"
  /\ orders' = [orders EXCEPT ![i] =
       [Refreshed(i) EXCEPT !.status = "SELL_WAITING_RECONCILIATION",
          !.reason = IF @ = "TARGET_1_PARTIAL" THEN "TARGET_1_PARTIAL_WAITING" ELSE @]]
  /\ UNCHANGED <<position, plan, saved, remote>>

\* An entry over its time is cancelled ...
SyncBuyCancelled(i) ==
  /\ Visited(i)
  /\ TimedOut(i) /\ orders[i].side = "BUY"
  /\ RemoteLive(i)
  /\ remote' = [remote EXCEPT ![i].status = "CANCELLED_ALL"]
  /\ orders' = [orders EXCEPT ![i] = [Refreshed(i) EXCEPT !.status = "CANCELLED",
                                                           !.age = 0]]
  /\ plan' = [plan EXCEPT ![orders[i].plan].status = "ARMED"]
  /\ UNCHANGED <<position, saved>>

\* ... unless the broker answers that it does not exist ...
SyncBuyMissing(i) ==
  /\ Visited(i)
  /\ TimedOut(i) /\ orders[i].side = "BUY"
  /\ ~Returned(i)
  /\ orders' = [orders EXCEPT ![i] = [Refreshed(i) EXCEPT !.status = "UNKNOWN_REMOTE_MISSING"]]
  /\ UNCHANGED <<position, plan, saved, remote>>

\* Mutant: the entry counts as cancelled although the broker did not cancel it.
SyncBuyCancelFailedEndsIt(i) ==
  /\ Visited(i)
  /\ TimedOut(i) /\ orders[i].side = "BUY"
  /\ orders' = [orders EXCEPT ![i] = [Refreshed(i) EXCEPT !.status = "CANCELLED"]]
  /\ UNCHANGED <<position, plan, saved, remote>>

\* ... or refuses for any other reason.
SyncBuyCancelFailed(i) ==
  /\ Visited(i)
  /\ TimedOut(i) /\ orders[i].side = "BUY"
  /\ orders' = [orders EXCEPT ![i] = Refreshed(i)]
  /\ UNCHANGED <<position, plan, saved, remote>>

----------------------------------------------------------------------------
(* The deals of one order that have no SimDeal row yet.  The sum of the    *)
(* booked deals comes from the database, so each new deal of the reading   *)
(* is added to the same booked sum: last is the size of the last one, the  *)
(* whole unbooked quantity if there is only one.                           *)

Unbooked == {i \in Orders : InTable(i) /\ rows[i].filled > orders[i].booked}

BeginDealSync ==
  /\ pc = "orders" /\ todo = {} /\ DealsSupported
  /\ pc' = "deals" /\ todo' = Unbooked
  /\ UNCHANGED <<tables, broker, sync, capital, context, history>>

\* Mutant: off by one in dealt_qty >= qty.
SyncDealsTooEarly(i, last) ==
  /\ pc = "deals" /\ todo # {} /\ i = First(todo)
  /\ last \in 1 .. rows[i].filled - orders[i].booked
  /\ todo' = todo \ {i}
  /\ LET dealt == orders[i].booked + last
         booked == [orders[i] EXCEPT !.dealt = dealt, !.booked = rows[i].filled]
     IN IF dealt + 1 >= orders[i].qty
        THEN /\ orders' = [orders EXCEPT ![i] = [booked EXCEPT !.status = "FILLED", !.age = 0]]
             /\ ApplyFill(orders[i], dealt)
        ELSE /\ orders' = [orders EXCEPT ![i] = booked]
             /\ UNCHANGED <<position, plan, saved>>
  /\ UNCHANGED <<issues, gate, dayEntries, broker, pc, rows, capital, context, history>>

SyncDeals(i, last) ==
  /\ pc = "deals" /\ todo # {} /\ i = First(todo)
  /\ last \in 1 .. rows[i].filled - orders[i].booked
  /\ todo' = todo \ {i}
  /\ LET dealt == orders[i].booked + last
         booked == [orders[i] EXCEPT !.dealt = dealt, !.booked = rows[i].filled]
     IN IF dealt >= orders[i].qty
        THEN /\ orders' = [orders EXCEPT ![i] = [booked EXCEPT !.status = "FILLED", !.age = 0]]
             /\ ApplyFill(orders[i], dealt)
        ELSE /\ orders' = [orders EXCEPT ![i] = booked]
             /\ UNCHANGED <<position, plan, saved>>
  /\ UNCHANGED <<issues, gate, dayEntries, broker, pc, rows, capital, context, history>>

----------------------------------------------------------------------------
(* The commit, and the two ways to miss it. *)

VisitsDone == todo = {} /\ pc = IF DealsSupported THEN "deals" ELSE "orders"

CommitOrderSync ==
  /\ VisitsDone /\ ~saved.doomed
  /\ pc' = "positions" /\ rows' = NoRows /\ saved' = NothingSaved
  /\ UNCHANGED <<tables, broker, todo, capital, context, history>>

RolledBack ==
  /\ orders' = saved.orders /\ position' = saved.position /\ plan' = saved.plan
  /\ LoopOver
  /\ UNCHANGED <<issues, gate, dayEntries, broker>>

\* The commit raises; run_sim_loop does not catch it and the loop is over.
OrderSyncRaises == VisitsDone /\ saved.doomed /\ RolledBack

CrashInOrderSync == pc \in {"orders", "deals"} /\ RolledBack

SyncOrder ==
  \/ BeginOrderSync
  \/ \E i \in Orders : \/ SyncFilled(i) \/ SyncRefreshed(i)
                       \/ SyncSellTimedOut(i) \/ SyncBuyCancelled(i)
                       \/ SyncBuyMissing(i) \/ SyncBuyCancelFailed(i)
                       \/ \E last \in 1 .. EntryQty : SyncDeals(i, last)
  \/ BeginDealSync
  \/ CommitOrderSync
  \/ OrderSyncRaises
=============================================================================
