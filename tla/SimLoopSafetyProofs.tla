------------------------ MODULE SimLoopSafetyProofs ------------------------
(***************************************************************************)
(* Guarantees of the loop for every value of its constants.                *)
(*                                                                         *)
(*  - An order the table calls over is over at the broker.                 *)
(*  - The exits at the broker are covered by the shares it holds, where    *)
(*    position syncs succeed; then the loop implements a long-only account.*)
(*  - A managed position follows a filled entry of its plan if the entries *)
(*    that position syncs infer were filled; and they were, where readings *)
(*    leave no order out, no answer is lost and no loop dies.              *)
(*  - A position bought once is closed as verified only with a filled      *)
(*    exit of its own.                                                     *)
(*                                                                         *)
(* The first two hold although a reading of the broker may be old or leave *)
(* orders out, and a sync may be undone.                                   *)
(***************************************************************************)
EXTENDS EntryGateProofs, FiniteSetTheorems, WellFoundedInduction

----------------------------------------------------------------------------
(* The inductive invariant of DeadOrdersAreDead *)

Syncing == pc \in {"orders", "deals"}
Dead == {"FILLED", "CANCELLED", "FAILED"}

\* An order has not bought or sold more than it is for, and less while it lives.
OrdersFit ==
  \A i \in Orders : /\ remote[i].filled <= orders[i].qty
                    /\ RemoteLive(i) => remote[i].filled < orders[i].qty
                    /\ remote[i].status = "FILLED_ALL" => remote[i].filled > 0

\* The broker is never behind what this sync has read of it, and an order that was
\* read as over has not changed since.
ReadingsLag ==
  /\ ~Syncing => rows = NoRows
  /\ \A i \in Orders :
       /\ rows[i].filled <= remote[i].filled
       /\ rows[i].status \in {"FILLED_ALL", "CANCELLED_ALL", "FAILED"} =>
            rows[i].status = remote[i].status
       /\ rows[i].status = "FILLED_ALL" => rows[i].filled > 0

\* What the database holds during a sync differs from the rows in memory neither
\* in the terms of an order nor in that what is over there is over.
SavedOrdersFit ==
  Syncing => \A i \in Orders :
    /\ saved.orders[i].qty = orders[i].qty
    /\ saved.orders[i].symbol = orders[i].symbol /\ saved.orders[i].side = orders[i].side
    /\ saved.orders[i].plan = orders[i].plan
    /\ saved.orders[i].status \in Dead => ~RemoteLive(i)

DeadInv == OrdersFit /\ ReadingsLag /\ SavedOrdersFit /\ DeadOrdersAreDead

----------------------------------------------------------------------------
(* The inductive invariant of NeverOversold, where position syncs succeed *)

\* The phases in which a row may still be sold by, and the row has its turn to come.
Trading == pc \in {"reconcile", "save", "manage"}
Guarded(s) == pc \in {"reconcile", "save"} \/ (pc = "manage" /\ s \in todo)

\* No position sync has seen the row.
OwnRow(s) == position[s].source = "LOCAL_STRATEGY"
Bought(s) == \E i \in Orders : orders[i].symbol = s /\ remote[i].filled > 0

\* Nothing of a symbol is sold before a position sync has seen it, so what its
\* entries bought is still there.
OwnRowsAreHeld ==
  \A s \in Symbols :
    /\ position[s].status = "NONE" => OwnRow(s)
    /\ OwnRow(s) => /\ \A i \in Orders : orders[i].symbol = s => orders[i].side = "BUY"
                    /\ held[s] >= 0
                    /\ Bought(s) => held[s] > 0
                    /\ position[s].status # "NONE" => held[s] > 0

\* An order sync neither gives a row a source nor takes one away.
SavedRowsFit ==
  Syncing => \A s \in Symbols :
    /\ saved.position[s].source = position[s].source
    /\ IF saved.position[s].status = "NONE" THEN OwnRow(s) ELSE position[s].status # "NONE"

\* What the table calls filled did buy or sell shares, a table rolled back included.
FillsAreReal ==
  \A i \in Orders :
    \/ remote[i].filled > 0
    \/ /\ orders[i].status # "FILLED"
       /\ Syncing => saved.orders[i].status # "FILLED"

\* After the position sync an open row is one it has seen, and the row does not
\* offer more shares than are there and not yet for sale.
RowsAreCovered ==
  \A s \in Symbols :
    position[s].status = "OPEN" =>
      /\ Trading => ~OwnRow(s)
      /\ Guarded(s) /\ position[s].available > 0 =>
           position[s].available <= held[s] - reserved[s]

SaleInv ==
  /\ OwnRowsAreHeld /\ SavedRowsFit /\ FillsAreReal /\ RowsAreCovered /\ NeverOversold

----------------------------------------------------------------------------
(* Steps of one kind *)

\* The terms of the orders, and what the broker has, are as before.
SameTerms ==
  \A i \in Orders : /\ orders'[i].qty = orders[i].qty
                    /\ orders'[i].symbol = orders[i].symbol
                    /\ orders'[i].side = orders[i].side
                    /\ orders'[i].plan = orders[i].plan

\* The steps outside the syncs that place no order, the end of a run included.
Quiet ==
  \/ SyncPositionsFails
  \/ \E lost \in OutOfSight : \/ Reconcile(lost, DealsSupported)
                             \/ ReconcileRunFails(lost, DealsSupported)
  \/ ReconcileAccountFails \/ SaveGate
  \/ \E s \in Symbols : HoldPosition(s)
  \/ EndManage \/ ReadPortfolio \/ ValidatePlans
  \/ \E p \in Plans : \/ RejectByRules(p) \/ MissByCapital(p)
                      \/ RejectByReconciliation(p) \/ Approve(p)
                      \/ SkipEntry(p) \/ EntryRefused(p)
  \/ EndApprovals \/ EndLoop
  \/ NewDay
  \/ pc \notin {"idle", "orders", "deals"} /\ LoopOver /\ UNCHANGED <<tables, broker>>
  \/ \E pool \in Pools : GeneratePlans(pool)

Visit(i) ==
  \/ SyncFilled(i) \/ SyncRefreshed(i) \/ SyncSellTimedOut(i) \/ SyncBuyCancelled(i)
  \/ SyncBuyMissing(i) \/ SyncBuyCancelFailed(i)
  \/ \E last \in 1 .. EntryQty : SyncDeals(i, last)

\* An order reaches the broker: of these rows, with more to fill than nothing.
Placing(i, row) ==
  /\ i \in Unused /\ ~Syncing /\ ~Syncing'
  /\ orders' = [orders EXCEPT ![i] = row]
  /\ remote' = [remote EXCEPT ![i] = [status |-> "SUBMITTED", filled |-> 0]]
  /\ row \in OrderRow /\ row.status \in {"SUBMITTED", "LOST"} /\ row.qty > 0
  /\ UNCHANGED <<position, held>>
  /\ rows' = rows \/ rows' = NoRows

(* Outside the order sync and the placements, neither an order nor a position is written. *)
LEMMA QuietFrame ==
  ASSUME Quiet
  PROVE  /\ UNCHANGED <<orders, position, broker>> /\ ~Syncing /\ ~Syncing'
         /\ rows' = rows \/ rows' = NoRows
<1> USE DEF Syncing, tables, broker, sync, loop, history, LoopOver
<1>1. CASE SyncPositionsFails \/ ReconcileAccountFails \/ SaveGate
  BY <1>1 DEF SyncPositionsFails, ReconcileAccountFails, SaveGate
<1>2. CASE \E lost \in OutOfSight : \/ Reconcile(lost, DealsSupported)
                                   \/ ReconcileRunFails(lost, DealsSupported)
  BY <1>2 DEF Reconcile, ReconcileRunFails
<1>3. CASE (\E s \in Symbols : HoldPosition(s)) \/ EndManage \/ ReadPortfolio \/ ValidatePlans
  BY <1>3 DEF HoldPosition, Managing, EndManage, ReadPortfolio, ValidatePlans
<1>4. CASE \E p \in Plans : \/ RejectByRules(p) \/ MissByCapital(p)
                            \/ RejectByReconciliation(p) \/ Approve(p)
                            \/ SkipEntry(p) \/ EntryRefused(p)
  BY <1>4 DEF RejectByRules, MissByCapital, RejectByReconciliation, Approve, Deciding,
              SkipEntry, EntryRefused, Executing
<1>5. CASE EndApprovals \/ EndLoop \/ NewDay \/ \E pool \in Pools : GeneratePlans(pool)
  BY <1>5 DEF EndApprovals, EndLoop, NewDay, GeneratePlans
<1>6. CASE pc \notin {"idle", "orders", "deals"} /\ LoopOver /\ UNCHANGED <<tables, broker>>
  BY <1>6
<1> QED BY <1>1, <1>2, <1>3, <1>4, <1>5, <1>6 DEF Quiet

\* Every step is of one of these kinds.
LEMMA Kinds ==
  ASSUME Next
  PROVE  \/ BeginOrderSync \/ \E i \in Orders : Visit(i)
         \/ BeginDealSync \/ CommitOrderSync
         \/ Syncing /\ RolledBack
         \/ SyncPositions \/ Quiet
         \/ \E s \in Symbols, reason \in ExitReasons :
              SendExit(s, reason) \/ ExitAnswerLost(s, reason) \/ CrashAfterExit(s, reason)
         \/ \E p \in Plans : PlaceEntry(p) \/ EntryAnswerLost(p) \/ CrashAfterEntry(p)
         \/ Broker \/ Tick
<1>1. CASE SyncOrder
  <2>1. OrderSyncRaises => Syncing /\ RolledBack
    BY DEF OrderSyncRaises, VisitsDone, Syncing
  <2> QED BY <1>1, <2>1 DEF SyncOrder, Visit
<1>2. CASE LoopStep /\ ~SyncOrder
  BY <1>2 DEF LoopStep, Quiet
<1>3. CASE Crash
  BY <1>3 DEF Crash, CrashInOrderSync, Syncing, Quiet
<1>4. CASE Broker \/ Tick \/ NewDay \/ \E pool \in Pools : GeneratePlans(pool)
  BY <1>4 DEF Quiet
<1> QED BY <1>1, <1>2, <1>3, <1>4 DEF Next

----------------------------------------------------------------------------
(* How each kind of step touches the orders *)

(* No order at the start, so none that is dead. *)
LEMMA InitSafe == Init => DeadInv
<1> SUFFICES ASSUME Init PROVE DeadInv
  OBVIOUS
<1>1. \A i \in Orders : /\ remote[i] = [status |-> "NONE", filled |-> 0] /\ rows[i] = remote[i]
                        /\ orders[i].status = "NONE" /\ orders[i].qty = 0
  BY DEF Init, NoRows, NoOrderRow
<1>2. OrdersFit /\ ReadingsLag /\ DeadOrdersAreDead
  BY <1>1 DEF Init, OrdersFit, ReadingsLag, DeadOrdersAreDead, RemoteLive
<1>3. ~Syncing
  BY DEF Init, Syncing
<1> QED BY <1>2, <1>3 DEF DeadInv, SavedOrdersFit

\* A row after its reading keeps its terms, and its status if nothing was returned.
LEMMA RefreshedTerms ==
  ASSUME TypeOK, NEW i \in Orders
  PROVE  /\ Refreshed(i).qty = orders[i].qty /\ Refreshed(i).symbol = orders[i].symbol
         /\ Refreshed(i).side = orders[i].side /\ Refreshed(i).plan = orders[i].plan
         /\ Refreshed(i).status = IF Returned(i) THEN ReadStatus(i) ELSE orders[i].status
         /\ Refreshed(i) \in OrderRow
<1>1. orders[i] \in OrderRow
  BY DEF TypeOK, TablesTypeOK
<1> QED BY <1>1, RefreshedType DEF Refreshed, OrderRow

\* The visit of an order leaves the other rows alone, and of the broker's orders
\* changes at most the one it cancels.
LEMMA VisitFrame ==
  ASSUME TypeOK, NEW i \in Orders, Visit(i)
  PROVE  /\ Syncing /\ Syncing' /\ rows' = rows /\ UNCHANGED <<held, reserved>>
         /\ saved'.orders = saved.orders /\ saved'.position = saved.position
         /\ SameTerms
         /\ \A j \in Orders : j # i => orders'[j] = orders[j]
         /\ \/ remote' = remote
            \/ /\ remote' = [remote EXCEPT ![i].status = "CANCELLED_ALL"]
               /\ UNCHANGED position
<1>1. orders \in [Orders -> OrderRow] /\ saved \in Transaction
  BY DEF TypeOK, TablesTypeOK, LoopTypeOK
<1>2. ASSUME NEW o, NEW dealt, ApplyFill(o, dealt)
      PROVE  saved'.orders = saved.orders /\ saved'.position = saved.position
  BY <1>1, <1>2 DEF ApplyFill, Transaction
<1>3. CASE \E last \in 1 .. EntryQty : SyncDeals(i, last)
  <2>1. PICK last \in 1 .. EntryQty : SyncDeals(i, last)
    BY <1>3
  <2>2. PICK row : /\ orders' = [orders EXCEPT ![i] = row]
                   /\ row.qty = orders[i].qty /\ row.symbol = orders[i].symbol
                   /\ row.side = orders[i].side /\ row.plan = orders[i].plan
    <3> DEFINE booked == [orders[i] EXCEPT !.dealt = orders[i].booked + last,
                                           !.booked = rows[i].filled]
               over == [booked EXCEPT !.status = "FILLED", !.age = 0]
    <3>1. \/ orders' = [orders EXCEPT ![i] = booked]
          \/ orders' = [orders EXCEPT ![i] = over]
      BY <2>1 DEF SyncDeals
    <3>2. orders[i] \in OrderRow
      BY <1>1
    <3> QED BY <3>1, <3>2 DEF OrderRow
  <2>3. SameTerms /\ \A j \in Orders : j # i => orders'[j] = orders[j]
    BY <1>1, <2>2 DEF SameTerms
  <2>4. saved'.orders = saved.orders /\ saved'.position = saved.position
    BY <1>2, <2>1 DEF SyncDeals
  <2>5. pc = "deals" /\ UNCHANGED <<broker, pc, rows>>
    BY <2>1 DEF SyncDeals
  <2> QED BY <2>3, <2>4, <2>5 DEF broker, Syncing
<1>4. CASE ~\E last \in 1 .. EntryQty : SyncDeals(i, last)
  <2>0. SyncFilled(i) \/ SyncRefreshed(i) \/ SyncSellTimedOut(i) \/ SyncBuyCancelled(i)
          \/ SyncBuyMissing(i) \/ SyncBuyCancelFailed(i)
    BY <1>4 DEF Visit
  <2>1. Visited(i)
    BY <2>0 DEF SyncFilled, SyncRefreshed, SyncSellTimedOut, SyncBuyCancelled, SyncBuyMissing,
                SyncBuyCancelFailed
  <2>2. PICK row : /\ orders' = [orders EXCEPT ![i] = row]
                   /\ row.qty = orders[i].qty /\ row.symbol = orders[i].symbol
                   /\ row.side = orders[i].side /\ row.plan = orders[i].plan
    <3> DEFINE grown == IF Refreshed(i).reason = "TARGET_1_PARTIAL"
                        THEN "TARGET_1_PARTIAL_WAITING" ELSE Refreshed(i).reason
               waiting == [Refreshed(i) EXCEPT !.status = "SELL_WAITING_RECONCILIATION",
                                               !.reason = grown]
               cancelled == [Refreshed(i) EXCEPT !.status = "CANCELLED", !.age = 0]
               missing == [Refreshed(i) EXCEPT !.status = "UNKNOWN_REMOTE_MISSING"]
    <3>1. Refreshed(i) \in OrderRow /\ Refreshed(i).qty = orders[i].qty
            /\ Refreshed(i).symbol = orders[i].symbol /\ Refreshed(i).side = orders[i].side
            /\ Refreshed(i).plan = orders[i].plan
      BY RefreshedTerms
    <3>2. SyncSellTimedOut(i) => orders' = [orders EXCEPT ![i] = waiting]
      BY <3>1 DEF SyncSellTimedOut, OrderRow
    <3>3. \/ orders' = [orders EXCEPT ![i] = Refreshed(i)]
          \/ orders' = [orders EXCEPT ![i] = waiting]
          \/ orders' = [orders EXCEPT ![i] = cancelled]
          \/ orders' = [orders EXCEPT ![i] = missing]
      BY <2>0, <3>2 DEF SyncFilled, SyncRefreshed, SyncBuyCancelled, SyncBuyMissing,
                        SyncBuyCancelFailed
    <3>4. \A row \in {waiting, cancelled, missing} :
            /\ row.qty = Refreshed(i).qty /\ row.symbol = Refreshed(i).symbol
            /\ row.side = Refreshed(i).side /\ row.plan = Refreshed(i).plan
      BY <3>1 DEF OrderRow
    <3> HIDE DEF waiting, cancelled, missing
    <3>5. \A row \in {Refreshed(i), waiting, cancelled, missing} :
            /\ row.qty = orders[i].qty /\ row.symbol = orders[i].symbol
            /\ row.side = orders[i].side /\ row.plan = orders[i].plan
      BY <3>1, <3>4
    <3>6. PICK row \in {Refreshed(i), waiting, cancelled, missing} :
            orders' = [orders EXCEPT ![i] = row]
      BY <3>3
    <3> QED BY <3>5, <3>6
  <2>3. SameTerms /\ \A j \in Orders : j # i => orders'[j] = orders[j]
    BY <1>1, <2>2 DEF SameTerms
  <2>4. saved'.orders = saved.orders /\ saved'.position = saved.position
    BY <1>2, <2>0 DEF SyncFilled, SyncRefreshed, SyncSellTimedOut, SyncBuyCancelled,
                      SyncBuyMissing, SyncBuyCancelFailed
  <2>5. \/ remote' = remote
        \/ /\ remote' = [remote EXCEPT ![i].status = "CANCELLED_ALL"]
           /\ UNCHANGED position
    BY <2>0 DEF SyncFilled, SyncRefreshed, SyncSellTimedOut, SyncBuyCancelled,
                SyncBuyMissing, SyncBuyCancelFailed
  <2>6. pc = "orders" /\ UNCHANGED <<held, reserved, pc, rows>>
    BY <2>1 DEF Visited
  <2> QED BY <2>3, <2>4, <2>5, <2>6 DEF Syncing
<1> QED BY <1>3, <1>4

\* A visit that ends an order has read, or brought about, its end at the broker;
\* one that books a fill has read that shares were bought or sold.
LEMMA VisitEnds ==
  ASSUME TypeOK, DeadInv, NEW i \in Orders, Visit(i), orders'[i].status \in Dead
  PROVE  ~RemoteLive(i)'
<1>1. /\ orders \in [Orders -> OrderRow] /\ orders[i] \in OrderRow
      /\ remote \in [Orders -> RemoteRow]
      /\ rows[i].filled \in Nat /\ remote[i].filled \in Nat
      /\ rows[i].filled <= remote[i].filled
  BY DEF TypeOK, TablesTypeOK, BrokerTypeOK, LoopTypeOK, RemoteRow, DeadInv, ReadingsLag
<1>2. remote' = remote => (RemoteLive(i)' <=> RemoteLive(i))
  BY DEF RemoteLive
<1>3. ASSUME Refreshed(i).status \in Dead PROVE ~RemoteLive(i)
  <2>1. CASE Returned(i)
    <3>1. NormalizeStatus[rows[i].status] \in Dead
      BY <1>3, <2>1, RefreshedTerms DEF ReadStatus
    <3>2. rows[i].status \in DOMAIN NormalizeStatus
      BY <2>1 DEF Returned, TypeOK, LoopTypeOK, RemoteRow, RemoteStatuses
    <3>3. rows[i].status \in {"FILLED_ALL", "CANCELLED_ALL", "FAILED"}
      BY <3>1, <3>2 DEF NormalizeStatus, Dead
    <3> QED BY <3>3 DEF DeadInv, ReadingsLag, RemoteLive
  <2>2. CASE ~Returned(i)
    BY <1>3, <2>2, RefreshedTerms DEF DeadInv, DeadOrdersAreDead, Dead
  <2> QED BY <2>1, <2>2
<1>4. CASE SyncFilled(i) \/ SyncRefreshed(i) \/ SyncBuyCancelFailed(i)
  <2>1. orders'[i] = Refreshed(i) /\ remote' = remote
    BY <1>1, <1>4 DEF SyncFilled, SyncRefreshed, SyncBuyCancelFailed
  <2> QED BY <1>2, <1>3, <2>1
<1>5. CASE SyncSellTimedOut(i) \/ SyncBuyMissing(i)
  <2>1. orders'[i].status \in {"SELL_WAITING_RECONCILIATION", "UNKNOWN_REMOTE_MISSING"}
    <3>1. Refreshed(i) \in OrderRow
      BY RefreshedTerms
    <3> DEFINE grown == IF Refreshed(i).reason = "TARGET_1_PARTIAL"
                        THEN "TARGET_1_PARTIAL_WAITING" ELSE Refreshed(i).reason
    <3>2. SyncSellTimedOut(i) =>
            orders' = [orders EXCEPT ![i] = [Refreshed(i) EXCEPT
                         !.status = "SELL_WAITING_RECONCILIATION", !.reason = grown]]
      BY <3>1 DEF SyncSellTimedOut, OrderRow
    <3> QED BY <1>1, <1>5, <3>1, <3>2, ZenonT(60) DEF SyncBuyMissing, OrderRow
  <2> QED BY <2>1 DEF Dead
<1>6. CASE SyncBuyCancelled(i)
  BY <1>1, <1>6 DEF SyncBuyCancelled, RemoteLive, RemoteRow
<1>7. ASSUME NEW last \in 1 .. EntryQty, SyncDeals(i, last) PROVE ~RemoteLive(i)'
  <2> DEFINE dealt == orders[i].booked + last
             booked == [orders[i] EXCEPT !.dealt = dealt, !.booked = rows[i].filled]
  <2>1. remote' = remote /\ last \in 1 .. rows[i].filled - orders[i].booked
    BY <1>7 DEF SyncDeals, broker
  <2>2. CASE dealt >= orders[i].qty
    <3>1. orders[i].booked + last <= rows[i].filled
      BY <1>1, <2>1 DEF OrderRow
    <3>2. remote[i].filled >= orders[i].qty
      BY <1>1, <2>1, <2>2, <3>1 DEF OrderRow
    <3> QED BY <1>1, <1>2, <2>1, <3>2 DEF DeadInv, OrdersFit, OrderRow
  <2>3. CASE ~(dealt >= orders[i].qty)
    <3>1. orders' = [orders EXCEPT ![i] = booked]
      BY <1>7, <2>3 DEF SyncDeals
    <3>2. orders'[i].status = orders[i].status
      BY <1>1, <3>1 DEF OrderRow
    <3> QED BY <1>2, <2>1, <3>2 DEF DeadInv, DeadOrdersAreDead, Dead
  <2> QED BY <2>2, <2>3
<1> QED BY <1>4, <1>5, <1>6, <1>7 DEF Visit

(* The order sync reads the rows it opened with, and only unfinished ones. *)
LEMMA VisitKeepsDeadInv ==
  ASSUME TypeOK, DeadInv, NEW i \in Orders, Visit(i)
  PROVE  DeadInv'
<1>1. /\ Syncing /\ Syncing' /\ rows' = rows /\ saved'.orders = saved.orders /\ SameTerms
      /\ \A j \in Orders : j # i => orders'[j] = orders[j]
      /\ remote' = remote \/ remote' = [remote EXCEPT ![i].status = "CANCELLED_ALL"]
  BY VisitFrame
<1>2. \A j \in Orders : /\ remote'[j].filled = remote[j].filled
                        /\ remote'[j].status \in {remote[j].status, "CANCELLED_ALL"}
                        /\ j # i => remote'[j] = remote[j]
  BY <1>1 DEF TypeOK, BrokerTypeOK, RemoteRow
<1>3. \A j \in Orders : RemoteLive(j)' => RemoteLive(j)
  BY <1>2 DEF RemoteLive
<1>4. OrdersFit'
  BY <1>1, <1>2, <1>3 DEF DeadInv, OrdersFit, SameTerms
<1>5. ReadingsLag'
  <2>1. CASE remote' = remote
    BY <1>1, <2>1 DEF DeadInv, ReadingsLag
  <2>2. CASE SyncBuyCancelled(i)
    <3>1. rows[i].status \notin {"FILLED_ALL", "CANCELLED_ALL", "FAILED"}
      BY <2>2 DEF SyncBuyCancelled, RemoteLive, DeadInv, ReadingsLag
    <3>2. \A j \in Orders :
            /\ rows'[j].filled <= remote'[j].filled
            /\ rows'[j].status \in {"FILLED_ALL", "CANCELLED_ALL", "FAILED"} =>
                 rows'[j].status = remote'[j].status
            /\ rows'[j].status = "FILLED_ALL" => rows'[j].filled > 0
      BY <1>1, <1>2, <3>1 DEF DeadInv, ReadingsLag
    <3> QED BY <1>1, <3>2 DEF ReadingsLag
  <2>3. remote' = remote \/ SyncBuyCancelled(i)
    BY DEF Visit, SyncFilled, SyncRefreshed, SyncSellTimedOut, SyncBuyMissing,
           SyncBuyCancelFailed, SyncDeals, broker
  <2> QED BY <2>1, <2>2, <2>3
<1>6. SavedOrdersFit'
  BY <1>1, <1>3 DEF DeadInv, SavedOrdersFit, SameTerms
<1>7. DeadOrdersAreDead'
  <2>1. ASSUME NEW j \in Orders, orders'[j].status \in Dead PROVE ~RemoteLive(j)'
    BY <1>1, <1>3, <2>1, VisitEnds DEF DeadInv, DeadOrdersAreDead, Dead
  <2> QED BY <2>1 DEF DeadOrdersAreDead, Dead
<1> QED BY <1>4, <1>5, <1>6, <1>7 DEF DeadInv

\* An exit is of the row being managed, for no more than it offers, and its turn is over.
LEMMA ExitPlaced ==
  ASSUME TypeOK, NEW s \in Symbols, NEW reason \in ExitReasons,
         SendExit(s, reason) \/ ExitAnswerLost(s, reason) \/ CrashAfterExit(s, reason)
  PROVE  \E i \in Orders, row \in OrderRow :
           /\ Placing(i, row)
           /\ row.symbol = s /\ row.side = "SELL" /\ row.qty <= position[s].available
           /\ reserved' = [reserved EXCEPT ![s] = @ + row.qty]
           /\ Managing(s) /\ position[s].status = "OPEN"
           /\ \/ pc' = "manage" /\ todo' = todo \ {s}
              \/ pc' = "idle"
<1>1. Exiting(s, reason)
  BY DEF SendExit, ExitAnswerLost, CrashAfterExit, ExitUnrecorded
<1>2. PICK i \in Unused, status \in {"SUBMITTED", "LOST"} :
        /\ orders' = [orders EXCEPT ![i] = ExitOrder(s, reason, status)]
        /\ remote' = [remote EXCEPT ![i] = Accepted]
  BY DEF SendExit, ExitAnswerLost, CrashAfterExit, ExitUnrecorded
<1> DEFINE row == ExitOrder(s, reason, status)
<1>3. row \in OrderRow /\ ExitQty(s, reason) \in Nat
  BY <1>1, ExitOrderType
<1>4. /\ row.symbol = s /\ row.side = "SELL" /\ row.qty = ExitQty(s, reason)
      /\ row.status = status
  BY DEF ExitOrder
<1>5. ExitQty(s, reason) > 0 /\ ExitQty(s, reason) <= position[s].available
  <2>1. position[s].available \in Nat /\ position[s].available > 0 /\ position[s].shares \in Nat
    BY <1>1 DEF Exiting, TypeOK, TablesTypeOK, PositionRow
  <2>2. Larger(1, position[s].shares \div 2) \in Nat /\ Larger(1, position[s].shares \div 2) > 0
    BY <2>1 DEF Larger
  <2> QED BY <2>1, <2>2 DEF ExitQty, Smaller
<1>6. /\ pc = "manage" /\ s \in todo /\ position[s].status = "OPEN"
      /\ UNCHANGED <<position, held>> /\ reserved' = [reserved EXCEPT ![s] = @ + row.qty]
  BY <1>1, <1>4 DEF SendExit, ExitAnswerLost, CrashAfterExit, ExitUnrecorded, Exiting, Managing
<1>7. \/ pc' = "manage" /\ todo' = todo \ {s} /\ rows' = rows
      \/ pc' = "idle" /\ rows' = NoRows
  BY <1>6 DEF SendExit, ExitAnswerLost, CrashAfterExit, LoopOver, sync
<1>8. Placing(i, row)
  BY <1>2, <1>3, <1>4, <1>5, <1>6, <1>7 DEF Placing, Syncing, Accepted
<1>9. i \in Orders
  BY DEF Unused
<1> QED BY <1>3, <1>4, <1>5, <1>6, <1>7, <1>8, <1>9 DEF Managing

\* An entry is a BUY and leaves every row as it is.
LEMMA EntryPlacing ==
  ASSUME TypeOK, NEW p \in Plans,
         PlaceEntry(p) \/ EntryAnswerLost(p) \/ CrashAfterEntry(p)
  PROVE  \E i \in Orders, row \in OrderRow :
           /\ Placing(i, row) /\ row.side = "BUY" /\ UNCHANGED reserved
           /\ pc = "execute" /\ pc' \in {"execute", "idle"}
<1>1. PICK i \in Unused, status \in {"SUBMITTED", "LOST"} :
        /\ orders' = [orders EXCEPT ![i] = EntryOrder(p, status)]
        /\ remote' = [remote EXCEPT ![i] = [status |-> "SUBMITTED", filled |-> 0]]
  BY DEF PlaceEntry, EntryAnswerLost, CrashAfterEntry, EntryUnrecorded
<1> DEFINE row == EntryOrder(p, status)
<1>2. row \in OrderRow
  BY LedgerAssumption
  DEF EntryOrder, SymbolOf, OrderRow, OrderStatuses, ReconcileStatuses, Plans, NoPlan
<1>3. row.side = "BUY" /\ row.qty > 0 /\ row.status = status
  BY LedgerAssumption DEF EntryOrder
<1>4. pc = "execute" /\ UNCHANGED <<position, held, reserved>>
  BY DEF PlaceEntry, EntryAnswerLost, CrashAfterEntry, EntryUnrecorded, Executing
<1>5. \/ pc' = "execute" /\ rows' = rows
      \/ pc' = "idle" /\ rows' = NoRows
  BY <1>4 DEF PlaceEntry, EntryAnswerLost, CrashAfterEntry, LoopOver, sync
<1>6. Placing(i, row)
  BY <1>1, <1>2, <1>3, <1>4, <1>5 DEF Placing, Syncing
<1>7. i \in Orders
  BY DEF Unused
<1> QED BY <1>2, <1>3, <1>4, <1>5, <1>6, <1>7

(* A placement adds a fresh row and a live order behind it. *)
LEMMA PlacingKeepsDeadInv ==
  ASSUME TypeOK, DeadInv, NEW i \in Orders, NEW row \in OrderRow, Placing(i, row)
  PROVE  DeadInv'
<1>1. /\ \A j \in Orders : j # i => orders'[j] = orders[j] /\ remote'[j] = remote[j]
      /\ orders'[i] = row /\ remote'[i] = [status |-> "SUBMITTED", filled |-> 0]
  BY DEF Placing, TypeOK, TablesTypeOK, BrokerTypeOK
<1>2. rows' = NoRows /\ ~Syncing'
  BY DEF Placing, DeadInv, ReadingsLag
<1>3. \A j \in Orders : remote'[j].filled \in Nat
  BY <1>1 DEF TypeOK, BrokerTypeOK, RemoteRow
<1>4. ReadingsLag' /\ SavedOrdersFit'
  BY <1>2, <1>3 DEF ReadingsLag, SavedOrdersFit, NoRows
<1>5. OrdersFit'
  BY <1>1 DEF DeadInv, OrdersFit, RemoteLive, Placing, OrderRow
<1>6. DeadOrdersAreDead'
  BY <1>1 DEF DeadInv, DeadOrdersAreDead, RemoteLive, Placing
<1> QED BY <1>4, <1>5, <1>6 DEF DeadInv

\* Outside a sync, a step that changes neither side's orders keeps what is said of them.
LEMMA OutsideKeepsDeadInv ==
  ASSUME TypeOK, DeadInv, ~Syncing, ~Syncing', remote' = remote, rows' \in {rows, NoRows}, SameTerms,
         \A i \in Orders : orders'[i].status \in Dead => orders[i].status \in Dead
  PROVE  DeadInv'
<1>1. rows' = NoRows
  BY DEF DeadInv, ReadingsLag
<1>2. \A i \in Orders : remote[i].filled \in Nat
  BY DEF TypeOK, BrokerTypeOK, RemoteRow
<1>3. ReadingsLag' /\ SavedOrdersFit'
  BY <1>1, <1>2 DEF ReadingsLag, SavedOrdersFit, NoRows
<1>4. OrdersFit' /\ DeadOrdersAreDead'
  BY DEF DeadInv, OrdersFit, DeadOrdersAreDead, RemoteLive, SameTerms, Dead
<1> QED BY <1>3, <1>4 DEF DeadInv

\* The fills of an order that are not over, and its end, are the broker's.
LEMMA BrokerKeepsDeadInv ==
  ASSUME TypeOK, DeadInv, Broker
  PROVE  DeadInv'
<1>0. PICK i \in Orders : BrokerEnds(i) \/ \E n \in 1 .. EntryQty : Fill(i, n)
  BY DEF Broker
<1>1. /\ UNCHANGED <<tables, loop>> /\ RemoteLive(i)
      /\ remote' \in [Orders -> RemoteRow]
      /\ \A j \in Orders : j # i => remote'[j] = remote[j]
  <2>1. TypeOK'
    BY BrokerTypes
  <2> QED BY <1>0, <2>1 DEF BrokerEnds, Fill, TypeOK, BrokerTypeOK
<1>2. /\ remote'[i].filled >= remote[i].filled
      /\ remote'[i].filled <= orders[i].qty
      /\ remote'[i].status \in {"SUBMITTED", "FILLED_PART"} => remote'[i].filled < orders[i].qty
      /\ remote'[i].status = "FILLED_ALL" => remote'[i].filled > 0
  <2>1. remote[i] \in RemoteRow /\ orders[i].qty \in Nat
    BY DEF TypeOK, TablesTypeOK, BrokerTypeOK, OrderRow
  <2>2. CASE BrokerEnds(i)
    <3>1. PICK status \in DeadByBroker : remote' = [remote EXCEPT ![i].status = status]
      BY <2>2 DEF BrokerEnds
    <3>2. remote'[i].filled = remote[i].filled /\ remote'[i].status = status
      BY <2>1, <3>1 DEF TypeOK, BrokerTypeOK, RemoteRow
    <3> QED BY <1>1, <2>1, <3>2, BrokerAssumption DEF DeadInv, OrdersFit, RemoteRow
  <2>3. ASSUME NEW n \in 1 .. EntryQty, Fill(i, n)
        PROVE  <1>2!1 /\ <1>2!2 /\ <1>2!3 /\ <1>2!4
    <3>1. n \in 1 .. orders[i].qty - remote[i].filled
      BY <2>3 DEF Fill
    <3>2. /\ remote'[i].filled = remote[i].filled + n
          /\ remote'[i].status = IF remote[i].filled + n = orders[i].qty
                                 THEN "FILLED_ALL" ELSE "FILLED_PART"
      BY <2>1, <2>3 DEF Fill, TypeOK, BrokerTypeOK, RemoteRow
    <3> QED BY <2>1, <3>1, <3>2, LedgerAssumption DEF RemoteRow
  <2> QED BY <1>0, <2>2, <2>3
<1>3. UNCHANGED <<orders, rows, saved, pc>>
  BY <1>1 DEF tables, loop, sync
<1>4. OrdersFit'
  BY <1>1, <1>2, <1>3 DEF DeadInv, OrdersFit, RemoteLive
<1>5. ReadingsLag'
  <2>1. rows[i].status \notin {"FILLED_ALL", "CANCELLED_ALL", "FAILED"}
    BY <1>1 DEF DeadInv, ReadingsLag, RemoteLive
  <2>2. \A j \in Orders : rows[j].filled \in Nat /\ remote[j].filled \in Nat /\ remote'[j].filled \in Nat
    BY <1>1 DEF TypeOK, BrokerTypeOK, LoopTypeOK, RemoteRow
  <2>3. ~Syncing' => rows' = NoRows
    BY <1>3 DEF DeadInv, ReadingsLag, Syncing
  <2>4. \A j \in Orders :
          /\ rows'[j].filled <= remote'[j].filled
          /\ rows'[j].status \in {"FILLED_ALL", "CANCELLED_ALL", "FAILED"} =>
               rows'[j].status = remote'[j].status
          /\ rows'[j].status = "FILLED_ALL" => rows'[j].filled > 0
    BY <1>1, <1>2, <1>3, <2>1, <2>2 DEF DeadInv, ReadingsLag
  <2> QED BY <2>3, <2>4 DEF ReadingsLag
<1>6. \A j \in Orders : RemoteLive(j)' => RemoteLive(j)
  BY <1>1 DEF RemoteLive
<1>7. SavedOrdersFit' /\ DeadOrdersAreDead'
  BY <1>3, <1>6 DEF DeadInv, SavedOrdersFit, DeadOrdersAreDead, Syncing
<1> QED BY <1>4, <1>5, <1>7 DEF DeadInv

\* What the position sync makes of the orders: some entries are inferred as filled.
LEMMA SyncedOrders ==
  ASSUME TypeOK, SyncPositions
  PROVE  /\ SameTerms
         /\ \A i \in Orders : orders'[i].status \in {orders[i].status, "FILLED_INFERRED"}
<1>1. PICK agree \in MatchOutcomes :
        orders' = [i \in Orders |->
            IF i \in Inferred(agree)
            THEN [orders[i] EXCEPT !.status = "FILLED_INFERRED", !.age = 0,
                                   !.dealt = held[orders[i].symbol]]
            ELSE orders[i]]
  BY DEF SyncPositions
<1>2. \A i \in Orders : orders[i] \in OrderRow
  BY DEF TypeOK, TablesTypeOK
<1>3. ASSUME NEW i \in Orders
      PROVE  /\ orders'[i].qty = orders[i].qty /\ orders'[i].symbol = orders[i].symbol
             /\ orders'[i].side = orders[i].side /\ orders'[i].plan = orders[i].plan
             /\ orders'[i].status \in {orders[i].status, "FILLED_INFERRED"}
  BY <1>1, <1>2 DEF OrderRow
<1> QED BY <1>3 DEF SameTerms

(* Time makes orders older and nothing else. *)
LEMMA TickedOrders ==
  ASSUME TypeOK, Tick
  PROVE  SameTerms /\ \A i \in Orders : orders'[i].status = orders[i].status
<1>1. \A i \in Orders : orders[i] \in OrderRow
  BY DEF TypeOK, TablesTypeOK
<1>2. ASSUME NEW i \in Orders
      PROVE  /\ orders'[i].qty = orders[i].qty /\ orders'[i].symbol = orders[i].symbol
             /\ orders'[i].side = orders[i].side /\ orders'[i].plan = orders[i].plan
             /\ orders'[i].status = orders[i].status
  BY <1>1 DEF Tick, OrderRow
<1> QED BY <1>2 DEF SameTerms

----------------------------------------------------------------------------
(* DeadInv is inductive *)

(* Every step keeps the invariant about finished orders. *)
LEMMA DeadInvInductive == TypeOK /\ DeadInv /\ [Next]_vars => DeadInv'
<1> SUFFICES ASSUME TypeOK, DeadInv, [Next]_vars PROVE DeadInv'
  OBVIOUS
<1>1. CASE BeginOrderSync
  <2>1. PICK lost \in OutOfSight :
          rows' = [i \in Orders |-> IF i \in lost THEN [remote[i] EXCEPT !.status = "NONE"]
                                                  ELSE remote[i]]
    BY <1>1 DEF BeginOrderSync
  <2>2. /\ UNCHANGED <<orders, remote>> /\ Syncing' /\ saved'.orders = orders
    BY <1>1 DEF BeginOrderSync, Syncing, tables, broker
  <2>3. \A i \in Orders : /\ remote[i] \in RemoteRow
                          /\ rows'[i].filled = remote[i].filled
                          /\ rows'[i].status \in {"NONE", remote[i].status}
    BY <2>1 DEF TypeOK, BrokerTypeOK, RemoteRow
  <2>4. OrdersFit' /\ DeadOrdersAreDead'
    BY <2>2 DEF DeadInv, OrdersFit, DeadOrdersAreDead, RemoteLive
  <2>5. ReadingsLag'
    BY <2>2, <2>3 DEF ReadingsLag, DeadInv, OrdersFit, RemoteRow
  <2>6. SavedOrdersFit'
    BY <2>2 DEF SavedOrdersFit, DeadInv, DeadOrdersAreDead, RemoteLive, Dead
  <2> QED BY <2>4, <2>5, <2>6 DEF DeadInv
<1>2. CASE \E i \in Orders : Visit(i)
  BY <1>2, VisitKeepsDeadInv
<1>3. CASE BeginDealSync \/ UNCHANGED vars
  <2>1. UNCHANGED <<orders, remote, rows, saved>> /\ (Syncing' <=> Syncing)
    BY <1>3 DEF BeginDealSync, tables, broker, sync, loop, vars, Syncing
  <2> QED BY <2>1 DEF DeadInv, OrdersFit, ReadingsLag, SavedOrdersFit, DeadOrdersAreDead, RemoteLive
<1>4. CASE CommitOrderSync
  <2>1. UNCHANGED <<orders, remote>> /\ rows' = NoRows /\ ~Syncing'
    BY <1>4 DEF CommitOrderSync, tables, broker, Syncing
  <2>2. \A i \in Orders : remote[i].filled \in Nat
    BY DEF TypeOK, BrokerTypeOK, RemoteRow
  <2>3. ReadingsLag' /\ SavedOrdersFit'
    BY <2>1, <2>2 DEF ReadingsLag, SavedOrdersFit, NoRows
  <2>4. OrdersFit' /\ DeadOrdersAreDead'
    BY <2>1 DEF DeadInv, OrdersFit, DeadOrdersAreDead, RemoteLive
  <2> QED BY <2>3, <2>4 DEF DeadInv
<1>5. CASE Syncing /\ RolledBack
  <2>1. orders' = saved.orders /\ remote' = remote /\ rows' = NoRows /\ ~Syncing'
    BY <1>5 DEF RolledBack, LoopOver, broker, Syncing
  <2>2. \A i \in Orders : remote[i].filled \in Nat
    BY DEF TypeOK, BrokerTypeOK, RemoteRow
  <2>3. ReadingsLag' /\ SavedOrdersFit'
    BY <2>1, <2>2 DEF ReadingsLag, SavedOrdersFit, NoRows
  <2>4. OrdersFit' /\ DeadOrdersAreDead'
    BY <1>5, <2>1 DEF DeadInv, OrdersFit, SavedOrdersFit, DeadOrdersAreDead, RemoteLive, Dead
  <2> QED BY <2>3, <2>4 DEF DeadInv
<1>6. CASE SyncPositions
  <2>1. UNCHANGED <<remote, rows>> /\ ~Syncing /\ ~Syncing'
    BY <1>6 DEF SyncPositions, broker, sync, Syncing
  <2> QED BY <1>6, <2>1, SyncedOrders, OutsideKeepsDeadInv DEF Dead
<1>7. CASE Quiet
  <2>1. UNCHANGED <<orders, remote>> /\ ~Syncing /\ ~Syncing' /\ rows' \in {rows, NoRows}
    BY <1>7, QuietFrame DEF broker
  <2> QED BY <2>1, OutsideKeepsDeadInv DEF SameTerms
<1>8. CASE \/ \E s \in Symbols, reason \in ExitReasons :
                SendExit(s, reason) \/ ExitAnswerLost(s, reason) \/ CrashAfterExit(s, reason)
           \/ \E p \in Plans : PlaceEntry(p) \/ EntryAnswerLost(p) \/ CrashAfterEntry(p)
  <2>1. \E i \in Orders, row \in OrderRow : Placing(i, row)
    BY <1>8, ExitPlaced, EntryPlacing
  <2> QED BY <2>1, PlacingKeepsDeadInv
<1>9. CASE Broker
  BY <1>9, BrokerKeepsDeadInv
<1>10. CASE Tick
  <2>1. UNCHANGED <<remote, rows>> /\ ~Syncing /\ ~Syncing'
    BY <1>10 DEF Tick, broker, loop, sync, Syncing
  <2> QED BY <1>10, <2>1, TickedOrders, OutsideKeepsDeadInv
<1> QED BY <1>1, <1>2, <1>3, <1>4, <1>5, <1>6, <1>7, <1>8, <1>9, <1>10, Kinds

\* Whatever the constants, an order the table calls filled, cancelled or failed does not
\* work at the broker any more, also when a reading was old, incomplete or in batches of
\* deals, and when the sync that wrote the status was rolled back
\* (order_sync.py:31-45, 60-71, 97-100).
THEOREM DeadOrdersStayDead == Spec => []DeadOrdersAreDead
<1>1. Init => DeadInv
  BY InitSafe
<1>2. TypeOK /\ DeadInv /\ [Next]_vars => DeadInv'
  BY DeadInvInductive
<1>3. DeadInv => DeadOrdersAreDead
  BY DEF DeadInv
<1> QED BY <1>1, <1>2, <1>3, TypeCorrect, PTL DEF Spec

----------------------------------------------------------------------------
(* How each kind of step touches the positions *)

\* A fill that is booked changes neither the source of a row nor takes one away, and
\* makes one only for an entry.
LEMMA BookedRows ==
  ASSUME TypeOK, SavedRowsFit, Syncing, NEW i \in Orders, NEW dealt \in Nat,
         ApplyFill(orders[i], dealt), NEW s \in Symbols
  PROVE  /\ position'[s].source = position[s].source
         /\ position[s].status # "NONE" => position'[s].status # "NONE"
         /\ position'[s].status # "NONE" =>
              \/ position[s].status # "NONE"
              \/ s = orders[i].symbol /\ orders[i].side = "BUY"
<1>1. position[s] \in PositionRow /\ orders[i] \in OrderRow
  BY DEF TypeOK, TablesTypeOK
<1>2. CASE s # orders[i].symbol
  BY <1>2 DEF ApplyFill, TypeOK, TablesTypeOK
<1>3. CASE s = orders[i].symbol /\ orders[i].side = "BUY"
  <2>1. position'[s] = BoughtPosition(orders[i], dealt)
    BY <1>3 DEF ApplyFill, TypeOK, TablesTypeOK
  <2>2. BoughtPosition(orders[i], dealt).status = "OPEN"
    BY <1>1, <1>3 DEF BoughtPosition, NoPosition, PositionRow
  <2>3. BoughtPosition(orders[i], dealt).source = position[s].source
    <3>1. CASE InDatabase(s)
      BY <1>1, <1>3, <3>1 DEF BoughtPosition, PositionRow
    <3>2. CASE ~InDatabase(s)
      <4>1. position[s].source = "LOCAL_STRATEGY"
        BY <3>2 DEF InDatabase, SavedRowsFit, OwnRow
      <4> QED BY <1>3, <3>2, <4>1 DEF BoughtPosition, NoPosition
    <3> QED BY <3>1, <3>2
  <2> QED BY <1>3, <2>1, <2>2, <2>3
<1>4. CASE s = orders[i].symbol /\ orders[i].side # "BUY"
  <2>1. position'[s] = SoldPosition(orders[i], dealt)
    BY <1>4 DEF ApplyFill, TypeOK, TablesTypeOK
  <2>2. /\ SoldPosition(orders[i], dealt).source = position[s].source
        /\ \/ SoldPosition(orders[i], dealt).status = position[s].status
           \/ /\ SoldPosition(orders[i], dealt).status = "CLOSED"
              /\ saved.position[s].status = "OPEN"
    <3> DEFINE sold == DealtOr(dealt, orders[i].qty)
               left == AtLeastZero(position[s].shares - sold)
               avail == AtLeastZero(position[s].available - sold)
               base == [position[s] EXCEPT !.shares = left, !.available = avail]
               over == [base EXCEPT !.status = "CLOSED", !.verified = TRUE]
               part == [base EXCEPT !.partial = @ \/ orders[i].reason = "TARGET_1_PARTIAL"]
    <3>1. SoldPosition(orders[i], dealt) =
            IF saved.position[s].status # "OPEN" THEN position[s]
            ELSE IF left = 0 THEN over ELSE part
      BY <1>4 DEF SoldPosition
    <3>2. /\ over.source = position[s].source /\ over.status = "CLOSED"
          /\ part.source = position[s].source /\ part.status = position[s].status
      BY <1>1 DEF PositionRow
    <3> HIDE DEF over, part, left
    <3> QED BY <3>1, <3>2
  <2>3. saved.position[s].status = "OPEN" => position[s].status # "NONE"
    BY DEF SavedRowsFit
  <2> QED BY <2>1, <2>2, <2>3
<1> QED BY <1>2, <1>3, <1>4

\* An order a visit calls filled did buy or sell shares, and no other fill is booked.
LEMMA VisitFills ==
  ASSUME TypeOK, DeadInv, FillsAreReal, NEW i \in Orders, Visit(i)
  PROVE  /\ orders'[i].status = "FILLED" => remote[i].filled > 0
         /\ \/ UNCHANGED position
            \/ /\ orders'[i].status = "FILLED"
               /\ \E dealt \in Nat : ApplyFill(orders[i], dealt)
<1>1. /\ orders \in [Orders -> OrderRow] /\ orders[i] \in OrderRow
      /\ rows[i].filled \in Nat /\ remote[i].filled \in Nat
      /\ rows[i].filled <= remote[i].filled
  BY DEF TypeOK, TablesTypeOK, BrokerTypeOK, LoopTypeOK, RemoteRow, DeadInv, ReadingsLag
<1>2. orders[i].status = "FILLED" => remote[i].filled > 0
  BY DEF FillsAreReal
<1>3. Refreshed(i).status = "FILLED" => remote[i].filled > 0
  <2> SUFFICES ASSUME Refreshed(i).status = "FILLED", Returned(i) PROVE remote[i].filled > 0
    BY <1>2, RefreshedTerms
  <2>1. NormalizeStatus[rows[i].status] = "FILLED"
    BY RefreshedTerms DEF ReadStatus
  <2>2. rows[i].status \in DOMAIN NormalizeStatus
    BY DEF Returned, TypeOK, LoopTypeOK, RemoteRow, RemoteStatuses
  <2>3. rows[i].status = "FILLED_ALL"
    BY <2>1, <2>2 DEF NormalizeStatus
  <2> QED BY <1>1, <2>3 DEF DeadInv, ReadingsLag
<1>4. CASE SyncFilled(i)
  <2>1. orders'[i] = Refreshed(i) /\ Refreshed(i).status = "FILLED"
          /\ ApplyFill(orders[i], rows[i].filled)
    BY <1>1, <1>4 DEF SyncFilled
  <2> QED BY <1>1, <1>3, <2>1
<1>5. CASE SyncRefreshed(i) \/ SyncBuyCancelFailed(i)
  BY <1>1, <1>3, <1>5 DEF SyncRefreshed, SyncBuyCancelFailed
<1>6. CASE SyncSellTimedOut(i) \/ SyncBuyMissing(i) \/ SyncBuyCancelled(i)
  <2> DEFINE grown == IF Refreshed(i).reason = "TARGET_1_PARTIAL"
                      THEN "TARGET_1_PARTIAL_WAITING" ELSE Refreshed(i).reason
  <2>1. Refreshed(i) \in OrderRow
    BY RefreshedTerms
  <2>2. SyncSellTimedOut(i) =>
          orders' = [orders EXCEPT ![i] = [Refreshed(i) EXCEPT
                       !.status = "SELL_WAITING_RECONCILIATION", !.reason = grown]]
    BY <2>1 DEF SyncSellTimedOut, OrderRow
  <2>3. orders'[i].status # "FILLED"
    <3> DEFINE row == Refreshed(i)
    <3>1. row \in OrderRow /\ orders \in [Orders -> OrderRow]
      BY <1>1, <2>1
    <3> HIDE DEF grown, row
    <3>2. CASE SyncSellTimedOut(i)
      <4> DEFINE new == [row EXCEPT !.status = "SELL_WAITING_RECONCILIATION", !.reason = grown]
      <4>1. orders' = [orders EXCEPT ![i] = new]
        BY <2>2, <3>2 DEF row, grown
      <4>2. new.status = "SELL_WAITING_RECONCILIATION"
        BY <3>1 DEF OrderRow
      <4> HIDE DEF new
      <4> QED BY <3>1, <4>1, <4>2
    <3>3. CASE SyncBuyMissing(i)
      <4> DEFINE new == [row EXCEPT !.status = "UNKNOWN_REMOTE_MISSING"]
      <4>1. orders' = [orders EXCEPT ![i] = new]
        BY <3>3 DEF SyncBuyMissing, row
      <4>2. new.status = "UNKNOWN_REMOTE_MISSING"
        BY <3>1 DEF OrderRow
      <4> HIDE DEF new
      <4> QED BY <3>1, <4>1, <4>2
    <3>4. CASE SyncBuyCancelled(i)
      <4> DEFINE new == [row EXCEPT !.status = "CANCELLED", !.age = 0]
      <4>1. orders' = [orders EXCEPT ![i] = new]
        BY <3>4 DEF SyncBuyCancelled, row
      <4>2. new.status = "CANCELLED"
        BY <3>1 DEF OrderRow
      <4> HIDE DEF new
      <4> QED BY <3>1, <4>1, <4>2
    <3> QED BY <1>6, <3>2, <3>3, <3>4
  <2> QED BY <1>6, <2>3 DEF SyncSellTimedOut, SyncBuyMissing, SyncBuyCancelled
<1>7. ASSUME NEW last \in 1 .. EntryQty, SyncDeals(i, last)
      PROVE  /\ orders'[i].status = "FILLED" => remote[i].filled > 0
             /\ \/ UNCHANGED position
                \/ /\ orders'[i].status = "FILLED"
                   /\ \E dealt \in Nat : ApplyFill(orders[i], dealt)
  <2> DEFINE dealt == orders[i].booked + last
             booked == [orders[i] EXCEPT !.dealt = dealt, !.booked = rows[i].filled]
             over == [booked EXCEPT !.status = "FILLED", !.age = 0]
  <2>1. last \in 1 .. rows[i].filled - orders[i].booked
    BY <1>7 DEF SyncDeals
  <2>2. remote[i].filled > 0 /\ dealt \in Nat
    <3>1. /\ rows[i].filled \in Nat /\ remote[i].filled \in Nat /\ orders[i].booked \in Nat
          /\ rows[i].filled <= remote[i].filled /\ EntryQty \in Nat
      BY <1>1, LedgerAssumption DEF OrderRow
    <3> QED BY <2>1, <3>1
  <2>3. over.status = "FILLED"
    BY <1>1 DEF OrderRow
  <2>4. CASE dealt >= orders[i].qty
    <3>1. orders' = [orders EXCEPT ![i] = over] /\ ApplyFill(orders[i], dealt)
      BY <1>7, <2>4 DEF SyncDeals
    <3> QED BY <1>1, <2>2, <2>3, <3>1
  <2>5. CASE ~(dealt >= orders[i].qty)
    <3>1. UNCHANGED position
      BY <1>7, <2>5 DEF SyncDeals
    <3> QED BY <2>2, <3>1
  <2> QED BY <2>4, <2>5
<1> QED BY <1>4, <1>5, <1>6, <1>7 DEF Visit

\* So a visit makes a row only of shares the broker has bought.
LEMMA VisitedRows ==
  ASSUME TypeOK, DeadInv, SaleInv, NEW i \in Orders, Visit(i), NEW s \in Symbols
  PROVE  /\ position'[s].source = position[s].source
         /\ position[s].status # "NONE" => position'[s].status # "NONE"
         /\ position'[s].status # "NONE" => position[s].status # "NONE" \/ Bought(s)
<1>1. CASE UNCHANGED position
  BY <1>1
<1>2. CASE ~UNCHANGED position
  <2>1. remote[i].filled > 0 /\ \E dealt \in Nat : ApplyFill(orders[i], dealt)
    BY <1>2, VisitFills DEF SaleInv
  <2>2. Syncing
    BY VisitFrame
  <2> QED BY <2>1, <2>2, BookedRows DEF SaleInv, Bought
<1> QED BY <1>1, <1>2

(* What the order sync books of a sale was still counted as on its way. *)
LEMMA VisitKeepsSaleInv ==
  ASSUME TypeOK, DeadInv, SaleInv, NEW i \in Orders, Visit(i)
  PROVE  SaleInv'
<1>1. /\ Syncing /\ Syncing' /\ UNCHANGED <<held, reserved>>
      /\ saved'.orders = saved.orders /\ saved'.position = saved.position
      /\ SameTerms /\ \A j \in Orders : j # i => orders'[j] = orders[j]
      /\ remote' = remote \/ remote' = [remote EXCEPT ![i].status = "CANCELLED_ALL"]
  BY VisitFrame
<1>2. \A j \in Orders : remote'[j].filled = remote[j].filled
  BY <1>1 DEF TypeOK, BrokerTypeOK, RemoteRow
<1>3. \A s \in Symbols : /\ (OwnRow(s)' <=> OwnRow(s)) /\ (Bought(s)' <=> Bought(s))
                         /\ position[s].status # "NONE" => position'[s].status # "NONE"
                         /\ position'[s].status # "NONE" => position[s].status # "NONE" \/ Bought(s)
  BY <1>1, <1>2, VisitedRows DEF OwnRow, Bought, SameTerms
<1>4. OwnRowsAreHeld'
  BY <1>1, <1>3 DEF SaleInv, OwnRowsAreHeld, SameTerms
<1>5. SavedRowsFit'
  BY <1>1, <1>3, VisitedRows DEF SaleInv, SavedRowsFit
<1>6. FillsAreReal'
  BY <1>1, <1>2, VisitFills DEF SaleInv, FillsAreReal
<1>7. RowsAreCovered' /\ NeverOversold'
  BY <1>1 DEF SaleInv, RowsAreCovered, NeverOversold, Syncing, Trading, Guarded
<1> QED BY <1>4, <1>5, <1>6, <1>7 DEF SaleInv

\* Steps that touch no row, no fill and no holding, and begin no phase of trading.
LEMMA StillKeepsSaleInv ==
  ASSUME SaleInv, SameTerms, UNCHANGED <<position, held, reserved>>, ~Syncing',
         \A i \in Orders : /\ remote'[i].filled = remote[i].filled
                           /\ orders'[i].status = "FILLED" => orders[i].status = "FILLED",
         Trading' => Trading, \A s \in Symbols : Guarded(s)' => Guarded(s)
  PROVE  SaleInv'
<1>1. \A s \in Symbols : (OwnRow(s)' <=> OwnRow(s)) /\ (Bought(s)' <=> Bought(s))
  BY DEF OwnRow, Bought, SameTerms
<1>2. OwnRowsAreHeld'
  BY <1>1 DEF SaleInv, OwnRowsAreHeld, SameTerms
<1>3. SavedRowsFit' /\ FillsAreReal'
  BY DEF SaleInv, SavedRowsFit, FillsAreReal
<1>4. RowsAreCovered' /\ NeverOversold'
  BY <1>1 DEF SaleInv, RowsAreCovered, NeverOversold
<1> QED BY <1>2, <1>3, <1>4 DEF SaleInv

\* A quiet step begins no phase of trading, where position syncs succeed.
LEMMA QuietPhases ==
  ASSUME Quiet, ~PositionSyncFails
  PROVE  (Trading' => Trading) /\ \A s \in Symbols : Guarded(s)' => Guarded(s)
<1> USE DEF Trading, Guarded, tables, broker, sync, loop, history, LoopOver
<1>1. CASE SyncPositionsFails \/ ReconcileAccountFails \/ SaveGate
  BY <1>1 DEF SyncPositionsFails, ReconcileAccountFails, SaveGate
<1>2. CASE \E lost \in OutOfSight : \/ Reconcile(lost, DealsSupported)
                                   \/ ReconcileRunFails(lost, DealsSupported)
  BY <1>2 DEF Reconcile, ReconcileRunFails
<1>3. CASE (\E s \in Symbols : HoldPosition(s)) \/ EndManage \/ ReadPortfolio \/ ValidatePlans
  BY <1>3 DEF HoldPosition, Managing, EndManage, ReadPortfolio, ValidatePlans
<1>4. CASE \E p \in Plans : \/ RejectByRules(p) \/ MissByCapital(p)
                            \/ RejectByReconciliation(p) \/ Approve(p)
                            \/ SkipEntry(p) \/ EntryRefused(p)
  BY <1>4 DEF RejectByRules, MissByCapital, RejectByReconciliation, Approve, Deciding,
              SkipEntry, EntryRefused, Executing
<1>5. CASE EndApprovals \/ EndLoop \/ NewDay \/ \E pool \in Pools : GeneratePlans(pool)
  BY <1>5 DEF EndApprovals, EndLoop, NewDay, GeneratePlans
<1>6. CASE pc \notin {"idle", "orders", "deals"} /\ LoopOver /\ UNCHANGED <<tables, broker>>
  BY <1>6
<1> QED BY <1>1, <1>2, <1>3, <1>4, <1>5, <1>6 DEF Quiet

\* A sync that is undone leaves the rows it found.
LEMMA RolledBackKeepsSaleInv ==
  ASSUME DeadInv, SaleInv, Syncing, RolledBack
  PROVE  SaleInv'
<1>1. /\ orders' = saved.orders /\ position' = saved.position
      /\ UNCHANGED <<remote, held, reserved>> /\ pc' = "idle"
  BY DEF RolledBack, LoopOver, broker
<1>2. SameTerms
  BY <1>1 DEF DeadInv, SavedOrdersFit, SameTerms
<1>3. \A s \in Symbols : (OwnRow(s)' <=> OwnRow(s)) /\ (Bought(s)' <=> Bought(s))
  BY <1>1, <1>2 DEF OwnRow, Bought, SameTerms, SaleInv, SavedRowsFit
<1>4. OwnRowsAreHeld'
  BY <1>1, <1>2, <1>3 DEF SaleInv, OwnRowsAreHeld, SavedRowsFit, SameTerms
<1>5. SavedRowsFit' /\ FillsAreReal'
  BY <1>1 DEF SaleInv, SavedRowsFit, FillsAreReal, Syncing
<1>6. RowsAreCovered' /\ NeverOversold'
  BY <1>1 DEF SaleInv, RowsAreCovered, NeverOversold, Trading, Guarded
<1> QED BY <1>4, <1>5, <1>6 DEF SaleInv

\* After a position sync a row is as the broker's holding, or was not open for sale.
LEMMA SyncedRows ==
  ASSUME TypeOK, SyncPositions, NEW s \in Symbols
  PROVE  \/ /\ held[s] > 0 /\ position'[s].status = "OPEN"
            /\ position'[s].source # "LOCAL_STRATEGY"
            /\ position'[s].available = CanSell(s)
         \/ /\ held[s] <= 0 /\ position'[s].source = position[s].source
            /\ \/ position'[s].status \in {"CLOSED", "CLOSED_UNVERIFIED"}
                  /\ position[s].source # "LOCAL_STRATEGY"
               \/ position'[s] = position[s] /\ ~Gone(s)
<1>1. position[s] \in PositionRow /\ held[s] \in Int
  BY DEF TypeOK, TablesTypeOK, BrokerTypeOK
<1>2. PICK agree \in MatchOutcomes :
        position'[s] = IF held[s] > 0
                       THEN IF position[s].status = "NONE" THEN Detected(s, agree)
                                                           ELSE Resynced(s)
                       ELSE IF Gone(s) THEN Vanished(s) ELSE position[s]
  BY DEF SyncPositions
<1>3. /\ Detected(s, agree).status = "OPEN" /\ Detected(s, agree).source # "LOCAL_STRATEGY"
      /\ Detected(s, agree).available = CanSell(s)
  BY DEF Detected
<1>4. /\ Resynced(s).status = "OPEN" /\ Resynced(s).source # "LOCAL_STRATEGY"
      /\ Resynced(s).available = CanSell(s)
  BY <1>1 DEF Resynced, PositionRow
<1>5. /\ Vanished(s).status \in {"CLOSED", "CLOSED_UNVERIFIED"}
      /\ Vanished(s).source = position[s].source
  BY <1>1 DEF Vanished, PositionRow
<1> QED BY <1>1, <1>2, <1>3, <1>4, <1>5 DEF Gone

(* The position sync writes what the broker holds into the rows. *)
LEMMA SyncPositionsKeepsSaleInv ==
  ASSUME TypeOK, SaleInv, SyncPositions
  PROVE  SaleInv'
<1>1. SameTerms /\ \A i \in Orders : orders'[i].status = "FILLED" => orders[i].status = "FILLED"
  BY SyncedOrders
<1>2. UNCHANGED <<remote, held, reserved>> /\ pc' = "reconcile"
  BY DEF SyncPositions, broker
<1>3. \A s \in Symbols : Bought(s)' <=> Bought(s)
  BY <1>1, <1>2 DEF Bought, SameTerms
<1>4. OwnRowsAreHeld'
  BY <1>1, <1>2, <1>3, SyncedRows DEF SaleInv, OwnRowsAreHeld, OwnRow, SameTerms, Gone
<1>5. SavedRowsFit' /\ FillsAreReal'
  BY <1>1, <1>2 DEF SaleInv, SavedRowsFit, FillsAreReal, Syncing
<1>6. RowsAreCovered'
  <2> SUFFICES ASSUME NEW s \in Symbols, position'[s].status = "OPEN"
               PROVE  /\ position'[s].source # "LOCAL_STRATEGY"
                      /\ position'[s].available > 0 =>
                           position'[s].available <= held[s] - reserved[s]
    BY <1>2 DEF RowsAreCovered, OwnRow
  <2>1. held[s] \in Int /\ reserved[s] \in Int
    BY DEF TypeOK, BrokerTypeOK
  <2>2. CASE held[s] > 0
    BY <2>1, <2>2, SyncedRows DEF CanSell, AtLeastZero
  <2>3. CASE held[s] <= 0
    BY <2>1, <2>3, SyncedRows DEF SaleInv, OwnRowsAreHeld, OwnRow, Gone
  <2> QED BY <2>1, <2>2, <2>3
<1>7. NeverOversold'
  BY <1>2 DEF SaleInv, NeverOversold
<1> QED BY <1>4, <1>5, <1>6, <1>7 DEF SaleInv

\* An exit is of a row that offers what is there, and an entry sells nothing.
LEMMA ExitKeepsSaleInv ==
  ASSUME TypeOK, SaleInv, NEW s \in Symbols, NEW reason \in ExitReasons,
         SendExit(s, reason) \/ ExitAnswerLost(s, reason) \/ CrashAfterExit(s, reason)
  PROVE  SaleInv'
<1>1. PICK i \in Orders, row \in OrderRow :
        /\ Placing(i, row)
        /\ row.symbol = s /\ row.side = "SELL" /\ row.qty <= position[s].available
        /\ reserved' = [reserved EXCEPT ![s] = @ + row.qty]
        /\ Managing(s) /\ position[s].status = "OPEN"
        /\ (pc' = "manage" /\ todo' = todo \ {s}) \/ pc' = "idle"
  BY ExitPlaced
<1>2. /\ \A j \in Orders : j # i => orders'[j] = orders[j] /\ remote'[j] = remote[j]
      /\ orders'[i] = row /\ remote'[i] = [status |-> "SUBMITTED", filled |-> 0]
  BY <1>1 DEF Placing, TypeOK, TablesTypeOK, BrokerTypeOK
<1>3. UNCHANGED <<position, held>> /\ ~Syncing' /\ ~OwnRow(s) /\ row.qty \in Nat /\ row.qty > 0
        /\ row.status # "FILLED"
  BY <1>1 DEF Placing, SaleInv, RowsAreCovered, Trading, Managing, OrderRow
<1>4. row.qty <= held[s] - reserved[s]
  <2>1. position[s].available \in Nat /\ held[s] \in Int /\ reserved[s] \in Int
    BY DEF TypeOK, TablesTypeOK, BrokerTypeOK, PositionRow
  <2>2. position[s].available > 0
    BY <1>1, <1>3, <2>1
  <2>3. position[s].available <= held[s] - reserved[s]
    BY <1>1, <2>2 DEF SaleInv, RowsAreCovered, Guarded, Managing
  <2> QED BY <1>1, <1>3, <2>1, <2>3
<1>5. \A r \in Symbols : r # s => reserved'[r] = reserved[r]
  BY <1>1 DEF TypeOK, BrokerTypeOK
<1>6. NeverOversold'
  <2>1. \A r \in Symbols : held[r] \in Int /\ reserved[r] \in Int
    BY DEF TypeOK, BrokerTypeOK
  <2>2. reserved'[s] <= held[s]
    BY <1>1, <1>3, <1>4, <2>1 DEF TypeOK, BrokerTypeOK
  <2> QED BY <1>3, <1>5, <2>2 DEF SaleInv, NeverOversold
<1>7. OwnRowsAreHeld'
  <2>1. \A r \in Symbols : (OwnRow(r)' <=> OwnRow(r)) /\ (Bought(r)' => Bought(r))
    BY <1>2, <1>3 DEF OwnRow, Bought
  <2> QED BY <1>1, <1>2, <1>3, <2>1 DEF SaleInv, OwnRowsAreHeld
<1>8. SavedRowsFit' /\ FillsAreReal'
  BY <1>2, <1>3 DEF SaleInv, SavedRowsFit, FillsAreReal
<1>9. RowsAreCovered'
  <2>1. Managing(s) /\ pc = "manage"
    BY <1>1 DEF Managing
  <2>2. (Trading' => Trading) /\ ~Guarded(s)'
    BY <1>1, <2>1 DEF Trading, Guarded
  <2>3. \A r \in Symbols : r # s => (Guarded(r)' => Guarded(r))
    BY <1>1, <2>1 DEF Guarded
  <2> QED BY <1>3, <1>5, <2>2, <2>3 DEF SaleInv, RowsAreCovered, OwnRow
<1> QED BY <1>6, <1>7, <1>8, <1>9 DEF SaleInv

(* A BUY on its way sells nothing. *)
LEMMA EntryKeepsSaleInv ==
  ASSUME TypeOK, SaleInv, NEW p \in Plans,
         PlaceEntry(p) \/ EntryAnswerLost(p) \/ CrashAfterEntry(p)
  PROVE  SaleInv'
<1>1. PICK i \in Orders, row \in OrderRow :
        /\ Placing(i, row) /\ row.side = "BUY" /\ UNCHANGED reserved
        /\ pc = "execute" /\ pc' \in {"execute", "idle"}
  BY EntryPlacing
<1>2. /\ \A j \in Orders : j # i => orders'[j] = orders[j] /\ remote'[j] = remote[j]
      /\ orders'[i] = row /\ remote'[i] = [status |-> "SUBMITTED", filled |-> 0]
  BY <1>1 DEF Placing, TypeOK, TablesTypeOK, BrokerTypeOK
<1>3. UNCHANGED <<position, held>> /\ ~Syncing' /\ row.status # "FILLED"
  BY <1>1 DEF Placing
<1>4. \A r \in Symbols : (OwnRow(r)' <=> OwnRow(r)) /\ (Bought(r)' => Bought(r))
  BY <1>2, <1>3 DEF OwnRow, Bought
<1>5. OwnRowsAreHeld'
  BY <1>1, <1>2, <1>3, <1>4 DEF SaleInv, OwnRowsAreHeld
<1>6. SavedRowsFit' /\ FillsAreReal'
  BY <1>2, <1>3 DEF SaleInv, SavedRowsFit, FillsAreReal
<1>7. RowsAreCovered' /\ NeverOversold'
  BY <1>1, <1>3 DEF SaleInv, RowsAreCovered, NeverOversold, Trading, Guarded
<1> QED BY <1>5, <1>6, <1>7 DEF SaleInv

\* A fill of a SELL uses up what was reserved for it; what an order ended by the broker
\* still had to fill is free again.
LEMMA BrokerKeepsSaleInv ==
  ASSUME TypeOK, DeadInv, SaleInv, Broker
  PROVE  SaleInv'
<1>0. PICK i \in Orders : BrokerEnds(i) \/ \E n \in 1 .. EntryQty : Fill(i, n)
  BY DEF Broker
<1>1. /\ orders[i].symbol \in Symbols /\ orders[i].side \in {"BUY", "SELL"}
      /\ orders[i].qty \in Nat /\ remote[i] \in RemoteRow
      /\ \A s \in Symbols : held[s] \in Int /\ reserved[s] \in Int
  BY DEF TypeOK, TablesTypeOK, BrokerTypeOK, OrderRow
<1>2. UNCHANGED <<orders, position, pc, todo, saved>>
  BY <1>0 DEF BrokerEnds, Fill, tables, loop, sync
<1>3. ASSUME NEW s \in Symbols
      PROVE  /\ held'[s] \in Int /\ reserved'[s] \in Int
             /\ held'[s] - reserved'[s] >= held[s] - reserved[s]
             /\ OwnRow(s) => /\ held'[s] >= held[s]
                             /\ Bought(s)' => Bought(s) \/ held'[s] > held[s]
  <2>1. CASE s # orders[i].symbol
    <3>1. held'[s] = held[s] /\ reserved'[s] = reserved[s]
      BY <1>0, <2>1 DEF BrokerEnds, Fill, TypeOK, BrokerTypeOK
    <3>2. \A j \in Orders : j # i => remote'[j] = remote[j]
      BY <1>0 DEF BrokerEnds, Fill, TypeOK, BrokerTypeOK
    <3>3. Bought(s)' => Bought(s)
      BY <1>2, <2>1, <3>2 DEF Bought
    <3> QED BY <1>1, <3>1, <3>3
  <2>2. CASE s = orders[i].symbol /\ BrokerEnds(i)
    <3>1. remote[i].filled <= orders[i].qty
      BY DEF DeadInv, OrdersFit
    <3>2. /\ held'[s] = held[s]
          /\ reserved'[s] \in {reserved[s], reserved[s] - (orders[i].qty - remote[i].filled)}
      BY <1>1, <2>2 DEF BrokerEnds, TypeOK, BrokerTypeOK
    <3>3. \A j \in Orders : remote'[j].filled = remote[j].filled
      BY <2>2 DEF BrokerEnds, TypeOK, BrokerTypeOK, RemoteRow
    <3>4. Bought(s)' => Bought(s)
      BY <1>2, <3>3 DEF Bought
    <3>5. remote[i].filled \in Nat
      BY <1>1 DEF RemoteRow
    <3> QED BY <1>1, <3>1, <3>2, <3>4, <3>5
  <2>3. ASSUME NEW n \in 1 .. EntryQty, Fill(i, n), s = orders[i].symbol
        PROVE  /\ held'[s] \in Int /\ reserved'[s] \in Int
               /\ held'[s] - reserved'[s] >= held[s] - reserved[s]
               /\ OwnRow(s) => held'[s] > held[s]
    <3>1. n \in Int /\ n > 0
      BY LedgerAssumption
    <3>2. CASE orders[i].side = "BUY"
      <4>1. held'[s] = held[s] + n /\ reserved'[s] = reserved[s]
        BY <1>1, <2>3, <3>2 DEF Fill, TypeOK, BrokerTypeOK
      <4> QED BY <1>1, <3>1, <4>1
    <3>3. CASE orders[i].side = "SELL"
      <4>1. held'[s] = held[s] - n /\ reserved'[s] = reserved[s] - n
        BY <1>1, <2>3, <3>3 DEF Fill, TypeOK, BrokerTypeOK
      <4>2. ~OwnRow(s)
        BY <2>3, <3>3 DEF SaleInv, OwnRowsAreHeld
      <4> QED BY <1>1, <3>1, <4>1, <4>2
    <3> QED BY <1>1, <3>2, <3>3
  <2> QED BY <1>0, <1>1, <2>1, <2>2, <2>3
<1>4. \A j \in Orders : remote[j].filled > 0 => remote'[j].filled > 0
  <2>1. TypeOK'
    BY BrokerTypes
  <2>2. \A j \in Orders : j # i => remote'[j] = remote[j]
    BY <1>0 DEF BrokerEnds, Fill, TypeOK, BrokerTypeOK
  <2>3. CASE BrokerEnds(i)
    <3>1. remote'[i].filled = remote[i].filled
      BY <2>3 DEF BrokerEnds, TypeOK, BrokerTypeOK, RemoteRow
    <3> QED BY <2>2, <3>1
  <2>4. ASSUME NEW n \in 1 .. EntryQty, Fill(i, n) PROVE remote'[i].filled > 0
    <3>1. remote'[i].filled = remote[i].filled + n
      BY <2>4 DEF Fill, TypeOK, BrokerTypeOK, RemoteRow
    <3> QED BY <1>1, <3>1, LedgerAssumption DEF RemoteRow
  <2> QED BY <1>0, <2>2, <2>3, <2>4
<1>5. OwnRowsAreHeld'
  BY <1>1, <1>2, <1>3 DEF SaleInv, OwnRowsAreHeld, OwnRow
<1>6. SavedRowsFit' /\ FillsAreReal'
  BY <1>2, <1>4 DEF SaleInv, SavedRowsFit, FillsAreReal, Syncing, OwnRow
<1>7. RowsAreCovered'
  <2>1. \A s \in Symbols : position[s].available \in Nat
    BY DEF TypeOK, TablesTypeOK, PositionRow
  <2> QED BY <1>1, <1>2, <1>3, <2>1 DEF SaleInv, RowsAreCovered, OwnRow, Trading, Guarded
<1>8. NeverOversold'
  BY <1>1, <1>3 DEF SaleInv, NeverOversold
<1> QED BY <1>5, <1>6, <1>7, <1>8 DEF SaleInv

----------------------------------------------------------------------------
(* SaleInv is inductive, where position syncs succeed *)

(* Nothing held and nothing on sale at the start. *)
LEMMA InitSaleInv == Init => SaleInv
<1> SUFFICES ASSUME Init PROVE SaleInv
  OBVIOUS
<1>1. \A i \in Orders : /\ remote[i].filled = 0 /\ orders[i].status = "NONE"
                        /\ orders[i].side = "BUY"
  BY DEF Init, NoRows, NoOrderRow
<1>2. \A s \in Symbols : /\ position[s].source = "LOCAL_STRATEGY" /\ position[s].status = "NONE"
                         /\ held[s] = 0 /\ reserved[s] = 0
  BY DEF Init, NoPosition
<1>3. ~Syncing
  BY DEF Init, Syncing
<1>4. OwnRowsAreHeld
  BY <1>1, <1>2 DEF OwnRowsAreHeld, OwnRow, Bought
<1>5. SavedRowsFit /\ FillsAreReal /\ RowsAreCovered /\ NeverOversold
  BY <1>1, <1>2, <1>3 DEF SavedRowsFit, FillsAreReal, RowsAreCovered, NeverOversold
<1> QED BY <1>4, <1>5 DEF SaleInv

(* Every step keeps the balance of shares held and shares on sale, where the position
   sync that precedes an exit did read the broker. *)
LEMMA SaleInvInductive ==
  ASSUME ~PositionSyncFails
  PROVE  TypeOK /\ DeadInv /\ SaleInv /\ [Next]_vars => SaleInv'
<1> SUFFICES ASSUME TypeOK, DeadInv, SaleInv, [Next]_vars PROVE SaleInv'
  OBVIOUS
<1>1. CASE BeginOrderSync
  <2>1. /\ UNCHANGED <<orders, position, remote, held, reserved>> /\ pc' = "orders"
        /\ saved'.orders = orders /\ saved'.position = position
    BY <1>1 DEF BeginOrderSync, tables, broker
  <2>2. OwnRowsAreHeld' /\ FillsAreReal' /\ NeverOversold'
    BY <2>1 DEF SaleInv, OwnRowsAreHeld, OwnRow, Bought, FillsAreReal, NeverOversold
  <2>3. SavedRowsFit' /\ RowsAreCovered'
    BY <2>1 DEF SaleInv, OwnRowsAreHeld, OwnRow, SavedRowsFit, RowsAreCovered, Trading, Guarded
  <2> QED BY <2>2, <2>3 DEF SaleInv
<1>2. CASE \E i \in Orders : Visit(i)
  BY <1>2, VisitKeepsSaleInv
<1>3. CASE BeginDealSync \/ UNCHANGED vars
  <2>1. UNCHANGED <<orders, position, remote, held, reserved, saved>> /\ (Syncing' <=> Syncing)
    BY <1>3 DEF BeginDealSync, tables, broker, sync, loop, vars, Syncing
  <2>2. OwnRowsAreHeld' /\ SavedRowsFit' /\ FillsAreReal' /\ NeverOversold'
    BY <2>1 DEF SaleInv, OwnRowsAreHeld, SavedRowsFit, OwnRow, Bought, FillsAreReal, NeverOversold
  <2>3. (Trading' => Trading) /\ \A s \in Symbols : Guarded(s)' => Guarded(s)
    BY <1>3 DEF BeginDealSync, vars, loop, Trading, Guarded
  <2>4. RowsAreCovered'
    BY <2>1, <2>3 DEF SaleInv, RowsAreCovered, OwnRow
  <2> QED BY <2>2, <2>4 DEF SaleInv
<1>4. CASE CommitOrderSync \/ Tick \/ Quiet
  <2>1. CASE CommitOrderSync
    <3>1. UNCHANGED <<orders, position, remote, held, reserved>> /\ pc' = "positions"
      BY <2>1 DEF CommitOrderSync, tables, broker
    <3> QED BY <3>1, StillKeepsSaleInv DEF SameTerms, Syncing, Trading, Guarded
  <2>2. CASE Tick
    <3>1. UNCHANGED <<position, remote, held, reserved, pc>> /\ pc = "idle"
      BY <2>2 DEF Tick, broker, loop
    <3> QED BY <2>2, <3>1, TickedOrders, StillKeepsSaleInv DEF Syncing, Trading, Guarded
  <2>3. CASE Quiet
    <3>1. UNCHANGED <<orders, position, remote, held, reserved>> /\ ~Syncing'
      BY <2>3, QuietFrame DEF broker
    <3> QED BY <2>3, <3>1, QuietPhases, StillKeepsSaleInv DEF SameTerms
  <2> QED BY <1>4, <2>1, <2>2, <2>3
<1>5. CASE Syncing /\ RolledBack
  BY <1>5, RolledBackKeepsSaleInv
<1>6. CASE SyncPositions
  BY <1>6, SyncPositionsKeepsSaleInv
<1>7. CASE \/ \E s \in Symbols, reason \in ExitReasons :
                SendExit(s, reason) \/ ExitAnswerLost(s, reason) \/ CrashAfterExit(s, reason)
           \/ \E p \in Plans : PlaceEntry(p) \/ EntryAnswerLost(p) \/ CrashAfterEntry(p)
  BY <1>7, ExitKeepsSaleInv, EntryKeepsSaleInv
<1>8. CASE Broker
  BY <1>8, BrokerKeepsSaleInv
<1> QED BY <1>1, <1>2, <1>3, <1>4, <1>5, <1>6, <1>7, <1>8, Kinds

\* In a loop whose position syncs succeed, the exits live at the broker never add up to more
\* shares than it holds: with any fills, cancels, crashes, lost answers and orders out of
\* sight, and any number of retried exits.  The loop swallows a failed position sync and may
\* then sell by an earlier reading: without the hypothesis the claim is false
\* (position_manager.py:111-190, position_sync.py:64-66, sim_loop.py:34-75).
THEOREM NeverSoldShort ==
  ASSUME ~PositionSyncFails
  PROVE  Spec => []NeverOversold
<1>1. Init => DeadInv /\ SaleInv
  BY InitSafe, InitSaleInv
<1>2. TypeOK /\ DeadInv /\ SaleInv /\ [Next]_vars => DeadInv' /\ SaleInv'
  BY DeadInvInductive, SaleInvInductive
<1>3. SaleInv => NeverOversold
  BY DEF SaleInv
<1> QED BY <1>1, <1>2, <1>3, TypeCorrect, PTL DEF Spec

----------------------------------------------------------------------------
(* The entries behind a position *)

\* An entry of that plan has bought shares of the symbol.
Backed(s, p) == \E i \in Entries(s) : orders[i].plan = p
StillBacked(s, p) == \E i \in Entries(s)' : orders'[i].plan = p

\* Only an order the broker has can fill, and what the table calls filled did.
FillsFit ==
  /\ \A i \in Orders : remote[i].status = "NONE" => remote[i].filled = 0
  /\ FillsAreReal

\* Behind every plan a row names, in memory or in the database, is an entry of it.
RowsAreBacked ==
  \A s \in Symbols :
    /\ position[s].plan # NoPlan => Backed(s, position[s].plan)
    /\ Syncing /\ saved.position[s].plan # NoPlan => Backed(s, saved.position[s].plan)

\* What has bought or sold shares goes on having done so, in the same terms.
FillsKept ==
  \A i \in Orders :
    /\ remote[i].filled > 0 =>
         /\ remote'[i].filled > 0 /\ orders'[i].symbol = orders[i].symbol
         /\ orders'[i].side = orders[i].side /\ orders'[i].plan = orders[i].plan
    /\ remote'[i].status = "NONE" => remote'[i].filled = 0

\* The broker fills orders it has, and takes no fill back.
LEMMA BrokerFills ==
  ASSUME TypeOK, Broker
  PROVE  /\ UNCHANGED <<tables, loop>>
         /\ \A i \in Orders : /\ remote'[i].filled >= remote[i].filled
                              /\ remote'[i] # remote[i] => remote'[i].status # "NONE"
<1>1. PICK i \in Orders : BrokerEnds(i) \/ \E n \in 1 .. EntryQty : Fill(i, n)
  BY DEF Broker
<1>2. UNCHANGED <<tables, loop>>
  BY <1>1 DEF BrokerEnds, Fill
<1>3. \A j \in Orders : remote[j] \in RemoteRow /\ remote[j].filled \in Int
  BY DEF TypeOK, BrokerTypeOK, RemoteRow
<1>4. \A j \in Orders : j # i => remote'[j] = remote[j]
  BY <1>1 DEF BrokerEnds, Fill, TypeOK, BrokerTypeOK
<1>5. CASE BrokerEnds(i)
  <2>1. PICK status \in DeadByBroker : remote' = [remote EXCEPT ![i].status = status]
    BY <1>5 DEF BrokerEnds
  <2>2. remote'[i].filled = remote[i].filled /\ remote'[i].status = status
    BY <1>3, <2>1 DEF TypeOK, BrokerTypeOK, RemoteRow
  <2>3. status # "NONE"
    BY <2>1, BrokerAssumption
  <2>4. \A j \in Orders : /\ remote'[j].filled >= remote[j].filled
                          /\ remote'[j] # remote[j] => remote'[j].status # "NONE"
    BY <1>3, <1>4, <2>2, <2>3
  <2> QED BY <1>2, <2>4
<1>6. ASSUME NEW n \in 1 .. EntryQty, Fill(i, n)
      PROVE  \A j \in Orders : /\ remote'[j].filled >= remote[j].filled
                               /\ remote'[j] # remote[j] => remote'[j].status # "NONE"
  <2>1. /\ remote'[i].filled = remote[i].filled + n
        /\ remote'[i].status \in {"FILLED_ALL", "FILLED_PART"}
    BY <1>3, <1>6 DEF Fill, TypeOK, BrokerTypeOK, RemoteRow
  <2>2. remote'[i].filled >= remote[i].filled
    BY <1>3, <2>1, LedgerAssumption
  <2> QED BY <1>3, <1>4, <2>1, <2>2
<1> QED BY <1>1, <1>2, <1>5, <1>6

\* No step takes a fill back.
LEMMA FillsStay ==
  ASSUME TypeOK, DeadInv, FillsFit, [Next]_vars
  PROVE  FillsKept
<1>0. /\ \A i \in Orders : remote[i].status = "NONE" => remote[i].filled = 0
      /\ \A i \in Orders : remote[i] \in RemoteRow /\ remote[i].filled \in Nat
      /\ remote \in [Orders -> RemoteRow]
  BY DEF FillsFit, TypeOK, BrokerTypeOK, RemoteRow
<1>1. SameTerms /\ remote' = remote => FillsKept
  BY <1>0 DEF SameTerms, FillsKept
<1>2. CASE \E i \in Orders : Visit(i)
  <2>1. PICK i \in Orders : Visit(i)
    BY <1>2
  <2>2. /\ SameTerms
        /\ remote' = remote \/ remote' = [remote EXCEPT ![i].status = "CANCELLED_ALL"]
    BY <2>1, VisitFrame
  <2>3. \A j \in Orders : /\ remote'[j].filled = remote[j].filled
                          /\ remote'[j].status \in {remote[j].status, "CANCELLED_ALL"}
    BY <1>0, <2>2 DEF RemoteRow
  <2> QED BY <1>0, <2>2, <2>3 DEF SameTerms, FillsKept
<1>3. ASSUME NEW i \in Orders, NEW row \in OrderRow, Placing(i, row) PROVE FillsKept
  <2>1. /\ remote[i].filled = 0 /\ remote'[i] = [status |-> "SUBMITTED", filled |-> 0]
        /\ \A j \in Orders : j # i => orders'[j] = orders[j] /\ remote'[j] = remote[j]
    BY <1>0, <1>3 DEF Placing, Unused, TypeOK, TablesTypeOK
  <2> QED BY <1>0, <2>1 DEF FillsKept
<1>4. CASE Broker
  <2>1. TypeOK'
    BY <1>4, BrokerTypes
  <2>2. UNCHANGED orders
    BY <1>4, BrokerFills DEF tables
  <2>3. \A i \in Orders : remote'[i].filled \in Nat
    BY <2>1 DEF TypeOK, BrokerTypeOK, RemoteRow
  <2> QED BY <1>0, <1>4, <2>2, <2>3, BrokerFills DEF FillsKept
<1>5. CASE BeginOrderSync \/ BeginDealSync \/ CommitOrderSync \/ Quiet \/ UNCHANGED vars
  <2>1. UNCHANGED <<orders, remote>>
    BY <1>5, QuietFrame DEF BeginOrderSync, BeginDealSync, CommitOrderSync, tables, broker, vars
  <2> QED BY <1>1, <2>1 DEF SameTerms
<1>6. CASE SyncPositions \/ Tick
  <2>1. SameTerms /\ remote' = remote
    BY <1>6, SyncedOrders, TickedOrders DEF SyncPositions, Tick, broker
  <2> QED BY <1>1, <2>1
<1>7. CASE Syncing /\ RolledBack
  <2>1. SameTerms /\ remote' = remote
    BY <1>7 DEF RolledBack, broker, DeadInv, SavedOrdersFit, SameTerms
  <2> QED BY <1>1, <2>1
<1>8. CASE \/ \E s \in Symbols, reason \in ExitReasons :
                SendExit(s, reason) \/ ExitAnswerLost(s, reason) \/ CrashAfterExit(s, reason)
           \/ \E p \in Plans : PlaceEntry(p) \/ EntryAnswerLost(p) \/ CrashAfterEntry(p)
  <2>1. \E i \in Orders, row \in OrderRow : Placing(i, row)
    BY <1>8, ExitPlaced, EntryPlacing
  <2> QED BY <1>3, <2>1
<1> QED BY <1>2, <1>4, <1>5, <1>6, <1>7, <1>8, Kinds

(* FillsFit is inductive. *)
LEMMA FillsFitInductive == TypeOK /\ DeadInv /\ FillsFit /\ [Next]_vars => FillsFit'
<1> SUFFICES ASSUME TypeOK, DeadInv, FillsFit, [Next]_vars PROVE FillsFit'
  OBVIOUS
<1>1. FillsKept
  BY FillsStay
<1>2. SUFFICES FillsAreReal'
  BY <1>1 DEF FillsFit, FillsKept
<1>3. \A i \in Orders : remote[i].filled > 0 => remote'[i].filled > 0
  BY <1>1 DEF FillsKept
<1>4. SUFFICES ASSUME NEW i \in Orders, ~(remote'[i].filled > 0)
               PROVE  /\ orders'[i].status # "FILLED"
                      /\ Syncing' => saved'.orders[i].status # "FILLED"
  BY DEF FillsAreReal
<1>5. /\ ~(remote[i].filled > 0) /\ orders[i].status # "FILLED"
      /\ Syncing => saved.orders[i].status # "FILLED"
  BY <1>3, <1>4 DEF FillsFit, FillsAreReal
<1>6. CASE BeginOrderSync
  BY <1>5, <1>6 DEF BeginOrderSync, tables
<1>7. CASE \E j \in Orders : Visit(j)
  <2>1. PICK j \in Orders : Visit(j)
    BY <1>7
  <2>2. /\ Syncing /\ saved'.orders = saved.orders
        /\ \A k \in Orders : k # j => orders'[k] = orders[k]
    BY <2>1, VisitFrame
  <2>3. orders'[j].status = "FILLED" => remote[j].filled > 0
    BY <2>1, VisitFills DEF FillsFit
  <2> QED BY <1>5, <2>2, <2>3
<1>8. CASE BeginDealSync \/ CommitOrderSync \/ Quiet \/ UNCHANGED vars \/ Broker
  <2>1. UNCHANGED orders /\ (Syncing' => Syncing /\ UNCHANGED saved)
    BY <1>8, QuietFrame, BrokerFills
    DEF BeginDealSync, CommitOrderSync, tables, vars, loop, sync, Syncing
  <2> QED BY <1>5, <2>1
<1>9. CASE SyncPositions \/ Tick
  <2>1. ~Syncing' /\ orders'[i].status \in {orders[i].status, "FILLED_INFERRED"}
    BY <1>9, SyncedOrders, TickedOrders DEF SyncPositions, Tick, loop, Syncing
  <2> QED BY <1>5, <2>1
<1>10. CASE Syncing /\ RolledBack
  BY <1>5, <1>10 DEF RolledBack, LoopOver, Syncing
<1>11. CASE \/ \E s \in Symbols, reason \in ExitReasons :
                 SendExit(s, reason) \/ ExitAnswerLost(s, reason) \/ CrashAfterExit(s, reason)
            \/ \E p \in Plans : PlaceEntry(p) \/ EntryAnswerLost(p) \/ CrashAfterEntry(p)
  <2>1. PICK j \in Orders, row \in OrderRow : Placing(j, row)
    BY <1>11, ExitPlaced, EntryPlacing
  <2>2. orders'[i].status \in {orders[i].status, row.status} /\ row.status # "FILLED" /\ ~Syncing'
    BY <2>1 DEF Placing, TypeOK, TablesTypeOK
  <2> QED BY <1>5, <2>2
<1> QED BY <1>6, <1>7, <1>8, <1>9, <1>10, <1>11, Kinds

\* So an entry behind a plan stays behind it.
LEMMA BackingStays ==
  ASSUME FillsKept, NEW s \in Symbols, NEW p, Backed(s, p)
  PROVE  StillBacked(s, p)
<1>1. PICK i \in Entries(s) : orders[i].plan = p
  BY DEF Backed
<1>2. /\ i \in Orders /\ orders[i].symbol = s /\ orders[i].side = "BUY" /\ remote[i].filled > 0
  BY <1>1 DEF Entries
<1>3. i \in Entries(s)' /\ orders'[i].plan = p
  BY <1>1, <1>2 DEF Entries, FillsKept
<1> QED BY <1>3 DEF StillBacked

\* A fill that is booked opens or closes the row of its symbol, and ties it at most to
\* the plan of the entry that filled.
LEMMA BookedPlan ==
  ASSUME TypeOK, NEW i \in Orders, NEW dealt \in Nat, ApplyFill(orders[i], dealt),
         NEW s \in Symbols
  PROVE  /\ position'[s].status \in {position[s].status, "OPEN", "CLOSED"}
         /\ orders[i].side = "BUY" /\ orders[i].symbol = s => position'[s].status = "OPEN"
         /\ \/ position'[s].plan = position[s].plan
            \/ /\ orders[i].side = "BUY" /\ orders[i].symbol = s
               /\ position'[s].plan = orders[i].plan
<1>1. position[s] \in PositionRow /\ orders[i] \in OrderRow
  BY DEF TypeOK, TablesTypeOK
<1>2. CASE s # orders[i].symbol
  BY <1>2 DEF ApplyFill, TypeOK, TablesTypeOK
<1>3. CASE s = orders[i].symbol /\ orders[i].side = "BUY"
  <2>1. position'[s] = BoughtPosition(orders[i], dealt)
    BY <1>3 DEF ApplyFill, TypeOK, TablesTypeOK
  <2>2. /\ BoughtPosition(orders[i], dealt).status = "OPEN"
        /\ BoughtPosition(orders[i], dealt).plan = orders[i].plan
    BY <1>1, <1>3 DEF BoughtPosition, NoPosition, PositionRow
  <2> QED BY <1>3, <2>1, <2>2
<1>4. CASE s = orders[i].symbol /\ orders[i].side # "BUY"
  <2> DEFINE sold == DealtOr(dealt, orders[i].qty)
             left == AtLeastZero(position[s].shares - sold)
             avail == AtLeastZero(position[s].available - sold)
             base == [position[s] EXCEPT !.shares = left, !.available = avail]
             over == [base EXCEPT !.status = "CLOSED", !.verified = TRUE]
             part == [base EXCEPT !.partial = @ \/ orders[i].reason = "TARGET_1_PARTIAL"]
  <2>1. position'[s] = SoldPosition(orders[i], dealt)
    BY <1>4 DEF ApplyFill, TypeOK, TablesTypeOK
  <2>2. SoldPosition(orders[i], dealt) =
          IF saved.position[s].status # "OPEN" THEN position[s]
          ELSE IF left = 0 THEN over ELSE part
    BY <1>4 DEF SoldPosition
  <2>3. /\ over.plan = position[s].plan /\ over.status = "CLOSED"
        /\ part.plan = position[s].plan /\ part.status = position[s].status
    BY <1>1 DEF PositionRow
  <2> HIDE DEF over, part, left
  <2> QED BY <1>4, <2>1, <2>2, <2>3
<1> QED BY <1>2, <1>3, <1>4

\* The position sync ties a row only to the plan of an entry it calls filled.
LEMMA SyncedPlan ==
  ASSUME TypeOK, SyncPositions, NEW s \in Symbols
  PROVE  \/ position'[s].plan \in {position[s].plan, NoPlan}
         \/ \E i \in Orders : /\ orders'[i].symbol = s /\ orders'[i].side = "BUY"
                              /\ orders'[i].status = "FILLED_INFERRED"
                              /\ orders'[i].plan = position'[s].plan
<1>1. position[s] \in PositionRow /\ \A i \in Orders : orders[i] \in OrderRow
  BY DEF TypeOK, TablesTypeOK
<1>2. PICK agree \in MatchOutcomes :
        /\ position'[s] = IF held[s] > 0
                          THEN IF position[s].status = "NONE" THEN Detected(s, agree)
                                                              ELSE Resynced(s)
                          ELSE IF Gone(s) THEN Vanished(s) ELSE position[s]
        /\ orders' = [i \in Orders |->
             IF i \in Inferred(agree)
             THEN [orders[i] EXCEPT !.status = "FILLED_INFERRED", !.age = 0,
                                    !.dealt = held[orders[i].symbol]]
             ELSE orders[i]]
  BY DEF SyncPositions
<1>3. Resynced(s).plan = position[s].plan /\ Vanished(s).plan = position[s].plan
  BY <1>1 DEF Resynced, Vanished, PositionRow
<1>4. CASE held[s] > 0 /\ position[s].status = "NONE"
  <2> DEFINE match == MatchingBuy(s, agree)
  <2>1. Detected(s, agree).plan = IF match # NoOrder THEN orders[match].plan ELSE NoPlan
    BY DEF Detected
  <2>2. ASSUME match # NoOrder
        PROVE  match \in Orders /\ Explains(match, s, agree)
    BY <2>2 DEF MatchingBuy
  <2>3. ASSUME match # NoOrder
        PROVE  /\ match \in Inferred(agree)
               /\ orders[match].symbol = s /\ orders[match].side = "BUY"
    BY <1>4, <2>2, <2>3 DEF Inferred, Explains, Candidates
  <2>4. ASSUME match # NoOrder
        PROVE  /\ orders'[match].status = "FILLED_INFERRED"
               /\ orders'[match].symbol = s /\ orders'[match].side = "BUY"
               /\ orders'[match].plan = orders[match].plan
    <3>1. match \in Orders /\ orders[match] \in OrderRow
      BY <1>1, <2>2, <2>4
    <3>2. orders'[match] = [orders[match] EXCEPT !.status = "FILLED_INFERRED", !.age = 0,
                                                 !.dealt = held[orders[match].symbol]]
      BY <1>2, <2>3, <2>4, <3>1
    <3> HIDE DEF match
    <3> QED BY <2>3, <2>4, <3>1, <3>2 DEF OrderRow
  <2> HIDE DEF match
  <2> QED BY <1>2, <1>4, <2>1, <2>2, <2>4
<1> QED BY <1>2, <1>3, <1>4

\* A step keeps an entry behind every plan a row names, if the entries the position sync
\* calls filled did fill.
LEMMA RowsStayBacked ==
  ASSUME TypeOK, DeadInv, FillsFit, RowsAreBacked, [Next]_vars, InferredEntriesAreFilled'
  PROVE  RowsAreBacked'
<1>1. FillsKept
  BY FillsStay
<1>2. SUFFICES ASSUME NEW s \in Symbols
               PROVE  /\ position'[s].plan # NoPlan => StillBacked(s, position'[s].plan)
                      /\ Syncing' /\ saved'.position[s].plan # NoPlan =>
                           StillBacked(s, saved'.position[s].plan)
  BY DEF RowsAreBacked, Backed, StillBacked
<1>3. /\ position[s].plan # NoPlan => StillBacked(s, position[s].plan)
      /\ Syncing /\ saved.position[s].plan # NoPlan => StillBacked(s, saved.position[s].plan)
  BY <1>1, BackingStays DEF RowsAreBacked
<1>4. CASE BeginOrderSync
  <2>1. UNCHANGED position /\ saved'.position = position
    BY <1>4 DEF BeginOrderSync, tables
  <2> QED BY <1>3, <2>1
<1>5. CASE \E i \in Orders : Visit(i)
  <2>1. PICK i \in Orders : Visit(i)
    BY <1>5
  <2>2. Syncing /\ saved'.position = saved.position /\ SameTerms
    BY <2>1, VisitFrame
  <2>3. \/ UNCHANGED position
        \/ remote[i].filled > 0 /\ \E dealt \in Nat : ApplyFill(orders[i], dealt)
    BY <2>1, VisitFills DEF FillsFit
  <2>4. \/ position'[s].plan = position[s].plan
        \/ /\ remote[i].filled > 0 /\ orders[i].side = "BUY" /\ orders[i].symbol = s
           /\ position'[s].plan = orders[i].plan
    BY <2>3, BookedPlan
  <2>5. ASSUME remote[i].filled > 0, orders[i].side = "BUY", orders[i].symbol = s
        PROVE  Backed(s, orders[i].plan)
    BY <2>5 DEF Backed, Entries
  <2>6. position'[s].plan # NoPlan => StillBacked(s, position'[s].plan)
    BY <1>1, <1>3, <2>4, <2>5, BackingStays
  <2> QED BY <1>3, <2>2, <2>6
<1>6. CASE BeginDealSync \/ CommitOrderSync \/ Quiet \/ UNCHANGED vars \/ Broker \/ Tick
  <2>1. UNCHANGED position /\ (Syncing' => Syncing /\ UNCHANGED saved)
    BY <1>6, QuietFrame, BrokerFills
    DEF BeginDealSync, CommitOrderSync, Tick, tables, vars, loop, sync, Syncing
  <2> QED BY <1>3, <2>1
<1>7. CASE SyncPositions
  <2>1. ~Syncing'
    BY <1>7 DEF SyncPositions, Syncing
  <2>2. CASE position'[s].plan \in {position[s].plan, NoPlan}
    BY <1>3, <2>1, <2>2
  <2>3. CASE \E i \in Orders : /\ orders'[i].symbol = s /\ orders'[i].side = "BUY"
                               /\ orders'[i].status = "FILLED_INFERRED"
                               /\ orders'[i].plan = position'[s].plan
    <3>1. \A i \in Orders : orders'[i].status = "FILLED_INFERRED" => remote'[i].filled > 0
      BY DEF InferredEntriesAreFilled
    <3>2. StillBacked(s, position'[s].plan)
      BY <2>3, <3>1 DEF StillBacked, Entries
    <3> QED BY <2>1, <3>2
  <2> QED BY <1>7, <2>2, <2>3, SyncedPlan
<1>8. CASE Syncing /\ RolledBack
  <2>1. position' = saved.position /\ ~Syncing'
    BY <1>8 DEF RolledBack, LoopOver, Syncing
  <2> QED BY <1>3, <1>8, <2>1
<1>9. CASE \/ \E r \in Symbols, reason \in ExitReasons :
                SendExit(r, reason) \/ ExitAnswerLost(r, reason) \/ CrashAfterExit(r, reason)
           \/ \E p \in Plans : PlaceEntry(p) \/ EntryAnswerLost(p) \/ CrashAfterEntry(p)
  <2>1. UNCHANGED position /\ ~Syncing'
    BY <1>9, ExitPlaced, EntryPlacing DEF Placing
  <2> QED BY <1>3, <2>1
<1> QED BY <1>4, <1>5, <1>6, <1>7, <1>8, <1>9, Kinds

(* Nothing has filled at the start, and no row names a plan. *)
LEMMA InitFills == Init => FillsFit /\ RowsAreBacked
<1> SUFFICES ASSUME Init PROVE FillsFit /\ RowsAreBacked
  OBVIOUS
<1>1. \A i \in Orders : remote[i].filled = 0 /\ orders[i].status = "NONE"
  BY DEF Init, NoRows, NoOrderRow
<1>2. (\A s \in Symbols : position[s].plan = NoPlan) /\ ~Syncing
  BY DEF Init, NoPosition, Syncing
<1> QED BY <1>1, <1>2 DEF FillsFit, FillsAreReal, RowsAreBacked

\* Whatever the constants, a position tied to a plan holds what an entry of that very plan
\* bought, as long as no entry the position sync called FILLED_INFERRED was mistaken for
\* another one: with fills booked late or from batches of deals, syncs that are undone,
\* crashes and rows made, closed and opened again (order_sync.py:143-170,
\* position_sync.py:69-90, 226-276).
THEOREM PositionsFollowTheirPlans ==
  Spec => ([]InferredEntriesAreFilled => []PositionsComeFromTheirPlan)
<1>1. Init => DeadInv /\ FillsFit /\ RowsAreBacked
  BY InitSafe, InitFills
<1>2. TypeOK /\ DeadInv /\ FillsFit /\ [Next]_vars => DeadInv' /\ FillsFit'
  BY DeadInvInductive, FillsFitInductive
<1>3. TypeOK /\ DeadInv /\ FillsFit /\ RowsAreBacked /\ [Next]_vars
        /\ InferredEntriesAreFilled' => RowsAreBacked'
  BY RowsStayBacked
<1>4. RowsAreBacked => PositionsComeFromTheirPlan
  BY DEF RowsAreBacked, Backed, PositionsComeFromTheirPlan
<1> QED BY <1>1, <1>2, <1>3, <1>4, TypeCorrect, PTL DEF Spec

----------------------------------------------------------------------------
(* Entries inferred as filled, where every order stays in sight: the broker leaves none  *)
(* out, every answer of place_order arrives and no process dies between order and commit *)

Pending(os, i) == os[i].side = "BUY" /\ os[i].status \in {"SUBMITTED", "PARTIALLY_FILLED"}

\* Every order at the broker has its row in the table, and of the unfinished entries there
\* is one for each symbol.
OrdersInSight(os, rm) ==
  \A i \in Orders :
    /\ os[i].status \notin {"LOST", "UNKNOWN_REMOTE_MISSING"}
    /\ (os[i].status = "NONE") <=> (rm[i].status = "NONE")
    /\ os[i].status = "SELL_WAITING_RECONCILIATION" => os[i].side = "SELL"
    /\ os[i].status = "FILLED_INFERRED" => rm[i].filled > 0
    /\ \A j \in Orders :
         Pending(os, i) /\ Pending(os, j) /\ os[i].symbol = os[j].symbol => i = j

\* Of a symbol that has had no row nothing was sold and no fill is booked: what is held of
\* it its entries bought, and while one of them is unfinished, that one alone.
FreshSymbols(os, ps, rm, hd) ==
  \A s \in Symbols : ps[s].status = "NONE" =>
    /\ hd[s] >= 0
    /\ (hd[s] > 0) <=> (\E i \in Orders : os[i].symbol = s /\ rm[i].filled > 0)
    /\ \A i \in Orders : os[i].symbol = s /\ os[i].status # "NONE" =>
         /\ os[i].side = "BUY" /\ os[i].status \notin {"FILLED", "FILLED_INFERRED"}
         /\ Pending(os, i) =>
              \A j \in Orders : os[j].symbol = s /\ rm[j].filled > 0 => j = i

\* A verdict of agreement is of the loop's own reconciliation, and from it on shares in a
\* symbol without a row can only come from an entry that is still unfinished.
AfterReconcile == {"save", "manage", "portfolio", "validate", "approve", "execute"}
FreshFillsPend ==
  clean =>
    /\ pc \in AfterReconcile
    /\ \A s \in Symbols, i \in Orders :
         position[s].status = "NONE" /\ orders[i].symbol = s /\ remote[i].filled > 0 =>
           Pending(orders, i)

\* The order sync has read every order, and visits the unfinished ones.
ReadingsComplete ==
  /\ pc = "orders" => todo \subseteq {i \in Orders : orders[i].status \in ReconcileStatuses}
  /\ Syncing => \A i \in Orders : remote[i].status # "NONE" => rows[i].status # "NONE"

SightInv ==
  /\ OrdersInSight(orders, remote) /\ FreshSymbols(orders, position, remote, held)
  /\ Syncing => /\ OrdersInSight(saved.orders, remote)
                /\ FreshSymbols(saved.orders, saved.position, remote, held)
  /\ FreshFillsPend /\ ReadingsComplete

\* The kinds of steps that are left.
LEMMA KindsInSight ==
  ASSUME Next, ~AnswersLost, ~MayCrash
  PROVE  \/ BeginOrderSync \/ \E i \in Orders : Visit(i)
         \/ BeginDealSync \/ CommitOrderSync
         \/ Syncing /\ RolledBack
         \/ SyncPositions \/ Quiet
         \/ \E s \in Symbols, reason \in ExitReasons : SendExit(s, reason)
         \/ \E p \in Plans : PlaceEntry(p)
         \/ Broker \/ Tick
<1>1. CASE SyncOrder
  <2>1. OrderSyncRaises => Syncing /\ RolledBack
    BY DEF OrderSyncRaises, VisitsDone, Syncing
  <2> QED BY <1>1, <2>1 DEF SyncOrder, Visit
<1>2. CASE LoopStep /\ ~SyncOrder
  BY <1>2 DEF LoopStep, Quiet, ExitAnswerLost, EntryAnswerLost
<1>3. CASE Broker \/ Tick \/ NewDay \/ \E pool \in Pools : GeneratePlans(pool)
  BY <1>3 DEF Quiet
<1> QED BY <1>1, <1>2, <1>3 DEF Next, Crash

\* A step of the tables reopens no entry, forgets no order, and opens the row of every
\* entry it calls filled.
TablesMove(os, ps, rm, os2, ps2, rm2) ==
  /\ \A i \in Orders :
       /\ rm2[i].filled = rm[i].filled
       /\ (rm2[i].status = "NONE") <=> (rm[i].status = "NONE")
       /\ os2[i].symbol = os[i].symbol /\ os2[i].side = os[i].side
       /\ (os2[i].status = "NONE") <=> (os[i].status = "NONE")
       /\ os2[i].status \notin {"LOST", "UNKNOWN_REMOTE_MISSING"}
       /\ os2[i].status = "SELL_WAITING_RECONCILIATION" => os2[i].side = "SELL"
       /\ os2[i].status = "FILLED_INFERRED" => rm[i].filled > 0
       /\ Pending(os2, i) => Pending(os, i)
       /\ os2[i].status \in {"FILLED", "FILLED_INFERRED"} /\ os2[i].side = "BUY" =>
            ps2[os2[i].symbol].status # "NONE"
  /\ \A s \in Symbols : ps2[s].status = "NONE" => ps[s].status = "NONE"

(* Such a step keeps every order in sight. *)
LEMMA TablesStayInSight ==
  ASSUME NEW os, NEW ps, NEW rm, NEW hd, NEW os2, NEW ps2, NEW rm2,
         OrdersInSight(os, rm), FreshSymbols(os, ps, rm, hd),
         TablesMove(os, ps, rm, os2, ps2, rm2)
  PROVE  OrdersInSight(os2, rm2) /\ FreshSymbols(os2, ps2, rm2, hd)
<1>1. OrdersInSight(os2, rm2)
  BY DEF OrdersInSight, TablesMove
<1>2. ASSUME NEW s \in Symbols, ps2[s].status = "NONE"
      PROVE  /\ hd[s] >= 0
             /\ (hd[s] > 0) <=> (\E i \in Orders : os2[i].symbol = s /\ rm2[i].filled > 0)
  BY <1>2 DEF FreshSymbols, TablesMove
<1>3. ASSUME NEW s \in Symbols, ps2[s].status = "NONE",
             NEW i \in Orders, os2[i].symbol = s, os2[i].status # "NONE"
      PROVE  /\ os2[i].side = "BUY" /\ os2[i].status \notin {"FILLED", "FILLED_INFERRED"}
             /\ Pending(os2, i) =>
                  \A j \in Orders : os2[j].symbol = s /\ rm2[j].filled > 0 => j = i
  BY <1>3 DEF FreshSymbols, TablesMove
<1> QED BY <1>1, <1>2, <1>3 DEF FreshSymbols

\* The order of a fresh symbol that still works at the broker is its unfinished entry.
LEMMA LiveEntryPends ==
  ASSUME NEW os, NEW ps, NEW rm, NEW hd, OrdersInSight(os, rm), FreshSymbols(os, ps, rm, hd),
         NEW i \in Orders, os[i].status \in OrderStatuses, os[i].status \notin Dead,
         rm[i].status # "NONE", os[i].symbol \in Symbols, ps[os[i].symbol].status = "NONE"
  PROVE  Pending(os, i)
<1>1. /\ os[i].status \notin {"NONE", "LOST", "UNKNOWN_REMOTE_MISSING"}
      /\ os[i].status = "SELL_WAITING_RECONCILIATION" => os[i].side = "SELL"
  BY DEF OrdersInSight
<1>2. os[i].side = "BUY" /\ os[i].status \notin {"FILLED", "FILLED_INFERRED"}
  BY <1>1 DEF FreshSymbols
<1> QED BY <1>1, <1>2 DEF Pending, OrderStatuses, ReconcileStatuses, Dead

\* What the broker does to an order: it ends, or fills further.
LEMMA BrokerEffect ==
  ASSUME TypeOK, Broker
  PROVE  \E i \in Orders :
           /\ RemoteLive(i) /\ remote'[i].status # "NONE"
           /\ \A j \in Orders : j # i => remote'[j] = remote[j]
           /\ \A s \in Symbols : s # orders[i].symbol => held'[s] = held[s]
           /\ \/ /\ remote'[i].filled = remote[i].filled
                 /\ held'[orders[i].symbol] = held[orders[i].symbol]
              \/ /\ remote'[i].filled > 0
                 /\ orders[i].side = "BUY" =>
                      held'[orders[i].symbol] > held[orders[i].symbol]
<1>1. PICK i \in Orders : BrokerEnds(i) \/ \E n \in 1 .. EntryQty : Fill(i, n)
  BY DEF Broker
<1>2. /\ remote \in [Orders -> RemoteRow] /\ remote[i] \in RemoteRow
      /\ held \in [Symbols -> Int] /\ orders[i].symbol \in Symbols
      /\ held[orders[i].symbol] \in Int /\ remote[i].filled \in Nat
  BY DEF TypeOK, TablesTypeOK, BrokerTypeOK, OrderRow, RemoteRow
<1>3. /\ RemoteLive(i)
      /\ \A j \in Orders : j # i => remote'[j] = remote[j]
      /\ \A s \in Symbols : s # orders[i].symbol => held'[s] = held[s]
  BY <1>1, <1>2 DEF BrokerEnds, Fill
<1>4. CASE BrokerEnds(i)
  <2>1. PICK status \in DeadByBroker : remote' = [remote EXCEPT ![i].status = status]
    BY <1>4 DEF BrokerEnds
  <2>2. remote'[i].filled = remote[i].filled /\ remote'[i].status # "NONE" /\ held' = held
    BY <1>2, <1>4, <2>1, BrokerAssumption DEF BrokerEnds, RemoteRow
  <2> QED BY <1>3, <2>2
<1>5. ASSUME NEW n \in 1 .. EntryQty, Fill(i, n)
      PROVE  /\ remote'[i].filled > 0 /\ remote'[i].status # "NONE"
             /\ orders[i].side = "BUY" => held'[orders[i].symbol] > held[orders[i].symbol]
  <2>1. n \in Int /\ n > 0
    BY LedgerAssumption
  <2>2. /\ remote'[i].filled = remote[i].filled + n
        /\ remote'[i].status \in {"FILLED_ALL", "FILLED_PART"}
    BY <1>2, <1>5 DEF Fill, RemoteRow
  <2>3. orders[i].side = "BUY" => held'[orders[i].symbol] = held[orders[i].symbol] + n
    BY <1>2, <1>5 DEF Fill
  <2> QED BY <1>2, <2>1, <2>2, <2>3
<1> QED BY <1>1, <1>3, <1>4, <1>5

\* A set of natural numbers has a least one: the set with the smallest interval below it.
LEMMA FirstOfSome ==
  ASSUME NEW X, X \subseteq Nat, X # {}
  PROVE  First(X) \in X
<1> DEFINE C == {0 .. n : n \in X}
           S == UNION C
<1>1. IsWellFoundedOn(StrictSubsetOrdering(S), FiniteSubsetsOf(S))
  BY FS_StrictSubsetOrderingWellFounded
<1>2. C \subseteq FiniteSubsetsOf(S) /\ C # {}
  <2>1. \A T \in C : IsFiniteSet(T)
    BY FS_Interval
  <2> QED BY <2>1 DEF FiniteSubsetsOf
<1>3. PICK T \in C : \A U \in C : <<U, T>> \notin StrictSubsetOrdering(S)
  <2> HIDE DEF S, C
  <2> QED BY <1>1, <1>2, WFMin
<1>4. PICK n \in X : T = 0 .. n
  OBVIOUS
<1>5. ASSUME NEW k \in X, ~(n <= k) PROVE FALSE
  <2>1. 0 .. k \in C /\ n \in Nat /\ k \in Nat /\ k < n
    BY <1>5
  <2>2. 0 .. k \subseteq 0 .. n /\ n \in 0 .. n /\ n \notin 0 .. k
    BY <2>1
  <2>3. 0 .. k \subseteq S /\ 0 .. n \subseteq S
    BY <2>1
  <2> HIDE DEF C, S
  <2> QED BY <1>3, <1>4, <2>1, <2>2, <2>3 DEF StrictSubsetOrdering
<1> QED BY <1>5 DEF First

\* A visit neither forgets an order nor reopens an entry, and opens the row of the entry
\* it calls filled.
LEMMA VisitStatus ==
  ASSUME TypeOK, DeadInv, FillsFit, SightInv, NEW i \in Orders, Visit(i)
  PROVE  /\ orders[i].status # "NONE"
         /\ orders'[i].status \notin {"NONE", "LOST", "UNKNOWN_REMOTE_MISSING"}
         /\ orders'[i].status = "SELL_WAITING_RECONCILIATION" => orders'[i].side = "SELL"
         /\ orders'[i].status = "FILLED_INFERRED" => orders[i].status = "FILLED_INFERRED"
         /\ Pending(orders', i) => Pending(orders, i)
         /\ orders'[i].status = "FILLED" /\ orders[i].side = "BUY" =>
              orders[i].status = "FILLED" \/ position'[orders[i].symbol].status = "OPEN"
<1>1. /\ orders \in [Orders -> OrderRow] /\ orders[i] \in OrderRow /\ orders[i].symbol \in Symbols
      /\ rows[i].filled \in Nat /\ remote[i].filled \in Nat
      /\ rows[i].filled <= remote[i].filled
  BY DEF TypeOK, TablesTypeOK, BrokerTypeOK, LoopTypeOK, OrderRow, RemoteRow, DeadInv, ReadingsLag
<1>2. /\ orders[i].status \notin {"LOST", "UNKNOWN_REMOTE_MISSING"}
      /\ (orders[i].status = "NONE") <=> (remote[i].status = "NONE")
      /\ orders[i].status = "SELL_WAITING_RECONCILIATION" => orders[i].side = "SELL"
  BY DEF SightInv, OrdersInSight
<1>3. orders'[i].side = orders[i].side
  BY VisitFrame DEF SameTerms
<1>4. CASE \E last \in 1 .. EntryQty : SyncDeals(i, last)
  <2>1. PICK last \in 1 .. EntryQty : SyncDeals(i, last)
    BY <1>4
  <2> DEFINE dealt == orders[i].booked + last
             booked == [orders[i] EXCEPT !.dealt = dealt, !.booked = rows[i].filled]
             over == [booked EXCEPT !.status = "FILLED", !.age = 0]
  <2>2. last \in 1 .. rows[i].filled - orders[i].booked
    BY <2>1 DEF SyncDeals
  <2>3. remote[i].filled > 0 /\ dealt \in Nat
    <3>1. orders[i].booked \in Nat
      BY <1>1 DEF OrderRow
    <3>2. last \in Nat /\ 1 <= last /\ last <= rows[i].filled - orders[i].booked
      BY <1>1, <2>2, <3>1
    <3> QED BY <1>1, <3>1, <3>2
  <2>4. orders[i].status # "NONE"
    BY <1>2, <2>3 DEF FillsFit
  <2>5. booked.status = orders[i].status /\ over.status = "FILLED"
    BY <1>1 DEF OrderRow
  <2>6. CASE dealt >= orders[i].qty
    <3>1. orders' = [orders EXCEPT ![i] = over] /\ ApplyFill(orders[i], dealt)
      BY <2>1, <2>6 DEF SyncDeals
    <3>2. orders'[i].status = "FILLED"
      BY <1>1, <2>5, <3>1
    <3>3. orders[i].side = "BUY" => position'[orders[i].symbol].status = "OPEN"
      BY <1>1, <2>3, <3>1, BookedPlan
    <3> QED BY <1>3, <2>4, <3>2, <3>3 DEF Pending
  <2>7. CASE ~(dealt >= orders[i].qty)
    <3>1. orders' = [orders EXCEPT ![i] = booked]
      BY <2>1, <2>7 DEF SyncDeals
    <3>2. orders'[i].status = orders[i].status
      BY <1>1, <2>5, <3>1
    <3> QED BY <1>2, <1>3, <2>4, <3>2 DEF Pending
  <2> QED BY <2>6, <2>7
<1>5. CASE ~\E last \in 1 .. EntryQty : SyncDeals(i, last)
  <2>0. SyncFilled(i) \/ SyncRefreshed(i) \/ SyncSellTimedOut(i) \/ SyncBuyCancelled(i)
          \/ SyncBuyMissing(i) \/ SyncBuyCancelFailed(i)
    BY <1>5 DEF Visit
  <2>1. /\ pc = "orders" /\ todo # {} /\ i = First(todo) /\ orders[i].symbol \in Symbols
    <3>1. Visited(i)
      BY <2>0 DEF SyncFilled, SyncRefreshed, SyncSellTimedOut, SyncBuyCancelled, SyncBuyMissing,
                  SyncBuyCancelFailed
    <3> QED BY <1>1, <3>1 DEF Visited
  <2>2. /\ orders[i].status \in ReconcileStatuses
        /\ orders[i].side = "BUY" => Pending(orders, i)
    <3>1. todo \subseteq {j \in Orders : orders[j].status \in ReconcileStatuses}
      BY <2>1 DEF SightInv, ReadingsComplete
    <3>2. todo \subseteq Nat
      BY <3>1 DEF Orders
    <3>3. i \in todo
      BY <2>1, <3>2, FirstOfSome
    <3> QED BY <1>1, <1>2, <3>1, <3>3 DEF Pending, ReconcileStatuses
  <2>3. Returned(i)
    <3>1. remote[i].status # "NONE" /\ Syncing
      BY <1>2, <2>1, <2>2 DEF ReconcileStatuses, Syncing
    <3> QED BY <3>1 DEF SightInv, ReadingsComplete, Returned
  <2>4. Refreshed(i).status \in {"SUBMITTED", "PARTIALLY_FILLED", "FILLED", "CANCELLED", "FAILED"}
    <3>1. rows[i].status \in DOMAIN NormalizeStatus
      BY <2>3 DEF Returned, TypeOK, LoopTypeOK, RemoteRow, RemoteStatuses
    <3> QED BY <2>3, <3>1, RefreshedTerms DEF ReadStatus, NormalizeStatus
  <2>5. orders[i].status # "NONE"
    BY <2>2 DEF ReconcileStatuses
  <2>6. CASE SyncFilled(i)
    <3>1. /\ orders'[i] = Refreshed(i) /\ Refreshed(i).status = "FILLED"
          /\ ApplyFill(orders[i], rows[i].filled)
      BY <1>1, <2>6 DEF SyncFilled
    <3>2. orders[i].side = "BUY" => position'[orders[i].symbol].status = "OPEN"
      BY <1>1, <3>1, BookedPlan
    <3> QED BY <2>5, <3>1, <3>2 DEF Pending
  <2>7. CASE SyncRefreshed(i) \/ SyncBuyCancelFailed(i)
    <3>1. orders'[i] = Refreshed(i) /\ Refreshed(i).status # "FILLED"
      BY <1>1, <2>7 DEF SyncRefreshed, SyncBuyCancelFailed, TimedOut
    <3> QED BY <1>3, <2>2, <2>4, <2>5, <3>1 DEF Pending
  <2>8. CASE SyncSellTimedOut(i)
    <3> DEFINE grown == IF Refreshed(i).reason = "TARGET_1_PARTIAL"
                        THEN "TARGET_1_PARTIAL_WAITING" ELSE Refreshed(i).reason
    <3>1. Refreshed(i) \in OrderRow
      BY RefreshedTerms
    <3>2. orders' = [orders EXCEPT ![i] = [Refreshed(i) EXCEPT
                       !.status = "SELL_WAITING_RECONCILIATION", !.reason = grown]]
      BY <2>8, <3>1 DEF SyncSellTimedOut, OrderRow
    <3>3. orders'[i].status = "SELL_WAITING_RECONCILIATION" /\ orders[i].side = "SELL"
      BY <1>1, <2>8, <3>1, <3>2 DEF SyncSellTimedOut, OrderRow
    <3> QED BY <1>3, <2>5, <3>3 DEF Pending
  <2>9. CASE SyncBuyCancelled(i)
    <3>1. Refreshed(i) \in OrderRow
      BY RefreshedTerms
    <3>2. orders'[i].status = "CANCELLED"
      BY <1>1, <2>9, <3>1 DEF SyncBuyCancelled, OrderRow
    <3> QED BY <2>5, <3>2 DEF Pending
  <2>10. ~SyncBuyMissing(i)
    BY <2>3 DEF SyncBuyMissing
  <2> QED BY <2>0, <2>6, <2>7, <2>8, <2>9, <2>10
<1> QED BY <1>4, <1>5

(* A visit keeps every order in sight, in memory and in the database. *)
LEMMA VisitKeepsSight ==
  ASSUME TypeOK, DeadInv, FillsFit, SightInv, NEW i \in Orders, Visit(i)
  PROVE  SightInv'
<1>1. /\ Syncing /\ Syncing' /\ rows' = rows /\ held' = held
      /\ saved'.orders = saved.orders /\ saved'.position = saved.position
      /\ SameTerms /\ \A j \in Orders : j # i => orders'[j] = orders[j]
      /\ remote' = remote \/ remote' = [remote EXCEPT ![i].status = "CANCELLED_ALL"]
  BY VisitFrame
<1>2. /\ orders[i].status # "NONE" /\ remote[i].status # "NONE"
      /\ OrdersInSight(orders, remote) /\ FreshSymbols(orders, position, remote, held)
      /\ OrdersInSight(saved.orders, remote)
      /\ FreshSymbols(saved.orders, saved.position, remote, held)
  BY <1>1, VisitStatus DEF SightInv, OrdersInSight
<1>3. \A j \in Orders : /\ remote'[j].filled = remote[j].filled
                        /\ (remote'[j].status = "NONE") <=> (remote[j].status = "NONE")
  BY <1>1, <1>2 DEF TypeOK, BrokerTypeOK, RemoteRow
<1>4. \A s \in Symbols : position'[s].status = "NONE" => position[s].status = "NONE"
  <2>1. UNCHANGED position \/ \E dealt \in Nat : ApplyFill(orders[i], dealt)
    BY VisitFills DEF FillsFit
  <2> QED BY <2>1, BookedPlan
<1>5. /\ OrdersInSight(orders', remote') /\ FreshSymbols(orders', position', remote', held)
  <2>1. ASSUME NEW j \in Orders
        PROVE  /\ (orders'[j].status = "NONE") <=> (orders[j].status = "NONE")
               /\ orders'[j].status \notin {"LOST", "UNKNOWN_REMOTE_MISSING"}
               /\ orders'[j].status = "SELL_WAITING_RECONCILIATION" => orders'[j].side = "SELL"
               /\ orders'[j].status = "FILLED_INFERRED" => remote[j].filled > 0
               /\ Pending(orders', j) => Pending(orders, j)
    BY <1>1, <1>2, VisitStatus DEF OrdersInSight, Pending
  <2>2. ASSUME NEW j \in Orders, orders'[j].status \in {"FILLED", "FILLED_INFERRED"},
               orders'[j].side = "BUY"
        PROVE  position'[orders'[j].symbol].status # "NONE"
    <3>1. orders'[j].symbol = orders[j].symbol /\ orders[j].side = "BUY" /\ orders[j].symbol \in Symbols
      BY <1>1, <2>2 DEF SameTerms, TypeOK, TablesTypeOK, OrderRow
    <3>2. CASE orders[j].status \in {"FILLED", "FILLED_INFERRED"}
      BY <1>2, <1>4, <3>1, <3>2 DEF FreshSymbols
    <3>3. CASE orders[j].status \notin {"FILLED", "FILLED_INFERRED"}
      BY <1>1, <2>2, <3>1, <3>3, VisitStatus
    <3> QED BY <3>2, <3>3
  <2>3. TablesMove(orders, position, remote, orders', position', remote')
    BY <1>1, <1>3, <1>4, <2>1, <2>2 DEF TablesMove, SameTerms
  <2> QED BY <1>2, <2>3, TablesStayInSight
<1>6. OrdersInSight(saved.orders, remote') /\ FreshSymbols(saved.orders, saved.position, remote', held)
  BY <1>2, <1>3 DEF OrdersInSight, FreshSymbols
<1>7. FreshFillsPend'
  BY <1>1 DEF SightInv, FreshFillsPend, AfterReconcile, Syncing, Visit, SyncFilled, SyncRefreshed,
              SyncSellTimedOut, SyncBuyCancelled, SyncBuyMissing, SyncBuyCancelFailed, Visited,
              SyncDeals, history
<1>8. ReadingsComplete'
  <2>1. pc' = pc /\ todo' = todo \ {i}
    BY DEF Visit, SyncFilled, SyncRefreshed, SyncSellTimedOut, SyncBuyCancelled, SyncBuyMissing,
           SyncBuyCancelFailed, Visited, SyncDeals
  <2>2. pc' = "orders" => todo' \subseteq {j \in Orders : orders'[j].status \in ReconcileStatuses}
    BY <1>1, <2>1 DEF SightInv, ReadingsComplete
  <2> QED BY <1>1, <1>3, <2>2 DEF SightInv, ReadingsComplete
<1> QED BY <1>1, <1>5, <1>6, <1>7, <1>8 DEF SightInv, OrdersInSight, FreshSymbols, Pending

\* What fills is an order of the table, and of a fresh symbol its unfinished entry.
LEMMA FillsStayInSight ==
  ASSUME NEW os, NEW ps, NEW rm, NEW hd, NEW rm2, NEW hd2, NEW i \in Orders,
         OrdersInSight(os, rm), FreshSymbols(os, ps, rm, hd),
         os[i].symbol \in Symbols, os[i].status \in OrderStatuses, os[i].status \notin Dead,
         rm[i].status # "NONE", rm2[i].status # "NONE",
         hd[os[i].symbol] \in Int, hd2[os[i].symbol] \in Int,
         \A j \in Orders : j # i => rm2[j] = rm[j],
         \A s \in Symbols : s # os[i].symbol => hd2[s] = hd[s],
         \/ rm2[i].filled = rm[i].filled /\ hd2[os[i].symbol] = hd[os[i].symbol]
         \/ /\ rm2[i].filled > 0
            /\ os[i].side = "BUY" => hd2[os[i].symbol] > hd[os[i].symbol]
  PROVE  OrdersInSight(os, rm2) /\ FreshSymbols(os, ps, rm2, hd2)
<1>1. OrdersInSight(os, rm2)
  BY DEF OrdersInSight
<1>2. ASSUME NEW s \in Symbols, ps[s].status = "NONE", s # os[i].symbol
      PROVE  /\ hd2[s] >= 0
             /\ (hd2[s] > 0) <=> (\E j \in Orders : os[j].symbol = s /\ rm2[j].filled > 0)
             /\ \A j \in Orders : os[j].symbol = s /\ os[j].status # "NONE" =>
                  /\ os[j].side = "BUY" /\ os[j].status \notin {"FILLED", "FILLED_INFERRED"}
                  /\ Pending(os, j) =>
                       \A k \in Orders : os[k].symbol = s /\ rm2[k].filled > 0 => k = j
  BY <1>2 DEF FreshSymbols
<1>3. ASSUME ps[os[i].symbol].status = "NONE"
      PROVE  LET s == os[i].symbol
             IN /\ hd2[s] >= 0
                /\ (hd2[s] > 0) <=> (\E j \in Orders : os[j].symbol = s /\ rm2[j].filled > 0)
                /\ \A j \in Orders : os[j].symbol = s /\ os[j].status # "NONE" =>
                     /\ os[j].side = "BUY" /\ os[j].status \notin {"FILLED", "FILLED_INFERRED"}
                     /\ Pending(os, j) =>
                          \A k \in Orders : os[k].symbol = s /\ rm2[k].filled > 0 => k = j
  <2> DEFINE s == os[i].symbol
  <2>1. Pending(os, i)
    BY <1>3, LiveEntryPends
  <2>2. \A j \in Orders : Pending(os, j) /\ os[j].symbol = s => j = i
    BY <2>1 DEF OrdersInSight
  <2>3. /\ hd[s] >= 0 /\ hd[s] \in Int /\ hd2[s] \in Int
        /\ (hd[s] > 0) <=> (\E j \in Orders : os[j].symbol = s /\ rm[j].filled > 0)
        /\ \A k \in Orders : os[k].symbol = s /\ rm[k].filled > 0 => k = i
        /\ \A j \in Orders : os[j].symbol = s /\ os[j].status # "NONE" =>
             os[j].side = "BUY" /\ os[j].status \notin {"FILLED", "FILLED_INFERRED"}
    BY <1>3, <2>1 DEF FreshSymbols, Pending
  <2>4. \A k \in Orders : os[k].symbol = s /\ rm2[k].filled > 0 => k = i
    BY <2>3
  <2>5. hd2[s] >= 0 /\ ((hd2[s] > 0) <=> rm2[i].filled > 0)
    <3>1. os[i].side = "BUY"
      BY <2>1 DEF Pending
    <3>2. CASE rm2[i].filled = rm[i].filled /\ hd2[s] = hd[s]
      BY <2>3, <3>2
    <3>3. CASE rm2[i].filled > 0 /\ hd2[s] > hd[s]
      BY <2>3, <3>3
    <3> QED BY <3>1, <3>2, <3>3
  <2> QED BY <2>2, <2>3, <2>4, <2>5
<1> QED BY <1>1, <1>2, <1>3 DEF FreshSymbols

\* The broker ends and fills only orders the table has as unfinished.
LEMMA BrokerKeepsSight ==
  ASSUME TypeOK, DeadInv, SightInv, Broker
  PROVE  SightInv'
<1>1. PICK i \in Orders :
        /\ RemoteLive(i) /\ remote'[i].status # "NONE"
        /\ \A j \in Orders : j # i => remote'[j] = remote[j]
        /\ \A s \in Symbols : s # orders[i].symbol => held'[s] = held[s]
        /\ \/ /\ remote'[i].filled = remote[i].filled
              /\ held'[orders[i].symbol] = held[orders[i].symbol]
           \/ /\ remote'[i].filled > 0
              /\ orders[i].side = "BUY" => held'[orders[i].symbol] > held[orders[i].symbol]
  BY BrokerEffect
<1>2. /\ orders[i].symbol \in Symbols /\ orders[i].status \in OrderStatuses
      /\ saved.orders[i].status \in OrderStatuses
      /\ \A s \in Symbols : held[s] \in Int
  BY DEF TypeOK, TablesTypeOK, BrokerTypeOK, LoopTypeOK, Transaction, OrderRow
<1>3. /\ UNCHANGED <<orders, position, pc, rows, saved, todo, clean>>
      /\ remote[i].status # "NONE" /\ \A s \in Symbols : held'[s] \in Int
  <2>1. TypeOK'
    BY BrokerTypes
  <2> QED BY <1>1, <2>1, BrokerFills
          DEF tables, loop, sync, history, RemoteLive, TypeOK, BrokerTypeOK
<1>4. OrdersInSight(orders, remote') /\ FreshSymbols(orders, position, remote', held')
  <2>1. orders[i].status \notin Dead
    BY <1>1 DEF DeadInv, DeadOrdersAreDead, Dead
  <2> QED BY <1>1, <1>2, <1>3, <2>1, FillsStayInSight DEF SightInv
<1>5. ASSUME Syncing
      PROVE  OrdersInSight(saved.orders, remote')
               /\ FreshSymbols(saved.orders, saved.position, remote', held')
  <2>1. /\ saved.orders[i].status \notin Dead
        /\ saved.orders[i].symbol = orders[i].symbol /\ saved.orders[i].side = orders[i].side
    BY <1>1, <1>5 DEF DeadInv, SavedOrdersFit
  <2> QED BY <1>1, <1>2, <1>3, <1>5, <2>1, FillsStayInSight DEF SightInv
<1>6. FreshFillsPend'
  <2> SUFFICES ASSUME clean, NEW s \in Symbols, NEW j \in Orders,
                      position[s].status = "NONE", orders[j].symbol = s, remote'[j].filled > 0
               PROVE  Pending(orders, j)
    BY <1>3 DEF SightInv, FreshFillsPend, Pending
  <2>1. CASE j = i
    <3>1. orders[i].status \notin Dead
      BY <1>1 DEF DeadInv, DeadOrdersAreDead, Dead
    <3> QED BY <1>2, <1>3, <2>1, <3>1, LiveEntryPends DEF SightInv
  <2>2. CASE j # i
    BY <1>1, <2>2 DEF SightInv, FreshFillsPend
  <2> QED BY <2>1, <2>2
<1>7. ReadingsComplete'
  BY <1>1, <1>3 DEF SightInv, ReadingsComplete, Syncing
<1> QED BY <1>3, <1>4, <1>5, <1>6, <1>7 DEF SightInv, OrdersInSight, FreshSymbols, Pending, Syncing

\* The entry the position sync infers is the one that bought the shares: nothing else of
\* a fresh symbol has filled.
LEMMA InferredDidFill ==
  ASSUME SightInv, NEW agree, NEW i \in Inferred(agree)
  PROVE  /\ i \in Orders /\ remote[i].filled > 0 /\ orders[i].symbol \in Symbols
         /\ held[orders[i].symbol] > 0
<1>1. PICK s \in Symbols : /\ i \in Orders /\ held[s] > 0 /\ position[s].status = "NONE"
                           /\ Explains(i, s, agree)
  BY DEF Inferred
<1>2. i \in Candidates(s)
  BY <1>1 DEF Explains
<1>3. orders[i].symbol = s /\ Pending(orders, i) /\ orders[i].status # "NONE"
  BY <1>1, <1>2 DEF Candidates, SightInv, OrdersInSight, Pending
<1>4. PICK j \in Orders : orders[j].symbol = s /\ remote[j].filled > 0
  BY <1>1 DEF SightInv, FreshSymbols
<1>5. j = i
  BY <1>1, <1>3, <1>4 DEF SightInv, FreshSymbols
<1> QED BY <1>1, <1>3, <1>4, <1>5

(* So the position sync opens the row of every entry it infers, and forgets none. *)
LEMMA SyncPositionsKeepsSight ==
  ASSUME TypeOK, SightInv, SyncPositions
  PROVE  SightInv'
<1>1. PICK agree \in MatchOutcomes :
        orders' = [i \in Orders |->
            IF i \in Inferred(agree)
            THEN [orders[i] EXCEPT !.status = "FILLED_INFERRED", !.age = 0,
                                   !.dealt = held[orders[i].symbol]]
            ELSE orders[i]]
  BY DEF SyncPositions
<1>2. SameTerms /\ UNCHANGED <<remote, held, clean>> /\ pc = "positions" /\ pc' = "reconcile"
  BY SyncedOrders DEF SyncPositions, broker, history
<1>3. OrdersInSight(orders, remote) /\ FreshSymbols(orders, position, remote, held)
  BY DEF SightInv
<1>4. \A s \in Symbols : position'[s].status = "NONE" => position[s].status = "NONE"
  BY SyncedRows
<1>5. ASSUME NEW i \in Orders
      PROVE  \/ orders'[i] = orders[i]
             \/ /\ orders'[i].status = "FILLED_INFERRED" /\ remote[i].filled > 0
                /\ orders[i].status # "NONE" /\ position'[orders[i].symbol].status # "NONE"
  <2>1. CASE i \notin Inferred(agree)
    BY <1>1, <2>1
  <2>2. CASE i \in Inferred(agree)
    <3>1. orders[i] \in OrderRow
      BY DEF TypeOK, TablesTypeOK
    <3>2. orders'[i].status = "FILLED_INFERRED"
      BY <1>1, <2>2, <3>1 DEF OrderRow
    <3>3. /\ remote[i].filled > 0 /\ orders[i].symbol \in Symbols
          /\ held[orders[i].symbol] > 0
      BY <2>2, InferredDidFill
    <3>4. position'[orders[i].symbol].status # "NONE"
      <4>1. held[orders[i].symbol] \in Int
        BY <3>3 DEF TypeOK, BrokerTypeOK
      <4> QED BY <3>3, <4>1, SyncedRows
    <3>5. orders[i].status # "NONE"
      BY <2>2 DEF Inferred, Explains, Candidates
    <3> QED BY <3>2, <3>3, <3>4, <3>5
  <2> QED BY <2>1, <2>2
<1>6. TablesMove(orders, position, remote, orders', position', remote')
  <2>1. ASSUME NEW i \in Orders
        PROVE  /\ (orders'[i].status = "NONE") <=> (orders[i].status = "NONE")
               /\ orders'[i].status \notin {"LOST", "UNKNOWN_REMOTE_MISSING"}
               /\ orders'[i].status = "SELL_WAITING_RECONCILIATION" => orders'[i].side = "SELL"
               /\ orders'[i].status = "FILLED_INFERRED" => remote[i].filled > 0
               /\ Pending(orders', i) => Pending(orders, i)
    BY <1>3, <1>5 DEF OrdersInSight, Pending
  <2>2. ASSUME NEW i \in Orders, orders'[i].status \in {"FILLED", "FILLED_INFERRED"},
               orders'[i].side = "BUY"
        PROVE  position'[orders'[i].symbol].status # "NONE"
    <3>1. orders'[i].symbol = orders[i].symbol /\ orders[i].symbol \in Symbols
      BY <1>2 DEF SameTerms, TypeOK, TablesTypeOK, OrderRow
    <3> QED BY <1>3, <1>4, <1>5, <2>2, <3>1 DEF FreshSymbols
  <2> QED BY <1>2, <1>4, <2>1, <2>2 DEF TablesMove, SameTerms
<1>7. OrdersInSight(orders', remote') /\ FreshSymbols(orders', position', remote', held)
  BY <1>3, <1>6, TablesStayInSight
<1>8. FreshFillsPend' /\ ReadingsComplete' /\ ~Syncing'
  BY <1>2 DEF SightInv, FreshFillsPend, AfterReconcile, ReadingsComplete, Syncing
<1> QED BY <1>2, <1>7, <1>8 DEF SightInv, OrdersInSight, FreshSymbols, Pending

\* An order that is placed and recorded is in sight: an exit of a symbol with a row, or an
\* entry of a symbol without unfinished entries and, if it is fresh, without shares.
LEMMA PlacingStaysInSight ==
  ASSUME NEW os, NEW ps, NEW rm, NEW hd, NEW os2, NEW rm2, NEW i \in Orders,
         OrdersInSight(os, rm), FreshSymbols(os, ps, rm, hd),
         os[i].status = "NONE", rm[i].filled = 0,
         os2[i].status = "SUBMITTED", rm2[i].status # "NONE", rm2[i].filled = 0,
         \A j \in Orders : j # i => os2[j] = os[j] /\ rm2[j] = rm[j],
         \/ /\ os2[i].side = "BUY"
            /\ \A j \in Orders : os[j].symbol = os2[i].symbol =>
                 /\ ~Pending(os, j)
                 /\ ps[os2[i].symbol].status = "NONE" => ~(rm[j].filled > 0)
         \/ os2[i].side = "SELL" /\ ps[os2[i].symbol].status # "NONE"
  PROVE  OrdersInSight(os2, rm2) /\ FreshSymbols(os2, ps, rm2, hd)
<1>1. \A j \in Orders : /\ j # i => (Pending(os2, j) <=> Pending(os, j))
                        /\ rm2[j].filled > 0 <=> (j # i /\ rm[j].filled > 0)
  BY DEF Pending
<1>2. Pending(os2, i) <=> os2[i].side = "BUY"
  BY DEF Pending
<1>3. OrdersInSight(os2, rm2)
  BY <1>1, <1>2 DEF OrdersInSight
<1>4. ASSUME NEW s \in Symbols, ps[s].status = "NONE"
      PROVE  /\ hd[s] >= 0
             /\ (hd[s] > 0) <=> (\E j \in Orders : os2[j].symbol = s /\ rm2[j].filled > 0)
  BY <1>1, <1>4 DEF FreshSymbols
<1>5. ASSUME NEW s \in Symbols, ps[s].status = "NONE",
             NEW j \in Orders, os2[j].symbol = s, os2[j].status # "NONE"
      PROVE  /\ os2[j].side = "BUY" /\ os2[j].status \notin {"FILLED", "FILLED_INFERRED"}
             /\ Pending(os2, j) =>
                  \A k \in Orders : os2[k].symbol = s /\ rm2[k].filled > 0 => k = j
  <2>1. CASE j = i
    BY <1>1, <1>2, <1>5, <2>1
  <2>2. CASE j # i
    BY <1>1, <1>5, <2>2 DEF FreshSymbols
  <2> QED BY <2>1, <2>2
<1> QED BY <1>3, <1>4, <1>5 DEF FreshSymbols

\* An exit whose answer arrives is of an open row.
LEMMA SendExitKeepsSight ==
  ASSUME TypeOK, FillsFit, SightInv, NEW s \in Symbols, NEW reason \in ExitReasons,
         SendExit(s, reason)
  PROVE  SightInv'
<1>1. PICK i \in Unused :
        /\ orders' = [orders EXCEPT ![i] = ExitOrder(s, reason, "SUBMITTED")]
        /\ remote' = [remote EXCEPT ![i] = Accepted]
  BY DEF SendExit
<1>2. /\ i \in Orders /\ orders[i].status = "NONE" /\ remote[i].filled = 0
      /\ orders'[i].status = "SUBMITTED" /\ orders'[i].symbol = s /\ orders'[i].side = "SELL"
      /\ remote'[i].status # "NONE" /\ remote'[i].filled = 0
      /\ \A j \in Orders : j # i => orders'[j] = orders[j] /\ remote'[j] = remote[j]
  BY <1>1 DEF Unused, FillsFit, ExitOrder, Accepted, TypeOK, TablesTypeOK, BrokerTypeOK
<1>3. /\ position[s].status # "NONE" /\ pc = "manage"
      /\ UNCHANGED <<position, held, pc, clean>>
  BY DEF SendExit, Exiting, Managing, history
<1>4. OrdersInSight(orders, remote) /\ FreshSymbols(orders, position, remote, held)
  BY DEF SightInv
<1>5. OrdersInSight(orders', remote') /\ FreshSymbols(orders', position, remote', held)
  BY <1>2, <1>3, <1>4, PlacingStaysInSight
<1>6. FreshFillsPend'
  BY <1>2, <1>3 DEF SightInv, FreshFillsPend, AfterReconcile, Pending
<1>7. ReadingsComplete' /\ ~Syncing'
  BY <1>3 DEF ReadingsComplete, Syncing
<1> QED BY <1>3, <1>5, <1>6, <1>7 DEF SightInv, OrdersInSight, FreshSymbols, Pending

\* An entry leaves in a loop that found the ledgers in agreement: a fresh symbol it buys
\* has no unfinished entry, and so no shares that the broker bought since.
LEMMA PlaceEntryKeepsSight ==
  ASSUME TypeOK, FillsFit, EntryInv, SightInv, NEW p \in Plans, PlaceEntry(p)
  PROVE  SightInv'
<1> DEFINE t == SymbolOf(p)
<1>1. PICK i \in Unused :
        /\ orders' = [orders EXCEPT ![i] = EntryOrder(p, "SUBMITTED")]
        /\ remote' = [remote EXCEPT ![i] = [status |-> "SUBMITTED", filled |-> 0]]
  BY DEF PlaceEntry
<1>2. /\ i \in Orders /\ orders[i].status = "NONE" /\ remote[i].filled = 0
      /\ orders'[i].status = "SUBMITTED" /\ orders'[i].symbol = t /\ orders'[i].side = "BUY"
      /\ remote'[i].status # "NONE" /\ remote'[i].filled = 0
      /\ \A j \in Orders : j # i => orders'[j] = orders[j] /\ remote'[j] = remote[j]
  BY <1>1 DEF Unused, FillsFit, EntryOrder, TypeOK, TablesTypeOK, BrokerTypeOK
<1>3. /\ pc = "execute" /\ todo # {} /\ ~Blocked(p) /\ UNCHANGED <<position, held>>
      /\ pc' = "idle" /\ clean' = FALSE /\ t \in Symbols
  BY LedgerAssumption DEF PlaceEntry, Executing, LoopOver, SymbolOf, Plans
<1>4. clean
  BY <1>3 DEF EntryInv, ExecutionIsApproved
<1>5. \A j \in Orders : orders[j].symbol = t =>
        /\ ~Pending(orders, j)
        /\ position[t].status = "NONE" => ~(remote[j].filled > 0)
  <2>1. \A j \in Orders : orders[j].symbol = t => ~Pending(orders, j)
    BY <1>3 DEF Blocked, LiveLocal, Pending
  <2> QED BY <1>3, <1>4, <2>1 DEF SightInv, FreshFillsPend
<1>6. OrdersInSight(orders, remote) /\ FreshSymbols(orders, position, remote, held)
  BY DEF SightInv
<1>7. OrdersInSight(orders', remote') /\ FreshSymbols(orders', position, remote', held)
  <2> HIDE DEF t
  <2> QED BY <1>2, <1>5, <1>6, PlacingStaysInSight
<1>8. FreshFillsPend' /\ ReadingsComplete' /\ ~Syncing'
  BY <1>3 DEF FreshFillsPend, ReadingsComplete, Syncing
<1> QED BY <1>3, <1>7, <1>8 DEF SightInv, OrdersInSight, FreshSymbols, Pending

\* A quiet step calls the ledgers clean only where the reconciliation found them so.
LEMMA QuietVerdict ==
  ASSUME Quiet, clean => pc \in AfterReconcile, clean'
  PROVE  /\ pc' \in AfterReconcile
         /\ clean \/ \E lost : LedgersAgree(lost, DealsSupported)
<1> USE DEF AfterReconcile, tables, broker, sync, loop, history, LoopOver
<1>1. CASE SyncPositionsFails \/ ReconcileAccountFails \/ SaveGate
  BY <1>1 DEF SyncPositionsFails, ReconcileAccountFails, SaveGate
<1>2. CASE \E lost \in OutOfSight : \/ Reconcile(lost, DealsSupported)
                                   \/ ReconcileRunFails(lost, DealsSupported)
  BY <1>2 DEF Reconcile, ReconcileRunFails
<1>3. CASE (\E s \in Symbols : HoldPosition(s)) \/ EndManage \/ ReadPortfolio \/ ValidatePlans
  BY <1>3 DEF HoldPosition, Managing, EndManage, ReadPortfolio, ValidatePlans
<1>4. CASE \E p \in Plans : \/ RejectByRules(p) \/ MissByCapital(p)
                            \/ RejectByReconciliation(p) \/ Approve(p)
                            \/ SkipEntry(p) \/ EntryRefused(p)
  BY <1>4 DEF RejectByRules, MissByCapital, RejectByReconciliation, Approve, Deciding,
              SkipEntry, EntryRefused, Executing
<1>5. CASE EndApprovals \/ EndLoop \/ NewDay \/ \E pool \in Pools : GeneratePlans(pool)
  BY <1>5 DEF EndApprovals, EndLoop, NewDay, GeneratePlans
<1>6. CASE pc \notin {"idle", "orders", "deals"} /\ LoopOver /\ UNCHANGED <<tables, broker>>
  BY <1>6
<1> QED BY <1>1, <1>2, <1>3, <1>4, <1>5, <1>6 DEF Quiet

(* And where it found them so, nothing is held of a symbol without an open row. *)
LEMMA QuietKeepsSight ==
  ASSUME TypeOK, SightInv, Quiet
  PROVE  SightInv'
<1>1. UNCHANGED <<orders, position, remote, held>> /\ ~Syncing'
  BY QuietFrame DEF broker
<1>2. ASSUME clean', NEW s \in Symbols, NEW i \in Orders,
             position[s].status = "NONE", orders[i].symbol = s, remote[i].filled > 0
      PROVE  Pending(orders, i)
  <2>1. clean \/ held[s] <= 0
    BY <1>2, QuietVerdict DEF LedgersAgree, SightInv, FreshFillsPend
  <2>2. held[s] > 0 /\ held[s] \in Int
    BY <1>2 DEF SightInv, FreshSymbols, TypeOK, BrokerTypeOK
  <2>3. clean
    BY <2>1, <2>2
  <2> QED BY <1>2, <2>3 DEF SightInv, FreshFillsPend
<1>3. FreshFillsPend'
  BY <1>1, <1>2, QuietVerdict DEF SightInv, FreshFillsPend, Pending
<1>4. ReadingsComplete'
  BY <1>1 DEF ReadingsComplete, Syncing
<1> QED BY <1>1, <1>3, <1>4 DEF SightInv, OrdersInSight, FreshSymbols, Pending

(* No order at the start, and no verdict. *)
LEMMA InitSight == Init => SightInv
<1> SUFFICES ASSUME Init PROVE SightInv
  OBVIOUS
<1>1. \A i \in Orders : /\ remote[i].filled = 0 /\ remote[i].status = "NONE"
                        /\ orders[i].status = "NONE"
  BY DEF Init, NoRows, NoOrderRow
<1>2. (\A s \in Symbols : held[s] = 0) /\ ~clean /\ ~Syncing
  BY DEF Init, Syncing
<1>3. OrdersInSight(orders, remote)
  BY <1>1 DEF OrdersInSight, Pending
<1>4. FreshSymbols(orders, position, remote, held)
  BY <1>1, <1>2 DEF FreshSymbols
<1> QED BY <1>2, <1>3, <1>4 DEF SightInv, FreshFillsPend, ReadingsComplete, Syncing

(* The beginning of an order sync, which then has read all there is. *)
LEMMA BeginKeepsSight ==
  ASSUME TypeOK, SightInv, ~MayLoseSight, BeginOrderSync
  PROVE  SightInv'
<1>1. rows' = [i \in Orders |-> remote[i]]
  BY DEF BeginOrderSync, OutOfSight
<1>2. /\ UNCHANGED <<orders, position, remote, held, clean>> /\ pc = "idle" /\ pc' = "orders"
      /\ todo' = {i \in Orders : orders[i].status \in ReconcileStatuses}
      /\ saved'.orders = orders /\ saved'.position = position
  BY DEF BeginOrderSync, tables, broker, history
<1>3. FreshFillsPend' /\ ReadingsComplete'
  BY <1>1, <1>2 DEF SightInv, FreshFillsPend, AfterReconcile, ReadingsComplete
<1> QED BY <1>2, <1>3 DEF SightInv, OrdersInSight, FreshSymbols, Pending

(* Every step keeps every order in sight, where the broker and the process let it. *)
LEMMA SightInvInductive ==
  ASSUME ~MayLoseSight, ~AnswersLost, ~MayCrash
  PROVE  TypeOK /\ DeadInv /\ FillsFit /\ EntryInv /\ SightInv /\ [Next]_vars => SightInv'
<1> SUFFICES ASSUME TypeOK, DeadInv, FillsFit, EntryInv, SightInv, [Next]_vars
             PROVE  SightInv'
  OBVIOUS
<1>1. CASE BeginOrderSync
  BY <1>1, BeginKeepsSight
<1>2. CASE \E i \in Orders : Visit(i)
  BY <1>2, VisitKeepsSight
<1>3. CASE BeginDealSync \/ UNCHANGED vars
  <2>1. /\ UNCHANGED <<orders, position, remote, held, rows, saved, clean>>
        /\ (Syncing' <=> Syncing) /\ (pc' = "orders" => pc = "orders" /\ todo' = todo)
        /\ (pc \in AfterReconcile => pc' \in AfterReconcile)
    BY <1>3 DEF BeginDealSync, tables, broker, sync, loop, history, vars, Syncing, AfterReconcile
  <2>2. FreshFillsPend' /\ ReadingsComplete'
    BY <2>1 DEF SightInv, FreshFillsPend, ReadingsComplete, Pending
  <2> QED BY <2>1, <2>2 DEF SightInv, OrdersInSight, FreshSymbols, Pending
<1>4. CASE CommitOrderSync
  <2>1. /\ UNCHANGED <<orders, position, remote, held, clean>> /\ pc' = "positions"
        /\ Syncing
    BY <1>4 DEF CommitOrderSync, VisitsDone, tables, broker, history, Syncing
  <2>2. FreshFillsPend' /\ ReadingsComplete' /\ ~Syncing'
    BY <2>1 DEF SightInv, FreshFillsPend, AfterReconcile, ReadingsComplete, Syncing
  <2> QED BY <2>1, <2>2 DEF SightInv, OrdersInSight, FreshSymbols, Pending
<1>5. CASE Syncing /\ RolledBack
  <2>1. /\ orders' = saved.orders /\ position' = saved.position /\ UNCHANGED <<remote, held>>
        /\ clean' = FALSE /\ pc' = "idle"
    BY <1>5 DEF RolledBack, LoopOver, broker
  <2>2. FreshFillsPend' /\ ReadingsComplete' /\ ~Syncing'
    BY <2>1 DEF FreshFillsPend, ReadingsComplete, Syncing
  <2> QED BY <1>5, <2>1, <2>2 DEF SightInv, OrdersInSight, FreshSymbols, Pending
<1>6. CASE SyncPositions
  BY <1>6, SyncPositionsKeepsSight
<1>7. CASE Quiet
  BY <1>7, QuietKeepsSight
<1>8. CASE \E s \in Symbols, reason \in ExitReasons : SendExit(s, reason)
  BY <1>8, SendExitKeepsSight
<1>9. CASE \E p \in Plans : PlaceEntry(p)
  BY <1>9, PlaceEntryKeepsSight
<1>10. CASE Broker
  BY <1>10, BrokerKeepsSight
<1>11. CASE Tick
  <2>1. /\ SameTerms /\ \A i \in Orders : orders'[i].status = orders[i].status
        /\ UNCHANGED <<position, remote, held, clean, pc>> /\ pc = "idle"
    BY <1>11, TickedOrders DEF Tick, broker, loop, history
  <2>2. \A i \in Orders : Pending(orders', i) <=> Pending(orders, i)
    BY <2>1 DEF Pending, SameTerms
  <2>3. OrdersInSight(orders', remote)
    BY <2>1, <2>2 DEF SightInv, OrdersInSight, SameTerms
  <2>4. FreshSymbols(orders', position, remote, held)
    BY <2>1, <2>2 DEF SightInv, FreshSymbols, SameTerms
  <2>5. FreshFillsPend' /\ ReadingsComplete' /\ ~Syncing'
    BY <2>1 DEF SightInv, FreshFillsPend, AfterReconcile, ReadingsComplete, Syncing
  <2> QED BY <2>1, <2>3, <2>4, <2>5 DEF SightInv, OrdersInSight, FreshSymbols, Pending
<1> QED BY <1>1, <1>2, <1>3, <1>4, <1>5, <1>6, <1>7, <1>8, <1>9, <1>10, <1>11, KindsInSight

\* Where no order is out of sight, no answer is lost and no process dies, an entry the
\* position sync calls FILLED_INFERRED did buy shares: also with partial fills cancelled by
\* time, several plans of one symbol, syncs that fail or are undone, and readings in batches
\* of deals.  With any of the three an entry can be mistaken for another one of its symbol
\* (position_sync.py:69-90, 226-276, sim_order_executor.py:16-35).
THEOREM InferredEntriesDidFill ==
  ASSUME ~MayLoseSight, ~AnswersLost, ~MayCrash
  PROVE  Spec => []InferredEntriesAreFilled
<1>1. Init => DeadInv /\ FillsFit /\ SightInv
  BY InitSafe, InitFills, InitSight
<1>2. TypeOK /\ DeadInv /\ FillsFit /\ [Next]_vars => DeadInv' /\ FillsFit'
  BY DeadInvInductive, FillsFitInductive
<1>3. TypeOK /\ DeadInv /\ FillsFit /\ EntryInv /\ SightInv /\ [Next]_vars => SightInv'
  BY SightInvInductive
<1>4. SightInv => InferredEntriesAreFilled
  BY DEF SightInv, OrdersInSight, InferredEntriesAreFilled
<1> QED BY <1>1, <1>2, <1>3, <1>4, TypeCorrect, EntryInvAlways, PTL DEF Spec

\* So there, without any further condition, the plan a position names bought it.
COROLLARY PositionsComeFromPlansInSight ==
  ASSUME ~MayLoseSight, ~AnswersLost, ~MayCrash
  PROVE  Spec => []PositionsComeFromTheirPlan
<1>1. Spec => []InferredEntriesAreFilled
  BY InferredEntriesDidFill
<1> QED BY <1>1, PositionsFollowTheirPlans, PTL
----------------------------------------------------------------------------
(* What is offered: the remainders of the live exits, added up *)

\* What each order may still sell of the symbol.
Remainders(s) ==
  [i \in Orders |-> IF orders[i].symbol = s /\ orders[i].side = "SELL" /\ RemoteLive(i)
                    THEN orders[i].qty - remote[i].filled ELSE 0]

\* The partial sums of the remainders, which never fall, end in the total.
AddsUp(sum, left, total) ==
  /\ sum \in [0 .. MaxOrders -> Int]
  /\ sum[0] = 0 /\ sum[MaxOrders] = total
  /\ \A i \in Orders : sum[i] = sum[i - 1] + left[i]
  /\ \A j, k \in 0 .. MaxOrders : j <= k => sum[j] <= sum[k]

OffersAddUp == \A s \in Symbols : \E sum : AddsUp(sum, Remainders(s), reserved[s])

\* A single remainder grows or shrinks, and the total with it.
LEMMA SumShifts ==
  ASSUME NEW left \in [Orders -> Nat], NEW new \in [Orders -> Nat], NEW i \in Orders, NEW d \in Int,
         new[i] = left[i] + d, \A j \in Orders \ {i} : new[j] = left[j],
         NEW total \in Int, NEW sum, AddsUp(sum, left, total)
  PROVE  \E other : AddsUp(other, new, total + d)
<1> DEFINE other == [k \in 0 .. MaxOrders |-> IF k < i THEN sum[k] ELSE sum[k] + d]
<1>1. /\ MaxOrders \in Nat /\ i \in Nat /\ i - 1 \in 0 .. MaxOrders /\ i \in 0 .. MaxOrders
      /\ 1 <= i /\ i <= MaxOrders
  BY LedgerAssumption DEF Orders
<1>2. \A k \in 0 .. MaxOrders : sum[k] \in Int /\ other[k] \in Int
  BY DEF AddsUp
<1>3. other[0] = 0 /\ other[MaxOrders] = total + d
  BY <1>1 DEF AddsUp
<1>4. ASSUME NEW j \in Orders PROVE other[j] = other[j - 1] + new[j]
  <2>1. j \in 0 .. MaxOrders /\ j - 1 \in 0 .. MaxOrders /\ sum[j] = sum[j - 1] + left[j]
    BY <1>1 DEF Orders, AddsUp
  <2>2. left[j] \in Nat /\ new[j] \in Nat /\ (j # i => new[j] = left[j])
    OBVIOUS
  <2>3. j < i \/ j = i \/ j > i
    BY <1>1, <2>1
  <2> QED BY <1>1, <1>2, <2>1, <2>2, <2>3
<1>5. ASSUME NEW j \in 0 .. MaxOrders, NEW k \in 0 .. MaxOrders, j <= k
      PROVE  other[j] <= other[k]
  <2>1. sum[j] <= sum[k]
    BY <1>5 DEF AddsUp
  <2>2. CASE j < i /\ k >= i
    <3>1. sum[j] <= sum[i - 1] /\ sum[i] <= sum[k] /\ sum[i] = sum[i - 1] + left[i]
      BY <1>1, <2>2 DEF AddsUp
    <3>2. left[i] \in Nat /\ left[i] + d >= 0
      OBVIOUS
    <3> QED BY <1>1, <1>2, <2>2, <3>1, <3>2
  <2> QED BY <1>1, <1>2, <1>5, <2>1, <2>2
<1>6. other \in [0 .. MaxOrders -> Int]
  BY <1>2
<1> HIDE DEF other
<1>7. AddsUp(other, new, total + d)
  BY <1>3, <1>4, <1>5, <1>6 DEF AddsUp
<1> QED BY <1>7

\* No remainder is more than the total.
LEMMA SumCovers ==
  ASSUME NEW left \in [Orders -> Nat], NEW total \in Int, NEW sum, AddsUp(sum, left, total)
  PROVE  total >= 0 /\ \A i \in Orders : left[i] <= total
<1>1. MaxOrders \in Nat /\ 0 \in 0 .. MaxOrders /\ MaxOrders \in 0 .. MaxOrders
  BY LedgerAssumption
<1>2. total >= 0
  BY <1>1 DEF AddsUp
<1>3. ASSUME NEW i \in Orders PROVE left[i] <= total
  <2>1. i - 1 \in 0 .. MaxOrders /\ i \in 0 .. MaxOrders /\ 0 <= i - 1 /\ i <= MaxOrders
    BY <1>1 DEF Orders
  <2>2. sum[0] <= sum[i - 1] /\ sum[i] <= sum[MaxOrders] /\ sum[i] = sum[i - 1] + left[i]
    BY <1>1, <2>1 DEF AddsUp
  <2>3. sum[i - 1] \in Int /\ sum[i] \in Int /\ left[i] \in Nat /\ sum[0] = 0 /\ sum[MaxOrders] = total
    BY <2>1 DEF AddsUp
  <2> QED BY <2>2, <2>3
<1> QED BY <1>2, <1>3

(* A live exit has sold less than it is for, so its remainder is a number of shares. *)
LEMMA RemainderType ==
  ASSUME TypeOK, DeadInv, NEW s \in Symbols
  PROVE  Remainders(s) \in [Orders -> Nat]
<1>1. \A i \in Orders : /\ orders[i].qty \in Nat /\ remote[i].filled \in Nat
                        /\ remote[i].filled <= orders[i].qty
  BY DEF TypeOK, TablesTypeOK, BrokerTypeOK, OrderRow, RemoteRow, DeadInv, OrdersFit
<1> QED BY <1>1 DEF Remainders

\* No exit at the start, and nothing offered.
LEMMA InitOffers == Init => OffersAddUp
<1> SUFFICES ASSUME Init, NEW s \in Symbols
             PROVE  \E sum : AddsUp(sum, Remainders(s), reserved[s])
  BY DEF OffersAddUp
<1> DEFINE none == [k \in 0 .. MaxOrders |-> 0]
<1>1. \A i \in Orders : Remainders(s)[i] = 0
  BY DEF Init, Remainders, NoOrderRow
<1>2. \A k \in 0 .. MaxOrders : none[k] = 0
  OBVIOUS
<1>3. MaxOrders \in Nat /\ reserved[s] = 0
  BY LedgerAssumption DEF Init
<1>4. none \in [0 .. MaxOrders -> Int]
  OBVIOUS
<1>5. \A i \in Orders : i \in 0 .. MaxOrders /\ i - 1 \in 0 .. MaxOrders
  BY <1>3 DEF Orders
<1> HIDE DEF none
<1>6. AddsUp(none, Remainders(s), reserved[s])
  BY <1>1, <1>2, <1>3, <1>4, <1>5 DEF AddsUp
<1> QED BY <1>6

\* Where no remainder changes, the sums stay.
LEMMA SameRemainders ==
  ASSUME TypeOK, OffersAddUp, UNCHANGED reserved,
         \A i \in Orders :
           /\ orders'[i].symbol = orders[i].symbol /\ orders'[i].side = orders[i].side
           /\ orders[i].side = "SELL" =>
                /\ orders'[i].qty = orders[i].qty /\ remote'[i].filled = remote[i].filled
                /\ RemoteLive(i)' <=> RemoteLive(i)
  PROVE  OffersAddUp'
<1>1. \A s \in Symbols : Remainders(s)' = Remainders(s)
  BY DEF Remainders
<1> QED BY <1>1 DEF OffersAddUp

(* The visit of an order cancels at most an entry. *)
LEMMA VisitKeepsOffers ==
  ASSUME TypeOK, OffersAddUp, NEW i \in Orders, Visit(i)
  PROVE  OffersAddUp'
<1>1. UNCHANGED reserved /\ SameTerms
  BY VisitFrame
<1>2. \/ remote' = remote
      \/ /\ remote' = [remote EXCEPT ![i].status = "CANCELLED_ALL"]
         /\ orders[i].side = "BUY"
  BY DEF Visit, SyncFilled, SyncRefreshed, SyncSellTimedOut, SyncBuyCancelled, SyncBuyMissing,
         SyncBuyCancelFailed, SyncDeals, broker
<1>3. \A j \in Orders : orders[j].side = "SELL" => remote'[j] = remote[j]
  BY <1>2 DEF TypeOK, BrokerTypeOK
<1> QED BY <1>1, <1>3, SameRemainders DEF SameTerms, RemoteLive

(* A placement of an exit adds all of it to what is offered, one of an entry nothing. *)
LEMMA PlacingKeepsOffers ==
  ASSUME TypeOK, DeadInv, OffersAddUp,
         NEW i \in Orders, NEW row \in OrderRow, Placing(i, row),
         \/ row.side = "BUY" /\ UNCHANGED reserved
         \/ row.side = "SELL" /\ reserved' = [reserved EXCEPT ![row.symbol] = @ + row.qty]
  PROVE  OffersAddUp'
<1>1. /\ \A j \in Orders : j # i => orders'[j] = orders[j] /\ remote'[j] = remote[j]
      /\ orders'[i] = row /\ remote'[i] = [status |-> "SUBMITTED", filled |-> 0]
      /\ ~RemoteLive(i) /\ RemoteLive(i)'
      /\ row.side \in {"BUY", "SELL"} /\ row.qty \in Nat /\ row.symbol \in Symbols
  BY DEF Placing, Unused, RemoteLive, OrderRow, TypeOK, TablesTypeOK, BrokerTypeOK
<1> SUFFICES ASSUME NEW s \in Symbols
             PROVE  \E sum : AddsUp(sum, Remainders(s)', reserved'[s])
  BY DEF OffersAddUp
<1> DEFINE d == IF row.side = "SELL" /\ row.symbol = s THEN row.qty ELSE 0
           left == Remainders(s)
           new == Remainders(s)'
<1>2. d \in Int /\ reserved[s] \in Int /\ reserved'[s] = reserved[s] + d
  BY <1>1 DEF TypeOK, BrokerTypeOK
<1>3. left[i] = 0 /\ new[i] = d /\ \A j \in Orders \ {i} : new[j] = left[j]
  <2>1. left[i] = 0
    BY <1>1 DEF Remainders
  <2>2. new[i] = d
    BY <1>1 DEF Remainders
  <2>3. \A j \in Orders \ {i} : new[j] = left[j]
    BY <1>1 DEF Remainders, RemoteLive
  <2> QED BY <2>1, <2>2, <2>3
<1>4. left \in [Orders -> Nat] /\ new \in [Orders -> Nat]
  <2>1. left \in [Orders -> Nat]
    BY RemainderType
  <2>2. \A j \in Orders : new[j] \in Nat
    BY <1>1, <1>3, <2>1
  <2> QED BY <2>1, <2>2 DEF Remainders
<1>5. PICK sum : AddsUp(sum, left, reserved[s])
  BY DEF OffersAddUp
<1> HIDE DEF d, left, new
<1>6. new[i] = left[i] + d
  BY <1>2, <1>3
<1>7. \E other : AddsUp(other, new, reserved[s] + d)
  BY <1>2, <1>3, <1>4, <1>5, <1>6, SumShifts
<1> QED BY <1>2, <1>7 DEF new

\* A fill of an exit takes away as much from its remainder as from what is offered, and
\* its end takes away the remainder.
LEMMA BrokerKeepsOffers ==
  ASSUME TypeOK, DeadInv, DeadInv', OffersAddUp, Broker
  PROVE  OffersAddUp'
<1>0. PICK i \in Orders : BrokerEnds(i) \/ \E n \in 1 .. EntryQty : Fill(i, n)
  BY DEF Broker
<1>1. /\ orders' = orders /\ RemoteLive(i) /\ remote[i].filled \in Nat /\ orders[i].qty \in Nat
      /\ orders[i].side \in {"BUY", "SELL"} /\ orders[i].symbol \in Symbols
      /\ remote[i].filled <= orders[i].qty
      /\ \A j \in Orders : j # i => remote'[j] = remote[j]
  <2>1. orders' = orders /\ RemoteLive(i)
    BY <1>0 DEF BrokerEnds, Fill, tables
  <2>2. orders[i] \in OrderRow /\ remote \in [Orders -> RemoteRow]
    BY DEF TypeOK, TablesTypeOK, BrokerTypeOK
  <2>3. /\ remote[i].filled \in Nat /\ orders[i].qty \in Nat
        /\ orders[i].side \in {"BUY", "SELL"} /\ orders[i].symbol \in Symbols
    BY <2>2 DEF RemoteRow, OrderRow
  <2>4. remote[i].filled <= orders[i].qty
    BY <2>1 DEF DeadInv, OrdersFit
  <2>5. ASSUME NEW j \in Orders, j # i PROVE remote'[j] = remote[j]
    <3>1. CASE BrokerEnds(i)
      BY <2>2, <2>5, <3>1 DEF BrokerEnds
    <3>2. ASSUME NEW n \in 1 .. EntryQty, Fill(i, n) PROVE remote'[j] = remote[j]
      BY <2>2, <2>5, <3>2 DEF Fill
    <3> QED BY <1>0, <3>1, <3>2
  <2> QED BY <2>1, <2>3, <2>4, <2>5
<1>2. TypeOK'
  BY BrokerTypes
<1> SUFFICES ASSUME NEW s \in Symbols
             PROVE  \E sum : AddsUp(sum, Remainders(s)', reserved'[s])
  BY DEF OffersAddUp
<1> DEFINE left == Remainders(s)
           new == Remainders(s)'
           d == new[i] - left[i]
<1>3. ASSUME orders[i].side = "SELL", orders[i].symbol = s
      PROVE  reserved' = [reserved EXCEPT ![s] = @ + d]
  <2>1. Remainders(s)[i] = orders[i].qty - remote[i].filled
    BY <1>1, <1>3 DEF Remainders
  <2>2. CASE BrokerEnds(i)
    <3>1. ~RemoteLive(i)'
      BY <2>2, BrokerAssumption DEF BrokerEnds, RemoteLive, TypeOK, BrokerTypeOK, RemoteRow
    <3>2. Remainders(s)'[i] = 0
      BY <3>1 DEF Remainders
    <3>3. reserved' = [reserved EXCEPT ![s] = @ - (orders[i].qty - remote[i].filled)]
      BY <1>3, <2>2 DEF BrokerEnds
    <3>4. d = 0 - (orders[i].qty - remote[i].filled)
      BY <1>1, <2>1, <3>2
    <3>5. reserved[s] \in Int /\ reserved[s] + d = reserved[s] - (orders[i].qty - remote[i].filled)
      BY <1>1, <3>4 DEF TypeOK, BrokerTypeOK
    <3> HIDE DEF d
    <3>6. reserved' = [reserved EXCEPT ![s] = @ + d]
      BY <3>3, <3>5
    <3> QED BY <3>6 DEF d
  <2>3. ASSUME NEW n \in 1 .. EntryQty, Fill(i, n)
        PROVE  reserved' = [reserved EXCEPT ![s] = @ + d]
    <3>1. /\ n \in 1 .. orders[i].qty - remote[i].filled /\ n \in Int
          /\ remote'[i].filled = remote[i].filled + n
          /\ remote'[i].status = IF remote[i].filled + n = orders[i].qty
                                 THEN "FILLED_ALL" ELSE "FILLED_PART"
      BY <2>3, LedgerAssumption DEF Fill, TypeOK, BrokerTypeOK, RemoteRow
    <3>2. Remainders(s)'[i] = orders[i].qty - (remote[i].filled + n)
      BY <1>1, <1>3, <3>1 DEF Remainders, RemoteLive
    <3>3. reserved' = [reserved EXCEPT ![s] = @ - n]
      BY <1>3, <2>3 DEF Fill
    <3>4. d = 0 - n
      BY <1>1, <2>1, <3>1, <3>2
    <3>5. reserved[s] \in Int /\ reserved[s] + d = reserved[s] - n
      BY <1>1, <3>1, <3>4 DEF TypeOK, BrokerTypeOK
    <3> HIDE DEF d
    <3> QED BY <3>3, <3>5
  <2> QED BY <1>0, <2>2, <2>3
<1>4. left \in [Orders -> Nat] /\ new \in [Orders -> Nat]
  <2>1. left \in [Orders -> Nat]
    BY RemainderType
  <2>2. \A j \in Orders : /\ orders'[j].qty \in Nat /\ remote'[j].filled \in Nat
                          /\ remote'[j].filled <= orders'[j].qty
    BY <1>2 DEF TypeOK, TablesTypeOK, BrokerTypeOK, OrderRow, RemoteRow, DeadInv, OrdersFit
  <2>3. new \in [Orders -> Nat]
    BY <2>2 DEF Remainders
  <2> QED BY <2>1, <2>3
<1>5. \A j \in Orders \ {i} : new[j] = left[j]
  BY <1>1 DEF Remainders, RemoteLive
<1>6. reserved[s] \in Int /\ d \in Int /\ new[i] = left[i] + d
  BY <1>4 DEF TypeOK, BrokerTypeOK
<1>7. reserved'[s] = reserved[s] + d
  <2>1. CASE orders[i].side = "SELL" /\ orders[i].symbol = s
    <3>1. reserved' = [reserved EXCEPT ![s] = @ + d]
      BY <1>3, <2>1
    <3> HIDE DEF d
    <3> QED BY <3>1 DEF TypeOK, BrokerTypeOK
  <2>2. CASE ~(orders[i].side = "SELL" /\ orders[i].symbol = s)
    <3>1. left[i] = 0 /\ new[i] = 0
      BY <1>1, <2>2 DEF Remainders
    <3>2. reserved'[s] = reserved[s]
      BY <1>0, <1>1, <2>2 DEF BrokerEnds, Fill, TypeOK, BrokerTypeOK
    <3> QED BY <1>6, <3>1, <3>2
  <2> QED BY <2>1, <2>2
<1>8. PICK sum : AddsUp(sum, left, reserved[s])
  BY DEF OffersAddUp
<1> HIDE DEF left, new, d
<1>9. \E other : AddsUp(other, new, reserved[s] + d)
  BY <1>4, <1>5, <1>6, <1>8, SumShifts
<1> QED BY <1>7, <1>9 DEF new

(* Every step keeps the sums: position syncs that fail need not be excluded. *)
LEMMA OffersInductive ==
  TypeOK /\ DeadInv /\ DeadInv' /\ OffersAddUp /\ [Next]_vars => OffersAddUp'
<1> SUFFICES ASSUME TypeOK, DeadInv, DeadInv', OffersAddUp, [Next]_vars PROVE OffersAddUp'
  OBVIOUS
<1>1. CASE BeginOrderSync \/ BeginDealSync \/ CommitOrderSync \/ Quiet \/ UNCHANGED vars
  <2>1. UNCHANGED <<orders, remote, reserved>>
    BY <1>1, QuietFrame DEF BeginOrderSync, BeginDealSync, CommitOrderSync, tables, broker, vars
  <2> QED BY <2>1, SameRemainders DEF RemoteLive
<1>2. CASE \E i \in Orders : Visit(i)
  BY <1>2, VisitKeepsOffers
<1>3. CASE Syncing /\ RolledBack
  <2>1. orders' = saved.orders /\ UNCHANGED <<remote, reserved>>
    BY <1>3 DEF RolledBack, broker
  <2> QED BY <1>3, <2>1, SameRemainders DEF DeadInv, SavedOrdersFit, RemoteLive
<1>4. CASE SyncPositions \/ Tick
  <2>1. UNCHANGED <<remote, reserved>>
    BY <1>4 DEF SyncPositions, Tick, broker
  <2> QED BY <1>4, <2>1, SyncedOrders, TickedOrders, SameRemainders DEF SameTerms, RemoteLive
<1>5. ASSUME NEW s \in Symbols, NEW reason \in ExitReasons,
             SendExit(s, reason) \/ ExitAnswerLost(s, reason) \/ CrashAfterExit(s, reason)
      PROVE  OffersAddUp'
  BY <1>5, ExitPlaced, PlacingKeepsOffers
<1>6. ASSUME NEW p \in Plans, PlaceEntry(p) \/ EntryAnswerLost(p) \/ CrashAfterEntry(p)
      PROVE  OffersAddUp'
  BY <1>6, EntryPlacing, PlacingKeepsOffers
<1>7. CASE Broker
  BY <1>7, BrokerKeepsOffers
<1> QED BY <1>1, <1>2, <1>3, <1>4, <1>5, <1>6, <1>7, Kinds

\* A live exit has no more left to sell than is offered of its symbol.
LEMMA LiveExitIsOffered ==
  ASSUME TypeOK, DeadInv, OffersAddUp
  PROVE  /\ \A s \in Symbols : reserved[s] \in Nat
         /\ \A i \in Orders : orders[i].side = "SELL" /\ RemoteLive(i) =>
              orders[i].qty - remote[i].filled <= reserved[orders[i].symbol]
<1>1. ASSUME NEW s \in Symbols
      PROVE  reserved[s] \in Nat /\ \A i \in Orders : Remainders(s)[i] <= reserved[s]
  <2>1. reserved[s] \in Int
    BY DEF TypeOK, BrokerTypeOK
  <2>2. PICK sum : AddsUp(sum, Remainders(s), reserved[s])
    BY DEF OffersAddUp
  <2> QED BY <2>1, <2>2, RemainderType, SumCovers
<1>2. ASSUME NEW i \in Orders, orders[i].side = "SELL", RemoteLive(i)
      PROVE  orders[i].qty - remote[i].filled <= reserved[orders[i].symbol]
  <2>1. orders[i].symbol \in Symbols
    BY DEF TypeOK, TablesTypeOK, OrderRow
  <2>2. Remainders(orders[i].symbol)[i] = orders[i].qty - remote[i].filled
    BY <1>2 DEF Remainders
  <2> QED BY <1>1, <2>1, <2>2
<1> QED BY <1>1, <1>2

----------------------------------------------------------------------------
(* The account *)

AccountInv == DeadInv /\ SaleInv /\ OffersAddUp

(* The account at any time, where position syncs succeed. *)
LEMMA AccountAlways ==
  ASSUME ~PositionSyncFails
  PROVE  Spec => [](TypeOK /\ AccountInv)
<1>1. Init => AccountInv
  BY InitSafe, InitSaleInv, InitOffers DEF AccountInv
<1>2. TypeOK /\ AccountInv /\ [Next]_vars => AccountInv'
  BY DeadInvInductive, SaleInvInductive, OffersInductive DEF AccountInv
<1> QED BY <1>1, <1>2, TypeCorrect, PTL DEF Spec

\* The shares of the account never fall below those on offer, nor these below none: no order
\* of fills, ends and retried exits sells what is not there, so the account is never short,
\* where position syncs succeed (position_manager.py:111-190, position_sync.py:64-66).
THEOREM AccountIsLongOnly ==
  ASSUME ~PositionSyncFails
  PROVE  Spec => [](\A s \in Symbols : 0 <= reserved[s] /\ reserved[s] <= held[s])
<1>1. TypeOK /\ AccountInv => \A s \in Symbols : 0 <= reserved[s] /\ reserved[s] <= held[s]
  BY LiveExitIsOffered DEF AccountInv, SaleInv, NeverOversold
<1> QED BY <1>1, AccountAlways, PTL

(* An order of the loop, on its way to the broker. *)
LEMMA PlacementRefines ==
  ASSUME TypeOK, AccountInv, [Next]_vars,
         \/ \E s \in Symbols, reason \in ExitReasons :
              SendExit(s, reason) \/ ExitAnswerLost(s, reason) \/ CrashAfterExit(s, reason)
         \/ \E p \in Plans : PlaceEntry(p) \/ EntryAnswerLost(p) \/ CrashAfterEntry(p)
  PROVE  [LongOnly!Next]_<<held, reserved>>
<1>1. ASSUME NEW p \in Plans, PlaceEntry(p) \/ EntryAnswerLost(p) \/ CrashAfterEntry(p)
      PROVE  UNCHANGED <<held, reserved>>
  BY <1>1, EntryPlacing DEF Placing
<1>2. ASSUME NEW s \in Symbols, NEW reason \in ExitReasons,
             SendExit(s, reason) \/ ExitAnswerLost(s, reason) \/ CrashAfterExit(s, reason)
      PROVE  LongOnly!Next
  <2>1. PICK i \in Orders, row \in OrderRow :
          /\ Placing(i, row)
          /\ row.symbol = s /\ row.side = "SELL" /\ row.qty <= position[s].available
          /\ reserved' = [reserved EXCEPT ![s] = @ + row.qty]
          /\ Managing(s) /\ position[s].status = "OPEN"
    BY <1>2, ExitPlaced
  <2>2. /\ held' = held /\ row.qty \in Nat /\ row.qty > 0 /\ position[s].available \in Nat
        /\ held[s] \in Int /\ reserved[s] \in Nat
    BY <2>1, LiveExitIsOffered
    DEF Placing, OrderRow, AccountInv, TypeOK, TablesTypeOK, BrokerTypeOK, PositionRow
  <2>3. position[s].available <= held[s] - reserved[s]
    BY <2>1, <2>2 DEF AccountInv, SaleInv, RowsAreCovered, Guarded, Managing
  <2>4. row.qty \in 1 .. held[s] /\ row.qty <= held[s] - reserved[s]
    BY <2>1, <2>2, <2>3
  <2>5. LongOnly!Offer(s, row.qty)
    BY <2>1, <2>2, <2>4 DEF LongOnly!Offer
  <2> QED BY <2>4, <2>5 DEF LongOnly!Next
<1> QED BY <1>1, <1>2

(* Fills and ends of orders. *)
LEMMA BrokerRefines ==
  ASSUME TypeOK, AccountInv, Broker
  PROVE  [LongOnly!Next]_<<held, reserved>>
<1>0. PICK i \in Orders : BrokerEnds(i) \/ \E n \in 1 .. EntryQty : Fill(i, n)
  BY DEF Broker
<1> DEFINE s == orders[i].symbol
           left == orders[i].qty - remote[i].filled
<1>1. /\ s \in Symbols /\ RemoteLive(i) /\ left \in Int /\ left > 0 /\ held[s] \in Int
      /\ reserved[s] \in Nat /\ reserved[s] <= held[s]
      /\ orders[i].side \in {"BUY", "SELL"}
      /\ orders[i].side = "SELL" => left <= reserved[s]
  <2>1. RemoteLive(i)
    BY <1>0 DEF BrokerEnds, Fill
  <2>2. orders[i] \in OrderRow /\ remote[i].filled \in Nat /\ remote[i].filled < orders[i].qty
    BY <2>1 DEF TypeOK, TablesTypeOK, BrokerTypeOK, RemoteRow, AccountInv, DeadInv, OrdersFit
  <2>3. reserved[s] \in Nat /\ (orders[i].side = "SELL" => left <= reserved[s])
    BY <2>1, <2>2, LiveExitIsOffered DEF AccountInv, OrderRow
  <2> QED BY <2>1, <2>2, <2>3
      DEF OrderRow, TypeOK, BrokerTypeOK, AccountInv, SaleInv, NeverOversold
<1>2. CASE BrokerEnds(i)
  <2>1. CASE orders[i].side = "BUY"
    BY <1>2, <2>1 DEF BrokerEnds, TypeOK, BrokerTypeOK
  <2>2. CASE orders[i].side = "SELL"
    <3>1. reserved' = [reserved EXCEPT ![s] = @ - left] /\ held' = held
      BY <1>2, <2>2 DEF BrokerEnds
    <3>2. LongOnly!Withdraw(s, left) /\ left \in 1 .. reserved[s]
      BY <1>1, <2>2, <3>1 DEF LongOnly!Withdraw
    <3> QED BY <1>1, <3>2 DEF LongOnly!Next
  <2> QED BY <1>1, <2>1, <2>2
<1>3. ASSUME NEW n \in 1 .. EntryQty, Fill(i, n)
      PROVE  [LongOnly!Next]_<<held, reserved>>
  <2>1. n \in 1 .. left
    BY <1>3 DEF Fill
  <2>2. CASE orders[i].side = "BUY"
    <3>1. LongOnly!Buy(s, n)
      BY <1>3, <2>2 DEF Fill, LongOnly!Buy, TypeOK, BrokerTypeOK
    <3> QED BY <1>1, <3>1 DEF LongOnly!Next
  <2>3. CASE orders[i].side = "SELL"
    <3>1. held' = [held EXCEPT ![s] = @ - n] /\ reserved' = [reserved EXCEPT ![s] = @ - n]
      BY <1>3, <2>3 DEF Fill
    <3>2. LongOnly!Sell(s, n) /\ n \in 1 .. held[s]
      BY <1>1, <2>1, <2>3, <3>1 DEF LongOnly!Sell
    <3> QED BY <1>1, <3>2 DEF LongOnly!Next
  <2> QED BY <1>1, <2>2, <2>3
<1> QED BY <1>0, <1>2, <1>3

\* The loop, its retries and its crashes, the broker's fills and cancels and the rows that lag
\* behind them implement a long-only account, for every value of the constants that lets
\* position syncs succeed (position_manager.py:111-190, order_sync.py:60-71).
THEOREM LoopImplementsAccount ==
  ASSUME ~PositionSyncFails
  PROVE  Spec => ImplementsAccount
<1>1. Init => LongOnly!Init
  BY DEF Init, LongOnly!Init
<1>2. TypeOK /\ AccountInv /\ [Next]_vars => [LongOnly!Next]_<<held, reserved>>
  <2> SUFFICES ASSUME TypeOK, AccountInv, [Next]_vars PROVE [LongOnly!Next]_<<held, reserved>>
    OBVIOUS
  <2>1. CASE BeginOrderSync \/ BeginDealSync \/ CommitOrderSync \/ Quiet \/ UNCHANGED vars
    BY <2>1, QuietFrame DEF BeginOrderSync, BeginDealSync, CommitOrderSync, broker, vars
  <2>2. CASE \E i \in Orders : Visit(i)
    BY <2>2, VisitFrame
  <2>3. CASE (Syncing /\ RolledBack) \/ SyncPositions \/ Tick
    BY <2>3 DEF RolledBack, SyncPositions, Tick, broker
  <2>4. CASE \/ \E s \in Symbols, reason \in ExitReasons :
                  SendExit(s, reason) \/ ExitAnswerLost(s, reason) \/ CrashAfterExit(s, reason)
             \/ \E p \in Plans : PlaceEntry(p) \/ EntryAnswerLost(p) \/ CrashAfterEntry(p)
    BY <2>4, PlacementRefines
  <2>5. CASE Broker
    BY <2>5, BrokerRefines
  <2> QED BY <2>1, <2>2, <2>3, <2>4, <2>5, Kinds
<1> QED BY <1>1, <1>2, AccountAlways, PTL
    DEF Spec, ImplementsAccount, LongOnly!Spec, LongOnly!account

----------------------------------------------------------------------------
(* Closes: what README.md:297 says of them is true of a symbol's first purchase *)

Taken(i) == remote[i].status # "NONE"

\* The ids of the orders at the broker are given out in their order.
TakenInOrder == \A i, j \in Orders : j < i /\ Taken(i) => Taken(j)

\* Nothing is sold, or held, without a purchase before it.
SalesFollowPurchases ==
  \A i \in Orders : orders[i].side = "SELL" => \E j \in Entries(orders[i].symbol) : j < i
HoldingsWereBought == \A s \in Symbols : held[s] > 0 => Entries(s) # {}

\* The order sync visits unresolved orders only.
VisitsAreDue ==
  pc = "orders" => todo \subseteq {i \in Orders : orders[i].status \in ReconcileStatuses}

\* Every row of an order is one of the broker's, every row of a position was bought, and a
\* verified close has its filled exit: of the rows in memory, and of those in the database.
RowsHaveGrounds(os, ps) ==
  /\ \A i \in Orders : /\ os[i].status # "NONE" => Taken(i)
                       /\ os[i].side = "SELL" => os[i].status \notin {"NONE", "FILLED_INFERRED"}
  /\ \A s \in Symbols :
       /\ ps[s].status # "NONE" => Entries(s) # {}
       /\ ps[s].status = "CLOSED" =>
            \E i \in Orders : /\ os[i].symbol = s /\ os[i].side = "SELL"
                              /\ os[i].status = "FILLED"

CloseInv ==
  /\ TakenInOrder /\ SalesFollowPurchases /\ HoldingsWereBought /\ VisitsAreDue
  /\ RowsHaveGrounds(orders, position)
  /\ Syncing => RowsHaveGrounds(saved.orders, saved.position)

\* A visit is of an order the broker has; it takes back no fill it has booked, and calls no
\* order inferred or unknown.
LEMMA VisitOfTaken ==
  ASSUME TypeOK, FillsFit, DeadInv, CloseInv, NEW i \in Orders, Visit(i)
  PROVE  /\ Taken(i)
         /\ orders[i].status = "FILLED" => orders'[i].status = "FILLED"
         /\ orders[i].status # "NONE" => orders'[i].status # "NONE"
         /\ orders'[i].status = "FILLED_INFERRED" => orders[i].status = "FILLED_INFERRED"
         /\ VisitsAreDue'
<1>1. /\ orders \in [Orders -> OrderRow] /\ orders[i] \in OrderRow
      /\ rows[i].filled \in Nat /\ remote[i].filled \in Nat
      /\ rows[i].filled <= remote[i].filled
  BY DEF TypeOK, TablesTypeOK, BrokerTypeOK, LoopTypeOK, RemoteRow, DeadInv, ReadingsLag
<1>2. CASE \E last \in 1 .. EntryQty : SyncDeals(i, last)
  <2>1. PICK last \in 1 .. EntryQty : SyncDeals(i, last)
    BY <1>2
  <2> DEFINE booked == [orders[i] EXCEPT !.dealt = orders[i].booked + last,
                                         !.booked = rows[i].filled]
             over == [booked EXCEPT !.status = "FILLED", !.age = 0]
  <2>2. \/ orders' = [orders EXCEPT ![i] = booked]
        \/ orders' = [orders EXCEPT ![i] = over]
    BY <2>1 DEF SyncDeals
  <2>3. booked.status = orders[i].status /\ over.status = "FILLED"
    BY <1>1 DEF OrderRow
  <2> HIDE DEF booked, over
  <2>4. orders'[i].status \in {orders[i].status, "FILLED"}
    BY <1>1, <2>2, <2>3
  <2>5. Taken(i)
    <3>1. orders[i].booked \in Nat /\ last \in 1 .. rows[i].filled - orders[i].booked
      BY <1>1, <2>1 DEF SyncDeals, OrderRow
    <3>2. remote[i].filled > 0
      BY <1>1, <3>1
    <3> QED BY <3>2 DEF FillsFit, Taken
  <2>6. pc' # "orders"
    BY <2>1 DEF SyncDeals
  <2> QED BY <2>4, <2>5, <2>6 DEF VisitsAreDue
<1>3. CASE ~\E last \in 1 .. EntryQty : SyncDeals(i, last)
  <2>0. SyncFilled(i) \/ SyncRefreshed(i) \/ SyncSellTimedOut(i) \/ SyncBuyCancelled(i)
          \/ SyncBuyMissing(i) \/ SyncBuyCancelFailed(i)
    BY <1>3 DEF Visit
  <2>1. pc = "orders" /\ pc' = pc /\ todo # {} /\ i = First(todo) /\ todo' = todo \ {i}
    <3>1. Visited(i)
      BY <2>0 DEF SyncFilled, SyncRefreshed, SyncSellTimedOut, SyncBuyCancelled, SyncBuyMissing,
                  SyncBuyCancelFailed
    <3> QED BY <3>1 DEF Visited
  <2>2. todo \subseteq {j \in Orders : orders[j].status \in ReconcileStatuses}
    BY <2>1 DEF CloseInv, VisitsAreDue
  <2>3. i \in todo
    <3>1. todo \subseteq Nat
      BY <2>2 DEF Orders
    <3> QED BY <2>1, <3>1, FirstOfSome
  <2>4. orders[i].status \in ReconcileStatuses /\ Taken(i)
    BY <2>2, <2>3 DEF CloseInv, RowsHaveGrounds, ReconcileStatuses
  <2>5. VisitsAreDue'
    <3>1. \A j \in Orders : j # i => orders'[j] = orders[j]
      BY VisitFrame
    <3> QED BY <2>1, <2>2, <3>1 DEF VisitsAreDue
  <2>6. Refreshed(i) \in OrderRow /\ Refreshed(i).status \notin {"NONE", "FILLED_INFERRED"}
    <3>1. CASE Returned(i)
      <4>1. rows[i].status \in DOMAIN NormalizeStatus
        BY <3>1 DEF Returned, TypeOK, LoopTypeOK, RemoteRow, RemoteStatuses
      <4> QED BY <3>1, <4>1, RefreshedTerms DEF ReadStatus, NormalizeStatus
    <3>2. CASE ~Returned(i)
      BY <2>4, <3>2, RefreshedTerms DEF ReconcileStatuses
    <3> QED BY <3>1, <3>2
  <2> DEFINE row == Refreshed(i)
             grown == IF row.reason = "TARGET_1_PARTIAL"
                      THEN "TARGET_1_PARTIAL_WAITING" ELSE row.reason
             waiting == [row EXCEPT !.status = "SELL_WAITING_RECONCILIATION", !.reason = grown]
             cancelled == [row EXCEPT !.status = "CANCELLED", !.age = 0]
             missing == [row EXCEPT !.status = "UNKNOWN_REMOTE_MISSING"]
  <2>7. SyncSellTimedOut(i) => orders' = [orders EXCEPT ![i] = waiting]
    BY <2>6 DEF SyncSellTimedOut, OrderRow
  <2>8. \E new \in {row, waiting, cancelled, missing} : orders' = [orders EXCEPT ![i] = new]
    BY <2>0, <2>7 DEF SyncFilled, SyncRefreshed, SyncBuyCancelled, SyncBuyMissing,
                      SyncBuyCancelFailed
  <2>9. /\ waiting.status = "SELL_WAITING_RECONCILIATION"
        /\ cancelled.status = "CANCELLED" /\ missing.status = "UNKNOWN_REMOTE_MISSING"
    BY <2>6 DEF OrderRow
  <2>10. orders'[i].status \notin {"NONE", "FILLED_INFERRED"}
    <3> HIDE DEF row, waiting, cancelled, missing
    <3>1. PICK new \in {row, waiting, cancelled, missing} : orders' = [orders EXCEPT ![i] = new]
      BY <2>8
    <3>2. row.status \notin {"NONE", "FILLED_INFERRED"}
      BY <2>6 DEF row
    <3> QED BY <1>1, <2>9, <3>1, <3>2
  <2> QED BY <2>4, <2>5, <2>10 DEF ReconcileStatuses
<1> QED BY <1>2, <1>3

\* The booking of a fill moves only the row of its symbol, and closes it only for a sale.
LEMMA BookedClose ==
  ASSUME TypeOK, NEW i \in Orders, NEW dealt \in Nat, ApplyFill(orders[i], dealt),
         NEW s \in Symbols, position'[s].status # position[s].status
  PROVE  /\ orders[i].symbol = s
         /\ position'[s].status = "CLOSED" => orders[i].side # "BUY"
<1>1. orders[i].symbol = s
  BY DEF ApplyFill, TypeOK, TablesTypeOK
<1> QED BY <1>1, BookedPlan

(* A visit leaves every row its ground. *)
LEMMA VisitKeepsCloseInv ==
  ASSUME TypeOK, DeadInv, FillsFit, FillsKept, CloseInv, NEW i \in Orders, Visit(i)
  PROVE  CloseInv'
<1>1. /\ Syncing /\ Syncing' /\ UNCHANGED held /\ SameTerms
      /\ saved'.orders = saved.orders /\ saved'.position = saved.position
      /\ \A j \in Orders : j # i => orders'[j] = orders[j]
      /\ remote' = remote \/ remote' = [remote EXCEPT ![i].status = "CANCELLED_ALL"]
  BY VisitFrame
<1>2. \A j \in Orders : Taken(j)' <=> Taken(j)
  <2>1. remote \in [Orders -> RemoteRow]
    BY DEF TypeOK, BrokerTypeOK
  <2>2. \A j \in Orders : remote'[j].status = remote[j].status
                          \/ (j = i /\ remote'[j].status = "CANCELLED_ALL")
    BY <1>1, <2>1 DEF RemoteRow
  <2>3. Taken(i)
    BY VisitOfTaken
  <2> QED BY <2>2, <2>3 DEF Taken
<1>3. \A s \in Symbols : Entries(s) \subseteq Entries(s)'
  BY DEF Entries, FillsKept
<1>4. TakenInOrder' /\ SalesFollowPurchases' /\ HoldingsWereBought' /\ VisitsAreDue'
  <2>1. \A j \in Orders : orders[j].symbol \in Symbols
    BY DEF TypeOK, TablesTypeOK, OrderRow
  <2>2. SalesFollowPurchases'
    BY <1>1, <1>3, <2>1 DEF CloseInv, SalesFollowPurchases, SameTerms
  <2> QED BY <1>1, <1>2, <1>3, <2>2, VisitOfTaken DEF CloseInv, TakenInOrder, HoldingsWereBought
<1>5. RowsHaveGrounds(saved.orders, saved.position)'
  BY <1>1, <1>2, <1>3 DEF CloseInv, RowsHaveGrounds
<1>6. RowsHaveGrounds(orders, position)'
  <2>1. ASSUME NEW j \in Orders
        PROVE  /\ orders'[j].status # "NONE" => Taken(j)'
               /\ orders'[j].side = "SELL" => orders'[j].status \notin {"NONE", "FILLED_INFERRED"}
               /\ orders[j].status = "FILLED" => orders'[j].status = "FILLED"
    BY <1>1, <1>2, VisitOfTaken DEF CloseInv, RowsHaveGrounds, SameTerms
  <2>2. ASSUME NEW s \in Symbols, position'[s].status # position[s].status
        PROVE  /\ orders[i].symbol = s /\ remote[i].filled > 0
               /\ position'[s].status = "CLOSED" => /\ orders[i].side = "SELL"
                                                    /\ orders'[i].status = "FILLED"
    <3>1. /\ orders'[i].status = "FILLED" /\ remote[i].filled > 0
          /\ \E dealt \in Nat : ApplyFill(orders[i], dealt)
      BY <2>2, VisitFills DEF FillsFit
    <3>2. orders[i].side \in {"BUY", "SELL"}
      BY DEF TypeOK, TablesTypeOK, OrderRow
    <3> QED BY <2>2, <3>1, <3>2, BookedClose
  <2>3. ASSUME NEW s \in Symbols
        PROVE  /\ position'[s].status # "NONE" => Entries(s)' # {}
               /\ position'[s].status = "CLOSED" =>
                    \E j \in Orders : /\ orders'[j].symbol = s /\ orders'[j].side = "SELL"
                                      /\ orders'[j].status = "FILLED"
    <3>1. CASE position'[s].status = position[s].status
      BY <1>1, <1>3, <2>1, <3>1 DEF CloseInv, RowsHaveGrounds, SameTerms
    <3>2. CASE position'[s].status # position[s].status
      <4>1. Entries(s) # {}
        <5>1. orders[i].side \in {"BUY", "SELL"}
          BY DEF TypeOK, TablesTypeOK, OrderRow
        <5> QED BY <2>2, <3>2, <5>1 DEF CloseInv, SalesFollowPurchases, Entries
      <4> QED BY <1>1, <1>3, <2>2, <3>2, <4>1 DEF SameTerms
    <3> QED BY <3>1, <3>2
  <2> QED BY <2>1, <2>3 DEF RowsHaveGrounds
<1> QED BY <1>1, <1>4, <1>5, <1>6 DEF CloseInv

\* The broker acts on orders it has, and what it comes to hold was bought.
LEMMA BrokerHoldings ==
  ASSUME TypeOK, Broker
  PROVE  /\ \A i \in Orders : Taken(i)' <=> Taken(i)
         /\ \A s \in Symbols : held'[s] > 0 => held[s] > 0 \/ Entries(s)' # {}
<1>1. PICK i \in Orders : BrokerEnds(i) \/ \E n \in 1 .. EntryQty : Fill(i, n)
  BY DEF Broker
<1>2. RemoteLive(i) /\ UNCHANGED orders /\ \A j \in Orders : j # i => remote'[j] = remote[j]
  BY <1>1 DEF BrokerEnds, Fill, TypeOK, BrokerTypeOK, tables
<1>3. \A j \in Orders : Taken(j)' <=> Taken(j)
  BY <1>2, BrokerFills DEF Taken, RemoteLive
<1>4. CASE BrokerEnds(i)
  BY <1>3, <1>4 DEF BrokerEnds
<1>5. ASSUME NEW n \in 1 .. EntryQty, Fill(i, n), NEW s \in Symbols, held'[s] > 0
      PROVE  held[s] > 0 \/ Entries(s)' # {}
  <2>1. /\ held \in [Symbols -> Int] /\ held[s] \in Int /\ n \in Nat /\ n > 0
        /\ remote \in [Orders -> RemoteRow] /\ remote[i].filled \in Nat
    BY LedgerAssumption, <1>5 DEF TypeOK, BrokerTypeOK, RemoteRow
  <2>2. CASE orders[i].side = "BUY" /\ orders[i].symbol = s
    <3>1. remote'[i].filled = remote[i].filled + n
      BY <1>5, <2>1 DEF Fill, RemoteRow
    <3>2. remote'[i].filled > 0
      BY <2>1, <3>1
    <3>3. i \in Entries(s)'
      BY <1>2, <2>2, <3>2 DEF Entries
    <3> QED BY <3>3
  <2>3. CASE ~(orders[i].side = "BUY" /\ orders[i].symbol = s)
    <3>1. held'[s] = held[s] \/ held'[s] = held[s] - n
      BY <1>5, <2>1, <2>3 DEF Fill
    <3> QED BY <1>5, <2>1, <3>1
  <2> QED BY <2>2, <2>3
<1> QED BY <1>1, <1>3, <1>4, <1>5

\* An order is placed at the next free id.
LEMMA PlacedNext ==
  ASSUME TypeOK, NEW i \in Orders, NEW row \in OrderRow, Placing(i, row),
         \/ \E s \in Symbols, reason \in ExitReasons :
              SendExit(s, reason) \/ ExitAnswerLost(s, reason) \/ CrashAfterExit(s, reason)
         \/ \E p \in Plans : PlaceEntry(p) \/ EntryAnswerLost(p) \/ CrashAfterEntry(p)
  PROVE  IsNext(i)
<1>1. PICK j \in Unused : /\ IsNext(j)
                          /\ remote' = [remote EXCEPT ![j] = [status |-> "SUBMITTED", filled |-> 0]]
  BY DEF SendExit, ExitAnswerLost, CrashAfterExit, ExitUnrecorded, PlaceEntry, EntryAnswerLost,
         CrashAfterEntry, EntryUnrecorded, Accepted
<1>2. remote'[i].status = "SUBMITTED" /\ remote[i].status = "NONE"
  BY DEF Placing, Unused, TypeOK, BrokerTypeOK
<1>3. i = j
  BY <1>1, <1>2 DEF Unused, TypeOK, BrokerTypeOK
<1> QED BY <1>1, <1>3

(* A placement has its purchase before it, and takes the next id. *)
LEMMA PlacingKeepsCloseInv ==
  ASSUME TypeOK, FillsFit, FillsKept, CloseInv, NEW i \in Orders, NEW row \in OrderRow,
         Placing(i, row), IsNext(i),
         row.side = "SELL" => row.symbol \in Symbols /\ position[row.symbol].status = "OPEN",
         pc' # "orders"
  PROVE  CloseInv'
<1>1. /\ \A j \in Orders : j # i => orders'[j] = orders[j] /\ remote'[j] = remote[j]
      /\ orders'[i] = row /\ remote'[i] = [status |-> "SUBMITTED", filled |-> 0]
      /\ row.status \in {"SUBMITTED", "LOST"} /\ UNCHANGED <<position, held>> /\ ~Syncing'
      /\ orders[i].status = "NONE" /\ ~Taken(i)
  BY DEF Placing, Unused, Taken, TypeOK, TablesTypeOK, BrokerTypeOK
<1>2. \A j \in Orders : Taken(j)' <=> Taken(j) \/ j = i
  BY <1>1 DEF Taken
<1>3. \A s \in Symbols : Entries(s) \subseteq Entries(s)'
  BY DEF Entries, FillsKept
<1>4. TakenInOrder'
  <2>1. ASSUME NEW j \in Orders, j < i PROVE Taken(j)
    <3>1. j \notin Unused
      BY <2>1 DEF IsNext, Orders
    <3> QED BY <3>1 DEF Unused, Taken, CloseInv, RowsHaveGrounds
  <2> QED BY <1>2, <2>1 DEF TakenInOrder, CloseInv
<1>5. SalesFollowPurchases'
  <2>1. \A j \in Orders : orders[j].symbol \in Symbols
    BY DEF TypeOK, TablesTypeOK, OrderRow
  <2>2. ASSUME row.side = "SELL" PROVE \E j \in Entries(row.symbol) : j < i
    <3>1. PICK j \in Entries(row.symbol) : TRUE
      BY <2>2 DEF CloseInv, RowsHaveGrounds
    <3>2. j \in Orders /\ Taken(j)
      BY <3>1 DEF Entries, FillsFit, Taken
    <3>3. j # i /\ ~(i < j)
      BY <1>1, <3>2 DEF CloseInv, TakenInOrder
    <3> QED BY <3>2, <3>3 DEF Orders
  <2> QED BY <1>1, <1>3, <2>1, <2>2 DEF SalesFollowPurchases, CloseInv
<1>6. RowsHaveGrounds(orders, position)'
  <2>1. ASSUME NEW s \in Symbols, position'[s].status = "CLOSED"
        PROVE  \E j \in Orders : /\ orders'[j].symbol = s /\ orders'[j].side = "SELL"
                                 /\ orders'[j].status = "FILLED"
    BY <1>1, <2>1 DEF CloseInv, RowsHaveGrounds
  <2> QED BY <1>1, <1>2, <1>3, <2>1 DEF CloseInv, RowsHaveGrounds
<1> QED BY <1>1, <1>3, <1>4, <1>5, <1>6 DEF CloseInv, HoldingsWereBought, VisitsAreDue

\* The position sync infers entries only, and closes a row as verified only where a sale
\* is filled.
LEMMA InferredAreEntries ==
  ASSUME TypeOK, SyncPositions, NEW j \in Orders
  PROVE  /\ orders'[j].status # "NONE" => orders[j].status # "NONE"
         /\ orders[j].side = "SELL" => orders'[j].status = orders[j].status
<1>1. PICK agree \in MatchOutcomes :
        orders' = [i \in Orders |->
            IF i \in Inferred(agree)
            THEN [orders[i] EXCEPT !.status = "FILLED_INFERRED", !.age = 0,
                                   !.dealt = held[orders[i].symbol]]
            ELSE orders[i]]
  BY DEF SyncPositions
<1>2. ASSUME j \in Inferred(agree) PROVE orders[j].side = "BUY" /\ orders[j].status # "NONE"
  BY <1>2 DEF Inferred, Explains, Candidates
<1> QED BY <1>1, <1>2

LEMMA SyncedClose ==
  ASSUME TypeOK, CloseInv, SyncPositions, NEW s \in Symbols
  PROVE  /\ position'[s].status # "NONE" => held[s] > 0 \/ position[s].status # "NONE"
         /\ position'[s].status = "CLOSED" =>
              \/ position[s].status = "CLOSED"
              \/ \E j \in Orders : /\ orders[j].symbol = s /\ orders[j].side = "SELL"
                                   /\ orders[j].status = "FILLED"
<1>1. position[s] \in PositionRow
  BY DEF TypeOK, TablesTypeOK
<1>2. CASE held[s] > 0
  <2>1. position'[s].status = "OPEN" \/ ~(held[s] > 0)
    BY <1>2, SyncedRows, held[s] \in Int DEF TypeOK, BrokerTypeOK
  <2> QED BY <1>2, <2>1
<1>3. CASE ~(held[s] > 0)
  <2>1. position'[s] = IF Gone(s) THEN Vanished(s) ELSE position[s]
    BY <1>3 DEF SyncPositions
  <2>2. Gone(s) => position[s].status # "NONE"
    BY DEF Gone
  <2>3. Vanished(s).status = "CLOSED" => SellFilled(s)
    BY <1>1 DEF Vanished, PositionRow
  <2>4. SellFilled(s) => \E j \in Orders : /\ orders[j].symbol = s /\ orders[j].side = "SELL"
                                           /\ orders[j].status = "FILLED"
    BY DEF SellFilled, CloseInv, RowsHaveGrounds
  <2> QED BY <2>1, <2>2, <2>3, <2>4
<1> QED BY <1>2, <1>3

(* At the start nothing is held, sold or recorded. *)
LEMMA InitClose == Init => CloseInv
<1> SUFFICES ASSUME Init PROVE CloseInv
  OBVIOUS
<1>1. \A i \in Orders : /\ remote[i].status = "NONE" /\ orders[i].status = "NONE"
                        /\ orders[i].side = "BUY"
  BY DEF Init, NoRows, NoOrderRow
<1>2. \A s \in Symbols : position[s].status = "NONE" /\ ~(held[s] > 0)
  BY DEF Init, NoPosition
<1>3. pc = "idle"
  BY DEF Init
<1> QED
  BY <1>1, <1>2, <1>3 DEF CloseInv, TakenInOrder, Taken, SalesFollowPurchases, HoldingsWereBought,
                          VisitsAreDue, RowsHaveGrounds, Syncing

(* Every row keeps its ground. *)
LEMMA CloseInvInductive ==
  ASSUME TypeOK, DeadInv, FillsFit, CloseInv, [Next]_vars
  PROVE  CloseInv'
<1>1. FillsKept
  BY FillsStay
<1>2. \A s \in Symbols : Entries(s) \subseteq Entries(s)'
  BY <1>1 DEF Entries, FillsKept
<1>3. \A j \in Orders : orders[j].symbol \in Symbols
  BY DEF TypeOK, TablesTypeOK, OrderRow
<1>4. ASSUME SameTerms, \A j \in Orders : Taken(j)' <=> Taken(j),
             \A s \in Symbols : held'[s] > 0 => held[s] > 0 \/ Entries(s)' # {}
      PROVE  TakenInOrder' /\ SalesFollowPurchases' /\ HoldingsWereBought'
  BY <1>2, <1>3, <1>4 DEF CloseInv, TakenInOrder, SalesFollowPurchases, HoldingsWereBought, SameTerms
<1>5. CASE BeginOrderSync
  <2>1. /\ UNCHANGED <<orders, position, remote, held>>
        /\ saved'.orders = orders /\ saved'.position = position
        /\ todo' = {i \in Orders : orders[i].status \in ReconcileStatuses}
    BY <1>5 DEF BeginOrderSync, tables, broker
  <2>2. VisitsAreDue' /\ \A j \in Orders : Taken(j)' <=> Taken(j)
    BY <2>1 DEF VisitsAreDue, Taken
  <2>3. TakenInOrder' /\ SalesFollowPurchases' /\ HoldingsWereBought'
    BY <1>4, <2>1, <2>2 DEF SameTerms
  <2>4. RowsHaveGrounds(orders, position)' /\ RowsHaveGrounds(saved.orders, saved.position)'
    BY <1>2, <2>1, <2>2 DEF CloseInv, RowsHaveGrounds
  <2> QED BY <2>2, <2>3, <2>4 DEF CloseInv
<1>6. CASE \E i \in Orders : Visit(i)
  BY <1>1, <1>6, VisitKeepsCloseInv
<1>7. CASE BeginDealSync \/ CommitOrderSync \/ Quiet \/ UNCHANGED vars \/ Broker
  <2>1. /\ UNCHANGED <<orders, position>> /\ (Syncing' => Syncing /\ UNCHANGED saved)
        /\ pc' = "orders" => pc = "orders" /\ UNCHANGED todo
    BY <1>7, QuietFrame, BrokerFills
    DEF BeginDealSync, CommitOrderSync, tables, vars, loop, sync, Syncing
  <2>2. /\ \A j \in Orders : Taken(j)' <=> Taken(j)
        /\ \A s \in Symbols : held'[s] > 0 => held[s] > 0 \/ Entries(s)' # {}
    <3>1. CASE Broker
      BY <3>1, BrokerHoldings
    <3>2. CASE BeginDealSync \/ CommitOrderSync \/ Quiet \/ UNCHANGED vars
      <4>1. UNCHANGED <<remote, held>>
        BY <3>2, QuietFrame DEF BeginDealSync, CommitOrderSync, broker, vars
      <4> QED BY <4>1 DEF Taken
    <3> QED BY <1>7, <3>1, <3>2
  <2>3. TakenInOrder' /\ SalesFollowPurchases' /\ HoldingsWereBought'
    BY <1>4, <2>1, <2>2 DEF SameTerms
  <2>4. RowsHaveGrounds(orders, position)' /\ VisitsAreDue'
    BY <1>2, <2>1, <2>2 DEF CloseInv, RowsHaveGrounds, VisitsAreDue
  <2>5. Syncing' => RowsHaveGrounds(saved.orders, saved.position)'
    BY <1>2, <2>1, <2>2 DEF CloseInv, RowsHaveGrounds
  <2> QED BY <2>3, <2>4, <2>5 DEF CloseInv
<1>8. CASE SyncPositions
  <2>1. UNCHANGED broker /\ pc' = "reconcile" /\ SameTerms
    BY <1>8, SyncedOrders DEF SyncPositions
  <2>2. /\ \A j \in Orders : Taken(j)' <=> Taken(j)
        /\ TakenInOrder' /\ SalesFollowPurchases' /\ HoldingsWereBought'
    BY <1>4, <2>1 DEF broker, Taken
  <2>3. ASSUME NEW j \in Orders
        PROVE  /\ orders'[j].status # "NONE" => orders[j].status # "NONE"
               /\ orders[j].side = "SELL" => orders'[j].status = orders[j].status
    BY <1>8, InferredAreEntries
  <2>4. ASSUME NEW s \in Symbols
        PROVE  /\ position'[s].status # "NONE" => Entries(s) # {}
               /\ position'[s].status = "CLOSED" =>
                    \E j \in Orders : /\ orders[j].symbol = s /\ orders[j].side = "SELL"
                                      /\ orders[j].status = "FILLED"
    BY <1>8, SyncedClose DEF CloseInv, RowsHaveGrounds, HoldingsWereBought
  <2>5. RowsHaveGrounds(orders, position)'
    BY <1>2, <2>1, <2>2, <2>3, <2>4 DEF CloseInv, RowsHaveGrounds, SameTerms
  <2> QED BY <2>1, <2>2, <2>5 DEF CloseInv, VisitsAreDue, Syncing
<1>9. CASE Tick
  <2>1. SameTerms /\ UNCHANGED <<position, broker>> /\ pc' = "idle"
          /\ \A i \in Orders : orders'[i].status = orders[i].status
    BY <1>9, TickedOrders DEF Tick, loop
  <2>2. /\ \A j \in Orders : Taken(j)' <=> Taken(j)
        /\ TakenInOrder' /\ SalesFollowPurchases' /\ HoldingsWereBought'
    BY <1>4, <2>1 DEF broker, Taken
  <2>3. RowsHaveGrounds(orders, position)'
    BY <1>2, <2>1, <2>2 DEF CloseInv, RowsHaveGrounds, SameTerms
  <2> QED BY <2>1, <2>2, <2>3 DEF CloseInv, VisitsAreDue, Syncing
<1>10. CASE Syncing /\ RolledBack
  <2>1. /\ orders' = saved.orders /\ position' = saved.position
        /\ UNCHANGED broker /\ pc' = "idle" /\ SameTerms
    BY <1>10 DEF RolledBack, LoopOver, DeadInv, SavedOrdersFit, SameTerms
  <2>2. /\ \A j \in Orders : Taken(j)' <=> Taken(j)
        /\ TakenInOrder' /\ SalesFollowPurchases' /\ HoldingsWereBought'
    BY <1>4, <2>1 DEF broker, Taken
  <2>3. RowsHaveGrounds(orders, position)'
    BY <1>2, <1>10, <2>1, <2>2 DEF CloseInv, RowsHaveGrounds
  <2> QED BY <2>1, <2>2, <2>3 DEF CloseInv, VisitsAreDue, Syncing
<1>11. CASE \E s \in Symbols, reason \in ExitReasons :
              SendExit(s, reason) \/ ExitAnswerLost(s, reason) \/ CrashAfterExit(s, reason)
  <2>1. PICK s \in Symbols, i \in Orders, row \in OrderRow :
          /\ Placing(i, row) /\ row.symbol = s /\ position[s].status = "OPEN"
          /\ pc' # "orders"
    BY <1>11, ExitPlaced
  <2>2. IsNext(i)
    BY <1>11, <2>1, PlacedNext
  <2> QED BY <1>1, <2>1, <2>2, PlacingKeepsCloseInv
<1>12. CASE \E p \in Plans : PlaceEntry(p) \/ EntryAnswerLost(p) \/ CrashAfterEntry(p)
  <2>1. PICK i \in Orders, row \in OrderRow :
          Placing(i, row) /\ row.side = "BUY" /\ pc' # "orders"
    BY <1>12, EntryPlacing
  <2>2. IsNext(i)
    BY <1>12, <2>1, PlacedNext
  <2> QED BY <1>1, <2>1, <2>2, PlacingKeepsCloseInv
<1> QED BY <1>5, <1>6, <1>7, <1>8, <1>9, <1>10, <1>11, <1>12, Kinds

\* A step that changes a row of a position places no order.
LEMMA ClosesPlaceNothing ==
  ASSUME TypeOK, DeadInv, Next, position' # position
  PROVE  SameTerms
<1>1. CASE \E i \in Orders : Visit(i)
  BY <1>1, VisitFrame
<1>2. CASE Syncing /\ RolledBack
  BY <1>2 DEF RolledBack, DeadInv, SavedOrdersFit, SameTerms
<1>3. CASE SyncPositions
  BY <1>3, SyncedOrders
<1>4. ~(BeginOrderSync \/ BeginDealSync \/ CommitOrderSync \/ Quiet \/ Broker \/ Tick)
  BY QuietFrame, BrokerFills DEF BeginOrderSync, BeginDealSync, CommitOrderSync, Tick, tables
<1>5. ~\E s \in Symbols, reason \in ExitReasons :
          SendExit(s, reason) \/ ExitAnswerLost(s, reason) \/ CrashAfterExit(s, reason)
  BY ExitPlaced DEF Placing
<1>6. ~\E p \in Plans : PlaceEntry(p) \/ EntryAnswerLost(p) \/ CrashAfterEntry(p)
  BY EntryPlacing DEF Placing
<1> QED BY <1>1, <1>2, <1>3, <1>4, <1>5, <1>6, Kinds

BoughtOnce(s) == \A i, j \in Entries(s) : i = j

\* README.md:297 says that a close is verified only by a SELL fill that confirms it.  For a
\* symbol bought once it is true, whatever is lost, late, undone or repeated: the position
\* becomes CLOSED only with a filled exit sent after the purchase.  What the run
\* doc_verified_close finds is the exit of an earlier purchase of the same symbol
\* (order_sync.py:143-170, position_sync.py:127-176).
THEOREM FirstClosesAreConfirmed ==
  Spec => [][\A s \in Symbols :
               BoughtOnce(s) /\ position[s].status = "OPEN" /\ position'[s].status = "CLOSED" =>
                 \E i \in ExitsSinceEntry(s) : orders'[i].status = "FILLED"]_vars
<1>1. Init => DeadInv /\ FillsFit /\ CloseInv
  BY InitSafe, InitFills, InitClose
<1>2. TypeOK /\ DeadInv /\ FillsFit /\ [Next]_vars => DeadInv' /\ FillsFit'
  BY DeadInvInductive, FillsFitInductive
<1>3. TypeOK /\ DeadInv /\ FillsFit /\ CloseInv /\ [Next]_vars => CloseInv'
  BY CloseInvInductive
<1>4. ASSUME TypeOK, DeadInv, FillsFit, CloseInv, CloseInv', [Next]_vars
      PROVE  [\A s \in Symbols :
                BoughtOnce(s) /\ position[s].status = "OPEN" /\ position'[s].status = "CLOSED" =>
                  \E i \in ExitsSinceEntry(s) : orders'[i].status = "FILLED"]_vars
  <2> SUFFICES ASSUME NEW s \in Symbols, BoughtOnce(s), position[s].status = "OPEN",
                      position'[s].status = "CLOSED", Next
               PROVE  \E i \in ExitsSinceEntry(s) : orders'[i].status = "FILLED"
    BY <1>4
  <2>1. PICK i \in Orders : /\ orders'[i].symbol = s /\ orders'[i].side = "SELL"
                            /\ orders'[i].status = "FILLED"
    BY <1>4 DEF CloseInv, RowsHaveGrounds
  <2>2. SameTerms
    BY <1>4, ClosesPlaceNothing
  <2>3. orders[i].symbol = s /\ orders[i].side = "SELL" /\ orders[i].status # "NONE"
    BY <1>4, <2>1, <2>2 DEF SameTerms, CloseInv, RowsHaveGrounds
  <2>4. \A j \in Entries(s) : j < i
    BY <1>4, <2>3 DEF CloseInv, SalesFollowPurchases, BoughtOnce
  <2> QED BY <2>1, <2>3, <2>4 DEF ExitsSinceEntry, Exits
<1>5. TypeOK /\ DeadInv /\ FillsFit /\ CloseInv /\ CloseInv' /\ [Next]_vars =>
        [\A s \in Symbols :
           BoughtOnce(s) /\ position[s].status = "OPEN" /\ position'[s].status = "CLOSED" =>
             \E i \in ExitsSinceEntry(s) : orders'[i].status = "FILLED"]_vars
  BY <1>4
<1> QED BY <1>1, <1>2, <1>3, <1>5, TypeCorrect, PTL DEF Spec
=============================================================================
