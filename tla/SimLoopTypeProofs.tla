------------------------- MODULE SimLoopTypeProofs -------------------------
(***************************************************************************)
(* TypeOK is an invariant of the loop for every value of the constants.    *)
(* The steps that compute rows have a lemma each; the rest are cases of    *)
(* the theorem.                                                            *)
(***************************************************************************)
EXTENDS SimLoopProperties, TLAPS

USE DEF Orders, Plans, NoPlan, NoOrder

\* No row, and every run that is over, has its type.
LEMMA EmptyTypes ==
  /\ NoOrderRow \in OrderRow /\ NoPosition \in PositionRow /\ NewPlan \in PlanRow
  /\ NoRows \in [Orders -> RemoteRow] /\ NothingSaved \in Transaction
<1>0. (CHOOSE s \in Symbols : TRUE) \in Symbols
  BY LedgerAssumption
<1>1. NoOrderRow \in OrderRow
  BY <1>0, LedgerAssumption DEF NoOrderRow, OrderRow, OrderStatuses, ReconcileStatuses
<1>2. NoPosition \in PositionRow
  BY DEF NoPosition, PositionRow
<1>3. NewPlan \in PlanRow
  BY DEF NewPlan, PlanRow, PlanStatuses, ValidationStatuses
<1>4. NoRows \in [Orders -> RemoteRow]
  BY DEF NoRows, RemoteRow, RemoteStatuses
<1>5. NothingSaved \in Transaction
  BY <1>1, <1>2, <1>3 DEF NothingSaved, Transaction
<1> QED BY <1>1, <1>2, <1>3, <1>4, <1>5

LEMMA LoopOverTypes == LoopOver => LoopTypeOK'
<1> QED BY EmptyTypes DEF LoopOver, LoopTypeOK, LoopSteps

\* The initial state has its type.
LEMMA InitTypes == Init => TypeOK
<1> SUFFICES ASSUME Init PROVE TypeOK
  OBVIOUS
<1>1. TablesTypeOK
  BY EmptyTypes DEF Init, TablesTypeOK
<1>2. BrokerTypeOK
  BY EmptyTypes DEF Init, BrokerTypeOK
<1>3. LoopTypeOK
  BY EmptyTypes DEF Init, LoopTypeOK, LoopSteps
<1> QED BY <1>1, <1>2, <1>3 DEF TypeOK

----------------------------------------------------------------------------
(* Order sync *)

\* A reading turns a status of the broker into one of the table.
LEMMA NormalizeStatusType ==
  /\ DOMAIN NormalizeStatus = {"SUBMITTED", "FILLED_PART", "FILLED_ALL", "CANCELLED_ALL",
                               "FAILED", "SUBMIT_FAILED"}
  /\ \A status \in DOMAIN NormalizeStatus :
       NormalizeStatus[status] \in {"SUBMITTED", "PARTIALLY_FILLED", "FILLED", "CANCELLED",
                                   "FAILED"}
<1> QED BY DEF NormalizeStatus

LEMMA ReadStatusType ==
  ASSUME TypeOK, NEW i \in Orders, Returned(i)
  PROVE  ReadStatus(i) \in OrderStatuses
<1>1. rows[i].status \in DOMAIN NormalizeStatus
  BY DEF TypeOK, LoopTypeOK, Returned, RemoteRow, RemoteStatuses
<1> QED BY <1>1, NormalizeStatusType DEF ReadStatus, OrderStatuses, ReconcileStatuses

LEMMA RefreshedType ==
  ASSUME TypeOK, NEW i \in Orders
  PROVE  /\ Refreshed(i) \in OrderRow
         /\ Refreshed(i).symbol = orders[i].symbol
<1>1. CASE Returned(i)
  <2>1. ReadStatus(i) \in OrderStatuses
    BY <1>1, ReadStatusType
  <2>2. orders[i] \in OrderRow /\ rows[i].filled \in Nat
    BY DEF TypeOK, TablesTypeOK, LoopTypeOK, RemoteRow
  <2> DEFINE age == IF ReadStatus(i) \in ReconcileStatuses THEN orders[i].age ELSE 0
  <2>3. age \in 0 .. 2
    BY <2>2 DEF OrderRow
  <2>4. Refreshed(i) = [orders[i] EXCEPT !.status = ReadStatus(i), !.dealt = rows[i].filled,
                                         !.age = age]
    BY <1>1, <2>2 DEF Refreshed, OrderRow
  <2> HIDE DEF age
  <2> QED BY <2>1, <2>2, <2>3, <2>4 DEF OrderRow
<1>2. CASE ~Returned(i)
  BY <1>2 DEF Refreshed, TypeOK, TablesTypeOK
<1> QED BY <1>1, <1>2

\* An order that is over, in any status, has its type.
LEMMA EndedType ==
  ASSUME NEW row \in OrderRow, NEW status \in OrderStatuses
  PROVE  [row EXCEPT !.status = status, !.age = 0] \in OrderRow
<1>1. \A age \in 0 .. 2 : [row EXCEPT !.status = status, !.age = age] \in OrderRow
  BY DEF OrderRow
<1> QED BY <1>1

\* A fill leaves rows of their types, whatever order and quantity it is of.
LEMMA ApplyFillTypes ==
  ASSUME TypeOK, NEW o \in OrderRow, NEW dealt \in Nat, ApplyFill(o, dealt)
  PROVE  /\ position' \in [Symbols -> PositionRow]
         /\ plan' \in [Plans -> PlanRow]
         /\ saved' \in Transaction
<1>1. position[o.symbol] \in PositionRow /\ o.symbol \in Symbols
  BY DEF TypeOK, TablesTypeOK, OrderRow
<1>2. DealtOr(dealt, o.qty) \in Nat
  BY DEF DealtOr, OrderRow
<1>3. BoughtPosition(o, dealt) \in PositionRow
  BY <1>1, <1>2 DEF BoughtPosition, PositionRow, NoPosition, OrderRow
<1>4. SoldPosition(o, dealt) \in PositionRow
  <2> DEFINE sold == DealtOr(dealt, o.qty)
             left == AtLeastZero(position[o.symbol].shares - sold)
             avail == AtLeastZero(position[o.symbol].available - sold)
             base == [position[o.symbol] EXCEPT !.shares = left, !.available = avail]
  <2>1. left \in Nat /\ avail \in Nat
    BY <1>1, <1>2 DEF AtLeastZero, PositionRow
  <2>2. base \in PositionRow
    BY <1>1, <2>1 DEF PositionRow
  <2>3. [base EXCEPT !.status = "CLOSED", !.verified = TRUE] \in PositionRow
    BY <2>2 DEF PositionRow
  <2>4. [base EXCEPT !.partial = @ \/ o.reason = "TARGET_1_PARTIAL"] \in PositionRow
    BY <2>2 DEF PositionRow
  <2> QED BY <1>1, <2>3, <2>4 DEF SoldPosition
<1>5. position' \in [Symbols -> PositionRow]
  BY <1>3, <1>4 DEF ApplyFill, TypeOK, TablesTypeOK
<1>6. plan' \in [Plans -> PlanRow]
  BY DEF ApplyFill, TypeOK, TablesTypeOK, PlanRow, PlanStatuses
<1>7. saved' \in Transaction
  BY DEF ApplyFill, TypeOK, LoopTypeOK, Transaction, AddsRowTwice
<1> QED BY <1>5, <1>6, <1>7
\* What a visit leaves alone has its type still.
LEMMA VisitTypes ==
  ASSUME TypeOK, NEW i, Visited(i), saved' \in Transaction, remote' \in [Orders -> RemoteRow],
         orders' \in [Orders -> OrderRow], position' \in [Symbols -> PositionRow],
         plan' \in [Plans -> PlanRow]
  PROVE  TypeOK'
<1>1. TablesTypeOK'
  BY DEF TypeOK, TablesTypeOK, Visited
<1>2. BrokerTypeOK'
  BY DEF TypeOK, BrokerTypeOK, Visited
<1>3. LoopTypeOK'
  BY DEF TypeOK, LoopTypeOK, history, Visited
<1> QED BY <1>1, <1>2, <1>3 DEF TypeOK

\* A rolled back order sync restores rows of their types.
LEMMA RolledBackTypes == TypeOK /\ RolledBack => TypeOK'
<1> SUFFICES ASSUME TypeOK, RolledBack PROVE TypeOK'
  OBVIOUS
<1>1. TablesTypeOK'
  BY DEF RolledBack, TypeOK, TablesTypeOK, LoopTypeOK, Transaction
<1>2. BrokerTypeOK'
  BY DEF RolledBack, TypeOK, BrokerTypeOK, broker
<1> QED BY <1>1, <1>2, LoopOverTypes DEF RolledBack, TypeOK

\* Every step of the order sync keeps the types.
LEMMA SyncOrderTypes == TypeOK /\ SyncOrder => TypeOK'
<1> SUFFICES ASSUME TypeOK, SyncOrder PROVE TypeOK'
  OBVIOUS
<1>1. CASE BeginOrderSync
  <2>1. TablesTypeOK' /\ BrokerTypeOK'
    BY <1>1 DEF BeginOrderSync, TypeOK, TablesTypeOK, BrokerTypeOK, tables, broker
  <2>2. PICK lost \in OutOfSight :
          rows' = [i \in Orders |-> IF i \in lost THEN [remote[i] EXCEPT !.status = "NONE"]
                                                  ELSE remote[i]]
    BY <1>1 DEF BeginOrderSync
  <2>3. \A i \in Orders : /\ remote[i] \in RemoteRow
                          /\ [remote[i] EXCEPT !.status = "NONE"] \in RemoteRow
    BY DEF TypeOK, BrokerTypeOK, RemoteRow, RemoteStatuses
  <2>4. rows' \in [Orders -> RemoteRow]
    BY <2>2, <2>3
  <2>5. saved' \in Transaction
    BY <1>1 DEF BeginOrderSync, TypeOK, TablesTypeOK, Transaction
  <2>6. LoopTypeOK'
    BY <1>1, <2>4, <2>5 DEF BeginOrderSync, TypeOK, LoopTypeOK, history, LoopSteps
  <2> QED BY <2>1, <2>6 DEF TypeOK
<1>2. ASSUME NEW i \in Orders, SyncFilled(i)
      PROVE  TypeOK'
  <2>1. Refreshed(i) \in OrderRow /\ orders[i] \in OrderRow /\ rows[i].filled \in Nat
    BY RefreshedType DEF TypeOK, TablesTypeOK, LoopTypeOK, RemoteRow
  <2>2. orders' \in [Orders -> OrderRow] /\ remote' \in [Orders -> RemoteRow]
    BY <1>2, <2>1 DEF SyncFilled, TypeOK, TablesTypeOK, BrokerTypeOK
  <2>3. /\ position' \in [Symbols -> PositionRow] /\ plan' \in [Plans -> PlanRow]
        /\ saved' \in Transaction
    BY <1>2, <2>1, ApplyFillTypes DEF SyncFilled
  <2> QED BY <1>2, <2>2, <2>3, VisitTypes DEF SyncFilled
<1>3. ASSUME NEW i \in Orders, SyncRefreshed(i) \/ SyncBuyCancelFailed(i)
      PROVE  TypeOK'
  <2>1. Refreshed(i) \in OrderRow
    BY RefreshedType
  <2>2. /\ Visited(i) /\ orders' = [orders EXCEPT ![i] = Refreshed(i)]
        /\ UNCHANGED <<position, plan, saved, remote>>
    BY <1>3 DEF SyncRefreshed, SyncBuyCancelFailed
  <2>3. /\ orders' \in [Orders -> OrderRow] /\ remote' \in [Orders -> RemoteRow]
        /\ position' \in [Symbols -> PositionRow] /\ plan' \in [Plans -> PlanRow]
        /\ saved' \in Transaction
    BY <2>1, <2>2 DEF TypeOK, TablesTypeOK, BrokerTypeOK, LoopTypeOK
  <2> QED BY <2>2, <2>3, VisitTypes
<1>4. ASSUME NEW i \in Orders, SyncSellTimedOut(i) \/ SyncBuyMissing(i)
      PROVE  TypeOK'
  <2>1. Refreshed(i) \in OrderRow
    BY RefreshedType
  <2> DEFINE grown == IF Refreshed(i).reason = "TARGET_1_PARTIAL" THEN "TARGET_1_PARTIAL_WAITING"
                                                                ELSE Refreshed(i).reason
  <2>2. [Refreshed(i) EXCEPT !.status = "SELL_WAITING_RECONCILIATION", !.reason = grown]
          \in OrderRow
    BY <2>1 DEF OrderRow, OrderStatuses, ReconcileStatuses
  <2>3. [Refreshed(i) EXCEPT !.status = "UNKNOWN_REMOTE_MISSING"] \in OrderRow
    BY <2>1 DEF OrderRow, OrderStatuses, ReconcileStatuses
  <2>4. orders' \in [Orders -> OrderRow]
    BY <1>4, <2>1, <2>2, <2>3, ZenonT(60) DEF SyncSellTimedOut, SyncBuyMissing, TypeOK, TablesTypeOK, OrderRow
  <2>5. Visited(i) /\ UNCHANGED <<position, plan, saved, remote>>
    BY <1>4 DEF SyncSellTimedOut, SyncBuyMissing
  <2>6. /\ remote' \in [Orders -> RemoteRow] /\ saved' \in Transaction
        /\ position' \in [Symbols -> PositionRow] /\ plan' \in [Plans -> PlanRow]
    BY <2>5 DEF TypeOK, TablesTypeOK, BrokerTypeOK, LoopTypeOK
  <2> QED BY <2>4, <2>5, <2>6, VisitTypes
<1>5. ASSUME NEW i \in Orders, SyncBuyCancelled(i)
      PROVE  TypeOK'
  <2>1. [Refreshed(i) EXCEPT !.status = "CANCELLED", !.age = 0] \in OrderRow
    BY RefreshedType, EndedType DEF OrderStatuses
  <2>2. orders' \in [Orders -> OrderRow]
    BY <1>5, <2>1 DEF SyncBuyCancelled, TypeOK, TablesTypeOK
  <2>3. remote' \in [Orders -> RemoteRow]
    BY <1>5, NormalizeStatusType, ZenonT(60)
    DEF SyncBuyCancelled, TypeOK, BrokerTypeOK, RemoteRow, RemoteStatuses
  <2>4. plan' \in [Plans -> PlanRow]
    BY <1>5 DEF SyncBuyCancelled, TypeOK, TablesTypeOK, PlanRow, PlanStatuses, ValidationStatuses
  <2>5. position' \in [Symbols -> PositionRow] /\ saved' \in Transaction
    BY <1>5 DEF SyncBuyCancelled, TypeOK, TablesTypeOK, LoopTypeOK
  <2> QED BY <1>5, <2>2, <2>3, <2>4, <2>5, VisitTypes DEF SyncBuyCancelled
<1>6. ASSUME NEW i \in Orders, NEW last \in 1 .. EntryQty, SyncDeals(i, last)
      PROVE  TypeOK'
  <2> DEFINE dealt == orders[i].booked + last
             booked == [orders[i] EXCEPT !.dealt = dealt, !.booked = rows[i].filled]
             over == [booked EXCEPT !.status = "FILLED", !.age = 0]
  <2>1. orders[i] \in OrderRow /\ rows[i].filled \in Nat
    BY DEF TypeOK, TablesTypeOK, LoopTypeOK, RemoteRow
  <2>2. dealt \in Nat
    BY <2>1, LedgerAssumption DEF OrderRow
  <2>3. booked \in OrderRow
    BY <2>1, <2>2 DEF OrderRow
  <2>4. over \in OrderRow
    BY <2>3, EndedType DEF OrderStatuses
  <2>5. /\ orders' \in [Orders -> OrderRow] /\ saved' \in Transaction
        /\ position' \in [Symbols -> PositionRow] /\ plan' \in [Plans -> PlanRow]
    <3>1. CASE dealt >= orders[i].qty
      <4>1. ApplyFill(orders[i], dealt) /\ orders' = [orders EXCEPT ![i] = over]
        BY <1>6, <3>1 DEF SyncDeals
      <4> QED BY <2>1, <2>2, <2>4, <4>1, ApplyFillTypes DEF TypeOK, TablesTypeOK
    <3>2. CASE ~(dealt >= orders[i].qty)
      <4>1. orders' = [orders EXCEPT ![i] = booked] /\ UNCHANGED <<position, plan, saved>>
        BY <1>6, <3>2 DEF SyncDeals
      <4> QED BY <2>3, <4>1 DEF TypeOK, TablesTypeOK, LoopTypeOK
    <3> QED BY <3>1, <3>2
  <2>6. TablesTypeOK'
    BY <1>6, <2>5 DEF SyncDeals, TypeOK, TablesTypeOK
  <2>7. BrokerTypeOK' /\ LoopTypeOK'
    BY <1>6, <2>5 DEF SyncDeals, TypeOK, BrokerTypeOK, LoopTypeOK, history, broker
  <2> QED BY <2>6, <2>7 DEF TypeOK
<1>7. CASE BeginDealSync
  <2>1. TablesTypeOK' /\ BrokerTypeOK'
    BY <1>7 DEF BeginDealSync, TypeOK, TablesTypeOK, BrokerTypeOK, tables, broker
  <2>2. LoopTypeOK'
    BY <1>7 DEF BeginDealSync, TypeOK, LoopTypeOK, history, LoopSteps, Unbooked, sync
  <2> QED BY <2>1, <2>2 DEF TypeOK
<1>8. CASE CommitOrderSync
  <2>1. TablesTypeOK' /\ BrokerTypeOK'
    BY <1>8 DEF CommitOrderSync, TypeOK, TablesTypeOK, BrokerTypeOK, tables, broker
  <2>2. LoopTypeOK'
    BY <1>8, EmptyTypes DEF CommitOrderSync, TypeOK, LoopTypeOK, history, LoopSteps
  <2> QED BY <2>1, <2>2 DEF TypeOK
<1>9. CASE OrderSyncRaises
  BY <1>9, RolledBackTypes DEF OrderSyncRaises
<1> QED BY <1>1, <1>2, <1>3, <1>4, <1>5, <1>6, <1>7, <1>8, <1>9 DEF SyncOrder

----------------------------------------------------------------------------
(* Position sync *)

\* The order a position is matched to is one of the table.
LEMMA MatchingBuyType ==
  ASSUME NEW s \in Symbols, NEW agree, MatchingBuy(s, agree) # NoOrder
  PROVE  MatchingBuy(s, agree) \in Orders
<1> QED BY DEF MatchingBuy

\* An inferred entry is one of a symbol that is held.
LEMMA InferredHeld ==
  ASSUME NEW agree, NEW i \in Inferred(agree)
  PROVE  i \in Orders /\ orders[i].symbol \in Symbols /\ held[orders[i].symbol] > 0
<1>1. PICK s \in Symbols : held[s] > 0 /\ Candidates(s) = {i}
  BY DEF Inferred, Explains
<1>2. orders[i].symbol = s
  BY <1>1 DEF Candidates
<1> QED BY <1>1, <1>2 DEF Inferred

LEMMA CanSellType == ASSUME TypeOK, NEW s \in Symbols PROVE CanSell(s) \in Nat
<1> QED BY DEF TypeOK, BrokerTypeOK, CanSell, AtLeastZero

\* What the position sync makes of a symbol is a row.
LEMMA SyncedRowTypes ==
  ASSUME TypeOK, NEW s \in Symbols
  PROVE  /\ held[s] > 0 => /\ \A agree : Detected(s, agree) \in PositionRow
                            /\ Resynced(s) \in PositionRow
         /\ Vanished(s) \in PositionRow
<1>1. position[s] \in PositionRow /\ held[s] \in Int /\ CanSell(s) \in Nat
  BY CanSellType DEF TypeOK, TablesTypeOK, BrokerTypeOK
<1>2. ASSUME NEW agree, held[s] > 0 PROVE Detected(s, agree) \in PositionRow
  <2> DEFINE match == MatchingBuy(s, agree)
  <2>1. match # NoOrder => orders[match].plan \in Plans \cup {NoPlan}
    BY MatchingBuyType DEF TypeOK, TablesTypeOK, OrderRow
  <2>2. Detected(s, agree) =
          [status |-> "OPEN", shares |-> held[s], available |-> CanSell(s),
           source |-> IF match # NoOrder THEN "LOCAL_AND_FUTU_CONFIRMED" ELSE "FUTU_DETECTED",
           orphan |-> match = NoOrder,
           plan |-> IF match # NoOrder THEN orders[match].plan ELSE NoPlan,
           partial |-> FALSE, verified |-> FALSE]
    BY DEF Detected
  <2> HIDE DEF match
  <2>3. held[s] \in Nat
    BY <1>1, <1>2
  <2>4. CASE match = NoOrder
    BY <1>1, <2>2, <2>3, <2>4 DEF PositionRow
  <2>5. CASE match # NoOrder
    BY <1>1, <2>1, <2>2, <2>3, <2>5 DEF PositionRow
  <2> QED BY <2>4, <2>5
<1>3. ASSUME held[s] > 0 PROVE Resynced(s) \in PositionRow
  <2>1. held[s] \in Nat
    BY <1>1, <1>3
  <2>2. CASE position[s].plan = NoPlan
    BY <1>1, <2>1, <2>2 DEF Resynced, PositionRow
  <2>3. CASE position[s].plan # NoPlan
    BY <1>1, <2>1, <2>3 DEF Resynced, PositionRow
  <2> QED BY <2>2, <2>3
<1>4. Vanished(s) \in PositionRow
  BY <1>1 DEF Vanished, PositionRow
<1> QED BY <1>2, <1>3, <1>4

LEMMA SyncPositionsTypes == TypeOK /\ SyncPositions => TypeOK'
<1> SUFFICES ASSUME TypeOK, SyncPositions PROVE TypeOK'
  OBVIOUS
<1>1. PICK agree \in MatchOutcomes :
        /\ position' = [s \in Symbols |->
             IF held[s] > 0
             THEN IF position[s].status = "NONE" THEN Detected(s, agree) ELSE Resynced(s)
             ELSE IF Gone(s) THEN Vanished(s) ELSE position[s]]
        /\ orders' = [i \in Orders |->
             IF i \in Inferred(agree)
             THEN [orders[i] EXCEPT !.status = "FILLED_INFERRED", !.age = 0,
                                    !.dealt = held[orders[i].symbol]]
             ELSE orders[i]]
        /\ plan' = [p \in Plans |->
             IF \E i \in Inferred(agree) : orders[i].plan = p
             THEN [plan[p] EXCEPT !.status = "IN_POSITION"]
             ELSE IF /\ plan[p].status = "IN_POSITION"
                     /\ \E s \in Symbols : Gone(s) /\ position[s].plan = p
             THEN [plan[p] EXCEPT !.status = "COOLDOWN"]
             ELSE plan[p]]
  BY DEF SyncPositions
<1>2. position' \in [Symbols -> PositionRow]
  BY <1>1, SyncedRowTypes DEF TypeOK, TablesTypeOK
<1>3. orders' \in [Orders -> OrderRow]
  <2>1. ASSUME NEW i \in Orders, i \in Inferred(agree)
        PROVE  [orders[i] EXCEPT !.status = "FILLED_INFERRED", !.age = 0,
                                 !.dealt = held[orders[i].symbol]] \in OrderRow
    <3>1. held[orders[i].symbol] \in Nat
      BY <2>1, InferredHeld DEF TypeOK, BrokerTypeOK
    <3>2. [orders[i] EXCEPT !.status = "FILLED_INFERRED", !.age = 0] \in OrderRow
      BY EndedType DEF TypeOK, TablesTypeOK, OrderStatuses
    <3> QED BY <3>1, <3>2 DEF OrderRow
  <2>2. \A i \in Orders : orders[i] \in OrderRow
    BY DEF TypeOK, TablesTypeOK
  <2> QED BY <1>1, <2>1, <2>2
<1>4. plan' \in [Plans -> PlanRow]
  BY <1>1, ZenonT(60) DEF TypeOK, TablesTypeOK, PlanRow, PlanStatuses
<1>5. TablesTypeOK'
  BY <1>2, <1>3, <1>4 DEF SyncPositions, TypeOK, TablesTypeOK
<1>6. BrokerTypeOK' /\ LoopTypeOK'
  BY DEF SyncPositions, TypeOK, BrokerTypeOK, LoopTypeOK, history, LoopSteps, broker, sync
<1> QED BY <1>5, <1>6 DEF TypeOK

----------------------------------------------------------------------------
(* Reconciliation *)

LEMMA SeenIssuesType ==
  ASSUME TypeOK, NEW lost, NEW deals
  PROVE  SeenIssues(lost, deals) \subseteq IssueKey
<1>1. IssueTypes = {"REMOTE_POSITION_WITHOUT_LOCAL", "LOCAL_POSITION_MISSING_REMOTE",
                    "POSITION_QTY_MISMATCH", "SELL_ORDER_STUCK", "REMOTE_ORDER_WITHOUT_LOCAL",
                    "LOCAL_ORDER_MISSING_REMOTE", "CLOSE_UNVERIFIED",
                    "BUY_ORDER_INFERRED_FILLED", "ACCOUNT_SYNC_FAILED",
                    "RECONCILIATION_RUN_FAILED"}
  BY DEF IssueTypes, Severity
<1>2. \A i \in Orders : orders[i].symbol \in Symbols
  BY DEF TypeOK, TablesTypeOK, OrderRow
<1>3. RemotePositionsWithoutLocal \cup LocalPositions \cup ClosedUnverified \subseteq IssueKey
  BY <1>1 DEF RemotePositionsWithoutLocal, LocalPositions, ClosedUnverified, Issue, IssueKey
<1>4. RemoteOrdersWithoutLocal(lost) \cup LocalOrders(lost, deals) \cup InferredBuyOrders
        \subseteq IssueKey
  BY <1>1, <1>2 DEF RemoteOrdersWithoutLocal, LocalOrders, InferredBuyOrders, Issue, IssueKey
<1> QED BY <1>3, <1>4 DEF SeenIssues

LEMMA FailureIssueTypes ==
  /\ Issue("ACCOUNT_SYNC_FAILED", NoSymbol, NoOrder) \in IssueKey
  /\ Issue("RECONCILIATION_RUN_FAILED", NoSymbol, NoOrder) \in IssueKey
<1>1. "ACCOUNT_SYNC_FAILED" \in IssueTypes /\ "RECONCILIATION_RUN_FAILED" \in IssueTypes
  BY DEF IssueTypes, Severity
<1> QED BY <1>1 DEF Issue, IssueKey

\* The three outcomes of a reconciliation, and the save of the gate.
LEMMA ReconcileTypes ==
  ASSUME TypeOK, NEW lost, NEW deals,
         \/ Reconcile(lost, deals) \/ ReconcileRunFails(lost, deals)
         \/ ReconcileAccountFails \/ SaveGate
  PROVE  TypeOK'
<1>1. TablesTypeOK'
  BY SeenIssuesType, FailureIssueTypes
  DEF Reconcile, ReconcileRunFails, ReconcileAccountFails, SaveGate, TypeOK, TablesTypeOK
<1>2. BrokerTypeOK'
  BY DEF Reconcile, ReconcileRunFails, ReconcileAccountFails, SaveGate, TypeOK, BrokerTypeOK,
         broker
<1>3. LoopTypeOK'
  BY DEF Reconcile, ReconcileRunFails, ReconcileAccountFails, SaveGate, TypeOK, LoopTypeOK, history,
         LoopSteps, LedgersAgree, ManagedPositions, sync
<1> QED BY <1>1, <1>2, <1>3 DEF TypeOK

----------------------------------------------------------------------------
(* Position management *)

\* A retry numbers itself within the maximum.
LEMMA NextRetryType ==
  ASSUME TypeOK, NEW s \in Symbols, MaySendExit(s)
  PROVE  NextRetry(s) \in 0 .. MaxRetries
<1>1. CASE RetryDue(s) = {}
  BY <1>1, LedgerAssumption DEF NextRetry
<1>2. CASE RetryDue(s) # {}
  <2>1. PICK i \in Orders : IsRetryOf(s, i) /\ orders[i].retry < MaxRetries
    BY <1>2 DEF MaySendExit
  <2>2. \A j \in Orders : IsRetryOf(s, j) => j = i
    BY <2>1, LedgerAssumption DEF IsRetryOf
  <2>3. (CHOOSE j \in Orders : IsRetryOf(s, j)) = i
    BY <2>1, <2>2
  <2>4. orders[i].retry \in 0 .. MaxRetries
    BY DEF TypeOK, TablesTypeOK, OrderRow
  <2>5. NextRetry(s) = orders[i].retry + 1
    BY <1>2, <2>3 DEF NextRetry
  <2> QED BY <2>1, <2>4, <2>5, LedgerAssumption
<1> QED BY <1>1, <1>2

\* An exit order is a row, taken by the broker or lost with the process.
LEMMA ExitOrderType ==
  ASSUME TypeOK, NEW s \in Symbols, NEW reason \in ExitReasons, Exiting(s, reason),
         NEW status \in {"SUBMITTED", "LOST"}
  PROVE  /\ ExitQty(s, reason) \in Nat
         /\ ExitOrder(s, reason, status) \in OrderRow
<1>1. position[s] \in PositionRow
  BY DEF TypeOK, TablesTypeOK
<1>2. ExitQty(s, reason) \in Nat
  BY <1>1 DEF ExitQty, PositionRow, Smaller, Larger
<1>3. NextRetry(s) \in 0 .. MaxRetries
  BY NextRetryType DEF Exiting
<1>4. reason \in {"FULL_EXIT", "TARGET_1_PARTIAL"}
  BY ExitAssumption
<1>5. status \in OrderStatuses
  BY DEF OrderStatuses, ReconcileStatuses
<1>6. position[s].plan \in Plans \cup {NoPlan}
  BY <1>1 DEF PositionRow
<1> QED BY <1>2, <1>3, <1>4, <1>5, <1>6 DEF ExitOrder, OrderRow

\* An order the broker has just taken is one of its orders.
LEMMA AcceptedType == [status |-> "SUBMITTED", filled |-> 0] \in RemoteRow
<1> QED BY NormalizeStatusType DEF RemoteRow, RemoteStatuses

\* An exit is recorded or not, by a loop that goes on or that dies after it.
LEMMA ExitTypes ==
  ASSUME TypeOK, NEW s \in Symbols, NEW reason \in ExitReasons,
         SendExit(s, reason) \/ ExitAnswerLost(s, reason) \/ CrashAfterExit(s, reason)
  PROVE  TypeOK'
<1>1. Exiting(s, reason)
  BY DEF SendExit, ExitAnswerLost, CrashAfterExit, ExitUnrecorded
<1>2. PICK i \in Orders, status \in {"SUBMITTED", "LOST"} :
        /\ orders' = [orders EXCEPT ![i] = ExitOrder(s, reason, status)]
        /\ remote' = [remote EXCEPT ![i] = Accepted]
  BY DEF SendExit, ExitAnswerLost, CrashAfterExit, ExitUnrecorded, Unused
<1>3. ExitQty(s, reason) \in Nat /\ ExitOrder(s, reason, status) \in OrderRow
  BY <1>1, ExitOrderType
<1>4. TablesTypeOK'
  BY <1>2, <1>3 DEF SendExit, ExitAnswerLost, CrashAfterExit, ExitUnrecorded, TypeOK,
         TablesTypeOK
<1>5. BrokerTypeOK'
  <2>1. remote' \in [Orders -> RemoteRow]
    BY <1>2, AcceptedType DEF TypeOK, BrokerTypeOK, Accepted
  <2>2. reserved' \in [Symbols -> Int]
    BY <1>3 DEF SendExit, ExitAnswerLost, CrashAfterExit, ExitUnrecorded, TypeOK,
         BrokerTypeOK
  <2> QED BY <2>1, <2>2 DEF SendExit, ExitAnswerLost, CrashAfterExit, ExitUnrecorded, TypeOK,
         BrokerTypeOK
<1>6. CASE SendExit(s, reason) \/ ExitAnswerLost(s, reason)
  <2>1. LoopTypeOK'
    BY <1>6 DEF SendExit, ExitAnswerLost, TypeOK, LoopTypeOK, history, sync
  <2> QED BY <1>4, <1>5, <2>1 DEF TypeOK
<1>7. CASE CrashAfterExit(s, reason)
  BY <1>4, <1>5, <1>7, LoopOverTypes DEF CrashAfterExit, TypeOK
<1> QED BY <1>6, <1>7

----------------------------------------------------------------------------
(* Entries and plans *)

LEMMA ZoneStatusType ==
  \A zone \in PriceZones : ZoneStatus[zone] \in PlanStatuses
<1>1. \A zone \in DOMAIN ZoneStatus : ZoneStatus[zone] \in PlanStatuses
  BY DEF ZoneStatus, PlanStatuses, ValidationStatuses
<1> QED BY <1>1, ZoneAssumption

LEMMA ValidatePlansTypes == TypeOK /\ ValidatePlans => TypeOK'
<1> SUFFICES ASSUME TypeOK, ValidatePlans PROVE TypeOK'
  OBVIOUS
<1>1. PICK zone \in [Validated -> PriceZones] :
        /\ plan' = [p \in Plans |->
             IF p \in Validated THEN [plan[p] EXCEPT !.status = ZoneStatus[zone[p]]]
                                ELSE plan[p]]
        /\ context' = {p \in Validated : zone[p] # "missing"}
  BY DEF ValidatePlans
<1>2. \A p \in Validated : ZoneStatus[zone[p]] \in PlanStatuses
  BY ZoneStatusType
<1>3. plan' \in [Plans -> PlanRow]
  BY <1>1, <1>2 DEF TypeOK, TablesTypeOK, PlanRow
<1>4. context' \subseteq Plans
  BY <1>1 DEF Validated
<1>5. TablesTypeOK' /\ BrokerTypeOK'
  BY <1>3 DEF ValidatePlans, TypeOK, TablesTypeOK, BrokerTypeOK, broker
<1>6. LoopTypeOK'
  BY <1>4 DEF ValidatePlans, TypeOK, LoopTypeOK, history, LoopSteps, sync
<1> QED BY <1>5, <1>6 DEF TypeOK

\* The decisions on one plan change no more than its row.
LEMMA DecisionTypes ==
  ASSUME TypeOK, NEW p \in Plans,
         RejectByRules(p) \/ MissByCapital(p) \/ RejectByReconciliation(p) \/ Approve(p)
  PROVE  TypeOK'
<1>1. plan' \in [Plans -> PlanRow]
  <2>1. PICK approved \in BOOLEAN :
          \/ plan' = [plan EXCEPT ![p].approved = approved]
          \/ plan' = [plan EXCEPT ![p].status = "MISSED_BY_CAPITAL"]
    BY DEF RejectByRules, MissByCapital, RejectByReconciliation, Approve
  <2> QED BY <2>1 DEF TypeOK, TablesTypeOK, PlanRow, PlanStatuses, ValidationStatuses
<1>2. TablesTypeOK' /\ BrokerTypeOK'
  BY <1>1 DEF RejectByRules, MissByCapital, RejectByReconciliation, Approve, Deciding, TypeOK,
              TablesTypeOK, BrokerTypeOK, broker
<1>3. pc' \in LoopSteps /\ todo' \subseteq Orders \cup Symbols \cup Plans
  BY DEF RejectByRules, MissByCapital, RejectByReconciliation, Approve, Deciding, TypeOK,
         LoopTypeOK, LoopSteps
<1>4. LoopTypeOK'
  BY <1>3 DEF RejectByRules, MissByCapital, RejectByReconciliation, Approve, Deciding, TypeOK,
              LoopTypeOK, history, sync
<1> QED BY <1>2, <1>4 DEF TypeOK

\* An entry is recorded or not; the loop ends with it, dies after it or goes on.
LEMMA EntryTypes ==
  ASSUME TypeOK, NEW p \in Plans,
         PlaceEntry(p) \/ EntryAnswerLost(p) \/ CrashAfterEntry(p)
  PROVE  TypeOK'
<1>1. PICK i \in Orders, status \in {"SUBMITTED", "LOST"} :
        /\ orders' = [orders EXCEPT ![i] = EntryOrder(p, status)]
        /\ remote' = [remote EXCEPT ![i] = [status |-> "SUBMITTED", filled |-> 0]]
  BY DEF PlaceEntry, EntryAnswerLost, CrashAfterEntry, EntryUnrecorded, Unused
<1>2. EntryOrder(p, status) \in OrderRow
  BY LedgerAssumption DEF EntryOrder, SymbolOf, OrderRow, OrderStatuses, ReconcileStatuses
<1>3. plan' \in [Plans -> PlanRow] /\ dayEntries' \in Nat
  BY DEF PlaceEntry, EntryAnswerLost, CrashAfterEntry, EntryUnrecorded, TypeOK, TablesTypeOK,
         PlanRow, PlanStatuses
<1>4. TablesTypeOK'
  BY <1>1, <1>2, <1>3
  DEF PlaceEntry, EntryAnswerLost, CrashAfterEntry, EntryUnrecorded, TypeOK, TablesTypeOK
<1>5. BrokerTypeOK'
  BY <1>1, AcceptedType
  DEF PlaceEntry, EntryAnswerLost, CrashAfterEntry, EntryUnrecorded, TypeOK, BrokerTypeOK
<1>6. CASE PlaceEntry(p) \/ CrashAfterEntry(p)
  BY <1>4, <1>5, <1>6, LoopOverTypes DEF PlaceEntry, CrashAfterEntry, TypeOK
<1>7. CASE EntryAnswerLost(p)
  <2>1. LoopTypeOK'
    BY <1>7 DEF EntryAnswerLost, TypeOK, LoopTypeOK, history, sync
  <2> QED BY <1>4, <1>5, <2>1 DEF TypeOK
<1> QED BY <1>6, <1>7

LEMMA GeneratePlansTypes == ASSUME TypeOK, NEW pool, GeneratePlans(pool) PROVE TypeOK'
<1>1. plan' \in [Plans -> PlanRow]
  BY DEF GeneratePlans, TypeOK, TablesTypeOK, PlanRow, PlanStatuses, ValidationStatuses
<1>2. TablesTypeOK' /\ BrokerTypeOK' /\ LoopTypeOK'
  BY <1>1 DEF GeneratePlans, TypeOK, TablesTypeOK, BrokerTypeOK, LoopTypeOK,
         history, broker, loop, sync
<1> QED BY <1>2 DEF TypeOK

\* Steps that change no row, or one plan to BLOCKED.
LEMMA ControlTypes ==
  ASSUME TypeOK,
         \/ SyncPositionsFails \/ EndManage \/ ReadPortfolio \/ EndApprovals \/ EndLoop
         \/ \E s \in Symbols : HoldPosition(s)
         \/ \E p \in Plans : SkipEntry(p) \/ EntryRefused(p)
  PROVE  TypeOK'
<1>1. plan' \in [Plans -> PlanRow]
  BY DEF SyncPositionsFails, EndManage, ReadPortfolio, EndApprovals, EndLoop, HoldPosition,
         SkipEntry, EntryRefused, TypeOK, TablesTypeOK, PlanRow, PlanStatuses, tables
<1>2. TablesTypeOK' /\ BrokerTypeOK'
  BY <1>1 DEF SyncPositionsFails, EndManage, ReadPortfolio, EndApprovals, EndLoop, HoldPosition,
              SkipEntry, EntryRefused, TypeOK, TablesTypeOK, BrokerTypeOK, tables, broker
<1>3. CASE EndLoop
  BY <1>2, <1>3, LoopOverTypes DEF EndLoop, TypeOK
<1>4. CASE ~EndLoop
  <2>1. LoopTypeOK'
    BY <1>4 DEF SyncPositionsFails, EndManage, ReadPortfolio, EndApprovals, HoldPosition,
                SkipEntry, EntryRefused, TypeOK, LoopTypeOK, history, LoopSteps, sync
  <2> QED BY <1>2, <2>1 DEF TypeOK
<1> QED BY <1>3, <1>4

----------------------------------------------------------------------------
(* The broker and the environment *)

LEMMA BrokerTypes == TypeOK /\ Broker => TypeOK'
<1> SUFFICES ASSUME TypeOK, Broker PROVE TypeOK'
  OBVIOUS
<1>1. ASSUME NEW i \in Orders, NEW n \in 1 .. EntryQty, Fill(i, n) PROVE TypeOK'
  <2>0. n \in Nat
    BY LedgerAssumption
  <2>1. /\ orders[i].symbol \in Symbols /\ orders[i].qty \in Nat
        /\ remote[i] \in RemoteRow /\ remote[i].filled + n \in Nat
    BY <2>0 DEF TypeOK, TablesTypeOK, BrokerTypeOK, OrderRow, RemoteRow
  <2>2. remote' \in [Orders -> RemoteRow]
    <3> DEFINE status == IF remote[i].filled + n = orders[i].qty THEN "FILLED_ALL"
                                                                 ELSE "FILLED_PART"
               row == [remote[i] EXCEPT !.filled = @ + n, !.status = status]
    <3>1. status \in RemoteStatuses
      BY NormalizeStatusType DEF RemoteStatuses
    <3>2. row \in RemoteRow
      BY <2>1, <3>1 DEF RemoteRow
    <3>3. remote' = [remote EXCEPT ![i] = row]
      BY <1>1 DEF Fill, TypeOK, BrokerTypeOK
    <3> QED BY <3>2, <3>3 DEF TypeOK, BrokerTypeOK
  <2>3. BrokerTypeOK'
    BY <1>1, <2>1, <2>2 DEF Fill, TypeOK, BrokerTypeOK
  <2>4. TablesTypeOK' /\ LoopTypeOK'
    BY <1>1 DEF Fill, TypeOK, TablesTypeOK, LoopTypeOK, history, tables, loop, sync
  <2> QED BY <2>3, <2>4 DEF TypeOK
<1>2. ASSUME NEW i \in Orders, BrokerEnds(i) PROVE TypeOK'
  <2>1. /\ orders[i].symbol \in Symbols /\ orders[i].qty \in Nat
        /\ remote[i] \in RemoteRow /\ remote[i].filled \in Nat
    BY DEF TypeOK, TablesTypeOK, BrokerTypeOK, OrderRow, RemoteRow
  <2>2. remote' \in [Orders -> RemoteRow]
    BY <1>2, <2>1, NormalizeStatusType, BrokerAssumption
    DEF BrokerEnds, TypeOK, BrokerTypeOK, RemoteRow, RemoteStatuses
  <2>3. BrokerTypeOK'
    BY <1>2, <2>1, <2>2 DEF BrokerEnds, TypeOK, BrokerTypeOK
  <2>4. TablesTypeOK' /\ LoopTypeOK'
    BY <1>2 DEF BrokerEnds, TypeOK, TablesTypeOK, LoopTypeOK, history, tables, loop, sync
  <2> QED BY <2>3, <2>4 DEF TypeOK
<1> QED BY <1>1, <1>2 DEF Broker

\* Time passes, between two loops.
LEMMA TimeTypes == TypeOK /\ (Tick \/ NewDay) => TypeOK'
<1> SUFFICES ASSUME TypeOK, Tick \/ NewDay PROVE TypeOK'
  OBVIOUS
<1>1. ASSUME NEW i \in Orders, orders[i].age < 2
      PROVE  [orders[i] EXCEPT !.age = @ + 1] \in OrderRow
  <2>1. orders[i] \in OrderRow /\ orders[i].age + 1 \in 0 .. 2
    BY <1>1 DEF TypeOK, TablesTypeOK, OrderRow
  <2> QED BY <2>1 DEF OrderRow
<1>2. orders' \in [Orders -> OrderRow]
  BY <1>1 DEF Tick, NewDay, TypeOK, TablesTypeOK
<1>3. TablesTypeOK' /\ BrokerTypeOK' /\ LoopTypeOK'
  BY <1>2 DEF Tick, NewDay, TypeOK, TablesTypeOK, BrokerTypeOK, LoopTypeOK,
         history, broker, loop, sync
<1> QED BY <1>3 DEF TypeOK

LEMMA CrashTypes == TypeOK /\ Crash => TypeOK'
<1> SUFFICES ASSUME TypeOK, Crash PROVE TypeOK'
  OBVIOUS
<1>1. CASE LoopOver /\ UNCHANGED <<tables, broker>>
  <2>1. TablesTypeOK' /\ BrokerTypeOK'
    BY <1>1 DEF TypeOK, TablesTypeOK, BrokerTypeOK, tables, broker
  <2> QED BY <1>1, <2>1, LoopOverTypes DEF TypeOK
<1>2. CASE CrashInOrderSync
  BY <1>2, RolledBackTypes DEF CrashInOrderSync
<1> QED BY <1>1, <1>2, ExitTypes, EntryTypes DEF Crash

----------------------------------------------------------------------------
\* Whatever the constants, every reachable state of the loop has its types:
\* no status, reason, retry number, quantity or issue outside those the code
\* knows is ever stored, and no available or dealt quantity is negative
\* (models.py:326-389, position_manager.py:166-190, order_sync.py:171-173).
THEOREM TypeCorrect == Spec => []TypeOK
<1>1. Init => TypeOK
  BY InitTypes
<1>2. TypeOK /\ [Next]_vars => TypeOK'
  <2> SUFFICES ASSUME TypeOK, [Next]_vars PROVE TypeOK'
    OBVIOUS
  <2>1. CASE LoopStep
    BY <2>1, SyncOrderTypes, SyncPositionsTypes, ReconcileTypes, ExitTypes, ValidatePlansTypes,
       DecisionTypes, EntryTypes, ControlTypes
    DEF LoopStep
  <2>2. CASE Broker \/ Tick \/ NewDay \/ Crash
    BY <2>2, BrokerTypes, TimeTypes, CrashTypes
  <2>3. CASE \E pool \in Pools : GeneratePlans(pool)
    BY <2>3, GeneratePlansTypes
  <2>4. CASE UNCHANGED vars
    BY <2>4 DEF vars, tables, broker, loop, sync, history, TypeOK, TablesTypeOK,
         BrokerTypeOK, LoopTypeOK
  <2> QED BY <2>1, <2>2, <2>3, <2>4 DEF Next
<1> QED BY <1>1, <1>2, PTL DEF Spec
=============================================================================
