---------------------------- MODULE TradeLedger ----------------------------
(***************************************************************************)
(* The four ledgers of HeadacheTradeV2 and the control state of one sim    *)
(* loop: the variables, types and row helpers shared by the modules that   *)
(* model the services of app/services (OrderSync, PositionSync,            *)
(* TradeReconciler, PositionManager, EntryPipeline).                       *)
(*                                                                         *)
(* An order id stands for one order in both of its lives: orders[i] is the *)
(* local SimOrder row, remote[i] is the order the broker knows under the   *)
(* futu_order_id of that row.  Ids are given in submission order.          *)
(***************************************************************************)
EXTENDS Integers, FiniteSets

CONSTANTS
  Symbols,          \* stock symbols
  NumPlans,         \* the TradePlan ids are 1 .. NumPlans, in creation order
  PlanSymbol,       \* [Plans -> Symbols], TradePlan.symbol
  MaxOrders,        \* bound: orders placed in one behaviour
  EntryQty,         \* suggested_shares of every plan
  MaxRetries,       \* settings.max_exit_order_retries
  MaxPositions,     \* settings.max_positions
  MaxDailyNewTrades, \* settings.max_daily_new_trades
  MayLoseSight,     \* BOOLEAN: get_open_orders() may leave orders out
  AnswersLost       \* BOOLEAN: place_order may fail after the broker took the order

Plans == 1 .. NumPlans
Orders == 1 .. MaxOrders
NoPlan == 0
NoOrder == 0

ASSUME LedgerAssumption ==
  /\ Symbols # {} /\ NumPlans \in Nat /\ MaxOrders \in Nat /\ EntryQty \in Nat \ {0}
  /\ MaxRetries \in Nat /\ MaxPositions \in Nat /\ MaxDailyNewTrades \in Nat
  /\ MayLoseSight \in BOOLEAN /\ AnswersLost \in BOOLEAN
  /\ PlanSymbol \in [1 .. NumPlans -> Symbols]

VARIABLES
  orders,     \* [Orders -> OrderRow], the SimOrder table
  position,   \* [Symbols -> PositionRow], the Position table (symbol is unique)
  plan,       \* [Plans -> PlanRow], the TradePlan table
  issues,     \* the OPEN ReconciliationIssue rows
  gate,       \* SystemConfig "reconciliation_gate_status"
  dayEntries, \* today's SIM_ORDER_SUBMITTED audit rows
  remote,     \* [Orders -> RemoteRow], the broker's orders
  held,       \* [Symbols -> Int], shares in the broker's account
  reserved,   \* [Symbols -> Int], shares the exits live at the broker may sell
  pc,         \* the step the running sim loop is about to take
  rows,       \* get_open_orders() and get_deals() as read by this order sync
  saved,      \* what the database holds while the order sync has not committed
  todo,       \* ids the current step of the loop has still to visit
  capital,    \* PortfolioState.status of this loop
  context,    \* plans that have a realtime context in this loop
  clean,      \* history: this loop's reconciliation ran on agreeing ledgers
  passed      \* history: the plans this loop's rules approved

tables == <<orders, position, plan, issues, gate, dayEntries>>
broker == <<remote, held, reserved>>
sync == <<rows, saved>>
history == <<clean, passed>>
loop == <<pc, sync, todo, capital, context, history>>
vars == <<tables, broker, loop>>

----------------------------------------------------------------------------
(* Rows *)

ReconcileStatuses == {"SUBMITTED", "PARTIALLY_FILLED",
                      "UNKNOWN_REMOTE_MISSING", "SELL_WAITING_RECONCILIATION"}

\* "NONE": no such order.  "LOST": the broker has the order and no row of the
\* table has its futu_order_id, because the process died or place_order raised.
OrderStatuses == ReconcileStatuses \cup
  {"NONE", "LOST", "FILLED", "FILLED_INFERRED", "CANCELLED", "FAILED"}

\* Mutant: an order cancelled at the broker counts as filled.
NormalizeCancelledAsFilled ==
  [SUBMITTED |-> "SUBMITTED", FILLED_PART |-> "PARTIALLY_FILLED",
   FILLED_ALL |-> "FILLED", CANCELLED_ALL |-> "FILLED", FAILED |-> "FAILED",
   SUBMIT_FAILED |-> "SUBMITTED"]

\* _normalize_status, on the statuses the broker gives.  Whatever is in none
\* of its sets, SUBMIT_FAILED for one, becomes SUBMITTED.
NormalizeStatus ==
  [SUBMITTED |-> "SUBMITTED", FILLED_PART |-> "PARTIALLY_FILLED",
   FILLED_ALL |-> "FILLED", CANCELLED_ALL |-> "CANCELLED", FAILED |-> "FAILED",
   SUBMIT_FAILED |-> "SUBMITTED"]

RemoteStatuses == {"NONE"} \cup DOMAIN NormalizeStatus

\* age 1: older than entry_order_timeout_seconds; age 2: older than
\* sell_reconcile_retry_seconds.  reason: what the code later compares.
\* booked: the shares of the SimDeal rows of this order.
OrderRow ==
  [status : OrderStatuses, plan : Plans \cup {NoPlan}, symbol : Symbols,
   side : {"BUY", "SELL"}, qty : Nat, dealt : Nat, booked : Nat, age : 0 .. 2,
   reason : {"ENTRY", "FULL_EXIT", "TARGET_1_PARTIAL", "TARGET_1_PARTIAL_WAITING"},
   retry : 0 .. MaxRetries]

RemoteRow == [status : RemoteStatuses, filled : Nat]

PositionRow ==
  [status : {"NONE", "OPEN", "CLOSED", "CLOSED_UNVERIFIED"},
   shares : Nat, available : Nat,
   source : {"LOCAL_STRATEGY", "FUTU_DETECTED", "LOCAL_AND_FUTU_CONFIRMED"},
   orphan : BOOLEAN, plan : Plans \cup {NoPlan},
   partial : BOOLEAN, verified : BOOLEAN]

ValidationStatuses == {"ACTIVE", "ARMED", "NO_CHASE", "MISSED_BY_CAPITAL"}

PlanStatuses == ValidationStatuses \cup
  {"TRIGGERED", "PAUSED", "INVALIDATED", "BLOCKED", "ORDER_SUBMITTED",
   "IN_POSITION", "COOLDOWN"}

PlanRow == [status : PlanStatuses, approved : BOOLEAN]

Transaction ==
  [orders : [Orders -> OrderRow], position : [Symbols -> PositionRow],
   plan : [Plans -> PlanRow], doomed : BOOLEAN]

Severity ==
  [REMOTE_POSITION_WITHOUT_LOCAL |-> "HIGH", LOCAL_POSITION_MISSING_REMOTE |-> "HIGH",
   POSITION_QTY_MISMATCH |-> "HIGH", SELL_ORDER_STUCK |-> "HIGH",
   REMOTE_ORDER_WITHOUT_LOCAL |-> "WARN", LOCAL_ORDER_MISSING_REMOTE |-> "WARN",
   CLOSE_UNVERIFIED |-> "WARN", BUY_ORDER_INFERRED_FILLED |-> "INFO",
   ACCOUNT_SYNC_FAILED |-> "CRITICAL", RECONCILIATION_RUN_FAILED |-> "CRITICAL"]

IssueTypes == DOMAIN Severity

Larger(a, b) == IF a > b THEN a ELSE b
Smaller(a, b) == IF a < b THEN a ELSE b

NoSymbol == "-"

IssueKey == [type : IssueTypes, symbol : Symbols \cup {NoSymbol},
             order : Orders \cup {NoOrder}]

LoopSteps == {"idle", "orders", "deals", "positions", "reconcile", "save", "manage",
              "portfolio", "validate", "approve", "execute"}

TablesTypeOK ==
  /\ orders \in [Orders -> OrderRow]
  /\ position \in [Symbols -> PositionRow]
  /\ plan \in [Plans -> PlanRow]
  /\ issues \subseteq IssueKey
  /\ gate \in {"UNSAVED", "ALLOW", "BLOCK"}
  /\ dayEntries \in Nat

BrokerTypeOK ==
  /\ remote \in [Orders -> RemoteRow]
  /\ held \in [Symbols -> Int] /\ reserved \in [Symbols -> Int]

LoopTypeOK ==
  /\ pc \in LoopSteps
  /\ rows \in [Orders -> RemoteRow]
  /\ saved \in Transaction
  /\ todo \subseteq Orders \cup Symbols \cup Plans
  /\ capital \in {"CAPITAL_AVAILABLE", "CAPITAL_FULL", "CAPITAL_UNKNOWN"}
  /\ context \subseteq Plans
  /\ clean \in BOOLEAN /\ passed \subseteq Plans

TypeOK == TablesTypeOK /\ BrokerTypeOK /\ LoopTypeOK

----------------------------------------------------------------------------
(* Queries several services make *)

\* Mutant: max(0, n) is forgotten.
Unclamped(n) == n

AtLeastZero(n) == IF n > 0 THEN n ELSE 0
DealtOr(n, qty) == IF n # 0 THEN n ELSE qty     \* order.dealt_qty or order.qty

RemoteLive(i) == remote[i].status \in {"SUBMITTED", "FILLED_PART"}

\* What one reading of the broker's orders may leave out.
OutOfSight == IF MayLoseSight THEN SUBSET {i \in Orders : remote[i].status # "NONE"}
                              ELSE {{}}

InTable(i) == orders[i].status \notin {"NONE", "LOST"}
LiveLocal(s, side) ==
  {i \in Orders : /\ orders[i].symbol = s /\ orders[i].side = side
                  /\ orders[i].status \in {"SUBMITTED", "PARTIALLY_FILLED"}}

\* The next free id, for an order about to be placed.
Unused == {i \in Orders : orders[i].status = "NONE" /\ remote[i].status = "NONE"}
IsNext(i) == i \in Unused /\ \A j \in Unused : i <= j

First(S) == CHOOSE i \in S : \A j \in S : i <= j

----------------------------------------------------------------------------
(* What a run starts from, and goes back to: its own variables die with it. *)

NoOrderRow ==
  [status |-> "NONE", plan |-> NoPlan, symbol |-> CHOOSE s \in Symbols : TRUE,
   side |-> "BUY", qty |-> 0, dealt |-> 0, booked |-> 0, age |-> 0,
   reason |-> "ENTRY", retry |-> 0]

NoPosition ==
  [status |-> "NONE", shares |-> 0, available |-> 0, source |-> "LOCAL_STRATEGY",
   orphan |-> FALSE, plan |-> NoPlan, partial |-> FALSE, verified |-> FALSE]

NewPlan == [status |-> "ACTIVE", approved |-> FALSE]

NoRows == [i \in Orders |-> [status |-> "NONE", filled |-> 0]]

NothingSaved ==
  [orders |-> [i \in Orders |-> NoOrderRow], position |-> [s \in Symbols |-> NoPosition],
   plan |-> [p \in Plans |-> NewPlan], doomed |-> FALSE]

LoopOver ==
  /\ pc' = "idle" /\ todo' = {} /\ rows' = NoRows /\ saved' = NothingSaved
  /\ capital' = "CAPITAL_UNKNOWN" /\ context' = {} /\ clean' = FALSE /\ passed' = {}
=============================================================================
