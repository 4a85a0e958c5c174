----------------------------- MODULE PriceRules -----------------------------
(***************************************************************************)
(* The price levels of a trade, from the structure it is planned on to the *)
(* exit: trade_plan.py sets them, realtime_execution_validator.py and      *)
(* sim_order_executor.py compare a quote with them, order_sync.py and      *)
(* position_sync.py copy them to the holding, and position_manager.py      *)
(* compares the holding's quotes.  SimLoop chooses the outcomes of these   *)
(* comparisons freely; here they are computed.  LONG plans only: no other  *)
(* is ever validated.                                                      *)
(*                                                                         *)
(* A price is a number of 0.0001, the place the plan is rounded to.        *)
(***************************************************************************)
EXTENDS Integers

CONSTANTS
  Items,   \* [reference, stop_reference, atr]: the levels of structures
  Quotes,  \* last prices
  Budgets  \* risk_per_trade_pct of an account's equity

\* Steps in which a tenth of an ATR and half a risk are whole.
ASSUME PriceAssumption ==
  /\ \A item \in Items : /\ item.reference \in Nat /\ item.reference % 2 = 0
                         /\ item.stop_reference \in Nat /\ item.stop_reference % 2 = 0
                         /\ item.atr \in Nat \ {0} /\ item.atr % 20 = 0
  /\ Quotes \subseteq Nat \ {0} /\ Budgets \subseteq Nat

Least(a, b) == IF a < b THEN a ELSE b

----------------------------------------------------------------------------
(* The plan *)

\* Mutant: the price may be chased for a whole ATR.
LevelsChasedFar(item) ==
  LET entry == item.reference + item.atr \div 10
      stop == item.stop_reference - item.atr \div 2
      risk == entry - stop
  IN [entry |-> entry, stop |-> stop, no_chase |-> entry + item.atr,
      target_1 |-> entry + 3 * (risk \div 2), target_2 |-> entry + 2 * risk]

Levels(item) ==
  LET entry == item.reference + item.atr \div 10
      stop == item.stop_reference - item.atr \div 2
      risk == entry - stop
  IN [entry |-> entry, stop |-> stop, no_chase |-> entry + item.atr \div 2,
      target_1 |-> entry + 3 * (risk \div 2), target_2 |-> entry + 2 * risk]

IsPlanned(plan) == 0 < plan.stop /\ plan.stop < plan.entry

----------------------------------------------------------------------------
(* The entry *)

\* The zones of EntryPipeline's ZoneStatus.
Zone(plan, quote) ==
  CASE quote <= plan.stop -> "stopped"
    [] quote > plan.stop /\ quote > plan.no_chase -> "chase"
    [] quote > plan.stop /\ plan.entry <= quote /\ quote <= plan.no_chase -> "breakout"
    [] quote > plan.stop /\ quote < plan.entry /\ 1000 * quote >= 995 * plan.entry -> "near"
    [] OTHER -> "below"

LimitPrice(plan, quote) == Least(quote, plan.no_chase)

\* Mutant: a budget too small for a share buys one.
SharesAtLeastOne(plan, budget) ==
  IF budget < plan.entry - plan.stop THEN 1 ELSE budget \div (plan.entry - plan.stop)

Shares(plan, budget) == budget \div (plan.entry - plan.stop)

----------------------------------------------------------------------------
(* The holding of a new row, as the manager first meets it.  No target_2 is 0. *)

orphan_stop_loss_pct == 2
orphan_take_profit_pct == 3

\* Order sync books the entry.
Booked(plan, fill) ==
  [entry |-> fill, stop |-> plan.stop, target_1 |-> plan.target_1, target_2 |-> plan.target_2]

\* Position sync finds the shares first.  If it takes the entry for filled, the
\* plan's levels are never copied.
Adopted(cost) ==
  [entry |-> cost, stop |-> ((100 - orphan_stop_loss_pct) * cost) \div 100,
   target_1 |-> ((100 + orphan_take_profit_pct) * cost + 99) \div 100, target_2 |-> 0]

\* If it does not, order sync books the entry on the row that is there: the
\* targets are the plan's, the stop is not.
BookedLater(plan, cost) ==
  [Adopted(cost) EXCEPT !.target_1 = plan.target_1, !.target_2 = plan.target_2]

\* The exit _manage_position calls for, but for the forced one before the close.
\* Nothing has been sold, so no stop trails the price, and target_1 is also the
\* price at which an orphan takes its profit.
Exit(holding, quote) ==
  CASE quote <= holding.stop -> "HARD_STOP"
    [] quote > holding.stop /\ holding.target_2 # 0 /\ quote >= holding.target_2 ->
         "TARGET_2_OR_TRAILING"
    [] quote > holding.stop /\ (holding.target_2 = 0 \/ quote < holding.target_2)
         /\ quote >= holding.target_1 -> "TARGET_1_PARTIAL"
    [] OTHER -> "NONE"

----------------------------------------------------------------------------
(* From the structure to the holding *)

\* A quote triggers the plan of a structure that was confirmed at or above its pivot.
Triggers(item, quote) ==
  /\ item.reference >= item.stop_reference
  /\ IsPlanned(Levels(item)) /\ Zone(Levels(item), quote) = "breakout"

\* What the limit order of a quote may leave in the table.
Holdings(item, quote) ==
  LET plan == Levels(item)
      limit == LimitPrice(plan, quote)
  IN {Booked(plan, limit), Adopted(limit), BookedLater(plan, limit)}

\* The loss at the plan's stop of what is bought with a budget.
LossAtStop(item, quote, budget) ==
  LET plan == Levels(item)
      holding == Booked(plan, LimitPrice(plan, quote))
  IN Shares(plan, budget) * (holding.entry - holding.stop)
=============================================================================
