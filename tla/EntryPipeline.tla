--------------------------- MODULE EntryPipeline ---------------------------
(***************************************************************************)
(* The entry half of a sim loop: portfolio_manager.get_portfolio_state,    *)
(* realtime_execution_validator, rules_approval, sim_order_executor, and   *)
(* trade_plan.generate_trade_plans, which rewrites plans between loops or, *)
(* from POST /tasks/run-pipeline, in the middle of one.                    *)
(***************************************************************************)
EXTENDS TradeLedger, TradeReconciler

CONSTANTS
  PriceZones,        \* where quotes may fall, a subset of DOMAIN ZoneStatus
  AccountReadFails,  \* BOOLEAN: get_portfolio_state may fail to read the account
  PlacementRefused,  \* BOOLEAN: the broker may refuse an entry
  UnlockedGenerate   \* BOOLEAN: plans are regenerated by the web, without the lock

SymbolOf(p) == PlanSymbol[p]

----------------------------------------------------------------------------
(* get_portfolio_state: computed once, before validation and approval.     *)

OpenPositions ==
  Larger(Cardinality({s \in Symbols : position[s].status = "OPEN"}),
         Cardinality({s \in Symbols : held[s] > 0}))

ReadPortfolio ==
  /\ pc = "portfolio"
  /\ \/ capital' = IF OpenPositions >= MaxPositions THEN "CAPITAL_FULL"
                                                    ELSE "CAPITAL_AVAILABLE"
     \/ AccountReadFails /\ capital' = "CAPITAL_UNKNOWN"
  /\ pc' = "validate"
  /\ UNCHANGED <<tables, broker, sync, todo, context, history>>

----------------------------------------------------------------------------
(* validate_active_trade_plans: one snapshot, one commit.  A plan the      *)
(* snapshot misses gets no context and is paused; a symbol in cooldown is  *)
(* paused with one.                                                        *)

ZoneStatus == [missing |-> "PAUSED", cooldown |-> "PAUSED", stopped |-> "INVALIDATED",
               chase |-> "NO_CHASE", breakout |-> "TRIGGERED", near |-> "ARMED",
               below |-> "ACTIVE"]

ASSUME ZoneAssumption == PriceZones \subseteq DOMAIN ZoneStatus

Validated == {p \in Plans : plan[p].status \in ValidationStatuses}

ValidatePlans ==
  /\ pc = "validate"
  /\ \E zone \in [Validated -> PriceZones] :
       /\ plan' = [p \in Plans |->
            IF p \in Validated THEN [plan[p] EXCEPT !.status = ZoneStatus[zone[p]]]
                               ELSE plan[p]]
       /\ context' = {p \in Validated : zone[p] # "missing"}
  /\ todo' = {p \in Plans : plan'[p].status = "TRIGGERED"}
  /\ pc' = "approve"
  /\ UNCHANGED <<orders, position, issues, gate, dayEntries, broker, sync, capital, history>>

----------------------------------------------------------------------------
(* The approvals, one plan and one commit at a time, oldest validation     *)
(* first: the plans an earlier loop left TRIGGERED, then those of this one. *)

Earliest(S) == IF S \subseteq context THEN First(S) ELSE First(S \ context)

Deciding(p) == /\ pc = "approve" /\ p \in todo /\ p = Earliest(todo)
               /\ todo' = todo \ {p}
               /\ UNCHANGED <<orders, position, issues, gate, dayEntries, broker,
                              sync, capital, context, history>>

\* Mutant: off by one in the daily maximum.
RealtimeChecksOneMore(p) ==
  /\ dayEntries <= MaxDailyNewTrades
  /\ plan[p].status = "TRIGGERED" /\ p \in context

\* The ordered checks that need no table but the audit log: a plan without a
\* context has no current price and fails them.
RealtimeChecksCanPass(p) ==
  /\ dayEntries < MaxDailyNewTrades
  /\ plan[p].status = "TRIGGERED" /\ p \in context

\* capital_allows_new_order compares symbols without normalize_symbol: a plan
\* and its BUY rows say "NVDA", a Position and its SELL rows say "US.NVDA".  So
\* it sees the unfinished entries of the symbol, no position and no exit.
CapitalAllows(p) ==
  capital = "CAPITAL_AVAILABLE" /\ LiveLocal(SymbolOf(p), "BUY") = {}

RejectByRules(p) ==
  /\ Deciding(p)
  /\ plan' = [plan EXCEPT ![p].approved = FALSE]
  /\ pc' = pc

\* Mutant: a plan that misses the capital stays TRIGGERED.
MissByCapitalStaysTriggered(p) ==
  /\ Deciding(p)
  /\ RealtimeChecksCanPass(p) /\ ~CapitalAllows(p)
  /\ plan' = plan
  /\ pc' = pc

MissByCapital(p) ==
  /\ Deciding(p)
  /\ RealtimeChecksCanPass(p) /\ ~CapitalAllows(p)
  /\ plan' = [plan EXCEPT ![p].status = "MISSED_BY_CAPITAL"]
  /\ pc' = pc

RejectByReconciliation(p) ==
  /\ Deciding(p)
  /\ RealtimeChecksCanPass(p) /\ CapitalAllows(p) /\ ~AllowsNewEntries
  /\ plan' = [plan EXCEPT ![p].approved = FALSE]
  /\ pc' = pc

\* The first approval ends the loop over the plans; the others keep whatever
\* approval status they had.
Approve(p) ==
  /\ pc = "approve" /\ p \in todo /\ p = Earliest(todo)
  /\ RealtimeChecksCanPass(p) /\ CapitalAllows(p) /\ AllowsNewEntries
  /\ plan' = [plan EXCEPT ![p].approved = TRUE]
  /\ passed' = {p}
  /\ pc' = "execute"
  /\ todo' = {q \in Plans : plan'[q].status = "TRIGGERED" /\ plan'[q].approved}
  /\ UNCHANGED <<orders, position, issues, gate, dayEntries, broker,
                 sync, capital, context, clean>>

EndApprovals ==
  /\ pc = "approve" /\ todo = {}
  /\ pc' = "execute"
  /\ todo' = {q \in Plans : plan[q].status = "TRIGGERED" /\ plan[q].approved}
  /\ UNCHANGED <<tables, broker, sync, capital, context, history>>

----------------------------------------------------------------------------
(* execute_approved_sim_orders: every TRIGGERED plan with an approval, in  *)
(* the same order, until one order is accepted.                            *)

Executing(p) == pc = "execute" /\ p \in todo /\ p = Earliest(todo)

Blocked(p) == LiveLocal(SymbolOf(p), "BUY") # {}       \* as in CapitalAllows

SkipEntry(p) ==
  /\ Executing(p) /\ Blocked(p)
  /\ todo' = todo \ {p}
  /\ UNCHANGED <<tables, broker, pc, sync, capital, context, history>>

EntryOrder(p, status) ==
  [status |-> status, plan |-> p, symbol |-> SymbolOf(p), side |-> "BUY",
   qty |-> EntryQty, dealt |-> 0, booked |-> 0, age |-> 0,
   reason |-> "ENTRY", retry |-> 0]

PlaceEntry(p) ==
  /\ Executing(p) /\ ~Blocked(p)
  /\ \E i \in Unused :
       /\ IsNext(i)
       /\ orders' = [orders EXCEPT ![i] = EntryOrder(p, "SUBMITTED")]
       /\ remote' = [remote EXCEPT ![i] = [status |-> "SUBMITTED", filled |-> 0]]
  /\ plan' = [plan EXCEPT ![p].status = "ORDER_SUBMITTED"]
  /\ dayEntries' = dayEntries + 1
  /\ LoopOver
  /\ UNCHANGED <<position, issues, gate, held, reserved>>

\* The broker refuses, or the risk budget does not buy one share.  The FAILED
\* row of a refused order has no futu_order_id and is never read again: it is
\* left out.
EntryRefused(p) ==
  /\ PlacementRefused
  /\ Executing(p) /\ ~Blocked(p)
  /\ plan' = [plan EXCEPT ![p].status = "BLOCKED"]
  /\ todo' = todo \ {p}
  /\ UNCHANGED <<orders, position, issues, gate, dayEntries, broker,
                 pc, sync, capital, context, history>>

\* The broker has an entry of which no row holds the futu_order_id ...
EntryUnrecorded(p) ==
  /\ Executing(p) /\ ~Blocked(p)
  /\ \E i \in Unused :
       /\ IsNext(i)
       /\ orders' = [orders EXCEPT ![i] = EntryOrder(p, "LOST")]
       /\ remote' = [remote EXCEPT ![i] = [status |-> "SUBMITTED", filled |-> 0]]
  /\ UNCHANGED <<position, issues, gate, dayEntries, held, reserved>>

\* ... when place_order raises although the broker took it: the plan is BLOCKED
\* like a refused one, nothing is counted, and the next plan is tried ...
EntryAnswerLost(p) ==
  /\ AnswersLost /\ EntryUnrecorded(p)
  /\ plan' = [plan EXCEPT ![p].status = "BLOCKED"]
  /\ todo' = todo \ {p}
  /\ UNCHANGED <<pc, sync, capital, context, history>>

\* ... or when the process dies between the order and the commit.
CrashAfterEntry(p) == EntryUnrecorded(p) /\ plan' = plan /\ LoopOver

\* Nothing left to execute (or, in a bounded instance, no order id left).
EndLoop ==
  /\ pc = "execute" /\ (todo = {} \/ Unused = {})
  /\ LoopOver
  /\ UNCHANGED <<tables, broker>>

----------------------------------------------------------------------------
(* generate_trade_plans for a battle pool: a plan of the pool becomes      *)
(* ACTIVE whatever its status was, and keeps its approval.                 *)

Retired == ValidationStatuses \cup {"TRIGGERED", "PAUSED"}

GeneratePlans(pool) ==
  /\ \/ pc = "idle"
     \/ UnlockedGenerate /\ pc \notin {"orders", "deals"}
  /\ plan' = [p \in Plans |->
       IF p \in pool THEN [plan[p] EXCEPT !.status = "ACTIVE"]
       ELSE IF plan[p].status \in Retired THEN [plan[p] EXCEPT !.status = "INVALIDATED"]
       ELSE plan[p]]
  /\ UNCHANGED <<orders, position, issues, gate, dayEntries, broker, loop>>
=============================================================================
