-------------------------- MODULE TradeReconciler --------------------------
(***************************************************************************)
(* app/services/trade_reconciler.py: the issues one run sees, the OPEN     *)
(* issues it leaves, the saved gate, and the failures of both.  Every      *)
(* issue type of the code is a managed one, so a full run leaves exactly   *)
(* the issues it saw.                                                      *)
(***************************************************************************)
EXTENDS TradeLedger

CONSTANT ReconcileFails  \* BOOLEAN: the account, or the run itself, may fail

Issue(type, s, i) == [type |-> type, symbol |-> s, order |-> i]

RemotePositionsWithoutLocal ==
  {Issue("REMOTE_POSITION_WITHOUT_LOCAL", s, NoOrder) :
     s \in {t \in Symbols : held[t] > 0 /\ position[t].status # "OPEN"}}

LocalPositions ==
  LET open == {s \in Symbols : position[s].status = "OPEN"}
  IN {Issue("LOCAL_POSITION_MISSING_REMOTE", s, NoOrder) :
        s \in {t \in open : held[t] <= 0}}
     \cup
     {Issue("POSITION_QTY_MISMATCH", s, NoOrder) :
        s \in {t \in open : held[t] > 0 /\ position[t].shares # held[t]}}

RemoteOrdersWithoutLocal(lost) ==
  {Issue("REMOTE_ORDER_WITHOUT_LOCAL", orders[i].symbol, i) :
     i \in {j \in Orders : orders[j].status = "LOST" /\ j \notin lost}}

\* A local order the broker neither lists nor has a deal of.
Unconfirmed(i, lost, deals) ==
  /\ orders[i].status \in ReconcileStatuses
  /\ remote[i].status = "NONE" \/ i \in lost
  /\ ~(deals /\ remote[i].filled > 0)

LocalOrders(lost, deals) ==
  {Issue(IF orders[i].side = "SELL" THEN "SELL_ORDER_STUCK" ELSE "LOCAL_ORDER_MISSING_REMOTE",
         orders[i].symbol, i) :
     i \in {j \in Orders : Unconfirmed(j, lost, deals)}}

ClosedUnverified ==
  {Issue("CLOSE_UNVERIFIED", s, NoOrder) :
     s \in {t \in Symbols : position[t].status = "CLOSED_UNVERIFIED"}}

InferredBuyOrders ==
  {Issue("BUY_ORDER_INFERRED_FILLED", orders[i].symbol, i) :
     i \in {j \in Orders : orders[j].status = "FILLED_INFERRED" /\ orders[j].side = "BUY"}}

SeenIssues(lost, deals) ==
  RemotePositionsWithoutLocal \cup LocalPositions \cup RemoteOrdersWithoutLocal(lost)
    \cup LocalOrders(lost, deals) \cup ClosedUnverified \cup InferredBuyOrders

Blocking(S) == {x \in S : Severity[x.type] \in {"HIGH", "CRITICAL"}}

\* What the run is for: the broker holds what the local tables say is open,
\* and no exit order is out of sight.
LedgersAgree(lost, deals) ==
  /\ \A s \in Symbols :
       IF position[s].status = "OPEN" THEN position[s].shares = held[s] /\ held[s] > 0
                                      ELSE held[s] <= 0
  /\ \A i \in Orders : orders[i].side = "SELL" => ~Unconfirmed(i, lost, deals)

----------------------------------------------------------------------------
(* run_trade_reconciliation commits the issues; the gate is saved after.   *)

\* Mutant: resolve_stale_issues is forgotten.
ReconcileKeepsIssues(lost, deals) ==
  /\ pc = "reconcile"
  /\ issues' = issues \cup SeenIssues(lost, deals)
  /\ clean' = LedgersAgree(lost, deals) /\ passed' = passed
  /\ pc' = "save"
  /\ UNCHANGED <<orders, position, plan, gate, dayEntries, broker,
                 sync, todo, capital, context>>

Reconcile(lost, deals) ==
  /\ pc = "reconcile"
  /\ issues' = SeenIssues(lost, deals)
  /\ clean' = LedgersAgree(lost, deals) /\ passed' = passed
  /\ pc' = "save"
  /\ UNCHANGED <<orders, position, plan, gate, dayEntries, broker,
                 sync, todo, capital, context>>

\* Mutant: a failed account reading leaves no issue.
ReconcileAccountFailsSilently ==
  /\ pc = "reconcile" /\ ReconcileFails
  /\ pc' = "save"
  /\ UNCHANGED <<tables, broker, sync, todo, capital, context, history>>

\* The account cannot be read: one more issue, and no old one is resolved.
ReconcileAccountFails ==
  /\ pc = "reconcile" /\ ReconcileFails
  /\ issues' = issues \cup {Issue("ACCOUNT_SYNC_FAILED", NoSymbol, NoOrder)}
  /\ pc' = "save"
  /\ UNCHANGED <<orders, position, plan, gate, dayEntries, broker,
                 sync, todo, capital, context, history>>

ManagedPositions == {s \in Symbols : position[s].status = "OPEN"}

\* save_reconciliation_gate_status, with the payload of _health_payload.
SaveGate ==
  /\ pc = "save"
  /\ gate' = IF Blocking(issues) = {} THEN "ALLOW" ELSE "BLOCK"
  /\ pc' = "manage" /\ todo' = ManagedPositions
  /\ UNCHANGED <<orders, position, plan, issues, dayEntries, broker,
                 sync, capital, context, history>>

\* Mutant: a failed run keeps the gate of the run before.
ReconcileRunFailsKeepsGate(lost, deals) ==
  /\ pc = "reconcile" /\ ReconcileFails
  /\ issues' = issues \cup {Issue("RECONCILIATION_RUN_FAILED", NoSymbol, NoOrder)}
  /\ pc' = "manage" /\ todo' = ManagedPositions
  /\ UNCHANGED <<orders, position, plan, gate, dayEntries, broker,
                 sync, capital, context, history>>

\* save_reconciliation_gate_failure: the run raised half way, or before its
\* issues were saved.  Its pending rows are committed with the failure.
ReconcileRunFails(lost, deals) ==
  /\ pc = "reconcile" /\ ReconcileFails
  /\ \E pending \in SUBSET SeenIssues(lost, deals) :
       issues' = issues \cup pending
                   \cup {Issue("RECONCILIATION_RUN_FAILED", NoSymbol, NoOrder)}
  /\ gate' = "BLOCK"
  /\ pc' = "manage" /\ todo' = ManagedPositions
  /\ UNCHANGED <<orders, position, plan, dayEntries, broker,
                 sync, capital, context, history>>

----------------------------------------------------------------------------
(* reconciliation_gate_status and reconciliation_allows_new_entries.       *)

\* A missing gate record is replaced by a verdict on the open issues.
GateAllows ==
  IF gate = "UNSAVED" THEN issues # {} /\ Blocking(issues) = {} ELSE gate = "ALLOW"

AllowsNewEntries == Blocking(issues) = {} /\ GateAllows
=============================================================================
