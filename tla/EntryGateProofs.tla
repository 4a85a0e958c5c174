-------------------------- MODULE EntryGateProofs --------------------------
(***************************************************************************)
(* The gate in front of new entries, for every value of the constants: the *)
(* saved gate and the issues agree, the daily maximum holds, and an entry  *)
(* leaves only from a loop that found the ledgers in agreement and that    *)
(* the capital gate lets pass.                                             *)
(*                                                                         *)
(* EntryInv follows the evidence through one loop: the reconciliation's    *)
(* verdict is in the issues until the approvals, and in the set of plans   *)
(* still to execute after them.                                            *)
(*                                                                         *)
(* Two results follow from it: what the documentation says of approvals is *)
(* true where no old approval is left, and the gate tells agreement.       *)
(***************************************************************************)
EXTENDS SimLoopTypeProofs

\* While no issue blocks, the reconciliation of this loop saw agreement.
QuietMeansClean ==
  pc \in {"save", "manage", "portfolio", "validate", "approve"} /\ Blocking(issues) = {}
    => clean

\* The approvals visit every plan that an old approval could let through, and
\* a plan that is passed over loses its approval or its status.
OldApprovalsAreVisited ==
  pc = "approve" =>
    \A p \in Plans : plan[p].status = "TRIGGERED" /\ plan[p].approved => p \in todo

\* Something is left to execute only after an approval in this very loop.
ExecutionIsApproved ==
  pc = "execute" /\ todo # {} =>
    clean /\ capital = "CAPITAL_AVAILABLE" /\ dayEntries < MaxDailyNewTrades

EntryInv ==
  /\ QuietMeansClean /\ OldApprovalsAreVisited /\ ExecutionIsApproved
  /\ DailyEntriesBounded /\ GateMatchesIssues

\* The steps before the reconciliation, and those that end a loop.
Outside == {"idle", "orders", "deals", "positions", "reconcile"}

(* Outside a pipeline the invariant asks only for the daily bound. *)
LEMMA OutsideInv ==
  ASSUME pc' \in Outside, DailyEntriesBounded'
  PROVE  EntryInv'
<1> QED BY DEF Outside, EntryInv, QuietMeansClean, OldApprovalsAreVisited, ExecutionIsApproved,
               GateMatchesIssues

----------------------------------------------------------------------------
\* A run that sees no blocking issue sees the ledgers agree.
LEMMA NoBlockingIssueMeansAgreement ==
  ASSUME TypeOK, NEW lost, NEW deals, Blocking(SeenIssues(lost, deals)) = {}
  PROVE  LedgersAgree(lost, deals)
<1>1. \A type \in {"REMOTE_POSITION_WITHOUT_LOCAL", "LOCAL_POSITION_MISSING_REMOTE",
                   "POSITION_QTY_MISMATCH", "SELL_ORDER_STUCK"} :
        Severity[type] = "HIGH"
  BY DEF Severity
<1>2. \A issue \in SeenIssues(lost, deals) :
        issue.type \notin {"REMOTE_POSITION_WITHOUT_LOCAL", "LOCAL_POSITION_MISSING_REMOTE",
                           "POSITION_QTY_MISMATCH", "SELL_ORDER_STUCK"}
  BY <1>1 DEF Blocking
<1>3. ASSUME NEW s \in Symbols
      PROVE  IF position[s].status = "OPEN" THEN position[s].shares = held[s] /\ held[s] > 0
                                            ELSE held[s] <= 0
  <2>1. held[s] \in Int
    BY DEF TypeOK, BrokerTypeOK
  <2>2. CASE position[s].status = "OPEN"
    <3>1. held[s] > 0
      <4>1. SUFFICES ASSUME held[s] <= 0 PROVE FALSE
        BY <2>1
      <4>2. Issue("LOCAL_POSITION_MISSING_REMOTE", s, NoOrder) \in LocalPositions
        BY <2>2, <4>1 DEF LocalPositions
      <4> QED BY <1>2, <4>2 DEF SeenIssues, Issue
    <3>2. position[s].shares = held[s]
      <4>1. SUFFICES ASSUME position[s].shares # held[s] PROVE FALSE
        OBVIOUS
      <4>2. Issue("POSITION_QTY_MISMATCH", s, NoOrder) \in LocalPositions
        BY <2>2, <3>1, <4>1 DEF LocalPositions
      <4> QED BY <1>2, <4>2 DEF SeenIssues, Issue
    <3> QED BY <2>2, <3>1, <3>2
  <2>3. CASE position[s].status # "OPEN"
    <3>1. SUFFICES ASSUME held[s] > 0 PROVE FALSE
      BY <2>1, <2>3
    <3>2. Issue("REMOTE_POSITION_WITHOUT_LOCAL", s, NoOrder) \in RemotePositionsWithoutLocal
      BY <2>3, <3>1 DEF RemotePositionsWithoutLocal
    <3> QED BY <1>2, <3>2 DEF SeenIssues, Issue
  <2> QED BY <2>2, <2>3
<1>4. ASSUME NEW i \in Orders, orders[i].side = "SELL", Unconfirmed(i, lost, deals)
      PROVE  FALSE
  <2>1. Issue("SELL_ORDER_STUCK", orders[i].symbol, i) \in LocalOrders(lost, deals)
    BY <1>4 DEF LocalOrders
  <2> QED BY <1>2, <2>1 DEF SeenIssues, Issue
<1> QED BY <1>3, <1>4 DEF LedgersAgree

\* A failed reading of the account, or a failed run, blocks by itself.
LEMMA FailuresBlock ==
  ASSUME NEW S, NEW type \in {"ACCOUNT_SYNC_FAILED", "RECONCILIATION_RUN_FAILED"},
         Issue(type, NoSymbol, NoOrder) \in S
  PROVE  Blocking(S) # {}
<1>1. Severity[type] = "CRITICAL"
  BY DEF Severity
<1> QED BY <1>1 DEF Blocking, Issue

----------------------------------------------------------------------------
(* EntryInv is inductive. *)

(* The process starts outside a pipeline. *)
LEMMA InitEntryInv == Init => EntryInv
<1> SUFFICES ASSUME Init PROVE EntryInv
  OBVIOUS
<1>1. DailyEntriesBounded
  BY LedgerAssumption DEF Init, DailyEntriesBounded
<1> QED BY <1>1 DEF Init, EntryInv, QuietMeansClean, OldApprovalsAreVisited,
                    ExecutionIsApproved, GateMatchesIssues

\* Before the reconciliation there is nothing to keep but the daily count.
LEMMA SyncKeepsEntryInv ==
  ASSUME TypeOK, EntryInv, SyncOrder \/ SyncPositions \/ SyncPositionsFails
  PROVE  EntryInv'
<1>1. pc' \in Outside
  BY DEF SyncOrder, BeginOrderSync, SyncFilled, SyncRefreshed, SyncSellTimedOut,
         SyncBuyCancelled, SyncBuyMissing, SyncBuyCancelFailed, Visited, SyncDeals,
         BeginDealSync, CommitOrderSync, OrderSyncRaises, RolledBack, LoopOver, SyncPositions,
         SyncPositionsFails, Outside
<1>2. dayEntries' = dayEntries
  BY DEF SyncOrder, BeginOrderSync, SyncFilled, SyncRefreshed, SyncSellTimedOut,
         SyncBuyCancelled, SyncBuyMissing, SyncBuyCancelFailed, Visited, SyncDeals,
         BeginDealSync, CommitOrderSync, OrderSyncRaises, RolledBack, SyncPositions,
         SyncPositionsFails, tables
<1> QED BY <1>1, <1>2, OutsideInv DEF EntryInv, DailyEntriesBounded

\* The reconciliation puts its verdict into the issues, the save into the gate.
LEMMA ReconcileKeepsEntryInv ==
  ASSUME TypeOK, EntryInv, NEW lost, NEW deals,
         \/ Reconcile(lost, deals) \/ ReconcileRunFails(lost, deals)
         \/ ReconcileAccountFails \/ SaveGate
  PROVE  EntryInv'
<1>1. dayEntries' = dayEntries /\ pc' \in {"save", "manage"}
  BY DEF Reconcile, ReconcileRunFails, ReconcileAccountFails, SaveGate
<1>2. QuietMeansClean'
  <2>1. CASE Reconcile(lost, deals)
    BY <2>1, NoBlockingIssueMeansAgreement DEF Reconcile, QuietMeansClean, Blocking
  <2>2. CASE ReconcileRunFails(lost, deals)
    BY <2>2, FailuresBlock DEF ReconcileRunFails, QuietMeansClean, Blocking
  <2>3. CASE ReconcileAccountFails
    BY <2>3, FailuresBlock DEF ReconcileAccountFails, QuietMeansClean, Blocking
  <2>4. CASE SaveGate
    BY <2>4 DEF SaveGate, EntryInv, QuietMeansClean, Blocking, history
  <2> QED BY <2>1, <2>2, <2>3, <2>4
<1>3. GateMatchesIssues'
  <2>1. CASE Reconcile(lost, deals) \/ ReconcileAccountFails
    BY <2>1 DEF Reconcile, ReconcileAccountFails, GateMatchesIssues
  <2>2. CASE ReconcileRunFails(lost, deals)
    BY <2>2, FailuresBlock DEF ReconcileRunFails, GateMatchesIssues, Blocking
  <2>3. CASE SaveGate
    BY <2>3 DEF SaveGate, GateMatchesIssues, Blocking
  <2> QED BY <2>1, <2>2, <2>3
<1> QED BY <1>1, <1>2, <1>3
        DEF EntryInv, OldApprovalsAreVisited, ExecutionIsApproved, DailyEntriesBounded

\* Management, the portfolio reading and the validation carry the verdict on.
LEMMA ManageKeepsEntryInv ==
  ASSUME TypeOK, EntryInv,
         \/ \E s \in Symbols : \/ HoldPosition(s)
                               \/ \E reason \in ExitReasons : \/ SendExit(s, reason)
                                                              \/ ExitAnswerLost(s, reason)
         \/ EndManage \/ ReadPortfolio \/ ValidatePlans
  PROVE  EntryInv'
<1>1. /\ UNCHANGED <<dayEntries, issues, gate, clean>>
      /\ pc \in {"manage", "portfolio", "validate"}
      /\ pc' \in {"manage", "portfolio", "validate", "approve"}
  BY DEF HoldPosition, SendExit, ExitAnswerLost, ExitUnrecorded, Exiting, Managing, EndManage,
         ReadPortfolio, ValidatePlans, tables, history
<1>2. pc' = "approve" => todo' = {p \in Plans : plan'[p].status = "TRIGGERED"}
  BY DEF HoldPosition, SendExit, ExitAnswerLost, ExitUnrecorded, Exiting, Managing, EndManage,
         ReadPortfolio, ValidatePlans
<1> QED BY <1>1, <1>2 DEF EntryInv, QuietMeansClean, OldApprovalsAreVisited,
                         ExecutionIsApproved, DailyEntriesBounded, GateMatchesIssues, Blocking

\* A plan that is passed over is no longer TRIGGERED with an approval.
LEMMA PassingOverKeepsEntryInv ==
  ASSUME TypeOK, EntryInv, NEW p \in Plans,
         RejectByRules(p) \/ MissByCapital(p) \/ RejectByReconciliation(p)
  PROVE  EntryInv'
<1>1. /\ UNCHANGED <<dayEntries, issues, gate, clean>> /\ pc = "approve" /\ pc' = "approve"
      /\ todo' = todo \ {p}
  BY DEF RejectByRules, MissByCapital, RejectByReconciliation, Deciding, history
<1>2. /\ plan'[p].status # "TRIGGERED" \/ ~plan'[p].approved
      /\ \A q \in Plans : q # p => plan'[q] = plan[q]
  BY DEF RejectByRules, MissByCapital, RejectByReconciliation, TypeOK, TablesTypeOK, PlanRow
<1>3. OldApprovalsAreVisited'
  BY <1>1, <1>2 DEF EntryInv, OldApprovalsAreVisited
<1> QED BY <1>1, <1>3 DEF EntryInv, QuietMeansClean, ExecutionIsApproved, DailyEntriesBounded,
                         GateMatchesIssues, Blocking

\* An approval needs the gate, and the end of the approvals leaves nothing.
LEMMA ApprovalKeepsEntryInv ==
  ASSUME TypeOK, EntryInv, EndApprovals \/ \E p \in Plans : Approve(p)
  PROVE  EntryInv'
<1>1. /\ UNCHANGED <<dayEntries, issues, gate, capital, clean>> /\ pc = "approve" /\ pc' = "execute"
  BY DEF EndApprovals, Approve, tables, history
<1>2. ExecutionIsApproved'
  <2>1. CASE EndApprovals
    BY <2>1 DEF EndApprovals, EntryInv, OldApprovalsAreVisited, ExecutionIsApproved
  <2>2. CASE \E p \in Plans : Approve(p)
    <3>1. /\ Blocking(issues) = {} /\ dayEntries < MaxDailyNewTrades
          /\ capital = "CAPITAL_AVAILABLE"
      BY <2>2 DEF Approve, AllowsNewEntries, RealtimeChecksCanPass, CapitalAllows
    <3> QED BY <1>1, <3>1 DEF EntryInv, QuietMeansClean, ExecutionIsApproved
  <2> QED BY <2>1, <2>2
<1> QED BY <1>1, <1>2 DEF EntryInv, QuietMeansClean, OldApprovalsAreVisited,
                         DailyEntriesBounded, GateMatchesIssues, Blocking

(* The executor goes through approved plans only after every gate of its loop. *)
LEMMA ExecutionKeepsEntryInv ==
  ASSUME TypeOK, EntryInv,
         \/ EndLoop
         \/ \E p \in Plans : SkipEntry(p) \/ PlaceEntry(p) \/ EntryRefused(p) \/ EntryAnswerLost(p)
  PROVE  EntryInv'
<1>1. CASE EndLoop
  BY <1>1, OutsideInv DEF EndLoop, LoopOver, Outside, EntryInv, DailyEntriesBounded, tables
<1>2. ASSUME NEW p \in Plans, PlaceEntry(p) PROVE EntryInv'
  <2>1. dayEntries < MaxDailyNewTrades /\ dayEntries \in Nat
    BY <1>2 DEF PlaceEntry, Executing, EntryInv, ExecutionIsApproved, TypeOK, TablesTypeOK
  <2>2. DailyEntriesBounded'
    BY <1>2, <2>1, LedgerAssumption DEF PlaceEntry, DailyEntriesBounded
  <2> QED BY <1>2, <2>2, OutsideInv DEF PlaceEntry, LoopOver, Outside
<1>3. ASSUME NEW p \in Plans, SkipEntry(p) \/ EntryRefused(p) \/ EntryAnswerLost(p)
      PROVE  EntryInv'
  <2>1. /\ UNCHANGED <<dayEntries, issues, gate, capital, clean>>
        /\ pc = "execute" /\ pc' = "execute"
        /\ todo # {}
    BY <1>3 DEF SkipEntry, EntryRefused, EntryAnswerLost, EntryUnrecorded, Executing,
                tables, history
  <2> QED BY <2>1 DEF EntryInv, QuietMeansClean, OldApprovalsAreVisited, ExecutionIsApproved,
                     DailyEntriesBounded, GateMatchesIssues, Blocking
<1> QED BY <1>1, <1>2, <1>3

\* Plans written in the middle of the approvals are TRIGGERED no longer.
LEMMA GeneratePlansKeepsEntryInv ==
  ASSUME TypeOK, EntryInv, NEW pool, GeneratePlans(pool)
  PROVE  EntryInv'
<1>1. UNCHANGED <<dayEntries, issues, gate, capital, clean, pc, todo>>
  BY DEF GeneratePlans, loop, history
<1>2. \A p \in Plans : plan'[p].status # "TRIGGERED"
  BY DEF GeneratePlans, Retired, TypeOK, TablesTypeOK, PlanRow
<1> QED BY <1>1, <1>2 DEF EntryInv, QuietMeansClean, OldApprovalsAreVisited,
                         ExecutionIsApproved, DailyEntriesBounded, GateMatchesIssues, Blocking

\* The broker and the clock say nothing to a loop in progress.
LEMMA EnvironmentKeepsEntryInv ==
  ASSUME TypeOK, EntryInv, Broker \/ Tick \/ NewDay \/ Crash \/ UNCHANGED vars
  PROVE  EntryInv'
<1>1. CASE Broker \/ UNCHANGED vars
  <2>1. UNCHANGED <<dayEntries, issues, gate, capital, clean, pc, todo, plan>>
    BY <1>1 DEF Broker, Fill, BrokerEnds, vars, tables, loop, history
  <2> QED BY <2>1 DEF EntryInv, QuietMeansClean, OldApprovalsAreVisited, ExecutionIsApproved,
                     DailyEntriesBounded, GateMatchesIssues, Blocking
<1>2. CASE Tick \/ NewDay \/ Crash
  <2>1. pc' \in Outside
    BY <1>2 DEF Tick, NewDay, Crash, CrashInOrderSync, RolledBack, CrashAfterExit,
                ExitUnrecorded, CrashAfterEntry, EntryUnrecorded, LoopOver, loop, Outside
  <2>2. dayEntries' \in {0, dayEntries}
    BY <1>2 DEF Tick, NewDay, Crash, CrashInOrderSync, RolledBack, CrashAfterExit,
                ExitUnrecorded, CrashAfterEntry, EntryUnrecorded, tables
  <2>3. DailyEntriesBounded'
    BY <2>2, LedgerAssumption DEF EntryInv, DailyEntriesBounded
  <2> QED BY <2>1, <2>3, OutsideInv
<1> QED BY <1>1, <1>2

(* Every step keeps the invariant of the entry gates. *)
LEMMA NextKeepsEntryInv == TypeOK /\ EntryInv /\ [Next]_vars => EntryInv'
<1> SUFFICES ASSUME TypeOK, EntryInv, [Next]_vars PROVE EntryInv'
  OBVIOUS
<1>1. CASE LoopStep
  BY <1>1, SyncKeepsEntryInv, ReconcileKeepsEntryInv, ManageKeepsEntryInv,
     PassingOverKeepsEntryInv, ApprovalKeepsEntryInv, ExecutionKeepsEntryInv
  DEF LoopStep
<1>2. CASE Broker \/ Tick \/ NewDay \/ Crash \/ UNCHANGED vars
  BY <1>2, EnvironmentKeepsEntryInv
<1>3. CASE \E pool \in Pools : GeneratePlans(pool)
  BY <1>3, GeneratePlansKeepsEntryInv
<1> QED BY <1>1, <1>2, <1>3 DEF Next

(* The invariant of the entry gates holds in every reachable state. *)
LEMMA EntryInvAlways == Spec => []EntryInv
<1> QED BY InitEntryInv, NextKeepsEntryInv, TypeCorrect, PTL DEF Spec

----------------------------------------------------------------------------
\* The saved gate and the OPEN issues agree from the save to the end of every
\* loop, also after failed readings and failed runs
\* (trade_reconciler.py:63-75, 93-150, 514-540).
THEOREM GateAlwaysMatchesIssues == Spec => []GateMatchesIssues
<1>1. EntryInv => GateMatchesIssues
  BY DEF EntryInv
<1> QED BY <1>1, EntryInvAlways, PTL

\* The entries of a day stay within the daily maximum, whatever approvals an
\* earlier loop has left behind (rules_approval.py:148-157,
\* sim_order_executor.py:16-26).
THEOREM DailyEntriesAlwaysBounded == Spec => []DailyEntriesBounded
<1>1. EntryInv => DailyEntriesBounded
  BY DEF EntryInv
<1> QED BY <1>1, EntryInvAlways, PTL

----------------------------------------------------------------------------
(* Nothing but the executor, alive or dying, gives the broker a BUY. *)

NoEntryPlaced == \A i \in Orders : ~EntryPlaced(i)

(* A step without a new order at the broker places no entry. *)
LEMMA SameBrokerOrdersNoEntry == remote' = remote => NoEntryPlaced
<1> QED BY DEF NoEntryPlaced, EntryPlaced, Placed

\* A cancel and a broker event concern orders the broker already has.
LEMMA LiveOrderNoEntry ==
  ASSUME NEW i \in Orders, RemoteLive(i), \A j \in Orders : j # i => remote'[j] = remote[j]
  PROVE  NoEntryPlaced
<1> QED BY DEF NoEntryPlaced, EntryPlaced, Placed, RemoteLive

\* An exit is a SELL.
LEMMA ExitNoEntry ==
  ASSUME TypeOK, NEW s, NEW reason, SendExit(s, reason) \/ ExitUnrecorded(s, reason)
  PROVE  NoEntryPlaced
<1>1. PICK i \in Orders, status \in {"SUBMITTED", "LOST"} :
        /\ orders' = [orders EXCEPT ![i] = ExitOrder(s, reason, status)]
        /\ remote' = [remote EXCEPT ![i] = Accepted]
  BY DEF SendExit, ExitUnrecorded, Unused
<1>2. orders'[i].side = "SELL"
  BY <1>1 DEF ExitOrder, TypeOK, TablesTypeOK
<1>3. \A j \in Orders : j # i => remote'[j] = remote[j]
  BY <1>1 DEF TypeOK, BrokerTypeOK
<1> QED BY <1>2, <1>3 DEF NoEntryPlaced, EntryPlaced, Placed

(* Only execute_approved_sim_orders sends a BUY, whether or not its row survives. *)
LEMMA OnlyTheExecutorPlacesEntries ==
  ASSUME TypeOK, [Next]_vars, ~NoEntryPlaced
  PROVE  \E p \in Plans : PlaceEntry(p) \/ EntryUnrecorded(p)
<1>1. CASE SyncOrder
  <2>1. ASSUME NEW i \in Orders, SyncBuyCancelled(i) PROVE NoEntryPlaced
    <3>1. \A j \in Orders : j # i => remote'[j] = remote[j]
      BY <2>1 DEF SyncBuyCancelled, TypeOK, BrokerTypeOK
    <3> QED BY <2>1, <3>1, LiveOrderNoEntry DEF SyncBuyCancelled
  <2>2. CASE ~\E i \in Orders : SyncBuyCancelled(i)
    <3>1. remote' = remote
      BY <1>1, <2>2 DEF SyncOrder, BeginOrderSync, SyncFilled, SyncRefreshed, SyncSellTimedOut,
         SyncBuyMissing, SyncBuyCancelFailed, SyncDeals, BeginDealSync, CommitOrderSync,
         OrderSyncRaises, RolledBack, broker
    <3> QED BY <3>1, SameBrokerOrdersNoEntry
  <2> QED BY <2>1, <2>2
<1>2. CASE Broker
  <2>1. PICK i \in Orders : BrokerEnds(i) \/ \E n \in 1 .. EntryQty : Fill(i, n)
    BY <1>2 DEF Broker
  <2>2. RemoteLive(i) /\ \A j \in Orders : j # i => remote'[j] = remote[j]
    BY <2>1 DEF Fill, BrokerEnds, TypeOK, BrokerTypeOK
  <2> QED BY <2>2, LiveOrderNoEntry
<1>3. CASE \E s \in Symbols, reason \in ExitReasons :
             SendExit(s, reason) \/ ExitUnrecorded(s, reason)
  BY <1>3, ExitNoEntry
<1>4. CASE \E p \in Plans : PlaceEntry(p) \/ EntryUnrecorded(p)
  BY <1>4
<1>5. CASE /\ ~SyncOrder /\ ~Broker
           /\ ~\E s \in Symbols, reason \in ExitReasons :
                 SendExit(s, reason) \/ ExitUnrecorded(s, reason)
           /\ ~\E p \in Plans : PlaceEntry(p) \/ EntryUnrecorded(p)
  <2>1. remote' = remote
    <3>1. CASE LoopStep
      BY <1>5, <3>1 DEF LoopStep, SyncPositions, SyncPositionsFails, Reconcile,
         ReconcileRunFails, ReconcileAccountFails, SaveGate, HoldPosition, EndManage,
         ReadPortfolio, ValidatePlans, RejectByRules, MissByCapital, RejectByReconciliation,
         Deciding, Approve, EndApprovals, SkipEntry, EntryRefused, EndLoop, broker,
         ExitAnswerLost, EntryAnswerLost
    <3>2. CASE Tick \/ NewDay \/ Crash \/ UNCHANGED vars
      BY <1>5, <3>2 DEF Tick, NewDay, Crash, CrashInOrderSync, RolledBack, CrashAfterExit,
         CrashAfterEntry, vars, broker
    <3>3. CASE \E pool \in Pools : GeneratePlans(pool)
      BY <3>3 DEF GeneratePlans, broker
    <3> QED BY <1>5, <3>1, <3>2, <3>3 DEF Next
  <2> QED BY <2>1, SameBrokerOrdersNoEntry
<1> QED BY <1>1, <1>2, <1>3, <1>4, <1>5

\* Every entry leaves from a loop whose own reconciliation found the broker
\* holding exactly what the open rows say and every unresolved exit in sight
\* (sim_loop.py:34-75, rules_approval.py:84-99, trade_reconciler.py:46-90).
THEOREM EntriesOnlyFromCleanLedgers == Spec => EntriesFromCleanLedgers
<1>1. TypeOK /\ EntryInv /\ [Next]_vars =>
        [\A i \in Orders : EntryPlaced(i) => clean]_vars
  <2> SUFFICES ASSUME TypeOK, EntryInv, [Next]_vars, NEW i \in Orders, EntryPlaced(i)
               PROVE  clean
    OBVIOUS
  <2>1. PICK p \in Plans : PlaceEntry(p) \/ EntryUnrecorded(p)
    BY OnlyTheExecutorPlacesEntries DEF NoEntryPlaced
  <2>2. pc = "execute" /\ todo # {}
    BY <2>1 DEF PlaceEntry, EntryUnrecorded, Executing
  <2> QED BY <2>2 DEF EntryInv, ExecutionIsApproved
<1> QED BY <1>1, EntryInvAlways, TypeCorrect, PTL DEF Spec, EntriesFromCleanLedgers

\* No entry leaves against the verdict of the capital gate, not even that of a
\* plan taken up on an old approval (portfolio_manager.py:91-112,
\* sim_order_executor.py:16-35).
THEOREM EntriesAlwaysPassCapitalGate == Spec => EntriesPassCapitalGate
<1>1. TypeOK /\ EntryInv /\ [Next]_vars =>
        [\A i \in Orders, p \in Plans :
           EntryPlaced(i) /\ orders'[i].plan = p => CapitalAllows(p)]_vars
  <2> SUFFICES ASSUME TypeOK, EntryInv, [Next]_vars, NEW i \in Orders, NEW p \in Plans,
                      EntryPlaced(i), orders'[i].plan = p
               PROVE  CapitalAllows(p)
    OBVIOUS
  <2>1. PICK q \in Plans : PlaceEntry(q) \/ EntryUnrecorded(q)
    BY OnlyTheExecutorPlacesEntries DEF NoEntryPlaced
  <2>2. PICK j \in Orders, status \in {"SUBMITTED", "LOST"} :
          /\ orders' = [orders EXCEPT ![j] = EntryOrder(q, status)]
          /\ remote' = [remote EXCEPT ![j] = [status |-> "SUBMITTED", filled |-> 0]]
    BY <2>1 DEF PlaceEntry, EntryUnrecorded, Unused
  <2>3. j = i
    BY <2>2 DEF EntryPlaced, Placed, TypeOK, BrokerTypeOK
  <2>4. p = q
    BY <2>2, <2>3 DEF EntryOrder, TypeOK, TablesTypeOK
  <2>5. capital = "CAPITAL_AVAILABLE" /\ ~Blocked(q)
    BY <2>1 DEF PlaceEntry, EntryUnrecorded, Executing, EntryInv, ExecutionIsApproved
  <2> QED BY <2>4, <2>5 DEF CapitalAllows, Blocked
<1> QED BY <1>1, EntryInvAlways, TypeCorrect, PTL DEF Spec, EntriesPassCapitalGate

----------------------------------------------------------------------------
(* What is true of README.md:292, every automatic BUY must pass the gates of its loop *)

\* No approval of an earlier loop is left on a plan that is triggered beside an
\* approved one.
OneApproval ==
  \A p, q \in Plans : /\ plan[p].status = "TRIGGERED" /\ plan[p].approved
                      /\ plan[q].status = "TRIGGERED" /\ plan[q].approved => p = q

\* What is left to execute was approved in this loop.
ExecutionIsPassed == pc = "execute" => todo \subseteq passed

\* The approval of a plan leaves only this plan to execute, the end of the
\* approvals leaves none, and the executor takes up no other.
LEMMA ExecutionStaysPassed ==
  ASSUME TypeOK, EntryInv, ExecutionIsPassed, OneApproval', [Next]_vars
  PROVE  ExecutionIsPassed'
<1> SUFFICES ASSUME pc' = "execute" PROVE todo' \subseteq passed'
  BY DEF ExecutionIsPassed
<1>1. ASSUME NEW p \in Plans, Approve(p) PROVE todo' \subseteq passed'
  <2>1. /\ passed' = {p} /\ todo' = {q \in Plans : plan'[q].status = "TRIGGERED" /\ plan'[q].approved}
        /\ plan' = [plan EXCEPT ![p].approved = TRUE] /\ plan[p].status = "TRIGGERED"
    BY <1>1 DEF Approve, RealtimeChecksCanPass
  <2>2. plan'[p].status = "TRIGGERED" /\ plan'[p].approved
    BY <2>1 DEF TypeOK, TablesTypeOK, PlanRow
  <2> QED BY <2>1, <2>2 DEF OneApproval
<1>2. CASE EndApprovals
  <2>1. todo' = {}
    BY <1>2 DEF EndApprovals, EntryInv, OldApprovalsAreVisited
  <2> QED BY <2>1
<1>3. ASSUME NEW p \in Plans, SkipEntry(p) \/ EntryRefused(p) \/ EntryAnswerLost(p)
      PROVE  todo' \subseteq passed'
  <2>1. pc = "execute" /\ passed' = passed /\ todo' = todo \ {p}
    BY <1>3 DEF SkipEntry, EntryRefused, EntryAnswerLost, EntryUnrecorded, Executing, history
  <2> QED BY <2>1 DEF ExecutionIsPassed
<1>4. CASE Broker \/ (\E pool \in Pools : GeneratePlans(pool)) \/ UNCHANGED vars
  <2>1. UNCHANGED <<pc, todo, passed>>
    BY <1>4 DEF Broker, Fill, BrokerEnds, GeneratePlans, vars, loop, history
  <2> QED BY <2>1 DEF ExecutionIsPassed
<1>5. CASE Tick \/ NewDay \/ Crash
  <2>1. pc' # "execute"
    BY <1>5 DEF Tick, NewDay, Crash, CrashInOrderSync, RolledBack, CrashAfterExit,
                ExitUnrecorded, CrashAfterEntry, EntryUnrecorded, LoopOver, loop
  <2> QED BY <2>1
<1>6. CASE LoopStep /\ ~EndApprovals
           /\ ~\E p \in Plans : Approve(p) \/ SkipEntry(p) \/ EntryRefused(p) \/ EntryAnswerLost(p)
  <2>1. pc' # "execute"
    <3>1. CASE SyncOrder
      BY <3>1 DEF SyncOrder, BeginOrderSync, SyncFilled, SyncRefreshed, SyncSellTimedOut,
         SyncBuyCancelled, SyncBuyMissing, SyncBuyCancelFailed, Visited, SyncDeals,
         BeginDealSync, CommitOrderSync, OrderSyncRaises, RolledBack, LoopOver
    <3>2. CASE ~SyncOrder
      BY <1>6, <3>2 DEF LoopStep, SyncPositions, SyncPositionsFails, Reconcile,
         ReconcileRunFails, ReconcileAccountFails, SaveGate, HoldPosition, SendExit,
         ExitAnswerLost, ExitUnrecorded, Exiting, Managing, EndManage, ReadPortfolio,
         ValidatePlans, RejectByRules, MissByCapital, RejectByReconciliation, Deciding,
         PlaceEntry, EndLoop, LoopOver
    <3> QED BY <3>1, <3>2
  <2> QED BY <2>1
<1> QED BY <1>1, <1>2, <1>3, <1>4, <1>5, <1>6 DEF Next

\* EntriesAreApproved fails only by an approval that an earlier loop has left on a plan:
\* as long as no two triggered plans are approved at once, every BUY is one of the plan
\* the rules of its own loop approved, whatever refusals, lost answers, crashes and
\* generations there are (rules_approval.py:25-115, sim_order_executor.py:16-35).
THEOREM SingleApprovalsAreFresh == Spec => ([]OneApproval => EntriesAreApproved)
<1>1. Init => ExecutionIsPassed
  BY DEF Init, ExecutionIsPassed
<1>2. TypeOK /\ EntryInv /\ ExecutionIsPassed /\ OneApproval' /\ [Next]_vars => ExecutionIsPassed'
  BY ExecutionStaysPassed
<1>3. TypeOK /\ ExecutionIsPassed /\ [Next]_vars =>
        [\A i \in Orders : EntryPlaced(i) => orders'[i].plan \in passed]_vars
  <2> SUFFICES ASSUME TypeOK, ExecutionIsPassed, [Next]_vars, NEW i \in Orders, EntryPlaced(i)
               PROVE  orders'[i].plan \in passed
    OBVIOUS
  <2>1. PICK q \in Plans : PlaceEntry(q) \/ EntryUnrecorded(q)
    BY OnlyTheExecutorPlacesEntries DEF NoEntryPlaced
  <2>2. PICK j \in Orders, status \in {"SUBMITTED", "LOST"} :
          /\ orders' = [orders EXCEPT ![j] = EntryOrder(q, status)]
          /\ remote' = [remote EXCEPT ![j] = [status |-> "SUBMITTED", filled |-> 0]]
    BY <2>1 DEF PlaceEntry, EntryUnrecorded, Unused
  <2>3. j = i
    BY <2>2 DEF EntryPlaced, Placed, TypeOK, BrokerTypeOK
  <2>4. orders'[i].plan = q
    BY <2>2, <2>3 DEF EntryOrder, TypeOK, TablesTypeOK
  <2>5. pc = "execute" /\ q \in todo
    BY <2>1 DEF PlaceEntry, EntryUnrecorded, Executing
  <2> QED BY <2>4, <2>5 DEF ExecutionIsPassed
<1> QED BY <1>1, <1>2, <1>3, EntryInvAlways, TypeCorrect, PTL DEF Spec, EntriesAreApproved

----------------------------------------------------------------------------
(* The gate opens as well as it closes *)

\* Where the ledgers agree, what a full run sees is no more than a warning.
LEMMA AgreementMeansNoBlockingIssue ==
  ASSUME TypeOK, NEW lost, NEW deals, LedgersAgree(lost, deals)
  PROVE  Blocking(SeenIssues(lost, deals)) = {}
<1>1. RemotePositionsWithoutLocal = {}
  BY DEF RemotePositionsWithoutLocal, LedgersAgree, TypeOK, BrokerTypeOK
<1>2. LocalPositions = {}
  BY DEF LocalPositions, LedgersAgree, TypeOK, BrokerTypeOK
<1>3. \A issue \in LocalOrders(lost, deals) : issue.type = "LOCAL_ORDER_MISSING_REMOTE"
  BY DEF LocalOrders, LedgersAgree, Issue
<1>4. \A issue \in SeenIssues(lost, deals) :
        issue.type \in {"REMOTE_ORDER_WITHOUT_LOCAL", "LOCAL_ORDER_MISSING_REMOTE",
                        "CLOSE_UNVERIFIED", "BUY_ORDER_INFERRED_FILLED"}
  BY <1>1, <1>2, <1>3
     DEF SeenIssues, RemoteOrdersWithoutLocal, ClosedUnverified, InferredBuyOrders, Issue
<1>5. \A type \in {"REMOTE_ORDER_WITHOUT_LOCAL", "LOCAL_ORDER_MISSING_REMOTE",
                   "CLOSE_UNVERIFIED", "BUY_ORDER_INFERRED_FILLED"} :
        Severity[type] \notin {"HIGH", "CRITICAL"}
  BY DEF Severity
<1> QED BY <1>4, <1>5 DEF Blocking

\* The verdict of agreement is of this loop, and leaves no blocking issue.
CleanMeansQuiet == clean => pc \notin Outside /\ Blocking(issues) = {}

LEMMA CleanMeansQuietInductive ==
  ASSUME TypeOK, CleanMeansQuiet, [Next]_vars
  PROVE  CleanMeansQuiet'
<1> SUFFICES ASSUME clean' PROVE pc' \notin Outside /\ Blocking(issues)' = {}
  BY DEF CleanMeansQuiet
<1>1. ASSUME NEW lost, NEW deals, Reconcile(lost, deals)
      PROVE  pc' \notin Outside /\ Blocking(issues)' = {}
  BY <1>1, AgreementMeansNoBlockingIssue DEF Reconcile, Outside, Blocking
<1>2. CASE \/ ReconcileAccountFails
           \/ \E lost \in OutOfSight : ReconcileRunFails(lost, DealsSupported)
  <2>1. clean' = clean /\ pc = "reconcile"
    BY <1>2 DEF ReconcileAccountFails, ReconcileRunFails, history
  <2> QED BY <2>1 DEF CleanMeansQuiet, Outside
<1>3. CASE SyncOrder \/ SyncPositions \/ SyncPositionsFails
  <2>1. CASE OrderSyncRaises \/ SyncPositions \/ SyncPositionsFails
    <3>1. clean' = FALSE \/ (clean' = clean /\ pc \in Outside)
      BY <2>1 DEF OrderSyncRaises, RolledBack, LoopOver, SyncPositions, SyncPositionsFails,
           Outside, history
    <3> QED BY <3>1 DEF CleanMeansQuiet
  <2>2. CASE BeginOrderSync \/ BeginDealSync \/ CommitOrderSync
    <3>1. clean' = clean /\ pc \in Outside
      BY <2>2 DEF BeginOrderSync, BeginDealSync, CommitOrderSync, VisitsDone, Outside, history
    <3> QED BY <3>1 DEF CleanMeansQuiet
  <2>3. ASSUME NEW i \in Orders, Visited(i) \/ (\E last \in 1 .. EntryQty : SyncDeals(i, last))
        PROVE  pc' \notin Outside /\ Blocking(issues)' = {}
    <3>1. CASE Visited(i)
      <4>1. clean' = clean /\ pc \in Outside
        BY <3>1 DEF Visited, Outside, history
      <4> QED BY <4>1 DEF CleanMeansQuiet
    <3>2. CASE \E last \in 1 .. EntryQty : SyncDeals(i, last)
      <4>1. PICK last \in 1 .. EntryQty : SyncDeals(i, last)
        BY <3>2
      <4>2. clean' = clean /\ pc \in Outside
        BY <4>1 DEF SyncDeals, Outside, history
      <4> QED BY <4>2 DEF CleanMeansQuiet
    <3> QED BY <2>3, <3>1, <3>2
  <2>4. CASE \E i \in Orders : \/ SyncFilled(i) \/ SyncRefreshed(i)
                                \/ SyncSellTimedOut(i) \/ SyncBuyCancelled(i)
                                \/ SyncBuyMissing(i) \/ SyncBuyCancelFailed(i)
                                \/ \E last \in 1 .. EntryQty : SyncDeals(i, last)
    <3>1. PICK i \in Orders : Visited(i) \/ (\E last \in 1 .. EntryQty : SyncDeals(i, last))
      BY <2>4 DEF SyncFilled, SyncRefreshed, SyncSellTimedOut, SyncBuyCancelled,
                  SyncBuyMissing, SyncBuyCancelFailed
    <3> QED BY <3>1, <2>3
  <2> QED BY <1>3, <2>1, <2>2, <2>4 DEF SyncOrder
<1>4. CASE \/ SaveGate \/ EndManage \/ ReadPortfolio \/ ValidatePlans \/ EndApprovals
           \/ \E s \in Symbols : \/ HoldPosition(s)
                                 \/ \E reason \in ExitReasons : \/ SendExit(s, reason)
                                                                \/ ExitAnswerLost(s, reason)
           \/ \E p \in Plans : \/ RejectByRules(p) \/ MissByCapital(p)
                               \/ RejectByReconciliation(p) \/ Approve(p)
           \/ \E p \in Plans : SkipEntry(p) \/ EntryRefused(p) \/ EntryAnswerLost(p)
  <2>1. clean' = clean /\ issues' = issues /\ pc' \notin Outside
    BY <1>4 DEF SaveGate, HoldPosition, SendExit, ExitAnswerLost, ExitUnrecorded, Exiting, Managing,
         EndManage, ReadPortfolio, ValidatePlans, RejectByRules, MissByCapital,
         RejectByReconciliation, Deciding, Approve, EndApprovals, SkipEntry, EntryRefused,
         EntryAnswerLost, EntryUnrecorded, Executing, tables, history, Outside
  <2> QED BY <2>1 DEF CleanMeansQuiet, Blocking
<1>5. CASE EndLoop \/ (\E p \in Plans : PlaceEntry(p)) \/ Crash
  <2>1. clean' = FALSE
    BY <1>5 DEF EndLoop, PlaceEntry, Crash, CrashInOrderSync, RolledBack, CrashAfterExit,
                ExitUnrecorded, CrashAfterEntry, EntryUnrecorded, LoopOver
  <2> QED BY <2>1
<1>6. CASE Broker \/ Tick \/ NewDay \/ (\E pool \in Pools : GeneratePlans(pool)) \/ UNCHANGED vars
  <2>1. UNCHANGED <<pc, clean, issues>>
    BY <1>6 DEF Broker, Fill, BrokerEnds, Tick, NewDay, GeneratePlans, vars, tables, loop, history
  <2> QED BY <2>1 DEF CleanMeansQuiet, Blocking
<1> QED BY <1>1, <1>2, <1>3, <1>4, <1>5, <1>6 DEF Next, LoopStep

\* From the save to the end of the loop, the saved gate lets new entries through exactly if
\* the reconciliation of this very loop saw the ledgers agree: it closes on every
\* disagreement, failed reading and failed run, and opens in the first loop without one,
\* whatever issues were open before (trade_reconciler.py:46-116, 221-244, 514-540).
THEOREM GateTellsAgreement ==
  Spec => [](pc \in {"manage", "portfolio", "validate", "approve"} => (gate = "ALLOW" <=> clean))
<1>1. Init => CleanMeansQuiet
  BY DEF Init, CleanMeansQuiet
<1>2. TypeOK /\ CleanMeansQuiet /\ [Next]_vars => CleanMeansQuiet'
  BY CleanMeansQuietInductive
<1>3. EntryInv /\ CleanMeansQuiet =>
        (pc \in {"manage", "portfolio", "validate", "approve"} => (gate = "ALLOW" <=> clean))
  BY DEF EntryInv, GateMatchesIssues, QuietMeansClean, CleanMeansQuiet
<1> QED BY <1>1, <1>2, <1>3, EntryInvAlways, TypeCorrect, PTL DEF Spec
=============================================================================
