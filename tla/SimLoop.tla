------------------------------ MODULE SimLoop ------------------------------
(***************************************************************************)
(* app/services/sim_loop.py: the steps of run_sim_loop in their order,     *)
(* against a broker that goes on filling, cancelling and losing sight of   *)
(* orders, a process that may be killed between two commits (the systemd   *)
(* unit has a start timeout), and plans regenerated by other tasks.        *)
(***************************************************************************)
EXTENDS OrderSync, PositionSync, TradeReconciler, PositionManager, EntryPipeline

CONSTANTS
  MayCrash,     \* BOOLEAN: the process may be killed
  DayTurns,     \* BOOLEAN: a behaviour may span several days
  BrokerActsAt, \* bound: steps at which a broker event is interleaved; an event
                \* at a step that reads nothing of the broker can wait
  Pools,        \* battle pools the plans may be generated from
  DeadByBroker  \* statuses the broker may give a live order by itself

ASSUME BrokerAssumption == DeadByBroker \subseteq {"CANCELLED_ALL", "FAILED", "SUBMIT_FAILED"}

----------------------------------------------------------------------------
(* The broker (external): inferred from what the code asks of it.          *)

Fill(i, n) ==
  /\ RemoteLive(i)
  /\ n \in 1 .. orders[i].qty - remote[i].filled
  /\ remote' = [remote EXCEPT ![i].filled = @ + n,
                              ![i].status = IF remote[i].filled + n = orders[i].qty
                                            THEN "FILLED_ALL" ELSE "FILLED_PART"]
  /\ held' = [held EXCEPT ![orders[i].symbol] =
                IF orders[i].side = "BUY" THEN @ + n ELSE @ - n]
  /\ reserved' = [reserved EXCEPT ![orders[i].symbol] =
                IF orders[i].side = "BUY" THEN @ ELSE @ - n]
  /\ UNCHANGED <<tables, loop>>

BrokerEnds(i) ==
  /\ RemoteLive(i)
  /\ \E status \in DeadByBroker : remote' = [remote EXCEPT ![i].status = status]
  /\ reserved' = [reserved EXCEPT ![orders[i].symbol] =
                IF orders[i].side = "BUY" THEN @ ELSE @ - (orders[i].qty - remote[i].filled)]
  /\ UNCHANGED <<tables, held, loop>>

Broker ==
  /\ pc \in BrokerActsAt
  /\ \E i \in Orders : BrokerEnds(i) \/ \E n \in 1 .. EntryQty : Fill(i, n)

----------------------------------------------------------------------------
(* Time, and the end of the process. *)

\* Unresolved orders grow older between two loops.
Tick ==
  /\ pc = "idle"
  /\ orders' = [i \in Orders |->
       IF orders[i].status \in ReconcileStatuses /\ orders[i].age < 2
       THEN [orders[i] EXCEPT !.age = @ + 1] ELSE orders[i]]
  /\ orders' # orders
  /\ UNCHANGED <<position, plan, issues, gate, dayEntries, broker, loop>>

\* Every count of today's audit rows starts again.
NewDay ==
  /\ DayTurns
  /\ pc = "idle" /\ dayEntries > 0
  /\ dayEntries' = 0
  /\ UNCHANGED <<orders, position, plan, issues, gate, broker, loop>>

Crash ==
  /\ MayCrash
  /\ \/ /\ pc \notin {"idle", "orders", "deals"}
        /\ LoopOver
        /\ UNCHANGED <<tables, broker>>
     \/ CrashInOrderSync
     \/ \E s \in Symbols, reason \in ExitReasons : CrashAfterExit(s, reason)
     \/ \E p \in Plans : CrashAfterEntry(p)

----------------------------------------------------------------------------
Init ==
  /\ orders = [i \in Orders |-> NoOrderRow]
  /\ position = [s \in Symbols |-> NoPosition]
  /\ plan = [p \in Plans |-> NewPlan]
  /\ issues = {} /\ gate = "UNSAVED" /\ dayEntries = 0
  /\ remote = NoRows
  /\ held = [s \in Symbols |-> 0] /\ reserved = [s \in Symbols |-> 0]
  /\ pc = "idle" /\ todo = {} /\ rows = NoRows /\ saved = NothingSaved
  /\ capital = "CAPITAL_UNKNOWN" /\ context = {} /\ clean = FALSE /\ passed = {}

LoopStep ==
  \/ SyncOrder
  \/ SyncPositions \/ SyncPositionsFails
  \/ \E lost \in OutOfSight : \/ Reconcile(lost, DealsSupported)
                             \/ ReconcileRunFails(lost, DealsSupported)
  \/ ReconcileAccountFails
  \/ SaveGate
  \/ \E s \in Symbols : \/ HoldPosition(s)
                        \/ \E reason \in ExitReasons : SendExit(s, reason)
                                                       \/ ExitAnswerLost(s, reason)
  \/ EndManage
  \/ ReadPortfolio \/ ValidatePlans
  \/ \E p \in Plans : \/ RejectByRules(p) \/ MissByCapital(p)
                      \/ RejectByReconciliation(p) \/ Approve(p)
  \/ EndApprovals
  \/ \E p \in Plans : SkipEntry(p) \/ PlaceEntry(p) \/ EntryRefused(p)
                      \/ EntryAnswerLost(p)
  \/ EndLoop

Next ==
  \/ LoopStep
  \/ Broker \/ Tick \/ NewDay \/ Crash
  \/ \E pool \in Pools : GeneratePlans(pool)

Spec == Init /\ [][Next]_vars

\* A timer runs the loop again and again, and a loop takes all its steps.
FairSpec == Spec /\ WF_vars(LoopStep)
=============================================================================
