-------------------------- MODULE PositionManager --------------------------
(***************************************************************************)
(* app/services/position_manager.py: manage_positions visits the OPEN      *)
(* positions, commits after each, and sends at most one SELL for each.     *)
(* Prices are an input: a visit is given the exit the price calls for.     *)
(***************************************************************************)
EXTENDS TradeLedger

CONSTANT ExitReasons  \* exits the prices of this instance call for

NoExit == "HELD"

\* HARD_STOP, ORPHAN_TAKE_PROFIT, TARGET_2_OR_TRAILING and FORCED_INTRADAY_EXIT
\* sell all that is available and differ in nothing else: FULL_EXIT.
ASSUME ExitAssumption == ExitReasons \subseteq {"FULL_EXIT", "TARGET_1_PARTIAL"}

ExitCalledFor(s, reason) ==
  \/ reason = NoExit
  \/ reason \in ExitReasons /\ (reason = "TARGET_1_PARTIAL" => ~position[s].partial)

\* Mutant: a full exit sells the shares of the row, not the available ones.
ExitQtyOfRow(s, reason) ==
  IF reason = "FULL_EXIT" THEN position[s].shares
  ELSE Smaller(position[s].available, Larger(1, position[s].shares \div 2))

ExitQty(s, reason) ==
  IF reason = "FULL_EXIT" THEN position[s].available
  ELSE Smaller(position[s].available, Larger(1, position[s].shares \div 2))

Waiting(s) == {i \in Orders : /\ orders[i].symbol = s /\ orders[i].side = "SELL"
                              /\ orders[i].status = "SELL_WAITING_RECONCILIATION"}

\* The latest exit that has waited long enough, and those that have not.
RetryDue(s) == {i \in Waiting(s) : orders[i].age = 2}
IsRetryOf(s, i) == i \in RetryDue(s) /\ \A j \in RetryDue(s) : j <= i
InsideRetryWindow(s) == {i \in Waiting(s) : orders[i].age < 2}

\* last_synced_at is set exactly on the rows position sync has given a source.
RemoteOrRecentPosition(s) ==
  held[s] > 0 \/ (position[s].shares > 0 /\ position[s].source # "LOCAL_STRATEGY")

MaySendExit(s) ==
  /\ LiveLocal(s, "SELL") = {}
  /\ IF RetryDue(s) # {}
     THEN /\ RemoteOrRecentPosition(s)
          /\ \E i \in Orders : IsRetryOf(s, i) /\ orders[i].retry < MaxRetries
     ELSE InsideRetryWindow(s) = {}

NextRetry(s) ==
  IF RetryDue(s) # {} THEN orders[CHOOSE i \in Orders : IsRetryOf(s, i)].retry + 1 ELSE 0

ExitOrder(s, reason, status) ==
  [status |-> status, plan |-> position[s].plan, symbol |-> s, side |-> "SELL",
   qty |-> ExitQty(s, reason), dealt |-> 0, booked |-> 0, age |-> 0,
   reason |-> reason, retry |-> NextRetry(s)]

Accepted == [status |-> "SUBMITTED", filled |-> 0]

----------------------------------------------------------------------------
Managing(s) == /\ pc = "manage" /\ s \in todo

Exiting(s, reason) ==
  /\ Managing(s)
  /\ position[s].status = "OPEN"
  /\ reason # NoExit /\ ExitCalledFor(s, reason)
  /\ position[s].available > 0
  /\ MaySendExit(s)

\* The price calls for no exit, nothing can be sold, an exit is already under
\* way, or the retries are spent; or the broker refuses the order.
HoldPosition(s) ==
  /\ Managing(s)
  /\ todo' = todo \ {s}
  /\ UNCHANGED <<tables, broker, pc, sync, capital, context, history>>

SendExit(s, reason) ==
  /\ Exiting(s, reason)
  /\ \E i \in Unused :
       /\ IsNext(i)
       /\ orders' = [orders EXCEPT ![i] = ExitOrder(s, reason, "SUBMITTED")]
       /\ remote' = [remote EXCEPT ![i] = Accepted]
  /\ reserved' = [reserved EXCEPT ![s] = @ + ExitQty(s, reason)]
  /\ todo' = todo \ {s}
  /\ UNCHANGED <<position, plan, issues, gate, dayEntries, held,
                 pc, sync, capital, context, history>>

\* The broker has an exit that no row records ...
ExitUnrecorded(s, reason) ==
  /\ Exiting(s, reason)
  /\ \E i \in Unused :
       /\ IsNext(i)
       /\ orders' = [orders EXCEPT ![i] = ExitOrder(s, reason, "LOST")]
       /\ remote' = [remote EXCEPT ![i] = Accepted]
  /\ reserved' = [reserved EXCEPT ![s] = @ + ExitQty(s, reason)]
  /\ UNCHANGED <<position, plan, issues, gate, dayEntries, held>>

\* ... when place_order raises although the broker took it: the visit is over ...
ExitAnswerLost(s, reason) ==
  /\ AnswersLost /\ ExitUnrecorded(s, reason)
  /\ todo' = todo \ {s}
  /\ UNCHANGED <<pc, sync, capital, context, history>>

\* ... or when the process dies between the order and the commit.
CrashAfterExit(s, reason) == ExitUnrecorded(s, reason) /\ LoopOver

EndManage ==
  /\ pc = "manage" /\ todo = {}
  /\ pc' = "portfolio"
  /\ UNCHANGED <<tables, broker, sync, todo, capital, context, history>>
=============================================================================
