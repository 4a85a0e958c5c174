------------------------- MODULE SimLoopProperties -------------------------
(***************************************************************************)
(* What the simulation loop has to guarantee, and what its documentation   *)
(* says of it.  The second part is not all true: the runs named doc_...    *)
(* show how the code leaves each of those statements.                      *)
(***************************************************************************)
EXTENDS SimLoop

Placed(i) == remote[i].status = "NONE" /\ remote'[i].status # "NONE"
EntryPlaced(i) == Placed(i) /\ orders'[i].side = "BUY"

Entries(s) == {i \in Orders : orders[i].symbol = s /\ orders[i].side = "BUY"
                              /\ remote[i].filled > 0}
Exits(s) == {i \in Orders : orders[i].symbol = s /\ orders[i].side = "SELL"
                            /\ orders[i].status # "NONE"}

\* The exits of the symbol's present holding: sent after the last entry that
\* bought shares.
ExitsSinceEntry(s) == {i \in Exits(s) : \A j \in Entries(s) : j < i}

----------------------------------------------------------------------------
(* Guarantees *)

\* A BUY leaves for the broker only from a loop whose own reconciliation
\* found the broker holding exactly what the open Position rows say and every
\* unresolved SELL in sight: whatever fills, cancels, crashes, failed reads,
\* stale gate records and stale approvals came before
\* (sim_loop.py:34-75, rules_approval.py:84-99, trade_reconciler.py:46-90).
EntriesFromCleanLedgers ==
  [][\A i \in Orders : EntryPlaced(i) => clean]_vars

\* The exits live at the broker never add up to more shares than it holds,
\* although the local row may be stale and an earlier exit out of sight
\* (position_manager.py:111-190, position_sync.py:64-66).
NeverOversold == \A s \in Symbols : reserved[s] <= held[s]

\* The loop as the owner of the account sees it: what it offers of a symbol are
\* the shares its live exits may still sell, all exits of the symbol together.
LongOnly == INSTANCE Account WITH offered <- reserved, Lot <- EntryQty

\* With all its retries, partial exits, lost answers and rows that lag behind the
\* broker, the loop keeps a long-only account: it offers no share twice, none it
\* does not have, and fills and ends of orders take away no more than was offered
\* (position_manager.py:111-190, position_sync.py:64-66, order_sync.py:60-71).
ImplementsAccount == LongOnly!Spec

\* No order the table calls over is still working at the broker, where its
\* fills would go unseen (order_sync.py:31-45, 60-71, 97-100).
DeadOrdersAreDead ==
  \A i \in Orders : orders[i].status \in {"FILLED", "CANCELLED", "FAILED"} => ~RemoteLive(i)

\* The loops of one day book no more entries than the daily maximum, with
\* several plans approved, refused and approved again.  An entry whose process
\* died before the booking, or whose answer was lost, is not counted (rules_approval.py:148-157,
\* sim_order_executor.py:66-98).
DailyEntriesBounded == dayEntries <= MaxDailyNewTrades

\* No BUY leaves against the verdict of the capital gate, not even that of a
\* plan the executor takes up on an approval of an earlier loop
\* (portfolio_manager.py:91-112, sim_order_executor.py:16-35).
EntriesPassCapitalGate ==
  [][\A i \in Orders, p \in Plans :
       EntryPlaced(i) /\ orders'[i].plan = p => CapitalAllows(p)]_vars

\* From the save on, the saved gate record and the OPEN issues say the same of
\* new entries, also after a failed reading of the account and a failed run
\* (trade_reconciler.py:63-75, 93-150, 514-540).
GateMatchesIssues ==
  pc \in {"manage", "portfolio", "validate", "approve", "execute"} =>
    (gate = "ALLOW" <=> Blocking(issues) = {})

\* A position tied to a plan comes from shares an entry of that very plan
\* bought, however the row was made or reopened (order_sync.py:143-170,
\* position_sync.py:69-90, 226-276).
PositionsComeFromTheirPlan ==
  \A s \in Symbols : position[s].status = "OPEN" /\ position[s].plan # NoPlan =>
    \E i \in Entries(s) : orders[i].plan = position[s].plan

\* An entry that the position sync calls FILLED_INFERRED did buy shares: it is
\* not mistaken for the order that did (position_sync.py:226-276).
InferredEntriesAreFilled ==
  \A i \in Orders : orders[i].status = "FILLED_INFERRED" => remote[i].filled > 0

\* Shares at the broker do not stay without an OPEN row that the position
\* manager would guard, if the loop keeps running (position_sync.py:35-176).
HoldingsAreAdopted ==
  \A s \in Symbols : held[s] > 0 ~> (position[s].status = "OPEN" \/ held[s] <= 0)

\* Once broker and tables agree for good, the gate does not stay closed on
\* issues that are no longer there (trade_reconciler.py:221-244, 93-116).
GateReopens ==
  <>[]LedgersAgree({}, DealsSupported) => []<>(gate = "ALLOW")

----------------------------------------------------------------------------
(* Statements of the documentation *)

\* README.md:292, "every automatic BUY must pass risk, capital, realtime, and
\* reconciliation gates": it is a BUY of the plan this loop's rules approved.
EntriesAreApproved ==
  [][\A i \in Orders : EntryPlaced(i) => orders'[i].plan \in passed]_vars

\* app/services/trade_plan.py:173 puts "no position and no unfinished order in the
\* symbol" on the checklist of every plan (capital_allows_new_order is the code
\* for it): an order leaves only if no OPEN row of its symbol exists.
OnePositionPerSymbol ==
  [][\A i \in Orders : EntryPlaced(i) => position[orders'[i].symbol].status # "OPEN"]_vars

\* README.md:297, "remote-missing positions become CLOSED_UNVERIFIED unless a
\* SELL fill confirms the close": a verified close has a filled exit of its own.
VerifiedClosesAreConfirmed ==
  [][\A s \in Symbols :
       position[s].status = "OPEN" /\ position'[s].status = "CLOSED" =>
         \E i \in ExitsSinceEntry(s) : orders'[i].status = "FILLED"]_vars

\* README.md:282, "existing positions are still managed even when new entries
\* are blocked": while shares are held the loop keeps reaching its management.
ExistingPositionsAreManaged ==
  (\E s \in Symbols : held[s] > 0) ~> (pc = "manage" \/ \A s \in Symbols : held[s] <= 0)
=============================================================================
