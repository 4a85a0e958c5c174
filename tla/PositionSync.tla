---------------------------- MODULE PositionSync ----------------------------
(***************************************************************************)
(* app/services/position_sync.py: sync_futu_positions_to_local.  The       *)
(* positions are read once and the tables committed once, and symbols do   *)
(* not share rows: the whole function is one action.                       *)
(***************************************************************************)
EXTENDS TradeLedger

CONSTANTS
  PositionSyncFails,  \* BOOLEAN: get_positions() may raise
  MatchOutcomes       \* SUBSET BOOLEAN: price and submission time agree

ASSUME PositionSyncAssumption == MatchOutcomes \subseteq BOOLEAN /\ PositionSyncFails \in BOOLEAN

----------------------------------------------------------------------------
\* can_sell_qty of the broker's row: what no live exit has reserved.
CanSell(s) == AtLeastZero(held[s] - reserved[s])

Candidates(s) ==
  {i \in Orders : /\ orders[i].symbol = s /\ orders[i].side = "BUY"
                  /\ orders[i].status \in {"SUBMITTED", "PARTIALLY_FILLED",
                                           "UNKNOWN_REMOTE_MISSING"}}

\* abs(expected - remote) <= max(1, 5%), in integers.
QuantityMatches(i, quantity) ==
  LET expected == DealtOr(orders[i].dealt, orders[i].qty)
      gap == IF expected > quantity THEN expected - quantity ELSE quantity - expected
  IN gap <= 1 \/ 20 * gap <= quantity

\* The only unresolved BUY of the symbol, if it explains the position.
Explains(i, s, agree) ==
  Candidates(s) = {i} /\ agree /\ QuantityMatches(i, held[s])

MatchingBuy(s, agree) ==
  IF \E i \in Orders : Explains(i, s, agree)
  THEN CHOOSE i \in Orders : Explains(i, s, agree) ELSE NoOrder

\* Mutant: a symbol with a row is bound too.
InferredForAnyRow(agree) ==
  {i \in Orders : \E s \in Symbols : held[s] > 0 /\ Explains(i, s, agree)}

\* Only a symbol without a row is bound to the order it matches.
Inferred(agree) ==
  {i \in Orders : \E s \in Symbols : /\ held[s] > 0 /\ position[s].status = "NONE"
                                     /\ Explains(i, s, agree)}

SellFilled(s) ==
  \E i \in Orders : /\ orders[i].symbol = s /\ orders[i].side = "SELL"
                    /\ orders[i].status \in {"FILLED", "FILLED_INFERRED"}

Detected(s, agree) ==
  LET match == MatchingBuy(s, agree)
  IN [status |-> "OPEN", shares |-> held[s], available |-> CanSell(s),
      source |-> IF match # NoOrder THEN "LOCAL_AND_FUTU_CONFIRMED" ELSE "FUTU_DETECTED",
      orphan |-> match = NoOrder,
      plan |-> IF match # NoOrder THEN orders[match].plan ELSE NoPlan,
      partial |-> FALSE, verified |-> FALSE]

\* Mutant: a row that was closed is refreshed but not opened again.
ResyncedAsItWas(s) ==
  LET old == position[s]
  IN [old EXCEPT !.shares = held[s], !.available = CanSell(s),
        !.source = IF old.plan # NoPlan THEN "LOCAL_AND_FUTU_CONFIRMED" ELSE "FUTU_DETECTED",
        !.orphan = @ \/ old.plan = NoPlan]

\* Mutant: the held quantity is taken for the sellable one.
ResyncedAllSellable(s) ==
  LET old == position[s]
  IN [old EXCEPT !.status = "OPEN", !.shares = held[s], !.available = held[s],
        !.source = IF old.plan # NoPlan THEN "LOCAL_AND_FUTU_CONFIRMED" ELSE "FUTU_DETECTED",
        !.orphan = @ \/ old.plan = NoPlan]

Resynced(s) ==
  LET old == position[s]
  IN [old EXCEPT !.status = "OPEN", !.shares = held[s], !.available = CanSell(s),
        !.source = IF old.plan # NoPlan THEN "LOCAL_AND_FUTU_CONFIRMED" ELSE "FUTU_DETECTED",
        !.orphan = @ \/ old.plan = NoPlan]

Vanished(s) ==
  IF SellFilled(s)
  THEN [position[s] EXCEPT !.status = "CLOSED", !.verified = TRUE,
                           !.shares = 0, !.available = 0]
  ELSE [position[s] EXCEPT !.status = "CLOSED_UNVERIFIED", !.verified = FALSE,
                           !.available = 0]

Gone(s) == /\ held[s] <= 0 /\ position[s].status = "OPEN"
           /\ position[s].source # "LOCAL_STRATEGY"

SyncPositions ==
  /\ pc = "positions"
  /\ \E agree \in MatchOutcomes :
       /\ position' = [s \in Symbols |->
            IF held[s] > 0
            THEN IF position[s].status = "NONE" THEN Detected(s, agree) ELSE Resynced(s)
            ELSE IF Gone(s) THEN Vanished(s) ELSE position[s]]
       /\ orders' = [i \in Orders |->
            IF i \in Inferred(agree)
            THEN [orders[i] EXCEPT !.status = "FILLED_INFERRED", !.age = 0,
                                   !.dealt = held[orders[i].symbol]]
            ELSE orders[i]]
       /\ plan' = [p \in Plans |->
            IF \E i \in Inferred(agree) : orders[i].plan = p
            THEN [plan[p] EXCEPT !.status = "IN_POSITION"]
            ELSE IF /\ plan[p].status = "IN_POSITION"
                    /\ \E s \in Symbols : Gone(s) /\ position[s].plan = p
            THEN [plan[p] EXCEPT !.status = "COOLDOWN"]
            ELSE plan[p]]
  /\ pc' = "reconcile"
  /\ UNCHANGED <<issues, gate, dayEntries, broker, sync, todo, capital, context, history>>

\* sim_loop catches the exception and goes on with the tables as they are.
SyncPositionsFails ==
  /\ pc = "positions" /\ PositionSyncFails
  /\ pc' = "reconcile"
  /\ UNCHANGED <<tables, broker, sync, todo, capital, context, history>>
=============================================================================
