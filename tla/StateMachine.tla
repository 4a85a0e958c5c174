---------------------------- MODULE StateMachine ----------------------------
(***************************************************************************)
(* app/services/state_machine.py and entry_trigger.py: how a symbol is     *)
(* advanced from waiting to an entry, and its position to an exit.         *)
(***************************************************************************)
EXTENDS SignalBook

CONSTANTS
  StructureLife,  \* StructureConfig.structure_expiry_days, in 15-minute bars
  Atr             \* [TradeableMarkets -> levels], the distance of the trailing stop

ASSUME LifeAssumption == StructureLife \in Nat /\ Atr \in [TradeableMarkets -> Nat]

----------------------------------------------------------------------------
(* Which of the early returns of advance_state_machine is taken *)

\* Mutant: the market is looked at before the position.
StageMarketFirst(s, eligible) ==
  IF Correction(s) # "NONE" THEN "correct"
  ELSE IF cooldown[s] >= AsOf THEN "cool"
  ELSE IF daily[s] = NoDaily THEN "uninformed"
  ELSE IF market \notin TradeableMarkets THEN "blocked"
  ELSE IF Open(s) THEN "manage"
  ELSE IF ~eligible THEN "trendless"
  ELSE IF entry[s].status = "PENDING" THEN "pending"
  ELSE IF signs[s].bottom # Never /\ signs[s].life # "confirmed" THEN "failed"
  ELSE IF signs[s].latest = "BOTTOM_PASSIVATION" THEN "passivated"
  ELSE IF signs[s].bottom # Never THEN "confirmed" ELSE "unformed"

Stage(s, eligible) ==
  IF Correction(s) # "NONE" THEN "correct"
  ELSE IF cooldown[s] >= AsOf THEN "cool"
  ELSE IF daily[s] = NoDaily THEN "uninformed"
  ELSE IF Open(s) THEN "manage"
  ELSE IF market \notin TradeableMarkets THEN "blocked"
  ELSE IF ~eligible THEN "trendless"
  ELSE IF entry[s].status = "PENDING" THEN "pending"
  ELSE IF signs[s].bottom # Never /\ signs[s].life # "confirmed" THEN "failed"
  ELSE IF signs[s].latest = "BOTTOM_PASSIVATION" THEN "passivated"
  ELSE IF signs[s].bottom # Never THEN "confirmed" ELSE "unformed"

To(s, target) == state' = [state EXCEPT ![s] = target]
Cools(s) == To(s, "COOLDOWN") /\ cooldown' = [cooldown EXCEPT ![s] = AsOf + CooldownDays]

----------------------------------------------------------------------------
(* Without a position *)

Correct(s) ==
  /\ entry' = [entry EXCEPT ![s].status = Correction(s)]
  /\ IF Correction(s) = "CANCELLED_BY_STRUCTURE" THEN Cools(s)
     ELSE To(s, TargetState(Correction(s))) /\ UNCHANGED cooldown
  /\ UNCHANGED <<exit, reduce, position, after>>

\* The states in which a market that turns leaves a symbol in COOLDOWN.
Hopeful == {"WATCH_BOTTOM", "BOTTOM_CONFIRMED", "WAIT_15M_TRIGGER", "ENTRY_CANDIDATE"}

\* The returns that only change the state.
Waits(s, stage) ==
  /\ stage \in {"cool", "uninformed", "blocked", "trendless", "pending", "passivated", "unformed"}
  /\ To(s, CASE stage = "cool" -> "COOLDOWN"
             [] stage = "uninformed" -> "IDLE"
             [] stage = "blocked" -> IF state[s] \in Hopeful THEN "COOLDOWN" ELSE "IDLE"
             [] stage = "trendless" -> "IDLE"
             [] stage = "pending" -> "ENTRY_CANDIDATE"
             [] stage = "passivated" -> "WATCH_BOTTOM"
             [] stage = "unformed" -> "TREND_OK")
  /\ UNCHANGED <<cooldown, entry, exit, reduce, position, after>>

\* A failed bottom renews the cooldown, whatever came after it but a new one.
RecordFailure(s) == Cools(s) /\ UNCHANGED <<entry, exit, reduce, position, after>>

\* evaluate_15m_trend_resume: the six checks on the bars and their indicators
\* are one fact of the latest bar.
Trigger(s) ==
  IF quarter[s].ts > signs[s].bottom + StructureLife THEN "expired"
  ELSE IF quarter[s].ts > signs[s].bottom /\ quarter[s].bar.resumes THEN "resumes" ELSE "waits"

\* The shares of an entry at the latest close: none without a stop of the
\* structure (calculate_structure_stop) or an equity.
Sized(s, stopped) ==
  IF stopped THEN PositionSize(session.equity, quarter[s].bar.close, Stop, market) ELSE 0

\* _create_entry_candidate
CreateEntry(s, stopped) ==
  IF ~PortfolioAllows(s) THEN To(s, "TREND_OK") /\ UNCHANGED <<entry, after>>
  ELSE IF Sized(s, stopped) = 0 THEN To(s, "WAIT_15M_TRIGGER") /\ UNCHANGED <<entry, after>>
  ELSE /\ entry' = [entry EXCEPT ![s] =
                      [status |-> "PENDING", structure |-> signs[s].bottom, at |-> quarter[s].ts,
                       shares |-> Sized(s, stopped), price |-> quarter[s].bar.close]]
       /\ after' = [after EXCEPT ![s] = NoBars]
       /\ To(s, "ENTRY_CANDIDATE")

FollowBottom(s) ==
  /\ \/ Trigger(s) = "waits" /\ To(s, "WAIT_15M_TRIGGER") /\ UNCHANGED <<cooldown, entry, after>>
     \/ Trigger(s) = "expired" /\ Cools(s) /\ UNCHANGED <<entry, after>>
     \/ /\ Trigger(s) = "resumes" /\ UNCHANGED cooldown
        /\ \E stopped \in BOOLEAN : CreateEntry(s, stopped)
  /\ UNCHANGED <<exit, reduce, position>>

----------------------------------------------------------------------------
(* With a position: _manage_position *)

\* Its risk in levels, and its gain.
Risk(s) == position[s].price - Stop
Gain(s) == daily[s].close - position[s].price

\* Mutant: the stop follows the close down.
TrailedDown(s) ==
  IF Gain(s) < Risk(s) THEN position[s].trailing
  ELSE Max({position[s].price} \cup IF Gain(s) >= 2 * Risk(s) THEN {daily[s].close - Atr[market]} ELSE {})

\* _update_trailing_stop
Trailed(s) ==
  IF Gain(s) < Risk(s) THEN position[s].trailing
  ELSE Max({position[s].trailing, position[s].price}
             \cup IF Gain(s) >= 2 * Risk(s) THEN {daily[s].close - Atr[market]} ELSE {})

\* Which return of _manage_position is taken.
Verdict(s) ==
  IF daily[s].close <= Stop \/ TriggerFailed(s) THEN "exit"
  ELSE IF market \notin TradeableMarkets THEN IF below[s] THEN "exit" ELSE "protect"
  ELSE IF signs[s].topped /\ Gain(s) > 0 THEN "reduce"
  ELSE IF daily[s].weak THEN "exit"
  ELSE IF Trailed(s) > Stop /\ daily[s].close <= Trailed(s) THEN "trail" ELSE "hold"

\* _create_exit_signal and _create_reduce_signal: one that waits is kept.
AskExit(s) == exit' = [exit EXCEPT ![s] = "PENDING"] /\ To(s, "EXIT_CANDIDATE")
AskReduce(s) ==
  reduce' = IF reduce[s].status = "PENDING" THEN reduce
            ELSE [reduce EXCEPT ![s] = [status |-> "PENDING",
                                        shares |-> Max({1, position[s].shares \div 3})]]

Trail(s, level) == position' = [position EXCEPT ![s].trailing = level]

Manage(s) ==
  /\ \/ Verdict(s) = "exit" /\ AskExit(s) /\ UNCHANGED <<reduce, position>>
     \/ Verdict(s) = "trail" /\ AskExit(s) /\ Trail(s, Trailed(s)) /\ UNCHANGED reduce
     \/ /\ Verdict(s) = "protect" /\ To(s, "RISK_PROTECTION") /\ UNCHANGED <<exit, reduce>>
        /\ Trail(s, IF Gain(s) > 0 THEN Max({position[s].trailing, position[s].price})
                    ELSE position[s].trailing)
     \/ /\ Verdict(s) = "reduce" /\ AskReduce(s) /\ To(s, "RISK_PROTECTION")
        /\ UNCHANGED <<exit, position>>
     \/ /\ Verdict(s) = "hold" /\ Trail(s, Trailed(s)) /\ To(s, "IN_POSITION")
        /\ UNCHANGED <<exit, reduce>>
  /\ UNCHANGED <<cooldown, entry, after>>

----------------------------------------------------------------------------
\* advance_state_machine.  Of the trend evaluate_stock_trend finds, all it asks is
\* whether it is one of ENTRY_TRENDS.
Advance(s) ==
  \E eligible \in BOOLEAN :
    LET stage == Stage(s, eligible)
    IN \/ stage = "correct" /\ Correct(s)
       \/ Waits(s, stage)
       \/ stage = "failed" /\ RecordFailure(s)
       \/ stage = "confirmed" /\ FollowBottom(s)
       \/ stage = "manage" /\ Manage(s)
=============================================================================
