----------------------------- MODULE SignalBook -----------------------------
(***************************************************************************)
(* The signals a person approves: the rows of TradeSignal, Position and    *)
(* TradingState, the bars and structures they are judged by, and what      *)
(* app/services/corrections.py, approvals.py, risk.py and monitor_state.py *)
(* do to them.                                                             *)
(*                                                                         *)
(* Time is counted in 15-minute bars, and a bar's time is its start.       *)
(* Prices are levels, and every structure has its stop at Stop.            *)
(***************************************************************************)
EXTENDS Integers, Sequences, FiniteSets, FiniteSetsExt

CONSTANTS
  Symbols,       \* stock symbols: numbers, in the order of the replay
  Industry,      \* [Symbols -> industries]
  Duration,      \* [{"15m", "60m", "1d"} -> Nat], the length of a bar
  Quarters,      \* [Symbols -> facts of a 15-minute bar]: low, close, what is read off it
  Hours,         \* [Symbols -> SUBSET BOOLEAN]: a 60-minute bar closes below its MA60
  Dailies,       \* [Symbols -> facts of a daily bar]: close, and if below its MA60
  MarketSymbols, \* symbols the market is judged by: how many
  Stop,          \* the stop below a bottom structure
  Equity,        \* the account's equity, when it is known
  MaxPositions,  \* RiskConfig.max_positions
  MaxExposure,   \* value of open positions that blocks more of their industry
  CooldownDays,  \* RiskConfig.cooldown_days
  ExpiryBars,    \* CorrectionConfig.signal_expiry_bars
  FailureBars,   \* CorrectionConfig.trigger_failure_bars
  MaxClock       \* bound: 15-minute bars

ASSUME BookAssumption ==
  /\ Symbols \subseteq Nat /\ IsFiniteSet(Symbols)
  /\ Duration \in [{"15m", "60m", "1d"} -> Nat \ {0}]
  /\ {MarketSymbols, Stop, Equity, MaxPositions, MaxExposure, CooldownDays, ExpiryBars,
      FailureBars, MaxClock} \subseteq Nat
  /\ Duration["15m"] <= Duration["1d"]
  /\ 0 < ExpiryBars /\ ExpiryBars <= FailureBars  \* 4 and 5: no more bars are looked at

\* A bar closes no lower than its low.
ASSUME BarAssumption ==
  \A s \in Symbols :
    /\ Quarters[s] \subseteq [low : Nat, close : Nat, resumes : BOOLEAN, weak : BOOLEAN, away : BOOLEAN]
    /\ \A bar \in Quarters[s] : bar.low <= bar.close
    /\ Hours[s] \subseteq BOOLEAN /\ Dailies[s] \subseteq [close : Nat, weak : BOOLEAN]

VARIABLES
  session,  \* how the book is used: its mode, the symbols traded, the equity known
  clock,
  market,   \* the latest MarketState row
  daily,    \* [Symbols -> latest daily bar]
  below,    \* [Symbols -> BOOLEAN], the latest 60-minute bar closes below its MA60
  quarter,  \* [Symbols -> latest 15-minute bar]
  signs,    \* [Symbols -> what the StructureEvent rows say]
  after,    \* [Symbols -> the 15-minute bars since the trigger of the latest ENTRY]
  state,    \* [Symbols -> TradingStates], TradingState.state
  cooldown, \* [Symbols -> day], TradingState.cooldown_until
  entry,    \* [Symbols -> the latest ENTRY row of TradeSignal]
  exit,     \* [Symbols -> Statuses], the latest EXIT row
  reduce,   \* [Symbols -> the latest REDUCE row]
  position  \* [Symbols -> the Position row]: the symbol is unique, also of closed ones

bars == <<market, daily, below, quarter, signs, after>>
rows == <<state, cooldown, entry, exit, reduce, position>>

Never == -1

NoDaily == [close |-> Never, weak |-> FALSE]
NoQuarter == [ts |-> Never]

NoEntry == [status |-> "NONE", structure |-> Never, at |-> Never, shares |-> 0, price |-> 0]
NoReduce == [status |-> "NONE", shares |-> 0]
NoPosition == [status |-> "NONE", shares |-> 0, price |-> 0, trailing |-> Stop]
NoBars == [count |-> 0, weak |-> FALSE, away |-> FALSE]
NoSigns == [life |-> "none", bottom |-> Never, latest |-> "NONE", topped |-> FALSE]

TradeableMarkets == {"RISK_ON", "NEUTRAL_POSITIVE"}

Open(s) == position[s].status = "OPEN"

----------------------------------------------------------------------------
(* The calendar *)

\* date.today(); a replay is run on a day after all those it replays.
Today == IF session.mode = "replay" THEN MaxClock ELSE clock \div Duration["1d"]

\* The day the state machine is told: that of the bar that is replayed.
AsOf == IF session.mode = "replay" THEN (clock - Duration["15m"]) \div Duration["1d"] ELSE Today

\* Mutant: the bars of an hour are seen when they start.
AvailableAtStart(timeframe, ts) == IF timeframe = "60m" THEN ts ELSE ts + Duration[timeframe]

\* _available_at
AvailableAt(timeframe, ts) == ts + Duration[timeframe]

\* The starts, at most one, of the bar of a timeframe that is seen from now on.
Arriving(timeframe) ==
  {ts \in 0 .. clock : AvailableAt(timeframe, ts) = clock /\ ts % Duration[timeframe] = 0}

----------------------------------------------------------------------------
(* Bars and structures *)

\* evaluate_market: how many of the market's symbols are ready, and how many pass.
Market(ready, strong) ==
  IF ready # MarketSymbols THEN "RISK_OFF"
  ELSE IF strong = ready THEN "RISK_ON"
  ELSE IF strong >= 1 THEN "NEUTRAL_POSITIVE" ELSE "RISK_OFF"

\* What a scan may add to the events of a symbol, at the hour it looks at last: a
\* bottom passivates, is confirmed and fails, in this order; of the tops only
\* the confirmation is told from the rest.
Scanned(sign, ts) ==
  {sign, [sign EXCEPT !.latest = "TOP_STRUCTURE", !.topped = TRUE]}
    \cup CASE sign.life = "none" ->
                {[sign EXCEPT !.life = "passivated", !.latest = "BOTTOM_PASSIVATION"]}
           [] sign.life = "passivated" ->
                {[sign EXCEPT !.life = "confirmed", !.latest = "BOTTOM_STRUCTURE", !.bottom = ts]}
           [] sign.life = "confirmed" ->
                {[sign EXCEPT !.life = "none", !.latest = "BOTTOM_FAILED"]}

\* _bars_after_trigger, and the verdict on the first of them: only asked of an
\* entry that is pending or of the position it became.
Followed(s, bar) ==
  IF entry[s].status # "PENDING" /\ ~Open(s) THEN NoBars
  ELSE IF after[s].count >= FailureBars THEN after[s]
  ELSE [count |-> after[s].count + 1, weak |-> after[s].weak \/ bar.weak, away |-> bar.away]

\* The daily and the 60-minute bar of s that end now, with the structures of
\* the latter, are stored.  A bar may be missing.
ArriveLong(s) ==
  /\ \/ UNCHANGED daily
     \/ Arriving("1d") # {} /\ \E bar \in Dailies[s] : daily' = [daily EXCEPT ![s] = bar]
  /\ \/ Arriving("60m") = {} /\ UNCHANGED <<below, signs>>
     \/ \E ts \in Arriving("60m"), low \in Hours[s] : \E sign \in Scanned(signs[s], ts) :
          signs' = [signs EXCEPT ![s] = sign] /\ below' = [below EXCEPT ![s] = low]

\* So is the 15-minute bar.
ArriveQuarter(s) ==
  \E ts \in Arriving("15m"), bar \in Quarters[s] :
    /\ quarter' = [quarter EXCEPT ![s] = [ts |-> ts, bar |-> bar]]
    /\ after' = [after EXCEPT ![s] = Followed(s, bar)]

----------------------------------------------------------------------------
(* Corrections *)

\* _structure_failure: a bottom is followed by another one only after it failed.
StructureFailed(s) == signs[s].life # "confirmed" \/ signs[s].bottom # entry[s].structure

\* entry_trigger_failure_reason: one of the first bars fell back, or the latest
\* of them is too far from the entry, on either side.
TriggerFailed(s) == after[s].weak \/ after[s].away

\* Mutant: the structure is not looked at any more.
CorrectionBlind(s) ==
  IF entry[s].status # "PENDING" THEN "NONE"
  ELSE IF TriggerFailed(s) THEN "CANCELLED_BY_TRIGGER"
  ELSE IF after[s].count >= ExpiryBars THEN "EXPIRED"
  ELSE IF market \notin TradeableMarkets THEN "CANCELLED_BY_MARKET" ELSE "NONE"

\* Mutant: an entry expires one bar early.
CorrectionOneBarEarly(s) ==
  IF entry[s].status # "PENDING" THEN "NONE"
  ELSE IF StructureFailed(s) THEN "CANCELLED_BY_STRUCTURE"
  ELSE IF TriggerFailed(s) THEN "CANCELLED_BY_TRIGGER"
  ELSE IF after[s].count + 1 >= ExpiryBars THEN "EXPIRED"
  ELSE IF market \notin TradeableMarkets THEN "CANCELLED_BY_MARKET" ELSE "NONE"

\* reconcile_pending_entry: the status it gives the pending ENTRY.
Correction(s) ==
  IF entry[s].status # "PENDING" THEN "NONE"
  ELSE IF StructureFailed(s) THEN "CANCELLED_BY_STRUCTURE"
  ELSE IF TriggerFailed(s) THEN "CANCELLED_BY_TRIGGER"
  ELSE IF after[s].count >= ExpiryBars THEN "EXPIRED"
  ELSE IF market \notin TradeableMarkets THEN "CANCELLED_BY_MARKET" ELSE "NONE"

\* Mutant: the state of old databases is still written.
TargetStateLegacy(correction) ==
  CASE correction = "CANCELLED_BY_STRUCTURE" -> "COOLDOWN"
    [] correction = "CANCELLED_BY_MARKET" -> "IDLE"
    [] OTHER -> "WAIT_ENTRY_TRIGGER"

TargetState(correction) ==
  CASE correction = "CANCELLED_BY_STRUCTURE" -> "COOLDOWN"
    [] correction = "CANCELLED_BY_MARKET" -> "IDLE"
    [] OTHER -> "WAIT_15M_TRIGGER"

----------------------------------------------------------------------------
(* Sizing *)

RiskPercent == 1      \* RiskConfig.risk_per_trade_pct
NeutralPercent == 50  \* RiskConfig.neutral_risk_multiplier
CapPercent == 20      \* RiskConfig.max_symbol_position_pct

\* Mutant: the cap of a position's value is forgotten.
PositionSizeUncapped(equity, price, stop, state2) ==
  IF stop <= 0 \/ stop >= price \/ equity <= 0 THEN 0
  ELSE (equity * RiskPercent * (IF state2 = "NEUTRAL_POSITIVE" THEN NeutralPercent ELSE 100))
         \div (10000 * (price - stop))

\* calculate_position_size, script A: 0 shares stand for no result.
PositionSize(equity, price, stop, state2) ==
  IF stop <= 0 \/ stop >= price \/ equity <= 0 THEN 0
  ELSE LET percent == IF state2 = "NEUTRAL_POSITIVE" THEN NeutralPercent ELSE 100
           byRisk == (equity * RiskPercent * percent) \div (10000 * (price - stop))
           byCap == (equity * CapPercent) \div (100 * price)
       IN Min({byRisk, byCap})

OpenSymbols == {t \in Symbols : Open(t)}

\* Mutant: the number of positions is not limited.
PortfolioAllowsAnyNumber(s) ==
  /\ ~Open(s)
  /\ LET peers == {t \in OpenSymbols : Industry[t] = Industry[s]}
     IN MapThenSumSet(LAMBDA t : position[t].shares * position[t].price, peers) < MaxExposure

\* portfolio_allows_new_position
PortfolioAllows(s) ==
  /\ ~Open(s)
  /\ Cardinality(OpenSymbols) < MaxPositions
  /\ LET peers == {t \in OpenSymbols : Industry[t] = Industry[s]}
     IN MapThenSumSet(LAMBDA t : position[t].shares * position[t].price, peers) < MaxExposure

----------------------------------------------------------------------------
(* Approvals: each action is one transaction *)

\* Mutant: an entry keeps waiting once it is decided.
DecideLeavesEntry(s, kind, decision) ==
  /\ UNCHANGED entry
  /\ exit' = IF kind = "EXIT" THEN [exit EXCEPT ![s] = decision] ELSE exit
  /\ reduce' = IF kind = "REDUCE" THEN [reduce EXCEPT ![s].status = decision] ELSE reduce

\* The decision on the latest signal of a kind.
Decide(s, kind, decision) ==
  /\ entry' = IF kind = "ENTRY" THEN [entry EXCEPT ![s].status = decision] ELSE entry
  /\ exit' = IF kind = "EXIT" THEN [exit EXCEPT ![s] = decision] ELSE exit
  /\ reduce' = IF kind = "REDUCE" THEN [reduce EXCEPT ![s].status = decision] ELSE reduce

CooledDown(s) ==
  /\ state' = [state EXCEPT ![s] = "COOLDOWN"]
  /\ cooldown' = [cooldown EXCEPT ![s] = Today + CooldownDays]

\* approve_signal of an ENTRY that is not valid any more commits the correction
\* and raises; the trading state is not touched.
ApproveTooLate(s) ==
  /\ Correction(s) # "NONE"
  /\ Decide(s, "ENTRY", Correction(s)) /\ UNCHANGED <<state, cooldown, position>>

\* The unique index of the symbols refuses a second position: the transaction
\* is rolled back.
IndexRefuses(s) == entry[s].status = "PENDING" /\ Correction(s) = "NONE" /\ position[s] # NoPosition

ApproveEntry(s) ==
  /\ entry[s].status = "PENDING" /\ Correction(s) = "NONE" /\ position[s] = NoPosition
  /\ position' = [position EXCEPT ![s] = [status |-> "OPEN", shares |-> entry[s].shares,
                                          price |-> entry[s].price, trailing |-> Stop]]
  /\ state' = [state EXCEPT ![s] = "IN_POSITION"]
  /\ Decide(s, "ENTRY", "APPROVED") /\ UNCHANGED cooldown

\* Mutant: a position that is reduced to nothing starts no cooldown.
ApproveReduceUncooled(s) ==
  /\ reduce[s].status = "PENDING"
  /\ IF Open(s)
     THEN LET kept == Max({0, position[s].shares - reduce[s].shares})
          IN /\ position' = [position EXCEPT ![s].shares = kept,
                                             ![s].status = IF kept = 0 THEN "CLOSED" ELSE "OPEN"]
             /\ IF kept = 0 THEN UNCHANGED <<state, cooldown>>
                ELSE state' = [state EXCEPT ![s] = "IN_POSITION"] /\ UNCHANGED cooldown
     ELSE UNCHANGED <<state, cooldown, position>>
  /\ Decide(s, "REDUCE", "APPROVED")

ApproveReduce(s) ==
  /\ reduce[s].status = "PENDING"
  /\ IF Open(s)
     THEN LET kept == Max({0, position[s].shares - reduce[s].shares})
          IN /\ position' = [position EXCEPT ![s].shares = kept,
                                             ![s].status = IF kept = 0 THEN "CLOSED" ELSE "OPEN"]
             /\ IF kept = 0 THEN CooledDown(s)
                ELSE state' = [state EXCEPT ![s] = "IN_POSITION"] /\ UNCHANGED cooldown
     ELSE UNCHANGED <<state, cooldown, position>>
  /\ Decide(s, "REDUCE", "APPROVED")

ApproveExit(s) ==
  /\ exit[s] = "PENDING"
  /\ IF Open(s) THEN position' = [position EXCEPT ![s].status = "CLOSED"] /\ CooledDown(s)
     ELSE UNCHANGED <<state, cooldown, position>>
  /\ Decide(s, "EXIT", "APPROVED")

StatusOf(s, kind) ==
  CASE kind = "ENTRY" -> entry[s].status
    [] kind = "EXIT" -> exit[s]
    [] kind = "REDUCE" -> reduce[s].status

\* reject_signal asks no status: also what was approved or cancelled is rejected.
Reject(s, kind) ==
  /\ StatusOf(s, kind) # "NONE"
  /\ Decide(s, kind, "REJECTED") /\ UNCHANGED <<state, cooldown, position>>

----------------------------------------------------------------------------
(* The monitor *)

\* refresh_monitor_state.  WATCHED is the state the plans, the battle pool, the
\* events and the candidates give a symbol that is neither held nor cooling.
Refresh(s) ==
  /\ IF Open(s)
     THEN /\ state' = [state EXCEPT ![s] = IF signs[s].latest = "TOP_STRUCTURE"
                                           THEN "RISK_PROTECTION" ELSE "SIM_POSITION"]
          /\ UNCHANGED cooldown
     ELSE IF signs[s].latest = "BOTTOM_FAILED" THEN CooledDown(s)
     ELSE /\ state' = [state EXCEPT ![s] = IF cooldown[s] >= Today THEN "COOLDOWN" ELSE "WATCHED"]
          /\ UNCHANGED cooldown
  /\ UNCHANGED <<entry, exit, reduce, position>>
=============================================================================
