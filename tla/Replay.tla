------------------------------- MODULE Replay -------------------------------
(***************************************************************************)
(* The two ways the signal book is used.                                   *)
(*                                                                         *)
(* A replay, app/services/backtest.py: bars are told one by one, from the  *)
(* oldest, to tables of its own; every entry and exit is approved at once. *)
(* It is a sequential program, and each of its commits is a step.          *)
(*                                                                         *)
(* A desk: the live tables, where a person approves and rejects and the    *)
(* monitor refreshes between any two bars.  At this commit only the replay *)
(* calls advance_state_machine; the desk advances as docs/state_machine.md *)
(* and the tests do, which call it on tables like the live ones.           *)
(***************************************************************************)
EXTENDS StateMachine

CONSTANT Sessions  \* bound: modes, sets of symbols, equities and lengths that are looked at

ASSUME SessionAssumption ==
  \A x \in Sessions : x.mode \in {"replay", "desk"} /\ x.traded \subseteq Symbols
                      /\ x.equity \in {0, Equity} /\ x.warm \in BOOLEAN /\ x.bars \in 0 .. MaxClock

VARIABLES
  todo,    \* symbols whose turn is still to come at this clock
  phase,   \* what the symbol whose turn it is does next
  trade,   \* [Symbols -> the ActiveReplayTrade of the symbol, or none]
  fills,   \* [Symbols -> levels], where the trades of a symbol ended
  outcome  \* of the replay

turns == <<todo, phase>>
replayed == <<trade, fills, outcome>>
vars == <<session, clock, bars, rows, turns, replayed>>

NoTrade == [stop |-> Never, price |-> Never]

Turn(s, p) == todo # {} /\ s = Min(todo) /\ phase = p
EndTurn(s) == todo' = todo \ {s} /\ phase' = "bars"
Goes(p) == phase' = p /\ UNCHANGED todo

----------------------------------------------------------------------------
(* The bars *)

\* The next step of 15 minutes; with a day, the market is evaluated anew.
Tick ==
  /\ todo = {} /\ clock < session.bars /\ outcome = "running"
  /\ clock' = clock + 1 /\ todo' = session.traded
  /\ IF clock' % Duration["1d"] = 0
     THEN \E ready \in 0 .. MarketSymbols : \E strong \in 0 .. ready : market' = Market(ready, strong)
     ELSE UNCHANGED market
  /\ UNCHANGED <<session, daily, below, quarter, signs, after, rows, phase, replayed>>

\* The bars of a symbol, which only its own decision reads, and the scan of its
\* structures.  A replay decides where there is a 15-minute bar.
Arrive(s) ==
  /\ Turn(s, "bars") /\ ArriveLong(s)
  /\ \/ ArriveQuarter(s) /\ IF session.mode = "replay" THEN Goes("risk") ELSE EndTurn(s)
     \/ UNCHANGED <<quarter, after>> /\ EndTurn(s)
  /\ UNCHANGED <<session, clock, market, rows, replayed>>

----------------------------------------------------------------------------
(* The replay: one turn of a symbol *)

Close(s, level) ==
  /\ fills' = [fills EXCEPT ![s] = @ \cup {level}] /\ trade' = [trade EXCEPT ![s] = NoTrade]
  /\ UNCHANGED outcome

\* Mutant: the stop is filled at the low of the bar.
BarRiskFillsAtLow(s) ==
  /\ Turn(s, "risk")
  /\ \/ /\ trade[s] # NoTrade /\ quarter[s].bar.low <= trade[s].stop
        /\ position' = [position EXCEPT ![s].status = "CLOSED"]
        /\ Close(s, quarter[s].bar.low) /\ EndTurn(s)
     \/ /\ trade[s] = NoTrade \/ quarter[s].bar.low > trade[s].stop
        /\ Goes("advance") /\ UNCHANGED <<position, replayed>>
  /\ UNCHANGED <<session, clock, bars, state, cooldown, entry, exit, reduce>>

\* Mutant: the trade ends and the position stays.
BarRiskKeepsPosition(s) ==
  /\ Turn(s, "risk")
  /\ \/ /\ trade[s] # NoTrade /\ quarter[s].bar.low <= trade[s].stop
        /\ Close(s, trade[s].stop) /\ EndTurn(s)
     \/ /\ trade[s] = NoTrade \/ quarter[s].bar.low > trade[s].stop
        /\ Goes("advance") /\ UNCHANGED replayed
  /\ UNCHANGED <<session, clock, bars, rows>>

\* _apply_bar_risk: a bar that touches the stop closes there, with no cooldown.
BarRisk(s) ==
  /\ Turn(s, "risk")
  /\ \/ /\ trade[s] # NoTrade /\ quarter[s].bar.low <= trade[s].stop
        /\ position' = [position EXCEPT ![s].status = "CLOSED"]
        /\ Close(s, trade[s].stop) /\ EndTurn(s)
     \/ /\ trade[s] = NoTrade \/ quarter[s].bar.low > trade[s].stop
        /\ Goes("advance") /\ UNCHANGED <<position, replayed>>
  /\ UNCHANGED <<session, clock, bars, state, cooldown, entry, exit, reduce>>

Step(s) ==
  /\ Turn(s, "advance") /\ Advance(s) /\ Goes("settle")
  /\ UNCHANGED <<session, clock, market, daily, below, quarter, signs, replayed>>

\* The exit that waits is approved and filled at the close of the bar.
SettleExit(s) ==
  /\ Turn(s, "settle") /\ trade[s] # NoTrade
  /\ ApproveExit(s) /\ Close(s, quarter[s].bar.close) /\ Goes("cool")
  /\ UNCHANGED <<session, clock, bars>>

\* Mutant: the cooldown of the approval, of the day the replay is run, is kept.
SetReplayCooldownNot(s) == UNCHANGED <<state, cooldown>>

\* _set_replay_cooldown
SetReplayCooldown(s) ==
  /\ state' = [state EXCEPT ![s] = "COOLDOWN"]
  /\ cooldown' = [cooldown EXCEPT ![s] = AsOf + CooldownDays]

Cool(s) ==
  /\ Turn(s, "cool") /\ SetReplayCooldown(s) /\ EndTurn(s)
  /\ UNCHANGED <<session, clock, bars, entry, exit, reduce, position, replayed>>

\* So is the entry, which becomes a trade.
SettleEntry(s) ==
  /\ Turn(s, "settle") /\ trade[s] = NoTrade
  /\ ApproveEntry(s)
  /\ trade' = [trade EXCEPT ![s] = [stop |-> Stop, price |-> entry[s].price]]
  /\ EndTurn(s)
  /\ UNCHANGED <<session, clock, bars, fills, outcome>>

\* An approval that raises ends the replay, and none of its trades is kept.
Abort(s) ==
  /\ Turn(s, "settle") /\ trade[s] = NoTrade /\ (Correction(s) # "NONE" \/ IndexRefuses(s))
  /\ outcome' = "aborted" /\ todo' = {} /\ phase' = "bars"
  /\ UNCHANGED <<session, clock, bars, rows, trade, fills>>

SettleNothing(s) ==
  /\ Turn(s, "settle")
  /\ IF trade[s] # NoTrade THEN exit[s] # "PENDING" ELSE entry[s].status # "PENDING"
  /\ EndTurn(s)
  /\ UNCHANGED <<session, clock, bars, rows, replayed>>

\* When the bars are used up, what is held is closed at the last of them.
Finish ==
  /\ session.mode = "replay" /\ todo = {} /\ outcome = "running" /\ outcome' = "finished"
  /\ fills' = [s \in Symbols |-> IF trade[s] = NoTrade THEN fills[s]
                                 ELSE fills[s] \cup {quarter[s].bar.close}]
  /\ trade' = [s \in Symbols |-> NoTrade]
  /\ UNCHANGED <<session, clock, bars, rows, turns>>

----------------------------------------------------------------------------
(* The statistics of a replay: final_rs is the sequence of the R of its trades *)

\* Mutant: a trade that ends where it began is not counted among the losses.
AfterWinOrLoss(stats, value) ==
  LET equity == stats.equity + value
      peak == Max({stats.peak, equity})
      losses == IF value < 0 THEN stats.losses + 1 ELSE 0
  IN [equity |-> equity, peak |-> peak, drawdown |-> Min({stats.drawdown, equity - peak}),
      losses |-> losses, most |-> Max({stats.most, losses})]

\* One turn of the loop of _calculate_stats: max_drawdown, max_consecutive_losses
\* and what they are computed from.
AfterTrade(stats, value) ==
  LET equity == stats.equity + value
      peak == Max({stats.peak, equity})
      losses == IF value <= 0 THEN stats.losses + 1 ELSE 0
  IN [equity |-> equity, peak |-> peak, drawdown |-> Min({stats.drawdown, equity - peak}),
      losses |-> losses, most |-> Max({stats.most, losses})]

NoTradeYet == [equity |-> 0, peak |-> 0, drawdown |-> 0, losses |-> 0, most |-> 0]

Stats(final_rs) ==
  LET stats[k \in 0 .. Len(final_rs)] ==
        IF k = 0 THEN NoTradeYet ELSE AfterTrade(stats[k - 1], final_rs[k])
  IN stats

\* sorted(values) leaves equal values in their order: the places up to that of a value.
UpTo(values, k) ==
  {j \in 1 .. Len(values) : values[j] < values[k] \/ (values[j] = values[k] /\ j <= k)}

Sorted(values) ==
  [i \in 1 .. Len(values) |->
     values[CHOOSE k \in 1 .. Len(values) : Cardinality(UpTo(values, k)) = i]]

\* _median, doubled
DoubleMedian(values) ==
  LET middle == Len(values) \div 2
  IN IF values = <<>> THEN 0
     ELSE IF Len(values) % 2 = 1 THEN 2 * Sorted(values)[middle + 1]
     ELSE Sorted(values)[middle] + Sorted(values)[middle + 1]

----------------------------------------------------------------------------
(* The desk *)

Kinds == {"ENTRY", "EXIT", "REDUCE"}

\* One call of the web or the monitor: between any two others.
Call(s) ==
  \/ ApproveEntry(s) /\ UNCHANGED after
  \/ ApproveTooLate(s) /\ UNCHANGED after
  \/ ApproveReduce(s) /\ UNCHANGED after
  \/ ApproveExit(s) /\ UNCHANGED after
  \/ \E kind \in Kinds : Reject(s, kind) /\ UNCHANGED after
  \/ Refresh(s) /\ UNCHANGED after
  \/ Advance(s)

Desk(s) ==
  /\ session.mode = "desk" /\ Call(s)
  /\ UNCHANGED <<session, clock, market, daily, below, quarter, signs, turns, replayed>>

----------------------------------------------------------------------------
\* What a session finds when bars before its first one were stored and scanned: a
\* replay decides from its start on.
Passivated == [NoSigns EXCEPT !.life = "passivated", !.latest = "BOTTOM_PASSIVATION"]

Init ==
  /\ session \in Sessions /\ clock = 0 /\ market = "RISK_OFF"
  /\ daily = [s \in Symbols |-> NoDaily] /\ quarter = [s \in Symbols |-> NoQuarter]
  /\ below = [s \in Symbols |-> FALSE]
  /\ signs = [s \in Symbols |-> IF session.warm THEN Passivated ELSE NoSigns] /\ after = [s \in Symbols |-> NoBars]
  /\ state = [s \in Symbols |-> "IDLE"] /\ cooldown = [s \in Symbols |-> Never]
  /\ entry = [s \in Symbols |-> NoEntry] /\ exit = [s \in Symbols |-> "NONE"]
  /\ reduce = [s \in Symbols |-> NoReduce] /\ position = [s \in Symbols |-> NoPosition]
  /\ todo = {} /\ phase = "bars"
  /\ trade = [s \in Symbols |-> NoTrade] /\ fills = [s \in Symbols |-> {}]
  /\ outcome = "running"

Next ==
  \/ Tick \/ Finish
  \/ \E s \in session.traded :
       \/ Arrive(s) \/ BarRisk(s) \/ Step(s) \/ Cool(s)
       \/ SettleExit(s) \/ SettleEntry(s) \/ SettleNothing(s) \/ Abort(s)
       \/ Desk(s)

Spec == Init /\ [][Next]_vars
=============================================================================
