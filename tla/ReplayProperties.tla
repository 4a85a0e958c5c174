-------------------------- MODULE ReplayProperties --------------------------
(***************************************************************************)
(* What the signal book promises on a desk, and what a replay of it does.  *)
(***************************************************************************)
EXTENDS Replay

Statuses == {"NONE", "PENDING", "APPROVED", "REJECTED", "EXPIRED", "CANCELLED_BY_STRUCTURE",
             "CANCELLED_BY_TRIGGER", "CANCELLED_BY_MARKET"}
HeldStates == {"IN_POSITION", "RISK_PROTECTION", "EXIT_CANDIDATE", "SIM_POSITION"}
TradingStates == HeldStates \cup Hopeful \cup {"IDLE", "TREND_OK", "COOLDOWN", "WATCHED"}
Levels == Nat
Times == Never .. MaxClock

EntryRows == [status : Statuses, structure : Times, at : Times, shares : Nat, price : Levels]

\* The tables hold rows of their types (models.py): no status and no state but
\* the documented ones, no position with less than no shares.
TypeOK ==
  /\ clock \in 0 .. MaxClock /\ market \in TradeableMarkets \cup {"RISK_OFF"}
  /\ daily \in [Symbols -> [close : Levels \cup {Never}, weak : BOOLEAN]]
  /\ below \in [Symbols -> BOOLEAN] /\ \A s \in Symbols : quarter[s].ts \in Times
  /\ signs \in [Symbols -> [life : {"none", "passivated", "confirmed"}, bottom : Times,
                            latest : {"NONE", "BOTTOM_PASSIVATION", "BOTTOM_STRUCTURE",
                                      "BOTTOM_FAILED", "TOP_STRUCTURE"}, topped : BOOLEAN]]
  /\ after \in [Symbols -> [count : 0 .. FailureBars, weak : BOOLEAN, away : BOOLEAN]]
  /\ state \in [Symbols -> TradingStates]
  /\ cooldown \in [Symbols -> Never .. MaxClock + CooldownDays]
  /\ entry \in [Symbols -> EntryRows] /\ exit \in [Symbols -> Statuses]
  /\ reduce \in [Symbols -> [status : Statuses, shares : Nat]]
  /\ position \in [Symbols -> [status : {"NONE", "OPEN", "CLOSED"}, shares : Nat,
                               price : Levels, trailing : Levels]]
  /\ todo \subseteq Symbols /\ phase \in {"bars", "risk", "advance", "settle", "cool"}
  /\ trade \in [Symbols -> [stop : Levels \cup {Never}, price : Levels \cup {Never}]]
  /\ fills \in [Symbols -> SUBSET Levels] /\ outcome \in {"running", "finished", "aborted"}

----------------------------------------------------------------------------
(* The book *)

\* docs/state_machine.md:19: no position is opened during a cooldown.  approve_signal
\* does not look at the cooldown; it holds because whatever starts one also
\* cancels the entry that waits (approvals.py:28, monitor_state.py:40).
NoEntryDuringCooldown ==
  [][\A s \in Symbols : ~Open(s) /\ Open(s)' => cooldown[s] < AsOf]_vars

\* docs/risk.md:13: nothing comes before the hard stop.  Whatever the cooldown, the
\* entries, the market and the structures are, an advance of a position whose
\* daily close is at the stop leaves an exit to be approved (state_machine.py:91-120).
HardStopIsNeverMasked ==
  [][\A s \in Symbols :
       Open(s) /\ daily[s].close \in 0 .. Stop /\ Advance(s) => exit'[s] = "PENDING"]_vars

\* docs/risk.md:13: while a position is open its trailing stop is never widened, by
\* a market that changes the distance, by a downgrade or by a reduction
\* (state_machine.py:333-335, 361-370).
StopsOnlyTighten ==
  [][\A s \in Symbols : Open(s) /\ Open(s)' => position'[s].trailing >= position[s].trailing]_vars

\* On a desk the state of a symbol says that it is held exactly when it is,
\* though the state machine, the approvals and the monitor all write it
\* (state_machine.py:30, approvals.py:74-87, monitor_state.py:32).
StatesTellPositions ==
  session.mode = "desk" => \A s \in Symbols : Open(s) <=> state[s] \in HeldStates

\* A person is asked one thing at a time: an entry waits only while the symbol
\* is not held (state_machine.py:116, 224; approvals.py:17-41).
NoEntryWaitsOnPosition ==
  \A s \in Symbols : ~(Open(s) /\ entry[s].status = "PENDING")

----------------------------------------------------------------------------
(* The replay *)

\* Trades and positions of the replay's tables never part, though a trade may end
\* by its stop or by an approved exit, and its symbol may be asked to enter again
\* (backtest.py:133-205).
TradesMirrorPositions ==
  session.mode = "replay" /\ outcome = "running" =>
    \A s \in Symbols : Open(s) <=> trade[s] # NoTrade

\* The limit of positions is only asked when an entry is created, and holds in a
\* replay because every entry is approved before the next is created
\* (risk.py:120, backtest.py:142-182).
PositionsWithinLimit ==
  session.mode = "replay" => Cardinality(OpenSymbols) <= MaxPositions

\* docs/backtest.md:30: no trade of a replay loses more than its risk: on the bar
\* that touches the stop it ends at the stop, before any exit at the bar's close
\* (backtest.py:133-138, 255-261).
LossesAreBounded == \A s \in Symbols : \A level \in fills[s] : level >= Stop

\* docs/backtest.md:7: the hour of an entry's structure has ended when the bar that
\* triggered the entry ends; the trigger itself only asks for a later start than
\* the hour's (backtest.py:493-500, entry_trigger.py:47).
EntriesFollowTheirHour ==
  session.mode = "replay" =>
    \A s \in Symbols : entry[s] # NoEntry =>
      entry[s].at + Duration["15m"] >= entry[s].structure + Duration["60m"]

\* Cooldowns end in the days that are replayed, though the approval of an exit
\* starts them from the day of the wall clock (approvals.py:86, backtest.py:503-509).
CooldownsAreReplayed ==
  session.mode = "replay" /\ phase # "cool" =>
    \A s \in Symbols : cooldown[s] <= AsOf + CooldownDays

\* docs/backtest.md:14 says it, and it is wrong: an ENTRY that is still valid at
\* the bar that decides it becomes a position (backtest.py:182, models.py unique
\* symbol of Position).
ValidEntriesAreApproved ==
  [][\A s \in Symbols :
       Turn(s, "settle") /\ entry[s].status = "PENDING" /\ Correction(s) = "NONE" => Open(s)']_vars

\* What ends a replay early is the second entry of a symbol, and nothing else: no
\* entry is corrected between its creation and its approval (approvals.py:28-31).
AbortsAreSecondEntries ==
  outcome = "aborted" =>
    \E s \in Symbols : fills[s] # {} /\ entry[s].status = "PENDING" /\ Correction(s) = "NONE"

----------------------------------------------------------------------------
(* Sums: they are asked of the initial state only *)

Total(final_rs) ==
  LET total[k \in 0 .. Len(final_rs)] == IF k = 0 THEN 0 ELSE total[k - 1] + final_rs[k]
  IN total

\* The drawdown is the worst sum of consecutive results, the losses are the longest
\* run of results without a gain, and no more than half of the results are on
\* either side of the median.
StatisticsAgreeOn(final_rs) ==
  LET n == Len(final_rs)
      runs == {run \in (0 .. n) \X (0 .. n) : run[1] <= run[2]}  \* results run[1] + 1 .. run[2]
      losing == {run \in runs : \A k \in run[1] + 1 .. run[2] : final_rs[k] <= 0}
      stats == Stats(final_rs)[n]
  IN /\ stats.drawdown = Min({Total(final_rs)[run[2]] - Total(final_rs)[run[1]] : run \in runs})
     /\ stats.most = Max({run[2] - run[1] : run \in losing})
     /\ 2 * Cardinality({k \in 1 .. n : 2 * final_rs[k] > DoubleMedian(final_rs)}) <= n
     /\ 2 * Cardinality({k \in 1 .. n : 2 * final_rs[k] < DoubleMedian(final_rs)}) <= n

\* The loop over the trades and the median of the sorted results compute what they
\* are named for, of all short sequences of results (backtest.py:307-320, 517-524).
StatisticsAgree ==
  Init => \A n \in 0 .. 4 : \A final_rs \in [1 .. n -> -2 .. 2] : StatisticsAgreeOn(final_rs)

\* The shares of an entry are the most whose loss at the stop is within the
\* allowed one and whose value is within the cap.
SizeIsLargest(equity, price, stop, state2) ==
  LET size == PositionSize(equity, price, stop, state2)
      allowed == equity * (IF state2 = "RISK_ON" THEN 100 ELSE NeutralPercent)
      fits(n) == n * (price - stop) * 10000 <= allowed * RiskPercent
                 /\ n * price * 100 <= equity * CapPercent
  IN IF stop \in 1 .. price - 1 THEN fits(size) /\ ~fits(size + 1) ELSE size = 0

\* No share more is within them, at round, odd and missing equities (risk.py:79-103).
SizesAreLargest ==
  Init => \A equity \in {0, 100, 999, 1000, 4000}, price \in {2, 11, 12, 30}, stop \in 0 .. 30,
             state2 \in TradeableMarkets : SizeIsLargest(equity, price, stop, state2)
=============================================================================
