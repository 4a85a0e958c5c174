-------------------------- MODULE ReplayTypeProofs --------------------------
(***************************************************************************)
(* The rows of the signal book keep their types, on a desk and in a        *)
(* replay, for all symbols, bars, durations and sessions.  The types alone *)
(* are not inductive: the day of a replay is counted from the bar that     *)
(* ends now, so a symbol that decides must have such a bar (TurnsFit), and *)
(* a trade ends at its stop or at the close of a bar that was seen         *)
(* (TradesFit).                                                            *)
(***************************************************************************)
EXTENDS ReplayProperties, TLAPS

BarFacts == [low : Nat, close : Nat, resumes : BOOLEAN, weak : BOOLEAN, away : BOOLEAN]

\* The symbol whose turn it is, after its bar and before the end of its turn.
Acting(s) == phase # "bars" /\ todo # {} /\ s = Min(todo)

PositionRows == [status : {"NONE", "OPEN", "CLOSED"}, shares : Nat, price : Levels, trailing : Levels]

\* The rows that decisions write.
RowsFit ==
  /\ after \in [Symbols -> [count : 0 .. FailureBars, weak : BOOLEAN, away : BOOLEAN]]
  /\ state \in [Symbols -> TradingStates]
  /\ cooldown \in [Symbols -> Never .. MaxClock + CooldownDays]
  /\ entry \in [Symbols -> EntryRows] /\ exit \in [Symbols -> Statuses]
  /\ reduce \in [Symbols -> [status : Statuses, shares : Nat]]
  /\ position \in [Symbols -> PositionRows]

QuartersFit ==
  quarter \in [Symbols -> {NoQuarter} \cup [ts : 0 .. MaxClock, bar : BarFacts]]

\* A symbol acts on the bar that ends now.
TurnsFit ==
  /\ session \in Sessions /\ clock <= session.bars /\ todo \subseteq session.traded
  /\ phase # "bars" => session.mode = "replay" /\ todo # {}
  /\ \A s \in Symbols :
       Acting(s) => quarter[s] # NoQuarter /\ quarter[s].ts + Duration["15m"] = clock

TradesFit ==
  \A s \in Symbols : trade[s] # NoTrade => trade[s].stop = Stop /\ quarter[s] # NoQuarter

TypeInv == TypeOK /\ QuartersFit /\ TurnsFit /\ TradesFit

----------------------------------------------------------------------------
(* Numbers *)

\* A quotient of a natural number is one, and no larger.
LEMMA QuotientFits ==
  ASSUME NEW a \in Nat, NEW k \in Nat \ {0}
  PROVE  a \div k \in 0 .. a
  OBVIOUS

(* The larger of two integers, for the CHOOSE of FiniteSetsExt. *)
LEMMA MaxOfTwo ==
  ASSUME NEW a \in Int, NEW b \in Int
  PROVE  Max({a, b}) = IF a >= b THEN a ELSE b
  BY DEF Max

(* The smaller of two integers, likewise. *)
LEMMA MinOfTwo ==
  ASSUME NEW a \in Int, NEW b \in Int
  PROVE  Min({a, b}) = IF a <= b THEN a ELSE b
  BY DEF Min

(* The largest of three integers bounds each of them. *)
LEMMA MaxOfThree ==
  ASSUME NEW a \in Int, NEW b \in Int, NEW c \in Int
  PROVE  /\ Max({a, b} \cup {c}) \in {a, b, c}
         /\ Max({a, b} \cup {c}) >= a /\ Max({a, b} \cup {c}) >= b /\ Max({a, b} \cup {c}) >= c
  BY DEF Max

\* An entry has shares only with a stop below its price.
LEMMA SizeFits ==
  ASSUME NEW equity \in Nat, NEW price \in Nat, NEW stop \in Nat, NEW state2
  PROVE  LET size == PositionSize(equity, price, stop, state2)
         IN size \in Nat /\ (size # 0 => stop < price)
<1>1. CASE stop <= 0 \/ stop >= price \/ equity <= 0
  BY <1>1 DEF PositionSize
<1>2. CASE ~(stop <= 0 \/ stop >= price \/ equity <= 0)
  <2> DEFINE percent == IF state2 = "NEUTRAL_POSITIVE" THEN NeutralPercent ELSE 100
             risk == equity * RiskPercent * percent
             byRisk == risk \div (10000 * (price - stop))
             byCap == (equity * CapPercent) \div (100 * price)
  <2>1. risk \in Nat /\ equity * CapPercent \in Nat
    BY DEF NeutralPercent, RiskPercent, CapPercent
  <2>2. 10000 * (price - stop) \in Nat \ {0} /\ 100 * price \in Nat \ {0}
    BY <1>2
  <2>3. byRisk \in Nat /\ byCap \in Nat
    <3> HIDE DEF risk
    <3> QED
      BY <2>1, <2>2, QuotientFits
  <2>4. PositionSize(equity, price, stop, state2) = Min({byRisk, byCap})
    BY <1>2 DEF PositionSize
  <2> HIDE DEF byRisk, byCap
  <2> QED
    BY <1>2, <2>3, <2>4, MinOfTwo
<1> QED
  BY <1>1, <1>2

----------------------------------------------------------------------------
(* The calendar *)

\* The day of a desk is within the bound, that of a replay once a bar has ended.
LEMMA DaysFit ==
  ASSUME TypeOK
  PROVE  /\ Today \in 0 .. MaxClock
         /\ session.mode # "replay" \/ Duration["15m"] <= clock => AsOf \in 0 .. MaxClock
<1>1. clock \in 0 .. MaxClock /\ MaxClock \in Nat
  BY BookAssumption DEF TypeOK
<1>2. Duration["1d"] \in Nat \ {0} /\ Duration["15m"] \in Nat \ {0}
  BY BookAssumption
<1>3. clock \div Duration["1d"] \in 0 .. clock
  BY <1>1, <1>2, QuotientFits
<1>4. ASSUME Duration["15m"] <= clock
      PROVE  (clock - Duration["15m"]) \div Duration["1d"] \in 0 .. (clock - Duration["15m"])
  BY <1>1, <1>2, <1>4, QuotientFits
<1> QED
  BY <1>1, <1>2, <1>3, <1>4 DEF Today, AsOf

\* So is the day of whoever acts.
LEMMA ActingDay ==
  ASSUME TypeInv, NEW s \in Symbols, Acting(s)
  PROVE  AsOf \in 0 .. MaxClock
<1>1. quarter[s].ts \in 0 .. MaxClock /\ quarter[s].ts + Duration["15m"] = clock
  BY DEF TypeInv, QuartersFit, TurnsFit
<1>2. Duration["15m"] \in Nat \ {0} /\ MaxClock \in Nat
  BY BookAssumption
<1> QED
  BY <1>1, <1>2, DaysFit DEF TypeInv

----------------------------------------------------------------------------
(* The decisions of a person *)

(* A correction never leaves a signal pending. *)
LEMMA CorrectionFits ==
  ASSUME NEW s \in Symbols
  PROVE  Correction(s) \in Statuses \ {"PENDING"}
  BY DEF Correction, Statuses

\* Each of the three tables of signals keeps its type, and the rows of others.
LEMMA DecideFits ==
  ASSUME RowsFit, NEW s \in Symbols, NEW kind, NEW decision \in Statuses,
         Decide(s, kind, decision)
  PROVE  /\ entry' \in [Symbols -> EntryRows] /\ exit' \in [Symbols -> Statuses]
         /\ reduce' \in [Symbols -> [status : Statuses, shares : Nat]]
  BY DEF Decide, RowsFit, EntryRows

(* The cooldown of an exit lies within the days the clock can reach. *)
LEMMA CooledDownFits ==
  ASSUME RowsFit, TypeOK, NEW s \in Symbols, CooledDown(s)
  PROVE  /\ state' \in [Symbols -> TradingStates]
         /\ cooldown' \in [Symbols -> Never .. MaxClock + CooldownDays]
<1>1. Today + CooldownDays \in Never .. MaxClock + CooldownDays
  BY DaysFit, BookAssumption DEF Never
<1> QED
  BY <1>1 DEF CooledDown, RowsFit, TradingStates

(* approve_signal on an ENTRY opens a row of its type. *)
LEMMA ApproveEntryFits ==
  ASSUME RowsFit, NEW s \in Symbols, ApproveEntry(s), UNCHANGED after
  PROVE  RowsFit'
<1>1. entry[s] \in EntryRows /\ Stop \in Nat
  BY BookAssumption DEF RowsFit
<1>2. position' \in [Symbols -> PositionRows] /\ state' \in [Symbols -> TradingStates]
  BY <1>1 DEF ApproveEntry, RowsFit, EntryRows, PositionRows, Levels, TradingStates, HeldStates
<1>3. "APPROVED" \in Statuses /\ Decide(s, "ENTRY", "APPROVED")
  BY DEF Statuses, ApproveEntry
<1> QED
  BY <1>2, <1>3, DecideFits DEF RowsFit, ApproveEntry

(* approve_signal on an EXIT closes the row and starts its cooldown. *)
LEMMA ApproveExitFits ==
  ASSUME RowsFit, TypeOK, NEW s \in Symbols, ApproveExit(s), UNCHANGED after
  PROVE  RowsFit'
<1>1. position' \in [Symbols -> PositionRows]
  <2>1. UNCHANGED position \/ position' = [position EXCEPT ![s].status = "CLOSED"]
    BY DEF ApproveExit
  <2>2. [position[s] EXCEPT !.status = "CLOSED"] \in PositionRows
    BY DEF RowsFit, PositionRows
  <2> QED
    BY <2>1, <2>2 DEF RowsFit
<1>2. "APPROVED" \in Statuses /\ Decide(s, "EXIT", "APPROVED")
  BY DEF Statuses, ApproveExit
<1>3. CooledDown(s) \/ UNCHANGED <<state, cooldown>>
  BY DEF ApproveExit
<1> QED
  BY <1>1, <1>2, <1>3, DecideFits, CooledDownFits DEF RowsFit

(* approve_signal on a REDUCE halves the row. *)
LEMMA ApproveReduceFits ==
  ASSUME RowsFit, TypeOK, NEW s \in Symbols, ApproveReduce(s), UNCHANGED after
  PROVE  RowsFit'
<1> DEFINE kept == Max({0, position[s].shares - reduce[s].shares})
<1>1. kept \in Nat
  <2>1. position[s].shares - reduce[s].shares \in Int
    BY DEF RowsFit, PositionRows
  <2> QED
    BY <2>1, MaxOfTwo
<1>2. position' = [position EXCEPT ![s].shares = kept,
                                   ![s].status = IF kept = 0 THEN "CLOSED" ELSE "OPEN"]
        \/ UNCHANGED position
  BY DEF ApproveReduce
<1>3. position' \in [Symbols -> PositionRows]
  <2> HIDE DEF kept
  <2> DEFINE row == [position[s] EXCEPT !.shares = kept, !.status = IF kept = 0 THEN "CLOSED" ELSE "OPEN"]
  <2>1. row \in PositionRows
    BY <1>1 DEF RowsFit, PositionRows
  <2>2. UNCHANGED position \/ position' = [position EXCEPT ![s] = row]
    BY <1>2
  <2> HIDE DEF row
  <2> QED
    BY <2>1, <2>2 DEF RowsFit
<1>4. "APPROVED" \in Statuses /\ Decide(s, "REDUCE", "APPROVED")
  BY DEF Statuses, ApproveReduce
<1>5. \/ CooledDown(s)
      \/ state' = [state EXCEPT ![s] = "IN_POSITION"] /\ UNCHANGED cooldown
      \/ UNCHANGED <<state, cooldown>>
  BY DEF ApproveReduce
<1>6. /\ state' \in [Symbols -> TradingStates]
      /\ cooldown' \in [Symbols -> Never .. MaxClock + CooldownDays]
  BY <1>5, CooledDownFits DEF RowsFit, TradingStates, HeldStates
<1> QED
  BY <1>3, <1>4, <1>6, DecideFits DEF RowsFit

(* A signal that is rejected, or approved too late, only changes its status. *)
LEMMA DismissFits ==
  ASSUME RowsFit, NEW s \in Symbols, UNCHANGED after,
         ApproveTooLate(s) \/ \E kind \in Kinds : Reject(s, kind)
  PROVE  RowsFit'
<1>1. "REJECTED" \in Statuses /\ Correction(s) \in Statuses
  BY CorrectionFits DEF Statuses
<1>2. CASE ApproveTooLate(s)
  BY <1>1, <1>2, DecideFits DEF RowsFit, ApproveTooLate
<1>3. ASSUME NEW kind \in Kinds, Reject(s, kind)
      PROVE  RowsFit'
  BY <1>1, <1>3, DecideFits DEF RowsFit, Reject
<1> QED
  BY <1>2, <1>3

(* refresh_signal_corrections rewrites statuses and the state they give. *)
LEMMA RefreshFits ==
  ASSUME RowsFit, TypeOK, NEW s \in Symbols, Refresh(s), UNCHANGED after
  PROVE  RowsFit'
<1>1. CASE CooledDown(s)
  BY <1>1, CooledDownFits DEF RowsFit, Refresh
<1>2. CASE UNCHANGED cooldown
            /\ \E target \in {"RISK_PROTECTION", "SIM_POSITION", "COOLDOWN", "WATCHED"} :
                 state' = [state EXCEPT ![s] = target]
  BY <1>2 DEF RowsFit, Refresh, TradingStates, HeldStates
<1> QED
  BY <1>1, <1>2 DEF Refresh

----------------------------------------------------------------------------
(* The state machine *)

\* The trailing stop is never below where it was.
LEMMA TrailedFits ==
  ASSUME RowsFit, TypeOK, NEW s \in Symbols, market \in TradeableMarkets
  PROVE  Trailed(s) \in Nat /\ Trailed(s) >= position[s].trailing
<1> DEFINE p == position[s].price
           t == position[s].trailing
           c == daily[s].close - Atr[market]
<1>1. p \in Nat /\ t \in Nat
  BY DEF RowsFit, PositionRows, Levels
<1>2. c \in Int
  BY LifeAssumption DEF TypeOK, Levels, Never
<1>3. \/ Trailed(s) = t
      \/ Trailed(s) = Max({t, p})
      \/ Trailed(s) = Max({t, p} \cup {c})
  BY DEF Trailed
<1> HIDE DEF p, t, c
<1>4. p \in Int /\ t \in Int /\ (Max({t, p}) = IF t >= p THEN t ELSE p)
  BY <1>1, MaxOfTwo
<1>5. Max({t, p} \cup {c}) \in {t, p, c} /\ Max({t, p} \cup {c}) >= t /\ Max({t, p} \cup {c}) >= p
  BY <1>2, <1>4, MaxOfThree, Zenon
<1>6. Trailed(s) \in Nat /\ Trailed(s) >= t
  BY <1>1, <1>2, <1>3, <1>4, <1>5
<1> QED
  BY <1>6 DEF t

\* What _manage_position may do to the Position row: the stop moves up.
LEMMA ManageTrails ==
  ASSUME RowsFit, TypeOK, NEW s \in Symbols, Manage(s)
  PROVE  \E level \in Nat : /\ level >= position[s].trailing
                            /\ position' = [position EXCEPT ![s].trailing = level]
<1>1. position[s] \in PositionRows /\ position \in [Symbols -> PositionRows]
  BY DEF RowsFit
<1>2. position[s].trailing \in Nat /\ position[s].price \in Nat
  BY <1>1 DEF PositionRows, Levels
<1>3. ASSUME UNCHANGED position
      PROVE  position' = [position EXCEPT ![s].trailing = position[s].trailing]
  BY <1>1, <1>3 DEF PositionRows
<1>4. CASE Verdict(s) = "exit" \/ Verdict(s) = "reduce"
  BY <1>2, <1>3, <1>4 DEF Manage
<1>5. CASE Verdict(s) = "trail" \/ Verdict(s) = "hold"
  <2>1. market \in TradeableMarkets
    BY <1>5 DEF Verdict
  <2>2. position' = [position EXCEPT ![s].trailing = Trailed(s)]
    BY <1>5 DEF Manage, Trail
  <2> QED
    BY <2>1, <2>2, TrailedFits
<1>6. CASE Verdict(s) = "protect"
  <2> DEFINE level == IF Gain(s) > 0 THEN Max({position[s].trailing, position[s].price})
                      ELSE position[s].trailing
  <2>1. level \in Nat /\ level >= position[s].trailing
    BY <1>2, MaxOfTwo
  <2>2. position' = [position EXCEPT ![s].trailing = level]
    BY <1>6 DEF Manage, Trail
  <2> QED
    BY <2>1, <2>2
<1> QED
  BY <1>4, <1>5, <1>6 DEF Manage

(* The exits, reductions and trailing of a held position write rows of their types. *)
LEMMA ManageFits ==
  ASSUME RowsFit, TypeOK, NEW s \in Symbols, Manage(s)
  PROVE  RowsFit'
<1>1. position' \in [Symbols -> PositionRows]
  <2>1. PICK level \in Nat : position' = [position EXCEPT ![s].trailing = level]
    BY ManageTrails
  <2>2. [position[s] EXCEPT !.trailing = level] \in PositionRows
    BY DEF RowsFit, PositionRows, Levels
  <2> QED
    BY <2>1, <2>2 DEF RowsFit
<1>2. reduce' \in [Symbols -> [status : Statuses, shares : Nat]]
  <2>1. position[s].shares \div 3 \in Nat
    BY QuotientFits DEF RowsFit, PositionRows
  <2>2. Max({1, position[s].shares \div 3}) \in Nat
    BY <2>1, MaxOfTwo
  <2>3. \/ UNCHANGED reduce
        \/ reduce' = [reduce EXCEPT ![s] = [status |-> "PENDING",
                                            shares |-> Max({1, position[s].shares \div 3})]]
    BY DEF Manage, AskReduce
  <2> QED
    BY <2>2, <2>3 DEF RowsFit, Statuses
<1>3. exit' \in [Symbols -> Statuses]
  BY DEF Manage, AskExit, RowsFit, Statuses
<1>4. state' \in [Symbols -> TradingStates]
  BY DEF Manage, AskExit, To, RowsFit, TradingStates, HeldStates
<1> QED
  BY <1>1, <1>2, <1>3, <1>4 DEF RowsFit, Manage

\* What a new ENTRY is: it waits, of the latest bottom and bar.
NewEntry(s, row) ==
  /\ row.status = "PENDING" /\ row.structure = signs[s].bottom /\ row.at = quarter[s].ts
  /\ row.price = quarter[s].bar.close /\ Stop < quarter[s].bar.close
  /\ entry' = [entry EXCEPT ![s] = row] /\ after' = [after EXCEPT ![s] = NoBars]
  /\ PortfolioAllows(s)

\* A bottom that is followed waits, expires or is entered.
LEMMA FollowCases ==
  ASSUME TypeOK, QuartersFit, session \in Sessions, NEW s \in Symbols, FollowBottom(s), signs[s].bottom # Never
  PROVE  /\ UNCHANGED <<exit, reduce, position>>
         /\ \/ /\ UNCHANGED <<cooldown, entry, after>>
               /\ \E target \in {"WAIT_15M_TRIGGER", "TREND_OK"} : To(s, target)
            \/ Cools(s) /\ UNCHANGED <<entry, after>>
            \/ /\ UNCHANGED cooldown /\ To(s, "ENTRY_CANDIDATE") /\ quarter[s].ts > signs[s].bottom
               /\ \E row \in EntryRows : NewEntry(s, row)
<1>1. UNCHANGED <<exit, reduce, position>>
  BY DEF FollowBottom
<1>2. CASE Trigger(s) # "resumes"
  BY <1>1, <1>2 DEF FollowBottom
<1>3. CASE Trigger(s) = "resumes"
  <2>1. quarter[s].ts > signs[s].bottom /\ signs[s].bottom \in 0 .. MaxClock
    BY <1>3 DEF Trigger, TypeOK, Times, Never
  <2>2. quarter[s] \in [ts : 0 .. MaxClock, bar : BarFacts]
    BY <2>1, BookAssumption DEF QuartersFit, NoQuarter, Never
  <2>3. quarter[s].bar.close \in Nat /\ quarter[s].ts \in 0 .. MaxClock
    BY <2>2 DEF BarFacts
  <2>4. session.equity \in Nat /\ Stop \in Nat
    BY BookAssumption, SessionAssumption
  <2>5. PICK stopped \in BOOLEAN : CreateEntry(s, stopped)
    BY <1>3 DEF FollowBottom
  <2>6. UNCHANGED cooldown
    BY <1>3 DEF FollowBottom
  <2>7. CASE ~PortfolioAllows(s) \/ Sized(s, stopped) = 0
    BY <1>1, <2>5, <2>6, <2>7 DEF CreateEntry
  <2>8. CASE PortfolioAllows(s) /\ Sized(s, stopped) # 0
    <3> DEFINE row == [status |-> "PENDING", structure |-> signs[s].bottom, at |-> quarter[s].ts,
                       shares |-> Sized(s, stopped), price |-> quarter[s].bar.close]
    <3>1. Sized(s, stopped) \in Nat /\ Stop < quarter[s].bar.close
      BY <2>3, <2>4, <2>8, SizeFits DEF Sized
    <3>2. row \in EntryRows
      BY <2>1, <2>3, <3>1 DEF EntryRows, Statuses, Times, Never, Levels
    <3>3. NewEntry(s, row) /\ To(s, "ENTRY_CANDIDATE")
      BY <2>5, <2>8, <3>1 DEF CreateEntry, NewEntry
    <3> HIDE DEF row
    <3> QED
      BY <1>1, <2>1, <2>6, <3>2, <3>3
  <2> QED
    BY <2>7, <2>8
<1> QED
  BY <1>2, <1>3

\* The four things advance_state_machine does: it corrects the entry that waits,
\* changes the state and perhaps the cooldown, creates an entry, or manages.
Corrects(s) == Correction(s) # "NONE" /\ Correct(s)

Idles(s) ==
  /\ UNCHANGED <<entry, exit, reduce, position, after>>
  /\ Open(s) => cooldown[s] >= AsOf \/ daily[s] = NoDaily
  /\ \/ UNCHANGED cooldown /\ \E target \in TradingStates \ HeldStates : To(s, target)
     \/ Cools(s) /\ entry[s].status # "PENDING" /\ ~Open(s)

Enters(s) ==
  /\ cooldown[s] < AsOf /\ daily[s] # NoDaily /\ market \in TradeableMarkets
  /\ ~Open(s) /\ entry[s].status # "PENDING"
  /\ signs[s].life = "confirmed" /\ signs[s].bottom # Never /\ quarter[s].ts > signs[s].bottom
  /\ \E row \in EntryRows : NewEntry(s, row)
  /\ To(s, "ENTRY_CANDIDATE") /\ UNCHANGED <<cooldown, exit, reduce, position>>

Manages(s) ==
  cooldown[s] < AsOf /\ daily[s] # NoDaily /\ Open(s) /\ Correction(s) = "NONE" /\ Manage(s)

(* Each branch of advance_symbol is one of four: a correction, nothing, an entry, or
   the management of a position. *)
LEMMA AdvanceCases ==
  ASSUME TypeOK, QuartersFit, session \in Sessions, AsOf \in Int, NEW s \in Symbols, Advance(s)
  PROVE  Corrects(s) \/ Idles(s) \/ Enters(s) \/ Manages(s)
<1>1. PICK eligible \in BOOLEAN :
        LET stage == Stage(s, eligible)
        IN \/ stage = "correct" /\ Correct(s)
           \/ Waits(s, stage)
           \/ stage = "failed" /\ RecordFailure(s)
           \/ stage = "confirmed" /\ FollowBottom(s)
           \/ stage = "manage" /\ Manage(s)
  BY DEF Advance
<1> DEFINE stage == Stage(s, eligible)
<1>2. cooldown[s] \in Int
  BY BookAssumption DEF TypeOK, Never
<1>3. CASE stage = "correct" /\ Correct(s)
  BY <1>3 DEF Stage, Corrects
<1>4. CASE Waits(s, stage)
  <2>1. Open(s) => cooldown[s] >= AsOf \/ daily[s] = NoDaily
    BY <1>2, <1>4 DEF Stage, Waits
  <2>2. \E target \in TradingStates \ HeldStates : To(s, target)
    BY <1>4 DEF Waits, TradingStates, HeldStates, Hopeful
  <2> QED
    BY <1>4, <2>1, <2>2 DEF Waits, Idles
<1>5. CASE stage = "failed" /\ RecordFailure(s)
  <2>1. ~Open(s) /\ entry[s].status # "PENDING"
    BY <1>5 DEF Stage
  <2> QED
    BY <1>5, <2>1 DEF RecordFailure, Idles
<1>6. CASE stage = "confirmed" /\ FollowBottom(s)
  <2>1. /\ Correction(s) = "NONE" /\ ~(cooldown[s] >= AsOf) /\ daily[s] # NoDaily
        /\ ~Open(s) /\ market \in TradeableMarkets /\ entry[s].status # "PENDING"
        /\ signs[s].bottom # Never /\ signs[s].life = "confirmed"
    BY <1>6 DEF Stage
  <2>2. cooldown[s] < AsOf
    BY <1>2, <2>1
  <2>3. UNCHANGED <<exit, reduce, position>>
    BY <1>6, <2>1, FollowCases
  <2>4. CASE /\ UNCHANGED <<cooldown, entry, after>>
             /\ \E target \in {"WAIT_15M_TRIGGER", "TREND_OK"} : To(s, target)
    BY <2>1, <2>3, <2>4 DEF Idles, TradingStates, HeldStates, Hopeful
  <2>5. CASE Cools(s) /\ UNCHANGED <<entry, after>>
    BY <2>1, <2>3, <2>5 DEF Idles
  <2>6. CASE /\ UNCHANGED cooldown /\ To(s, "ENTRY_CANDIDATE") /\ quarter[s].ts > signs[s].bottom
             /\ \E row \in EntryRows : NewEntry(s, row)
    BY <2>1, <2>2, <2>3, <2>6 DEF Enters
  <2> QED
    BY <1>6, <2>1, <2>4, <2>5, <2>6, FollowCases
<1>7. CASE stage = "manage" /\ Manage(s)
  <2>1. Correction(s) = "NONE" /\ ~(cooldown[s] >= AsOf) /\ daily[s] # NoDaily /\ Open(s)
    BY <1>7 DEF Stage
  <2> QED
    BY <1>2, <1>7, <2>1 DEF Manages
<1> QED
  BY <1>1, <1>3, <1>4, <1>5, <1>6, <1>7

(* advance_symbol writes rows of their types, whichever branch it takes. *)
LEMMA AdvanceFits ==
  ASSUME TypeOK, QuartersFit, session \in Sessions, AsOf \in 0 .. MaxClock,
         NEW s \in Symbols, Advance(s)
  PROVE  RowsFit'
<1>1. RowsFit /\ MaxClock \in Nat /\ CooldownDays \in Nat
  BY BookAssumption DEF TypeOK, RowsFit, PositionRows
<1>2. ASSUME Cools(s)
      PROVE  /\ cooldown' \in [Symbols -> Never .. MaxClock + CooldownDays]
             /\ state' \in [Symbols -> TradingStates]
  BY <1>1, <1>2 DEF Cools, To, RowsFit, Never, TradingStates
<1>3. ASSUME NEW target \in TradingStates, To(s, target)
      PROVE  state' \in [Symbols -> TradingStates]
  BY <1>1, <1>3 DEF To, RowsFit
<1>4. CASE Corrects(s)
  <2>1. Correction(s) \in Statuses
    BY CorrectionFits
  <2>2. entry' \in [Symbols -> EntryRows]
    BY <1>1, <1>4, <2>1 DEF Corrects, Correct, RowsFit, EntryRows
  <2>3. TargetState(Correction(s)) \in TradingStates
    BY <2>1 DEF TargetState, TradingStates, Hopeful
  <2> QED
    BY <1>1, <1>2, <1>3, <1>4, <2>2, <2>3 DEF Corrects, Correct, RowsFit
<1>5. CASE Idles(s)
  BY <1>1, <1>2, <1>3, <1>5 DEF Idles, RowsFit
<1>6. CASE Enters(s)
  <2>1. PICK row \in EntryRows : NewEntry(s, row)
    BY <1>6 DEF Enters
  <2>2. "ENTRY_CANDIDATE" \in TradingStates
    BY DEF TradingStates, Hopeful
  <2>3. NoBars \in [count : 0 .. FailureBars, weak : BOOLEAN, away : BOOLEAN]
    BY BookAssumption DEF NoBars
  <2>4. /\ entry' \in [Symbols -> EntryRows]
        /\ after' \in [Symbols -> [count : 0 .. FailureBars, weak : BOOLEAN, away : BOOLEAN]]
    BY <1>1, <2>1, <2>3 DEF NewEntry, RowsFit
  <2> QED
    BY <1>1, <1>3, <1>6, <2>2, <2>4 DEF Enters, RowsFit
<1>7. CASE Manages(s)
  BY <1>1, <1>7, ManageFits DEF Manages
<1> QED
  BY <1>4, <1>5, <1>6, <1>7, AdvanceCases, BookAssumption

----------------------------------------------------------------------------
(* The types are inductive *)

\* What an action keeps of the types when it neither tells bars nor ticks.
LEMMA DecisionFits ==
  ASSUME TypeInv, RowsFit', UNCHANGED <<session, clock, market, daily, below, quarter, signs>>,
         todo' \subseteq todo, phase' \in {"bars", "risk", "advance", "settle", "cool"},
         phase' = "bars" \/ (phase # "bars" /\ todo' = todo),
         trade' \in [Symbols -> [stop : Levels \cup {Never}, price : Levels \cup {Never}]],
         TradesFit', fills' \in [Symbols -> SUBSET Levels],
         outcome' \in {"running", "finished", "aborted"}
  PROVE  TypeInv'
<1>1. TypeOK'
  BY DEF TypeInv, TypeOK, RowsFit, PositionRows
<1>2. QuartersFit'
  BY DEF TypeInv, QuartersFit
<1>3. TurnsFit'
  BY DEF TypeInv, TurnsFit, Acting
<1> QED
  BY <1>1, <1>2, <1>3 DEF TypeInv

(* The rows of an empty book have their types. *)
LEMMA InitFits == Init => TypeInv
<1> SUFFICES ASSUME Init
             PROVE  TypeInv
  OBVIOUS
<1>1. session \in Sessions /\ MaxClock \in Nat /\ Stop \in Nat /\ CooldownDays \in Nat /\ FailureBars \in Nat
  BY BookAssumption DEF Init
<1>2. TypeOK
  <2>1. Never \in Times /\ Never \in Never .. MaxClock + CooldownDays
    BY <1>1 DEF Never, Times
  <2>2. /\ NoDaily \in [close : Levels \cup {Never}, weak : BOOLEAN]
        /\ NoBars \in [count : 0 .. FailureBars, weak : BOOLEAN, away : BOOLEAN]
        /\ NoTrade \in [stop : Levels \cup {Never}, price : Levels \cup {Never}]
    BY <1>1 DEF NoDaily, NoBars, NoTrade
  <2>3. /\ NoEntry \in EntryRows /\ NoReduce \in [status : Statuses, shares : Nat]
        /\ NoPosition \in [status : {"NONE", "OPEN", "CLOSED"}, shares : Nat,
                           price : Levels, trailing : Levels]
    BY <1>1, <2>1 DEF NoEntry, NoReduce, NoPosition, EntryRows, Statuses, Levels
  <2>4. signs \in [Symbols -> [life : {"none", "passivated", "confirmed"}, bottom : Times,
                    latest : {"NONE", "BOTTOM_PASSIVATION", "BOTTOM_STRUCTURE",
                              "BOTTOM_FAILED", "TOP_STRUCTURE"}, topped : BOOLEAN]]
    BY <2>1 DEF Init, NoSigns, Passivated
  <2>5. /\ clock \in 0 .. MaxClock /\ \A s \in Symbols : quarter[s].ts \in Times
    BY <1>1, <2>1 DEF Init, NoQuarter
  <2>6. "IDLE" \in TradingStates /\ "NONE" \in Statuses
    BY DEF TradingStates, Statuses
  <2> QED
    BY <2>1, <2>2, <2>3, <2>4, <2>5, <2>6 DEF Init, TypeOK
<1>3. QuartersFit
  BY DEF Init, QuartersFit
<1>4. TurnsFit
  BY <1>1, SessionAssumption DEF Init, TurnsFit, Acting
<1>5. TradesFit
  BY DEF Init, TradesFit
<1> QED
  BY <1>2, <1>3, <1>4, <1>5 DEF TypeInv

(* The clock moves within its bound. *)
LEMMA TickFits ==
  ASSUME TypeInv, Tick
  PROVE  TypeInv'
<1>1. clock \in 0 .. MaxClock /\ session.bars \in 0 .. MaxClock /\ session.traded \subseteq Symbols
  BY SessionAssumption DEF TypeInv, TypeOK, TurnsFit
<1>2. clock' = clock + 1 /\ clock < session.bars /\ clock' \in 0 .. MaxClock /\ clock' <= session'.bars
  BY <1>1, BookAssumption DEF Tick
<1>3. market' \in TradeableMarkets \cup {"RISK_OFF"}
  BY DEF Tick, Market, TradeableMarkets, TypeInv, TypeOK
<1>4. TypeOK'
  BY <1>1, <1>2, <1>3 DEF Tick, rows, replayed, TypeInv, TypeOK
<1>5. QuartersFit'
  BY DEF Tick, TypeInv, QuartersFit
<1>6. phase = "bars" /\ phase' = "bars"
  BY DEF Tick, TypeInv, TurnsFit
<1> QED
  BY <1>1, <1>2, <1>4, <1>5, <1>6 DEF Tick, replayed, TypeInv, TurnsFit, TradesFit, Acting

(* Daily and hourly bars give candles and structure events of their types. *)
LEMMA ArriveLongFits ==
  ASSUME TypeInv, NEW s \in Symbols, ArriveLong(s)
  PROVE  /\ daily' \in [Symbols -> [close : Levels \cup {Never}, weak : BOOLEAN]]
         /\ below' \in [Symbols -> BOOLEAN]
         /\ signs' \in [Symbols -> [life : {"none", "passivated", "confirmed"}, bottom : Times,
                            latest : {"NONE", "BOTTOM_PASSIVATION", "BOTTOM_STRUCTURE",
                                      "BOTTOM_FAILED", "TOP_STRUCTURE"}, topped : BOOLEAN]]
<1>1. TypeOK /\ clock \in 0 .. MaxClock
  BY DEF TypeInv, TypeOK
<1>2. daily' \in [Symbols -> [close : Levels \cup {Never}, weak : BOOLEAN]]
  <2>1. CASE UNCHANGED daily
    BY <1>1, <2>1 DEF TypeOK
  <2>2. ASSUME NEW bar \in Dailies[s], daily' = [daily EXCEPT ![s] = bar]
        PROVE  daily' \in [Symbols -> [close : Levels \cup {Never}, weak : BOOLEAN]]
    <3>1. bar \in [close : Nat, weak : BOOLEAN]
      BY BarAssumption
    <3>2. bar \in [close : Levels \cup {Never}, weak : BOOLEAN]
      BY <3>1 DEF Levels
    <3> QED
      BY <1>1, <2>2, <3>2 DEF TypeOK
  <2> QED
    BY <2>1, <2>2 DEF ArriveLong
<1>3. below' \in [Symbols -> BOOLEAN]
  BY <1>1, BarAssumption DEF ArriveLong, TypeOK
<1>4. ASSUME NEW ts \in Arriving("60m"), NEW sign \in Scanned(signs[s], ts)
      PROVE  sign \in [life : {"none", "passivated", "confirmed"}, bottom : Times,
                       latest : {"NONE", "BOTTOM_PASSIVATION", "BOTTOM_STRUCTURE",
                                 "BOTTOM_FAILED", "TOP_STRUCTURE"}, topped : BOOLEAN]
  <2>1. ts \in Times
    BY <1>1, BookAssumption DEF Arriving, Times, Never
  <2>2. signs[s] \in [life : {"none", "passivated", "confirmed"}, bottom : Times,
                      latest : {"NONE", "BOTTOM_PASSIVATION", "BOTTOM_STRUCTURE",
                                "BOTTOM_FAILED", "TOP_STRUCTURE"}, topped : BOOLEAN]
    BY <1>1 DEF TypeOK
  <2> QED
    BY <1>4, <2>1, <2>2 DEF Scanned
<1>5. signs' \in [Symbols -> [life : {"none", "passivated", "confirmed"}, bottom : Times,
                            latest : {"NONE", "BOTTOM_PASSIVATION", "BOTTOM_STRUCTURE",
                                      "BOTTOM_FAILED", "TOP_STRUCTURE"}, topped : BOOLEAN]]
  <2>1. CASE UNCHANGED signs
    BY <1>1, <2>1 DEF TypeOK
  <2>2. ASSUME NEW ts \in Arriving("60m"), NEW sign \in Scanned(signs[s], ts),
               signs' = [signs EXCEPT ![s] = sign]
        PROVE  signs' \in [Symbols -> [life : {"none", "passivated", "confirmed"}, bottom : Times,
                             latest : {"NONE", "BOTTOM_PASSIVATION", "BOTTOM_STRUCTURE",
                                       "BOTTOM_FAILED", "TOP_STRUCTURE"}, topped : BOOLEAN]]
    BY <1>1, <1>4, <2>2 DEF TypeOK
  <2> QED
    BY <2>1, <2>2 DEF ArriveLong
<1> QED
  BY <1>2, <1>3, <1>5

(* A quarter that arrives has just closed, and its low is not above its close. *)
LEMMA ArriveQuarterFits ==
  ASSUME TypeInv, NEW s \in Symbols, ArriveQuarter(s)
  PROVE  /\ QuartersFit'
         /\ quarter'[s] # NoQuarter /\ quarter'[s].ts + Duration["15m"] = clock
         /\ quarter'[s].bar.low <= quarter'[s].bar.close
         /\ quarter' = [quarter EXCEPT ![s] = quarter'[s]]
         /\ after' \in [Symbols -> [count : 0 .. FailureBars, weak : BOOLEAN, away : BOOLEAN]]
<1>1. PICK ts \in Arriving("15m"), bar \in Quarters[s] :
        /\ quarter' = [quarter EXCEPT ![s] = [ts |-> ts, bar |-> bar]]
        /\ after' = [after EXCEPT ![s] = Followed(s, bar)]
  BY DEF ArriveQuarter
<1>2. /\ clock \in 0 .. MaxClock /\ MaxClock \in Nat /\ FailureBars \in Nat
      /\ after \in [Symbols -> [count : 0 .. FailureBars, weak : BOOLEAN, away : BOOLEAN]]
  BY BookAssumption DEF TypeInv, TypeOK
<1>3. bar \in BarFacts /\ bar.low <= bar.close
  BY BarAssumption DEF BarFacts
<1>4. ts \in 0 .. MaxClock /\ ts + Duration["15m"] = clock
  BY <1>2 DEF Arriving, AvailableAt
<1>5. [ts |-> ts, bar |-> bar] # NoQuarter
  BY <1>2, <1>4 DEF NoQuarter, Never
<1>6. quarter'[s] = [ts |-> ts, bar |-> bar]
  BY <1>1 DEF TypeInv, QuartersFit
<1>7. Followed(s, bar) \in [count : 0 .. FailureBars, weak : BOOLEAN, away : BOOLEAN]
  BY <1>2, <1>3 DEF Followed, NoBars, BarFacts
<1> QED
  BY <1>1, <1>2, <1>3, <1>4, <1>5, <1>6, <1>7 DEF TypeInv, QuartersFit

(* The bars of a moment arrive with their types. *)
LEMMA ArriveFits ==
  ASSUME TypeInv, NEW s \in Symbols, Arrive(s)
  PROVE  TypeInv'
<1>1. /\ Turn(s, "bars") /\ ArriveLong(s)
      /\ UNCHANGED <<session, clock, market, rows, replayed>>
  BY DEF Arrive
<1>2. CASE ArriveQuarter(s) /\ IF session.mode = "replay" THEN Goes("risk") ELSE EndTurn(s)
  <2>1. \A t \in Symbols : t # s => quarter'[t] = quarter[t]
    BY <1>2, ArriveQuarterFits DEF TypeInv, QuartersFit
  <2>2. \A t \in Symbols : quarter'[t].ts \in Times
    <3>1. \A t \in Symbols : quarter'[t] \in {NoQuarter} \cup [ts : 0 .. MaxClock, bar : BarFacts]
      BY <1>2, ArriveQuarterFits DEF QuartersFit
    <3> QED
      BY <3>1, BookAssumption DEF NoQuarter, Times, Never
  <2>3. TypeOK'
    BY <1>1, <1>2, <2>2, ArriveLongFits, ArriveQuarterFits
       DEF TypeInv, TypeOK, rows, replayed, Goes, EndTurn
  <2>4. TurnsFit'
    BY <1>1, <1>2, <2>1, ArriveQuarterFits DEF TypeInv, TurnsFit, Turn, Goes, EndTurn, Acting
  <2>5. TradesFit'
    BY <1>1, <1>2, <2>1, ArriveQuarterFits DEF TypeInv, TradesFit, replayed
  <2> QED
    BY <1>2, <2>3, <2>4, <2>5, ArriveQuarterFits DEF TypeInv
<1>3. CASE UNCHANGED <<quarter, after>> /\ EndTurn(s)
  <2>1. TypeOK'
    BY <1>1, <1>3, ArriveLongFits DEF TypeInv, TypeOK, rows, replayed, EndTurn
  <2>2. TurnsFit' /\ QuartersFit' /\ TradesFit'
    BY <1>1, <1>3 DEF TypeInv, TurnsFit, QuartersFit, TradesFit, replayed, EndTurn, Acting
  <2> QED
    BY <2>1, <2>2 DEF TypeInv
<1> QED
  BY <1>2, <1>3 DEF Arrive

(* The rows are part of the type invariant. *)
LEMMA RowsOfTypes == TypeOK => RowsFit
  BY DEF TypeOK, RowsFit, PositionRows

\* Each commit of a replay's turn.
LEMMA TurnFits ==
  ASSUME TypeInv, NEW s \in Symbols,
         \/ BarRisk(s) \/ Step(s) \/ Cool(s)
         \/ SettleExit(s) \/ SettleEntry(s) \/ SettleNothing(s) \/ Abort(s)
  PROVE  TypeInv'
<1> USE DEF replayed, Goes, EndTurn
<1>1. /\ RowsFit /\ TypeOK /\ session \in Sessions /\ QuartersFit /\ TradesFit
      /\ trade \in [Symbols -> [stop : Levels \cup {Never}, price : Levels \cup {Never}]]
      /\ fills \in [Symbols -> SUBSET Levels] /\ outcome \in {"running", "finished", "aborted"}
  BY RowsOfTypes DEF TypeInv, TurnsFit, TypeOK
<1>2. ASSUME phase # "bars", UNCHANGED clock, session \in Sessions, Acting(s)
      PROVE  AsOf \in 0 .. MaxClock
  BY <1>2, ActingDay
<1>3. NoTrade \in [stop : Levels \cup {Never}, price : Levels \cup {Never}] /\ Stop \in Nat
  BY BookAssumption DEF NoTrade
<1>4. ASSUME NEW level \in Levels, Close(s, level), UNCHANGED quarter
      PROVE  /\ trade' \in [Symbols -> [stop : Levels \cup {Never}, price : Levels \cup {Never}]]
             /\ fills' \in [Symbols -> SUBSET Levels] /\ TradesFit'
             /\ outcome' = outcome
  BY <1>1, <1>3, <1>4 DEF Close, TradesFit
<1>5. CASE BarRisk(s)
  <2>1. UNCHANGED <<session, clock, market, daily, below, quarter, signs>>
    BY <1>5 DEF BarRisk, bars
  <2>2. RowsFit'
    <3>. position[s] \in PositionRows
      BY <1>1 DEF RowsFit
    <3>1. [position[s] EXCEPT !.status = "CLOSED"] \in PositionRows
      BY DEF PositionRows
    <3>2. position' \in [Symbols -> PositionRows]
      BY <1>1, <1>5, <3>1 DEF BarRisk, RowsFit
    <3> QED
      BY <1>1, <1>5, <3>2 DEF BarRisk, RowsFit, bars
  <2>3. CASE trade[s] # NoTrade /\ Close(s, trade[s].stop) /\ EndTurn(s)
    <3>1. trade[s].stop \in Levels
      BY <1>1, <1>3, <2>3 DEF TradesFit, Levels
    <3> QED
      BY <1>1, <1>4, <2>1, <2>2, <2>3, <3>1, DecisionFits
  <2>4. CASE Goes("advance") /\ UNCHANGED replayed
    BY <1>1, <1>5, <2>1, <2>2, <2>4, DecisionFits DEF BarRisk, Turn, TradesFit
  <2> QED
    BY <1>5, <2>3, <2>4 DEF BarRisk
<1>6. CASE Step(s)
  <2>1. Acting(s)
    BY <1>6 DEF Step, Turn, Acting
  <2>2. RowsFit'
    BY <1>1, <1>6, <2>1, ActingDay, AdvanceFits DEF Step
  <2> QED
    BY <1>1, <1>6, <2>2, DecisionFits DEF Step, Turn, TradesFit
<1>7. CASE Cool(s)
  <2>1. AsOf \in 0 .. MaxClock
    BY <1>7, ActingDay DEF Cool, Turn, Acting
  <2>2. RowsFit'
    BY <1>1, <1>7, <2>1, BookAssumption DEF Cool, SetReplayCooldown, RowsFit, bars, TradingStates, Never
  <2> QED
    BY <1>1, <1>7, <2>2, DecisionFits DEF Cool, bars, TradesFit
<1>8. CASE SettleExit(s)
  <2>1. RowsFit'
    BY <1>1, <1>8, ApproveExitFits DEF SettleExit, bars
  <2>2. quarter[s].bar.close \in Levels
    BY <1>1, <1>8 DEF SettleExit, TradesFit, QuartersFit, BarFacts, Levels
  <2> QED
    BY <1>1, <1>4, <1>8, <2>1, <2>2, DecisionFits DEF SettleExit, bars, Turn
<1>9. CASE SettleEntry(s)
  <2>1. RowsFit'
    BY <1>1, <1>9, ApproveEntryFits DEF SettleEntry, bars
  <2>2. entry[s].price \in Levels /\ Stop \in Levels
    BY <1>1, <1>3 DEF RowsFit, EntryRows, Levels
  <2>3. quarter[s] # NoQuarter
    BY <1>9 DEF SettleEntry, Turn, Acting, TypeInv, TurnsFit
  <2>4. /\ trade' \in [Symbols -> [stop : Levels \cup {Never}, price : Levels \cup {Never}]]
        /\ TradesFit'
    BY <1>1, <1>9, <2>2, <2>3 DEF SettleEntry, TradesFit, bars
  <2> QED
    BY <1>1, <1>9, <2>1, <2>4, DecisionFits DEF SettleEntry, bars
<1>10. CASE SettleNothing(s)
  BY <1>1, <1>10, DecisionFits DEF SettleNothing, bars, rows, RowsFit, TradesFit
<1>11. CASE Abort(s)
  BY <1>1, <1>11, DecisionFits DEF Abort, bars, rows, RowsFit, TradesFit
<1> QED
  BY <1>5, <1>6, <1>7, <1>8, <1>9, <1>10, <1>11

(* The end of the data closes the trades that are open and nothing else. *)
LEMMA FinishFits ==
  ASSUME TypeInv, Finish
  PROVE  TypeInv'
<1>1. /\ TypeOK /\ RowsFit /\ QuartersFit /\ TradesFit
      /\ fills \in [Symbols -> SUBSET Levels]
  BY RowsOfTypes DEF TypeInv, TypeOK
<1>2. NoTrade \in [stop : Levels \cup {Never}, price : Levels \cup {Never}]
  BY DEF NoTrade
<1>3. /\ trade' \in [Symbols -> [stop : Levels \cup {Never}, price : Levels \cup {Never}]]
      /\ TradesFit'
  BY <1>2 DEF Finish, TradesFit
<1>4. \A s \in Symbols : trade[s] # NoTrade => quarter[s].bar.close \in Levels
  BY <1>1 DEF TradesFit, QuartersFit, BarFacts, Levels
<1>5. fills' \in [Symbols -> SUBSET Levels]
  BY <1>1, <1>4 DEF Finish
<1>6. phase = "bars"
  BY DEF Finish, TypeInv, TurnsFit
<1>7. RowsFit' /\ todo' = todo /\ phase' = "bars"
      /\ UNCHANGED <<session, clock, market, daily, below, quarter, signs>>
  BY <1>1, <1>6 DEF Finish, bars, rows, turns, RowsFit
<1> QED
  BY <1>3, <1>5, <1>7, DecisionFits DEF Finish

(* A call on the desk writes rows of their types. *)
LEMMA DeskFits ==
  ASSUME TypeInv, NEW s \in Symbols, Desk(s)
  PROVE  TypeInv'
<1>1. RowsFit /\ TypeOK /\ session \in Sessions /\ QuartersFit /\ TradesFit
  BY RowsOfTypes DEF TypeInv, TurnsFit
<1>2. AsOf \in 0 .. MaxClock
  BY <1>1, DaysFit DEF Desk
<1>3. RowsFit'
  BY <1>1, <1>2, ApproveEntryFits, ApproveExitFits, ApproveReduceFits, DismissFits, RefreshFits,
     AdvanceFits DEF Desk, Call
<1>4. phase = "bars"
  BY DEF Desk, TypeInv, TurnsFit
<1>5. /\ UNCHANGED <<session, clock, market, daily, below, quarter, signs, todo, phase, trade, fills, outcome>>
      /\ trade \in [Symbols -> [stop : Levels \cup {Never}, price : Levels \cup {Never}]]
      /\ fills \in [Symbols -> SUBSET Levels] /\ outcome \in {"running", "finished", "aborted"}
  BY DEF Desk, turns, replayed, TypeInv, TypeOK
<1>6. TradesFit'
  BY <1>1, <1>5 DEF TradesFit
<1> QED
  BY <1>3, <1>4, <1>5, <1>6, DecisionFits

(* Every step keeps the types and how quarters and turns fit the clock. *)
LEMMA TypeInvInductive == TypeInv /\ [Next]_vars => TypeInv'
<1> SUFFICES ASSUME TypeInv, [Next]_vars
             PROVE  TypeInv'
  OBVIOUS
<1>1. session.traded \subseteq Symbols
  BY SessionAssumption DEF TypeInv, TurnsFit
<1>2. CASE UNCHANGED vars
  BY <1>2 DEF vars, bars, rows, turns, replayed, TypeInv, TypeOK, QuartersFit, TurnsFit, TradesFit, Acting
<1> QED
  BY <1>1, <1>2, TickFits, FinishFits, ArriveFits, TurnFits, DeskFits DEF Next

(* The strengthened type invariant holds in every reachable state. *)
LEMMA TypeInvHolds == Spec => []TypeInv
  BY InitFits, TypeInvInductive, PTL DEF Spec

\* The tables of the book, the turns and the trades hold values of their types
\* in every session (models.py).
THEOREM BookTypeCorrect == Spec => []TypeOK
<1>1. TypeInv => TypeOK
  BY DEF TypeInv
<1> QED
  BY <1>1, TypeInvHolds, PTL
=============================================================================
