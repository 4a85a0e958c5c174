---------------------------- MODULE ReplayProofs ----------------------------
(***************************************************************************)
(* The safety of the signal book and of its replay, in two invariants, and *)
(* the statistics of a replay.                                             *)
(*                                                                         *)
(* BookInv is about the rows of one symbol on a desk and in a replay: an   *)
(* entry that waits outlives the start of a cooldown only with a structure *)
(* that failed for good, which is why no position is opened during one,    *)
(* and what is held can always be managed, which is why nothing masks the  *)
(* hard stop.                                                              *)
(*                                                                         *)
(* ReplayInv is about a replay: between two turns no entry waits, so what  *)
(* was true when an entry was created (room for a position, a stop below   *)
(* the close) is still true when it is approved.                           *)
(*                                                                         *)
(* The statistics are the loop over the trades, as an invariant of its     *)
(* turns, and the median, by the ranks of the results.                     *)
(***************************************************************************)
EXTENDS ReplayTypeProofs, FirstPlaces

Waiting(s) == entry[s].status = "PENDING"

\* A bottom is confirmed by an hour that has ended, for a symbol whose bars are
\* still to come by an earlier one; what failed last is not confirmed.
BottomsHaveEnded ==
  \A s \in Symbols :
    /\ signs[s].latest = "BOTTOM_FAILED" => signs[s].life = "none"
    /\ signs[s].bottom # Never => signs[s].bottom + Duration["60m"] <= clock
    /\ signs[s].bottom # Never /\ s \in todo /\ ~Acting(s) =>
         signs[s].bottom + Duration["60m"] < clock

\* The rows of one symbol: the structure of its entry is no later than its latest
\* bottom, an entry that waits has no cooldown before it or a failed structure,
\* what is held does not cool and is asked nothing else, and the state tells it.
RowFits(s) ==
  /\ entry[s].structure <= signs[s].bottom
  /\ Waiting(s) => daily[s] # NoDaily /\ (cooldown[s] < AsOf \/ StructureFailed(s))
  /\ Open(s) => daily[s] # NoDaily /\ cooldown[s] < AsOf /\ ~Waiting(s)
  /\ session.mode = "desk" => (Open(s) <=> state[s] \in HeldStates)

\* The turns of a replay.
TurnsFollow ==
  /\ outcome # "running" => todo = {} /\ session.mode = "replay"
  /\ \A s \in Symbols : Acting(s) /\ phase = "cool" => ~Open(s) /\ ~Waiting(s)

BookInv ==
  /\ BottomsHaveEnded /\ TurnsFollow /\ TradesMirrorPositions
  /\ \A s \in Symbols : RowFits(s)

\* In a replay an entry waits only from its creation to the next step.
EntriesWaitOneStep ==
  session.mode = "replay" /\ outcome = "running" =>
    \A s \in Symbols : Waiting(s) =>
      /\ Acting(s) /\ phase = "settle" /\ Correction(s) = "NONE"
      /\ Stop < quarter[s].bar.close /\ Cardinality(OpenSymbols) < MaxPositions

\* A trade that is not about to be looked at is above its stop.
TradesAreAboveStops ==
  \A s \in Symbols :
    /\ quarter[s] # NoQuarter => quarter[s].bar.low <= quarter[s].bar.close
    /\ trade[s] # NoTrade =>
         session.mode = "replay" /\ ((Acting(s) /\ phase = "risk") \/ Stop < quarter[s].bar.close)

\* A row of Position that is not open was filled.
ClosedAreFilled ==
  session.mode = "replay" =>
    \A s \in Symbols : position[s] = NoPosition \/ Open(s) \/ fills[s] # {}

CooldownsFit ==
  session.mode = "replay" =>
    \A s \in Symbols : (Acting(s) /\ phase = "cool") \/ cooldown[s] <= AsOf + CooldownDays

ReplayInv ==
  /\ EntriesWaitOneStep /\ TradesAreAboveStops /\ ClosedAreFilled /\ CooldownsFit
  /\ PositionsWithinLimit /\ LossesAreBounded /\ EntriesFollowTheirHour /\ AbortsAreSecondEntries

----------------------------------------------------------------------------
(* Turns and days *)

\* The next symbol of a turn is one of those that are still to come.
LEMMA MinIsMember ==
  ASSUME NEW T \in SUBSET Nat, T # {}
  PROVE  Min(T) \in T
<1>1. PICK m \in T : \A k \in T : <<k, m>> \notin OpToRel(<, Nat)
  BY WFMin, NatLessThanWellFounded, Zenon
<1>2. \A k \in T : ~(k < m)
  BY <1>1, Zenon DEF OpToRel
<1>3. \A k \in T : m <= k
  BY <1>2
<1> QED
  BY <1>3, Zenon DEF Min

\* A day is a number, the same while the clock stands, no less as it goes on.
LEMMA DaysMove ==
  ASSUME TypeInv
  PROVE  /\ AsOf \in Int /\ -1 <= AsOf
         /\ session.mode = "desk" => Today = AsOf
         /\ UNCHANGED <<session, clock>> => AsOf' = AsOf /\ Today' = Today
         /\ Tick => AsOf' \in Int /\ AsOf <= AsOf'
<1> DEFINE d == Duration["1d"]
           q == Duration["15m"]
<1>1. clock \in Nat /\ d \in Nat \ {0} /\ q \in Nat \ {0} /\ q <= d
  BY BookAssumption DEF TypeInv, TypeOK
<1>2. \A a \in Int, k \in Nat \ {0} : a \div k \in Int
  OBVIOUS
<1>3. \A a, b \in Int, k \in Nat \ {0} : a <= b => a \div k <= b \div k
  OBVIOUS
<1>4. \A a \in Int, k \in Nat \ {0} : -k <= a => -1 <= a \div k
  OBVIOUS
<1> HIDE DEF d, q
<1>5. AsOf = IF session.mode = "replay" THEN (clock - q) \div d ELSE clock \div d
  BY DEF AsOf, Today, d, q
<1>6. -1 <= (clock - q) \div d /\ -1 <= clock \div d
  <2>1. -d <= clock - q /\ clock - q \in Int /\ -d <= clock
    BY <1>1
  <2> QED
    BY <1>1, <1>4, <2>1
<1>7. AsOf \in Int /\ -1 <= AsOf
  BY <1>1, <1>2, <1>5, <1>6
<1>8. ASSUME Tick
      PROVE  AsOf' \in Int /\ AsOf <= AsOf'
  <2>1. clock' = clock + 1 /\ session' = session
    BY <1>8 DEF Tick
  <2>2. AsOf' = IF session'.mode = "replay" THEN (clock' - q) \div d ELSE clock' \div d
    BY DEF AsOf, Today, d, q
  <2>3. (clock - q) \div d <= (clock + 1 - q) \div d /\ clock \div d <= (clock + 1) \div d
    BY <1>1, <1>3
  <2>4. (clock + 1 - q) \div d \in Int /\ (clock + 1) \div d \in Int
    BY <1>1, <1>2
  <2>5. CASE session.mode = "replay"
    <3>1. AsOf = (clock - q) \div d /\ AsOf' = (clock + 1 - q) \div d
      BY <1>1, <1>5, <2>1, <2>2, <2>5
    <3> QED
      BY <2>3, <2>4, <3>1
  <2>6. CASE session.mode # "replay"
    <3>1. AsOf = clock \div d /\ AsOf' = (clock + 1) \div d
      BY <1>5, <2>1, <2>2, <2>6
    <3> QED
      BY <2>3, <2>4, <3>1
  <2> QED
    BY <2>5, <2>6
<1> QED
  BY <1>7, <1>8 DEF AsOf, Today

----------------------------------------------------------------------------
(* The rows of a symbol *)

\* The rows of a symbol that RowFits reads.
Kept(t) ==
  /\ entry'[t] = entry[t] /\ position'[t] = position[t] /\ state'[t] = state[t]
  /\ cooldown'[t] = cooldown[t] /\ signs'[t] = signs[t] /\ daily'[t] = daily[t]

(* What the row of a symbol claims is claimed still by a step that leaves the row alone. *)
LEMMA KeptRowFits ==
  ASSUME TypeInv, NEW t \in Symbols, RowFits(t), Kept(t), UNCHANGED <<session, clock>>
  PROVE  RowFits(t)'
<1>1. AsOf' = AsOf
  BY DaysMove
<1> QED
  BY <1>1 DEF RowFits, Kept, Waiting, Open, StructureFailed

\* A decision of advance_state_machine writes the rows of its own symbol only.
LEMMA AdvanceKeepsOthers ==
  ASSUME TypeInv, NEW s \in Symbols, Advance(s), UNCHANGED <<daily, signs>>,
         NEW t \in Symbols, t # s
  PROVE  Kept(t) /\ after'[t] = after[t]
<1>1. RowsFit /\ TypeOK /\ QuartersFit /\ session \in Sessions /\ AsOf \in Int
  BY RowsOfTypes, DaysMove DEF TypeInv, TurnsFit
<1>2. Corrects(s) \/ Idles(s) \/ Enters(s) \/ Manages(s)
  BY <1>1, AdvanceCases
<1>3. \A target : To(s, target) => state'[t] = state[t]
  BY <1>1 DEF To, RowsFit
<1>4. Cools(s) => state'[t] = state[t] /\ cooldown'[t] = cooldown[t]
  BY <1>1 DEF Cools, To, RowsFit
<1>5. CASE Corrects(s)
  BY <1>1, <1>3, <1>4, <1>5 DEF Corrects, Correct, Kept, RowsFit
<1>6. CASE Idles(s)
  BY <1>1, <1>3, <1>4, <1>6 DEF Idles, Kept
<1>7. CASE Enters(s)
  BY <1>1, <1>3, <1>7 DEF Enters, NewEntry, Kept, RowsFit
<1>8. CASE Manages(s)
  <2>1. position'[t] = position[t]
    BY <1>1, <1>8, ManageTrails DEF Manages, RowsFit
  <2>2. state'[t] = state[t]
    BY <1>3, <1>8 DEF Manages, Manage, AskExit
  <2> QED
    BY <1>8, <2>1, <2>2 DEF Manages, Manage, Kept
<1> QED
  BY <1>2, <1>5, <1>6, <1>7, <1>8

\* It neither opens nor closes a position, and keeps the rows of its symbol.
LEMMA AdvanceKeepsRow ==
  ASSUME TypeInv, NEW s \in Symbols, RowFits(s), Advance(s),
         UNCHANGED <<session, clock, daily, signs>>
  PROVE  RowFits(s)' /\ Open(s)' = Open(s) /\ (position'[s] = NoPosition <=> position[s] = NoPosition)
<1>1. RowsFit /\ TypeOK /\ QuartersFit /\ session \in Sessions /\ AsOf \in Int /\ AsOf' = AsOf
  BY RowsOfTypes, DaysMove DEF TypeInv, TurnsFit
<1>2. Corrects(s) \/ Idles(s) \/ Enters(s) \/ Manages(s)
  BY <1>1, AdvanceCases
<1>3. \A target : To(s, target) => state'[s] = target
  BY <1>1 DEF To, RowsFit
<1>4. cooldown[s] \in Int
  BY <1>1, BookAssumption DEF RowsFit, Never
<1>5. CASE Corrects(s)
  <2>1. Waiting(s) /\ Correction(s) # "PENDING"
    BY <1>5, CorrectionFits DEF Corrects, Correction, Waiting
  <2>2. entry'[s].structure = entry[s].structure /\ entry'[s].status = Correction(s)
    BY <1>1, <1>5 DEF Corrects, Correct, RowsFit, EntryRows
  <2>3. UNCHANGED position /\ ~Open(s)
    BY <1>5, <2>1 DEF Corrects, Correct, RowFits
  <2>4. state'[s] \notin HeldStates
    BY <1>3, <1>5 DEF Corrects, Correct, Cools, TargetState, HeldStates
  <2> QED
    BY <2>1, <2>2, <2>3, <2>4 DEF RowFits, Waiting, Open
<1>6. CASE Idles(s)
  <2>1. ~Open(s) /\ UNCHANGED <<position, entry>>
    BY <1>1, <1>4, <1>6 DEF Idles, RowFits
  <2>2. Waiting(s) => cooldown' = cooldown
    BY <1>6 DEF Idles, Waiting
  <2>3. state'[s] \notin HeldStates
    BY <1>3, <1>6 DEF Idles, Cools, HeldStates
  <2> QED
    BY <1>1, <2>1, <2>2, <2>3 DEF RowFits, Waiting, Open, StructureFailed
<1>7. CASE Enters(s)
  <2>1. PICK row \in EntryRows : NewEntry(s, row)
    BY <1>7 DEF Enters
  <2>2. entry'[s] = row /\ row.structure = signs[s].bottom /\ signs[s].bottom \in Int
    BY <1>1, <2>1, BookAssumption DEF NewEntry, RowsFit, TypeOK, Times, Never
  <2>3. state'[s] \notin HeldStates
    BY <1>3, <1>7 DEF Enters, HeldStates
  <2> QED
    BY <1>1, <1>7, <2>2, <2>3 DEF Enters, RowFits, Open, Waiting
<1>8. CASE Manages(s)
  <2>1. PICK level \in Nat : position' = [position EXCEPT ![s].trailing = level]
    BY <1>1, <1>8, ManageTrails DEF Manages
  <2>2. position'[s].status = "OPEN" /\ position[s].status = "OPEN"
    BY <1>1, <1>8, <2>1 DEF Manages, Open, RowsFit, PositionRows
  <2>3. state'[s] \in HeldStates
    BY <1>3, <1>8 DEF Manages, Manage, AskExit, HeldStates
  <2>4. UNCHANGED <<cooldown, entry>>
    BY <1>8 DEF Manages, Manage
  <2>5. position'[s] # NoPosition /\ position[s] # NoPosition
    BY <2>2 DEF NoPosition
  <2> QED
    BY <1>1, <2>2, <2>3, <2>4, <2>5 DEF RowFits, Open, Waiting, StructureFailed
<1> QED
  BY <1>2, <1>5, <1>6, <1>7, <1>8

\* The decisions on the signals of a symbol, and the monitor's refresh of it.
Decides(s) ==
  \/ ApproveEntry(s) \/ ApproveTooLate(s) \/ ApproveReduce(s) \/ ApproveExit(s)
  \/ \E kind \in Kinds : Reject(s, kind)
  \/ Refresh(s)

\* What they do to the state and the cooldown.
LEMMA CooledDownRow ==
  ASSUME RowsFit, NEW s \in Symbols, CooledDown(s)
  PROVE  /\ state'[s] = "COOLDOWN" /\ cooldown'[s] = Today + CooldownDays
         /\ \A t \in Symbols : t # s => state'[t] = state[t] /\ cooldown'[t] = cooldown[t]
  BY DEF CooledDown, RowsFit

\* What they do to the latest ENTRY.
LEMMA DecidedEntry ==
  ASSUME RowsFit, NEW s \in Symbols, NEW kind, NEW decision, Decide(s, kind, decision)
  PROVE  /\ entry'[s].structure = entry[s].structure
         /\ entry'[s].status = IF kind = "ENTRY" THEN decision ELSE entry[s].status
         /\ \A t \in Symbols : t # s => entry'[t] = entry[t]
  BY DEF Decide, RowsFit, EntryRows

(* advance_symbol, an approval or a rejection writes rows of its own symbol only. *)
LEMMA DecisionKeepsOthers ==
  ASSUME TypeInv, NEW s \in Symbols, Decides(s), UNCHANGED <<daily, signs>>,
         NEW t \in Symbols, t # s
  PROVE  Kept(t)
<1>1. RowsFit
  BY RowsOfTypes DEF TypeInv
<1>2. CASE ApproveEntry(s)
  BY <1>1, <1>2, DecidedEntry DEF ApproveEntry, Kept, RowsFit
<1>3. CASE ApproveTooLate(s)
  BY <1>1, <1>3, DecidedEntry DEF ApproveTooLate, Kept
<1>4. CASE ApproveReduce(s)
  <2>1. entry'[t] = entry[t]
    BY <1>1, <1>4, DecidedEntry DEF ApproveReduce
  <2>2. position'[t] = position[t]
    BY <1>1, <1>4 DEF ApproveReduce, RowsFit
  <2>3. state'[t] = state[t] /\ cooldown'[t] = cooldown[t]
    <3>1. \/ CooledDown(s)
          \/ state' = [state EXCEPT ![s] = "IN_POSITION"] /\ UNCHANGED cooldown
          \/ UNCHANGED <<state, cooldown>>
      BY <1>4 DEF ApproveReduce
    <3> QED
      BY <1>1, <3>1, CooledDownRow DEF RowsFit
  <2> QED
    BY <2>1, <2>2, <2>3 DEF Kept
<1>5. CASE ApproveExit(s)
  <2>1. entry'[t] = entry[t]
    BY <1>1, <1>5, DecidedEntry DEF ApproveExit
  <2>2. position'[t] = position[t] /\ state'[t] = state[t] /\ cooldown'[t] = cooldown[t]
    BY <1>1, <1>5, CooledDownRow DEF ApproveExit, RowsFit
  <2> QED
    BY <2>1, <2>2 DEF Kept
<1>6. ASSUME NEW kind \in Kinds, Reject(s, kind)
      PROVE  Kept(t)
  BY <1>1, <1>6, DecidedEntry DEF Reject, Kept
<1>7. CASE Refresh(s)
  <2>1. state'[t] = state[t] /\ cooldown'[t] = cooldown[t]
    BY <1>1, <1>7, CooledDownRow DEF Refresh, RowsFit
  <2> QED
    BY <1>7, <2>1 DEF Refresh, Kept
<1> QED
  BY <1>2, <1>3, <1>4, <1>5, <1>6, <1>7 DEF Decides

\* An approved exit leaves nothing held.
LEMMA ExitedRow ==
  ASSUME RowsFit, NEW s \in Symbols, ApproveExit(s)
  PROVE  /\ ~Open(s)' /\ entry'[s] = entry[s]
         /\ IF Open(s) THEN CooledDown(s) ELSE UNCHANGED <<state, cooldown, position>>
<1>1. ~Open(s)'
  BY DEF ApproveExit, RowsFit, PositionRows, Open
<1> QED
  BY <1>1 DEF ApproveExit, Decide

\* The only decision that opens a position approves an entry of a symbol that does
\* not cool: what cools since the entry was created has lost its structure.
LEMMA ApprovedEntryIsWarm ==
  ASSUME NEW s \in Symbols, RowFits(s), ApproveEntry(s)
  PROVE  daily[s] # NoDaily /\ cooldown[s] < AsOf /\ ~Open(s)
<1>1. Waiting(s) /\ ~StructureFailed(s) /\ position[s] = NoPosition
  BY DEF ApproveEntry, Waiting, Correction
<1> QED
  BY <1>1 DEF RowFits, Open, NoPosition

(* The decisions of state_machine.py, approvals.py and corrections.py leave their symbol's
   row consistent, unless a failed bottom is still called alive. *)
LEMMA DecisionKeepsRow ==
  ASSUME TypeInv, NEW s \in Symbols, RowFits(s), Decides(s),
         signs[s].latest = "BOTTOM_FAILED" => signs[s].life = "none",
         UNCHANGED <<session, clock, daily, signs>>
  PROVE  RowFits(s)'
<1>1. RowsFit /\ AsOf' = AsOf
  BY RowsOfTypes, DaysMove DEF TypeInv
<1>2. CASE ApproveEntry(s)
  <2>1. entry'[s].structure = entry[s].structure /\ entry'[s].status = "APPROVED"
    BY <1>1, <1>2, DecidedEntry DEF ApproveEntry
  <2>2. state'[s] = "IN_POSITION" /\ position'[s].status = "OPEN" /\ UNCHANGED cooldown
    BY <1>1, <1>2 DEF ApproveEntry, RowsFit
  <2> QED
    BY <1>1, <1>2, <2>1, <2>2, ApprovedEntryIsWarm DEF RowFits, Waiting, Open, HeldStates
<1>3. ASSUME entry'[s].structure = entry[s].structure,
             entry'[s].status = entry[s].status \/ entry'[s].status # "PENDING",
             UNCHANGED <<state, cooldown, position>>
      PROVE  RowFits(s)'
  BY <1>1, <1>3 DEF RowFits, Waiting, Open, StructureFailed
<1>4. CASE ApproveTooLate(s)
  BY <1>1, <1>3, <1>4, DecidedEntry, CorrectionFits DEF ApproveTooLate
<1>5. ASSUME NEW kind \in Kinds, Reject(s, kind)
      PROVE  RowFits(s)'
  BY <1>1, <1>3, <1>5, DecidedEntry DEF Reject
<1>6. ASSUME entry'[s].structure = entry[s].structure, entry'[s].status = entry[s].status,
             CooledDown(s), ~Open(s)', Open(s) \/ StructureFailed(s)
      PROVE  RowFits(s)'
  <2>1. ~Waiting(s) \/ StructureFailed(s)
    BY <1>6 DEF RowFits
  <2>2. state'[s] = "COOLDOWN"
    BY <1>1, <1>6, CooledDownRow
  <2> QED
    BY <1>1, <1>6, <2>1, <2>2 DEF RowFits, Waiting, Open, StructureFailed, HeldStates
<1>7. CASE ApproveReduce(s)
  <2>1. entry'[s].structure = entry[s].structure /\ entry'[s].status = entry[s].status
    BY <1>1, <1>7, DecidedEntry DEF ApproveReduce
  <2>2. CASE ~Open(s)
    BY <1>3, <1>7, <2>1, <2>2 DEF ApproveReduce
  <2>3. CASE Open(s)
    <3> DEFINE kept == Max({0, position[s].shares - reduce[s].shares})
               row == [position[s] EXCEPT !.shares = kept,
                                          !.status = IF kept = 0 THEN "CLOSED" ELSE "OPEN"]
    <3>1. position' = [position EXCEPT ![s] = row]
      BY <1>7, <2>3 DEF ApproveReduce
    <3>2. row.status = IF kept = 0 THEN "CLOSED" ELSE "OPEN"
      BY <1>1 DEF RowsFit, PositionRows
    <3>3. position'[s].status = IF kept = 0 THEN "CLOSED" ELSE "OPEN"
      <4> HIDE DEF row
      <4> QED
        BY <1>1, <3>1, <3>2 DEF RowsFit
    <3>4. CASE kept = 0
      <4>1. CooledDown(s) /\ ~Open(s)'
        BY <1>7, <2>3, <3>3, <3>4 DEF ApproveReduce, Open
      <4> QED
        BY <1>6, <2>1, <2>3, <4>1
    <3>5. CASE kept # 0
      <4>1. state'[s] = "IN_POSITION" /\ UNCHANGED cooldown
        BY <1>1, <1>7, <2>3, <3>5 DEF ApproveReduce, RowsFit
      <4>2. position'[s].status = "OPEN"
        BY <3>3, <3>5
      <4> QED
        BY <1>1, <2>1, <2>3, <4>1, <4>2 DEF RowFits, Waiting, Open, HeldStates
    <3> QED
      BY <3>4, <3>5
  <2> QED
    BY <2>2, <2>3
<1>8. CASE ApproveExit(s)
  BY <1>1, <1>3, <1>6, <1>8, ExitedRow
<1>9. CASE Refresh(s)
  <2>1. UNCHANGED <<entry, position>>
    BY <1>9 DEF Refresh
  <2>2. CASE Open(s)
    <3>1. state'[s] \in HeldStates /\ UNCHANGED cooldown
      BY <1>1, <1>9, <2>2 DEF Refresh, RowsFit, HeldStates
    <3> QED
      BY <1>1, <2>1, <2>2, <3>1 DEF RowFits, Waiting, Open, StructureFailed
  <2>3. CASE ~Open(s) /\ signs[s].latest = "BOTTOM_FAILED"
    <3>1. StructureFailed(s) /\ CooledDown(s)
      BY <1>9, <2>3 DEF Refresh, StructureFailed
    <3> QED
      BY <1>6, <2>1, <2>3, <3>1 DEF Open
  <2>4. CASE ~Open(s) /\ signs[s].latest # "BOTTOM_FAILED"
    <3>1. state'[s] \notin HeldStates /\ UNCHANGED cooldown
      BY <1>1, <1>9, <2>4 DEF Refresh, RowsFit, HeldStates
    <3> QED
      BY <1>1, <2>1, <2>4, <3>1 DEF RowFits, Waiting, Open, StructureFailed
  <2> QED
    BY <2>2, <2>3, <2>4
<1> QED
  BY <1>2, <1>4, <1>5, <1>7, <1>8, <1>9 DEF Decides

----------------------------------------------------------------------------
(* BookInv is inductive *)

(* An empty book: no position, no signal, no cooldown. *)
LEMMA InitBook == Init => BookInv
<1> SUFFICES ASSUME Init
             PROVE  BookInv
  OBVIOUS
<1>1. BottomsHaveEnded
  BY DEF Init, BottomsHaveEnded, NoSigns, Passivated
<1>2. TurnsFollow /\ TradesMirrorPositions
  BY DEF Init, TurnsFollow, Acting, TradesMirrorPositions, Open, NoPosition
<1>3. ASSUME NEW s \in Symbols
      PROVE  RowFits(s)
  <2>1. entry[s] = NoEntry /\ signs[s].bottom = Never /\ position[s] = NoPosition /\ state[s] = "IDLE"
    BY DEF Init, NoSigns, Passivated
  <2> QED
    BY <2>1 DEF RowFits, Waiting, Open, NoEntry, NoPosition, HeldStates, Never
<1> QED
  BY <1>1, <1>2, <1>3 DEF BookInv

(* The clock alone makes no row older than what it claims. *)
LEMMA TickKeepsBook ==
  ASSUME TypeInv, BookInv, Tick
  PROVE  BookInv'
<1>1. clock' = clock + 1 /\ UNCHANGED <<session, daily, signs, rows, phase, trade, outcome>>
  BY DEF Tick, replayed
<1>2. phase = "bars"
  BY DEF Tick, TypeInv, TurnsFit
<1>3. clock \in Nat /\ Duration["60m"] \in Nat
  BY BookAssumption DEF TypeInv, TypeOK
<1>4. \A s \in Symbols : signs[s].bottom \in Int
  BY BookAssumption DEF TypeInv, TypeOK, Times, Never
<1>5. BottomsHaveEnded'
  BY <1>1, <1>3, <1>4 DEF BookInv, BottomsHaveEnded
<1>6. TurnsFollow'
  BY <1>1, <1>2 DEF Tick, BookInv, TurnsFollow, Acting
<1>7. TradesMirrorPositions'
  BY <1>1 DEF BookInv, TradesMirrorPositions, Open, rows
<1>8. AsOf \in Int /\ AsOf' \in Int /\ AsOf <= AsOf'
  BY DaysMove
<1>9. ASSUME NEW s \in Symbols
      PROVE  RowFits(s)'
  <2>1. cooldown[s] \in Int
    BY BookAssumption DEF TypeInv, TypeOK, Never
  <2>2. cooldown[s] < AsOf => cooldown[s] < AsOf'
    BY <1>8, <2>1
  <2>3. RowFits(s)
    BY DEF BookInv
  <2> QED
    BY <1>1, <2>2, <2>3 DEF RowFits, Waiting, Open, StructureFailed, rows
<1> QED
  BY <1>5, <1>6, <1>7, <1>9 DEF BookInv

\* A scan looks at the hour that ends: it confirms no bottom that was confirmed
\* before, and what it fails is not confirmed.
LEMMA ScannedFits ==
  ASSUME TypeInv, BottomsHaveEnded, NEW s \in Symbols, NEW ts \in Arriving("60m"),
         NEW sign \in Scanned(signs[s], ts)
  PROVE  /\ sign.latest = "BOTTOM_FAILED" => sign.life = "none"
         /\ \/ sign.bottom = signs[s].bottom /\ (sign.life = "confirmed" => signs[s].life = "confirmed")
            \/ sign.bottom = ts /\ ts + Duration["60m"] = clock /\ ts \in Nat
<1> DEFINE sg == signs[s]
<1>1. /\ sg \in [life : {"none", "passivated", "confirmed"}, bottom : Times,
                 latest : {"NONE", "BOTTOM_PASSIVATION", "BOTTOM_STRUCTURE",
                           "BOTTOM_FAILED", "TOP_STRUCTURE"}, topped : BOOLEAN]
      /\ sg.latest = "BOTTOM_FAILED" => sg.life = "none"
  BY DEF TypeInv, TypeOK, BottomsHaveEnded
<1>2. ts \in Nat /\ ts + Duration["60m"] = clock
  BY DEF Arriving, AvailableAt, TypeInv, TypeOK
<1> HIDE DEF sg
<1>3. sign \in Scanned(sg, ts)
  BY DEF sg
<1>4. \/ sign = sg
      \/ sign = [sg EXCEPT !.latest = "TOP_STRUCTURE", !.topped = TRUE]
      \/ sign = [sg EXCEPT !.life = "passivated", !.latest = "BOTTOM_PASSIVATION"]
      \/ sign = [sg EXCEPT !.life = "confirmed", !.latest = "BOTTOM_STRUCTURE", !.bottom = ts]
      \/ sign = [sg EXCEPT !.life = "none", !.latest = "BOTTOM_FAILED"]
  BY <1>1, <1>3 DEF Scanned
<1>5. /\ sign.latest = "BOTTOM_FAILED" => sign.life = "none"
      /\ \/ sign.bottom = sg.bottom /\ (sign.life = "confirmed" => sg.life = "confirmed")
         \/ sign.bottom = ts
  BY <1>1, <1>4
<1> QED
  BY <1>2, <1>5 DEF sg

(* A new bar adds candles and structure events, and changes no signal. *)
LEMMA ArriveKeepsBook ==
  ASSUME TypeInv, BookInv, NEW s \in Symbols, Arrive(s)
  PROVE  BookInv'
<1>1. /\ phase = "bars" /\ todo # {} /\ s = Min(todo) /\ ArriveLong(s)
      /\ UNCHANGED <<session, clock, rows, trade, outcome>>
  BY DEF Arrive, Turn, replayed
<1>2. /\ session.traded \subseteq Symbols /\ todo \subseteq Symbols /\ Symbols \subseteq Nat
      /\ clock \in Nat /\ Duration["60m"] \in Nat
  BY BookAssumption, SessionAssumption DEF TypeInv, TurnsFit, TypeOK
<1>3. s \in todo
  BY <1>1, <1>2, MinIsMember
<1>4. \/ Goes("risk")
      \/ EndTurn(s)
  BY DEF Arrive
<1>5. \A t \in Symbols : signs[t].bottom \in Int
  BY BookAssumption DEF TypeInv, TypeOK, Times, Never
<1>6. \A t \in Symbols : t # s => signs'[t] = signs[t] /\ daily'[t] = daily[t]
  BY <1>1 DEF ArriveLong, TypeInv, TypeOK
<1>7. daily[s] # NoDaily => daily'[s] # NoDaily
  <2>1. CASE UNCHANGED daily
    BY <2>1
  <2>2. ASSUME NEW bar \in Dailies[s], daily' = [daily EXCEPT ![s] = bar]
        PROVE  daily'[s] # NoDaily
    <3>1. bar \in [close : Nat, weak : BOOLEAN]
      BY BarAssumption
    <3>2. bar # NoDaily
      BY <3>1 DEF NoDaily, Never
    <3> QED
      BY <2>2, <3>2 DEF TypeInv, TypeOK
  <2> QED
    BY <1>1, <2>1, <2>2 DEF ArriveLong
\* What is new of the symbol is a bottom of the hour that ends, later than the last.
<1>8. /\ signs'[s].latest = "BOTTOM_FAILED" => signs'[s].life = "none"
      /\ \/ /\ signs'[s].bottom = signs[s].bottom
            /\ signs'[s].life = "confirmed" => signs[s].life = "confirmed"
         \/ /\ signs'[s].bottom \in Nat /\ signs'[s].bottom + Duration["60m"] = clock
            /\ signs[s].bottom < signs'[s].bottom
  <2>1. CASE UNCHANGED signs
    BY <2>1 DEF BookInv, BottomsHaveEnded
  <2>2. ASSUME NEW ts \in Arriving("60m"), NEW sign \in Scanned(signs[s], ts),
               signs' = [signs EXCEPT ![s] = sign]
        PROVE  <1>8!1 /\ <1>8!2
    <3>1. signs'[s] = sign
      BY <2>2 DEF TypeInv, TypeOK
    <3>2. signs[s].bottom # Never => signs[s].bottom + Duration["60m"] < clock
      BY <1>1, <1>3 DEF BookInv, BottomsHaveEnded, Acting
    <3>3. ts \in Nat /\ ts + Duration["60m"] = clock => signs[s].bottom < ts
      BY <1>2, <1>5, <3>2 DEF Never
    <3> QED
      BY <3>1, <3>3, ScannedFits DEF BookInv
  <2> QED
    BY <1>1, <2>1, <2>2 DEF ArriveLong
<1>9. BottomsHaveEnded'
  <2>1. ASSUME NEW t \in Symbols
        PROVE  /\ signs'[t].latest = "BOTTOM_FAILED" => signs'[t].life = "none"
               /\ signs'[t].bottom # Never => signs'[t].bottom + Duration["60m"] <= clock
    BY <1>2, <1>5, <1>6, <1>8 DEF BookInv, BottomsHaveEnded
  <2>2. ASSUME NEW t \in Symbols, t \in todo', ~Acting(t)'
        PROVE  t # s /\ t \in todo /\ ~Acting(t)
    BY <1>1, <1>4, <2>2 DEF Goes, EndTurn, Acting
  <2>3. ASSUME NEW t \in Symbols, t \in todo', ~Acting(t)', signs'[t].bottom # Never
        PROVE  signs'[t].bottom + Duration["60m"] < clock
    BY <1>6, <2>2, <2>3 DEF BookInv, BottomsHaveEnded
  <2> QED
    BY <1>1, <2>1, <2>3 DEF BottomsHaveEnded
<1>10. TurnsFollow' /\ TradesMirrorPositions'
  <2>1. phase' # "cool" /\ outcome = "running"
    BY <1>1, <1>4 DEF Goes, EndTurn, BookInv, TurnsFollow
  <2> QED
    BY <1>1, <2>1 DEF BookInv, TurnsFollow, TradesMirrorPositions, Open, rows
<1>11. ASSUME NEW t \in Symbols
       PROVE  RowFits(t)'
  <2>1. RowFits(t) /\ AsOf' = AsOf
    BY <1>1, DaysMove DEF BookInv
  <2>2. CASE t # s
    BY <1>1, <1>6, <2>1, <2>2, KeptRowFits DEF Kept, rows
  <2>3. CASE t = s
    <3>1. entry[s].structure \in Int
      BY BookAssumption DEF TypeInv, TypeOK, EntryRows, Times, Never
    <3>2. StructureFailed(s) => StructureFailed(s)'
      BY <1>1, <1>2, <1>5, <1>8, <2>1, <2>3, <3>1 DEF StructureFailed, RowFits, rows
    <3>3. entry[s].structure <= signs'[s].bottom
      BY <1>5, <1>8, <2>1, <2>3, <3>1 DEF RowFits
    <3> QED
      BY <1>1, <1>7, <2>1, <2>3, <3>2, <3>3 DEF RowFits, Waiting, Open, rows
  <2> QED
    BY <2>2, <2>3
<1> QED
  BY <1>9, <1>10, <1>11 DEF BookInv

\* What an action of a turn keeps of the bottoms.
LEMMA TurnKeepsBottoms ==
  ASSUME BottomsHaveEnded, UNCHANGED <<clock, signs>>, todo' \subseteq todo,
         \A t \in Symbols : t \in todo' /\ ~Acting(t)' => ~Acting(t)
  PROVE  BottomsHaveEnded'
  BY DEF BottomsHaveEnded

(* The risk check of a bar writes the position's trail and, on a hard stop, its EXIT. *)
LEMMA BarRiskKeepsBook ==
  ASSUME TypeInv, BookInv, NEW s \in Symbols, BarRisk(s)
  PROVE  BookInv'
<1>1. /\ Acting(s) /\ phase = "risk" /\ todo \subseteq Symbols /\ outcome = "running"
      /\ UNCHANGED <<session, clock, signs, daily, state, cooldown, entry, outcome>>
  BY DEF BarRisk, Turn, Acting, bars, replayed, Close, TypeInv, TypeOK, BookInv, TurnsFollow
<1>2. \/ Goes("advance") /\ UNCHANGED <<position, trade>>
      \/ /\ EndTurn(s) /\ position' = [position EXCEPT ![s].status = "CLOSED"]
         /\ trade' = [trade EXCEPT ![s] = NoTrade]
  BY DEF BarRisk, Close, replayed
<1>3. BottomsHaveEnded'
  BY <1>1, <1>2, TurnKeepsBottoms DEF BookInv, Goes, EndTurn, Acting
<1>4. TurnsFollow'
  BY <1>1, <1>2 DEF TurnsFollow, Goes, EndTurn, Acting
<1>5. \A t \in Symbols : t # s => position'[t] = position[t] /\ trade'[t] = trade[t]
  BY <1>2 DEF TypeInv, TypeOK
<1>6. \/ position'[s] = position[s] /\ trade'[s] = trade[s]
      \/ ~Open(s)' /\ trade'[s] = NoTrade
  <2>1. position \in [Symbols -> PositionRows]
    BY RowsOfTypes DEF TypeInv, RowsFit
  <2>2. trade' = [trade EXCEPT ![s] = NoTrade] => trade'[s] = NoTrade
    BY DEF TypeInv, TypeOK
  <2> QED
    BY <1>2, <2>1, <2>2 DEF PositionRows, Open
<1>7. TradesMirrorPositions'
  BY <1>1, <1>5, <1>6 DEF BookInv, TradesMirrorPositions, Open
<1>8. session.mode # "desk"
  BY <1>1 DEF TypeInv, TurnsFit
<1>9. AsOf' = AsOf
  BY <1>1, DaysMove
<1>10. ASSUME NEW t \in Symbols
       PROVE  RowFits(t)'
  BY <1>1, <1>5, <1>6, <1>8, <1>9 DEF BookInv, RowFits, Waiting, Open, StructureFailed
<1> QED
  BY <1>3, <1>4, <1>7, <1>10 DEF BookInv

(* One advance_symbol of the replay is one decision of the state machine. *)
LEMMA StepKeepsBook ==
  ASSUME TypeInv, BookInv, NEW s \in Symbols, Step(s)
  PROVE  BookInv'
<1>1. /\ Acting(s) /\ phase = "advance" /\ phase' = "settle" /\ Advance(s) /\ UNCHANGED todo
      /\ UNCHANGED <<session, clock, signs, daily, trade, outcome>>
  BY DEF Step, Turn, Acting, Goes, replayed
<1>2. BottomsHaveEnded'
  BY <1>1, TurnKeepsBottoms DEF BookInv, Acting
<1>3. TurnsFollow'
  BY <1>1 DEF BookInv, TurnsFollow
<1>4. \A t \in Symbols : t # s => Kept(t)
  BY <1>1, AdvanceKeepsOthers
<1>5. RowFits(s)' /\ Open(s)' = Open(s)
  BY <1>1, AdvanceKeepsRow DEF BookInv
<1>6. TradesMirrorPositions'
  BY <1>1, <1>4, <1>5 DEF BookInv, TradesMirrorPositions, Kept, Open
<1>7. \A t \in Symbols : RowFits(t)'
  BY <1>1, <1>4, <1>5, KeptRowFits DEF BookInv
<1> QED
  BY <1>2, <1>3, <1>6, <1>7 DEF BookInv

(* The cooldown the replay writes belongs to a symbol without a position. *)
LEMMA CoolKeepsBook ==
  ASSUME TypeInv, BookInv, NEW s \in Symbols, Cool(s)
  PROVE  BookInv'
<1>1. /\ Acting(s) /\ phase = "cool" /\ EndTurn(s) /\ todo \subseteq Symbols
      /\ state' = [state EXCEPT ![s] = "COOLDOWN"]
      /\ cooldown' = [cooldown EXCEPT ![s] = AsOf + CooldownDays]
      /\ UNCHANGED <<session, clock, signs, daily, entry, position, trade, outcome>>
  BY DEF Cool, SetReplayCooldown, Turn, Acting, bars, replayed, TypeInv, TypeOK
<1>2. ~Open(s) /\ ~Waiting(s)
  BY <1>1 DEF BookInv, TurnsFollow
<1>3. BottomsHaveEnded'
  BY <1>1, TurnKeepsBottoms DEF BookInv, EndTurn, Acting
<1>4. TurnsFollow' /\ TradesMirrorPositions'
  BY <1>1 DEF BookInv, TurnsFollow, EndTurn, Acting, TradesMirrorPositions, Open
<1>5. \A t \in Symbols : t # s => Kept(t)
  BY <1>1 DEF Kept, TypeInv, TypeOK
<1>6. state'[s] \notin HeldStates
  BY <1>1 DEF HeldStates, TypeInv, TypeOK
<1>7. RowFits(s)'
  BY <1>1, <1>2, <1>6 DEF BookInv, RowFits, Waiting, Open
<1> QED
  BY <1>1, <1>3, <1>4, <1>5, <1>7, KeptRowFits DEF BookInv

(* An EXIT the replay executes closes the position together with its trade. *)
LEMMA SettleExitKeepsBook ==
  ASSUME TypeInv, BookInv, NEW s \in Symbols, SettleExit(s)
  PROVE  BookInv'
<1>1. /\ Acting(s) /\ phase = "settle" /\ phase' = "cool" /\ UNCHANGED todo
      /\ trade[s] # NoTrade /\ trade' = [trade EXCEPT ![s] = NoTrade] /\ ApproveExit(s)
      /\ UNCHANGED <<session, clock, signs, daily, outcome>>
  BY DEF SettleExit, Turn, Acting, Goes, Close, bars
<1>2. RowsFit /\ session.mode = "replay" /\ outcome = "running"
  BY <1>1, RowsOfTypes DEF TypeInv, TurnsFit, BookInv, TurnsFollow, Acting
<1>3. Open(s) /\ ~Waiting(s)
  BY <1>1, <1>2 DEF BookInv, TradesMirrorPositions, RowFits
<1>4. ~Open(s)' /\ entry'[s] = entry[s]
  BY <1>1, <1>2, ExitedRow
<1>5. \A t \in Symbols : t # s => Kept(t)
  BY <1>1, DecisionKeepsOthers DEF Decides
<1>6. RowFits(s)'
  BY <1>1, DecisionKeepsRow DEF Decides, BookInv, BottomsHaveEnded
<1>7. BottomsHaveEnded'
  BY <1>1, TurnKeepsBottoms DEF BookInv, Acting
<1>8. TurnsFollow'
  BY <1>1, <1>2, <1>3, <1>4 DEF TurnsFollow, Acting, Waiting
<1>9. TradesMirrorPositions'
  BY <1>1, <1>2, <1>4, <1>5 DEF BookInv, TradesMirrorPositions, Kept, Open, TypeInv, TypeOK
<1> QED
  BY <1>1, <1>5, <1>6, <1>7, <1>8, <1>9, KeptRowFits DEF BookInv

(* An ENTRY the replay executes opens the position together with its trade. *)
LEMMA SettleEntryKeepsBook ==
  ASSUME TypeInv, BookInv, NEW s \in Symbols, SettleEntry(s)
  PROVE  BookInv'
<1>1. /\ Acting(s) /\ phase = "settle" /\ EndTurn(s) /\ ApproveEntry(s) /\ todo \subseteq Symbols
      /\ trade' = [trade EXCEPT ![s] = [stop |-> Stop, price |-> entry[s].price]]
      /\ UNCHANGED <<session, clock, signs, daily, outcome>>
  BY DEF SettleEntry, Turn, Acting, bars, TypeInv, TypeOK
<1>2. RowsFit /\ session.mode = "replay" /\ outcome = "running"
  BY <1>1, RowsOfTypes DEF TypeInv, TurnsFit, BookInv, TurnsFollow, Acting
<1>3. \A t \in Symbols : t # s => Kept(t) /\ trade'[t] = trade[t]
  BY <1>1, DecisionKeepsOthers DEF Decides, TypeInv, TypeOK
<1>4. RowFits(s)'
  BY <1>1, DecisionKeepsRow DEF Decides, BookInv, BottomsHaveEnded
<1>5. BottomsHaveEnded' /\ TurnsFollow'
  BY <1>1, <1>2, TurnKeepsBottoms DEF BookInv, TurnsFollow, EndTurn, Acting
<1>6. Open(s)' /\ trade'[s] # NoTrade
  <2>1. trade'[s].stop = Stop
    BY <1>1 DEF TypeInv, TypeOK
  <2>2. trade'[s] # NoTrade
    BY <2>1, BookAssumption DEF NoTrade, Never
  <2> QED
    BY <1>1, <1>2, <2>2 DEF ApproveEntry, RowsFit, Open
<1>7. TradesMirrorPositions'
  BY <1>1, <1>2, <1>3, <1>6 DEF BookInv, TradesMirrorPositions, Kept, Open
<1> QED
  BY <1>1, <1>3, <1>4, <1>5, <1>7, KeptRowFits DEF BookInv

\* Steps that write no row.
LEMMA QuietKeepsBook ==
  ASSUME TypeInv, BookInv, UNCHANGED <<session, clock, signs, daily, rows>>,
         \/ \E s \in Symbols : SettleNothing(s) \/ Abort(s)
         \/ Finish
         \/ UNCHANGED vars
  PROVE  BookInv'
<1>1. BottomsHaveEnded' /\ TurnsFollow'
  <2>1. CASE \E s \in Symbols : SettleNothing(s) \/ Abort(s)
    <3>1. PICK s \in Symbols : SettleNothing(s) \/ Abort(s)
      BY <2>1
    <3>2. /\ Acting(s) /\ session.mode = "replay" /\ session' = session /\ phase' = "bars"
          /\ \/ EndTurn(s) /\ outcome' = outcome
             \/ todo' = {}
      BY <3>1 DEF SettleNothing, Abort, Turn, Acting, EndTurn, replayed, TypeInv, TurnsFit
    <3> QED
      BY <3>2, TurnKeepsBottoms DEF BookInv, TurnsFollow, EndTurn, Acting
  <2>2. CASE Finish
    BY <2>2, TurnKeepsBottoms DEF Finish, turns, BookInv, TurnsFollow, Acting, TypeInv, TurnsFit
  <2>3. CASE UNCHANGED vars
    BY <2>3 DEF vars, turns, replayed, BookInv, BottomsHaveEnded, TurnsFollow, Acting, Open, Waiting, rows
  <2> QED
    BY <2>1, <2>2, <2>3
<1>2. TradesMirrorPositions'
  <2>1. UNCHANGED <<trade, outcome>> \/ outcome' # "running"
    BY DEF SettleNothing, Abort, Finish, vars, replayed
  <2> QED
    BY <2>1 DEF BookInv, TradesMirrorPositions, Open, rows
<1>3. \A t \in Symbols : RowFits(t)'
  BY KeptRowFits DEF BookInv, Kept, rows
<1> QED
  BY <1>1, <1>2, <1>3 DEF BookInv

(* On the desk a call is one decision, whoever makes it. *)
LEMMA DeskKeepsBook ==
  ASSUME TypeInv, BookInv, NEW s \in Symbols, Desk(s)
  PROVE  BookInv'
<1>1. /\ session.mode = "desk" /\ Call(s)
      /\ UNCHANGED <<session, clock, daily, signs, todo, phase, trade, outcome>>
  BY DEF Desk, turns, replayed
<1>2. phase = "bars"
  BY <1>1 DEF TypeInv, TurnsFit
<1>3. BottomsHaveEnded' /\ TurnsFollow' /\ TradesMirrorPositions'
  BY <1>1, <1>2 DEF BookInv, BottomsHaveEnded, TurnsFollow, TradesMirrorPositions, Acting
<1>4. Advance(s) \/ Decides(s)
  BY <1>1 DEF Call, Decides
<1>5. \A t \in Symbols : t # s => Kept(t)
  BY <1>1, <1>4, AdvanceKeepsOthers, DecisionKeepsOthers
<1>6. RowFits(s)'
  BY <1>1, <1>4, AdvanceKeepsRow, DecisionKeepsRow DEF BookInv, BottomsHaveEnded
<1> QED
  BY <1>1, <1>3, <1>5, <1>6, KeptRowFits DEF BookInv

(* Every step keeps the strengthened invariant of the book. *)
LEMMA BookInvInductive == TypeInv /\ BookInv /\ [Next]_vars => BookInv'
<1> SUFFICES ASSUME TypeInv, BookInv, [Next]_vars
             PROVE  BookInv'
  OBVIOUS
<1>1. session.traded \subseteq Symbols
  BY SessionAssumption DEF TypeInv, TurnsFit
<1>2. ASSUME NEW s \in Symbols, SettleNothing(s) \/ Abort(s)
      PROVE  BookInv'
  BY <1>2, QuietKeepsBook DEF SettleNothing, Abort, bars
<1>3. CASE Finish
  BY <1>3, QuietKeepsBook DEF Finish, bars
<1>4. CASE UNCHANGED vars
  BY <1>4, QuietKeepsBook DEF vars, bars
<1> QED
  BY <1>1, <1>2, <1>3, <1>4, TickKeepsBook, ArriveKeepsBook, BarRiskKeepsBook, StepKeepsBook, CoolKeepsBook,
     SettleExitKeepsBook, SettleEntryKeepsBook, DeskKeepsBook DEF Next

(* Types and book together hold in every reachable state. *)
LEMMA BookInvHolds == Spec => [](TypeInv /\ BookInv)
<1>1. Init => TypeInv /\ BookInv
  BY InitFits, InitBook
<1>2. TypeInv /\ BookInv /\ [Next]_vars => (TypeInv /\ BookInv)'
  BY TypeInvInductive, BookInvInductive
<1> QED
  BY <1>1, <1>2, PTL DEF Spec

----------------------------------------------------------------------------
(* What follows of the book *)

\* A person is never asked to enter what is held (state_machine.py:116, 224;
\* approvals.py:17-41).
THEOREM EntriesNeverWaitOnPositions == Spec => []NoEntryWaitsOnPosition
<1>1. BookInv => NoEntryWaitsOnPosition
  BY DEF BookInv, RowFits, Waiting, NoEntryWaitsOnPosition
<1> QED
  BY <1>1, BookInvHolds, PTL

\* On a desk the state of a symbol tells whether it is held, whoever of the state
\* machine, the approvals and the monitor wrote it last (state_machine.py:30,
\* approvals.py:74-87, monitor_state.py:32).
THEOREM StatesAlwaysTellPositions == Spec => []StatesTellPositions
<1>1. BookInv => StatesTellPositions
  BY DEF BookInv, RowFits, StatesTellPositions
<1> QED
  BY <1>1, BookInvHolds, PTL

\* A replay holds a position exactly while it follows a trade (backtest.py:133-205).
THEOREM TradesAlwaysMirrorPositions == Spec => []TradesMirrorPositions
<1>1. BookInv => TradesMirrorPositions
  BY DEF BookInv
<1> QED
  BY <1>1, BookInvHolds, PTL

\* What a step may do to a Position row: approve an entry, close it, or move
\* its stop up.
LEMMA PositionMoves ==
  ASSUME TypeInv, BookInv, [Next]_vars, NEW t \in Symbols
  PROVE  \/ position'[t] = position[t]
         \/ ApproveEntry(t)
         \/ ~Open(t)'
         \/ Open(t) /\ position'[t].trailing >= position[t].trailing
<1> DEFINE Moves == \/ position'[t] = position[t]
                    \/ ApproveEntry(t)
                    \/ ~Open(t)'
                    \/ Open(t) /\ position'[t].trailing >= position[t].trailing
<1>1. /\ RowsFit /\ TypeOK /\ QuartersFit /\ session \in Sessions /\ AsOf \in Int
      /\ session.traded \subseteq Symbols /\ position[t] \in PositionRows
  BY RowsOfTypes, DaysMove, SessionAssumption DEF TypeInv, TurnsFit, RowsFit
<1>2. ASSUME NEW s \in Symbols, Advance(s)
      PROVE  Moves
  <2>1. CASE UNCHANGED position
    BY <2>1
  <2>2. CASE Manages(s)
    <3>1. PICK level \in Nat : level >= position[s].trailing
                               /\ position' = [position EXCEPT ![s].trailing = level]
      BY <1>1, <2>2, ManageTrails DEF Manages
    <3>2. CASE t = s
      <4>1. position'[t].trailing = level
        BY <1>1, <3>1, <3>2 DEF RowsFit, PositionRows
      <4> QED
        BY <2>2, <3>1, <3>2, <4>1 DEF Manages
    <3>3. CASE t # s
      BY <1>1, <3>1, <3>3 DEF RowsFit
    <3> QED
      BY <3>2, <3>3
  <2>3. Corrects(s) \/ Idles(s) \/ Enters(s) => UNCHANGED position
    BY DEF Corrects, Correct, Idles, Enters
  <2> QED
    BY <1>1, <1>2, <2>1, <2>2, <2>3, AdvanceCases
<1>3. ASSUME NEW s \in Symbols, position' = [position EXCEPT ![s].status = "CLOSED"]
      PROVE  Moves
  BY <1>1, <1>3 DEF RowsFit, PositionRows, Open
<1>4. ASSUME NEW s \in Symbols, ApproveEntry(s)
      PROVE  Moves
  BY <1>1, <1>4 DEF ApproveEntry, RowsFit
<1>5. ASSUME NEW s \in Symbols, ApproveExit(s)
      PROVE  Moves
  BY <1>3, <1>5 DEF ApproveExit
<1>6. ASSUME NEW s \in Symbols, ApproveReduce(s)
      PROVE  Moves
  <2>1. CASE UNCHANGED position
    BY <2>1
  <2>2. CASE Open(s)
    <3> DEFINE kept == Max({0, position[s].shares - reduce[s].shares})
               row == [position[s] EXCEPT !.shares = kept,
                                          !.status = IF kept = 0 THEN "CLOSED" ELSE "OPEN"]
    <3>1. position' = [position EXCEPT ![s] = row]
      BY <1>6, <2>2 DEF ApproveReduce
    <3>2. row.trailing = position[s].trailing
      BY <1>1 DEF RowsFit, PositionRows
    <3> HIDE DEF row
    <3>3. CASE t = s
      <4>1. position'[t].trailing = position[t].trailing
        BY <1>1, <3>1, <3>2, <3>3 DEF RowsFit
      <4> QED
        BY <1>1, <2>2, <3>3, <4>1 DEF PositionRows, Levels
    <3>4. CASE t # s
      BY <1>1, <3>1, <3>4 DEF RowsFit
    <3> QED
      BY <3>3, <3>4
  <2> QED
    BY <1>6, <2>1, <2>2 DEF ApproveReduce
<1>7. ASSUME NEW s \in Symbols,
             \/ Arrive(s) \/ Cool(s) \/ SettleNothing(s) \/ Abort(s)
             \/ ApproveTooLate(s) \/ Refresh(s) \/ \E kind \in Kinds : Reject(s, kind)
      PROVE  Moves
  BY <1>7 DEF Arrive, Cool, SettleNothing, Abort, ApproveTooLate, Refresh, Reject, rows
<1>8. ASSUME NEW s \in Symbols, BarRisk(s)
      PROVE  Moves
  BY <1>3, <1>8 DEF BarRisk
<1>9. CASE Tick \/ Finish \/ UNCHANGED vars
  BY <1>9 DEF Tick, Finish, vars, rows
<1> QED
  BY <1>1, <1>2, <1>4, <1>5, <1>6, <1>7, <1>8, <1>9 DEF Next, Step, SettleExit, SettleEntry, Desk, Call

\* No position is opened during a cooldown (docs/state_machine.md:19), though
\* approve_signal does not ask for it (approvals.py:28, monitor_state.py:40).
THEOREM NoPositionDuringCooldown == Spec => NoEntryDuringCooldown
<1>1. ASSUME TypeInv, BookInv, [Next]_vars
      PROVE  \A s \in Symbols : ~Open(s) /\ Open(s)' => cooldown[s] < AsOf
  <2> SUFFICES ASSUME NEW s \in Symbols, ~Open(s), Open(s)'
               PROVE  cooldown[s] < AsOf
    OBVIOUS
  <2>1. ApproveEntry(s)
    BY <1>1, PositionMoves DEF Open
  <2> QED
    BY <1>1, <2>1, ApprovedEntryIsWarm DEF BookInv
<1> QED
  BY <1>1, BookInvHolds, PTL DEF NoEntryDuringCooldown, Spec

\* While a position is open its trailing stop is not widened (docs/risk.md:13;
\* state_machine.py:333-335, 361-370).
THEOREM StopsNeverWiden == Spec => StopsOnlyTighten
<1>1. ASSUME TypeInv, BookInv, [Next]_vars
      PROVE  \A s \in Symbols :
               Open(s) /\ Open(s)' => position'[s].trailing >= position[s].trailing
  <2> SUFFICES ASSUME NEW s \in Symbols, Open(s), Open(s)'
               PROVE  position'[s].trailing >= position[s].trailing
    OBVIOUS
  <2>1. position[s].trailing \in Nat
    BY <1>1, RowsOfTypes DEF TypeInv, RowsFit, PositionRows, Levels
  <2>2. ApproveEntry(s) => ~Open(s)
    BY DEF ApproveEntry, Open, NoPosition
  <2> QED
    BY <1>1, <2>1, <2>2, PositionMoves
<1> QED
  BY <1>1, BookInvHolds, PTL DEF StopsOnlyTighten, Spec

\* Nothing comes before the hard stop (docs/risk.md:13; state_machine.py:91-120):
\* what is held has a daily bar, no cooldown and no entry to correct, so an
\* advance manages it.
THEOREM HardStopNeverMasked == Spec => HardStopIsNeverMasked
<1>1. ASSUME TypeInv, BookInv
      PROVE  \A s \in Symbols :
               Open(s) /\ daily[s].close \in 0 .. Stop /\ Advance(s) => exit'[s] = "PENDING"
  <2> SUFFICES ASSUME NEW s \in Symbols, Open(s), daily[s].close \in 0 .. Stop, Advance(s)
               PROVE  exit'[s] = "PENDING"
    OBVIOUS
  <2>1. /\ RowsFit /\ TypeOK /\ QuartersFit /\ session \in Sessions /\ AsOf \in Int
        /\ cooldown[s] \in Int
    BY <1>1, RowsOfTypes, DaysMove, BookAssumption DEF TypeInv, TurnsFit, RowsFit, Never
  <2>2. cooldown[s] < AsOf /\ daily[s] # NoDaily /\ ~Waiting(s)
    BY <1>1 DEF BookInv, RowFits
  <2>3. ~Corrects(s) /\ ~Enters(s) /\ ~Idles(s)
    BY <2>1, <2>2 DEF Corrects, Correction, Waiting, Enters, Idles
  <2>4. Manage(s) /\ Verdict(s) = "exit"
    BY <2>1, <2>3, AdvanceCases, BookAssumption DEF Manages, Verdict
  <2>5. exit' = [exit EXCEPT ![s] = "PENDING"]
    BY <2>4 DEF Manage, AskExit
  <2> QED
    BY <2>1, <2>5 DEF RowsFit
<1> QED
  BY <1>1, BookInvHolds, PTL DEF HardStopIsNeverMasked

----------------------------------------------------------------------------
(* The turns of a replay *)

(* A replay starts without trades, signals or cooldowns. *)
LEMMA InitReplay == Init => ReplayInv
<1> SUFFICES ASSUME Init
             PROVE  ReplayInv
  OBVIOUS
<1>1. EntriesWaitOneStep /\ TradesAreAboveStops /\ ClosedAreFilled
  BY DEF Init, EntriesWaitOneStep, TradesAreAboveStops, ClosedAreFilled, Waiting, NoEntry
<1>2. CooldownsFit
  BY InitFits, DaysMove, BookAssumption DEF Init, CooldownsFit, Never
<1>3. PositionsWithinLimit
  <2>1. OpenSymbols = {}
    BY DEF Init, OpenSymbols, Open, NoPosition
  <2> QED
    BY <2>1, FS_EmptySet, BookAssumption DEF PositionsWithinLimit
<1>4. LossesAreBounded /\ EntriesFollowTheirHour /\ AbortsAreSecondEntries
  BY DEF Init, LossesAreBounded, EntriesFollowTheirHour, AbortsAreSecondEntries
<1> QED
  BY <1>1, <1>2, <1>3, <1>4 DEF ReplayInv

\* What a replay is once it has ended.
LEMMA EndedStays ==
  ASSUME TypeInv, BookInv, [Next]_vars, outcome # "running"
  PROVE  UNCHANGED vars
<1>1. todo = {} /\ session.mode = "replay"
  BY DEF BookInv, TurnsFollow
<1> QED
  BY <1>1 DEF Next, Tick, Finish, Arrive, BarRisk, Step, Cool, SettleExit, SettleEntry, SettleNothing, Abort,
       Desk, Turn

\* A turn is one of a replay that runs, and its symbol has the bar that ends now.
LEMMA TurnFacts ==
  ASSUME TypeInv, BookInv, NEW s \in Symbols, NEW p, Turn(s, p), p # "bars"
  PROVE  /\ Acting(s) /\ phase = p /\ session.mode = "replay" /\ outcome = "running"
         /\ \A t \in Symbols : t # s => ~Acting(t)
         /\ quarter[s] # NoQuarter /\ quarter[s].ts + Duration["15m"] = clock
         /\ quarter[s].bar.close \in Nat /\ quarter[s].bar.low \in Nat
         /\ trade[s] # NoTrade <=> Open(s)
         /\ trade[s] # NoTrade => (~Waiting(s) /\ trade[s].stop = Stop)
<1>1. Acting(s) /\ phase = p /\ outcome = "running" /\ session.mode = "replay"
  BY DEF Turn, Acting, TypeInv, TurnsFit, BookInv, TurnsFollow
<1>2. quarter[s] # NoQuarter /\ quarter[s].ts + Duration["15m"] = clock
  BY <1>1 DEF TypeInv, TurnsFit
<1>3. quarter[s].bar.close \in Nat /\ quarter[s].bar.low \in Nat
  BY <1>2 DEF TypeInv, QuartersFit, BarFacts
<1>4. /\ trade[s] # NoTrade <=> Open(s)
      /\ trade[s] # NoTrade => ~Waiting(s) /\ trade[s].stop = Stop
  BY <1>1 DEF BookInv, TradesMirrorPositions, RowFits, TypeInv, TradesFit
<1> QED
  BY <1>1, <1>2, <1>3, <1>4 DEF Acting

\* What an entry is in the step that creates it: still valid, for nothing the
\* correction looks at has had time to change.
LEMMA NewEntryIsValid ==
  ASSUME TypeInv, BookInv, NEW s \in Symbols, Step(s), Enters(s)
  PROVE  /\ Correction(s)' = "NONE" /\ UNCHANGED OpenSymbols
         /\ Stop < quarter[s].bar.close /\ Cardinality(OpenSymbols) < MaxPositions
         /\ entry'[s].at + Duration["15m"] >= entry'[s].structure + Duration["60m"]
<1>1. RowsFit /\ UNCHANGED <<market, signs, position, quarter>>
  BY RowsOfTypes DEF TypeInv, Step, Enters
<1>2. PICK row \in EntryRows : NewEntry(s, row)
  BY DEF Enters
<1>3. /\ entry'[s] = row /\ after'[s] = NoBars
      /\ row.status = "PENDING" /\ row.structure = signs[s].bottom /\ row.at = quarter[s].ts
  BY <1>1, <1>2 DEF NewEntry, RowsFit
<1>4. ~StructureFailed(s)' /\ ~TriggerFailed(s)'
  BY <1>1, <1>3 DEF Enters, StructureFailed, TriggerFailed, NoBars
<1>5. ~(after'[s].count >= ExpiryBars) /\ market' \in TradeableMarkets
  BY <1>1, <1>3, BookAssumption DEF Enters, NoBars
<1>6. Correction(s)' = "NONE"
  BY <1>4, <1>5 DEF Correction
<1>7. UNCHANGED OpenSymbols
  BY <1>1 DEF OpenSymbols, Open
<1>8. signs[s].bottom + Duration["60m"] <= clock /\ quarter[s].ts + Duration["15m"] = clock
  BY TurnFacts DEF Step, Enters, BookInv, BottomsHaveEnded
<1> QED
  BY <1>2, <1>3, <1>6, <1>7, <1>8, BookAssumption DEF NewEntry, PortfolioAllows, TypeInv, TypeOK

\* Which entries wait after a turn.
LEMMA WaitingNext ==
  ASSUME TypeInv, BookInv, EntriesWaitOneStep, session.mode = "replay", outcome = "running",
         [Next]_vars, outcome' = "running", NEW t \in Symbols, Waiting(t)'
  PROVE  \/ Step(t) /\ Enters(t)
         \/ UNCHANGED vars
<1>1. \A s \in Symbols : Waiting(s) => Acting(s) /\ phase = "settle"
  BY DEF EntriesWaitOneStep
<1>2. /\ RowsFit /\ TypeOK /\ QuartersFit /\ session \in Sessions /\ AsOf \in Int
      /\ session.traded \subseteq Symbols
  BY RowsOfTypes, DaysMove, SessionAssumption DEF TypeInv, TurnsFit
<1>3. CASE Tick \/ Finish
  BY <1>1, <1>3 DEF Tick, Finish, rows, Waiting, Acting
<1>4. ASSUME NEW s \in Symbols, Arrive(s) \/ BarRisk(s) \/ Cool(s)
      PROVE  FALSE
  BY <1>1, <1>4 DEF Arrive, BarRisk, Cool, Turn, rows, Waiting
<1>5. ASSUME NEW s \in Symbols, Step(s)
      PROVE  Step(t) /\ Enters(t)
  <2>1. \A u \in Symbols : ~Waiting(u)
    BY <1>1, <1>5 DEF Step, Turn
  <2>2. Corrects(s) \/ Idles(s) \/ Enters(s) \/ Manages(s)
    BY <1>2, <1>5, AdvanceCases DEF Step
  <2>3. ~Corrects(s)
    BY <2>1 DEF Corrects, Correction, Waiting
  <2>4. Enters(s)
    BY <2>1, <2>2, <2>3 DEF Idles, Manages, Manage, Waiting
  <2>5. t = s
    BY <1>2, <2>1, <2>4 DEF Enters, NewEntry, RowsFit, Waiting
  <2> QED
    BY <1>5, <2>4, <2>5
<1>6. ASSUME NEW s \in Symbols, SettleExit(s)
      PROVE  FALSE
  <2>1. \A u \in Symbols : ~Waiting(u)
    BY <1>1, <1>6, TurnFacts DEF SettleExit
  <2>2. UNCHANGED entry
    BY <1>6 DEF SettleExit, ApproveExit, Decide
  <2> QED
    BY <2>1, <2>2 DEF Waiting
<1>7. ASSUME NEW s \in Symbols, SettleEntry(s)
      PROVE  FALSE
  <2>1. \A u \in Symbols : u # s => ~Waiting(u)
    BY <1>1, <1>7, TurnFacts DEF SettleEntry
  <2>2. ~Waiting(s)' /\ \A u \in Symbols : u # s => entry'[u] = entry[u]
    BY <1>2, <1>7, DecidedEntry DEF SettleEntry, ApproveEntry, Waiting
  <2> QED
    BY <2>1, <2>2 DEF Waiting
<1>8. ASSUME NEW s \in Symbols, SettleNothing(s)
      PROVE  FALSE
  <2>1. \A u \in Symbols : ~Waiting(u)
    BY <1>1, <1>8, TurnFacts DEF SettleNothing, Waiting
  <2> QED
    BY <1>8, <2>1 DEF SettleNothing, rows, Waiting
<1>9. ASSUME NEW s \in Symbols, Abort(s) \/ Desk(s)
      PROVE  FALSE
  BY <1>9 DEF Abort, Desk
<1> QED
  BY <1>2, <1>3, <1>4, <1>5, <1>6, <1>7, <1>8, <1>9 DEF Next

(* A valid ENTRY is made in a step of the replay and settled in the next. *)
LEMMA KeepsEntriesWaitOneStep ==
  ASSUME TypeInv, BookInv, EntriesWaitOneStep, [Next]_vars
  PROVE  EntriesWaitOneStep'
<1> SUFFICES ASSUME session'.mode = "replay", outcome' = "running", NEW t \in Symbols, Waiting(t)'
             PROVE  /\ Acting(t)' /\ phase' = "settle" /\ Correction(t)' = "NONE"
                    /\ Stop < quarter'[t].bar.close /\ Cardinality(OpenSymbols)' < MaxPositions
  BY DEF EntriesWaitOneStep
<1>1. session' = session
  BY DEF Next, Tick, Finish, Arrive, BarRisk, Step, Cool, SettleExit, SettleEntry, SettleNothing, Abort, Desk,
       vars
<1>2. CASE outcome # "running"
  BY <1>2, EndedStays DEF vars, replayed
<1>3. CASE outcome = "running"
  <2>1. CASE Step(t) /\ Enters(t)
    <3>1. Acting(t)' /\ phase' = "settle" /\ UNCHANGED quarter
      BY <2>1, TurnFacts DEF Step, Goes, Acting
    <3>2. Cardinality(OpenSymbols)' = Cardinality(OpenSymbols)
      BY <2>1, NewEntryIsValid
    <3> QED
      BY <2>1, <3>1, <3>2, NewEntryIsValid
  <2>2. CASE UNCHANGED vars
    <3>1. Waiting(t) /\ session.mode = "replay"
      BY <1>1, <2>2 DEF vars, rows, Waiting
    <3>2. /\ Acting(t) /\ phase = "settle" /\ Correction(t) = "NONE"
          /\ Stop < quarter[t].bar.close /\ Cardinality(OpenSymbols) < MaxPositions
      BY <1>3, <3>1 DEF EntriesWaitOneStep
    <3>3. UNCHANGED <<market, signs, after, entry, quarter, todo, phase, position>>
      BY <2>2 DEF vars, bars, rows, turns
    <3>4. OpenSymbols' = OpenSymbols
      BY <3>3 DEF OpenSymbols, Open
    <3>5. Correction(t)' = Correction(t)
      BY <3>3 DEF Correction, StructureFailed, TriggerFailed
    <3> QED
      BY <3>2, <3>3, <3>4, <3>5 DEF Acting
  <2> QED
    BY <1>1, <1>3, <2>1, <2>2, WaitingNext
<1> QED
  BY <1>2, <1>3

\* The mode never changes, and the trades, the fills and the positions only in the
\* turns of a replay.
LEMMA DeskHasNoTrades ==
  ASSUME TypeInv, [Next]_vars
  PROVE  /\ session' = session
         /\ session.mode # "replay" => UNCHANGED <<trade, fills, outcome>>
<1>1. session' = session
  BY DEF Next, Tick, Finish, Arrive, BarRisk, Step, Cool, SettleExit, SettleEntry, SettleNothing, Abort, Desk,
       vars
<1>2. ASSUME session.mode # "replay"
      PROVE  phase = "bars"
  BY <1>2 DEF TypeInv, TurnsFit
<1> QED
  BY <1>1, <1>2 DEF Next, Tick, Finish, Arrive, BarRisk, Step, Cool, SettleExit, SettleEntry, SettleNothing,
       Abort, Desk, Turn, vars, replayed

(* The stop a trade is entered with lies below what it paid, and trailing never lowers it. *)
LEMMA KeepsTradesAboveStops ==
  ASSUME TypeInv, BookInv, EntriesWaitOneStep, TradesAreAboveStops, [Next]_vars
  PROVE  TradesAreAboveStops'
<1>1. session' = session /\ session.traded \subseteq Symbols
  BY DeskHasNoTrades, SessionAssumption DEF TypeInv, TurnsFit
<1>2. ASSUME UNCHANGED <<quarter, trade, phase, todo>>
      PROVE  TradesAreAboveStops'
  BY <1>1, <1>2 DEF TradesAreAboveStops, Acting
<1>3. ASSUME Tick
      PROVE  TradesAreAboveStops'
  BY <1>1, <1>3 DEF TradesAreAboveStops, Tick, replayed, Acting
<1>4. CASE Finish
  BY <1>4 DEF TradesAreAboveStops, Finish, bars
<1>5. ASSUME NEW s \in Symbols, Arrive(s)
      PROVE  TradesAreAboveStops'
  <2>1. phase = "bars" /\ s = Min(todo) /\ UNCHANGED trade
    BY <1>5 DEF Arrive, Turn, replayed
  <2>2. CASE UNCHANGED quarter
    BY <1>1, <2>1, <2>2 DEF TradesAreAboveStops
  <2>3. CASE ArriveQuarter(s) /\ IF session.mode = "replay" THEN Goes("risk") ELSE EndTurn(s)
    <3>1. \A t \in Symbols : t # s => quarter'[t] = quarter[t]
      BY <2>3, ArriveQuarterFits DEF TypeInv, QuartersFit
    <3>2. session.mode = "replay" => Acting(s)' /\ phase' = "risk"
      BY <1>5, <2>3 DEF Goes, Acting, Arrive, Turn
    <3> QED
      BY <1>1, <2>1, <2>3, <3>1, <3>2, ArriveQuarterFits DEF TradesAreAboveStops
  <2> QED
    BY <1>5, <2>2, <2>3 DEF Arrive
<1>6. ASSUME NEW s \in Symbols, BarRisk(s)
      PROVE  TradesAreAboveStops'
  <2>1. /\ Acting(s) /\ UNCHANGED quarter /\ session.mode = "replay"
        /\ \A t \in Symbols : t # s => ~Acting(t)
        /\ quarter[s] # NoQuarter
        /\ trade[s] # NoTrade => trade[s].stop = Stop
    BY <1>6, TurnFacts DEF BarRisk, bars
  <2>2. quarter[s].bar.low \in Nat /\ quarter[s].bar.close \in Nat /\ Stop \in Nat
    BY <1>6, TurnFacts, BookAssumption DEF BarRisk
  <2>3. CASE Close(s, trade[s].stop)
    BY <1>1, <2>1, <2>3 DEF TradesAreAboveStops, Close, TypeInv, TypeOK
  <2>4. CASE (trade[s] = NoTrade \/ quarter[s].bar.low > trade[s].stop) /\ UNCHANGED trade
    <3>1. trade[s] # NoTrade => Stop < quarter[s].bar.close
      BY <2>1, <2>2, <2>4 DEF TradesAreAboveStops
    <3> QED
      BY <1>1, <2>1, <2>4, <3>1 DEF TradesAreAboveStops
  <2> QED
    BY <1>6, <2>3, <2>4 DEF BarRisk, replayed
<1>7. ASSUME NEW s \in Symbols, Step(s) \/ Cool(s) \/ SettleNothing(s) \/ Abort(s)
      PROVE  TradesAreAboveStops'
  <2>1. phase # "risk" /\ UNCHANGED <<quarter, trade>>
    BY <1>7 DEF Step, Cool, SettleNothing, Abort, Turn, bars, replayed
  <2> QED
    BY <1>1, <2>1 DEF TradesAreAboveStops
<1>8. ASSUME NEW s \in Symbols, SettleExit(s)
      PROVE  TradesAreAboveStops'
  <2>1. phase # "risk" /\ UNCHANGED quarter /\ trade' = [trade EXCEPT ![s] = NoTrade]
    BY <1>8 DEF SettleExit, Turn, bars, Close
  <2> QED
    BY <1>1, <2>1 DEF TradesAreAboveStops, TypeInv, TypeOK
<1>9. ASSUME NEW s \in Symbols, SettleEntry(s)
      PROVE  TradesAreAboveStops'
  <2>1. /\ phase # "risk" /\ session.mode = "replay" /\ outcome = "running" /\ UNCHANGED quarter
        /\ Waiting(s) /\ \A t \in Symbols : t # s => trade'[t] = trade[t]
    BY <1>9, TurnFacts DEF SettleEntry, Turn, bars, ApproveEntry, Waiting, TypeInv, TypeOK
  <2>2. Stop < quarter[s].bar.close
    BY <2>1 DEF EntriesWaitOneStep
  <2> QED
    BY <1>1, <2>1, <2>2 DEF TradesAreAboveStops
<1>10. ASSUME NEW s \in Symbols, Desk(s)
       PROVE  TradesAreAboveStops'
  BY <1>2, <1>10 DEF Desk, turns, replayed
<1> QED
  BY <1>1, <1>2, <1>3, <1>4, <1>5, <1>6, <1>7, <1>8, <1>9, <1>10 DEF Next, vars, bars, turns, replayed

\* Every trade ends at its stop or above it.
LEMMA KeepsLossesBounded ==
  ASSUME TypeInv, BookInv, TradesAreAboveStops, LossesAreBounded, [Next]_vars
  PROVE  LossesAreBounded'
<1>1. session.traded \subseteq Symbols /\ Stop \in Nat /\ fills \in [Symbols -> SUBSET Levels]
  BY SessionAssumption, BookAssumption DEF TypeInv, TurnsFit, TypeOK
<1>2. ASSUME UNCHANGED fills
      PROVE  LossesAreBounded'
  BY <1>2 DEF LossesAreBounded
<1>3. ASSUME NEW s \in Symbols, NEW level, level >= Stop, Close(s, level)
      PROVE  LossesAreBounded'
  BY <1>1, <1>3 DEF Close, LossesAreBounded
<1>4. ASSUME NEW s \in Symbols, trade[s] # NoTrade, phase # "risk"
      PROVE  quarter[s].bar.close >= Stop
  <2>1. quarter[s].bar.close \in Nat
    BY <1>4 DEF TypeInv, TradesFit, QuartersFit, BarFacts
  <2> QED
    BY <1>1, <1>4, <2>1 DEF TradesAreAboveStops
<1>5. CASE Finish
  <2>1. phase # "risk"
    BY <1>5 DEF Finish, TypeInv, TurnsFit
  <2> QED
    BY <1>4, <1>5, <2>1 DEF Finish, LossesAreBounded
<1>6. ASSUME NEW s \in Symbols, BarRisk(s)
      PROVE  LossesAreBounded'
  <2>1. trade[s] # NoTrade => trade[s].stop >= Stop
    BY <1>1, <1>6, TurnFacts DEF BarRisk
  <2> QED
    BY <1>2, <1>3, <1>6, <2>1 DEF BarRisk, replayed
<1>7. ASSUME NEW s \in Symbols, SettleExit(s)
      PROVE  LossesAreBounded'
  BY <1>3, <1>4, <1>7 DEF SettleExit, Turn
<1> QED
  BY <1>1, <1>2, <1>5, <1>6, <1>7 DEF Next, Tick, Arrive, Step, Cool, SettleEntry, SettleNothing, Abort, Desk,
     vars, replayed

\* Which positions of a replay are open after a step: no other than before, but
\* that of the entry that is approved.
LEMMA OpenNext ==
  ASSUME TypeInv, BookInv, [Next]_vars, session.mode = "replay", NEW t \in Symbols
  PROVE  \/ Open(t)' = Open(t) /\ (position[t] = NoPosition <=> position'[t] = NoPosition)
         \/ ~Open(t)' /\ fills'[t] # {}
         \/ SettleEntry(t) /\ Open(t)'
<1> DEFINE Moves == \/ Open(t)' = Open(t) /\ (position[t] = NoPosition <=> position'[t] = NoPosition)
                    \/ ~Open(t)' /\ fills'[t] # {}
                    \/ SettleEntry(t) /\ Open(t)'
<1>1. RowsFit /\ session.traded \subseteq Symbols /\ fills \in [Symbols -> SUBSET Levels]
  BY RowsOfTypes, SessionAssumption DEF TypeInv, TurnsFit, TypeOK
<1>2. ASSUME UNCHANGED position
      PROVE  Moves
  BY <1>2 DEF Open
<1>3. ASSUME NEW s \in Symbols, Step(s)
      PROVE  Moves
  BY <1>3, AdvanceKeepsRow, AdvanceKeepsOthers DEF Step, BookInv, Kept, Open
<1>4. ASSUME NEW s \in Symbols, NEW level, position' = [position EXCEPT ![s].status = "CLOSED"],
             Close(s, level)
      PROVE  Moves
  <2>1. CASE t # s
    BY <1>1, <1>4, <2>1 DEF RowsFit, Open
  <2>2. CASE t = s
    <3>1. fills'[t] # {}
      BY <1>1, <1>4, <2>2 DEF Close
    <3>2. ~Open(t)'
      BY <1>1, <1>4, <2>2 DEF RowsFit, PositionRows, Open
    <3> QED
      BY <3>1, <3>2
  <2> QED
    BY <2>1, <2>2
<1>5. ASSUME NEW s \in Symbols, BarRisk(s)
      PROVE  Moves
  BY <1>2, <1>4, <1>5 DEF BarRisk
<1>6. ASSUME NEW s \in Symbols, SettleExit(s)
      PROVE  Moves
  BY <1>2, <1>4, <1>6 DEF SettleExit, ApproveExit
<1>7. ASSUME NEW s \in Symbols, SettleEntry(s)
      PROVE  Moves
  BY <1>1, <1>7 DEF SettleEntry, ApproveEntry, RowsFit, Open
<1> QED
  BY <1>1, <1>2, <1>3, <1>5, <1>6, <1>7 DEF Next, Tick, Finish, Arrive, Cool, SettleNothing, Abort, Desk, vars,
     rows

(* A trade gets its exit and the row its CLOSED status in one step. *)
LEMMA KeepsClosedFilled ==
  ASSUME TypeInv, BookInv, ClosedAreFilled, [Next]_vars
  PROVE  ClosedAreFilled'
<1> SUFFICES ASSUME session.mode = "replay", NEW t \in Symbols
             PROVE  position'[t] = NoPosition \/ Open(t)' \/ fills'[t] # {}
  BY DeskHasNoTrades DEF ClosedAreFilled
<1>1. position[t] = NoPosition \/ Open(t) \/ fills[t] # {}
  BY DEF ClosedAreFilled
<1>2. fills[t] # {} => fills'[t] # {}
  <2>1. ASSUME NEW s \in Symbols, NEW level, Close(s, level)
        PROVE  fills[t] # {} => fills'[t] # {}
    BY <2>1 DEF Close, TypeInv, TypeOK
  <2>2. Finish => (fills[t] # {} => fills'[t] # {})
    BY DEF Finish
  <2>3. session.traded \subseteq Symbols
    BY SessionAssumption DEF TypeInv, TurnsFit
  <2> QED
    BY <2>1, <2>2, <2>3 DEF Next, Tick, Arrive, BarRisk, Step, Cool, SettleExit, SettleEntry, SettleNothing,
       Abort, Desk, vars, replayed
<1> QED
  BY <1>1, <1>2, OpenNext

(* Only an executed ENTRY opens a row, after the limit check of its own step. *)
LEMMA KeepsPositionsWithinLimit ==
  ASSUME TypeInv, BookInv, EntriesWaitOneStep, PositionsWithinLimit, [Next]_vars
  PROVE  PositionsWithinLimit'
<1> SUFFICES ASSUME session.mode = "replay"
             PROVE  Cardinality(OpenSymbols') <= MaxPositions
  BY DeskHasNoTrades DEF PositionsWithinLimit
<1>1. IsFiniteSet(OpenSymbols) /\ OpenSymbols \subseteq Symbols /\ Cardinality(OpenSymbols) \in Nat
  BY BookAssumption, FS_Subset, FS_CardinalityType DEF OpenSymbols
<1>2. Cardinality(OpenSymbols) <= MaxPositions /\ MaxPositions \in Nat
  BY BookAssumption DEF PositionsWithinLimit
<1>3. CASE \E s \in Symbols : SettleEntry(s)
  <2>1. PICK s \in Symbols : SettleEntry(s)
    BY <1>3
  <2>2. Waiting(s) /\ outcome = "running"
    BY <2>1, TurnFacts DEF SettleEntry, ApproveEntry, Waiting
  <2>3. Cardinality(OpenSymbols) < MaxPositions
    BY <2>2 DEF EntriesWaitOneStep
  <2>4. OpenSymbols' = OpenSymbols \cup {s}
    BY <2>1, RowsOfTypes DEF SettleEntry, ApproveEntry, OpenSymbols, Open, TypeInv, RowsFit
  <2>5. Cardinality(OpenSymbols \cup {s}) <= Cardinality(OpenSymbols) + 1
    <3>1. \/ Cardinality(OpenSymbols \cup {s}) = Cardinality(OpenSymbols)
          \/ Cardinality(OpenSymbols \cup {s}) = Cardinality(OpenSymbols) + 1
      BY <1>1, FS_AddElement, Zenon
    <3> QED
      BY <1>1, <3>1
  <2>6. Cardinality(OpenSymbols \cup {s}) \in Nat
    BY <1>1, FS_AddElement, FS_CardinalityType
  <2> QED
    BY <1>1, <1>2, <2>3, <2>4, <2>5, <2>6
<1>4. CASE ~\E s \in Symbols : SettleEntry(s)
  <2>1. OpenSymbols' \subseteq OpenSymbols
    BY <1>4, OpenNext DEF OpenSymbols
  <2>2. Cardinality(OpenSymbols') <= Cardinality(OpenSymbols) /\ Cardinality(OpenSymbols') \in Nat
    BY <1>1, <2>1, FS_Subset, FS_CardinalityType
  <2> QED
    BY <1>1, <1>2, <2>2
<1> QED
  BY <1>3, <1>4

(* A cooldown is written only by an exit of its symbol, from the day of the exit. *)
LEMMA KeepsCooldowns ==
  ASSUME TypeInv, BookInv, CooldownsFit, [Next]_vars
  PROVE  CooldownsFit'
<1> SUFFICES ASSUME session.mode = "replay", NEW t \in Symbols
             PROVE  (Acting(t)' /\ phase' = "cool") \/ cooldown'[t] <= AsOf' + CooldownDays
  BY DeskHasNoTrades DEF CooldownsFit
<1>1. /\ session' = session /\ session.traded \subseteq Symbols /\ RowsFit /\ TypeOK /\ QuartersFit
      /\ session \in Sessions /\ AsOf \in Int /\ CooldownDays \in Nat /\ cooldown[t] \in Int
  BY DeskHasNoTrades, SessionAssumption, RowsOfTypes, DaysMove, BookAssumption
     DEF TypeInv, TurnsFit, RowsFit, Never
<1>2. (Acting(t) /\ phase = "cool") \/ cooldown[t] <= AsOf + CooldownDays
  BY DEF CooldownsFit
<1>3. CASE Tick
  <2>1. AsOf' \in Int /\ AsOf <= AsOf' /\ UNCHANGED cooldown /\ todo = {}
    BY <1>3, DaysMove DEF Tick, rows
  <2> QED
    BY <1>1, <1>2, <2>1 DEF Acting
<1>4. ASSUME UNCHANGED clock
      PROVE  AsOf' = AsOf
  BY <1>1, <1>4, DaysMove
<1>5. ASSUME NEW s \in Symbols, Step(s)
      PROVE  cooldown'[t] <= AsOf' + CooldownDays
  <2>1. cooldown[t] <= AsOf + CooldownDays /\ AsOf' = AsOf
    BY <1>2, <1>4, <1>5 DEF Step, Turn
  <2>2. cooldown'[t] = cooldown[t] \/ cooldown'[t] = AsOf + CooldownDays
    BY <1>1, <1>5, AdvanceCases
       DEF Step, Corrects, Correct, Cools, Idles, Enters, Manages, Manage, RowsFit
  <2> QED
    BY <1>1, <2>1, <2>2
<1>6. ASSUME NEW s \in Symbols, SettleExit(s)
      PROVE  (Acting(t)' /\ phase' = "cool") \/ cooldown'[t] <= AsOf' + CooldownDays
  <2>1. /\ Acting(s)' /\ phase' = "cool" /\ UNCHANGED clock
        /\ cooldown[t] <= AsOf + CooldownDays
    BY <1>2, <1>6, TurnFacts DEF SettleExit, Goes, Acting
  <2>2. t # s => cooldown'[t] = cooldown[t]
    BY <1>6, DecisionKeepsOthers DEF SettleExit, Decides, Kept, bars
  <2> QED
    BY <1>4, <2>1, <2>2
<1>7. ASSUME NEW s \in Symbols, Cool(s)
      PROVE  cooldown'[t] <= AsOf' + CooldownDays
  <2>1. /\ \A u \in Symbols : u # s => ~Acting(u)
        /\ cooldown' = [cooldown EXCEPT ![s] = AsOf + CooldownDays] /\ UNCHANGED clock
    BY <1>7, TurnFacts DEF Cool, SetReplayCooldown
  <2> QED
    BY <1>1, <1>2, <1>4, <2>1 DEF RowsFit
<1>8. ASSUME NEW s \in Symbols, Arrive(s) \/ BarRisk(s) \/ SettleEntry(s) \/ SettleNothing(s) \/ Abort(s)
      PROVE  phase # "cool" /\ UNCHANGED <<clock, cooldown>>
  BY <1>8 DEF Arrive, BarRisk, SettleEntry, SettleNothing, Abort, Turn, ApproveEntry, rows
<1>9. CASE Finish \/ UNCHANGED vars
  BY <1>2, <1>4, <1>9 DEF Finish, vars, rows, turns, Acting
<1> QED
  BY <1>1, <1>2, <1>3, <1>4, <1>5, <1>6, <1>7, <1>8, <1>9 DEF Next, Desk

(* An ENTRY is made from hourly candles that have closed before its quarter. *)
LEMMA KeepsEntriesAfterHours ==
  ASSUME TypeInv, BookInv, EntriesFollowTheirHour, [Next]_vars
  PROVE  EntriesFollowTheirHour'
<1> SUFFICES ASSUME session.mode = "replay", NEW t \in Symbols, entry'[t] # NoEntry
             PROVE  entry'[t].at + Duration["15m"] >= entry'[t].structure + Duration["60m"]
  BY DeskHasNoTrades DEF EntriesFollowTheirHour
<1>1. /\ RowsFit /\ TypeOK /\ QuartersFit /\ session.traded \subseteq Symbols
      /\ session \in Sessions /\ AsOf \in Int
  BY SessionAssumption, RowsOfTypes, DaysMove DEF TypeInv, TurnsFit
<1>2. entry[t] # NoEntry => entry[t].at + Duration["15m"] >= entry[t].structure + Duration["60m"]
  BY DEF EntriesFollowTheirHour
<1>3. CASE entry'[t] = entry[t]
  BY <1>2, <1>3
<1>4. ASSUME NEW s \in Symbols, NEW status, Waiting(s), entry' = [entry EXCEPT ![s].status = status]
      PROVE  entry'[t].at + Duration["15m"] >= entry'[t].structure + Duration["60m"]
  <2>1. entry'[t].at = entry[t].at /\ entry'[t].structure = entry[t].structure
    BY <1>1, <1>4 DEF RowsFit, EntryRows
  <2>2. entry[t] # NoEntry
    BY <1>1, <1>3, <1>4 DEF RowsFit, Waiting, NoEntry
  <2> QED
    BY <1>2, <2>1, <2>2
<1>5. ASSUME NEW s \in Symbols, Step(s)
      PROVE  entry'[t].at + Duration["15m"] >= entry'[t].structure + Duration["60m"]
  <2>1. CASE Enters(s)
    <3>1. CASE t = s
      BY <1>5, <2>1, <3>1, NewEntryIsValid
    <3>2. CASE t # s
      BY <1>1, <1>3, <2>1, <3>2 DEF Enters, NewEntry, RowsFit
    <3> QED
      BY <3>1, <3>2
  <2>2. CASE Corrects(s)
    BY <1>4, <2>2 DEF Corrects, Correct, Correction, Waiting
  <2>3. CASE Idles(s) \/ Manages(s)
    BY <1>3, <2>3 DEF Idles, Manages, Manage
  <2> QED
    BY <1>1, <1>5, <2>1, <2>2, <2>3, AdvanceCases DEF Step
<1>6. ASSUME NEW s \in Symbols, SettleEntry(s)
      PROVE  entry'[t].at + Duration["15m"] >= entry'[t].structure + Duration["60m"]
  BY <1>4, <1>6 DEF SettleEntry, ApproveEntry, Decide, Waiting
<1> QED
  BY <1>1, <1>3, <1>5, <1>6 DEF Next, Tick, Finish, Arrive, BarRisk, Cool, SettleExit, ApproveExit, Decide,
     SettleNothing, Abort, Desk, vars, rows

\* Only a symbol whose earlier position was filled aborts a replay.
LEMMA KeepsAborts ==
  ASSUME TypeInv, BookInv, EntriesWaitOneStep, ClosedAreFilled, AbortsAreSecondEntries, [Next]_vars
  PROVE  AbortsAreSecondEntries'
<1> DEFINE Second(s) == fills[s] # {} /\ entry[s].status = "PENDING" /\ Correction(s) = "NONE"
<1>1. session.traded \subseteq Symbols
  BY SessionAssumption DEF TypeInv, TurnsFit
<1>2. ASSUME UNCHANGED <<outcome, fills, entry, signs, after, market>>
      PROVE  AbortsAreSecondEntries'
  BY <1>2 DEF AbortsAreSecondEntries, Correction, StructureFailed, TriggerFailed
<1>3. CASE outcome # "running"
  BY <1>2, <1>3, EndedStays DEF vars, bars, rows, replayed
<1>4. CASE outcome = "running"
  <2>1. ASSUME NEW s \in Symbols, Abort(s)
        PROVE  AbortsAreSecondEntries'
    <3>1. /\ Turn(s, "settle") /\ trade[s] = NoTrade /\ (Correction(s) # "NONE" \/ IndexRefuses(s))
          /\ UNCHANGED <<fills, entry, signs, after, market>>
      BY <2>1 DEF Abort, bars, rows
    <3>2. Waiting(s) /\ session.mode = "replay" /\ ~Open(s)
      BY <3>1, TurnFacts DEF Correction, IndexRefuses, Waiting
    <3>3. Correction(s) = "NONE"
      BY <1>4, <3>2 DEF EntriesWaitOneStep
    <3>4. fills[s] # {}
      BY <3>1, <3>2, <3>3 DEF IndexRefuses, ClosedAreFilled
    <3>5. Second(s)'
      BY <3>1, <3>2, <3>3, <3>4 DEF Waiting, Correction, StructureFailed, TriggerFailed
    <3> QED
      BY <3>5 DEF AbortsAreSecondEntries
  <2>2. CASE outcome' # "aborted"
    BY <2>2 DEF AbortsAreSecondEntries
  <2> QED
    BY <1>1, <1>4, <2>1, <2>2 DEF Next, Tick, Finish, Arrive, BarRisk, Close, Step, Cool, SettleExit,
       SettleEntry, SettleNothing, Desk, vars, replayed
<1> QED
  BY <1>3, <1>4

(* Every step keeps every conjunct of the replay's invariant. *)
LEMMA ReplayInvInductive == TypeInv /\ BookInv /\ ReplayInv /\ [Next]_vars => ReplayInv'
<1> SUFFICES ASSUME TypeInv, BookInv, ReplayInv, [Next]_vars
             PROVE  ReplayInv'
  OBVIOUS
<1> USE DEF ReplayInv
<1>1. EntriesWaitOneStep' /\ TradesAreAboveStops' /\ ClosedAreFilled' /\ CooldownsFit'
  BY KeepsEntriesWaitOneStep, KeepsTradesAboveStops, KeepsClosedFilled, KeepsCooldowns
<1>2. PositionsWithinLimit' /\ LossesAreBounded'
  BY KeepsPositionsWithinLimit, KeepsLossesBounded
<1>3. EntriesFollowTheirHour' /\ AbortsAreSecondEntries'
  BY KeepsEntriesAfterHours, KeepsAborts
<1> QED
  BY <1>1, <1>2, <1>3

(* Types, book and replay together hold in every reachable state. *)
LEMMA ReplayInvHolds == Spec => [](TypeInv /\ BookInv /\ ReplayInv)
<1>1. Init => TypeInv /\ BookInv /\ ReplayInv
  BY InitFits, InitBook, InitReplay
<1>2. TypeInv /\ BookInv /\ ReplayInv /\ [Next]_vars => (TypeInv /\ BookInv /\ ReplayInv)'
  BY TypeInvInductive, BookInvInductive, ReplayInvInductive
<1> QED
  BY <1>1, <1>2, PTL DEF Spec

----------------------------------------------------------------------------
(* What follows of a replay *)

\* No trade of a replay ends below its stop, whatever the bars are
\* (docs/backtest.md:30; backtest.py:133-138, 255-261).
THEOREM LossesAlwaysBounded == Spec => []LossesAreBounded
<1>1. ReplayInv => LossesAreBounded
  BY DEF ReplayInv
<1> QED
  BY <1>1, ReplayInvHolds, PTL

\* No more positions than max_positions, of any number of symbols (risk.py:120,
\* backtest.py:142-182).
THEOREM PositionsAlwaysWithinLimit == Spec => []PositionsWithinLimit
<1>1. ReplayInv => PositionsWithinLimit
  BY DEF ReplayInv
<1> QED
  BY <1>1, ReplayInvHolds, PTL

\* The hour of an entry's structure has ended when its bar does
\* (docs/backtest.md:7; backtest.py:493-500, entry_trigger.py:47).
THEOREM EntriesAlwaysFollowTheirHour == Spec => []EntriesFollowTheirHour
<1>1. ReplayInv => EntriesFollowTheirHour
  BY DEF ReplayInv
<1> QED
  BY <1>1, ReplayInvHolds, PTL

\* Between two turns no cooldown is counted from the day the replay is run
\* (approvals.py:86, backtest.py:503-509).
THEOREM CooldownsAlwaysReplayed == Spec => []CooldownsAreReplayed
<1>1. ReplayInv => CooldownsAreReplayed
  BY DEF ReplayInv, CooldownsFit, CooldownsAreReplayed
<1> QED
  BY <1>1, ReplayInvHolds, PTL

\* A replay is aborted by the second entry of a symbol and by nothing else
\* (backtest.py:182, approvals.py:28-31).
THEOREM OnlySecondEntriesAbort == Spec => []AbortsAreSecondEntries
<1>1. ReplayInv => AbortsAreSecondEntries
  BY DEF ReplayInv
<1> QED
  BY <1>1, ReplayInvHolds, PTL

----------------------------------------------------------------------------
(* Sizes *)

\* A number is no more than a quotient exactly when it fits into the dividend.
LEMMA FitsQuotient ==
  ASSUME NEW a \in Nat, NEW b \in Nat \ {0}, NEW n \in Nat
  PROVE  n <= a \div b <=> n * b <= a
<1>1. PICK q \in Nat, r \in Nat : q = a \div b /\ r = a % b /\ a = b * q + r /\ r < b
  OBVIOUS
<1>2. ASSUME n <= q
      PROVE  n * b <= a
  <2>1. PICK d \in Nat : q = n + d
    BY <1>2
  <2>2. b * q = n * b + d * b /\ d * b \in Nat /\ n * b \in Nat
    BY <2>1
  <2> QED
    BY <1>1, <2>2
<1>3. ASSUME ~(n <= q)
      PROVE  ~(n * b <= a)
  <2>1. PICK d \in Nat : n = q + 1 + d
    <3>1. n - q - 1 \in Nat
      BY <1>3
    <3> QED
      BY <3>1
  <2>2. n * b = b * q + b + d * b /\ d * b \in Nat /\ b * q \in Nat
    BY <2>1
  <2> QED
    BY <1>1, <2>2
<1> QED
  BY <1>1, <1>2, <1>3

\* The shares of an entry at any price, stop and equity are the most that lose no
\* more than allowed at the stop and are worth no more than the cap.
LEMMA LargestSize ==
  ASSUME NEW equity \in Nat, NEW price \in Nat, NEW stop \in Nat, NEW state2 \in TradeableMarkets
  PROVE  SizeIsLargest(equity, price, stop, state2)
<1> DEFINE size == PositionSize(equity, price, stop, state2)
           percent == IF state2 = "NEUTRAL_POSITIVE" THEN NeutralPercent ELSE 100
           allowed == equity * (IF state2 = "RISK_ON" THEN 100 ELSE NeutralPercent)
           fits(n) == n * (price - stop) * 10000 <= allowed * RiskPercent
                      /\ n * price * 100 <= equity * CapPercent
<1>1. CASE stop \notin 1 .. price - 1
  <2>1. stop <= 0 \/ stop >= price
    BY <1>1
  <2> QED
    BY <1>1, <2>1 DEF PositionSize, SizeIsLargest
<1>2. CASE stop \in 1 .. price - 1
  <2> DEFINE loss == 10000 * (price - stop)
             cap == 100 * price
             risked == equity * RiskPercent * percent
             valued == equity * CapPercent
  <2>1. risked \in Nat /\ valued \in Nat /\ allowed * RiskPercent = risked
    BY DEF NeutralPercent, RiskPercent, CapPercent, TradeableMarkets
  <2>2. loss \in Nat \ {0} /\ cap \in Nat \ {0}
    BY <1>2
  <2>3. ASSUME NEW n \in Nat
        PROVE  fits(n) <=> n * loss <= risked /\ n * cap <= valued
    <3>1. n * (price - stop) * 10000 = n * loss /\ n * price * 100 = n * cap
      BY <1>2
    <3> QED
      BY <2>1, <3>1
  <2> HIDE DEF loss, cap, risked, valued, fits
  <2>4. risked \div loss \in Nat /\ valued \div cap \in Nat
    BY <2>1, <2>2, QuotientFits
  <2>5. size = Min({risked \div loss, valued \div cap})
    <3>1. CASE equity # 0
      BY <1>2, <3>1 DEF PositionSize, loss, cap, risked, valued
    <3>2. CASE equity = 0
      <4>1. risked = 0 /\ valued = 0 /\ size = 0
        BY <3>2 DEF risked, valued, PositionSize, RiskPercent, CapPercent, NeutralPercent
      <4>2. risked \div loss = 0 /\ valued \div cap = 0
        BY <2>1, <2>2, <4>1, QuotientFits
      <4> QED
        BY <4>1, <4>2, MinOfTwo
    <3> QED
      BY <3>1, <3>2
  <2>6. /\ size \in Nat /\ size <= risked \div loss /\ size <= valued \div cap
        /\ ~(size + 1 <= risked \div loss /\ size + 1 <= valued \div cap)
    BY <2>4, <2>5, MinOfTwo
  <2> HIDE DEF size
  <2>7. ASSUME NEW n \in Nat
        PROVE  fits(n) <=> n <= risked \div loss /\ n <= valued \div cap
    BY <2>1, <2>2, <2>3, FitsQuotient
  <2>8. fits(size)
    BY <2>6, <2>7
  <2>9. ~fits(size + 1)
    <3>1. size + 1 \in Nat
      BY <2>6
    <3> QED
      BY <2>6, <2>7, <3>1
  <2> QED
    BY <1>2, <2>8, <2>9 DEF size, fits, SizeIsLargest
<1> QED
  BY <1>1, <1>2

\* No share more would keep an entry within the risk and the cap, and no entry
\* without a stop below its price has shares, at any equity (risk.py:79-103).
THEOREM SizesAlwaysLargest ==
  /\ \A equity \in Nat, price \in Nat, stop \in Nat, state2 \in TradeableMarkets :
       SizeIsLargest(equity, price, stop, state2)
  /\ Spec => []SizesAreLargest
<1>1. \A equity \in Nat, price \in Nat, stop \in Nat, state2 \in TradeableMarkets :
        SizeIsLargest(equity, price, stop, state2)
  BY LargestSize
<1>2. SizesAreLargest
  <2>1. {0, 100, 999, 1000, 4000} \subseteq Nat /\ {2, 11, 12, 30} \subseteq Nat /\ 0 .. 30 \subseteq Nat
    OBVIOUS
  <2> QED
    BY <2>1, LargestSize DEF SizesAreLargest
<1> QED
  BY <1>1, <1>2, PTL

----------------------------------------------------------------------------
(* Statistics: the loop over the trades *)

Results == Seq(Int)

\* The statistics after k trades, from those before.
StatsAt(final_rs, stats, k) ==
  IF k = 0 THEN NoTradeYet ELSE AfterTrade(stats[k - 1], final_rs[k])

\* The function that Stats defines exists: each trade adds to what was there before it.
LEMMA StatsUnfold ==
  ASSUME NEW final_rs \in Results
  PROVE  LET stats == Stats(final_rs)
         IN stats = [k \in 0 .. Len(final_rs) |-> StatsAt(final_rs, stats, k)]
<1> DEFINE Fits(g, n) == g = [k \in 0 .. n |-> StatsAt(final_rs, g, k)]
           X == {n \in 0 .. Len(final_rs) : ~\E g : Fits(g, n)}
<1>1. Len(final_rs) \in Nat
  BY DEF Results
<1>2. X = {}
  <2>1. SUFFICES ASSUME X # {} PROVE FALSE
    OBVIOUS
  <2>2. PICK n \in X : \A k \in X : n <= k
    <3>1. X \subseteq Nat
      BY <1>1
    <3> HIDE DEF X
    <3> QED BY <2>1, <3>1, LeastNatural
  <2>3. n \in Nat /\ n <= Len(final_rs)
    BY <1>1
  <2>4. CASE n = 0
    <3>1. Fits([k \in 0 .. 0 |-> NoTradeYet], 0)
      BY DEF StatsAt
    <3> QED BY <2>4, <3>1
  <2>5. CASE n > 0
    <3>1. n - 1 \notin X /\ n - 1 \in 0 .. Len(final_rs)
      BY <2>2, <2>3, <2>5
    <3>2. PICK g : Fits(g, n - 1)
      BY <3>1
    <3> DEFINE h == [k \in 0 .. n |-> IF k = n THEN StatsAt(final_rs, g, n) ELSE g[k]]
    <3>3. ASSUME NEW k \in 0 .. n PROVE h[k] = StatsAt(final_rs, h, k)
      <4>1. k # 0 => h[k - 1] = g[k - 1]
        BY <2>3, <2>5
      <4>2. StatsAt(final_rs, h, k) = StatsAt(final_rs, g, k)
        BY <4>1 DEF StatsAt
      <4>3. CASE k = n
        BY <4>2, <4>3
      <4>4. CASE k # n
        <5>1. k \in 0 .. n - 1
          BY <2>3, <4>4
        <5>2. g[k] = StatsAt(final_rs, g, k)
          BY <3>2, <5>1
        <5> QED BY <4>2, <4>4, <5>2
      <4> QED BY <4>3, <4>4
    <3>4. Fits(h, n)
      BY <3>3
    <3> QED BY <3>4
  <2> QED BY <2>3, <2>4, <2>5
<1>3. \E g : Fits(g, Len(final_rs))
  BY <1>1, <1>2
<1>4. Stats(final_rs) = CHOOSE g : Fits(g, Len(final_rs))
  BY DEF Stats, StatsAt
<1>5. Fits(Stats(final_rs), Len(final_rs))
  <2> HIDE DEF Fits
  <2> QED BY <1>3, <1>4
<1> QED BY <1>5

\* Before the first trade, and after each.
LEMMA StatsSteps ==
  ASSUME NEW final_rs \in Results
  PROVE  /\ Stats(final_rs)[0] = NoTradeYet
         /\ \A k \in 1 .. Len(final_rs) :
              Stats(final_rs)[k] = AfterTrade(Stats(final_rs)[k - 1], final_rs[k])
<1> DEFINE stats == Stats(final_rs)
<1>1. stats = [k \in 0 .. Len(final_rs) |-> StatsAt(final_rs, stats, k)] /\ Len(final_rs) \in Nat
  BY StatsUnfold DEF Results
<1> HIDE DEF stats
<1>2. \A k \in 0 .. Len(final_rs) : stats[k] = StatsAt(final_rs, stats, k)
  BY <1>1
<1>3. stats[0] = NoTradeYet
  BY <1>1, <1>2 DEF StatsAt
<1>4. \A k \in 1 .. Len(final_rs) : stats[k] = AfterTrade(stats[k - 1], final_rs[k])
  BY <1>1, <1>2 DEF StatsAt
<1> QED BY <1>3, <1>4 DEF stats

Numbers == [equity : Int, peak : Int, drawdown : Int, losses : Nat, most : Nat]

\* One more trade, without sets of two.
Adds(new, stats, value) ==
  /\ new.equity = stats.equity + value
  /\ new.peak = IF stats.peak >= new.equity THEN stats.peak ELSE new.equity
  /\ new.drawdown = IF stats.drawdown <= new.equity - new.peak
                    THEN stats.drawdown ELSE new.equity - new.peak
  /\ new.losses = IF value <= 0 THEN stats.losses + 1 ELSE 0
  /\ new.most = IF stats.most >= new.losses THEN stats.most ELSE new.losses

LEMMA AfterTradeIs ==
  ASSUME NEW stats \in Numbers, NEW value \in Int
  PROVE  /\ AfterTrade(stats, value) \in Numbers
         /\ Adds(AfterTrade(stats, value), stats, value)
<1> DEFINE new == AfterTrade(stats, value)
           equity == stats.equity + value
           peak == Max({stats.peak, equity})
           losses == IF value <= 0 THEN stats.losses + 1 ELSE 0
           drawdown == Min({stats.drawdown, equity - peak})
           most == Max({stats.most, losses})
<1>1. new = [equity |-> equity, peak |-> peak, drawdown |-> drawdown,
             losses |-> losses, most |-> most]
  BY DEF AfterTrade
<1>2. equity \in Int /\ losses \in Nat
  BY DEF Numbers
<1>3. peak = (IF stats.peak >= equity THEN stats.peak ELSE equity) /\ peak \in Int
  BY <1>2, MaxOfTwo DEF Numbers
<1> HIDE DEF peak, new
<1>4. /\ drawdown = IF stats.drawdown <= equity - peak THEN stats.drawdown ELSE equity - peak
      /\ drawdown \in Int
  BY <1>2, <1>3, MinOfTwo DEF Numbers
<1>5. most = (IF stats.most >= losses THEN stats.most ELSE losses) /\ most \in Nat
  BY <1>2, MaxOfTwo DEF Numbers
<1> HIDE DEF equity, losses, drawdown, most
<1>6. new \in Numbers
  BY <1>1, <1>2, <1>3, <1>4, <1>5 DEF Numbers
<1>7. Adds(new, stats, value)
  BY <1>1, <1>3, <1>4, <1>5 DEF Adds, equity, losses
<1> QED BY <1>6, <1>7 DEF new

\* After every trade the statistics are numbers.
LEMMA StatsAreNumbers ==
  ASSUME NEW final_rs \in Results
  PROVE  \A k \in 0 .. Len(final_rs) : Stats(final_rs)[k] \in Numbers
<1> DEFINE stats == Stats(final_rs)
           X == {k \in 0 .. Len(final_rs) : stats[k] \notin Numbers}
<1>1. Len(final_rs) \in Nat /\ \A k \in 1 .. Len(final_rs) : final_rs[k] \in Int
  BY DEF Results
<1>2. /\ stats[0] = NoTradeYet
      /\ \A k \in 1 .. Len(final_rs) : stats[k] = AfterTrade(stats[k - 1], final_rs[k])
  BY StatsSteps
<1> HIDE DEF stats
<1>3. SUFFICES ASSUME X # {} PROVE FALSE
  BY DEF stats
<1>4. PICK k \in X : \A j \in X : k <= j
  <2>1. X \subseteq Nat
    BY <1>1
  <2> HIDE DEF X
  <2> QED BY <1>3, <2>1, LeastNatural
<1>5. CASE k = 0
  BY <1>2, <1>5 DEF NoTradeYet, Numbers
<1>6. CASE k # 0
  <2>1. k \in 1 .. Len(final_rs) /\ k - 1 \in 0 .. Len(final_rs) /\ k - 1 \notin X
    BY <1>1, <1>4, <1>6
  <2>2. stats[k - 1] \in Numbers /\ final_rs[k] \in Int
    BY <1>1, <2>1
  <2> QED BY <1>2, <2>1, <2>2, AfterTradeIs
<1> QED BY <1>5, <1>6

\* The totals exist: the equity of the loop is one.
LEMMA TotalSteps ==
  ASSUME NEW final_rs \in Results
  PROVE  LET total == Total(final_rs)
         IN /\ total \in [0 .. Len(final_rs) -> Int]
            /\ total[0] = 0
            /\ \A k \in 1 .. Len(final_rs) : total[k] = total[k - 1] + final_rs[k]
<1> DEFINE Fits(g) == g = [k \in 0 .. Len(final_rs) |-> IF k = 0 THEN 0 ELSE g[k - 1] + final_rs[k]]
           equity == [k \in 0 .. Len(final_rs) |-> Stats(final_rs)[k].equity]
           total == Total(final_rs)
<1>1. Len(final_rs) \in Nat /\ \A k \in 1 .. Len(final_rs) : final_rs[k] \in Int
  BY DEF Results
<1>2. ASSUME NEW k \in 0 .. Len(final_rs)
      PROVE  equity[k] = IF k = 0 THEN 0 ELSE equity[k - 1] + final_rs[k]
  <2>1. CASE k = 0
    BY <2>1, StatsSteps DEF NoTradeYet
  <2>2. CASE k # 0
    <3>1. k \in 1 .. Len(final_rs) /\ k - 1 \in 0 .. Len(final_rs)
      BY <1>1, <2>2
    <3>2. Stats(final_rs)[k - 1] \in Numbers /\ final_rs[k] \in Int
      BY <1>1, <3>1, StatsAreNumbers
    <3>3. Stats(final_rs)[k] = AfterTrade(Stats(final_rs)[k - 1], final_rs[k])
      BY <3>1, StatsSteps
    <3>4. Adds(Stats(final_rs)[k], Stats(final_rs)[k - 1], final_rs[k])
      BY <3>2, <3>3, AfterTradeIs
    <3>5. equity[k] = equity[k - 1] + final_rs[k]
      BY <3>1, <3>4 DEF Adds
    <3> QED BY <2>2, <3>5
  <2> QED BY <2>1, <2>2
<1>3. Fits(equity)
  BY <1>2
<1>4. total = CHOOSE g : Fits(g)
  BY DEF Total
<1>5. Fits(total)
  <2> HIDE DEF Fits
  <2> QED BY <1>3, <1>4
<1> HIDE DEF total
<1>6. /\ total[0] = 0
      /\ \A k \in 1 .. Len(final_rs) : total[k] = total[k - 1] + final_rs[k]
      /\ DOMAIN total = 0 .. Len(final_rs)
  BY <1>1, <1>5
<1> DEFINE X == {k \in 0 .. Len(final_rs) : total[k] \notin Int}
<1>7. X = {}
  <2>1. SUFFICES ASSUME X # {} PROVE FALSE
    OBVIOUS
  <2>2. PICK k \in X : \A j \in X : k <= j
    <3>1. X \subseteq Nat
      BY <1>1
    <3> HIDE DEF X
    <3> QED BY <2>1, <3>1, LeastNatural
  <2>3. CASE k = 0
    BY <1>6, <2>2, <2>3
  <2>4. CASE k # 0
    <3>1. k \in 1 .. Len(final_rs) /\ k - 1 \in 0 .. Len(final_rs) /\ k - 1 \notin X
      BY <1>1, <2>2, <2>4
    <3> QED BY <1>1, <1>6, <3>1
  <2> QED BY <2>3, <2>4
<1>8. total \in [0 .. Len(final_rs) -> Int]
  BY <1>5, <1>6, <1>7
<1> QED BY <1>6, <1>8 DEF total

\* The peak is the highest total so far, the drawdown the deepest fall from one to a
\* later one.
Falls(total, stats, k) ==
  /\ stats[k].equity = total[k]
  /\ \A i \in 0 .. k : total[i] <= stats[k].peak
  /\ \E i \in 0 .. k : total[i] = stats[k].peak
  /\ \A i, j \in 0 .. k : i <= j => stats[k].drawdown <= total[j] - total[i]
  /\ \E i, j \in 0 .. k : i <= j /\ stats[k].drawdown = total[j] - total[i]

\* The results after the i-th up to the j-th are losses.
Losing(final_rs, i, j) == \A m \in i + 1 .. j : final_rs[m] <= 0

\* The losses are those since the last gain, most is the longest run of them so far.
Loses(final_rs, stats, k) ==
  /\ stats[k].losses <= k /\ Losing(final_rs, k - stats[k].losses, k)
  /\ stats[k].losses < k => final_rs[k - stats[k].losses] > 0
  /\ stats[k].losses <= stats[k].most
  /\ \A i, j \in 0 .. k : i <= j /\ Losing(final_rs, i, j) => j - i <= stats[k].most
  /\ \E i, j \in 0 .. k : i <= j /\ Losing(final_rs, i, j) /\ j - i = stats[k].most

\* One more total.
LEMMA FallsStep ==
  ASSUME NEW final_rs \in Results, NEW k \in 1 .. Len(final_rs),
         Falls(Total(final_rs), Stats(final_rs), k - 1)
  PROVE  Falls(Total(final_rs), Stats(final_rs), k)
<1> DEFINE total == Total(final_rs)
           stats == Stats(final_rs)
           old == stats[k - 1]
           new == stats[k]
<1>1. k \in Nat /\ k > 0 /\ Len(final_rs) \in Nat /\ k <= Len(final_rs) /\ final_rs[k] \in Int
  BY DEF Results
<1>2. /\ \A i \in 0 .. k : total[i] \in Int
      /\ total[k] = total[k - 1] + final_rs[k]
  <2>1. total \in [0 .. Len(final_rs) -> Int] /\ total[k] = total[k - 1] + final_rs[k]
    BY TotalSteps
  <2> HIDE DEF total
  <2> QED BY <1>1, <2>1
<1>3. old \in Numbers /\ new = AfterTrade(old, final_rs[k])
  BY <1>1, StatsAreNumbers, StatsSteps
<1> HIDE DEF old, new
<1>4. /\ new \in Numbers
      /\ new.equity = old.equity + final_rs[k]
      /\ new.peak = IF old.peak >= new.equity THEN old.peak ELSE new.equity
      /\ new.drawdown = IF old.drawdown <= new.equity - new.peak
                        THEN old.drawdown ELSE new.equity - new.peak
  <2>1. new \in Numbers /\ Adds(new, old, final_rs[k])
    BY <1>1, <1>3, AfterTradeIs
  <2> QED BY <2>1 DEF Adds
<1>5. Falls(total, stats, k - 1)
  OBVIOUS
<1> HIDE DEF total, stats
<1>6. \A i \in 0 .. k : i \in 0 .. k - 1 \/ i = k
  BY <1>1
<1>7. /\ old.equity \in Int /\ old.peak \in Int /\ old.drawdown \in Int
      /\ new.equity \in Int /\ new.peak \in Int /\ new.drawdown \in Int
  BY <1>3, <1>4 DEF Numbers
<1>8. /\ new.equity = total[k]
      /\ \A i \in 0 .. k : total[i] <= new.peak
      /\ \E i \in 0 .. k : total[i] = new.peak
  <2>1. new.equity = total[k]
    BY <1>2, <1>4, <1>5 DEF Falls, old
  <2>2. ASSUME NEW i \in 0 .. k PROVE total[i] <= new.peak
    <3>1. CASE i = k
      BY <1>2, <1>4, <1>7, <2>1, <3>1
    <3>2. CASE i \in 0 .. k - 1
      <4>1. total[i] <= old.peak /\ total[i] \in Int
        BY <1>2, <1>5, <3>2 DEF Falls, old
      <4> QED BY <1>4, <1>7, <4>1
    <3> QED BY <1>6, <3>1, <3>2
  <2>3. PICK i \in 0 .. k - 1 : total[i] = old.peak
    BY <1>5 DEF Falls, old
  <2>4. \E j \in 0 .. k : total[j] = new.peak
    BY <1>1, <1>4, <2>1, <2>3
  <2> QED BY <2>1, <2>2, <2>4
<1>9. ASSUME NEW i \in 0 .. k, NEW j \in 0 .. k, i <= j
      PROVE  new.drawdown <= total[j] - total[i]
  <2>1. CASE j = k
    BY <1>2, <1>4, <1>7, <1>8, <2>1
  <2>2. CASE j # k
    <3>1. i \in 0 .. k - 1 /\ j \in 0 .. k - 1
      BY <1>1, <1>9, <2>2
    <3>2. old.drawdown <= total[j] - total[i]
      BY <1>5, <1>9, <3>1 DEF Falls, old
    <3> QED BY <1>2, <1>4, <1>7, <3>2
  <2> QED BY <2>1, <2>2
<1>10. \E i, j \in 0 .. k : i <= j /\ new.drawdown = total[j] - total[i]
  <2>1. CASE new.drawdown = old.drawdown
    <3>1. PICK i \in 0 .. k - 1, j \in 0 .. k - 1 : i <= j /\ old.drawdown = total[j] - total[i]
      BY <1>5 DEF Falls, old
    <3> QED BY <1>1, <2>1, <3>1
  <2>2. CASE new.drawdown = new.equity - new.peak
    <3>1. PICK i \in 0 .. k : total[i] = new.peak
      BY <1>8
    <3>2. k \in 0 .. k /\ i <= k
      BY <1>1
    <3> QED BY <1>8, <2>2, <3>1, <3>2
  <2> QED BY <1>4, <2>1, <2>2
<1> QED BY <1>8, <1>9, <1>10 DEF Falls, new, total, stats

\* One more result: it prolongs the losses or ends them.
LEMMA LosesStep ==
  ASSUME NEW final_rs \in Results, NEW k \in 1 .. Len(final_rs),
         Loses(final_rs, Stats(final_rs), k - 1)
  PROVE  Loses(final_rs, Stats(final_rs), k)
<1> DEFINE stats == Stats(final_rs)
           old == stats[k - 1]
           new == stats[k]
<1>1. k \in Nat /\ k > 0 /\ Len(final_rs) \in Nat /\ k <= Len(final_rs)
  BY DEF Results
<1>2. \A i \in 1 .. Len(final_rs) : final_rs[i] \in Int
  BY DEF Results
<1>3. old \in Numbers /\ new = AfterTrade(old, final_rs[k])
  BY <1>1, StatsAreNumbers, StatsSteps
<1> HIDE DEF old, new
<1>4. /\ new \in Numbers
      /\ new.losses = IF final_rs[k] <= 0 THEN old.losses + 1 ELSE 0
      /\ new.most = IF old.most >= new.losses THEN old.most ELSE new.losses
  <2>1. new \in Numbers /\ Adds(new, old, final_rs[k])
    BY <1>2, <1>3, AfterTradeIs
  <2> QED BY <2>1 DEF Adds
<1>5. Loses(final_rs, stats, k - 1)
  OBVIOUS
<1> HIDE DEF stats
<1>6. /\ old.losses \in Nat /\ old.most \in Nat /\ new.losses \in Nat /\ new.most \in Nat
  BY <1>3, <1>4 DEF Numbers
<1>7. /\ old.losses <= k - 1 /\ Losing(final_rs, k - 1 - old.losses, k - 1)
      /\ old.losses < k - 1 => final_rs[k - 1 - old.losses] > 0
      /\ \A i, j \in 0 .. k - 1 : i <= j /\ Losing(final_rs, i, j) => j - i <= old.most
      /\ \E i, j \in 0 .. k - 1 : i <= j /\ Losing(final_rs, i, j) /\ j - i = old.most
  BY <1>5 DEF Loses, old
<1>8. /\ new.losses <= k /\ Losing(final_rs, k - new.losses, k)
      /\ new.losses < k => final_rs[k - new.losses] > 0
  <2>1. CASE final_rs[k] <= 0
    <3>1. new.losses = old.losses + 1 /\ k - new.losses = k - 1 - old.losses
      BY <1>1, <1>4, <1>6, <2>1
    <3>2. \A m \in k - new.losses + 1 .. k : m = k \/ m \in (k - 1 - old.losses) + 1 .. k - 1
      BY <1>1, <1>6, <3>1
    <3> QED BY <1>1, <1>6, <1>7, <2>1, <3>1, <3>2 DEF Losing
  <2>2. CASE ~(final_rs[k] <= 0)
    <3>1. new.losses = 0 /\ k - new.losses = k /\ k + 1 .. k = {}
      BY <1>1, <1>4, <2>2
    <3>2. final_rs[k] > 0
      BY <1>1, <1>2, <2>2
    <3> QED BY <1>1, <3>1, <3>2 DEF Losing
  <2> QED BY <2>1, <2>2
<1>9. new.losses <= new.most /\ old.most <= new.most
  BY <1>4, <1>6
<1>10. ASSUME NEW i \in 0 .. k, NEW j \in 0 .. k, i <= j, Losing(final_rs, i, j)
       PROVE  j - i <= new.most
  <2>1. CASE j = k
    <3>1. ASSUME j - i > new.losses PROVE FALSE
      <4>1. k - new.losses \in i + 1 .. j /\ new.losses < k
        BY <1>1, <1>6, <2>1, <3>1
      <4>2. final_rs[k - new.losses] > 0 /\ final_rs[k - new.losses] <= 0
        BY <1>8, <1>10, <4>1 DEF Losing
      <4>3. k - new.losses \in 1 .. Len(final_rs)
        BY <1>1, <1>6, <4>1
      <4> QED BY <1>2, <4>2, <4>3
    <3> QED BY <1>1, <1>6, <1>9, <3>1
  <2>2. CASE j # k
    <3>1. i \in 0 .. k - 1 /\ j \in 0 .. k - 1
      BY <1>1, <1>10, <2>2
    <3>2. j - i <= old.most
      BY <1>7, <1>10, <3>1
    <3> QED BY <1>6, <1>9, <3>1, <3>2
  <2> QED BY <2>1, <2>2
<1>11. \E i, j \in 0 .. k : i <= j /\ Losing(final_rs, i, j) /\ j - i = new.most
  <2>1. CASE new.most = old.most
    <3>1. PICK i \in 0 .. k - 1, j \in 0 .. k - 1 :
            i <= j /\ Losing(final_rs, i, j) /\ j - i = old.most
      BY <1>7
    <3> QED BY <1>1, <2>1, <3>1
  <2>2. CASE new.most = new.losses
    <3>1. k - new.losses \in 0 .. k /\ k \in 0 .. k /\ k - (k - new.losses) = new.losses
      BY <1>1, <1>6, <1>8
    <3> QED BY <1>8, <2>2, <3>1
  <2> QED BY <1>4, <2>1, <2>2
<1> QED BY <1>8, <1>9, <1>10, <1>11 DEF Loses, new, stats

\* After all trades the loop has found the deepest fall and the longest run.
LEMMA StatsFollow ==
  ASSUME NEW final_rs \in Results
  PROVE  LET n == Len(final_rs)
         IN Falls(Total(final_rs), Stats(final_rs), n) /\ Loses(final_rs, Stats(final_rs), n)
<1> DEFINE Follows(k) == Falls(Total(final_rs), Stats(final_rs), k) /\ Loses(final_rs, Stats(final_rs), k)
           X == {k \in 0 .. Len(final_rs) : ~Follows(k)}
<1>1. Len(final_rs) \in Nat
  BY DEF Results
<1>2. SUFFICES ASSUME X # {} PROVE FALSE
  BY <1>1
<1>3. PICK k \in X : \A j \in X : k <= j
  <2>1. X \subseteq Nat
    BY <1>1
  <2> HIDE DEF X
  <2> QED BY <1>2, <2>1, LeastNatural
<1>4. CASE k = 0
  <2>1. Total(final_rs)[0] = 0 /\ Stats(final_rs)[0] = NoTradeYet
    BY TotalSteps, StatsSteps
  <2>2. \A i \in 0 .. 0 : i = 0
    OBVIOUS
  <2>3. Falls(Total(final_rs), Stats(final_rs), 0)
    BY <2>1, <2>2 DEF Falls, NoTradeYet
  <2>4. Loses(final_rs, Stats(final_rs), 0)
    BY <2>1, <2>2 DEF Loses, Losing, NoTradeYet
  <2> QED BY <1>3, <1>4, <2>3, <2>4
<1>5. CASE k # 0
  <2>1. k \in 1 .. Len(final_rs) /\ k - 1 \in 0 .. Len(final_rs) /\ k - 1 \notin X
    BY <1>1, <1>3, <1>5
  <2>2. Follows(k - 1)
    BY <2>1
  <2> QED BY <1>3, <2>1, <2>2, FallsStep, LosesStep
<1> QED BY <1>4, <1>5

LEMMA LeastIsMin ==
  ASSUME NEW S, S \subseteq Int, NEW x \in S, \A y \in S : x <= y
  PROVE  x = Min(S)
<1>1. Min(S) \in S /\ \A y \in S : Min(S) <= y
  BY DEF Min
<1>2. Min(S) <= x /\ x <= Min(S) /\ Min(S) \in Int /\ x \in Int
  BY <1>1
<1> QED BY <1>2

LEMMA GreatestIsMax ==
  ASSUME NEW S, S \subseteq Int, NEW x \in S, \A y \in S : y <= x
  PROVE  x = Max(S)
<1>1. Max(S) \in S /\ \A y \in S : y <= Max(S)
  BY DEF Max
<1>2. Max(S) <= x /\ x <= Max(S) /\ Max(S) \in Int /\ x \in Int
  BY <1>1
<1> QED BY <1>2

\* The same, as a minimum and a maximum over runs of results.
LEMMA StatsAreExtremes ==
  ASSUME NEW final_rs \in Results
  PROVE  LET n == Len(final_rs)
             runs == {run \in (0 .. n) \X (0 .. n) : run[1] <= run[2]}
             losing == {run \in runs : Losing(final_rs, run[1], run[2])}
             stats == Stats(final_rs)[n]
         IN /\ stats.drawdown = Min({Total(final_rs)[run[2]] - Total(final_rs)[run[1]] : run \in runs})
            /\ stats.most = Max({run[2] - run[1] : run \in losing})
<1> DEFINE n == Len(final_rs)
           runs == {run \in (0 .. n) \X (0 .. n) : run[1] <= run[2]}
           losing == {run \in runs : Losing(final_rs, run[1], run[2])}
           stats == Stats(final_rs)[n]
           total == Total(final_rs)
           falls == {total[run[2]] - total[run[1]] : run \in runs}
           lengths == {run[2] - run[1] : run \in losing}
<1>1. n \in Nat /\ n \in 0 .. n
  BY DEF Results
<1>2. /\ Falls(total, Stats(final_rs), n) /\ Loses(final_rs, Stats(final_rs), n)
      /\ total \in [0 .. n -> Int] /\ stats \in Numbers
  BY <1>1, StatsFollow, TotalSteps, StatsAreNumbers
<1>3. stats.drawdown \in Int /\ stats.most \in Int
  BY <1>2 DEF Numbers
<1> HIDE DEF n, stats, total
<1>4. falls \subseteq Int /\ lengths \subseteq Int
  BY <1>1, <1>2
<1>5. stats.drawdown \in falls /\ \A x \in falls : stats.drawdown <= x
  <2>1. PICK i \in 0 .. n, j \in 0 .. n : i <= j /\ stats.drawdown = total[j] - total[i]
    BY <1>2 DEF Falls, stats
  <2>2. <<i, j>> \in runs
    BY <2>1
  <2>3. stats.drawdown \in falls
    BY <2>1, <2>2
  <2>4. \A run \in runs : stats.drawdown <= total[run[2]] - total[run[1]]
    BY <1>2 DEF Falls, stats
  <2> QED BY <2>3, <2>4
<1>6. stats.most \in lengths /\ \A x \in lengths : x <= stats.most
  <2>1. PICK i \in 0 .. n, j \in 0 .. n :
          i <= j /\ Losing(final_rs, i, j) /\ j - i = stats.most
    BY <1>2 DEF Loses, stats
  <2>2. <<i, j>> \in losing
    BY <2>1
  <2>3. stats.most \in lengths
    BY <2>1, <2>2
  <2>4. \A run \in losing : run[2] - run[1] <= stats.most
    BY <1>2 DEF Loses, stats
  <2> QED BY <2>3, <2>4
<1> HIDE DEF falls, lengths
<1>7. stats.drawdown = Min(falls)
  BY <1>4, <1>5, LeastIsMin
<1>8. stats.most = Max(lengths)
  BY <1>4, <1>6, GreatestIsMax
<1> QED BY <1>7, <1>8 DEF falls, lengths, losing, runs, stats, total, n

----------------------------------------------------------------------------
(* Statistics: the median *)

\* The place of the k-th value among the sorted ones.
Rank(values, k) == Cardinality(UpTo(values, k))

LEMMA RankIsPlace ==
  ASSUME NEW values \in Results, NEW k \in 1 .. Len(values)
  PROVE  IsFiniteSet(UpTo(values, k)) /\ Rank(values, k) \in 1 .. Len(values)
<1>1. Len(values) \in Nat
  BY DEF Results
<1>2. k \in UpTo(values, k) /\ UpTo(values, k) \in SUBSET (1 .. Len(values))
  BY <1>1 DEF UpTo
<1>3. /\ IsFiniteSet(1 .. Len(values))
      /\ Cardinality(1 .. Len(values)) = IF 1 > Len(values) THEN 0 ELSE Len(values) - 1 + 1
  BY <1>1, FS_Interval
<1>4. IsFiniteSet(UpTo(values, k)) /\ Rank(values, k) <= Cardinality(1 .. Len(values))
  BY <1>2, <1>3, FS_Subset DEF Rank
<1>5. Rank(values, k) \in Nat /\ Rank(values, k) # 0
  BY <1>2, <1>4, FS_EmptySet, FS_CardinalityType DEF Rank
<1> QED BY <1>1, <1>3, <1>4, <1>5

\* A greater value has a later place, and of equal values the later one has.
LEMMA RanksGrow ==
  ASSUME NEW values \in Results, NEW k \in 1 .. Len(values), NEW l \in 1 .. Len(values),
         values[k] < values[l] \/ (values[k] = values[l] /\ k < l)
  PROVE  Rank(values, k) < Rank(values, l)
<1>1. Len(values) \in Nat /\ \A j \in 1 .. Len(values) : values[j] \in Int /\ j \in Int
  BY DEF Results
<1>2. UpTo(values, k) \in SUBSET UpTo(values, l)
  BY <1>1 DEF UpTo
<1>3. l \in UpTo(values, l) /\ l \notin UpTo(values, k)
  BY <1>1 DEF UpTo
<1>4. IsFiniteSet(UpTo(values, l)) /\ Rank(values, k) \in Nat /\ Rank(values, l) \in Nat
  BY <1>1, RankIsPlace
<1>5. Rank(values, k) <= Rank(values, l) /\ Rank(values, k) # Rank(values, l)
  BY <1>2, <1>3, <1>4, FS_Subset DEF Rank
<1> QED BY <1>4, <1>5

LEMMA RanksDiffer ==
  ASSUME NEW values \in Results, NEW k \in 1 .. Len(values), NEW l \in 1 .. Len(values), k # l
  PROVE  Rank(values, k) # Rank(values, l)
<1>1. k \in Int /\ l \in Int /\ values[k] \in Int /\ values[l] \in Int
  BY DEF Results
<1>2. \/ values[k] < values[l] \/ (values[k] = values[l] /\ k < l)
      \/ values[l] < values[k] \/ (values[l] = values[k] /\ l < k)
  BY <1>1
<1>3. Rank(values, k) < Rank(values, l) \/ Rank(values, l) < Rank(values, k)
  BY <1>2, RanksGrow
<1>4. Rank(values, k) \in 1 .. Len(values)
  BY RankIsPlace
<1> QED BY <1>3, <1>4

\* Values whose places are within bounds are no more than there are places.
LEMMA ValuesWithin ==
  ASSUME NEW values \in Results, NEW X, X \subseteq 1 .. Len(values),
         NEW low \in Int, NEW high \in Int, \A k \in X : Rank(values, k) \in low .. high
  PROVE  /\ IsFiniteSet(X) /\ Cardinality(X) \in Nat
         /\ Cardinality(X) <= IF low > high THEN 0 ELSE high - low + 1
<1> DEFINE rank == [k \in X |-> Rank(values, k)]
<1>1. rank \in Injection(X, low .. high)
  BY RanksDiffer DEF Injection, IsInjective
<1>2. /\ IsFiniteSet(low .. high)
      /\ Cardinality(low .. high) = IF low > high THEN 0 ELSE high - low + 1
  BY FS_Interval
<1> HIDE DEF rank
<1>3. IsFiniteSet(X) /\ Cardinality(X) <= Cardinality(low .. high)
  BY <1>1, <1>2, FS_Injection
<1> QED BY <1>2, <1>3, FS_CardinalityType

LEMMA EveryPlaceIsTaken ==
  ASSUME NEW values \in Results, NEW i \in 1 .. Len(values)
  PROVE  \E k \in 1 .. Len(values) : Rank(values, k) = i
<1> DEFINE places == 1 .. Len(values)
           rank == [k \in places |-> Rank(values, k)]
<1>1. rank \in Injection(places, places)
  BY RankIsPlace, RanksDiffer DEF Injection, IsInjective
<1>2. IsFiniteSet(places)
  BY FS_Interval DEF Results
<1>3. rank \in Surjection(places, places)
  <2> HIDE DEF rank, places
  <2> QED BY <1>1, <1>2, FS_Injection
<1>4. PICK k \in places : rank[k] = i
  BY <1>3 DEF Surjection
<1> QED BY <1>4

\* Each value is at its place, and the values rise from place to place.
LEMMA SortedIsRanked ==
  ASSUME NEW values \in Results, NEW k \in 1 .. Len(values)
  PROVE  Sorted(values)[Rank(values, k)] = values[k]
<1> DEFINE l == CHOOSE l \in 1 .. Len(values) : Rank(values, l) = Rank(values, k)
<1>1. l \in 1 .. Len(values) /\ Rank(values, l) = Rank(values, k)
  OBVIOUS
<1>2. Sorted(values)[Rank(values, k)] = values[l]
  BY RankIsPlace DEF Sorted, Rank
<1> HIDE DEF l
<1> QED BY <1>1, <1>2, RanksDiffer

LEMMA SortedRises ==
  ASSUME NEW values \in Results, NEW i \in 1 .. Len(values), NEW j \in 1 .. Len(values), i <= j
  PROVE  /\ Sorted(values)[i] \in Int /\ Sorted(values)[j] \in Int
         /\ Sorted(values)[i] <= Sorted(values)[j]
<1>1. PICK k \in 1 .. Len(values) : Rank(values, k) = i
  BY EveryPlaceIsTaken
<1>2. PICK l \in 1 .. Len(values) : Rank(values, l) = j
  BY EveryPlaceIsTaken
<1>3. Sorted(values)[i] = values[k] /\ Sorted(values)[j] = values[l]
  BY <1>1, <1>2, SortedIsRanked
<1>4. values[k] \in Int /\ values[l] \in Int /\ i \in Int /\ j \in Int
  BY DEF Results
<1>5. ~(values[l] < values[k])
  BY <1>1, <1>2, <1>4, RanksGrow
<1> QED BY <1>3, <1>4, <1>5

\* As many places as there are before the middle, or fewer, hold greater values than
\* the median, and so for lesser ones.
LEMMA MedianHalves ==
  ASSUME NEW values \in Results
  PROVE  LET n == Len(values)
         IN /\ 2 * Cardinality({k \in 1 .. n : 2 * values[k] > DoubleMedian(values)}) <= n
            /\ 2 * Cardinality({k \in 1 .. n : 2 * values[k] < DoubleMedian(values)}) <= n
<1> DEFINE n == Len(values)
           m == n \div 2
           at(k) == Rank(values, k)
           sorted == Sorted(values)
           median == DoubleMedian(values)
           above == {k \in 1 .. n : 2 * values[k] > median}
           under == {k \in 1 .. n : 2 * values[k] < median}
<1>1. n \in Nat /\ m \in Nat /\ (n = 2 * m \/ n = 2 * m + 1)
  BY DEF Results
<1>2. ASSUME NEW k \in 1 .. n
      PROVE  at(k) \in 1 .. n /\ values[k] \in Int /\ sorted[at(k)] = values[k]
  BY RankIsPlace, SortedIsRanked DEF Results
<1>3. \A i, j \in 1 .. n : i <= j => sorted[i] <= sorted[j] /\ sorted[i] \in Int /\ sorted[j] \in Int
  BY SortedRises
<1>4. ASSUME NEW X, X \subseteq 1 .. n, NEW low \in Int, NEW high \in Int,
             \A k \in X : at(k) \in low .. high,
             2 * (high - low + 1) <= n, low <= high + 1
      PROVE  2 * Cardinality(X) <= n
  <2>1. Cardinality(X) \in Nat /\ Cardinality(X) <= IF low > high THEN 0 ELSE high - low + 1
    BY <1>4, ValuesWithin
  <2> QED BY <1>1, <1>4, <2>1
<1>5. above \subseteq 1 .. n /\ under \subseteq 1 .. n
  OBVIOUS
<1>6. CASE n = 0
  <2>1. above = {} /\ under = {}
    BY <1>6
  <2> QED BY <1>6, <2>1, FS_EmptySet
<1>7. CASE n # 0 /\ n = 2 * m + 1
  <2>1. median = 2 * sorted[m + 1]
    <3>1. values # <<>> /\ n % 2 = 1
      BY <1>1, <1>7
    <3> QED BY <3>1 DEF DoubleMedian
  <2> HIDE DEF n, m, at, sorted, median
  <2>2. m + 1 \in 1 .. n /\ sorted[m + 1] \in Int
    BY <1>1, <1>3, <1>7
  <2>3. ASSUME NEW k \in above PROVE at(k) \in m + 2 .. n
    <3>1. ~(at(k) <= m + 1)
      BY <1>2, <1>3, <2>1, <2>2
    <3> QED BY <1>1, <1>2, <3>1
  <2>4. ASSUME NEW k \in under PROVE at(k) \in 1 .. m
    <3>1. ~(m + 1 <= at(k))
      BY <1>2, <1>3, <2>1, <2>2
    <3> QED BY <1>1, <1>2, <3>1
  <2> HIDE DEF above, under
  <2>5. 2 * Cardinality(above) <= n
    <3>1. m + 2 \in Int /\ n \in Int /\ 2 * (n - (m + 2) + 1) <= n /\ m + 2 <= n + 1
      BY <1>1, <1>7
    <3> QED BY <1>4, <1>5, <2>3, <3>1, Zenon
  <2>6. 2 * Cardinality(under) <= n
    <3>1. 1 \in Int /\ m \in Int /\ 2 * (m - 1 + 1) <= n /\ 1 <= m + 1
      BY <1>1, <1>7
    <3> QED BY <1>4, <1>5, <2>4, <3>1, Zenon
  <2> QED BY <2>5, <2>6 DEF n, median, above, under
<1>8. CASE n # 0 /\ n = 2 * m
  <2>1. median = sorted[m] + sorted[m + 1]
    <3>1. values # <<>> /\ n % 2 # 1
      BY <1>1, <1>8
    <3> QED BY <3>1 DEF DoubleMedian
  <2> HIDE DEF n, m, at, sorted, median
  <2>2. /\ m \in 1 .. n /\ m + 1 \in 1 .. n /\ sorted[m] <= sorted[m + 1]
        /\ sorted[m] \in Int /\ sorted[m + 1] \in Int
    BY <1>1, <1>3, <1>8
  <2>3. ASSUME NEW k \in above PROVE at(k) \in m + 1 .. n
    <3>1. ~(at(k) <= m)
      BY <1>2, <1>3, <2>1, <2>2
    <3> QED BY <1>1, <1>2, <3>1
  <2>4. ASSUME NEW k \in under PROVE at(k) \in 1 .. m
    <3>1. ~(m + 1 <= at(k))
      BY <1>2, <1>3, <2>1, <2>2
    <3> QED BY <1>1, <1>2, <3>1
  <2> HIDE DEF above, under
  <2>5. 2 * Cardinality(above) <= n
    <3>1. m + 1 \in Int /\ n \in Int /\ 2 * (n - (m + 1) + 1) <= n /\ m + 1 <= n + 1
      BY <1>1, <1>8
    <3> QED BY <1>4, <1>5, <2>3, <3>1, Zenon
  <2>6. 2 * Cardinality(under) <= n
    <3>1. 1 \in Int /\ m \in Int /\ 2 * (m - 1 + 1) <= n /\ 1 <= m + 1
      BY <1>1, <1>8
    <3> QED BY <1>4, <1>5, <2>4, <3>1, Zenon
  <2> QED BY <2>5, <2>6 DEF n, median, above, under
<1> QED BY <1>1, <1>6, <1>7, <1>8

(* The loop over the trades and the median of the sorted results compute what they are *)
(* named for, of every sequence of results: the deepest fall of the running total, the *)
(* longest run without a gain, and a value that halves the results                     *)
(* (backtest.py:307-320, 517-524).                                                     *)
THEOREM StatisticsAlwaysAgree ==
  /\ \A final_rs \in Results : StatisticsAgreeOn(final_rs)
  /\ Spec => []StatisticsAgree
<1>1. ASSUME NEW final_rs \in Results PROVE StatisticsAgreeOn(final_rs)
  <2> DEFINE n == Len(final_rs)
             runs == {run \in (0 .. n) \X (0 .. n) : run[1] <= run[2]}
  <2>1. {run \in runs : Losing(final_rs, run[1], run[2])}
          = {run \in runs : \A k \in run[1] + 1 .. run[2] : final_rs[k] <= 0}
    BY DEF Losing
  <2> QED BY <2>1, StatsAreExtremes, MedianHalves DEF StatisticsAgreeOn
<1>2. ASSUME NEW n \in 0 .. 4, NEW final_rs \in [1 .. n -> -2 .. 2]
      PROVE  StatisticsAgreeOn(final_rs)
  <2>1. n \in Nat /\ final_rs \in [1 .. n -> Int]
    OBVIOUS
  <2>2. final_rs \in Results
    BY <2>1 DEF Results
  <2> QED BY <1>1, <2>2
<1>3. StatisticsAgree
  BY <1>2 DEF StatisticsAgree
<1>4. Spec => []StatisticsAgree
  BY <1>3, PTL
<1> QED BY <1>1, <1>4
=============================================================================
