---------------------------- MODULE ScanPipeline ----------------------------
(***************************************************************************)
(* From the market to the trade plans: app/services/pipeline.py and the    *)
(* services it calls, screener.py, data_ingestion.py, structures.py,       *)
(* battle_pool.py and trade_plan.py.  The jobs of the CLI and of the web   *)
(* process's worker take the pipeline lock, so one of them runs at a time; *)
(* two of the web process's routes run without it (main.py:742-762).       *)
(***************************************************************************)
EXTENDS Structures

CONSTANTS
  Symbols,     \* stock symbols: numbers, in alphabetical order
  Shapes,      \* [Symbols -> SUBSET Bars], the bars the market may make
  MaxBars,     \* [Symbols -> Nat], bound: a history of so many bars stays as it is
  Scores,      \* scores the ranking may give: their numbers are an input
  SCapacity,   \* items of priority S at most
  ACapacity,   \* items of priority A at most
  CarryDays,   \* days a candidate is carried without being selected again
  MaxDays,     \* bound: days
  MaxRedrawn,  \* bound: times a bar of a symbol is redrawn
  Jobs,        \* bound: [Runners -> SUBSET Seq(Steps)], those of JobsOf that are started
  MaxAborts    \* bound: jobs that die

ASSUME ScanAssumption ==
  /\ Symbols \subseteq Nat /\ Symbols # {} /\ IsFiniteSet(Symbols) /\ Scores \subseteq Nat
  /\ Shapes \in [Symbols -> SUBSET Bars] /\ MaxBars \in [Symbols -> Nat]
  /\ SCapacity \in Nat /\ ACapacity \in Nat /\ CarryDays \in Nat
  /\ MaxDays \in Nat /\ MaxAborts \in Nat /\ MaxRedrawn \in Nat

VARIABLES
  bars,      \* [Symbols -> Seq(Bars)], the 60-minute KLine rows and their indicators
  events,    \* [Symbols -> SUBSET EventRows], the StructureEvent table
  candidate, \* [Symbols -> CandidateRow], the CandidateStock table
  pool,      \* [Symbols -> PoolRow], the BattlePoolItem table (symbol is unique)
  plans,     \* [Symbols -> SUBSET PlanRow], the structures of the ACTIVE rows of TradePlan
  today,
  left,      \* [Runners -> Seq(Steps)], what each runner's job has still to do
  aborts,    \* jobs that have died
  redrawn,   \* [Symbols -> Nat], history: times a bar changed after it was first read
  basis      \* history: what has happened since the last ranking

tables == <<bars, events, candidate, pool, plans>>
vars == <<tables, today, left, aborts, redrawn, basis>>

----------------------------------------------------------------------------
(* Jobs *)

Steps == {"screen", "update", "scan", "rank", "plans"}
Runners == {"locked", "web"}

Hourly == <<"update", "scan", "rank", "plans">>

\* run_daily, run_60m, run_pipeline and the commands of a single step; the web
\* routes without the lock are scan-structures and run-pipeline.
JobsOf(r) ==
  IF r = "web" THEN {<<"scan">>, <<"scan", "rank", "plans">>}
  ELSE {<<"screen">> \o Hourly, Hourly, <<"scan", "rank", "plans">>}
         \cup {<<step>> : step \in Steps}

Start(r, job) ==
  /\ left[r] = <<>>
  /\ left' = [left EXCEPT ![r] = job]
  /\ UNCHANGED <<tables, today, aborts, redrawn, basis>>

\* A provider that raises, a kill or a timeout: each step has its own commits.
Abort(r) ==
  /\ left[r] # <<>> /\ aborts < MaxAborts
  /\ left' = [left EXCEPT ![r] = <<>>] /\ aborts' = aborts + 1
  /\ UNCHANGED <<tables, today, redrawn, basis>>

At(r, step) ==
  /\ left[r] # <<>> /\ Head(left[r]) = step
  /\ left' = [left EXCEPT ![r] = Tail(left[r])]
  /\ UNCHANGED <<today, aborts>>

NextDay ==
  /\ today < MaxDays /\ today' = today + 1
  /\ UNCHANGED <<tables, left, aborts, redrawn, basis>>

----------------------------------------------------------------------------
(* screen_market and update_market_data *)

NoCandidate == [status |-> "NONE", active |-> FALSE, last |-> 0]

\* No code gives a candidate one of the three statuses.
Carried(row) ==
  today - row.last <= CarryDays \/ row.status \in {"BATTLE_ACTIVE", "PLAN_ACTIVE", "IN_POSITION"}

Screened(selected) ==
  [s \in Symbols |->
     IF s \in selected THEN [status |-> "ACTIVE_TODAY", active |-> TRUE, last |-> today]
     ELSE IF ~candidate[s].active THEN candidate[s]
     ELSE IF Carried(candidate[s]) THEN [candidate[s] EXCEPT !.status = "CARRY_OVER"]
     ELSE [candidate[s] EXCEPT !.status = "DROPPED", !.active = FALSE]]

\* The tables a ranking reads have changed, or are as they were.
Touches(changed) == basis' = IF changed THEN "changed" ELSE basis

Screen(r) ==
  /\ At(r, "screen")
  /\ \E selected \in SUBSET Symbols : candidate' = Screened(selected)
  /\ Touches(candidate' # candidate)
  /\ UNCHANGED <<bars, events, pool, plans, redrawn>>

\* What a reading of the provider makes of a symbol's bars: nothing new, a new
\* bar, or the last one, still forming, with other facts.
Updated(s) ==
  LET shapes == IF Len(bars[s]) < MaxBars[s] THEN Shapes[s] ELSE {}
      redraws == bars[s] # <<>> /\ redrawn[s] < MaxRedrawn
  IN {bars[s]} \cup {Append(bars[s], bar) : bar \in shapes}
       \cup {[bars[s] EXCEPT ![Len(bars[s])] = bar] : bar \in IF redraws THEN shapes ELSE {}}

\* run_update_market_data screens first when it finds no candidate.  A symbol
\* whose reading fails keeps its bars.
Update(r) ==
  /\ At(r, "update")
  /\ \/ (\E s \in Symbols : candidate[s].active) /\ candidate' = candidate
     \/ /\ \A s \in Symbols : ~candidate[s].active
        /\ \E selected \in SUBSET Symbols : candidate' = Screened(selected)
  /\ \E updated \in [Symbols -> UNION {Updated(s) : s \in Symbols}] :
       /\ \A s \in Symbols : updated[s] \in IF candidate'[s].active THEN Updated(s) ELSE {bars[s]}
       /\ bars' = updated
  /\ redrawn' = [s \in Symbols |-> IF \E ts \in DOMAIN bars[s] : bars'[s][ts] # bars[s][ts]
                                  THEN redrawn[s] + 1 ELSE redrawn[s]]
  /\ Touches(candidate' # candidate)
  /\ UNCHANGED <<events, pool, plans>>

----------------------------------------------------------------------------
(* run_scan_structures *)

\* symbol_data_status leaves out symbols whose data is missing, anomalous or stale.
Readable == SUBSET {s \in Symbols : candidate[s].active}

\* The symbols commit one by one, and nothing reads between two of them.
Scan(r) ==
  /\ At(r, "scan")
  /\ \E ready \in Readable :
       events' = [s \in Symbols |-> IF s \in ready THEN Persisted(events[s], Detections(bars[s]))
                                    ELSE events[s]]
  /\ Touches(events' # events)
  /\ UNCHANGED <<bars, candidate, pool, plans, redrawn>>

----------------------------------------------------------------------------
(* rank_battle_pool *)

Ranked == {s \in Symbols : candidate[s].active /\ events[s] # {}}

\* _latest_structure_events; the query leaves the order of equal times open.
Latest(s) == {r \in events[s] : \A other \in events[s] : other.ts <= r.ts}

\* The class of a score, before capacities.
Class(score) ==
  IF score >= 85 THEN "S" ELSE IF score >= 70 THEN "A" ELSE IF score >= 50 THEN "B" ELSE "C"

\* Mutant: one item too many in each class.
PlacedOneMore(class, count) ==
  LET served == IF class = "S" /\ count["S"] > SCapacity THEN "A" ELSE class
  IN IF served = "A" /\ count["A"] > ACapacity THEN "B" ELSE served

\* Who finds no place in S goes on to A, and who finds none there to B.
Placed(class, count) ==
  LET served == IF class = "S" /\ count["S"] >= SCapacity THEN "A" ELSE class
  IN IF served = "A" /\ count["A"] >= ACapacity THEN "B" ELSE served

\* Best scores are served first, equal ones by symbol.
Priorities(score) ==
  LET before(s) == {t \in DOMAIN score : score[t] > score[s] \/ (score[t] = score[s] /\ t < s)}
      placed[s \in DOMAIN score] ==
        Placed(Class(score[s]),
               [class \in {"S", "A"} |-> Cardinality({t \in before(s) : placed[t] = class})])
  IN placed

Direction(type, bearish) ==
  IF type \in {"BOTTOM_PASSIVATION", "BOTTOM_STRUCTURE", "TOP_INVALIDATED"} THEN "LONG"
  ELSE IF type = "TOP_STRUCTURE" /\ bearish THEN "SHORT" ELSE "RISK"

\* No item, or an archived one: nothing reads it before it is ranked again.
NoItem == [status |-> "NONE", priority |-> "C", direction |-> "RISK",
           type |-> "NONE", ts |-> None]

\* Mutant: items of symbols that are not ranked any more stay active.
UnrankedKept(s) == pool[s]

\* Every active item is archived before those of the ranking are written.
Unranked(s) == NoItem

\* score_structure_event weighs the daily state, the age and the clarity of the
\* event, the candidate's rank and the distance of the stop.
Scorings == [Ranked -> Scores]

Rank(r) ==
  /\ At(r, "rank")
  /\ \E score \in Scorings, bearish \in SUBSET Ranked,
        latest \in [Ranked -> UNION {Latest(s) : s \in Ranked}] :
       /\ \A s \in Ranked : latest[s] \in Latest(s)
       /\ pool' = [s \in Symbols |->
                     IF s \notin Ranked THEN Unranked(s)
                     ELSE [status |-> "ACTIVE", priority |-> Priorities(score)[s],
                           direction |-> Direction(latest[s].type, s \in bearish),
                           type |-> latest[s].type, ts |-> latest[s].ts]]
  /\ basis' = "ranked"
  /\ UNCHANGED <<bars, events, candidate, plans, redrawn>>

----------------------------------------------------------------------------
(* generate_trade_plans *)

PlanTypes == {"BOTTOM_STRUCTURE", "TOP_STRUCTURE", "TOP_INVALIDATED"}

\* Mutant: also the passivations make plans.
PlannedFromAnything ==
  {s \in Symbols : pool[s].status = "ACTIVE" /\ pool[s].priority \in {"S", "A"}
                   /\ pool[s].direction # "RISK"}

Planned ==
  {s \in Symbols : pool[s].status = "ACTIVE" /\ pool[s].priority \in {"S", "A"}
                   /\ pool[s].direction # "RISK" /\ pool[s].type \in PlanTypes}

\* Mutant: ACTIVE is missing in the statuses that are swept.
Unswept(s, made) == plans[s] \cup made

\* The plans of a symbol that are not made again are INVALIDATED, whatever their
\* status was.
Swept(s, made) == made

\* build_trade_plan_values may find no ATR or no usable stop.
Priced == SUBSET Planned

Generate(r) ==
  /\ At(r, "plans")
  /\ \E priced \in Priced :
       plans' = [s \in Symbols |->
                   Swept(s, IF s \in priced THEN {[type |-> pool[s].type, ts |-> pool[s].ts]} ELSE {})]
  /\ basis' = IF basis = "changed" THEN "changed" ELSE "planned"
  /\ UNCHANGED <<bars, events, candidate, pool, redrawn>>

----------------------------------------------------------------------------
Init ==
  /\ bars = [s \in Symbols |-> <<>>] /\ events = [s \in Symbols |-> {}]
  /\ candidate = [s \in Symbols |-> NoCandidate]
  /\ pool = [s \in Symbols |-> NoItem] /\ plans = [s \in Symbols |-> {}]
  /\ today = 0 /\ left = [r \in Runners |-> <<>>] /\ aborts = 0
  /\ redrawn = [s \in Symbols |-> 0] /\ basis = "changed"

Step(r) == Screen(r) \/ Update(r) \/ Scan(r) \/ Rank(r) \/ Generate(r)

Next ==
  \/ \E r \in Runners : Step(r) \/ Abort(r) \/ \E job \in JobsOf(r) \cap Jobs[r] : Start(r, job)
  \/ NextDay

Spec == Init /\ [][Next]_vars

\* The timer starts the hourly job again and again, and a job that runs goes on.
FairSpec ==
  /\ Spec /\ SF_vars(Start("locked", Hourly))
  /\ \A r \in Runners : WF_vars(Step(r))
=============================================================================
