----------------------- MODULE ScanPipelineProperties -----------------------
(***************************************************************************)
(* What the structures, the battle pool and the trade plans promise each   *)
(* other.                                                                  *)
(***************************************************************************)
EXTENDS ScanPipeline, PriceRules

CONSTANTS
  RankedItems,  \* bound: items of the rankings that are compared
  RankedScores  \* bound: their scores

ASSUME RankedAssumption == RankedItems \in Nat /\ RankedScores \subseteq Nat

CandidateRows == [status : {"NONE", "ACTIVE_TODAY", "CARRY_OVER", "DROPPED"},
                  active : BOOLEAN, last : 0 .. MaxDays]
PoolRows == [status : {"NONE", "ACTIVE"}, priority : {"S", "A", "B", "C"},
             direction : {"LONG", "SHORT", "RISK"},
             type : EventTypes \cup {"NONE"}, ts : Nat]
PlanRows == [type : PlanTypes, ts : Nat \ {0}]

\* The tables hold rows of their types (models.py), and a job only known steps.
TypeOK ==
  /\ bars \in [Symbols -> Seq(Bars)] /\ events \in [Symbols -> SUBSET EventRows]
  /\ candidate \in [Symbols -> CandidateRows] /\ pool \in [Symbols -> PoolRows]
  /\ plans \in [Symbols -> SUBSET PlanRows] /\ left \in [Runners -> Seq(Steps)]
  /\ today \in 0 .. MaxDays /\ aborts \in 0 .. MaxAborts
  /\ redrawn \in [Symbols -> 0 .. MaxRedrawn] /\ basis \in {"changed", "ranked", "planned"}

----------------------------------------------------------------------------
(* Structures *)

\* Scans repeat, overlap and may miss bars, and each looks at another window;
\* yet every confirmation and every ending in the table has its parent there,
\* earlier, and a structure carries the mark of failure exactly when a failure
\* names it (structures.py:300-346).
LineageIsComplete ==
  \A s \in Symbols : \A r \in events[s] :
    /\ ParentType(r.type) # "NONE" =>
         \E p \in events[s] : p.type = ParentType(r.type) /\ p.ts = r.parent /\ p.ts < r.ts
    /\ r.failed <=> \E d \in events[s] : d.type = "BOTTOM_FAILED" /\ r.type = "BOTTOM_STRUCTURE"
                                         /\ d.parent = r.ts

\* The life a scan rebuilds from its bars makes no second structure of a side
\* while a first one lives.  Two structures of a side without an ending between
\* them appear only once bars have left the window, when a scan sees another life
\* in what is left of it, or when a bar was redrawn (structures.py:64-95).
StructuresRepeatOnlyPastWindow ==
  \A s \in Symbols, side \in Sides : \A r, later \in events[s] :
    r.type = Structure[side] /\ later.type = Structure[side] /\ ~r.invalidated /\ r.ts < later.ts
      => First(bars[s]) > 1 \/ redrawn[s] > 0

----------------------------------------------------------------------------
(* The pool and the plans *)

\* Of every scoring of RankedItems items: S and A hold no more than their
\* capacities, who has the better score never has the lower priority, and an
\* item is below the class of its score only when that class is full
\* (battle_pool.py:29-40).  It speaks of Priorities alone, so it is asked of the
\* initial state only.
RankingIsFair ==
  Init => \A score \in [1 .. RankedItems -> RankedScores] :
    LET priority == Priorities(score)
        having(class) == Cardinality({i \in DOMAIN score : priority[i] = class})
        rank == [S |-> 0, A |-> 1, B |-> 2, C |-> 3]
    IN /\ having("S") <= SCapacity /\ having("A") <= ACapacity
       /\ \A i, j \in DOMAIN score : score[i] > score[j] => rank[priority[i]] <= rank[priority[j]]
       /\ \A i \in DOMAIN score :
            /\ rank[Class(score[i])] <= rank[priority[i]]
            /\ Class(score[i]) = "S" /\ priority[i] # "S" => having("S") = SCapacity
            /\ Class(score[i]) \in {"S", "A"} /\ priority[i] = "B" => having("A") = ACapacity

\* When nothing was scanned or screened between a ranking and the plans made
\* of it, a symbol has at most one active plan, is still a candidate with an
\* item in the pool, and its plan's structure has not failed and was not
\* invalidated, which generate_trade_plans itself does not ask
\* (battle_pool.py:166-181, trade_plan.py:25-62).
PlansFollowPool ==
  basis = "planned" =>
    \A s \in Symbols :
      /\ Cardinality(plans[s]) <= 1
      /\ \A p \in plans[s] :
           /\ candidate[s].active /\ pool[s].status = "ACTIVE"
           /\ \E r \in events[s] : r.type = p.type /\ r.ts = p.ts /\ ~r.failed /\ ~r.invalidated

Broken(s) == \E p \in plans[s], r \in events[s] : r.type = p.type /\ r.ts = p.ts /\ r.failed

\* A scan without ranking (the route scan-structures) may leave the plan of a
\* failed structure active; the hourly job ends it, whatever dies on the way
\* (pipeline.py:164-171, trade_plan.py:63-82).
FailedStructuresEndTheirPlans == \A s \in Symbols : Broken(s) ~> ~Broken(s)

----------------------------------------------------------------------------
(* The levels of the plans: they are asked of the initial state only *)

\* What is bought at the quote that triggered its plan is not sold at that quote,
\* whichever of the two syncs sees the fill first: the no-chase line of the plan,
\* the zones of the validator, the order's limit and the exits agree
\* (trade_plan.py:106-164, realtime_execution_validator.py:77, position_manager.py:110).
EntriesAreNotSoldAtOnce ==
  Init => \A item \in Items, quote \in Quotes :
    Triggers(item, quote) =>
      \A holding \in Holdings(item, quote) : Exit(holding, quote) = "NONE"

\* An order is sized by the distance from the plan's entry to its stop and filled
\* at up to the no-chase line: stopped at its stop it costs less than twice the
\* risk budget, or nothing is bought (sim_order_executor.py:36-51).
StopsCostUnderTwiceTheBudget ==
  Init => \A item \in Items, quote \in Quotes, budget \in Budgets :
    Triggers(item, quote) /\ Shares(Levels(item), budget) # 0 =>
      LossAtStop(item, quote, budget) < 2 * budget
=============================================================================
