----------------------------- MODULE Structures -----------------------------
(***************************************************************************)
(* app/services/structures.py: what one scan of a symbol's 60-minute bars  *)
(* detects, and what it leaves in the StructureEvent table.                *)
(*                                                                         *)
(* A bar is the set of Facts that hold at it: prices, DIF, histogram and   *)
(* volume enter the code only through these.  A bar's time is its place in *)
(* the symbol's history, from 1.                                           *)
(***************************************************************************)
EXTENDS Integers, Sequences, FiniteSets

CONSTANTS
  Window,    \* bars a scan reads: the limit of _joined_series
  WarmUp,    \* bars at the start of the window that only serve as lookback
  MinHistory \* config.minimum_history_bars

ASSUME WindowAssumption ==
  Window \in Nat \ {0} /\ WarmUp \in Nat /\ MinHistory \in Nat

Sides == {"BOTTOM", "TOP"}

\* The conditions a bar has to meet to begin, confirm and end a structure,
\* but for those on what was detected before it.
Begins == [BOTTOM |-> "bottoms", TOP |-> "tops"]
Confirms == [BOTTOM |-> "rises", TOP |-> "falls"]
Ends == [BOTTOM |-> "breaksDown", TOP |-> "breaksUp"]

\* Facts that need an improving histogram never meet those that need a
\* weakening one.
Bars == {bar \in SUBSET {"bottoms", "rises", "breaksDown", "tops", "falls", "breaksUp"} :
           bar \cap {"bottoms", "rises"} = {} \/ bar \cap {"breaksDown", "tops", "falls"} = {}}

Passivation == [BOTTOM |-> "BOTTOM_PASSIVATION", TOP |-> "TOP_PASSIVATION"]
Structure == [BOTTOM |-> "BOTTOM_STRUCTURE", TOP |-> "TOP_STRUCTURE"]
Ending == [BOTTOM |-> "BOTTOM_FAILED", TOP |-> "TOP_INVALIDATED"]

None == 0

\* What a scan remembers of a side: the passivation and the structure it is in.
Nothing == [passivation |-> None, structure |-> None]

----------------------------------------------------------------------------
(* Detection *)

\* Mutant: a structure is confirmed again.
AfterBarConfirmsAgain(side, life, bar, ts) ==
  CASE life = Nothing /\ Begins[side] \in bar -> [life EXCEPT !.passivation = ts]
    [] life.passivation # None /\ Confirms[side] \in bar -> [life EXCEPT !.structure = ts]
    [] life.structure # None /\ Ends[side] \in bar -> Nothing
    [] OTHER -> life

\* _detect_at_index on one side, and what the loop of detect_latest_structures
\* remembers of it.
AfterBar(side, life, bar, ts) ==
  CASE life = Nothing /\ Begins[side] \in bar -> [life EXCEPT !.passivation = ts]
    [] life.passivation # None /\ life.structure = None /\ Confirms[side] \in bar ->
         [life EXCEPT !.structure = ts]
    [] life.structure # None /\ Ends[side] \in bar -> Nothing
    [] OTHER -> life

\* The StructureDetection, if any, of a bar that changes a side's life.
Found(side, before, after, ts) ==
  CASE after.passivation = ts -> {[type |-> Passivation[side], ts |-> ts, parent |-> None]}
    [] after.structure = ts ->
         {[type |-> Structure[side], ts |-> ts, parent |-> before.passivation]}
    [] before.structure # None /\ after.structure = None ->
         {[type |-> Ending[side], ts |-> ts, parent |-> before.structure]}
    [] OTHER -> {}

First(history) == IF Len(history) > Window THEN Len(history) - Window + 1 ELSE 1

\* The bars of a scan that can be detected at.
Examined(history) == (First(history) + WarmUp) .. Len(history)

Life(side, history) ==
  LET life[ts \in 0 .. Len(history)] ==
        IF ts \in Examined(history) THEN AfterBar(side, life[ts - 1], history[ts], ts)
        ELSE Nothing
  IN life

\* detect_latest_structures
Detections(history) ==
  IF Len(history) - First(history) + 1 < MinHistory THEN {}
  ELSE UNION {LET life == Life(side, history)
              IN UNION {Found(side, life[ts - 1], life[ts], ts) : ts \in Examined(history)} :
              side \in Sides}

----------------------------------------------------------------------------
(* The table *)

\* parent_event_type, by the type of a detection.
ParentType(type) ==
  CASE type = "BOTTOM_STRUCTURE" -> "BOTTOM_PASSIVATION"
    [] type = "BOTTOM_FAILED" -> "BOTTOM_STRUCTURE"
    [] type = "TOP_STRUCTURE" -> "TOP_PASSIVATION"
    [] type = "TOP_INVALIDATED" -> "TOP_STRUCTURE"
    [] OTHER -> "NONE"

\* r is the row that d names as its parent.
IsParent(r, d) == r.type = ParentType(d.type) /\ r.ts = d.parent

IsRow(r, d) == r.type = d.type /\ r.ts = d.ts

\* Mutant: a parent is marked by its type alone.
PersistedByType(rows, detections) ==
  LET new == {d \in detections : \A r \in rows : ~IsRow(r, d)}
      row(d) == [type |-> d.type, ts |-> d.ts, failed |-> FALSE, invalidated |-> FALSE,
                 parent |-> IF \E p \in rows \cup new : IsParent(p, d) THEN d.parent ELSE None]
      ended(r, types) == \E d \in new : d.type \in types /\ r.type = ParentType(d.type)
  IN {[r EXCEPT !.failed = @ \/ ended(r, {"BOTTOM_FAILED"}),
                !.invalidated = @ \/ ended(r, {"BOTTOM_FAILED", "TOP_INVALIDATED"})] :
        r \in rows \cup {row(d) : d \in new}}

\* persist_structure_detections, in the order of their times: a row is found
\* again by type and time, and only a new ending marks its parent.
Persisted(rows, detections) ==
  LET new == {d \in detections : \A r \in rows : ~IsRow(r, d)}
      row(d) == [type |-> d.type, ts |-> d.ts, failed |-> FALSE, invalidated |-> FALSE,
                 parent |-> IF \E p \in rows \cup new : IsParent(p, d) THEN d.parent ELSE None]
      ended(r, types) == \E d \in new : d.type \in types /\ IsParent(r, d)
  IN {[r EXCEPT !.failed = @ \/ ended(r, {"BOTTOM_FAILED"}),
                !.invalidated = @ \/ ended(r, {"BOTTOM_FAILED", "TOP_INVALIDATED"})] :
        r \in rows \cup {row(d) : d \in new}}

EventTypes == {Passivation[side] : side \in Sides} \cup {Structure[side] : side \in Sides}
                \cup {Ending[side] : side \in Sides}

EventRows == [type : EventTypes, ts : Nat \ {0}, parent : Nat,
              failed : BOOLEAN, invalidated : BOOLEAN]
=============================================================================
