------------------------- MODULE ScanPipelineProofs -------------------------
(***************************************************************************)
(* What ScanPipelineProperties claims of the structures, the ranking, the  *)
(* plans and their prices, for histories, windows and pools of any size.   *)
(*                                                                         *)
(* Life and Priorities are recursive functions.  That they satisfy their   *)
(* equations, and what they compute, is proved without the induction       *)
(* theorems: of the places where a claim fails, the first one is looked    *)
(* at.                                                                     *)
(***************************************************************************)
EXTENDS ScanPipelineProperties, FirstPlaces, TLAPS

----------------------------------------------------------------------------
(* The life of a structure *)

\* What a scan remembers of a side after bar ts, from what it remembered before.
LifeAt(side, history, life, ts) ==
  IF ts \in Examined(history) THEN AfterBar(side, life[ts - 1], history[ts], ts) ELSE Nothing

\* Bars that are examined come after the start of the history.
LEMMA ExaminedBars ==
  ASSUME NEW history \in Seq(Bars)
  PROVE  /\ Len(history) \in Nat /\ First(history) \in Nat \ {0}
         /\ Examined(history) \subseteq 1 .. Len(history)
BY WindowAssumption DEF Examined, First

\* The function that Life defines exists: it remembers of each bar what it should.
LEMMA LifeUnfolds ==
  ASSUME NEW side, NEW history \in Seq(Bars)
  PROVE  LET life == Life(side, history)
         IN life = [ts \in 0 .. Len(history) |-> LifeAt(side, history, life, ts)]
<1> DEFINE Fits(g, n) == g = [ts \in 0 .. n |-> LifeAt(side, history, g, ts)]
           X == {n \in 0 .. Len(history) : ~\E g : Fits(g, n)}
<1>1. Len(history) \in Nat /\ Examined(history) \subseteq 1 .. Len(history)
  BY ExaminedBars
<1>2. X = {}
  <2>1. SUFFICES ASSUME X # {} PROVE FALSE
    OBVIOUS
  <2>2. PICK n \in X : \A k \in X : n <= k
    <3>1. X \subseteq Nat
      BY <1>1
    <3> HIDE DEF X
    <3> QED BY <2>1, <3>1, LeastNatural
  <2>3. n \in Nat /\ n <= Len(history)
    BY <1>1
  <2>4. CASE n = 0
    <3>1. Fits([ts \in 0 .. 0 |-> Nothing], 0)
      BY <1>1 DEF LifeAt
    <3> QED BY <2>4, <3>1
  <2>5. CASE n > 0
    <3>1. n - 1 \notin X /\ n - 1 \in 0 .. Len(history)
      BY <2>2, <2>3, <2>5
    <3>2. PICK g : Fits(g, n - 1)
      BY <3>1
    <3> DEFINE h == [ts \in 0 .. n |-> IF ts = n THEN LifeAt(side, history, g, n) ELSE g[ts]]
    <3>3. ASSUME NEW ts \in 0 .. n PROVE h[ts] = LifeAt(side, history, h, ts)
      <4>1. ts \in Examined(history) => h[ts - 1] = g[ts - 1]
        BY <1>1, <2>3, <2>5
      <4>2. LifeAt(side, history, h, ts) = LifeAt(side, history, g, ts)
        BY <4>1 DEF LifeAt
      <4>3. CASE ts = n
        BY <4>2, <4>3
      <4>4. CASE ts # n
        <5>1. ts \in 0 .. n - 1
          BY <2>3, <4>4
        <5>2. g[ts] = LifeAt(side, history, g, ts)
          BY <3>2, <5>1
        <5> QED BY <4>2, <4>4, <5>2
      <4> QED BY <4>3, <4>4
    <3>4. Fits(h, n)
      BY <3>3
    <3> QED BY <3>4
  <2> QED BY <2>3, <2>4, <2>5
<1>3. \E g : Fits(g, Len(history))
  BY <1>1, <1>2
<1>4. Life(side, history) = CHOOSE g : Fits(g, Len(history))
  BY DEF Life, LifeAt
<1>5. Fits(Life(side, history), Len(history))
  <2> HIDE DEF Fits
  <2> QED BY <1>3, <1>4
<1> QED BY <1>5

\* What a scan can remember of a side.
Memories(history) == [passivation : {None} \cup Examined(history),
                      structure : {None} \cup Examined(history)]

\* The four things a bar can do to a side.
Passivates(before, after, ts) ==
  before = Nothing /\ after = [passivation |-> ts, structure |-> None]
Builds(before, after, ts) ==
  /\ before.passivation # None /\ before.structure = None
  /\ after = [passivation |-> before.passivation, structure |-> ts]
Closes(before, after) == before.structure # None /\ after = Nothing

\* A bar passivates, confirms or ends, or leaves the side as it is.
LEMMA BarCases ==
  ASSUME NEW side \in Sides, NEW history \in Seq(Bars), NEW before \in Memories(history),
         NEW bar \in Bars, NEW ts \in Nat
  PROVE  LET after == AfterBar(side, before, bar, ts)
         IN Passivates(before, after, ts) \/ Builds(before, after, ts)
              \/ Closes(before, after) \/ after = before
<1>1. before \in [passivation : Nat, structure : Nat]
  BY ExaminedBars DEF Memories, None
<1> HIDE DEF Memories
<1>2. before = [passivation |-> before.passivation, structure |-> before.structure]
  BY <1>1
<1>3. CASE before = Nothing /\ Begins[side] \in bar
  BY <1>3 DEF AfterBar, Passivates, Nothing
<1>4. CASE /\ before.passivation # None /\ before.structure = None /\ Confirms[side] \in bar
  <2>1. before # Nothing
    BY <1>4 DEF Nothing
  <2>2. AfterBar(side, before, bar, ts) = [before EXCEPT !.structure = ts]
    BY <1>4, <2>1 DEF AfterBar
  <2>3. [before EXCEPT !.structure = ts]
          = [passivation |-> before.passivation, structure |-> ts]
    BY <1>2
  <2> QED BY <1>4, <2>2, <2>3 DEF Builds
<1>5. CASE before.structure # None /\ Ends[side] \in bar
  <2>1. before # Nothing
    BY <1>5 DEF Nothing
  <2> QED BY <1>5, <2>1 DEF AfterBar, Closes
<1>6. CASE /\ ~(before = Nothing /\ Begins[side] \in bar)
           /\ ~(before.passivation # None /\ before.structure = None /\ Confirms[side] \in bar)
           /\ ~(before.structure # None /\ Ends[side] \in bar)
  BY <1>6 DEF AfterBar
<1> QED BY <1>3, <1>4, <1>5, <1>6

\* A passivation or structure that is remembered was detected at its own bar, and
\* the structure of a passivation comes later.
Remembers(history, life, ts) ==
  /\ life[ts] \in Memories(history)
  /\ LET p == life[ts].passivation
         c == life[ts].structure
     IN /\ p # None => p <= ts /\ life[p] = [passivation |-> p, structure |-> None]
                               /\ life[p - 1] = Nothing
        /\ c # None => /\ p # None /\ p < c /\ c <= ts
                       /\ life[c] = [passivation |-> p, structure |-> c]
                       /\ life[c - 1] = [passivation |-> p, structure |-> None]

\* At every bar of a scan.
LEMMA LifeRemembers ==
  ASSUME NEW side \in Sides, NEW history \in Seq(Bars)
  PROVE  \A ts \in 0 .. Len(history) : Remembers(history, Life(side, history), ts)
<1> DEFINE life == Life(side, history)
           X == {ts \in 0 .. Len(history) : ~Remembers(history, life, ts)}
<1>1. Len(history) \in Nat /\ Examined(history) \subseteq 1 .. Len(history)
  BY ExaminedBars
<1>2. \A ts \in 0 .. Len(history) : life[ts] = LifeAt(side, history, life, ts)
  <2>1. life = [ts \in 0 .. Len(history) |-> LifeAt(side, history, life, ts)]
    BY LifeUnfolds
  <2> HIDE DEF life
  <2> QED BY <2>1
<1> HIDE DEF life
<1>3. SUFFICES ASSUME X # {} PROVE FALSE
  BY DEF life
<1>4. PICK ts \in X : \A k \in X : ts <= k
  <2>1. X \subseteq Nat
    BY <1>1
  <2> HIDE DEF X
  <2> QED BY <1>3, <2>1, LeastNatural
<1>5. ts \in Nat /\ ts <= Len(history) /\ ~Remembers(history, life, ts)
  BY <1>1
<1>6. CASE ts \notin Examined(history)
  <2>1. life[ts] = Nothing
    BY <1>2, <1>5, <1>6 DEF LifeAt
  <2> QED BY <1>5, <2>1 DEF Remembers, Memories, Nothing, None
<1>7. CASE ts \in Examined(history)
  <2>1. ts - 1 \in 0 .. Len(history) /\ ts \in 1 .. Len(history)
    BY <1>1, <1>7
  <2>2. Remembers(history, life, ts - 1)
    BY <1>4, <1>5, <2>1
  <2>3. life[ts] = AfterBar(side, life[ts - 1], history[ts], ts)
    BY <1>2, <1>5, <1>7 DEF LifeAt
  <2>4. history[ts] \in Bars
    BY <2>1
  <2> DEFINE before == life[ts - 1]
             after == life[ts]
  <2>5. before \in Memories(history)
    BY <2>2 DEF Remembers
  <2>6. \/ Passivates(before, after, ts) \/ Builds(before, after, ts)
        \/ Closes(before, after) \/ after = before
    BY <1>5, <2>3, <2>4, <2>5, BarCases
  <2>7. CASE Passivates(before, after, ts)
    BY <1>1, <1>5, <1>7, <2>7 DEF Remembers, Memories, Passivates, None
  <2>8. CASE Builds(before, after, ts)
    <3>1. before = [passivation |-> before.passivation, structure |-> None]
      BY <2>5, <2>8 DEF Memories, Builds
    <3>2. /\ before.passivation # None /\ before.passivation <= ts - 1
          /\ life[before.passivation] = [passivation |-> before.passivation, structure |-> None]
          /\ life[before.passivation - 1] = Nothing
      BY <2>2, <2>8 DEF Remembers, Builds
    <3> QED BY <1>1, <1>5, <1>7, <2>5, <2>8, <3>1, <3>2 DEF Remembers, Memories, Builds, None
  <2>9. CASE Closes(before, after)
    BY <1>5, <2>9 DEF Remembers, Memories, Closes, Nothing, None
  <2>10. CASE after = before
    <3>1. \A n \in {before.passivation, before.structure} : n # None => n \in Nat
      BY <1>1, <2>5 DEF Memories
    <3> QED BY <1>5, <2>1, <2>2, <2>10, <3>1 DEF Remembers
  <2> QED BY <2>6, <2>7, <2>8, <2>9, <2>10
<1> QED BY <1>6, <1>7
----------------------------------------------------------------------------
(* Detections *)

\* What the scan of a history finds at a bar, on one side.
FoundAt(side, history, ts) ==
  LET life == Life(side, history) IN Found(side, life[ts - 1], life[ts], ts)

\* The side after an examined bar, from what it was before.
LEMMA LifeCases ==
  ASSUME NEW side \in Sides, NEW history \in Seq(Bars), NEW ts \in Examined(history)
  PROVE  LET life == Life(side, history)
         IN /\ Remembers(history, life, ts) /\ Remembers(history, life, ts - 1)
            /\ life[ts] = AfterBar(side, life[ts - 1], history[ts], ts)
            /\ \/ Passivates(life[ts - 1], life[ts], ts) \/ Builds(life[ts - 1], life[ts], ts)
               \/ Closes(life[ts - 1], life[ts]) \/ life[ts] = life[ts - 1]
<1> DEFINE life == Life(side, history)
<1>1. ts \in Nat /\ ts \in 1 .. Len(history) /\ ts - 1 \in 0 .. Len(history) /\ Len(history) \in Nat
  BY ExaminedBars
<1>2. life[ts] = AfterBar(side, life[ts - 1], history[ts], ts)
  <2>1. life = [k \in 0 .. Len(history) |-> LifeAt(side, history, life, k)]
    BY LifeUnfolds
  <2> HIDE DEF life
  <2> QED BY <1>1, <2>1 DEF LifeAt
<1>3. Remembers(history, life, ts) /\ Remembers(history, life, ts - 1)
  BY <1>1, LifeRemembers
<1>4. history[ts] \in Bars /\ life[ts - 1] \in Memories(history)
  BY <1>1, <1>3 DEF Remembers
<1> HIDE DEF life
<1>5. \/ Passivates(life[ts - 1], life[ts], ts) \/ Builds(life[ts - 1], life[ts], ts)
      \/ Closes(life[ts - 1], life[ts]) \/ life[ts] = life[ts - 1]
  BY <1>1, <1>2, <1>4, BarCases
<1> QED BY <1>2, <1>3, <1>5 DEF life

\* What is found at a bar, in the four cases.
LEMMA FoundCases ==
  ASSUME NEW side \in Sides, NEW history \in Seq(Bars), NEW ts \in Examined(history)
  PROVE  LET before == Life(side, history)[ts - 1]
             after == Life(side, history)[ts]
             found == FoundAt(side, history, ts)
         IN /\ Passivates(before, after, ts) =>
                 found = {[type |-> Passivation[side], ts |-> ts, parent |-> None]}
            /\ Builds(before, after, ts) =>
                 found = {[type |-> Structure[side], ts |-> ts, parent |-> before.passivation]}
            /\ Closes(before, after) =>
                 found = {[type |-> Ending[side], ts |-> ts, parent |-> before.structure]}
            /\ after = before => found = {}
<1> DEFINE life == Life(side, history)
           before == life[ts - 1]
           after == life[ts]
<1>1. ts \in Nat \ {0} /\ Examined(history) \subseteq Nat \ {0}
  BY ExaminedBars
<1>2. /\ Remembers(history, life, ts - 1) /\ before \in Memories(history)
      /\ \/ Passivates(before, after, ts) \/ Builds(before, after, ts)
         \/ Closes(before, after) \/ after = before
  BY LifeCases DEF Remembers
<1>3. FoundAt(side, history, ts) = Found(side, before, after, ts)
  BY DEF FoundAt
<1>4. before.passivation # ts /\ before.structure # ts
  BY <1>1, <1>2 DEF Remembers, Memories, None
<1> HIDE DEF life
<1>5. ASSUME Passivates(before, after, ts)
      PROVE  Found(side, before, after, ts)
               = {[type |-> Passivation[side], ts |-> ts, parent |-> None]}
  <2>1. before.structure = None /\ after.passivation = ts /\ after.structure # ts
    BY <1>1, <1>5 DEF Passivates, Nothing, None
  <2> QED BY <2>1 DEF Found
<1>6. ASSUME Builds(before, after, ts)
      PROVE  Found(side, before, after, ts)
               = {[type |-> Structure[side], ts |-> ts, parent |-> before.passivation]}
  <2>1. before.structure = None /\ after.passivation # ts /\ after.structure = ts
    BY <1>4, <1>6 DEF Builds
  <2> QED BY <2>1 DEF Found
<1>7. ASSUME Closes(before, after)
      PROVE  Found(side, before, after, ts)
               = {[type |-> Ending[side], ts |-> ts, parent |-> before.structure]}
  <2>1. /\ before.structure # None /\ after.structure = None
        /\ after.passivation # ts /\ after.structure # ts
    BY <1>1, <1>7 DEF Closes, Nothing, None
  <2> QED BY <2>1 DEF Found
<1>8. ASSUME after = before
      PROVE  Found(side, before, after, ts) = {}
  <2>1. /\ after.passivation # ts /\ after.structure # ts
        /\ ~(before.structure # None /\ after.structure = None)
    BY <1>4, <1>8
  <2> QED BY <2>1 DEF Found
<1> QED BY <1>3, <1>5, <1>6, <1>7, <1>8 DEF life

DetectionRows == [type : EventTypes, ts : Nat \ {0}, parent : Nat]

\* A detection is of a known type, from an examined bar, and no passivation has a parent.
DetectionFits(history, d) ==
  /\ d \in DetectionRows /\ d.ts \in Examined(history)
  /\ ParentType(d.type) = "NONE" => d.parent = None
  /\ ParentType(d.type) # "NONE" => d.parent # None /\ d.parent < d.ts

\* The names of the six types, from their sides.
LEMMA TypeNames ==
  ASSUME NEW side \in Sides
  PROVE  /\ Passivation[side] \in EventTypes /\ ParentType(Passivation[side]) = "NONE"
         /\ Structure[side] \in EventTypes /\ ParentType(Structure[side]) = Passivation[side]
         /\ Ending[side] \in EventTypes /\ ParentType(Ending[side]) = Structure[side]
         /\ Passivation[side] # "NONE" /\ Structure[side] # "NONE"
         /\ Structure[side] \notin {Passivation["BOTTOM"], Passivation["TOP"]}
BY DEF Sides, Passivation, Structure, Ending, EventTypes, ParentType

\* What a bar gives is a detection that fits, and its parent was found at the parent's bar.
LEMMA FoundFit ==
  ASSUME NEW side \in Sides, NEW history \in Seq(Bars), NEW ts \in Examined(history),
         NEW d \in FoundAt(side, history, ts)
  PROVE  /\ DetectionFits(history, d) /\ d.ts = ts
         /\ ParentType(d.type) # "NONE" =>
              /\ d.parent \in Examined(history)
              /\ \E p \in FoundAt(side, history, d.parent) : IsParent(p, d)
<1> DEFINE life == Life(side, history)
           before == life[ts - 1]
           after == life[ts]
<1>1. ts \in Nat \ {0} /\ Examined(history) \subseteq Nat \ {0}
  BY ExaminedBars
<1>2. Remembers(history, life, ts - 1) /\ before \in Memories(history)
  BY LifeCases DEF Remembers
<1>3. CASE Passivates(before, after, ts)
  <2>1. d = [type |-> Passivation[side], ts |-> ts, parent |-> None]
    BY <1>3, FoundCases
  <2> QED BY <1>1, <2>1, TypeNames DEF DetectionFits, DetectionRows, None
<1>4. CASE Builds(before, after, ts)
  <2>1. d = [type |-> Structure[side], ts |-> ts, parent |-> before.passivation]
    BY <1>4, FoundCases
  <2> DEFINE p == before.passivation
  <2>2. /\ p \in Examined(history) /\ p <= ts - 1 /\ p # None
        /\ life[p] = [passivation |-> p, structure |-> None] /\ life[p - 1] = Nothing
    BY <1>2, <1>4 DEF Remembers, Memories, Builds
  <2> HIDE DEF p
  <2>3. FoundAt(side, history, p) = {[type |-> Passivation[side], ts |-> p, parent |-> None]}
    <3>1. Passivates(life[p - 1], life[p], p)
      BY <2>2 DEF Passivates
    <3> QED BY <2>2, <3>1, FoundCases
  <2>4. IsParent([type |-> Passivation[side], ts |-> p, parent |-> None], d)
    BY <2>1, TypeNames DEF IsParent, p
  <2>5. d \in DetectionRows /\ p < ts
    BY <1>1, <2>1, <2>2, TypeNames DEF DetectionRows, p
  <2> QED BY <1>1, <2>1, <2>2, <2>3, <2>4, <2>5, TypeNames DEF DetectionFits, p
<1>5. CASE Closes(before, after)
  <2>2. d = [type |-> Ending[side], ts |-> ts, parent |-> before.structure]
    BY <1>5, FoundCases
  <2> DEFINE c == before.structure
             p == before.passivation
  <2>3. /\ c \in Examined(history) /\ c <= ts - 1 /\ c # None /\ p # None
        /\ life[c] = [passivation |-> p, structure |-> c]
        /\ life[c - 1] = [passivation |-> p, structure |-> None]
    BY <1>2, <1>5 DEF Remembers, Memories, Closes
  <2> HIDE DEF c, p
  <2>4. FoundAt(side, history, c) = {[type |-> Structure[side], ts |-> c, parent |-> p]}
    <3>1. Builds(life[c - 1], life[c], c)
      BY <2>3 DEF Builds
    <3> QED BY <2>3, <3>1, FoundCases
  <2>5. IsParent([type |-> Structure[side], ts |-> c, parent |-> p], d)
    BY <2>2, TypeNames DEF IsParent, c
  <2>6. d \in DetectionRows /\ c < ts
    BY <1>1, <2>2, <2>3, TypeNames DEF DetectionRows, c
  <2> QED BY <1>1, <2>2, <2>3, <2>4, <2>5, <2>6, TypeNames DEF DetectionFits, c
<1>6. CASE after = before
  BY <1>6, FoundCases
<1> QED BY <1>3, <1>4, <1>5, <1>6, LifeCases

\* A scan finds what it finds at each bar, or nothing in a history that is too short.
LEMMA DetectionsOfBars ==
  ASSUME NEW history
  PROVE  /\ \A d \in Detections(history) :
              \E side \in Sides, ts \in Examined(history) : d \in FoundAt(side, history, ts)
         /\ Detections(history) # {} =>
              \A side \in Sides, ts \in Examined(history) :
                FoundAt(side, history, ts) \subseteq Detections(history)
BY DEF Detections, FoundAt

\* Every detection fits and comes with its parent.
LEMMA DetectionsFit ==
  ASSUME NEW history \in Seq(Bars), NEW d \in Detections(history)
  PROVE  /\ DetectionFits(history, d)
         /\ ParentType(d.type) # "NONE" => \E p \in Detections(history) : IsParent(p, d)
<1>1. PICK side \in Sides, ts \in Examined(history) : d \in FoundAt(side, history, ts)
  BY DetectionsOfBars
<1>2. \A t \in Examined(history) : FoundAt(side, history, t) \subseteq Detections(history)
  BY DetectionsOfBars
<1> QED BY <1>1, <1>2, FoundFit
----------------------------------------------------------------------------
(* The table of structure events *)

\* The parts of Persisted: the detections without a row, their rows, the table
\* with them, and a row with the marks that the new endings give it.
New(rows, detections) == {d \in detections : \A r \in rows : ~IsRow(r, d)}
RowOf(d) == [type |-> d.type, ts |-> d.ts, failed |-> FALSE, invalidated |-> FALSE,
             parent |-> d.parent]
Grown(rows, detections) == rows \cup {RowOf(d) : d \in New(rows, detections)}
EndedIn(rows, detections, r, types) ==
  \E d \in New(rows, detections) : d.type \in types /\ IsParent(r, d)
Marked(rows, detections, r) ==
  [r EXCEPT !.failed = @ \/ EndedIn(rows, detections, r, {"BOTTOM_FAILED"}),
            !.invalidated = @ \/ EndedIn(rows, detections, r, {"BOTTOM_FAILED", "TOP_INVALIDATED"})]

\* Detections that fit some history and come with their parents.
Coherent(detections) ==
  \A d \in detections :
    /\ d \in DetectionRows
    /\ ParentType(d.type) = "NONE" => d.parent = None
    /\ ParentType(d.type) # "NONE" =>
         d.parent # None /\ d.parent < d.ts /\ \E p \in detections : IsParent(p, d)

\* Every scan gives such detections.
LEMMA ScansAreCoherent ==
  ASSUME NEW history \in Seq(Bars)
  PROVE  Coherent(Detections(history))
BY DetectionsFit DEF Coherent, DetectionFits

\* Of coherent detections every new row gets its parent.
LEMMA PersistedParts ==
  ASSUME NEW rows, NEW detections, Coherent(detections)
  PROVE  Persisted(rows, detections)
           = {Marked(rows, detections, r) : r \in Grown(rows, detections)}
<1> DEFINE row(d) == [type |-> d.type, ts |-> d.ts, failed |-> FALSE, invalidated |-> FALSE,
                      parent |-> IF \E p \in rows \cup New(rows, detections) : IsParent(p, d)
                                 THEN d.parent ELSE None]
<1>1. ASSUME NEW d \in New(rows, detections) PROVE row(d) = RowOf(d)
  <2>1. d \in detections
    BY DEF New
  <2>2. CASE ParentType(d.type) = "NONE"
    BY <2>1, <2>2 DEF Coherent, RowOf
  <2>3. CASE ParentType(d.type) # "NONE"
    <3>1. PICK p \in detections : IsParent(p, d)
      BY <2>1, <2>3 DEF Coherent
    <3>2. CASE p \in New(rows, detections)
      BY <3>1, <3>2 DEF RowOf
    <3>3. CASE \E r \in rows : IsRow(r, p)
      <4>1. \E r \in rows : IsParent(r, d)
        BY <3>1, <3>3 DEF IsRow, IsParent
      <4> QED BY <4>1 DEF RowOf
    <3> QED BY <3>2, <3>3 DEF New
  <2> QED BY <2>2, <2>3
<1>2. {row(d) : d \in New(rows, detections)} = {RowOf(d) : d \in New(rows, detections)}
  BY <1>1
<1>3. Persisted(rows, detections)
        = {Marked(rows, detections, r) :
             r \in rows \cup {row(d) : d \in New(rows, detections)}}
  BY DEF Persisted, New, Marked, EndedIn
<1> QED BY <1>2, <1>3 DEF Grown

\* The rows of the grown table have their types.
LEMMA GrownRows ==
  ASSUME NEW rows \in SUBSET EventRows, NEW detections, Coherent(detections)
  PROVE  /\ Grown(rows, detections) \in SUBSET EventRows
         /\ Persisted(rows, detections) \in SUBSET EventRows
<1>1. ASSUME NEW d \in New(rows, detections) PROVE RowOf(d) \in EventRows
  <2>1. d \in DetectionRows
    BY DEF New, Coherent
  <2> QED BY <2>1 DEF RowOf, EventRows, DetectionRows
<1>2. Grown(rows, detections) \in SUBSET EventRows
  BY <1>1 DEF Grown
<1>3. ASSUME NEW r \in EventRows PROVE Marked(rows, detections, r) \in EventRows
  <2>1. EndedIn(rows, detections, r, {"BOTTOM_FAILED"}) \in BOOLEAN
    BY DEF EndedIn
  <2>2. EndedIn(rows, detections, r, {"BOTTOM_FAILED", "TOP_INVALIDATED"}) \in BOOLEAN
    BY DEF EndedIn
  <2> QED BY <2>1, <2>2 DEF Marked, EventRows
<1> QED BY <1>2, <1>3, PersistedParts

\* A row keeps its identity, and its marks are those it had and those of new endings.
LEMMA MarkedRow ==
  ASSUME NEW rows, NEW detections, NEW r \in EventRows
  PROVE  LET m == Marked(rows, detections, r)
         IN /\ m.type = r.type /\ m.ts = r.ts /\ m.parent = r.parent
            /\ m.failed = (r.failed \/ EndedIn(rows, detections, r, {"BOTTOM_FAILED"}))
            /\ m.invalidated =
                 (r.invalidated
                    \/ EndedIn(rows, detections, r, {"BOTTOM_FAILED", "TOP_INVALIDATED"}))
BY DEF Marked, EventRows

\* What LineageIsComplete says of one symbol's table.
Lineage(rows) ==
  \A r \in rows :
    /\ ParentType(r.type) # "NONE" =>
         \E p \in rows : p.type = ParentType(r.type) /\ p.ts = r.parent /\ p.ts < r.ts
    /\ r.failed <=> \E d \in rows : d.type = "BOTTOM_FAILED" /\ r.type = "BOTTOM_STRUCTURE"
                                      /\ d.parent = r.ts

\* A row that is marked has a younger one in the table.
MarksAreLater(rows) == \A r \in rows : r.invalidated \/ r.failed => \E d \in rows : r.ts < d.ts

\* persist_structure_detections keeps the lineage of a table.
LEMMA PersistedLineage ==
  ASSUME NEW rows \in SUBSET EventRows, NEW detections, Coherent(detections), Lineage(rows)
  PROVE  Lineage(Persisted(rows, detections))
<1> DEFINE grown == Grown(rows, detections)
           m(r) == Marked(rows, detections, r)
<1>1. grown \in SUBSET EventRows /\ Persisted(rows, detections) = {m(r) : r \in grown}
  BY GrownRows, PersistedParts
<1>2. \A r \in grown : /\ m(r).type = r.type /\ m(r).ts = r.ts /\ m(r).parent = r.parent
                       /\ m(r).failed = (r.failed \/ EndedIn(rows, detections, r, {"BOTTOM_FAILED"}))
  BY <1>1, MarkedRow
<1>3. \A d \in New(rows, detections) : d \in detections /\ d \in DetectionRows /\ RowOf(d) \in grown
  BY DEF New, Coherent, Grown
<1>4. \A r \in grown : r \in rows \/ \E d \in New(rows, detections) : r = RowOf(d)
  BY DEF Grown
<1>5. rows \subseteq grown
  BY DEF Grown
<1> HIDE DEF grown, m
\* A parent is there.
<1>6. ASSUME NEW r \in grown, ParentType(r.type) # "NONE"
      PROVE  \E p \in grown : p.type = ParentType(r.type) /\ p.ts = r.parent /\ p.ts < r.ts
  <2>1. CASE r \in rows
    BY <1>5, <1>6, <2>1 DEF Lineage
  <2>2. ASSUME NEW d \in New(rows, detections), r = RowOf(d)
        PROVE  \E p \in grown : p.type = ParentType(r.type) /\ p.ts = r.parent /\ p.ts < r.ts
    <3>1. r.type = d.type /\ r.ts = d.ts /\ r.parent = d.parent
      BY <2>2 DEF RowOf
    <3>2. PICK p \in detections : IsParent(p, d) /\ d.parent < d.ts
      BY <1>3, <1>6, <3>1 DEF Coherent
    <3>3. CASE p \in New(rows, detections)
      <4>1. RowOf(p) \in grown /\ RowOf(p).type = p.type /\ RowOf(p).ts = p.ts
        BY <1>3, <3>3 DEF RowOf
      <4> QED BY <3>1, <3>2, <4>1 DEF IsParent
    <3>4. CASE \E q \in rows : IsRow(q, p)
      BY <1>5, <3>1, <3>2, <3>4 DEF IsRow, IsParent
    <3> QED BY <3>3, <3>4 DEF New
  <2> QED BY <1>4, <2>1, <2>2
\* The mark of failure names a failure.
<1>7. ASSUME NEW r \in grown, m(r).failed
      PROVE  r.type = "BOTTOM_STRUCTURE"
               /\ \E d \in grown : d.type = "BOTTOM_FAILED" /\ d.parent = r.ts
  <2>1. CASE EndedIn(rows, detections, r, {"BOTTOM_FAILED"})
    <3>1. PICK d \in New(rows, detections) : d.type = "BOTTOM_FAILED" /\ IsParent(r, d)
      BY <2>1 DEF EndedIn
    <3>2. RowOf(d) \in grown /\ RowOf(d).type = d.type /\ RowOf(d).parent = d.parent
      BY <1>3 DEF RowOf
    <3> QED BY <3>1, <3>2 DEF IsParent, ParentType
  <2>2. CASE r.failed
    <3>1. r \in rows
      BY <1>4, <2>2 DEF RowOf
    <3> QED BY <1>5, <2>2, <3>1 DEF Lineage
  <2> QED BY <1>2, <1>7, <2>1, <2>2
\* A failure that names a structure has marked it.
<1>8. ASSUME NEW r \in grown, NEW d \in grown, d.type = "BOTTOM_FAILED",
             r.type = "BOTTOM_STRUCTURE", d.parent = r.ts
      PROVE  m(r).failed
  <2>1. CASE \E new \in New(rows, detections) : d = RowOf(new)
    <3>1. PICK new \in New(rows, detections) : d = RowOf(new)
      BY <2>1
    <3>2. new.type = "BOTTOM_FAILED" /\ IsParent(r, new)
      BY <1>8, <3>1 DEF RowOf, IsParent, ParentType
    <3>3. EndedIn(rows, detections, r, {"BOTTOM_FAILED"})
      BY <3>2 DEF EndedIn
    <3> QED BY <1>2, <3>3
  <2>2. CASE d \in rows
    <3>1. PICK p \in rows : p.type = "BOTTOM_STRUCTURE" /\ p.ts = r.ts
      BY <1>8, <2>2 DEF Lineage, ParentType
    <3>2. r \in rows
      <4>1. ASSUME NEW new \in New(rows, detections), r = RowOf(new) PROVE FALSE
        BY <1>8, <3>1, <4>1 DEF New, IsRow, RowOf
      <4> QED BY <1>4, <4>1
    <3>3. r.failed
      BY <1>8, <2>2, <3>2 DEF Lineage
    <3> QED BY <1>2, <3>3
  <2> QED BY <1>4, <2>1, <2>2
<1>9. ASSUME NEW r \in grown
      PROVE  /\ ParentType(m(r).type) # "NONE" =>
                  \E p \in grown : m(p).type = ParentType(m(r).type) /\ m(p).ts = m(r).parent
                                     /\ m(p).ts < m(r).ts
             /\ m(r).failed <=>
                  \E d \in grown : m(d).type = "BOTTOM_FAILED" /\ m(r).type = "BOTTOM_STRUCTURE"
                                     /\ m(d).parent = m(r).ts
  BY <1>2, <1>6, <1>7, <1>8
<1> QED BY <1>1, <1>9 DEF Lineage

\* It marks a row only in the name of a younger one.
LEMMA PersistedMarks ==
  ASSUME NEW rows \in SUBSET EventRows, NEW detections, Coherent(detections), MarksAreLater(rows)
  PROVE  MarksAreLater(Persisted(rows, detections))
<1> DEFINE grown == Grown(rows, detections)
           m(r) == Marked(rows, detections, r)
<1>1. grown \in SUBSET EventRows /\ Persisted(rows, detections) = {m(r) : r \in grown}
  BY GrownRows, PersistedParts
<1>2. \A r \in grown :
        /\ m(r).ts = r.ts
        /\ m(r).invalidated \/ m(r).failed =>
             r.invalidated \/ r.failed
               \/ EndedIn(rows, detections, r, {"BOTTOM_FAILED", "TOP_INVALIDATED"})
  <2>1. ASSUME NEW r, EndedIn(rows, detections, r, {"BOTTOM_FAILED"})
        PROVE  EndedIn(rows, detections, r, {"BOTTOM_FAILED", "TOP_INVALIDATED"})
    BY <2>1 DEF EndedIn
  <2> QED BY <1>1, <2>1, MarkedRow
<1>3. ASSUME NEW r \in grown, m(r).invalidated \/ m(r).failed
      PROVE  \E d \in grown : r.ts < d.ts
  <2>1. CASE EndedIn(rows, detections, r, {"BOTTOM_FAILED", "TOP_INVALIDATED"})
    <3>1. PICK d \in New(rows, detections) : d.type \in {"BOTTOM_FAILED", "TOP_INVALIDATED"}
                                               /\ IsParent(r, d)
      BY <2>1 DEF EndedIn
    <3>2. r.ts < d.ts
      BY <3>1 DEF IsParent, ParentType, New, Coherent
    <3>3. RowOf(d) \in grown /\ RowOf(d).ts = d.ts
      BY DEF Grown, RowOf
    <3> QED BY <3>2, <3>3
  <2>2. CASE r.invalidated \/ r.failed
    <3>1. r \in rows
      BY <2>2 DEF Grown, RowOf
    <3> QED BY <2>2, <3>1 DEF MarksAreLater, Grown
  <2> QED BY <1>2, <1>3, <2>1, <2>2
<1> HIDE DEF grown, m
<1> QED BY <1>1, <1>2, <1>3 DEF MarksAreLater
----------------------------------------------------------------------------
(* The ranking *)

\* Who is served before s.
Before(score, s) == {t \in DOMAIN score : score[t] > score[s] \/ (score[t] = score[s] /\ t < s)}

\* How many of those before s are in a class, and what is left for s.
CountBefore(score, placed, s, class) == Cardinality({t \in Before(score, s) : placed[t] = class})
PlacedAt(score, placed, s) ==
  Placed(Class(score[s]), [class \in {"S", "A"} |-> CountBefore(score, placed, s, class)])

\* What rank_battle_pool is given: finitely many items with their scores.
IsScoring(score) ==
  DOMAIN score \subseteq Nat /\ IsFiniteSet(DOMAIN score) /\ score \in [DOMAIN score -> Nat]

\* The order of service is total.
LEMMA ServiceOrder ==
  ASSUME NEW score, IsScoring(score), NEW s \in DOMAIN score, NEW t \in DOMAIN score
  PROVE  /\ s = t \/ s \in Before(score, t) \/ t \in Before(score, s)
         /\ ~(s \in Before(score, t) /\ t \in Before(score, s)) /\ s \notin Before(score, s)
         /\ t \in Before(score, s) => Before(score, t) \subseteq Before(score, s)
         /\ t \in Before(score, s) => score[t] >= score[s]
         /\ score[t] > score[s] => t \in Before(score, s)
<1>1. s \in Nat /\ t \in Nat /\ score[s] \in Nat /\ score[t] \in Nat
  BY DEF IsScoring
<1>2. \A u \in DOMAIN score : u \in Nat /\ score[u] \in Nat
  BY DEF IsScoring
<1> QED BY <1>1, <1>2 DEF Before

\* Of some items one is served last.
LEMMA LastServed ==
  ASSUME NEW score, IsScoring(score), NEW A, A \subseteq DOMAIN score, A # {}
  PROVE  \E l \in A : \A t \in A : t = l \/ t \in Before(score, l)
<1> DEFINE After(t) == {u \in A : t \in Before(score, u)}
           C == {After(t) : t \in A}
<1>1. \A T \in C : IsFiniteSet(T)
  <2>1. IsFiniteSet(A)
    BY FS_Subset DEF IsScoring
  <2> QED BY <2>1, FS_Subset
<1>2. PICK T \in C : \A U \in C : ~(U \subseteq T /\ U # T)
  <2>1. C # {}
    OBVIOUS
  <2> HIDE DEF C
  <2> QED BY <1>1, <2>1, SmallestSet
<1>3. PICK l \in A : T = After(l)
  OBVIOUS
<1>4. ASSUME NEW u \in A, l \in Before(score, u) PROVE FALSE
  <2>1. \A v \in A : u \in Before(score, v) => l \in Before(score, v)
    BY <1>4, ServiceOrder
  <2>2. After(u) \subseteq After(l) /\ u \in After(l) /\ u \notin After(u)
    BY <1>4, <2>1, ServiceOrder
  <2> QED BY <1>2, <1>3, <2>2
<1> QED BY <1>4, ServiceOrder

\* The function that Priorities defines exists.
LEMMA PrioritiesUnfold ==
  ASSUME NEW score, IsScoring(score)
  PROVE  LET placed == Priorities(score)
         IN placed = [s \in DOMAIN score |-> PlacedAt(score, placed, s)]
<1> DEFINE D == DOMAIN score
           Fits(g, A) == g = [s \in A |-> PlacedAt(score, g, s)]
           Closed(A) == A \subseteq D /\ \A s \in A : Before(score, s) \subseteq A
           C == {A \in SUBSET D : Closed(A) /\ ~\E g : Fits(g, A)}
<1>1. C = {}
  <2>1. SUFFICES ASSUME C # {} PROVE FALSE
    OBVIOUS
  <2>2. \A T \in C : IsFiniteSet(T)
    BY FS_Subset DEF IsScoring
  <2>3. PICK A \in C : \A U \in C : ~(U \subseteq A /\ U # A)
    <3> HIDE DEF C
    <3> QED BY <2>1, <2>2, SmallestSet
  <2>4. CASE A = {}
    <3>1. Fits([s \in {} |-> "C"], {})
      OBVIOUS
    <3> QED BY <2>4, <3>1
  <2>5. CASE A # {}
    <3>1. A \subseteq DOMAIN score
      OBVIOUS
    <3>2. PICK l \in A : \A t \in A : t = l \/ t \in Before(score, l)
      BY <2>5, <3>1, LastServed
    <3>3. \A s \in A : Before(score, s) \subseteq A \ {l}
      <4>1. \A s \in A : l \notin Before(score, s)
        BY <3>1, <3>2, ServiceOrder
      <4> QED BY <4>1
    <3>4. Closed(A \ {l}) /\ A \ {l} \subseteq A /\ A \ {l} # A
      BY <3>3
    <3>5. PICK g : Fits(g, A \ {l})
      BY <2>3, <3>4
    <3> DEFINE h == [s \in A |-> IF s = l THEN PlacedAt(score, g, l) ELSE g[s]]
    <3>6. ASSUME NEW s \in A PROVE h[s] = PlacedAt(score, h, s)
      <4>1. \A t \in Before(score, s) : h[t] = g[t]
        BY <3>3
      <4>2. \A class : {t \in Before(score, s) : h[t] = class}
                         = {t \in Before(score, s) : g[t] = class}
        BY <4>1
      <4>3. PlacedAt(score, h, s) = PlacedAt(score, g, s)
        <5> HIDE DEF h
        <5> QED BY <4>2 DEF PlacedAt, CountBefore
      <4>4. CASE s = l
        BY <4>3, <4>4
      <4>5. CASE s # l
        <5>1. g[s] = PlacedAt(score, g, s)
          BY <3>5, <4>5
        <5> QED BY <4>3, <4>5, <5>1
      <4> QED BY <4>4, <4>5
    <3>7. Fits(h, A)
      BY <3>6
    <3> QED BY <3>7
  <2> QED BY <2>4, <2>5
<1>2. \E g : Fits(g, D)
  <2>1. Closed(D)
    BY DEF Before
  <2> QED BY <1>1, <2>1
<1>3. Priorities(score) = CHOOSE g : Fits(g, D)
  BY DEF Priorities, PlacedAt, CountBefore, Before
<1>4. Fits(Priorities(score), D)
  <2> HIDE DEF Fits
  <2> QED BY <1>2, <1>3
<1> QED BY <1>4

\* Its values are classes.
LEMMA PriorityClasses ==
  ASSUME NEW score, IsScoring(score), NEW s \in DOMAIN score
  PROVE  Priorities(score)[s] = PlacedAt(score, Priorities(score), s)
           /\ Priorities(score)[s] \in {"S", "A", "B", "C"}
<1>1. Priorities(score)[s] = PlacedAt(score, Priorities(score), s)
  BY PrioritiesUnfold
<1>2. \A placed : PlacedAt(score, placed, s) \in {"S", "A", "B", "C"}
  BY DEF PlacedAt, Placed, Class
<1> QED BY <1>1, <1>2
\* What Placed makes of the class and of the items before.
LEMMA PriorityCases ==
  ASSUME NEW score, IsScoring(score), NEW s \in DOMAIN score
  PROVE  LET placed == Priorities(score)
             first == CountBefore(score, placed, s, "S")
             second == CountBefore(score, placed, s, "A")
             full == Class(score[s]) = "S" /\ ~(first < SCapacity)
         IN /\ first \in Nat /\ second \in Nat
            /\ placed[s] = "S" <=> Class(score[s]) = "S" /\ first < SCapacity
            /\ placed[s] = "A" <=> (full \/ Class(score[s]) = "A") /\ second < ACapacity
            /\ placed[s] = "B" <=> \/ (full \/ Class(score[s]) = "A") /\ ~(second < ACapacity)
                                   \/ Class(score[s]) = "B"
            /\ placed[s] = "C" <=> Class(score[s]) = "C"
<1> DEFINE placed == Priorities(score)
           first == CountBefore(score, placed, s, "S")
           second == CountBefore(score, placed, s, "A")
<1>1. \A class : IsFiniteSet({t \in Before(score, s) : placed[t] = class})
  <2>1. \A class : {t \in Before(score, s) : placed[t] = class} \subseteq DOMAIN score
    BY DEF Before
  <2> HIDE DEF placed
  <2> QED BY <2>1, FS_Subset DEF IsScoring
<1>2. first \in Nat /\ second \in Nat
  <2> HIDE DEF placed
  <2> QED BY <1>1, FS_CardinalityType DEF CountBefore
<1>3. placed[s] = Placed(Class(score[s]), [class \in {"S", "A"} |-> CountBefore(score, placed, s, class)])
  BY PriorityClasses DEF PlacedAt
<1>4. Class(score[s]) \in {"S", "A", "B", "C"} /\ SCapacity \in Nat /\ ACapacity \in Nat
  BY ScanAssumption DEF Class
<1> DEFINE count == [class \in {"S", "A"} |-> CountBefore(score, placed, s, class)]
<1>5. count["S"] = first /\ count["A"] = second
  OBVIOUS
<1> HIDE DEF placed, count, first, second
<1>6. placed[s] = Placed(Class(score[s]), count)
  BY <1>3 DEF count
<1> QED BY <1>2, <1>4, <1>5, <1>6 DEF Placed, placed, first, second

\* Who is served later has at least as many before, and one more than a member of the class.
LEMMA CountsGrow ==
  ASSUME NEW score, IsScoring(score), NEW s \in DOMAIN score, NEW t \in Before(score, s),
         NEW placed, NEW class
  PROVE  /\ CountBefore(score, placed, t, class) \in Nat
         /\ CountBefore(score, placed, s, class) \in Nat
         /\ CountBefore(score, placed, t, class) <= CountBefore(score, placed, s, class)
<1> DEFINE members(u) == {v \in Before(score, u) : placed[v] = class}
<1>1. t \in DOMAIN score /\ members(s) \subseteq DOMAIN score
  BY DEF Before
<1>2. members(t) \subseteq members(s)
  BY <1>1, ServiceOrder
<1>3. IsFiniteSet(members(s))
  BY <1>1, FS_Subset DEF IsScoring
<1>4. IsFiniteSet(members(t)) /\ Cardinality(members(t)) <= Cardinality(members(s))
  BY <1>2, <1>3, FS_Subset
<1>5. Cardinality(members(t)) \in Nat /\ Cardinality(members(s)) \in Nat
  BY <1>3, <1>4, FS_CardinalityType
<1> QED BY <1>4, <1>5 DEF CountBefore

\* The members of a class whose members each found fewer than n before them are at most n.
LEMMA ClassesAreBounded ==
  ASSUME NEW score, IsScoring(score), NEW class, NEW n \in Nat,
         \A s \in DOMAIN score : Priorities(score)[s] = class =>
           CountBefore(score, Priorities(score), s, class) < n
  PROVE  Cardinality({s \in DOMAIN score : Priorities(score)[s] = class}) <= n
<1> DEFINE placed == Priorities(score)
           A == {s \in DOMAIN score : placed[s] = class}
<1> HIDE DEF placed
<1>1. CASE A = {}
  BY <1>1, FS_EmptySet DEF placed
<1>2. CASE A # {}
  <2>1. PICK l \in A : \A t \in A : t = l \/ t \in Before(score, l)
    BY <1>2, LastServed
  <2> DEFINE members == {t \in Before(score, l) : placed[t] = class}
  <2>2. A = members \cup {l} /\ l \notin members
    <3>1. members \subseteq A
      BY DEF Before
    <3>2. l \notin Before(score, l)
      BY ServiceOrder
    <3> QED BY <2>1, <3>1, <3>2
  <2>3. IsFiniteSet(members) /\ Cardinality(members) \in Nat
    <3>1. members \subseteq DOMAIN score
      BY DEF Before
    <3> QED BY <3>1, FS_Subset, FS_CardinalityType DEF IsScoring
  <2>4. Cardinality(A) = Cardinality(members) + 1
    <3> HIDE DEF members, A
    <3> QED BY <2>2, <2>3, FS_AddElement
  <2>5. Cardinality(members) < n
    BY DEF CountBefore, placed
  <2> QED BY <2>3, <2>4, <2>5 DEF placed
<1> QED BY <1>1, <1>2

\* How many are in a class.
Having(score, placed, class) == Cardinality({t \in DOMAIN score : placed[t] = class})

\* No more members of a class come before an item than there are.
LEMMA CountsAreBounded ==
  ASSUME NEW score, IsScoring(score), NEW placed, NEW class, NEW s \in DOMAIN score
  PROVE  /\ Having(score, placed, class) \in Nat
         /\ CountBefore(score, placed, s, class) <= Having(score, placed, class)
<1> DEFINE A == {t \in DOMAIN score : placed[t] = class}
           members == {t \in Before(score, s) : placed[t] = class}
<1>1. members \subseteq A
  BY DEF Before
<1>2. IsFiniteSet(A)
  BY FS_Subset DEF IsScoring
<1> QED BY <1>1, <1>2, FS_Subset, FS_CardinalityType DEF CountBefore, Having

\* battle_pool.py:29-40: whatever is ranked, no class is over its capacity, a better
\* score never has the lower priority, and only a full class turns its own away.
THEOREM RankingAlwaysFair == Spec => []RankingIsFair
<1>1. ASSUME NEW score \in [1 .. RankedItems -> RankedScores]
      PROVE  LET priority == Priorities(score)
                 having(class) == Cardinality({i \in DOMAIN score : priority[i] = class})
                 rank == [S |-> 0, A |-> 1, B |-> 2, C |-> 3]
             IN /\ having("S") <= SCapacity /\ having("A") <= ACapacity
                /\ \A i, j \in DOMAIN score :
                     score[i] > score[j] => rank[priority[i]] <= rank[priority[j]]
                /\ \A i \in DOMAIN score :
                     /\ rank[Class(score[i])] <= rank[priority[i]]
                     /\ Class(score[i]) = "S" /\ priority[i] # "S" => having("S") = SCapacity
                     /\ Class(score[i]) \in {"S", "A"} /\ priority[i] = "B" => having("A") = ACapacity
  <2> DEFINE priority == Priorities(score)
             having(class) == Cardinality({i \in DOMAIN score : priority[i] = class})
             rank == [S |-> 0, A |-> 1, B |-> 2, C |-> 3]
             count(i, class) == CountBefore(score, priority, i, class)
             full(i) == Class(score[i]) = "S" /\ ~(count(i, "S") < SCapacity)
  <2>1. IsScoring(score)
    <3>1. DOMAIN score = 1 .. RankedItems /\ RankedItems \in Nat /\ RankedScores \subseteq Nat
      BY RankedAssumption
    <3>2. DOMAIN score \subseteq Nat /\ IsFiniteSet(DOMAIN score)
      BY <3>1, FS_Interval
    <3>3. score \in [DOMAIN score -> Nat]
      BY <3>1
    <3> QED BY <3>2, <3>3 DEF IsScoring
  <2>2. SCapacity \in Nat /\ ACapacity \in Nat
    BY ScanAssumption
  <2>3. \A i \in DOMAIN score :
          /\ count(i, "S") \in Nat /\ count(i, "A") \in Nat
          /\ priority[i] = "S" <=> Class(score[i]) = "S" /\ count(i, "S") < SCapacity
          /\ priority[i] = "A" <=> (full(i) \/ Class(score[i]) = "A") /\ count(i, "A") < ACapacity
          /\ priority[i] = "B" <=> \/ (full(i) \/ Class(score[i]) = "A") /\ ~(count(i, "A") < ACapacity)
                                   \/ Class(score[i]) = "B"
          /\ priority[i] = "C" <=> Class(score[i]) = "C"
    BY <2>1, PriorityCases
  <2>4. having("S") <= SCapacity /\ having("A") <= ACapacity
    BY <2>1, <2>2, <2>3, ClassesAreBounded
  <2>5. \A i \in DOMAIN score : \A class \in {"S", "A"} :
          having(class) \in Nat /\ count(i, class) <= having(class)
    <3>1. \A class : having(class) = Having(score, priority, class)
      BY DEF Having
    <3> HIDE DEF having, priority
    <3> QED BY <2>1, <3>1, CountsAreBounded
  <2>6. \A i \in DOMAIN score : score[i] \in Nat /\ Class(score[i]) \in {"S", "A", "B", "C"}
    BY <2>1 DEF IsScoring, Class
  <2>7. \A i, j \in DOMAIN score : score[i] > score[j] =>
          /\ rank[Class(score[i])] <= rank[Class(score[j])]
          /\ count(i, "S") <= count(j, "S") /\ count(i, "A") <= count(j, "A")
    <3> SUFFICES ASSUME NEW i \in DOMAIN score, NEW j \in DOMAIN score, score[i] > score[j]
                 PROVE  /\ rank[Class(score[i])] <= rank[Class(score[j])]
                        /\ count(i, "S") <= count(j, "S") /\ count(i, "A") <= count(j, "A")
      OBVIOUS
    <3>1. i \in Before(score, j)
      BY <2>1, ServiceOrder
    <3>2. count(i, "S") <= count(j, "S") /\ count(i, "A") <= count(j, "A")
      BY <2>1, <3>1, CountsGrow
    <3> QED BY <2>6, <3>2 DEF Class
  <2> HIDE DEF priority, having, count
  <2>8. ASSUME NEW i \in DOMAIN score, NEW j \in DOMAIN score, score[i] > score[j]
        PROVE  rank[priority[i]] <= rank[priority[j]]
    <3>1. /\ rank[Class(score[i])] <= rank[Class(score[j])]
          /\ count(i, "S") <= count(j, "S") /\ count(i, "A") <= count(j, "A")
      BY <2>7, <2>8
    <3>2. priority[i] \in {"S", "A", "B", "C"} /\ priority[j] \in {"S", "A", "B", "C"}
      BY <2>2, <2>3, <2>6
    <3> QED BY <2>2, <2>3, <2>6, <3>1, <3>2
  <2>9. ASSUME NEW i \in DOMAIN score
        PROVE  /\ rank[Class(score[i])] <= rank[priority[i]]
               /\ Class(score[i]) = "S" /\ priority[i] # "S" => having("S") = SCapacity
               /\ Class(score[i]) \in {"S", "A"} /\ priority[i] = "B" => having("A") = ACapacity
    <3>1. rank[Class(score[i])] <= rank[priority[i]]
      BY <2>2, <2>3, <2>6
    <3> QED BY <2>2, <2>3, <2>4, <2>5, <2>6, <3>1
  <2> QED BY <2>4, <2>8, <2>9 DEF priority, having
<1>2. RankingIsFair
  BY <1>1 DEF RankingIsFair
<1> QED BY <1>2, PTL
----------------------------------------------------------------------------
(* Types *)

\* Every job is a sequence of steps.
LEMMA JobsAreSteps == \A r \in Runners : JobsOf(r) \subseteq Seq(Steps)
<1>1. Hourly \in Seq(Steps) /\ <<"screen">> \in Seq(Steps)
  BY DEF Hourly, Steps
<1>2. <<"screen">> \o Hourly \in Seq(Steps)
  BY <1>1
<1>3. <<"scan">> \in Seq(Steps) /\ <<"scan", "rank", "plans">> \in Seq(Steps)
  BY DEF Steps
<1>4. \A step \in Steps : <<step>> \in Seq(Steps)
  OBVIOUS
<1> HIDE DEF Hourly, Steps
<1> QED BY <1>1, <1>2, <1>3, <1>4 DEF JobsOf

\* Screening leaves candidates of their types.
LEMMA ScreenedFits ==
  ASSUME TypeOK, NEW selected \in SUBSET Symbols
  PROVE  Screened(selected) \in [Symbols -> CandidateRows]
<1>1. \A s \in Symbols : candidate[s] \in CandidateRows
  BY DEF TypeOK
<1>2. today \in 0 .. MaxDays
  BY DEF TypeOK
<1>3. ASSUME NEW s \in Symbols
      PROVE  /\ [status |-> "ACTIVE_TODAY", active |-> TRUE, last |-> today] \in CandidateRows
             /\ [candidate[s] EXCEPT !.status = "CARRY_OVER"] \in CandidateRows
             /\ [candidate[s] EXCEPT !.status = "DROPPED", !.active = FALSE] \in CandidateRows
  BY <1>1, <1>2 DEF CandidateRows
<1> QED BY <1>1, <1>3 DEF Screened

\* A step takes the first of what its job has to do.
LEMMA AtFits ==
  ASSUME TypeOK, NEW r \in Runners, NEW step, At(r, step)
  PROVE  left' \in [Runners -> Seq(Steps)] /\ UNCHANGED <<today, aborts>>
<1>1. left[r] \in Seq(Steps) /\ left[r] # <<>>
  BY DEF TypeOK, At
<1>2. Tail(left[r]) \in Seq(Steps)
  BY <1>1
<1> QED BY <1>2 DEF TypeOK, At

\* A reading keeps the bars it had but for the last one, which is redrawn within the bound.
LEMMA UpdatedFits ==
  ASSUME TypeOK, NEW s \in Symbols, NEW series \in Updated(s)
  PROVE  /\ series \in Seq(Bars) /\ Len(series) >= Len(bars[s])
         /\ (\E ts \in DOMAIN bars[s] : series[ts] # bars[s][ts]) => redrawn[s] < MaxRedrawn
<1>1. bars[s] \in Seq(Bars) /\ redrawn[s] \in 0 .. MaxRedrawn
  BY DEF TypeOK
<1>2. Shapes[s] \subseteq Bars
  BY ScanAssumption
<1>3. CASE series = bars[s]
  BY <1>1, <1>3
<1>4. ASSUME NEW bar \in Shapes[s], series = Append(bars[s], bar)
      PROVE  /\ series \in Seq(Bars) /\ Len(series) >= Len(bars[s])
             /\ (\E ts \in DOMAIN bars[s] : series[ts] # bars[s][ts]) => redrawn[s] < MaxRedrawn
  BY <1>1, <1>2, <1>4
<1>5. ASSUME NEW bar \in Shapes[s], bars[s] # <<>>, redrawn[s] < MaxRedrawn,
             series = [bars[s] EXCEPT ![Len(bars[s])] = bar]
      PROVE  /\ series \in Seq(Bars) /\ Len(series) >= Len(bars[s])
             /\ (\E ts \in DOMAIN bars[s] : series[ts] # bars[s][ts]) => redrawn[s] < MaxRedrawn
  BY <1>1, <1>2, <1>5
<1> QED BY <1>3, <1>4, <1>5 DEF Updated

\* The tables are empty at the start.
LEMMA InitTypes == Init => TypeOK
<1>1. ASSUME Init PROVE bars \in [Symbols -> Seq(Bars)] /\ events \in [Symbols -> SUBSET EventRows]
  BY <1>1 DEF Init
<1>2. NoCandidate \in CandidateRows /\ NoItem \in PoolRows
  BY ScanAssumption DEF NoCandidate, NoItem, CandidateRows, PoolRows, None
<1> QED BY <1>1, <1>2, ScanAssumption DEF Init, TypeOK

\* Screening and reading write candidates and bars.
LEMMA UpdateTypes ==
  ASSUME TypeOK, NEW r \in Runners, Screen(r) \/ Update(r)
  PROVE  TypeOK'
<1>1. CASE Screen(r)
  <2>1. At(r, "screen") /\ candidate' \in [Symbols -> CandidateRows]
    BY <1>1, ScreenedFits DEF Screen
  <2> QED BY <1>1, <2>1, AtFits DEF Screen, Touches, TypeOK
<1>2. CASE Update(r)
  <2>1. candidate' \in [Symbols -> CandidateRows]
    BY <1>2, ScreenedFits DEF Update, TypeOK
  <2>2. \A s \in Symbols : bars'[s] = bars[s] \/ bars'[s] \in Updated(s)
    BY <1>2 DEF Update
  <2>3. bars' \in [Symbols -> Seq(Bars)]
    <3>1. bars' \in [Symbols -> UNION {Updated(s) : s \in Symbols}]
      BY <1>2 DEF Update
    <3>2. \A s \in Symbols : bars'[s] \in Seq(Bars)
      BY <2>2, UpdatedFits DEF TypeOK
    <3> QED BY <3>1, <3>2
  <2>4. redrawn' \in [Symbols -> 0 .. MaxRedrawn]
    <3>1. \A s \in Symbols : redrawn[s] \in 0 .. MaxRedrawn /\ MaxRedrawn \in Nat
      BY ScanAssumption DEF TypeOK
    <3>2. \A s \in Symbols :
            (\E ts \in DOMAIN bars[s] : bars'[s][ts] # bars[s][ts]) => redrawn[s] < MaxRedrawn
      BY <2>2, UpdatedFits
    <3>3. redrawn' = [s \in Symbols |->
                        IF \E ts \in DOMAIN bars[s] : bars'[s][ts] # bars[s][ts]
                        THEN redrawn[s] + 1 ELSE redrawn[s]]
      BY <1>2 DEF Update
    <3> QED BY <3>1, <3>2, <3>3
  <2>5. At(r, "update") /\ UNCHANGED <<events, pool, plans>> /\ basis' \in {"changed", basis}
    BY <1>2 DEF Update, Touches
  <2> QED BY <2>1, <2>3, <2>4, <2>5, AtFits DEF TypeOK
<1> QED BY <1>1, <1>2

\* A scan adds rows of their types.
LEMMA ScanTypes ==
  ASSUME TypeOK, NEW r \in Runners, Scan(r)
  PROVE  TypeOK'
<1>1. \A s \in Symbols : Persisted(events[s], Detections(bars[s])) \in SUBSET EventRows
  BY ScansAreCoherent, GrownRows DEF TypeOK
<1>2. events' \in [Symbols -> SUBSET EventRows]
  BY <1>1 DEF Scan, TypeOK
<1>3. At(r, "scan") /\ UNCHANGED <<bars, candidate, pool, plans, redrawn>>
        /\ basis' \in {"changed", basis}
  BY DEF Scan, Touches
<1> QED BY <1>2, <1>3, AtFits DEF TypeOK

\* What the scores of a ranking may be.
LEMMA RankedScorings ==
  ASSUME NEW score \in Scorings
  PROVE  IsScoring(score) /\ DOMAIN score = Ranked
<1>1. score \in [Ranked -> Scores] /\ Ranked \subseteq Symbols
  BY DEF Scorings, Ranked
<1> HIDE DEF Ranked
<1>2. DOMAIN score = Ranked /\ IsFiniteSet(Ranked) /\ Ranked \subseteq Nat /\ Scores \subseteq Nat
  BY <1>1, ScanAssumption, FS_Subset
<1> QED BY <1>1, <1>2 DEF IsScoring

\* An item of the pool, as a ranking writes it.
RankedItem(s, item) ==
  /\ item.status = "ACTIVE" /\ candidate[s].active
  /\ item.priority \in {"S", "A", "B", "C"} /\ item.direction \in {"LONG", "SHORT", "RISK"}
  /\ \E row \in Latest(s) : item.type = row.type /\ item.ts = row.ts
  /\ item = [status |-> item.status, priority |-> item.priority, direction |-> item.direction,
             type |-> item.type, ts |-> item.ts]

\* A ranking writes an item of a latest event, or none.
LEMMA RankItems ==
  ASSUME TypeOK, NEW r \in Runners, Rank(r), NEW s \in Symbols
  PROVE  pool'[s] = NoItem \/ RankedItem(s, pool'[s])
<1>1. PICK score \in Scorings, bearish \in SUBSET Ranked,
           latest \in [Ranked -> UNION {Latest(t) : t \in Ranked}] :
        /\ \A t \in Ranked : latest[t] \in Latest(t)
        /\ pool' = [t \in Symbols |->
                      IF t \notin Ranked THEN Unranked(t)
                      ELSE [status |-> "ACTIVE", priority |-> Priorities(score)[t],
                            direction |-> Direction(latest[t].type, t \in bearish),
                            type |-> latest[t].type, ts |-> latest[t].ts]]
  BY DEF Rank
<1>2. CASE s \notin Ranked
  BY <1>1, <1>2 DEF Unranked
<1>3. CASE s \in Ranked
  <2>1. pool'[s] = [status |-> "ACTIVE", priority |-> Priorities(score)[s],
                    direction |-> Direction(latest[s].type, s \in bearish),
                    type |-> latest[s].type, ts |-> latest[s].ts]
    BY <1>1, <1>3
  <2>2. Priorities(score)[s] \in {"S", "A", "B", "C"}
    BY <1>3, RankedScorings, PriorityClasses
  <2>3. Direction(latest[s].type, s \in bearish) \in {"LONG", "SHORT", "RISK"}
    BY DEF Direction
  <2>4. latest[s] \in Latest(s) /\ candidate[s].active
    BY <1>1, <1>3 DEF Ranked
  <2> QED BY <2>1, <2>2, <2>3, <2>4 DEF RankedItem
<1> QED BY <1>2, <1>3

\* The pool keeps its types.
LEMMA RankTypes ==
  ASSUME TypeOK, NEW r \in Runners, Rank(r)
  PROVE  TypeOK'
<1>1. \A s \in Symbols : pool'[s] \in PoolRows
  <2> SUFFICES ASSUME NEW s \in Symbols PROVE pool'[s] \in PoolRows
    OBVIOUS
  <2>1. CASE pool'[s] = NoItem
    BY <2>1 DEF NoItem, PoolRows, None
  <2>2. CASE RankedItem(s, pool'[s])
    <3>1. PICK row \in events[s] : pool'[s].type = row.type /\ pool'[s].ts = row.ts
      BY <2>2 DEF RankedItem, Latest
    <3>2. row \in EventRows
      BY DEF TypeOK
    <3>3. pool'[s].type \in EventTypes /\ pool'[s].ts \in Nat
      BY <3>1, <3>2 DEF EventRows
    <3> QED BY <2>2, <3>3 DEF RankedItem, PoolRows
  <2> QED BY <2>1, <2>2, RankItems
<1>2. pool' \in [Symbols -> PoolRows]
  <2>1. pool' = [s \in Symbols |-> pool'[s]]
    BY DEF Rank
  <2> QED BY <1>1, <2>1
<1>3. At(r, "rank") /\ UNCHANGED <<bars, events, candidate, plans, redrawn>> /\ basis' = "ranked"
  BY DEF Rank
<1> QED BY <1>2, <1>3, AtFits DEF TypeOK

\* An item that names an event has its time: what TypeOK needs to be kept by the plans.
ItemsHaveTimes == \A s \in Symbols : pool[s].type # "NONE" => pool[s].ts # 0
TypeInv == TypeOK /\ ItemsHaveTimes

\* A plan is of one of the types that make plans, and has the time of its item.
LEMMA GenerateTypes ==
  ASSUME TypeInv, NEW r \in Runners, Generate(r)
  PROVE  TypeOK'
<1>1. PICK priced \in SUBSET Planned :
        plans' = [s \in Symbols |->
                    IF s \in priced THEN {[type |-> pool[s].type, ts |-> pool[s].ts]} ELSE {}]
  BY DEF Generate, Priced, Swept
<1>2. ASSUME NEW s \in priced PROVE [type |-> pool[s].type, ts |-> pool[s].ts] \in PlanRows
  <2>1. s \in Symbols /\ pool[s].type \in PlanTypes
    BY DEF Planned
  <2>2. pool[s].ts \in Nat /\ pool[s].ts # 0
    BY <2>1 DEF TypeInv, TypeOK, PoolRows, ItemsHaveTimes, PlanTypes
  <2> QED BY <2>1, <2>2 DEF PlanRows
<1>3. plans' \in [Symbols -> SUBSET PlanRows]
  BY <1>1, <1>2
<1>4. At(r, "plans") /\ UNCHANGED <<bars, events, candidate, pool, redrawn>>
        /\ basis' \in {"changed", "planned"}
  BY DEF Generate
<1> QED BY <1>3, <1>4, AtFits DEF TypeInv, TypeOK

\* Every step keeps the types.
LEMMA TypeInvInductive == TypeInv /\ [Next]_vars => TypeInv'
<1> SUFFICES ASSUME TypeInv, [Next]_vars PROVE TypeInv'
  OBVIOUS
<1>1. ASSUME NEW r \in Runners, Rank(r) PROVE TypeInv'
  <2>1. ASSUME NEW s \in Symbols PROVE pool'[s].type # "NONE" => pool'[s].ts # 0
    <3>1. CASE pool'[s] = NoItem
      BY <3>1 DEF NoItem
    <3>2. CASE RankedItem(s, pool'[s])
      <4>1. PICK row \in events[s] : pool'[s].ts = row.ts
        BY <3>2 DEF RankedItem, Latest
      <4> QED BY <4>1 DEF TypeInv, TypeOK, EventRows
    <3> QED BY <1>1, <3>1, <3>2, RankItems DEF TypeInv
  <2> QED BY <1>1, <2>1, RankTypes DEF TypeInv, ItemsHaveTimes
<1>2. ASSUME NEW r \in Runners, Generate(r) PROVE TypeInv'
  BY <1>2, GenerateTypes DEF Generate, TypeInv, ItemsHaveTimes
<1>3. ASSUME NEW r \in Runners, Screen(r) \/ Update(r) \/ Scan(r) PROVE TypeInv'
  <2>1. TypeOK'
    BY <1>3, UpdateTypes, ScanTypes DEF TypeInv
  <2>2. pool' = pool
    BY <1>3 DEF Screen, Update, Scan
  <2> QED BY <2>1, <2>2 DEF TypeInv, ItemsHaveTimes
<1>4. ASSUME NEW r \in Runners, Abort(r) \/ \E job \in JobsOf(r) \cap Jobs[r] : Start(r, job)
      PROVE  TypeInv'
  <2>1. left' \in [Runners -> Seq(Steps)]
    <3>1. left \in [Runners -> Seq(Steps)]
      BY DEF TypeInv, TypeOK
    <3>2. PICK job : left' = [left EXCEPT ![r] = job] /\ (job = <<>> \/ job \in JobsOf(r))
      BY <1>4 DEF Abort, Start
    <3>3. job \in Seq(Steps)
      <4>1. <<>> \in Seq(Steps) /\ JobsOf(r) \subseteq Seq(Steps)
        BY JobsAreSteps
      <4> QED BY <3>2, <4>1
    <3> QED BY <3>1, <3>2, <3>3
  <2>2. aborts' \in 0 .. MaxAborts
    BY <1>4, ScanAssumption DEF TypeInv, TypeOK, Abort, Start
  <2>3. UNCHANGED <<tables, today, redrawn, basis>>
    BY <1>4 DEF Abort, Start
  <2> QED BY <2>1, <2>2, <2>3 DEF tables, TypeInv, TypeOK, ItemsHaveTimes
<1>5. CASE NextDay
  <2>1. today' \in 0 .. MaxDays
    BY <1>5, ScanAssumption DEF NextDay, TypeInv, TypeOK
  <2> QED BY <1>5, <2>1 DEF NextDay, tables, TypeInv, TypeOK, ItemsHaveTimes
<1>6. CASE UNCHANGED vars
  BY <1>6 DEF vars, tables, TypeInv, TypeOK, ItemsHaveTimes
<1> QED BY <1>1, <1>2, <1>3, <1>4, <1>5, <1>6 DEF Next, Step

\* The strengthened types hold in every reachable state.
LEMMA TypeInvHolds == Spec => []TypeInv
<1>1. Init => TypeInv
  BY InitTypes DEF TypeInv, ItemsHaveTimes, Init, NoItem
<1> QED BY <1>1, TypeInvInductive, PTL DEF Spec

\* Every table keeps its rows of their types, for any windows, histories and jobs.
THEOREM ScanTypeCorrect == Spec => []TypeOK
BY TypeInvHolds, PTL DEF TypeInv

----------------------------------------------------------------------------
(* Lineage *)

\* LineageIsComplete with what it takes to know that a marked row is not the latest.
LineageInv == \A s \in Symbols : Lineage(events[s]) /\ MarksAreLater(events[s])

\* Only a scan writes the table.
LEMMA OnlyScansWrite ==
  ASSUME TypeInv, [Next]_vars, NEW s \in Symbols
  PROVE  events'[s] = events[s] \/ events'[s] = Persisted(events[s], Detections(bars[s]))
<1>1. ASSUME NEW r \in Runners, Scan(r)
      PROVE  events'[s] = events[s] \/ events'[s] = Persisted(events[s], Detections(bars[s]))
  BY <1>1 DEF Scan
<1>2. ASSUME NEW r \in Runners,
             \/ Screen(r) \/ Update(r) \/ Rank(r) \/ Generate(r) \/ Abort(r)
             \/ \E job \in JobsOf(r) \cap Jobs[r] : Start(r, job)
      PROVE  events' = events
  BY <1>2 DEF Screen, Update, Rank, Generate, Abort, Start, tables
<1>3. NextDay \/ UNCHANGED vars => events' = events
  BY DEF NextDay, vars, tables
<1> QED BY <1>1, <1>2, <1>3 DEF Next, Step

\* Every step keeps the lineage.
LEMMA LineageInvInductive == TypeInv /\ LineageInv /\ [Next]_vars => LineageInv'
<1> SUFFICES ASSUME TypeInv, LineageInv, [Next]_vars, NEW s \in Symbols
             PROVE  Lineage(events'[s]) /\ MarksAreLater(events'[s])
  BY DEF LineageInv
<1>1. events[s] \in SUBSET EventRows /\ Coherent(Detections(bars[s]))
  BY ScansAreCoherent DEF TypeInv, TypeOK
<1>2. Lineage(events[s]) /\ MarksAreLater(events[s])
  BY DEF LineageInv
<1> QED BY <1>1, <1>2, OnlyScansWrite, PersistedLineage, PersistedMarks

\* Types and lineage hold in every reachable state.
LEMMA LineageInvHolds == Spec => [](TypeInv /\ LineageInv)
<1>1. Init => TypeInv /\ LineageInv
  <2>1. Init => TypeInv
    BY InitTypes DEF TypeInv, ItemsHaveTimes, Init, NoItem
  <2>2. Init => LineageInv
    BY DEF Init, LineageInv, Lineage, MarksAreLater
  <2> QED BY <2>1, <2>2
<1> QED BY <1>1, TypeInvInductive, LineageInvInductive, PTL DEF Spec

\* structures.py:300-346: every confirmation and ending keeps its parent in the table, and
\* a structure is marked failed exactly when a failure names it, whatever was scanned
\* before and however the window moved or the bars were redrawn.
THEOREM LineageAlwaysComplete == Spec => []LineageIsComplete
<1>1. LineageInv => LineageIsComplete
  BY DEF LineageInv, Lineage, LineageIsComplete
<1> QED BY <1>1, LineageInvHolds, PTL

----------------------------------------------------------------------------
(* The plans *)

\* What the pool says after a ranking, and the plans after they were made of it.
PlanInv ==
  /\ basis \in {"ranked", "planned"} =>
       \A s \in Symbols : pool[s] = NoItem \/ RankedItem(s, pool[s])
  /\ basis = "planned" =>
       \A s \in Symbols : \A p \in plans[s] :
         /\ plans[s] = {p} /\ p = [type |-> pool[s].type, ts |-> pool[s].ts]
         /\ pool[s].status = "ACTIVE" /\ pool[s].type \in PlanTypes

\* Every step keeps what the pool and the plans say, or has changed what they read.
LEMMA PlanInvInductive == TypeInv /\ PlanInv /\ [Next]_vars => PlanInv'
<1> SUFFICES ASSUME TypeInv, PlanInv, [Next]_vars PROVE PlanInv'
  OBVIOUS
<1>1. ASSUME NEW r \in Runners, Rank(r) PROVE PlanInv'
  <2>1. basis' = "ranked" /\ UNCHANGED <<events, candidate>>
    BY <1>1 DEF Rank
  <2>2. \A s \in Symbols : pool'[s] = NoItem \/ RankedItem(s, pool'[s])
    BY <1>1, RankItems DEF TypeInv
  <2> QED BY <2>1, <2>2 DEF PlanInv, RankedItem, Latest, NoItem
<1>2. ASSUME NEW r \in Runners, Generate(r) PROVE PlanInv'
  <2>1. PICK priced \in SUBSET Planned :
          plans' = [s \in Symbols |->
                      IF s \in priced THEN {[type |-> pool[s].type, ts |-> pool[s].ts]} ELSE {}]
    BY <1>2 DEF Generate, Priced, Swept
  <2>2. \A s \in priced : s \in Symbols /\ pool[s].status = "ACTIVE" /\ pool[s].type \in PlanTypes
    BY DEF Planned
  <2>3. /\ UNCHANGED <<events, candidate, pool>>
        /\ basis' \in {"ranked", "planned"} => basis \in {"ranked", "planned"}
    BY <1>2 DEF Generate, TypeInv, TypeOK
  <2>4. \A s \in Symbols : \A p \in plans'[s] :
          /\ plans'[s] = {p} /\ p = [type |-> pool[s].type, ts |-> pool[s].ts]
          /\ pool[s].status = "ACTIVE" /\ pool[s].type \in PlanTypes
    BY <2>1, <2>2
  <2>5. basis' \in {"ranked", "planned"} =>
          \A s \in Symbols : pool'[s] = NoItem \/ RankedItem(s, pool[s])'
    BY <2>3 DEF PlanInv, RankedItem, Latest, NoItem
  <2> QED BY <2>3, <2>4, <2>5 DEF PlanInv
<1>3. CASE basis' = "changed"
  BY <1>3 DEF PlanInv
<1>4. CASE UNCHANGED <<events, candidate, pool, plans, basis>>
  BY <1>4 DEF PlanInv, RankedItem, Latest, NoItem
<1>5. ASSUME NEW r \in Runners, Screen(r) \/ Update(r) \/ Scan(r)
      PROVE  basis' = "changed" \/ UNCHANGED <<events, candidate, pool, plans, basis>>
  BY <1>5 DEF Screen, Update, Scan, Touches
<1>6. ASSUME NEW r \in Runners, Abort(r) \/ \E job \in JobsOf(r) \cap Jobs[r] : Start(r, job)
      PROVE  UNCHANGED <<events, candidate, pool, plans, basis>>
  BY <1>6 DEF Abort, Start, tables
<1>7. NextDay \/ UNCHANGED vars => UNCHANGED <<events, candidate, pool, plans, basis>>
  BY DEF NextDay, vars, tables
<1> QED BY <1>1, <1>2, <1>3, <1>4, <1>5, <1>6, <1>7 DEF Next, Step

\* An event that is the latest of its symbol bears no mark.
LEMMA LatestIsUnmarked ==
  ASSUME TypeInv, LineageInv, NEW s \in Symbols, NEW row \in Latest(s)
  PROVE  row \in events[s] /\ ~row.failed /\ ~row.invalidated
<1>1. row \in events[s] /\ \A other \in events[s] : other.ts <= row.ts
  BY DEF Latest
<1>2. \A r \in events[s] : r.ts \in Nat
  BY DEF TypeInv, TypeOK, EventRows
<1>3. MarksAreLater(events[s])
  BY DEF LineageInv
<1> QED BY <1>1, <1>2, <1>3 DEF MarksAreLater

\* battle_pool.py:166-181 and trade_plan.py:25-62: plans made of a ranking that nothing has
\* outdated are of candidates in the pool, one for each at most, and of structures that
\* neither failed nor were invalidated, although generate_trade_plans does not look.
THEOREM PlansAlwaysFollowPool == Spec => []PlansFollowPool
<1>1. Init => PlanInv
  BY DEF Init, PlanInv
<1>2. ASSUME TypeInv, LineageInv, PlanInv PROVE PlansFollowPool
  <2> SUFFICES ASSUME basis = "planned", NEW s \in Symbols
               PROVE  /\ Cardinality(plans[s]) <= 1
                      /\ \A p \in plans[s] :
                           /\ candidate[s].active /\ pool[s].status = "ACTIVE"
                           /\ \E r \in events[s] : /\ r.type = p.type /\ r.ts = p.ts
                                                  /\ ~r.failed /\ ~r.invalidated
    BY DEF PlansFollowPool
  <2>1. Cardinality(plans[s]) <= 1
    <3>1. plans[s] = {} \/ \E p \in plans[s] : plans[s] = {p}
      BY <1>2 DEF PlanInv
    <3>2. \A p : Cardinality({p}) = 1
      BY FS_Singleton
    <3>3. Cardinality({}) = 0
      BY FS_EmptySet
    <3>4. Cardinality(plans[s]) \in {0, 1}
      BY <3>1, <3>2, <3>3
    <3> QED BY <3>4
  <2>2. ASSUME NEW p \in plans[s]
        PROVE  /\ candidate[s].active /\ pool[s].status = "ACTIVE"
               /\ \E r \in events[s] : /\ r.type = p.type /\ r.ts = p.ts
                                      /\ ~r.failed /\ ~r.invalidated
    <3>1. pool[s].status = "ACTIVE" /\ p.type = pool[s].type /\ p.ts = pool[s].ts
      BY <1>2, <2>2 DEF PlanInv
    <3>2. RankedItem(s, pool[s])
      BY <1>2, <3>1 DEF PlanInv, NoItem
    <3>3. PICK row \in Latest(s) : pool[s].type = row.type /\ pool[s].ts = row.ts
      BY <3>2 DEF RankedItem
    <3>4. row \in events[s] /\ ~row.failed /\ ~row.invalidated
      BY <1>2, LatestIsUnmarked
    <3> QED BY <3>1, <3>2, <3>3, <3>4 DEF RankedItem
  <2> QED BY <2>1, <2>2
<1>3. Spec => []PlanInv
  BY <1>1, PlanInvInductive, TypeInvHolds, PTL DEF Spec
<1> QED BY <1>2, <1>3, LineageInvHolds, PTL

----------------------------------------------------------------------------
(* Structures of one life *)

\* The history a scan looks at again, with more bars after it.
Extends(longer, history) ==
  /\ history \in Seq(Bars) /\ longer \in Seq(Bars)
  /\ Len(history) <= Len(longer) /\ Len(longer) <= Window
  /\ \A ts \in 1 .. Len(history) : longer[ts] = history[ts]

\* As long as no bar leaves the window, a longer history repeats the shorter one's life.
LEMMA LivesAgree ==
  ASSUME NEW history, NEW longer, Extends(longer, history), NEW side \in Sides
  PROVE  /\ Examined(history) = {ts \in Examined(longer) : ts <= Len(history)}
         /\ \A ts \in 0 .. Len(history) : Life(side, longer)[ts] = Life(side, history)[ts]
<1> DEFINE short == Life(side, history)
           long == Life(side, longer)
           X == {ts \in 0 .. Len(history) : long[ts] # short[ts]}
<1>1. /\ history \in Seq(Bars) /\ longer \in Seq(Bars)
      /\ Len(history) \in Nat /\ Len(longer) \in Nat /\ Len(history) <= Len(longer)
  BY DEF Extends
<1>2. Examined(history) = {ts \in Examined(longer) : ts <= Len(history)}
  BY <1>1, WindowAssumption DEF Examined, First, Extends
<1>3. Examined(history) \subseteq 1 .. Len(history)
  BY <1>1, ExaminedBars
<1>4. short = [ts \in 0 .. Len(history) |-> LifeAt(side, history, short, ts)]
  BY <1>1, LifeUnfolds
<1>5. long = [ts \in 0 .. Len(longer) |-> LifeAt(side, longer, long, ts)]
  BY <1>1, LifeUnfolds
<1> HIDE DEF short, long
<1>6. X = {}
  <2>1. SUFFICES ASSUME X # {} PROVE FALSE
    OBVIOUS
  <2>2. PICK ts \in X : \A k \in X : ts <= k
    <3>1. X \subseteq Nat
      BY <1>1
    <3> HIDE DEF X
    <3> QED BY <2>1, <3>1, LeastNatural
  <2>3. ts \in 0 .. Len(history) /\ ts \in 0 .. Len(longer) /\ ts \in Nat
    BY <1>1
  <2>4. short[ts] = LifeAt(side, history, short, ts) /\ long[ts] = LifeAt(side, longer, long, ts)
    BY <1>4, <1>5, <2>3
  <2>5. CASE ts \in Examined(history)
    <3>1. long[ts - 1] = short[ts - 1] /\ longer[ts] = history[ts] /\ ts \in Examined(longer)
      BY <1>2, <1>3, <2>2, <2>3, <2>5 DEF Extends
    <3> QED BY <2>4, <2>5, <3>1 DEF LifeAt
  <2>6. CASE ts \notin Examined(history)
    BY <1>2, <2>3, <2>4, <2>6 DEF LifeAt
  <2> QED BY <2>5, <2>6
<1> QED BY <1>2, <1>6 DEF short, long

\* And finds the same at its bars.
LEMMA FoundAgree ==
  ASSUME NEW history, NEW longer, Extends(longer, history), NEW side \in Sides,
         NEW ts \in Examined(history)
  PROVE  FoundAt(side, longer, ts) = FoundAt(side, history, ts)
<1>1. ts \in 0 .. Len(history) /\ ts - 1 \in 0 .. Len(history)
  BY ExaminedBars DEF Extends
<1>2. Life(side, longer)[ts] = Life(side, history)[ts]
        /\ Life(side, longer)[ts - 1] = Life(side, history)[ts - 1]
  BY <1>1, LivesAgree
<1> QED BY <1>2 DEF FoundAt

\* The table is what one scan of the history finds in its first n bars.
IsFoundIn(rows, history, n) ==
  /\ \A r \in rows : \E side \in Sides, ts \in Examined(history) :
       ts <= n /\ \E d \in FoundAt(side, history, ts) : IsRow(r, d) /\ r.parent = d.parent
  /\ \A side \in Sides, ts \in Examined(history) :
       ts <= n => \A d \in FoundAt(side, history, ts) : \E r \in rows : IsRow(r, d)

\* While no bar has left the window or was redrawn, the table holds one life.
OneLife ==
  \A s \in Symbols : First(bars[s]) = 1 /\ redrawn[s] = 0 =>
    \E n \in Nat : n <= Len(bars[s]) /\ IsFoundIn(events[s], bars[s], n)

\* A scan leaves in such a table what it finds in all its bars, or nothing new.
LEMMA ScanKeepsOneLife ==
  ASSUME NEW history \in Seq(Bars), NEW rows \in SUBSET EventRows, NEW n \in Nat,
         n <= Len(history), IsFoundIn(rows, history, n)
  PROVE  \E m \in Nat : m <= Len(history)
                          /\ IsFoundIn(Persisted(rows, Detections(history)), history, m)
<1> DEFINE D == Detections(history)
           rows2 == Persisted(rows, D)
           grown == Grown(rows, D)
           m(r) == Marked(rows, D, r)
<1>1. Coherent(D)
  BY ScansAreCoherent
<1>2. grown \in SUBSET EventRows /\ rows2 = {m(r) : r \in grown}
  BY <1>1, GrownRows, PersistedParts
<1>3. \A r \in grown : m(r).type = r.type /\ m(r).ts = r.ts /\ m(r).parent = r.parent
  BY <1>2, MarkedRow
<1>4. rows \subseteq grown /\ \A d \in New(rows, D) : RowOf(d) \in grown /\ d \in D
  BY DEF Grown, New
<1>5. \A r \in grown : r \in rows \/ \E d \in New(rows, D) : r = RowOf(d)
  BY DEF Grown
<1> HIDE DEF grown, m, rows2
<1>6. Len(history) \in Nat /\ \A ts \in Examined(history) : ts <= Len(history)
  BY ExaminedBars
<1>7. CASE D = {}
  <2>1. \A r \in rows2 : \E q \in rows : r.type = q.type /\ r.ts = q.ts /\ r.parent = q.parent
    BY <1>2, <1>3, <1>5, <1>7 DEF New
  <2>2. \A q \in rows : \E r \in rows2 : r.type = q.type /\ r.ts = q.ts
    BY <1>2, <1>3, <1>4
  <2>3. IsFoundIn(rows2, history, n)
    BY <2>1, <2>2 DEF IsFoundIn, IsRow
  <2> QED BY <2>3 DEF rows2
<1>8. CASE D # {}
  <2>1. \A side \in Sides, ts \in Examined(history) : FoundAt(side, history, ts) \subseteq D
    BY <1>8, DetectionsOfBars
  <2>2. \A d \in D : \E side \in Sides, ts \in Examined(history) : d \in FoundAt(side, history, ts)
    BY DetectionsOfBars
  <2> HIDE DEF D
  <2>3. ASSUME NEW r \in rows2
        PROVE  \E side \in Sides, ts \in Examined(history) :
                 /\ ts <= Len(history)
                 /\ \E d \in FoundAt(side, history, ts) : IsRow(r, d) /\ r.parent = d.parent
    <3>1. PICK q \in grown : r = m(q)
      BY <1>2
    <3>2. r.type = q.type /\ r.ts = q.ts /\ r.parent = q.parent
      BY <1>3, <3>1
    <3>3. CASE q \in rows
      BY <1>6, <3>2, <3>3 DEF IsFoundIn, IsRow
    <3>4. ASSUME NEW d \in New(rows, D), q = RowOf(d)
          PROVE  \E side \in Sides, ts \in Examined(history) :
                   /\ ts <= Len(history)
                   /\ \E e \in FoundAt(side, history, ts) : IsRow(r, e) /\ r.parent = e.parent
      <4>1. IsRow(r, d) /\ r.parent = d.parent
        BY <3>2, <3>4 DEF RowOf, IsRow
      <4> QED BY <1>4, <1>6, <2>2, <4>1
    <3> QED BY <1>5, <3>3, <3>4
  <2>4. ASSUME NEW side \in Sides, NEW ts \in Examined(history), NEW d \in FoundAt(side, history, ts)
        PROVE  \E r \in rows2 : IsRow(r, d)
    <3>1. d \in D
      BY <2>1
    <3>2. \E q \in grown : IsRow(q, d)
      <4>1. CASE d \in New(rows, D)
        BY <1>4, <4>1 DEF RowOf, IsRow
      <4>2. CASE d \notin New(rows, D)
        BY <1>4, <3>1, <4>2 DEF New
      <4> QED BY <4>1, <4>2
    <3> QED BY <1>2, <1>3, <3>2 DEF IsRow
  <2>5. IsFoundIn(rows2, history, Len(history))
    BY <2>3, <2>4 DEF IsFoundIn
  <2> QED BY <1>6, <2>5 DEF rows2, D
<1> QED BY <1>7, <1>8
\* More bars do not change what the first ones of a table are.
LEMMA FoundInLonger ==
  ASSUME NEW history, NEW longer, Extends(longer, history), NEW rows, NEW n \in Nat,
         n <= Len(history), IsFoundIn(rows, history, n)
  PROVE  IsFoundIn(rows, longer, n)
<1>1. \A ts \in Examined(longer) : ts <= n => ts \in Examined(history)
  <2>2. Len(history) \in Nat /\ Examined(longer) \subseteq Nat
    BY ExaminedBars DEF Extends
  <2>3. Examined(history) = {ts \in Examined(longer) : ts <= Len(history)}
    BY LivesAgree DEF Sides
  <2> QED BY <2>2, <2>3
<1>2. Examined(history) \subseteq Examined(longer)
  BY LivesAgree DEF Sides
<1>3. \A side \in Sides, ts \in Examined(history) :
        FoundAt(side, longer, ts) = FoundAt(side, history, ts)
  BY FoundAgree
<1> QED BY <1>1, <1>2, <1>3 DEF IsFoundIn

\* Every step keeps the table of a single life one.
LEMMA OneLifeInductive == TypeInv /\ OneLife /\ [Next]_vars => OneLife'
<1> SUFFICES ASSUME TypeInv, OneLife, [Next]_vars, NEW s \in Symbols,
                    First(bars'[s]) = 1, redrawn'[s] = 0
             PROVE  \E n \in Nat : n <= Len(bars'[s]) /\ IsFoundIn(events'[s], bars'[s], n)
  BY DEF OneLife
<1>1. bars[s] \in Seq(Bars) /\ events[s] \in SUBSET EventRows /\ redrawn[s] \in Nat
  BY DEF TypeInv, TypeOK
<1>2. ASSUME UNCHANGED <<bars, redrawn>>
      PROVE  \E n \in Nat : n <= Len(bars'[s]) /\ IsFoundIn(events'[s], bars'[s], n)
  <2>1. PICK n \in Nat : n <= Len(bars[s]) /\ IsFoundIn(events[s], bars[s], n)
    BY <1>2 DEF OneLife
  <2>2. CASE events'[s] = events[s]
    BY <1>2, <2>1, <2>2
  <2>3. CASE events'[s] = Persisted(events[s], Detections(bars[s]))
    BY <1>1, <1>2, <2>1, <2>3, ScanKeepsOneLife
  <2> QED BY <2>2, <2>3, OnlyScansWrite
<1>3. ASSUME NEW r \in Runners, Update(r)
      PROVE  \E n \in Nat : n <= Len(bars'[s]) /\ IsFoundIn(events'[s], bars'[s], n)
  <2>1. events' = events /\ (bars'[s] = bars[s] \/ bars'[s] \in Updated(s))
    BY <1>3 DEF Update
  <2>2. /\ redrawn[s] = 0
        /\ \A ts \in DOMAIN bars[s] : bars'[s][ts] = bars[s][ts]
    <3>1. redrawn'[s] = IF \E ts \in DOMAIN bars[s] : bars'[s][ts] # bars[s][ts]
                        THEN redrawn[s] + 1 ELSE redrawn[s]
      BY <1>3 DEF Update
    <3> QED BY <1>1, <3>1
  <2>3. bars'[s] \in Seq(Bars) /\ Len(bars'[s]) >= Len(bars[s])
    BY <1>1, <2>1, UpdatedFits DEF TypeInv
  <2>4. Len(bars'[s]) <= Window /\ First(bars[s]) = 1
    <3>1. Len(bars'[s]) \in Nat /\ Len(bars[s]) \in Nat /\ Window \in Nat
      BY <1>1, <2>3, WindowAssumption
    <3> QED BY <2>3, <3>1 DEF First
  <2>5. Extends(bars'[s], bars[s])
    BY <1>1, <2>2, <2>3, <2>4 DEF Extends
  <2>6. PICK n \in Nat : n <= Len(bars[s]) /\ IsFoundIn(events[s], bars[s], n)
    BY <2>2, <2>4 DEF OneLife
  <2>7. IsFoundIn(events[s], bars'[s], n)
    BY <2>5, <2>6, FoundInLonger
  <2>8. n <= Len(bars'[s])
    BY <1>1, <2>3, <2>6
  <2> QED BY <2>1, <2>7, <2>8
<1>4. ASSUME NEW r \in Runners,
             \/ Screen(r) \/ Scan(r) \/ Rank(r) \/ Generate(r) \/ Abort(r)
             \/ \E job \in JobsOf(r) \cap Jobs[r] : Start(r, job)
      PROVE  UNCHANGED <<bars, redrawn>>
  BY <1>4 DEF Screen, Scan, Rank, Generate, Abort, Start, tables
<1>5. NextDay \/ UNCHANGED vars => UNCHANGED <<bars, redrawn>>
  BY DEF NextDay, vars, tables
<1> QED BY <1>2, <1>3, <1>4, <1>5 DEF Next, Step

\* Whatever an ending names is marked.
EndsAreMarked(rows) ==
  \A r, d \in rows : \A side \in Sides :
    r.type = Structure[side] /\ d.type = Ending[side] /\ d.parent = r.ts => r.invalidated

\* persist_structure_detections marks them, together with the row of the ending.
LEMMA PersistedEnds ==
  ASSUME NEW rows \in SUBSET EventRows, NEW detections, Coherent(detections), Lineage(rows),
         EndsAreMarked(rows)
  PROVE  EndsAreMarked(Persisted(rows, detections))
<1> DEFINE grown == Grown(rows, detections)
           m(r) == Marked(rows, detections, r)
           ends(r) == EndedIn(rows, detections, r, {"BOTTOM_FAILED", "TOP_INVALIDATED"})
<1>1. grown \in SUBSET EventRows /\ Persisted(rows, detections) = {m(r) : r \in grown}
  BY GrownRows, PersistedParts
<1>2. \A r \in grown : /\ m(r).type = r.type /\ m(r).ts = r.ts /\ m(r).parent = r.parent
                       /\ m(r).invalidated = (r.invalidated \/ ends(r))
  BY <1>1, MarkedRow
<1>3. \A r \in grown : r \in rows \/ \E d \in New(rows, detections) : r = RowOf(d)
  BY DEF Grown
<1>4. ASSUME NEW r \in grown, NEW d \in grown, NEW side \in Sides,
             r.type = Structure[side], d.type = Ending[side], d.parent = r.ts
      PROVE  m(r).invalidated
  <2>1. ParentType(d.type) = r.type /\ d.type \in {"BOTTOM_FAILED", "TOP_INVALIDATED"}
          /\ ParentType(d.type) # "NONE"
    BY <1>4, TypeNames DEF Sides, Ending
  <2>2. ASSUME NEW new \in New(rows, detections), d = RowOf(new) PROVE m(r).invalidated
    <3>1. new.type = d.type /\ IsParent(r, new)
      BY <1>4, <2>1, <2>2 DEF RowOf, IsParent
    <3>2. ends(r)
      BY <2>1, <3>1 DEF EndedIn
    <3> QED BY <1>2, <3>2
  <2>3. CASE d \in rows
    <3>1. PICK p \in rows : p.type = r.type /\ p.ts = r.ts
      BY <1>4, <2>1, <2>3 DEF Lineage
    <3>2. r \in rows
      <4>1. ASSUME NEW new \in New(rows, detections), r = RowOf(new) PROVE FALSE
        BY <3>1, <4>1 DEF New, IsRow, RowOf
      <4> QED BY <1>3, <4>1
    <3>3. r.invalidated
      BY <1>4, <2>3, <3>2 DEF EndsAreMarked
    <3> QED BY <1>2, <3>3
  <2> QED BY <1>3, <2>2, <2>3
<1> HIDE DEF grown, m, ends
<1> QED BY <1>1, <1>2, <1>4 DEF EndsAreMarked

\* Between two structures of one life there is an ending that names the first.
LEMMA LifeEndsBetween ==
  ASSUME NEW history \in Seq(Bars), NEW side \in Sides,
         NEW first \in Examined(history), NEW second \in Examined(history), first < second,
         \E d \in FoundAt(side, history, first) : d.type = Structure[side],
         \E d \in FoundAt(side, history, second) : d.type = Structure[side]
  PROVE  \E ts \in Examined(history) :
           /\ ts < second
           /\ FoundAt(side, history, ts) = {[type |-> Ending[side], ts |-> ts, parent |-> first]}
<1> DEFINE life == Life(side, history)
           X == {ts \in first + 1 .. second - 1 : life[ts].structure # first}
<1>1. Examined(history) \subseteq Nat \ {0} /\ first \in Nat \ {0} /\ second \in Nat
  BY ExaminedBars
<1>2. \A ts \in first .. second : ts \in Examined(history)
  <2>1. Len(history) \in Nat /\ First(history) \in Nat /\ WarmUp \in Nat
    BY ExaminedBars, WindowAssumption
  <2> QED BY <1>1, <2>1 DEF Examined
<1>3. ASSUME NEW ts \in Examined(history), \E d \in FoundAt(side, history, ts) : d.type = Structure[side]
      PROVE  Builds(life[ts - 1], life[ts], ts)
  <2>1. \/ Passivates(life[ts - 1], life[ts], ts) \/ Builds(life[ts - 1], life[ts], ts)
        \/ Closes(life[ts - 1], life[ts]) \/ life[ts] = life[ts - 1]
    BY LifeCases
  <2>2. Passivation[side] # Structure[side] /\ Ending[side] # Structure[side]
    BY DEF Sides, Passivation, Structure, Ending
  <2> QED BY <1>3, <2>1, <2>2, FoundCases
<1>4. life[first].structure = first /\ life[second - 1].structure = None
  <2>1. Builds(life[first - 1], life[first], first) /\ Builds(life[second - 1], life[second], second)
    BY <1>3
  <2> HIDE DEF life
  <2> QED BY <2>1 DEF Builds
<1>5. X # {}
  <2>1. second - 1 # first
    BY <1>1, <1>4 DEF None
  <2>2. second - 1 \in first + 1 .. second - 1
    BY <1>1, <2>1
  <2> QED BY <1>1, <1>4, <2>2 DEF None
<1>6. PICK ts \in X : \A k \in X : ts <= k
  <2>1. X \subseteq Nat
    BY <1>1
  <2> HIDE DEF X
  <2> QED BY <1>5, <2>1, LeastNatural
<1>7. /\ ts \in Examined(history) /\ ts < second /\ ts > first /\ ts \in Nat
      /\ life[ts].structure # first
  BY <1>1, <1>2
<1>8. life[ts - 1].structure = first
  <2>1. CASE ts - 1 = first
    BY <1>4, <2>1
  <2>2. CASE ts - 1 # first
    <3>1. ts - 1 \in first + 1 .. second - 1 /\ ts - 1 \notin X
      BY <1>1, <1>6, <1>7, <2>2
    <3> QED BY <3>1
  <2> QED BY <2>1, <2>2
<1>9. Closes(life[ts - 1], life[ts])
  <2>1. \/ Passivates(life[ts - 1], life[ts], ts) \/ Builds(life[ts - 1], life[ts], ts)
        \/ Closes(life[ts - 1], life[ts]) \/ life[ts] = life[ts - 1]
    BY <1>7, LifeCases
  <2>2. life[ts - 1].structure # None
    BY <1>1, <1>8 DEF None
  <2>3. ~Passivates(life[ts - 1], life[ts], ts) /\ ~Builds(life[ts - 1], life[ts], ts)
    BY <2>2 DEF Passivates, Builds, Nothing
  <2>4. life[ts] # life[ts - 1]
    BY <1>7, <1>8
  <2> QED BY <2>1, <2>3, <2>4
<1>10. FoundAt(side, history, ts) = {[type |-> Ending[side], ts |-> ts, parent |-> first]}
  BY <1>7, <1>8, <1>9, FoundCases
<1> QED BY <1>7, <1>10
\* What the theorem below needs of every table.
StructureInv == LineageInv /\ OneLife /\ \A s \in Symbols : EndsAreMarked(events[s])

\* Every step keeps it.
LEMMA StructureInvInductive == TypeInv /\ StructureInv /\ [Next]_vars => StructureInv'
<1> SUFFICES ASSUME TypeInv, StructureInv, [Next]_vars PROVE StructureInv'
  OBVIOUS
<1>1. LineageInv' /\ OneLife'
  BY LineageInvInductive, OneLifeInductive DEF StructureInv
<1>2. ASSUME NEW s \in Symbols PROVE EndsAreMarked(events'[s])
  <2>1. events[s] \in SUBSET EventRows /\ Coherent(Detections(bars[s]))
    BY ScansAreCoherent DEF TypeInv, TypeOK
  <2>2. Lineage(events[s]) /\ EndsAreMarked(events[s])
    BY DEF StructureInv, LineageInv
  <2> QED BY <2>1, <2>2, OnlyScansWrite, PersistedEnds
<1> QED BY <1>1, <1>2 DEF StructureInv

\* structures.py:64-95: in one life, a structure of a side is followed by another only once
\* an ending has marked it.
THEOREM StructuresRepeatOnlyAfterAnEnding == Spec => []StructuresRepeatOnlyPastWindow
<1>1. Init => TypeInv /\ StructureInv
  <2>1. Init => TypeInv /\ LineageInv /\ \A s \in Symbols : EndsAreMarked(events[s])
    BY InitTypes DEF TypeInv, ItemsHaveTimes, Init, NoItem, LineageInv, Lineage, MarksAreLater,
                     EndsAreMarked
  <2>2. ASSUME Init, NEW s \in Symbols
        PROVE  \E n \in Nat : n <= Len(bars[s]) /\ IsFoundIn(events[s], bars[s], n)
    <3>1. bars[s] = <<>> /\ events[s] = {}
      BY <2>2 DEF Init
    <3>2. bars[s] \in Seq(Bars) /\ Len(bars[s]) = 0
      BY <3>1
    <3>3. Examined(bars[s]) = {}
      BY <3>2, ExaminedBars
    <3>4. IsFoundIn(events[s], bars[s], 0)
      BY <3>1, <3>3 DEF IsFoundIn
    <3> QED BY <3>2, <3>4
  <2> QED BY <2>1, <2>2 DEF StructureInv, OneLife
<1>2. ASSUME TypeInv, StructureInv PROVE StructuresRepeatOnlyPastWindow
  <2> SUFFICES ASSUME NEW s \in Symbols, NEW side \in Sides,
                      NEW r \in events[s], NEW later \in events[s],
                      r.type = Structure[side], later.type = Structure[side],
                      ~r.invalidated, r.ts < later.ts,
                      ~(First(bars[s]) > 1), ~(redrawn[s] > 0)
               PROVE  FALSE
    BY DEF StructuresRepeatOnlyPastWindow
  <2> DEFINE history == bars[s]
  <2>1. history \in Seq(Bars) /\ events[s] \in SUBSET EventRows /\ redrawn[s] \in Nat
    BY <1>2 DEF TypeInv, TypeOK
  <2>2. PICK n \in Nat : n <= Len(history) /\ IsFoundIn(events[s], history, n)
    <3>1. First(history) = 1 /\ redrawn[s] = 0
      BY <2>1, ExaminedBars
    <3> QED BY <1>2, <3>1 DEF StructureInv, OneLife
  <2> HIDE DEF history
  <2>3. \A e \in events[s] : \A kind \in {Structure, Ending} : e.type = kind[side] =>
          /\ e.ts \in Examined(history) /\ e.ts <= n
          /\ \E d \in FoundAt(side, history, e.ts) : d.type = kind[side] /\ d.parent = e.parent
    <3> SUFFICES ASSUME NEW e \in events[s], NEW kind \in {Structure, Ending}, e.type = kind[side]
                 PROVE  /\ e.ts \in Examined(history) /\ e.ts <= n
                        /\ \E d \in FoundAt(side, history, e.ts) :
                             d.type = kind[side] /\ d.parent = e.parent
      OBVIOUS
    <3>5. PICK other \in Sides, ts \in Examined(history) :
            ts <= n /\ \E d \in FoundAt(other, history, ts) : IsRow(e, d) /\ e.parent = d.parent
      BY <2>2 DEF IsFoundIn
    <3>1. PICK d \in FoundAt(other, history, ts) : IsRow(e, d) /\ e.parent = d.parent
      BY <3>5
    <3>2. d.ts = ts
      BY <2>1, FoundFit
    <3>3. d.type \in {Passivation[other], Structure[other], Ending[other]}
      BY <2>1, FoundCases, LifeCases
    <3>4. other = side
      <4>1. d.type = kind[side]
        BY <3>1 DEF IsRow
      <4>2. CASE kind = Structure
        BY <3>3, <4>1, <4>2 DEF Sides, Passivation, Structure, Ending
      <4>3. CASE kind = Ending
        BY <3>3, <4>1, <4>3 DEF Sides, Passivation, Structure, Ending
      <4> QED BY <4>2, <4>3
    <3> QED BY <3>1, <3>2, <3>4, <3>5 DEF IsRow
  <2>4. PICK ts \in Examined(history) :
          /\ ts < later.ts
          /\ FoundAt(side, history, ts) = {[type |-> Ending[side], ts |-> ts, parent |-> r.ts]}
    BY <2>1, <2>3, LifeEndsBetween
  <2>5. PICK e \in events[s] : e.type = Ending[side] /\ e.ts = ts
    <3>1. ts <= n
      BY <2>1, <2>2, <2>3, <2>4, ExaminedBars
    <3> DEFINE d == [type |-> Ending[side], ts |-> ts, parent |-> r.ts]
    <3>2. \E e \in events[s] : IsRow(e, d)
      <4>1. d \in FoundAt(side, history, ts)
        BY <2>4
      <4> HIDE DEF d
      <4> QED BY <2>2, <3>1, <4>1 DEF IsFoundIn
    <3> QED BY <3>2 DEF IsRow
  <2>6. e.parent = r.ts
    BY <2>3, <2>4, <2>5
  <2>7. r.invalidated
    BY <1>2, <2>5, <2>6 DEF StructureInv, EndsAreMarked
  <2> QED BY <2>7
<1>3. Spec => [](TypeInv /\ StructureInv)
  BY <1>1, TypeInvInductive, StructureInvInductive, PTL DEF Spec
<1> QED BY <1>2, <1>3, PTL

----------------------------------------------------------------------------
(* The price rules, for every structure, quote and budget.  Both theorems  *)
(* rest on the risk of a sound structure: with the entry a tenth of an ATR *)
(* above its level and the stop half an ATR below its pivot, it is more    *)
(* than the half ATR the price may be chased.                              *)

\* The levels of a sound structure: the risk is at least 0.6 ATR, so the no-chase
\* line, half an ATR above the entry, is less than a risk above it.
LEMMA SoundLevels ==
  ASSUME NEW item \in Items, NEW quote \in Quotes, Triggers(item, quote)
  PROVE  LET plan == Levels(item) IN
         /\ plan.entry \in Nat /\ plan.stop \in Nat /\ plan.no_chase \in Nat
         /\ plan.target_1 \in Nat /\ plan.target_2 \in Nat
         /\ plan.stop < plan.entry /\ plan.entry < plan.no_chase
         /\ plan.no_chase < plan.entry + (plan.entry - plan.stop)
         /\ plan.no_chase < plan.target_1 /\ plan.target_1 < plan.target_2
<1> DEFINE ref == item.reference
           sref == item.stop_reference
           atr == item.atr
           plan == Levels(item)
<1>1. /\ ref \in Nat /\ sref \in Nat /\ atr \in Nat \ {0}
      /\ ref % 2 = 0 /\ sref % 2 = 0 /\ atr % 20 = 0 /\ ref >= sref
  BY PriceAssumption DEF Triggers
<1>2. PICK a \in Nat \ {0} : atr = 20 * a
  <2>1. atr = 20 * (atr \div 20)
    BY <1>1
  <2> QED
    BY <1>1, <2>1
<1>3. PICK r \in Nat, s \in Nat : ref = 2 * r /\ sref = 2 * s
  <2>1. ref = 2 * (ref \div 2) /\ sref = 2 * (sref \div 2)
    BY <1>1
  <2>2. ref \div 2 \in Nat /\ sref \div 2 \in Nat
    BY <1>1
  <2> QED
    BY <2>1, <2>2
<1>4. atr \div 10 = 2 * a /\ atr \div 2 = 10 * a
  BY <1>2
<1>5. /\ plan.entry = 2 * r + 2 * a
      /\ plan.stop = 2 * s - 10 * a
      /\ plan.no_chase = 2 * r + 12 * a
      /\ plan.target_1 = 2 * r + 2 * a + 3 * ((2 * r + 2 * a - (2 * s - 10 * a)) \div 2)
      /\ plan.target_2 = 2 * r + 2 * a + 2 * (2 * r + 2 * a - (2 * s - 10 * a))
  BY <1>3, <1>4 DEF Levels
<1>6. (2 * r + 2 * a - (2 * s - 10 * a)) \div 2 = r - s + 6 * a
  <2>1. 2 * r + 2 * a - (2 * s - 10 * a) = 2 * (r - s + 6 * a)
    OBVIOUS
  <2>2. \A k \in Int : (2 * k) \div 2 = k
    OBVIOUS
  <2> QED
    BY <2>1, <2>2
<1>7. r >= s /\ 0 < 2 * s - 10 * a
  BY <1>1, <1>3, <1>5 DEF Triggers, IsPlanned
<1> QED
  BY <1>5, <1>6, <1>7

\* A quote that triggers is the limit of the order.
LEMMA TriggeredLimit ==
  ASSUME NEW item \in Items, NEW quote \in Quotes, Triggers(item, quote)
  PROVE  LET plan == Levels(item) IN
         /\ LimitPrice(plan, quote) = quote
         /\ quote \in Nat \ {0} /\ plan.entry <= quote /\ quote <= plan.no_chase
<1> DEFINE plan == Levels(item)
<1>1. quote \in Nat \ {0}
  BY PriceAssumption
<1>2. plan.entry <= quote /\ quote <= plan.no_chase
  BY DEF Triggers, Zone
<1>3. plan.no_chase \in Nat
  BY SoundLevels
<1> QED
  BY <1>1, <1>2, <1>3 DEF LimitPrice, Least

\* What a triggered entry buys is not sold at the quote that triggered it: no
\* reading of the fill has _manage_position exit at it.
THEOREM EntriesAreHeld == EntriesAreNotSoldAtOnce
<1> SUFFICES ASSUME NEW item \in Items, NEW quote \in Quotes, Triggers(item, quote),
                    NEW holding \in Holdings(item, quote)
             PROVE  Exit(holding, quote) = "NONE"
  BY DEF EntriesAreNotSoldAtOnce
<1> DEFINE plan == Levels(item)
<1>1. /\ LimitPrice(plan, quote) = quote /\ quote \in Nat \ {0}
      /\ plan.entry <= quote /\ quote <= plan.no_chase
  BY TriggeredLimit
<1>2. /\ plan.stop \in Nat /\ plan.entry \in Nat /\ plan.no_chase \in Nat
      /\ plan.target_1 \in Nat /\ plan.target_2 \in Nat
      /\ plan.stop < plan.entry /\ plan.no_chase < plan.target_1
      /\ plan.target_1 < plan.target_2
  BY SoundLevels
<1>3. Exit(Booked(plan, quote), quote) = "NONE"
  BY <1>1, <1>2 DEF Exit, Booked
<1>4. (98 * quote) \div 100 < quote /\ (103 * quote + 99) \div 100 > quote
  BY <1>1
<1>5. Exit(Adopted(quote), quote) = "NONE"
  BY <1>1, <1>4 DEF Exit, Adopted, orphan_stop_loss_pct, orphan_take_profit_pct
<1>6. Exit(BookedLater(plan, quote), quote) = "NONE"
  BY <1>1, <1>2, <1>4 DEF Exit, BookedLater, Adopted, orphan_stop_loss_pct
<1> QED
  BY <1>1, <1>3, <1>5, <1>6 DEF Holdings

\* Stopped at its stop, an entry costs less than twice the budget the executor
\* sizes it by.
THEOREM StopsCostLittle == StopsCostUnderTwiceTheBudget
<1> SUFFICES ASSUME NEW item \in Items, NEW quote \in Quotes, NEW budget \in Budgets,
                    Triggers(item, quote), Shares(Levels(item), budget) # 0
             PROVE  LossAtStop(item, quote, budget) < 2 * budget
  BY DEF StopsCostUnderTwiceTheBudget
<1> DEFINE plan == Levels(item)
           risk == plan.entry - plan.stop
           shares == Shares(plan, budget)
<1>1. /\ LimitPrice(plan, quote) = quote /\ quote \in Nat
      /\ plan.entry <= quote /\ quote <= plan.no_chase
  BY TriggeredLimit
<1>2. /\ plan.stop \in Nat /\ plan.entry \in Nat /\ plan.no_chase \in Nat
      /\ plan.stop < plan.entry /\ plan.no_chase < plan.entry + risk
  BY SoundLevels
<1>3. budget \in Nat /\ risk \in Nat \ {0}
  BY <1>2, PriceAssumption
<1>4. shares = budget \div risk
  BY DEF Shares
<1>5. shares \in Nat \ {0} /\ shares * risk <= budget
  <2>1. \A b \in Nat, k \in Nat \ {0} : b \div k \in Nat /\ (b \div k) * k <= b
    OBVIOUS
  <2> QED
    BY <1>3, <1>4, <2>1
<1>6. quote - plan.stop \in Nat /\ quote - plan.stop < 2 * risk
  BY <1>1, <1>2
<1>7. shares * (quote - plan.stop) < shares * (2 * risk)
  <2>1. \A n \in Nat \ {0}, x \in Nat, y \in Nat : x < y => n * x < n * y
    OBVIOUS
  <2>2. 2 * risk \in Nat
    BY <1>3
  <2> QED
    BY <1>5, <1>6, <2>1, <2>2
<1>8. shares * (2 * risk) = 2 * (shares * risk)
  BY <1>3, <1>5
<1>9. /\ Booked(plan, quote).entry = quote
      /\ Booked(plan, quote).stop = plan.stop
  BY DEF Booked
<1> HIDE DEF plan, risk, shares
<1>10. shares * risk \in Nat /\ shares * (quote - plan.stop) \in Nat
  BY <1>3, <1>5, <1>6
<1>11. shares * (quote - plan.stop) < 2 * budget
  BY <1>3, <1>5, <1>7, <1>8, <1>10
<1> QED
  BY <1>1, <1>9, <1>11 DEF plan, shares, LossAtStop
=============================================================================
