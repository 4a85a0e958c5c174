--------------------------- MODULE MCScanPipeline ---------------------------
(***************************************************************************)
(* One symbol whose bars begin, confirm and end structures of both sides,  *)
(* and the price rules over a grid of structures and quotes.               *)
(***************************************************************************)
EXTENDS ScanPipelineProperties

CONSTANT Length  \* bars of a history

Histories == [s \in Symbols |-> {{"bottoms", "rises", "breaksUp"}, {"breaksDown", "tops", "falls"}}]
Lengths == [s \in Symbols |-> Length]

\* The jobs of the timers, and the route that scans without the lock.
TimersAndRoute ==
  [r \in Runners |-> IF r = "web" THEN {<<"scan">>} ELSE {<<"screen">> \o Hourly, Hourly}]

\* Structures confirmed above their pivot, at it and below it, in calm and wild
\* markets, and quotes from below every stop to above every target.
Structured == [reference : {1000, 1010, 1100}, stop_reference : {900, 1000, 1020, 1100},
               atr : {20, 100, 200}]
EvenQuotes == {2 * k : k \in 350 .. 1000}
=============================================================================
