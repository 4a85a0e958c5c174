------------------------------ MODULE MCReplay ------------------------------
EXTENDS ReplayProperties

Minutes == [t \in {"15m", "60m", "1d"} |-> IF t = "15m" THEN 1 ELSE 3]
OneIndustry == [s \in Symbols |-> "software"]
TrailBy == [m \in TradeableMarkets |-> IF m = "RISK_ON" THEN 4 ELSE 3]

Bar(low, close, resumes, weak, away) ==
  [low |-> low, close |-> close, resumes |-> resumes, weak |-> weak, away |-> away]

\* A bar at the entry, one that rises above it, one that falls back, one that
\* touches the stop and recovers.
Resumes == Bar(12, 12, TRUE, FALSE, FALSE)
Rises == Bar(12, 14, FALSE, FALSE, TRUE)
FallsBack == Bar(11, 11, FALSE, TRUE, FALSE)
Dips == Bar(10, 12, FALSE, FALSE, FALSE)
Breaks == Bar(9, 9, FALSE, TRUE, TRUE)

\* Symbol 1 is replayed, symbol 2 is its rival, symbol 3 is on the desk, where no
\* low is looked at and one kind of failing bar stands for both.
QuarterBars == [s \in Symbols |-> {Resumes} \cup CASE s = 1 -> {Rises, FallsBack, Dips, Breaks}
                                                  [] s = 2 -> {}
                                                  [] s = 3 -> {FallsBack}]
HourBars == [s \in Symbols |-> IF s = 2 THEN {FALSE} ELSE BOOLEAN]
DailyBars == [s \in Symbols |-> {[close |-> 12, weak |-> FALSE]}
               \cup IF s # 2 THEN {[close |-> 10, weak |-> TRUE], [close |-> 16, weak |-> FALSE]} ELSE {}]

S(mode, traded, equity, length, warm) ==
  [mode |-> mode, traded |-> traded, equity |-> equity, bars |-> length, warm |-> warm]

\* A desk with one symbol; a replay of one symbol, long enough for a second entry,
\* and of two, for the limit of positions; and a replay as it is shipped,
\* whose tables know no equity.
AllSessions ==
  {S("desk", {3}, Equity, 6, TRUE), S("replay", {1}, Equity, 7, TRUE),
   S("replay", {1, 2}, Equity, 4, TRUE), S("replay", {1}, 0, 7, FALSE)}

\* For the finding: one replay that can enter twice.
OneReplay == {S("replay", {1}, Equity, 6, TRUE)}
=============================================================================
