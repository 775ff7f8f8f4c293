---------------------------- MODULE MCLaneDriving ----------------------------
(***************************************************************************)
(* Constants for LaneDriving.  A unit of time stands for the 33 ms of a    *)
(* frame.  As in config/laas_config.example.yaml decision and planning, 50 *)
(* ms, are slower than the detector, 33 ms, and the rest; the default for  *)
(* the detector in Config.hpp, 333 ms, would make it the slowest.  Every   *)
(* timeout is met by tasks that run on time and passed after a stall.      *)
(***************************************************************************)
EXTENDS LaneDriving

MCDurations == {8, 10}
MCPassesFrom == [t \in MCDurations |-> t + 4]
MCChangeCost == [t \in MCDurations |-> 34]

MCPeriod == [t \in Tasks |-> IF t \in {"decision", "planning"} THEN 2 ELSE 1]

MCDistances == {-1, 4, 13}

Sight(lines) == [lines |-> lines, wide |-> TRUE, merged |-> {},
                 steep |-> FALSE, inView |-> TRUE]
MCSights == {Sight({}), [Sight(Sides) EXCEPT !.steep = TRUE]}

(* Everything a frame may show, for the tracking alone *)
MCAllSights == AllSights
MCNoObstacle == {-1}
=============================================================================
