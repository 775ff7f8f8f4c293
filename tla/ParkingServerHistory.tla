------------------------ MODULE ParkingServerHistory ------------------------
(***************************************************************************)
(* ParkingServer with a memory of the trajectories it stopped, to say what *)
(* no state of the server can say alone.                                   *)
(***************************************************************************)
EXTENDS ParkingServer

VARIABLE stopped        \* ids that were ready or executing, and no longer are

historyVars == <<vars, stopped>>

HistoryInit == Init /\ stopped = {}

Remember == stopped' = IF Running(session) /\ (Running(session)' => session'.active # session.active)
                       THEN stopped \cup {session.active} ELSE stopped

HistorySpec == HistoryInit /\ [][Next /\ Remember]_historyVars

\* "A trajectory is never resumed blindly after a safety pause", or after any
\* other end: with any number of connections, in any interleaving, a trajectory
\* that was paused, completed, rejected or withdrawn does not become ready or
\* executing again.
NeverResumed == Running(session) => session.active \notin stopped
=============================================================================
