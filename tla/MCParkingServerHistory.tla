----------------------- MODULE MCParkingServerHistory -----------------------
(***************************************************************************)
(* ParkingServerHistory for TLC.                                           *)
(***************************************************************************)
EXTENDS MCParkingServer, ParkingServerHistory

HistoryView == <<View, stopped>>
=============================================================================
