--------------------------- MODULE MCParkingSystem ---------------------------
(***************************************************************************)
(* ParkingSystem for TLC.  wire is passed on in the step that sets it and  *)
(* read by nothing afterwards.  Drained bounds the search: no line waits   *)
(* in the vehicle between two steps for want of room on the connection.    *)
(***************************************************************************)
EXTENDS ParkingSystem, TLC

Symmetry == Permutations(Handlers)

Drained == tx = <<>>

View == <<server, vehicle, socket, serving, orphaned, connections>>
=============================================================================
