--------------------------- MODULE MCParkingServer ---------------------------
(***************************************************************************)
(* ParkingServer for TLC: handlers are interchangeable, and so are slots.  *)
(* No guard reads wire or source_seq, so states that differ in nothing     *)
(* else have the same future.                                              *)
(***************************************************************************)
EXTENDS ParkingServer, TLC

Symmetry == Permutations(Handlers) \cup Permutations(Slots)

View == <<shared, pc, [h \in Handlers |-> [job[h] EXCEPT !.seq = TRUE]], changed, up>>
=============================================================================
