--------------------------- MODULE MCVehicleTelemetry ---------------------------
(***************************************************************************)
(* Constants for VehicleTelemetry: frames of two bytes, a line that holds  *)
(* less than two of them, a queue of two.                                  *)
(***************************************************************************)
EXTENDS VehicleTelemetry, TelemetryCrc

MCFirstSeqs == {8}

(* The reader takes a line for the frame that was sent because its checksum *)
(* matches: where it has done so, no change of two bytes side by side can   *)
(* have gone unnoticed (crc16CcittFalse).                                   *)
ChecksumTellsApart == lastRx # NoSeq => TwoBytesTellApart

(* And it is the checksum that crc16CcittFalse is named for, the remainder  *)
(* of CRC-16/CCITT-FALSE, which the other end of the line computes as well: *)
(* another start value or polynomial may tell frames apart just as well but *)
(* lets no frame through.                                                   *)
ChecksumIsRemainder == lastRx # NoSeq => TwoBytesAreRemainders
=============================================================================
