--------------------------- MODULE MCVehicleFraming ---------------------------
(* Bounds for TLC: the client sends two vehicles, so that the second may     *)
(* find what the first left in the stream and in the buffer.                 *)
EXTENDS VehicleFraming

MCLongs == SUBSET {"own", "other"}
=============================================================================
