--------------------------- MODULE MCLidarFollower ---------------------------
(* Bounds for TLC: two rays, four distances of which one is out of range, a  *)
(* period of two steps with late scans, and the outputs of the controller    *)
(* about which its cases turn.                                               *)
EXTENDS LidarFollower

MCOutputs == {-7, -4, -3, 0, 1}
=============================================================================
