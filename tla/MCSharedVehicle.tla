--------------------------- MODULE MCSharedVehicle --------------------------
(* Two connections send the vehicle of a third, who may have left out the  *)
(* number or a field of the sub-message when he joined.                    *)
EXTENDS SharedVehicle, TLC

All == Top \cup {"x"}
MCFirstMessages == {All, All \ {"number"}, All \ {"x"}, All \ {"com", "x"}}
MCSymmetry == Permutations(Readers)
=============================================================================
