---------------------------- MODULE MCMessageObject -------------------------
(* Two messages of each type: a number and a sub-message, as VehicleMessage *)
(* has them; a number and a string, and repeated elements, as Person has;   *)
(* a type whose peers know a field more.                                    *)
EXTENDS MessageObject, TLC

MCTypes == {{"t", "c"}, {"t", "s"}, {"r"}, {"t", "u"}}
MCLeafOrder == <<"x", "y">>
MCSymmetry == Permutations(Messages) \cup Permutations(Cells)
=============================================================================
