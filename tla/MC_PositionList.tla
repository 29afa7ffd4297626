--------------------------- MODULE MC_PositionList ---------------------------
(***************************************************************************)
(* PositionList with four mints competing for three slots, the user being  *)
(* limited to two: the limit, the liquidator's extra slot and the full     *)
(* list are all reached.                                                   *)
(***************************************************************************)
EXTENDS PositionList
=============================================================================
