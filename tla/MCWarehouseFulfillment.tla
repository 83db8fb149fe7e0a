----------------------- MODULE MCWarehouseFulfillment -----------------------
(* Instances of WarehouseFulfillment for TLC. *)
EXTENDS WarehouseFulfillment, TLC

MCSymmetry ==
    Permutations(Workers) \cup Permutations(RequestIds) \cup Permutations(RowIds)
        \cup Permutations(Items)
=============================================================================
