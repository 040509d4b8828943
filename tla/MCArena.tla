------------------------------ MODULE MCArena ------------------------------
(* Instances of Arena.                                                     *)
EXTENDS Arena

OneSlot == {10}
OneBox == {20}
NoBoxes == {}
OneWord == {1}
OneOrTwoWords == {1, 2}
=============================================================================
