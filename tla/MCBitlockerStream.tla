-------------------------- MODULE MCBitlockerStream --------------------------
(* A volume of five 2-unit sectors for BitlockerStream: sector 0 is the    *)
(* volume header, stored in sector 3; sector 2 is metadata; the source     *)
(* ends in the middle of sector 4.                                         *)
EXTENDS BitlockerStreamRefinement

MCReserved == << [startSector |-> 2, endSector |-> 3] >>
MCOffsets == {-1, 1, 7}
MCReadOffsets == {0, 1, 3, 7, 8}
MCLengths == {2, 5}
=============================================================================
