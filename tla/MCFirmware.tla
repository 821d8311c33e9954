----------------------------- MODULE MCFirmware -----------------------------
(* Firmware with a CFG requirement that is met at once, one that is met only *)
(* in the last round, and one that is never met; a chip of each size, and    *)
(* one that sdram.c does not know (0x54).                                    *)
EXTENDS Firmware

MCNeeds    == {0, 3, 4}
MCMemories == BOOLEAN
MCChips    == {88, 24, 20, 16, 84}
=============================================================================
