------------------------------ MODULE MCSdHost ------------------------------
(* SdHost on small instances: two-word blocks, two sectors, all card kinds.   *)
EXTENDS SdHost

SDSC1 == [hc |-> FALSE, v2 |-> FALSE, csd |-> "1.0"]  \* no CMD8, needs CMD16
SDSC2 == [hc |-> FALSE, v2 |-> TRUE,  csd |-> "1.0"]
SDHC  == [hc |-> TRUE,  v2 |-> TRUE,  csd |-> "2.0"]
SDUC  == [hc |-> TRUE,  v2 |-> TRUE,  csd |-> "other"] \* a CSD version nobody knows

MCCards   == {SDSC1, SDSC2, SDHC, SDUC}
MCSectors == {0, 1}
MCFaults  == FaultKinds

TwoCards   == {SDSC1, SDHC}
OneSector  == {1}
LiveFaults == {"lost", "timeout", "crc", "stall"}
DataFaults == {"crc", "stall"}
=============================================================================
