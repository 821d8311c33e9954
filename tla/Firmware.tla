------------------------------ MODULE Firmware ------------------------------
(***************************************************************************)
(* _main() of the VideoCore firmware up to the moment the ARM runs: first  *)
(* sdram_init(), then PEStartPlatform(), whose last step tells the ARM how *)
(* much memory there is.                                                   *)
(***************************************************************************)
EXTENDS Power, Sdram

FirmwareInit == SdramInit /\ Init

SdramStep == SdramNext /\ UNCHANGED vars

PlatformStep == at = "up" /\ Next /\ UNCHANGED sdramVars

FirmwareNext == SdramStep \/ PlatformStep

FirmwareSpec ==
  /\ FirmwareInit /\ [][FirmwareNext]_<<vars, sdramVars>>
  /\ WF_sdramVars(SdramProgram) /\ WF_sdramVars(SdramHardware)
  /\ WF_vars(at = "up" /\ (PowerOn \/ Platform \/ StartArm)) /\ WF_vars(PhyAnswers)

-----------------------------------------------------------------------------
(* Properties.                                                               *)

\* External: the memory in MB that a chip's MR8 stands for (LPDDR2: density in bits 2
\* to 5, chips of 16 bits in pairs).
Density == <<8, 16, 32, 64, 128, 256, 512, 1024, 2048, 4096>>
Capacity(code) == Density[((code \div 4) % 16) + 1] * (IF code \div 64 = 1 THEN 2 ELSE 1)

\* Before the ARM gets anything, the memory it lies in was started and tested, and the
\* size the ARM is told is what the chip says of itself.
ArmKnowsMemory == ram # "junk" => at = "up" /\ sdup /\ ramSize = Capacity(chip)

\* Startup ends, in a running ARM or a panic.
StartupEnds == <>(pc \in {"done", "panic"} \/ at = "failed")
=============================================================================
