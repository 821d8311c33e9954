--------------------------- MODULE FirmwareProofs ---------------------------
(***************************************************************************)
(* What is proved of sdram_init() and of PEStartPlatform() alone holds of  *)
(* _main(), which runs one after the other; and the ARM is told the truth  *)
(* about its memory.                                                       *)
(***************************************************************************)
EXTENDS Firmware, SdramProofs, PowerProofs

\* A step of the firmware is a step of one part, and the other part stands still.
LEMMA Parts == /\ FirmwareInit => SdramInit /\ Init
               /\ [FirmwareNext]_<<vars, sdramVars>> => [SdramNext]_sdramVars /\ [Next]_vars
  BY DEF FirmwareInit, FirmwareNext, SdramStep, PlatformStep

\* So both parts keep their invariants.
LEMMA PartInvariants == FirmwareSpec => [](SdInv /\ IInv /\ JInv)
  <1>1. FirmwareInit => SdInv /\ IInv /\ JInv
    BY Parts, InitSdInv, InitIInv, InitJInv
  <1>2. SdInv /\ IInv /\ JInv /\ [FirmwareNext]_<<vars, sdramVars>> => (SdInv /\ IInv /\ JInv)'
    BY Parts, SdInvStep, IInvStep, JInvStep
  <1> QED BY <1>1, <1>2, PTL DEF FirmwareSpec

\* Whatever _main() does is a run of sdram_init() with pauses in it, and one of
\* PEStartPlatform(): each part keeps the promises it was proved to keep alone.
THEOREM FirmwareImplementsParts ==
  FirmwareSpec => /\ SdramInit /\ [][SdramNext]_sdramVars
                  /\ Init /\ [][Next]_vars
  BY Parts, PTL DEF FirmwareSpec

\* The types of both parts, in the whole of _main().
THEOREM FirmwareTypes == FirmwareSpec => []TypeOK /\ []SdramTypeOK
  <1>1. SdInv /\ IInv => TypeOK /\ SdramTypeOK
    BY DEF SdInv, IInv
  <1> QED BY <1>1, PartInvariants, PTL

\* The clock of the memory, in the whole of _main(): no step of PEStartPlatform() touches it.
THEOREM FirmwareClock == FirmwareSpec => ClockSetQuietly
  <1>1. SdInv /\ [SdramNext]_sdramVars =>
          [cm'.ctrl # cm.ctrl \/ (cm.enab /\ ~cm'.enab) => ~sdup /\ accpt]_sdramVars
    BY ClockRule
  <1> QED BY <1>1, Parts, PartInvariants, PTL DEF FirmwareSpec, ClockSetQuietly

\* The mode register commands, in the whole of _main().
THEOREM FirmwareCommands == FirmwareSpec => CommandsUndisturbed
  <1>1. SdInv /\ [SdramNext]_sdramVars =>
          [mr.pending => /\ mr'.reg = mr.reg /\ mr'.kind = mr.kind
                         /\ mrt' = mrt /\ ~taken' /\ sdc' = "on"]_sdramVars
    BY CommandRule
  <1> QED BY <1>1, Parts, PartInvariants, PTL DEF FirmwareSpec, CommandsUndisturbed

\* The USB controller under a dark IMAGE domain, in the whole of _main().
THEOREM FirmwareUsbRule == FirmwareSpec => []UsbOffUnderImage
  <1>1. IInv => UsbOffUnderImage
    BY DEF IInv
  <1> QED BY <1>1, PartInvariants, PTL

\* The rounds of waitForPOWOK(), in the whole of _main().
THEOREM FirmwareSweep == FirmwareSpec => []CfgSweepSuffices
  <1>1. JInv => CfgSweepSuffices
    BY DEF JInv
  <1> QED BY <1>1, PartInvariants, PTL

\* The order of the power bits, in the whole of _main().
THEOREM FirmwarePowerOrder == FirmwareSpec => []DomainOrder
  <1>1. IInv => DomainOrder
    BY DEF IInv
  <1> QED BY <1>1, PartInvariants, PTL

\* The ARM's first fetch, in the whole of _main().
THEOREM FirmwareFirstFetch == FirmwareSpec => []ArmRunsCode
  <1>1. IInv /\ JInv => ArmRunsCode
    BY DEF IInv, JInv, ArmInOrder, TypeOK, ArmRunsCode, ArmRuns
  <1> QED BY <1>1, PartInvariants, PTL

\* The second start of the memory, in the whole of _main().
THEOREM FirmwareStartsOnLock == FirmwareSpec => []StartedOnLock
  <1>1. SdInv => StartedOnLock
    BY DEF SdInv, Rest, Stages, Controller, Locks, Command, Known, StartedOnLock
  <1> QED BY <1>1, PartInvariants, PTL

-----------------------------------------------------------------------------
(* The memory the ARM is told of.                                            *)

\* After the self test the controller is up for good, and nothing of the ARM's is in
\* memory before.
Tested ==
  /\ at \in {"selftest", "up"} => sdc = "on"
  /\ at = "up" => stage = "second" /\ sdup
  /\ ram # "junk" => at = "up"

\* sdram_init() ends with the controller on, and has no step after its end.
LEMMA TestedStep == SdInv /\ Tested /\ [FirmwareNext]_<<vars, sdramVars>> => Tested'
  <1> SUFFICES ASSUME SdInv, Tested, [FirmwareNext]_<<vars, sdramVars>> PROVE Tested'
    OBVIOUS
  <1> USE DEF Tested
  <1>1. CASE UNCHANGED <<vars, sdramVars>>
    BY <1>1 DEF vars, sdramVars, initVars, regVars, statusVars, armVars
  <1>2. CASE PlatformStep
    <2>1. at = "up" /\ UNCHANGED <<at, stage, sdc, sdup>>
      BY <1>2 DEF PlatformStep, sdramVars, initVars, regVars, statusVars
    <2> QED BY <2>1
  <1>3. CASE SdramStep
    <2>1. UNCHANGED ram
      BY <1>3 DEF SdramStep, vars, armVars
    <2> USE DEF Continue, Follow, initVars, regVars, statusVars, phyVars
    <2>2. CASE SelfTest
      <3>1. at = "selftest" /\ at' \in {"up", "failed"} /\ sdup /\ UNCHANGED <<stage, sdc, sdup>>
        BY <2>2 DEF SelfTest
      <3>2. stage = "second"
        BY <3>1 DEF SdInv, Rest, Stages, SdramTypeOK
      <3> QED BY <2>1, <3>1, <3>2
    <2>3. CASE StartController
      <3>1. at = "start" /\ at' \in {"sdupWait", "selftest"} /\ sdc' = "on"
        BY <2>3 DEF StartController
      <3> QED BY <2>1, <3>1
    <2>4. CASE DropSdup
      BY <2>1, <2>4 DEF DropSdup
    <2>5. CASE Issue \/ Await
      BY <2>1, <2>5 DEF Issue, Await
    <2>6. CASE \/ SwitchClock \/ ClockSwitched \/ BeginUpdate \/ Update \/ EndUpdate
               \/ LockPll \/ ResetDll \/ DllLocked \/ AddrDllLocked
      BY <2>1, <2>6 DEF SwitchClock, ClockSwitched, BeginUpdate, Update, EndUpdate, LockPll, ResetDll,
                        DllLocked, AddrDllLocked
    <2>7. CASE ControllerUp \/ Standby \/ ControllerDown \/ CalibrateAddr \/ CalibrateData \/ EndCalibration
      BY <2>1, <2>7 DEF ControllerUp, Standby, ControllerDown, CalibrateAddr, CalibrateData, EndCalibration
    <2>8. CASE RunClock \/ Accept \/ RaiseSdup \/ Lock \/ CompletePvt \/ FinishCommand
      BY <2>1, <2>8 DEF RunClock, Accept, RaiseSdup, Lock, CompletePvt, FinishCommand
    <2> QED BY <1>3, <2>2, <2>3, <2>4, <2>5, <2>6, <2>7, <2>8
            DEF SdramStep, SdramNext, SdramProgram, SdramHardware
  <1> QED BY <1>1, <1>2, <1>3 DEF FirmwareNext

\* lpddr2_size() knows four codes, and each for what it is.
LEMMA SizesAreRight ==
  ASSUME NEW c \in 0 .. 255, Lpddr2Size(c) # 0 PROVE Lpddr2Size(c) = Capacity(c)
  <1>1. c \in {88, 24, 20, 16}
    BY DEF Lpddr2Size
  <1>2. c = 88 => Lpddr2Size(c) = 1024 /\ Capacity(c) = 1024
    BY DEF Lpddr2Size, Capacity, Density
  <1>3. c = 24 => Lpddr2Size(c) = 512 /\ Capacity(c) = 512
    BY DEF Lpddr2Size, Capacity, Density
  <1>4. c = 20 => Lpddr2Size(c) = 256 /\ Capacity(c) = 256
    BY DEF Lpddr2Size, Capacity, Density
  <1>5. c = 16 => Lpddr2Size(c) = 128 /\ Capacity(c) = 128
    BY DEF Lpddr2Size, Capacity, Density
  <1> QED BY <1>1, <1>2, <1>3, <1>4, <1>5

\* Nothing is put into memory before it is up and tested, and the size the ARM is told
\* is the chip's, for every value MR8 may have.
THEOREM ArmIsToldTheTruth == FirmwareSpec => []ArmKnowsMemory
  <1>1. FirmwareInit => Tested
    BY DEF FirmwareInit, SdramInit, Init, Tested
  <1>2. SdInv /\ Tested => ArmKnowsMemory
    <2> SUFFICES ASSUME SdInv, Tested, ram # "junk" PROVE at = "up" /\ sdup /\ ramSize = Capacity(chip)
      BY DEF ArmKnowsMemory
    <2>1. at = "up" /\ sdup /\ stage = "second" /\ sdc = "on"
      BY DEF Tested
    <2>2. ramSize # 0 /\ ramSize = Lpddr2Size(chip)
      BY <2>1 DEF SdInv, Rest, Locks, Known
    <2>3. chip \in 0 .. 255
      <3>1. PlainTypes
        BY TypeParts DEF SdInv
      <3> QED BY <3>1, SdramAssumption DEF PlainTypes
    <2> QED BY <2>1, <2>2, <2>3, SizesAreRight
  <1>3. FirmwareSpec => [](SdInv /\ Tested)
    BY <1>1, TestedStep, PartInvariants, PTL DEF FirmwareSpec
  <1> QED BY <1>2, <1>3, PTL
=============================================================================
