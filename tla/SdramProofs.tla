---------------------------- MODULE SdramProofs ----------------------------
(***************************************************************************)
(* The clock rule, the second start and the mode register commands of      *)
(* Sdram, for any chips and any delays.                                    *)
(***************************************************************************)
EXTENDS Sdram, TLAPS

\* The steps of each stage.
Stages ==
  /\ stage = "first" => at \in Steps \ {"pll", "addrWait", "selftest", "up"}
  /\ stage = "off" => at \in {"update", "accepted", "updated", "pll"}
  /\ stage = "second" => at \in {"update", "accepted", "updated", "dll", "dllReset", "addrWait",
                                 "start", "selftest", "up", "failed"}

Running == {"sdupWait", "issue", "await", "pvtAddr", "pvtData", "standby"}

\* When the controller is on, and when it is surely down.
Controller ==
  /\ at \in Running => sdc = "on"
  /\ at = "downWait" => sdc = "standby"
  /\ at \in {"update", "accepted", "updated", "pll", "dll", "dllReset", "addrWait", "start"} =>
       sdc # "on" /\ ~sdup
  /\ at \in {"switch", "switched"} => sdc = "off"
  /\ sdc = "off" => ~sdup

\* What is locked, and since which step.
Locks ==
  /\ sdc = "on" \/ at \in {"addrWait", "start"} => dqDll
  /\ stage = "second" => pll
  /\ stage = "second" /\ (sdc = "on" \/ at = "start") => addrDll /\ ramSize # 0
  /\ stage = "second" /\ at \notin {"update", "accepted"} => cm.ctrl = 4
  /\ stage = "second" /\ at \in {"selftest", "up", "failed"} => ~taken
  /\ stage # "second" => cm.ctrl = 0

\* The command the program is at is the one in SD_MR, and only posted ones are ever
\* left under way.
Command ==
  /\ mr.pending => at \in {"issue", "await"}
  /\ mr.pending /\ at = "issue" => k # 4
  /\ at = "await" => mr.reg = Commands[k].reg /\ mr.kind = Commands[k].kind /\ mr.kind # "posted"
  /\ mr.pending => ~taken
  /\ at \notin {"pvtData", "dllReset", "addrWait", "start", "failed"} => ~taken

\* The latencies are set from the confirmed write on, and the size from MR8 on.
Known ==
  /\ mr.reg = "feature2" /\ ~mr.pending /\ ~mr.timeout => latency
  /\ at \in {"pvtAddr", "pvtData", "standby", "downWait"} \/ stage # "first" \/ k > 3 => latency
  /\ at = "pvtAddr" => k = 4
  /\ at \in {"standby", "downWait"} \/ stage # "first" => ramSize # 0 /\ k = 7
  /\ mr.reg = "metrics" /\ ~mr.pending /\ ~mr.timeout => mr.data = chip
  /\ ramSize # 0 => ramSize = Lpddr2Size(chip)

Rest == Stages /\ Controller /\ Locks /\ Command /\ Known

SdInv == SdramTypeOK /\ Rest

-----------------------------------------------------------------------------

\* What the seven commands are.
LEMMA CommandTable ==
  /\ Len(Commands) = 7
  /\ \A n \in 1 .. 7 :
       /\ Commands[n].reg \in Registers
       /\ Commands[n].kind \in {"posted", "confirmed", "calibrate", "read"}
       /\ Commands[n].kind = "posted" <=> n \in {1, 5}
       /\ Commands[n].kind = "calibrate" <=> n = 4
       /\ Commands[n].reg = "metrics" <=> n = 7
       /\ n = 3 => Commands[n].reg = "feature2"
  <1>1. /\ Len(Commands) = 7
        /\ Commands[1] = Write("feature2", FALSE) /\ Commands[2] = Write("reserved", TRUE)
        /\ Commands[3] = Write("feature2", TRUE) /\ Commands[4] = Calibrate
        /\ Commands[5] = Write("ioConfig", FALSE) /\ Commands[6] = Read("manufacturer")
        /\ Commands[7] = Read("metrics")
    BY DEF Commands
  <1>2. ASSUME NEW n \in 1 .. 7 PROVE n \in {1, 2, 3, 4, 5, 6, 7}
    OBVIOUS
  <1> QED BY <1>1, <1>2 DEF Write, Read, Calibrate, Registers


\* The types in four parts, by which steps disturb them.
CmType == cm \in [update : BOOLEAN, enab : BOOLEAN, ctrl : {0, 4}]

MrType == mr \in [reg : Registers \cup {"none"}, kind : {"posted", "confirmed", "calibrate", "read"},
                  pending : BOOLEAN, timeout : BOOLEAN, data : Chips \cup {0}]

PlainTypes ==
  /\ at \in Steps /\ stage \in {"first", "off", "second"} /\ k \in 1 .. Len(Commands)
  /\ ramSize \in {0, 128, 256, 512, 1024}
  /\ sdc \in {"off", "on", "standby"} /\ mrt \in {3, 20} /\ chip \in Chips
  /\ pvt \in {"none", "addrAsked", "addr", "dataAsked", "data"}

Flags ==
  /\ taken \in BOOLEAN /\ latency \in BOOLEAN
  /\ accpt \in BOOLEAN /\ busy \in BOOLEAN /\ sdup \in BOOLEAN
  /\ pll \in BOOLEAN /\ dqDll \in BOOLEAN /\ addrDll \in BOOLEAN

LEMMA TypeParts == /\ SdramTypeOK <=> CmType /\ MrType /\ PlainTypes /\ Flags
                   /\ SdramTypeOK' <=> CmType' /\ MrType' /\ PlainTypes' /\ Flags'
  BY DEF SdramTypeOK, CmType, MrType, PlainTypes, Flags

\* CM_SDCCTL is written by three steps.
LEMMA CmTypeKept == ASSUME CmType, PlainTypes, SdramNext PROVE CmType'
  <1> USE DEF CmType
  <1>1. CASE SwitchClock
    BY <1>1 DEF SwitchClock
  <1>2. CASE BeginUpdate
    BY <1>2 DEF BeginUpdate
  <1>3. CASE Update
    <2>1. Setting \in [update : BOOLEAN, enab : BOOLEAN, ctrl : {0, 4}]
      <3>1. CASE stage = "first"
        BY <3>1 DEF Setting
      <3>2. CASE stage = "off"
        BY <3>2 DEF Setting
      <3>3. CASE stage = "second"
        BY <3>3 DEF Setting
      <3> QED BY <3>1, <3>2, <3>3 DEF PlainTypes
    <2>2. cm' = [Setting EXCEPT !.update = FALSE]
      BY <1>3 DEF Update
    <2> QED BY <2>1, <2>2
  <1>4. CASE UNCHANGED cm
    BY <1>4
  <1> QED BY <1>1, <1>2, <1>3, <1>4
          DEF SdramNext, SdramProgram, SdramHardware, regVars,
              ClockSwitched, EndUpdate, LockPll, ResetDll, DllLocked, AddrDllLocked, StartController,
              ControllerUp, Standby, ControllerDown, Issue, Await, CalibrateAddr, CalibrateData,
              EndCalibration, SelfTest, RunClock, Accept, RaiseSdup, DropSdup, Lock, CompletePvt,
              FinishCommand

\* SD_MR is written by Issue, and by the controller.
LEMMA MrTypeKept == ASSUME SdramTypeOK, SdramNext PROVE MrType'
  <1> USE TypeParts DEF MrType
  <1>1. CASE Issue
    <2>1. Commands[k].reg \in Registers /\ Commands[k].kind \in {"posted", "confirmed", "calibrate", "read"}
      BY CommandTable DEF PlainTypes
    <2> QED BY <1>1, <2>1 DEF Issue
  <1>2. CASE FinishCommand
    <2>1. CASE mr' = [mr EXCEPT !.pending = FALSE, !.timeout = TRUE]
      BY <2>1
    <2>2. CASE mr' = [mr EXCEPT !.pending = FALSE,
                                !.data = IF mr.reg = "metrics" THEN chip ELSE 0]
      <3>1. chip \in Chips \cup {0}
        BY DEF PlainTypes
      <3> QED BY <2>2, <3>1
    <2> QED BY <1>2, <2>1, <2>2 DEF FinishCommand
  <1>3. CASE UNCHANGED mr
    BY <1>3
  <1> QED BY <1>1, <1>2, <1>3
          DEF SdramNext, SdramProgram, SdramHardware,
              SwitchClock, ClockSwitched, BeginUpdate, Update, EndUpdate, LockPll, ResetDll, DllLocked,
              AddrDllLocked, StartController, ControllerUp, Standby, ControllerDown, Await,
              CalibrateAddr, CalibrateData, EndCalibration, SelfTest, RunClock, Accept, RaiseSdup,
              DropSdup, Lock, CompletePvt

\* The rest: only the counter of commands and the size are computed.
LEMMA PlainTypesKept == ASSUME PlainTypes, SdramNext PROVE PlainTypes'
  <1> USE DEF PlainTypes, Steps, Continue, initVars, regVars, statusVars, phyVars
  <1>1. CASE SwitchClock
    BY <1>1 DEF SwitchClock
  <1>2. CASE ClockSwitched
    BY <1>2 DEF ClockSwitched
  <1>3. CASE BeginUpdate
    BY <1>3 DEF BeginUpdate
  <1>4. CASE Update
    BY <1>4 DEF Update
  <1>5. CASE EndUpdate
    BY <1>5 DEF EndUpdate
  <1>6. CASE LockPll
    BY <1>6 DEF LockPll
  <1>7. CASE ResetDll
    BY <1>7 DEF ResetDll
  <1>8. CASE DllLocked
    BY <1>8 DEF DllLocked
  <1>9. CASE AddrDllLocked
    BY <1>9 DEF AddrDllLocked
  <1>10. CASE StartController
    BY <1>10 DEF StartController
  <1>11. CASE ControllerUp
    BY <1>11 DEF ControllerUp
  <1>12. CASE Standby
    BY <1>12 DEF Standby
  <1>13. CASE ControllerDown
    BY <1>13 DEF ControllerDown
  <1>14. CASE Issue
    BY <1>14, CommandTable DEF Issue, Follow, BeforePvt
  <1>15. CASE Await
    BY <1>15, CommandTable DEF Await, Follow, BeforePvt, Lpddr2Size
  <1>16. CASE CalibrateAddr
    BY <1>16 DEF CalibrateAddr
  <1>17. CASE CalibrateData
    BY <1>17 DEF CalibrateData
  <1>18. CASE EndCalibration
    BY <1>18 DEF EndCalibration
  <1>19. CASE SelfTest
    BY <1>19 DEF SelfTest
  <1>20. CASE RunClock
    BY <1>20 DEF RunClock
  <1>21. CASE Accept
    BY <1>21 DEF Accept
  <1>22. CASE RaiseSdup
    BY <1>22 DEF RaiseSdup
  <1>23. CASE DropSdup
    BY <1>23 DEF DropSdup
  <1>24. CASE Lock
    BY <1>24 DEF Lock
  <1>25. CASE CompletePvt
    BY <1>25 DEF CompletePvt
  <1>26. CASE FinishCommand
    BY <1>26 DEF FinishCommand
  <1> QED BY <1>1, <1>2, <1>3, <1>4, <1>5, <1>6, <1>7, <1>8, <1>9, <1>10, <1>11, <1>12, <1>13,
            <1>14, <1>15, <1>16, <1>17, <1>18, <1>19, <1>20, <1>21, <1>22, <1>23, <1>24, <1>25, <1>26
          DEF SdramNext, SdramProgram, SdramHardware

\* Flags are set, cleared, or copied from CM_SDCCTL.
LEMMA FlagsKept == ASSUME Flags, CmType, SdramNext PROVE Flags'
  <1> USE DEF Flags, initVars, regVars, statusVars, phyVars
  <1>1. CASE SwitchClock
    BY <1>1 DEF SwitchClock
  <1>2. CASE ClockSwitched
    BY <1>2 DEF ClockSwitched
  <1>3. CASE BeginUpdate
    BY <1>3 DEF BeginUpdate
  <1>4. CASE Update
    BY <1>4 DEF Update
  <1>5. CASE EndUpdate
    BY <1>5 DEF EndUpdate
  <1>6. CASE LockPll
    BY <1>6 DEF LockPll
  <1>7. CASE ResetDll
    BY <1>7 DEF ResetDll
  <1>8. CASE DllLocked
    BY <1>8 DEF DllLocked
  <1>9. CASE AddrDllLocked
    BY <1>9 DEF AddrDllLocked
  <1>10. CASE StartController
    BY <1>10 DEF StartController
  <1>11. CASE ControllerUp
    BY <1>11 DEF ControllerUp
  <1>12. CASE Standby
    BY <1>12 DEF Standby
  <1>13. CASE ControllerDown
    BY <1>13 DEF ControllerDown
  <1>14. CASE Issue
    BY <1>14 DEF Issue
  <1>15. CASE Await
    BY <1>15 DEF Await
  <1>16. CASE CalibrateAddr
    BY <1>16 DEF CalibrateAddr
  <1>17. CASE CalibrateData
    BY <1>17 DEF CalibrateData
  <1>18. CASE EndCalibration
    BY <1>18 DEF EndCalibration
  <1>19. CASE SelfTest
    BY <1>19 DEF SelfTest
  <1>20. CASE RunClock
    BY <1>20 DEF RunClock
  <1>21. CASE Accept
    BY <1>21 DEF Accept, CmType
  <1>22. CASE RaiseSdup
    BY <1>22 DEF RaiseSdup
  <1>23. CASE DropSdup
    BY <1>23 DEF DropSdup
  <1>24. CASE Lock
    BY <1>24 DEF Lock
  <1>25. CASE CompletePvt
    BY <1>25 DEF CompletePvt
  <1>26. CASE FinishCommand
    BY <1>26 DEF FinishCommand
  <1> QED BY <1>1, <1>2, <1>3, <1>4, <1>5, <1>6, <1>7, <1>8, <1>9, <1>10, <1>11, <1>12, <1>13,
            <1>14, <1>15, <1>16, <1>17, <1>18, <1>19, <1>20, <1>21, <1>22, <1>23, <1>24, <1>25, <1>26
          DEF SdramNext, SdramProgram, SdramHardware

\* Every step keeps the types.
LEMMA TypesKept == ASSUME SdramTypeOK, SdramNext PROVE SdramTypeOK'
  BY TypeParts, CmTypeKept, MrTypeKept, PlainTypesKept, FlagsKept

\* What the end of a command leaves in SD_MR, and what it does to the chip.
LEMMA Finished ==
  ASSUME SdramTypeOK, FinishCommand
  PROVE  /\ mr.pending /\ ~mr'.pending /\ mr'.reg = mr.reg /\ mr'.kind = mr.kind
         /\ \/ mr'.timeout
            \/ /\ mr.reg = "feature2" => latency'
               /\ mr.reg = "metrics" => mr'.data = chip
         /\ latency => latency'
         /\ UNCHANGED <<at, stage, k, ramSize, taken, chip>>
  <1> USE TypeParts DEF MrType, FinishCommand, initVars, regVars
  <1>1. CASE mr' = [mr EXCEPT !.pending = FALSE, !.timeout = TRUE] /\ UNCHANGED latency
    BY <1>1
  <1>2. CASE /\ mr' = [mr EXCEPT !.pending = FALSE,
                                 !.data = IF mr.reg = "metrics" THEN chip ELSE 0]
             /\ latency' = (latency \/ mr.reg = "feature2")
    BY <1>2
  <1> QED BY <1>1, <1>2

USE SdramAssumption DEF SdInv, Rest, SdramTypeOK, Stages, Controller, Locks, Command, Known, Running, Steps

\* Everything is off, and no command has been given.
LEMMA InitSdInv == SdramInit => SdInv
  <1> SUFFICES ASSUME SdramInit PROVE SdInv
    OBVIOUS
  <1> USE DEF SdramInit, Registers
  <1>1. SdramTypeOK
    <2>1. CmType /\ MrType
      BY DEF CmType, MrType
    <2>2. PlainTypes
      <3> USE DEF PlainTypes
      <3> QED BY CommandTable
    <2>3. Flags
      BY DEF Flags
    <2> QED BY <2>1, <2>2, <2>3, TypeParts
  <1>2. Stages /\ Controller
    OBVIOUS
  <1>3. Locks
    OBVIOUS
  <1>4. Command /\ Known
    OBVIOUS
  <1> QED BY <1>1, <1>2, <1>3, <1>4

\* The clock switch, and updates of CM_SDCCTL.
LEMMA ClockStep ==
  ASSUME SdInv,
         SwitchClock \/ ClockSwitched \/ BeginUpdate \/ Update
         \/ EndUpdate
  PROVE  Rest'
  <1> USE DEF Continue, statusVars, phyVars, regVars, initVars
  <1>1. CASE SwitchClock
    BY <1>1 DEF SwitchClock
  <1>2. CASE ClockSwitched
    BY <1>2 DEF ClockSwitched
  <1>3. CASE BeginUpdate
    BY <1>3 DEF BeginUpdate
  <1>4. CASE Update
    BY <1>4 DEF Update, Setting
  <1>5. CASE EndUpdate
    BY <1>5 DEF EndUpdate
  <1> QED BY <1>1, <1>2, <1>3, <1>4, <1>5

\* Locks, and both starts.
LEMMA StartStep ==
  ASSUME SdInv,
         LockPll \/ ResetDll \/ DllLocked \/ AddrDllLocked
         \/ StartController \/ ControllerUp \/ Standby \/ ControllerDown
  PROVE  Rest'
  <1> USE DEF Continue, statusVars, phyVars, regVars, initVars
  <1>1. CASE LockPll
    BY <1>1 DEF LockPll
  <1>2. CASE ResetDll
    BY <1>2 DEF ResetDll
  <1>3. CASE DllLocked
    BY <1>3 DEF DllLocked
  <1>4. CASE AddrDllLocked
    BY <1>4 DEF AddrDllLocked
  <1>5. CASE StartController
    BY <1>5 DEF StartController
  <1>6. CASE ControllerUp
    BY <1>6 DEF ControllerUp
  <1>7. CASE Standby
    BY <1>7 DEF Standby
  <1>8. CASE ControllerDown
    BY <1>8 DEF ControllerDown
  <1> QED BY <1>1, <1>2, <1>3, <1>4, <1>5, <1>6, <1>7, <1>8

\* Calibration and self test.
LEMMA CalibrationStep == ASSUME SdInv, CalibrateAddr \/ CalibrateData \/ EndCalibration \/ SelfTest PROVE Rest'
  <1> USE DEF Continue, statusVars, phyVars, regVars, initVars
  <1>1. CASE CalibrateAddr
    BY <1>1 DEF CalibrateAddr
  <1>2. CASE CalibrateData
    BY <1>2 DEF CalibrateData
  <1>3. CASE EndCalibration
    BY <1>3 DEF EndCalibration
  <1>4. CASE SelfTest
    BY <1>4 DEF SelfTest
  <1> QED BY <1>1, <1>2, <1>3, <1>4

\* A command is written; a posted one is left to itself.
LEMMA IssueStep == ASSUME SdInv, Issue PROVE Rest'
  <1> USE CommandTable DEF Issue, MustBeIdle, Follow, Continue, BeforePvt, statusVars, phyVars
  <1>1. ~mr.pending /\ at = "issue" /\ k \in 1 .. 7
    OBVIOUS
  <1>2. at' \in {"issue", "await"}
    BY <1>1
  <1>4. Stages' /\ Controller'
    BY <1>1, <1>2
  <1>5. Locks'
    BY <1>1, <1>2
  <1>6. Command'
    BY <1>1
  <1>7. Known'
    BY <1>1
  <1> QED BY <1>4, <1>5, <1>6, <1>7

\* A command is over: confirmed writes have set what they write.
LEMMA AwaitStep == ASSUME SdInv, Await PROVE Rest'
  <1> USE CommandTable DEF Await, Awaits, Follow, BeforePvt, statusVars, phyVars
  <1>1. ~mr.pending /\ at = "await" /\ k \in 1 .. 7
    OBVIOUS
  <1>2. Lpddr2Size(mr.data) \in {0, 128, 256, 512, 1024}
    BY DEF Lpddr2Size
  <1>4. Stages' /\ Controller'
    BY <1>1
  <1>5. Locks'
    BY <1>1
  <1>6. Command'
    BY <1>1
  <1>7. Known'
    BY <1>1
  <1> QED BY <1>4, <1>5, <1>6, <1>7

\* The hardware: the status bits, the locks, the chip.
LEMMA AnswerStep ==
  ASSUME SdInv,
         RunClock \/ Accept \/ RaiseSdup \/ DropSdup
         \/ Lock \/ CompletePvt \/ FinishCommand
  PROVE  Rest'
  <1> USE DEF initVars, regVars, statusVars, phyVars
  <1>1. CASE RunClock
    BY <1>1 DEF RunClock
  <1>2. CASE Accept
    BY <1>2 DEF Accept
  <1>3. CASE RaiseSdup
    BY <1>3 DEF RaiseSdup
  <1>4. CASE DropSdup
    BY <1>4 DEF DropSdup
  <1>5. CASE Lock
    BY <1>5 DEF Lock
  <1>6. CASE CompletePvt
    BY <1>6 DEF CompletePvt
  <1>7. CASE FinishCommand
    <2>1. Stages' /\ Controller' /\ Locks'
      BY <1>7 DEF FinishCommand
    <2>2. Command'
      BY <1>7, Finished
    <2>3. Known'
      BY <1>7, Finished
    <2> QED BY <2>1, <2>2, <2>3
  <1> QED BY <1>1, <1>2, <1>3, <1>4, <1>5, <1>6, <1>7

\* All steps.
LEMMA SdInvStep == SdInv /\ [SdramNext]_sdramVars => SdInv'
  <1>1. ASSUME SdInv, UNCHANGED sdramVars PROVE SdInv'
    BY <1>1 DEF sdramVars, initVars, regVars, statusVars, phyVars
  <1>2. ASSUME SdInv, SdramNext PROVE SdInv'
    <2> HIDE DEF SdInv, Rest, SdramTypeOK, Stages, Controller, Locks, Command, Known, Running, Steps
    <2>1. SdramTypeOK'
      BY <1>2, TypesKept DEF SdInv
    <2>2. CASE SdramProgram
      BY <1>2, <2>1, <2>2, ClockStep, StartStep, CalibrationStep, IssueStep, AwaitStep
         DEF SdramProgram, SdInv
    <2>3. CASE SdramHardware
      BY <1>2, <2>1, <2>3, AnswerStep DEF SdramHardware, SdInv
    <2> QED BY <1>2, <2>2, <2>3 DEF SdramNext
  <1> QED BY <1>1, <1>2

\* CM_SDCCTL as the steps write it.
LEMMA ClockRule ==
  ASSUME SdInv, [SdramNext]_sdramVars,
         cm'.ctrl # cm.ctrl \/ (cm.enab /\ ~cm'.enab)
  PROVE  ~sdup /\ accpt
  <1> USE TypeParts DEF CmType
  <1>1. CASE SwitchClock
    BY <1>1 DEF SwitchClock
  <1>2. CASE BeginUpdate
    BY <1>2 DEF BeginUpdate
  <1>3. CASE Update
    BY <1>3 DEF Update
  <1>4. CASE UNCHANGED cm
    BY <1>4
  <1> QED BY <1>1, <1>2, <1>3, <1>4
          DEF SdramNext, SdramProgram, SdramHardware, sdramVars, regVars,
              ClockSwitched, EndUpdate, LockPll, ResetDll, DllLocked, AddrDllLocked, StartController,
              ControllerUp, Standby, ControllerDown, Issue, Await, CalibrateAddr, CalibrateData,
              EndCalibration, SelfTest, RunClock, Accept, RaiseSdup, DropSdup, Lock, CompletePvt,
              FinishCommand

\* While a command is under way the program can only wait.
LEMMA CommandRule ==
  ASSUME SdInv, [SdramNext]_sdramVars, mr.pending
  PROVE  /\ mr'.reg = mr.reg /\ mr'.kind = mr.kind
         /\ mrt' = mrt /\ ~taken' /\ sdc' = "on"
  <1>1. at \in {"issue", "await"} /\ sdc = "on" /\ ~taken
    OBVIOUS
  <1>2. ~Issue /\ ~Await
    BY <1>1, CommandTable DEF Issue, Await, MustBeIdle, Awaits
  <1>3. ~SdramProgram
    <2> HIDE DEF SdInv
    <2> QED
      BY <1>1, <1>2
       DEF SdramProgram, SwitchClock, ClockSwitched, BeginUpdate, Update, EndUpdate, LockPll,
           ResetDll, DllLocked, AddrDllLocked, StartController, ControllerUp, Standby,
           ControllerDown, CalibrateAddr, CalibrateData, EndCalibration, SelfTest
  <1>4. UNCHANGED regVars
    BY <1>3 DEF SdramNext, SdramHardware, sdramVars, RunClock, Accept, RaiseSdup, DropSdup, Lock,
                CompletePvt, FinishCommand
  <1>5. mr'.reg = mr.reg /\ mr'.kind = mr.kind
    BY <1>3, Finished
       DEF SdramNext, SdramHardware, sdramVars, RunClock, Accept, RaiseSdup, DropSdup, Lock, CompletePvt
  <1> QED BY <1>1, <1>4, <1>5 DEF regVars

HIDE DEF SdInv

\* The invariant holds throughout.
LEMMA SdramInvariant == SdramSpec => []SdInv
  BY InitSdInv, SdInvStep, PTL DEF SdramSpec

\* Types: SD_MRT is one of two timings, the size one that is known.
THEOREM SdramTypes == SdramSpec => []SdramTypeOK
  <1>1. SdInv => SdramTypeOK
    BY DEF SdInv
  <1> QED BY <1>1, SdramInvariant, PTL

\* The second start finds a locked PHY, the latencies set and the size known,
\* whatever the delays and whichever posted write timed out.
THEOREM StartsOnLock == SdramSpec => []StartedOnLock
  <1>1. SdInv => StartedOnLock
    BY DEF SdInv, StartedOnLock
  <1> QED BY <1>1, SdramInvariant, PTL

\* The clock of the controller is changed, or taken away, only while the controller is
\* down and the clock manager has accepted the update.
THEOREM ClockOnlyWhenDown == SdramSpec => ClockSetQuietly
  <1>1. SdInv /\ [SdramNext]_sdramVars =>
          [cm'.ctrl # cm.ctrl \/ (cm.enab /\ ~cm'.enab) => ~sdup /\ accpt]_sdramVars
    BY ClockRule
  <1> QED BY <1>1, SdramInvariant, PTL DEF SdramSpec, ClockSetQuietly

\* A posted mode register write is never overtaken, even by the calibration command,
\* which does not wait for the one before it.
THEOREM CommandsKeepTheLine == SdramSpec => CommandsUndisturbed
  <1>1. SdInv /\ [SdramNext]_sdramVars =>
          [mr.pending => /\ mr'.reg = mr.reg /\ mr'.kind = mr.kind
                         /\ mrt' = mrt /\ ~taken' /\ sdc' = "on"]_sdramVars
    BY CommandRule
  <1> QED BY <1>1, SdramInvariant, PTL DEF SdramSpec, CommandsUndisturbed
=============================================================================
