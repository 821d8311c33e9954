------------------------------- MODULE Sdram -------------------------------
(***************************************************************************)
(* sdram_init() of the VideoCore firmware (sdram.c): a first start of the  *)
(* SDRAM controller on the crystal's clock, calibration and a look at what *)
(* chip there is through its mode registers, then a second start on the    *)
(* PHY's own PLL, and the self test.                                       *)
(*                                                                         *)
(* Every wait of the code is a poll without a limit: a step that is        *)
(* enabled when the hardware has answered.  Timings and slew rates are     *)
(* left out.                                                               *)
(***************************************************************************)
EXTENDS Naturals, Sequences

CONSTANT Chips   (* what MR8 of the chip on the board may say *)

ASSUME SdramAssumption == Chips \subseteq 0 .. 255 /\ Chips # {}

VARIABLES
  at,      (* the step of sdram_init()                                       *)
  stage,   (* "first" start, "off": the clock goes off, "second" start       *)
  k,       (* the mode register command it is at                             *)
  ramSize, (* g_RAMSize, in MB; 0 is kRamSizeUnknown                         *)
  cm,      (* CM_SDCCTL: UPDATE, ENAB, CTRL                                  *)
  sdc,     (* SD_CS: the controller is off, started or in standby            *)
  mrt,     (* SD_MRT                                                         *)
  taken    (* PHY_BIST_CNTRL_SPR: the address lines are taken from it        *)

initVars == <<at, stage, k, ramSize>>
regVars  == <<cm, sdc, mrt, taken>>

VARIABLES
  chip,    (* what MR8 says                                                  *)
  latency, (* its read and write latencies are set (MR2)                     *)
  mr,      (* SD_MR: the command, whether it is under way, timed out, data   *)
  accpt, busy, sdup,          (* status of clock manager and controller      *)
  pll, dqDll, addrDll, pvt    (* locks of the PHY, and its calibration       *)

phyVars    == <<pll, dqDll, addrDll, pvt>>
statusVars == <<accpt, busy, sdup>>
sdramVars  == <<initVars, regVars, chip, latency, mr, statusVars, phyVars>>

Write(r, wait) == [reg |-> r, kind |-> IF wait THEN "confirmed" ELSE "posted"]
Read(r)        == [reg |-> r, kind |-> "read"]
Calibrate      == [reg |-> "calibration", kind |-> "calibrate"]

\* The mode register commands of the first start, in their order.
Commands == << Write("feature2", FALSE), Write("reserved", TRUE), Write("feature2", TRUE),
               Calibrate, Write("ioConfig", FALSE), Read("manufacturer"), Read("metrics") >>
BeforePvt == 3

Registers == {"feature2", "reserved", "calibration", "ioConfig", "manufacturer", "metrics"}
Steps     == {"switch", "switched", "update", "accepted", "updated", "pll", "dll", "dllReset",
              "addrWait", "start", "sdupWait", "issue", "await", "pvtAddr", "pvtData",
              "standby", "downWait", "selftest", "up", "failed"}

SdramTypeOK ==
  /\ at \in Steps /\ stage \in {"first", "off", "second"} /\ k \in 1 .. Len(Commands)
  /\ ramSize \in {0, 128, 256, 512, 1024}
  /\ cm \in [update : BOOLEAN, enab : BOOLEAN, ctrl : {0, 4}]
  /\ sdc \in {"off", "on", "standby"} /\ mrt \in {3, 20} /\ taken \in BOOLEAN
  /\ chip \in Chips /\ latency \in BOOLEAN
  /\ mr \in [reg : Registers \cup {"none"}, kind : {"posted", "confirmed", "calibrate", "read"},
             pending : BOOLEAN, timeout : BOOLEAN, data : Chips \cup {0}]
  /\ accpt \in BOOLEAN /\ busy \in BOOLEAN /\ sdup \in BOOLEAN
  /\ pll \in BOOLEAN /\ dqDll \in BOOLEAN /\ addrDll \in BOOLEAN
  /\ pvt \in {"none", "addrAsked", "addr", "dataAsked", "data"}

\* After reset; the DLLs may still be locked.
SdramInit ==
  /\ at = "switch" /\ stage = "first" /\ k = 1 /\ ramSize = 0
  /\ cm = [update |-> FALSE, enab |-> FALSE, ctrl |-> 0]
  /\ sdc = "off" /\ mrt = 3 /\ taken = FALSE
  /\ chip \in Chips /\ latency = FALSE
  /\ mr = [reg |-> "none", kind |-> "posted", pending |-> FALSE, timeout |-> FALSE, data |-> 0]
  /\ accpt = FALSE /\ busy = FALSE /\ sdup = FALSE
  /\ pll = FALSE /\ dqDll = TRUE /\ addrDll = TRUE /\ pvt = "none"

-----------------------------------------------------------------------------
(* Clocks and PHY.                                                           *)

Continue(l) == at' = l /\ UNCHANGED <<stage, k, ramSize>>

\* switch_to_cprman_clock(): the crystal, enabled ...
SwitchClock ==
  /\ at = "switch" /\ Continue("switched")
  /\ cm' = [cm EXCEPT !.enab = TRUE]
  /\ UNCHANGED <<sdc, mrt, taken, chip, latency, mr, statusVars, phyVars>>

\* ... until BUSY; then init_clkman().
ClockSwitched ==
  /\ at = "switched" /\ busy /\ Continue("update")
  /\ UNCHANGED <<regVars, chip, latency, mr, statusVars, phyVars>>

\* clkman_update_begin(): UPDATE ...
BeginUpdate ==
  /\ at = "update" /\ Continue("accepted")
  /\ cm' = [cm EXCEPT !.update = TRUE]
  /\ UNCHANGED <<sdc, mrt, taken, chip, latency, mr, statusVars, phyVars>>

\* What is written once UPDATE is accepted: CTRL, 0 or 4, or ENAB off.
Setting == CASE stage = "first"  -> [cm EXCEPT !.ctrl = 0]
             [] stage = "off"    -> [cm EXCEPT !.enab = FALSE, !.ctrl = 0]
             [] stage = "second" -> [cm EXCEPT !.ctrl = 4]

\* ... until ACCPT, the write, and clkman_update_end(), UPDATE off ...
Update ==
  /\ at = "accepted" /\ accpt /\ Continue("updated")
  /\ cm' = [Setting EXCEPT !.update = FALSE]
  /\ UNCHANGED <<sdc, mrt, taken, chip, latency, mr, statusVars, phyVars>>

\* ... until ACCPT goes.
EndUpdate ==
  /\ at = "updated" /\ ~accpt
  /\ Continue(IF stage = "off" THEN "pll" ELSE "dll")
  /\ UNCHANGED <<regVars, chip, latency, mr, statusVars, phyVars>>

\* reset_with_timing(): the PLL is restarted and has to lock before CTRL is 4.
LockPll ==
  /\ at = "pll" /\ pll
  /\ at' = "update" /\ stage' = "second" /\ UNCHANGED <<k, ramSize>>
  /\ UNCHANGED <<regVars, chip, latency, mr, statusVars, phyVars>>

\* reset_phy_dll(), after reset_phy() or the new timings: both DLLs are reset ...
ResetDll ==
  /\ at = "dll" /\ Continue("dllReset")
  /\ taken' = TRUE /\ dqDll' = FALSE /\ addrDll' = FALSE
  /\ UNCHANGED <<cm, sdc, mrt, chip, latency, mr, statusVars, pll, pvt>>

\* Mutant of DllLocked: the address DLL is not waited for before the second start.
DllLockedHalf ==
  /\ at = "dllReset" /\ dqDll
  /\ Continue("start")
  /\ UNCHANGED <<regVars, chip, latency, mr, statusVars, phyVars>>

\* ... and the data DLL has to lock; before the second start the address DLL, too.
DllLocked ==
  /\ at = "dllReset" /\ dqDll
  /\ Continue(IF stage = "first" THEN "start" ELSE "addrWait")
  /\ UNCHANGED <<regVars, chip, latency, mr, statusVars, phyVars>>

AddrDllLocked ==
  /\ at = "addrWait" /\ addrDll /\ Continue("start")
  /\ UNCHANGED <<regVars, chip, latency, mr, statusVars, phyVars>>

\* The address lines are given back, and the controller is started or restarted.
StartController ==
  /\ at = "start" /\ Continue(IF stage = "first" THEN "sdupWait" ELSE "selftest")
  /\ taken' = FALSE /\ sdc' = "on" /\ mrt' = 3
  /\ UNCHANGED <<cm, chip, latency, mr, statusVars, phyVars>>

ControllerUp ==
  /\ at = "sdupWait" /\ sdup /\ Continue("issue")
  /\ UNCHANGED <<regVars, chip, latency, mr, statusVars, phyVars>>

\* reset_with_timing(): standby ...
Standby ==
  /\ at = "standby" /\ Continue("downWait")
  /\ sdc' = "standby"
  /\ UNCHANGED <<cm, mrt, taken, chip, latency, mr, statusVars, phyVars>>

\* Mutant of ControllerDown: SDUP is not looked at.
ControllerDownAtOnce ==
  /\ at = "downWait"
  /\ at' = "update" /\ stage' = "off" /\ UNCHANGED <<k, ramSize>>
  /\ UNCHANGED <<regVars, chip, latency, mr, statusVars, phyVars>>

\* ... until the controller is down.
ControllerDown ==
  /\ at = "downWait" /\ ~sdup
  /\ at' = "update" /\ stage' = "off" /\ UNCHANGED <<k, ramSize>>
  /\ UNCHANGED <<regVars, chip, latency, mr, statusVars, phyVars>>

-----------------------------------------------------------------------------
(* Mode registers.                                                           *)

\* Mutant of MustBeIdle: write_mr() and read_mr() do not wait for DONE first.
NeverIdle(c) == FALSE

\* write_mr() and read_mr() wait for DONE first, the calibration command does not.
MustBeIdle(c) == c.kind # "calibrate"

\* Whether DONE is waited for afterwards.
Awaits(c) == c.kind # "posted"

\* Mutant of Lpddr2Size: the density is taken for megabytes.
Lpddr2SizeInMbit(code) == CASE code = 88 -> 8192
                            [] code = 24 -> 4096
                            [] code = 20 -> 2048
                            [] code = 16 -> 1024
                            [] OTHER -> 0

\* Mutant of Lpddr2Size: two lines are swapped.
Lpddr2SizeSwapped(code) == CASE code = 88 -> 1024
                             [] code = 24 -> 256
                             [] code = 20 -> 512
                             [] code = 16 -> 128
                             [] OTHER -> 0

\* lpddr2_size()
Lpddr2Size(code) == CASE code = 88 -> 1024   \* 0x58
                      [] code = 24 -> 512    \* 0x18
                      [] code = 20 -> 256    \* 0x14
                      [] code = 16 -> 128    \* 0x10
                      [] OTHER -> 0

\* The command is over, as far as the code looks: what comes next.
Follow ==
  /\ IF k = BeforePvt THEN at' = "pvtAddr"
     ELSE IF k = Len(Commands) THEN at' = "standby"
     ELSE at' = "issue"
  /\ k' = IF k = Len(Commands) THEN k ELSE k + 1
  /\ UNCHANGED stage

Issue ==
  /\ at = "issue"
  /\ LET c == Commands[k]
     IN  /\ MustBeIdle(c) => ~mr.pending
         /\ mr' = [mr EXCEPT !.reg = c.reg, !.kind = c.kind, !.pending = TRUE, !.timeout = FALSE]
         /\ mrt' = IF c.kind = "calibrate" THEN 20 ELSE mrt
         /\ IF c.kind = "posted" THEN Follow /\ UNCHANGED ramSize ELSE Continue("await")
  /\ UNCHANGED <<cm, sdc, taken, chip, latency, statusVars, phyVars>>

\* Confirmed writes and reads panic on a time-out, the calibration command does not
\* look; MR8 becomes the size, and a size that is not known a panic.
Await ==
  /\ at = "await"
  /\ LET c    == Commands[k]
         size == Lpddr2Size(mr.data)
         bad  == \/ c.kind # "calibrate" /\ mr.timeout
                 \/ c.reg = "metrics" /\ size = 0
     IN  /\ Awaits(c) => ~mr.pending
         /\ mrt' = IF c.kind = "calibrate" THEN 3 ELSE mrt
         /\ IF bad THEN at' = "failed" /\ UNCHANGED <<stage, k>> ELSE Follow
         /\ ramSize' = IF c.reg = "metrics" /\ ~mr.timeout THEN size ELSE ramSize
  /\ UNCHANGED <<cm, sdc, taken, chip, latency, mr, statusVars, phyVars>>

\* calibrate_pvt_early(): the PHY takes the address lines and calibrates them, ...
CalibrateAddr ==
  /\ at = "pvtAddr" /\ Continue("pvtData")
  /\ taken' = TRUE /\ pvt' = "addrAsked"
  /\ UNCHANGED <<cm, sdc, mrt, chip, latency, mr, statusVars, pll, dqDll, addrDll>>

\* ... then the data lines, and gives them back.
CalibrateData ==
  /\ at = "pvtData" /\ pvt = "addr"
  /\ pvt' = "dataAsked"
  /\ UNCHANGED <<initVars, regVars, chip, latency, mr, statusVars, pll, dqDll, addrDll>>

EndCalibration ==
  /\ at = "pvtData" /\ pvt = "data" /\ Continue("issue")
  /\ taken' = FALSE
  /\ UNCHANGED <<cm, sdc, mrt, chip, latency, mr, statusVars, phyVars>>

\* The self test writes and reads through the controller, which makes it wait until
\* it is up; what the memory returns is open.
SelfTest ==
  /\ at = "selftest" /\ sdup
  /\ \E l \in {"up", "failed"} : Continue(l)
  /\ UNCHANGED <<regVars, chip, latency, mr, statusVars, phyVars>>

-----------------------------------------------------------------------------
(* The hardware.                                                             *)

\* The controller's clock: the crystal, or the PHY's PLL.
Clocked == IF cm.ctrl = 4 THEN pll ELSE cm.enab /\ busy

RunClock ==
  /\ cm.enab /\ ~busy /\ busy' = TRUE
  /\ UNCHANGED <<initVars, regVars, chip, latency, mr, accpt, sdup, phyVars>>

Accept ==
  /\ accpt # cm.update /\ accpt' = cm.update
  /\ UNCHANGED <<initVars, regVars, chip, latency, mr, busy, sdup, phyVars>>

RaiseSdup ==
  /\ sdc = "on" /\ ~sdup /\ Clocked /\ sdup' = TRUE
  /\ UNCHANGED <<initVars, regVars, chip, latency, mr, accpt, busy, phyVars>>

DropSdup ==
  /\ sdc = "standby" /\ sdup /\ sdup' = FALSE
  /\ UNCHANGED <<initVars, regVars, chip, latency, mr, accpt, busy, phyVars>>

Lock ==
  /\ \/ at = "pll" /\ ~pll /\ pll' = TRUE /\ UNCHANGED <<dqDll, addrDll>>
     \/ at # "dll" /\ ~dqDll /\ dqDll' = TRUE /\ UNCHANGED <<pll, addrDll>>
     \/ at # "dll" /\ ~addrDll /\ addrDll' = TRUE /\ UNCHANGED <<pll, dqDll>>
  /\ UNCHANGED <<initVars, regVars, chip, latency, mr, statusVars, pvt>>

CompletePvt ==
  /\ pvt \in {"addrAsked", "dataAsked"}
  /\ pvt' = IF pvt = "addrAsked" THEN "addr" ELSE "data"
  /\ UNCHANGED <<initVars, regVars, chip, latency, mr, statusVars, pll, dqDll, addrDll>>

\* A command is carried out, or times out.
FinishCommand ==
  /\ mr.pending
  /\ \/ /\ mr' = [mr EXCEPT !.pending = FALSE,
                            !.data = IF mr.reg = "metrics" THEN chip ELSE 0]
        /\ latency' = (latency \/ mr.reg = "feature2")
     \/ mr' = [mr EXCEPT !.pending = FALSE, !.timeout = TRUE] /\ UNCHANGED latency
  /\ UNCHANGED <<initVars, regVars, chip, statusVars, phyVars>>

-----------------------------------------------------------------------------

SdramProgram == \/ SwitchClock \/ ClockSwitched \/ BeginUpdate \/ Update \/ EndUpdate
                \/ LockPll \/ ResetDll \/ DllLocked \/ AddrDllLocked \/ StartController
                \/ ControllerUp \/ Standby \/ ControllerDown
                \/ Issue \/ Await \/ CalibrateAddr \/ CalibrateData \/ EndCalibration \/ SelfTest

SdramHardware == RunClock \/ Accept \/ RaiseSdup \/ DropSdup \/ Lock \/ CompletePvt \/ FinishCommand

SdramNext == SdramProgram \/ SdramHardware

\* One thread; every poll is without a limit, so that the hardware has to answer.
SdramSpec == SdramInit /\ [][SdramNext]_sdramVars /\ WF_sdramVars(SdramProgram)
             /\ WF_sdramVars(SdramHardware)

-----------------------------------------------------------------------------
(* Properties.                                                               *)

\* "because we're running from cache, we can freely mess with SDRAM clock": but only
\* with the controller down, and in an update that the clock manager has accepted.
ClockSetQuietly ==
  [][cm'.ctrl # cm.ctrl \/ (cm.enab /\ ~cm'.enab) => ~sdup /\ accpt]_sdramVars

\* The controller is started on a locked PHY that it has for itself, and at full speed
\* only with PLL and address DLL locked, the chip's latencies set for certain, and the
\* memory known.
StartedOnLock ==
  sdc = "on" =>
    /\ dqDll
    /\ stage = "second" => /\ pll /\ addrDll /\ ~taken /\ cm.ctrl = 4
                           /\ latency /\ ramSize # 0

\* A mode register command under way is left alone: nothing is written over it, its
\* timing stays, and it keeps the address lines and the controller.
CommandsUndisturbed ==
  [][mr.pending => /\ mr'.reg = mr.reg /\ mr'.kind = mr.kind
                   /\ mrt' = mrt /\ ~taken' /\ sdc' = "on"]_sdramVars
=============================================================================
