------------------------------- MODULE Power -------------------------------
(***************************************************************************)
(* PEStartPlatform() of the VideoCore firmware: the power domains IMAGE,   *)
(* USB and ARM (BCM2708PowerManagement.cc), the USB PHY, and the ARM       *)
(* control block that loads the chainloader and lets the ARM run           *)
(* (BCM2708ArmControl.cc).                                                 *)
(*                                                                         *)
(* A PM register is a set of the bits the driver sets, its CFG field and   *)
(* the two status bits POWOK and MRDONE, which the hardware raises some    *)
(* time after it was told to.  A wait of twenty polls is one step: it sees *)
(* the bit, or it runs out before the bit comes.                           *)
(***************************************************************************)
EXTENDS Naturals

CONSTANTS
  Needs,    (* the CFG values from which a domain's power can come up; a     *)
            (* value above 3 is never reached                                *)
  Memories  (* whether memory repair of a domain finishes: a set of BOOLEANs *)

ASSUME PowerAssumption ==
  /\ Needs \subseteq Nat /\ Needs # {}
  /\ Memories \subseteq BOOLEAN /\ Memories # {}

Domains == {"IMAGE", "ARM"}
MaxCfg  == 3
Bits    == {"POWUP", "ISPOW", "MEMREP", "ISFUNC", "RSTN"}

VARIABLES
  pc,       (* the step of PEStartPlatform                                   *)
  dom,      (* the domain whose powerOn() runs                               *)
  seq,      (* IMAGE goes through its sequence twice                         *)
  i,        (* the round of waitForPOWOK()                                   *)
  pm,       (* control bits of PM_IMAGE and PM_PROC                          *)
  cfg,      (* their CFG fields                                              *)
  gate,     (* CM_PERIICTL_GATE: the IMAGE peripherals have no clock         *)
  usb,      (* PM_USB_CTRLEN                                                 *)
  dev,      (* deviceState of the drivers                                    *)
  ram,      (* the chainloader at ARM_MEMORY_BASE                            *)
  mapped,   (* the ARM's address map is set up                               *)
  pllb,     (* the ARM's clock runs                                          *)
  reqstop   (* ARM_C1_REQSTOP: the bridge between the ARM and memory is shut *)

progVars == <<pc, dom, seq, i>>
armVars  == <<ram, mapped, pllb, reqstop>>

VARIABLES
  powok,    (* the status bits                                               *)
  mrdone,
  phy,      (* the PHY's clock and its MDIO port have answered               *)
  need,     (* what the silicon needs: see Needs and Memories                *)
  repairs,
  slow      (* history: a wait ran out although the bit was due              *)

hwVars == <<powok, mrdone, phy, need, repairs>>
vars   == <<progVars, pm, cfg, gate, usb, dev, armVars, hwVars, slow>>

PCs == {"usbStop", "imageBegin", "powup", "powok", "again", "ispow", "memrep", "mrdone",
        "peri", "periReset", "usbStart", "phyClock", "phy", "load", "verify", "map",
        "clock", "armBegin", "armStarted", "bridge", "done", "panic"}

Drivers == {"IMAGE", "USB", "USBP", "ARM", "ARMC"}

TypeOK ==
  /\ pc \in PCs /\ dom \in Domains /\ seq \in 1 .. 2 /\ i \in 1 .. 4
  /\ pm \in [Domains -> SUBSET Bits] /\ cfg \in [Domains -> 0 .. MaxCfg]
  /\ gate \in BOOLEAN /\ usb \in BOOLEAN
  /\ dev \in [Drivers -> {"uninitialized", "stopped", "started"}]
  /\ ram \in {"junk", "copied", "damaged", "code"}
  /\ mapped \in BOOLEAN /\ pllb \in BOOLEAN /\ reqstop \in BOOLEAN
  /\ powok \in [Domains -> BOOLEAN] /\ mrdone \in [Domains -> BOOLEAN] /\ phy \in BOOLEAN
  /\ need \in [Domains -> Needs] /\ repairs \in [Domains -> Memories] /\ slow \in BOOLEAN

\* After reset; what CFG the boot ROM left, and whether USB ran (the firmware may
\* have been loaded over it), is open.
Init ==
  /\ pc = "usbStop" /\ dom = "IMAGE" /\ seq = 1 /\ i = 1
  /\ pm = [d \in Domains |-> {}] /\ cfg \in [Domains -> 0 .. MaxCfg]
  /\ gate \in BOOLEAN /\ usb \in BOOLEAN
  /\ dev = [d \in Drivers |-> "uninitialized"]
  /\ ram = "junk" /\ mapped = FALSE /\ pllb = FALSE /\ reqstop = TRUE
  /\ powok = [d \in Domains |-> FALSE] /\ mrdone = [d \in Domains |-> FALSE] /\ phy = FALSE
  /\ need \in [Domains -> Needs] /\ repairs \in [Domains -> Memories] /\ slow = FALSE

-----------------------------------------------------------------------------
(* powerOn() and what it is built from.                                      *)

SetBits(bits)   == pm' = [pm EXCEPT ![dom] = @ \cup bits]
ClearBits(bits) == pm' = [pm EXCEPT ![dom] = @ \ bits]
Goto(l)         == pc' = l /\ UNCHANGED <<dom, seq, i>>
Enter(d, state) == dev' = [dev EXCEPT ![d] = state]

\* x | 0x10000 on a register: the low bit of CFG.
WithLowBit(c) == IF c % 2 = 0 THEN c + 1 ELSE c

\* The IMAGE domain: CFG gets its low bit, nothing is cleared.
BeginImage ==
  /\ pc = "imageBegin"
  /\ pc' = "powup" /\ dom' = "IMAGE" /\ seq' = 1 /\ UNCHANGED i
  /\ cfg' = [cfg EXCEPT !["IMAGE"] = WithLowBit(@)]
  /\ UNCHANGED <<pm, gate, usb, dev, armVars, hwVars, slow>>

\* Other domains: reset asserted, CFG 0.
BeginArm ==
  /\ pc = "armBegin"
  /\ pc' = "powup" /\ dom' = "ARM" /\ seq' = 2 /\ UNCHANGED i
  /\ pm' = [pm EXCEPT !["ARM"] = @ \ {"RSTN"}] /\ cfg' = [cfg EXCEPT !["ARM"] = 0]
  /\ UNCHANGED <<gate, usb, dev, armVars, hwVars, slow>>

BeginPowerUpSequence ==
  /\ pc = "powup"
  /\ SetBits({"POWUP"})
  /\ pc' = "powok" /\ i' = 1 /\ UNCHANGED <<dom, seq>>
  /\ UNCHANGED <<cfg, gate, usb, dev, armVars, hwVars, slow>>

\* Mutant of AfterPowOk: every sequence is taken for the first.
AfterPowOkAgain == "again"

\* Where waitForPOWOK() returns to.
AfterPowOk == IF seq = 1 THEN "again" ELSE "ispow"

\* Mutant of LastRound: the loop ends a round early.
LastRoundTooSoon == 3

\* Mutant of LastRound: CFG goes up to 4.
LastRoundTooLate == 5

LastRound == 4

\* The wait saw POWOK: it does not end the loop, the rounds left are gone through.
SeePowOk ==
  /\ pc = "powok" /\ powok[dom]
  /\ IF i = LastRound THEN pc' = AfterPowOk /\ UNCHANGED i
                      ELSE i' = i + 1 /\ UNCHANGED pc
  /\ UNCHANGED <<dom, seq, pm, cfg, gate, usb, dev, armVars, hwVars, slow>>

\* POWOK is on its way.
PowOkDue == "POWUP" \in pm[dom] /\ cfg[dom] >= need[dom]

\* The wait ran out: the round's number becomes CFG, but for the last one, after
\* which start() panics.
MissPowOk ==
  /\ pc = "powok" /\ ~powok[dom]
  /\ slow' = (slow \/ PowOkDue)
  /\ IF i = LastRound
       THEN pc' = "panic" /\ UNCHANGED <<i, cfg>>
       ELSE i' = i + 1 /\ cfg' = [cfg EXCEPT ![dom] = i] /\ UNCHANGED pc
  /\ UNCHANGED <<dom, seq, pm, gate, usb, dev, armVars, hwVars>>

\* IMAGE: POWUP off, CFG 3, and once more.
RestartSequence ==
  /\ pc = "again"
  /\ ClearBits({"POWUP"}) /\ cfg' = [cfg EXCEPT ![dom] = MaxCfg]
  /\ pc' = "powup" /\ seq' = 2 /\ UNCHANGED <<dom, i>>
  /\ UNCHANGED <<gate, usb, dev, armVars, hwVars, slow>>

\* completePowerUpSequence(): isolation off, memory repair on, MRDONE, logic on.
SetIsPow ==
  /\ pc = "ispow" /\ Goto("memrep")
  /\ SetBits({"ISPOW"})
  /\ UNCHANGED <<cfg, gate, usb, dev, armVars, hwVars, slow>>

SetMemRep ==
  /\ pc = "memrep" /\ Goto("mrdone")
  /\ SetBits({"MEMREP"})
  /\ UNCHANGED <<cfg, gate, usb, dev, armVars, hwVars, slow>>

\* Mutant of MrDoneSeen: the result of the wait is not looked at.
MrDoneAssumed == TRUE

MrDoneSeen == mrdone[dom]

\* ISFUNC; start() goes on: IMAGE to its peripherals (its powerOn() has marked it
\* stopped), ARM is started.
SetIsFunc ==
  /\ pc = "mrdone" /\ MrDoneSeen
  /\ SetBits({"ISFUNC"})
  /\ IF dom = "IMAGE" THEN Goto("peri") /\ Enter("IMAGE", "stopped")
                      ELSE Goto("armStarted") /\ Enter("ARM", "started")
  /\ UNCHANGED <<cfg, gate, usb, armVars, hwVars, slow>>

MissMrDone ==
  /\ pc = "mrdone" /\ ~mrdone[dom] /\ Goto("panic")
  /\ slow' = (slow \/ repairs[dom])
  /\ UNCHANGED <<pm, cfg, gate, usb, dev, armVars, hwVars>>

-----------------------------------------------------------------------------
(* PEStartPlatform(): USB off, IMAGE on, USB on, the PHY, the ARM.           *)

\* Mutant of StopUsb: the driver is marked stopped, the register is left alone.
StopUsbInName ==
  /\ pc = "usbStop" /\ Goto("imageBegin")
  /\ Enter("USB", "stopped")
  /\ UNCHANGED <<pm, cfg, gate, usb, armVars, hwVars, slow>>

StopUsb ==
  /\ pc = "usbStop" /\ Goto("imageBegin")
  /\ usb' = FALSE /\ Enter("USB", "stopped")
  /\ UNCHANGED <<pm, cfg, gate, armVars, hwVars, slow>>

\* resetPeripheralsUngated(): gate, instruction burst, ungate ...
UngatePeripherals ==
  /\ pc = "peri" /\ Goto("periReset")
  /\ gate' = FALSE
  /\ UNCHANGED <<pm, cfg, usb, dev, armVars, hwVars, slow>>

\* ... wait, release the reset, gate again; and IMAGE is started.
ReleasePeripherals ==
  /\ pc = "periReset" /\ Goto("usbStart")
  /\ SetBits({"RSTN"}) /\ gate' = TRUE /\ Enter("IMAGE", "started")
  /\ UNCHANGED <<cfg, usb, armVars, hwVars, slow>>

StartUsb ==
  /\ pc = "usbStart" /\ Goto("phyClock")
  /\ usb' = TRUE /\ Enter("USB", "started")
  /\ UNCHANGED <<pm, cfg, gate, armVars, hwVars, slow>>

\* BCM2708UsbPhy::start() enables the clock and polls its USBOK flag, MDIO's
\* busy flag and a PHY register, each for as long as it takes.
StartPhyClock ==
  /\ pc = "phyClock" /\ Goto("phy")
  /\ UNCHANGED <<pm, cfg, gate, usb, dev, armVars, hwVars, slow>>

FinishPhy ==
  /\ pc = "phy" /\ phy /\ Goto("load")
  /\ Enter("USBP", "started")
  /\ UNCHANGED <<pm, cfg, gate, usb, armVars, hwVars, slow>>

\* loadInitialCode(): copy; bad RAM may not hold what was written.
CopyCode ==
  /\ pc = "load" /\ Goto("verify")
  /\ ram' \in {"copied", "damaged"}
  /\ UNCHANGED <<pm, cfg, gate, usb, dev, mapped, pllb, reqstop, hwVars, slow>>

\* Mutant of VerifyCode: the copy is not read back.
TrustCode ==
  /\ pc = "verify"
  /\ Goto("map") /\ ram' = (IF ram = "copied" THEN "code" ELSE ram)
  /\ UNCHANGED <<pm, cfg, gate, usb, dev, mapped, pllb, reqstop, hwVars, slow>>

\* Every byte is read back, then the firmware's data is patched in.
VerifyCode ==
  /\ pc = "verify"
  /\ IF ram = "copied" THEN Goto("map") /\ ram' = "code"
                       ELSE Goto("panic") /\ UNCHANGED ram
  /\ UNCHANGED <<pm, cfg, gate, usb, dev, mapped, pllb, reqstop, hwVars, slow>>

\* mapBusToArm() for memory and peripherals, and the access rights.
MapMemory ==
  /\ pc = "map" /\ Goto("clock")
  /\ mapped' = TRUE
  /\ UNCHANGED <<pm, cfg, gate, usb, dev, ram, pllb, reqstop, hwVars, slow>>

SetupClock ==
  /\ pc = "clock" /\ Goto("armBegin")
  /\ pllb' = TRUE
  /\ UNCHANGED <<pm, cfg, gate, usb, dev, ram, mapped, reqstop, hwVars, slow>>

\* bridgeStart(true): the reset is released and the bresp bits are cycled ...
ReleaseArm ==
  /\ pc = "armStarted" /\ Goto("bridge")
  /\ SetBits({"RSTN"})
  /\ UNCHANGED <<cfg, gate, usb, dev, armVars, hwVars, slow>>

\* ... and the bridge lets the ARM's first fetch through.
OpenBridge ==
  /\ pc = "bridge" /\ Goto("done")
  /\ reqstop' = FALSE /\ Enter("ARMC", "started")
  /\ UNCHANGED <<pm, cfg, gate, usb, ram, mapped, pllb, hwVars, slow>>

-----------------------------------------------------------------------------
(* The hardware.                                                             *)

RaisePowOk(d) ==
  /\ ~powok[d] /\ "POWUP" \in pm[d] /\ cfg[d] >= need[d]
  /\ powok' = [powok EXCEPT ![d] = TRUE]
  /\ UNCHANGED <<progVars, pm, cfg, gate, usb, dev, armVars, mrdone, phy, need, repairs, slow>>

\* With POWUP off the power goes, sooner or later.
DropPowOk(d) ==
  /\ powok[d] /\ "POWUP" \notin pm[d]
  /\ powok' = [powok EXCEPT ![d] = FALSE]
  /\ UNCHANGED <<progVars, pm, cfg, gate, usb, dev, armVars, mrdone, phy, need, repairs, slow>>

RaiseMrDone(d) ==
  /\ ~mrdone[d] /\ {"ISPOW", "MEMREP"} \subseteq pm[d] /\ powok[d] /\ repairs[d]
  /\ mrdone' = [mrdone EXCEPT ![d] = TRUE]
  /\ UNCHANGED <<progVars, pm, cfg, gate, usb, dev, armVars, powok, phy, need, repairs, slow>>

PhyAnswers ==
  /\ pc = "phy" /\ ~phy
  /\ phy' = TRUE
  /\ UNCHANGED <<progVars, pm, cfg, gate, usb, dev, armVars, powok, mrdone, need, repairs, slow>>

-----------------------------------------------------------------------------

PowerOn  == BeginImage \/ BeginArm \/ BeginPowerUpSequence \/ SeePowOk \/ MissPowOk
            \/ RestartSequence \/ SetIsPow \/ SetMemRep \/ SetIsFunc \/ MissMrDone
Platform == StopUsb \/ UngatePeripherals \/ ReleasePeripherals \/ StartUsb
            \/ StartPhyClock \/ FinishPhy
StartArm == CopyCode \/ VerifyCode \/ MapMemory \/ SetupClock \/ ReleaseArm \/ OpenBridge
Hardware == PhyAnswers \/ \E d \in Domains : RaisePowOk(d) \/ DropPowOk(d) \/ RaiseMrDone(d)

Next == PowerOn \/ Platform \/ StartArm \/ Hardware

\* One thread, no interrupts yet; the PHY answers in the end, since the code
\* waits for it without a limit.
Spec == Init /\ [][Next]_vars /\ WF_vars(PowerOn \/ Platform \/ StartArm) /\ WF_vars(PhyAnswers)

-----------------------------------------------------------------------------
(* Properties.                                                               *)

\* docs/power-management.txt gives the order POWUP, POWOK, ISPOW, MEMREP, MRDONE,
\* ISFUNC.  However late the status bits come: isolation is off only where there
\* is power, the logic runs only on repaired memory, the reset is off only on
\* running logic.
DomainOrder ==
  \A d \in Domains :
    /\ pm[d] \cap {"ISPOW", "MEMREP"} # {} => "POWUP" \in pm[d] /\ powok[d]
    /\ "ISFUNC" \in pm[d] => {"ISPOW", "MEMREP"} \subseteq pm[d] /\ mrdone[d]
    /\ "RSTN" \in pm[d] => "ISFUNC" \in pm[d]

\* "All devices in the IMAGE domain have to be disabled before starting the
\* domain itself": the USB controller is off until IMAGE runs.
UsbOffUnderImage == "POWUP" \in pm["IMAGE"] /\ dev["IMAGE"] # "started" => ~usb

\* The ARM fetches from memory.
ArmRuns == {"POWUP", "ISFUNC", "RSTN"} \subseteq pm["ARM"] /\ pllb /\ ~reqstop

\* The ARM never fetches anything but the verified chainloader, through its map.
ArmRunsCode == ~reqstop => ArmRuns /\ ram = "code" /\ mapped

\* The rounds of waitForPOWOK() reach every CFG: startup fails only when a bit was
\* late, the silicon never delivers it, or the RAM is bad.
CfgSweepSuffices ==
  pc = "panic" => slow \/ need[dom] > MaxCfg \/ ~repairs[dom] \/ ram = "damaged"
=============================================================================
