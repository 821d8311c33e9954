---------------------------- MODULE PowerProofs ----------------------------
(***************************************************************************)
(* The power-up order, the USB rule, the ARM's first fetch and the sweep   *)
(* over CFG of Power, whatever the silicon needs and however late its      *)
(* status bits come.                                                       *)
(***************************************************************************)
EXTENDS Power, TLAPS

Sequence == {"powup", "powok", "again", "ispow", "memrep", "mrdone"}

\* Which bits the driver has set when it is at a step, for the domain it is at.
AtStep ==
  /\ pc \in {"usbStop", "imageBegin", "powup", "powok", "again"} =>
       pm[dom] \cap {"ISPOW", "MEMREP", "ISFUNC", "RSTN"} = {}
  /\ pc \in {"powok", "ispow", "memrep", "mrdone"} => "POWUP" \in pm[dom]
  /\ pc \in {"ispow", "memrep", "mrdone"} => powok[dom]
  /\ pc \in {"memrep", "mrdone"} => "ISPOW" \in pm[dom]
  /\ pc = "mrdone" => "MEMREP" \in pm[dom]
  /\ pc \in {"peri", "periReset", "armStarted"} => "ISFUNC" \in pm[dom]

\* The ARM domain is untouched until its turn comes, and IMAGE before its own.
InTurn ==
  /\ dom = "IMAGE" => pm["ARM"] = {}
  /\ pc \in {"usbStop", "imageBegin"} => dom = "IMAGE" /\ pm["IMAGE"] = {}
  /\ pc \in {"peri", "periReset", "usbStart", "phyClock", "phy", "load", "verify", "map",
             "clock", "armBegin"} => dom = "IMAGE"

\* USB stays off up to the step that starts it, which IMAGE's start comes before.
UsbInTurn ==
  /\ pc = "imageBegin" => ~usb
  /\ pc \in Sequence \cup {"peri", "periReset"} /\ dom = "IMAGE" => ~usb
  /\ \/ pc \in {"usbStart", "phyClock", "phy", "load", "verify", "map", "clock", "armBegin"}
     \/ dom = "ARM"
     => dev["IMAGE"] = "started"

\* The ARM control block goes through its steps in order, and the bridge is last.
ArmInOrder ==
  /\ pc = "verify" => ram \in {"copied", "damaged"}
  /\ pc \in {"map", "clock", "armBegin"} \/ dom = "ARM" => ram = "code"
  /\ pc \in {"clock", "armBegin"} \/ dom = "ARM" => mapped
  /\ pc = "armBegin" \/ dom = "ARM" => pllb
  /\ pc \in {"armStarted", "bridge", "done"} => dom = "ARM" /\ {"POWUP", "ISFUNC"} \subseteq pm["ARM"]
  /\ pc \in {"bridge", "done"} => "RSTN" \in pm["ARM"]
  /\ ~reqstop => pc = "done"

\* Whoever has not seen POWOK before a round has raised CFG to that round's number.
Sweep == pc = "powok" => powok[dom] \/ i <= cfg[dom] + 1

JInv == ArmInOrder /\ Sweep /\ CfgSweepSuffices

IInv == TypeOK /\ AtStep /\ InTurn /\ UsbInTurn /\ DomainOrder /\ UsbOffUnderImage

-----------------------------------------------------------------------------

USE PowerAssumption DEF IInv, TypeOK, MaxCfg, AtStep, InTurn, UsbInTurn, DomainOrder, UsbOffUnderImage, Sequence,
        Domains, Drivers, PCs, Bits

\* The domains as the boot ROM leaves them.
LEMMA InitIInv == Init => IInv
  <1> SUFFICES ASSUME Init PROVE IInv
    OBVIOUS
  <1>1. TypeOK
    <2>1. /\ pc \in PCs /\ dom \in Domains /\ seq \in 1 .. 2 /\ i \in 1 .. 4
          /\ ram \in {"junk", "copied", "damaged", "code"}
          /\ pm \in [Domains -> SUBSET Bits]
      BY DEF Init
    <2>2. /\ dev \in [Drivers -> {"uninitialized", "stopped", "started"}]
          /\ powok \in [Domains -> BOOLEAN] /\ mrdone \in [Domains -> BOOLEAN]
      BY DEF Init
    <2>3. /\ gate \in BOOLEAN /\ usb \in BOOLEAN /\ mapped \in BOOLEAN /\ pllb \in BOOLEAN
          /\ reqstop \in BOOLEAN /\ phy \in BOOLEAN /\ slow \in BOOLEAN
      BY DEF Init
    <2>4. /\ need \in [Domains -> Needs] /\ repairs \in [Domains -> Memories]
          /\ cfg \in [Domains -> 0 .. MaxCfg]
      BY DEF Init
    <2> QED BY <2>1, <2>2, <2>3, <2>4
  <1>2. AtStep /\ InTurn /\ UsbInTurn
    BY DEF Init
  <1>3. DomainOrder /\ UsbOffUnderImage
    BY DEF Init
  <1> QED BY <1>1, <1>2, <1>3

\* The power-up sequence.
LEMMA PowerOnStep == IInv /\ PowerOn => IInv'
  <1> SUFFICES ASSUME IInv, PowerOn PROVE IInv'
    OBVIOUS
  <1>1. CASE BeginImage
    BY <1>1 DEF BeginImage, WithLowBit, armVars, hwVars
  <1>2. CASE BeginArm
    BY <1>2 DEF BeginArm, armVars, hwVars
  <1>3. CASE BeginPowerUpSequence
    BY <1>3 DEF BeginPowerUpSequence, SetBits, armVars, hwVars
  <1>4. CASE SeePowOk
    BY <1>4 DEF SeePowOk, AfterPowOk, LastRound, armVars, hwVars
  <1>5. CASE MissPowOk
    BY <1>5 DEF MissPowOk, LastRound, armVars, hwVars
  <1>6. CASE RestartSequence
    BY <1>6 DEF RestartSequence, ClearBits, armVars, hwVars
  <1>7. CASE SetIsPow
    BY <1>7 DEF SetIsPow, SetBits, Goto, armVars, hwVars
  <1>8. CASE SetMemRep
    BY <1>8 DEF SetMemRep, SetBits, Goto, armVars, hwVars
  <1>9. CASE SetIsFunc
    BY <1>9 DEF SetIsFunc, SetBits, Goto, Enter, MrDoneSeen, armVars, hwVars
  <1>10. CASE MissMrDone
    BY <1>10 DEF MissMrDone, Goto, armVars, hwVars
  <1> QED BY <1>1, <1>2, <1>3, <1>4, <1>5, <1>6, <1>7, <1>8, <1>9, <1>10 DEF PowerOn

\* The rest of PEStartPlatform.
LEMMA PlatformActs == IInv /\ Platform => IInv'
  <1> SUFFICES ASSUME IInv, Platform PROVE IInv'
    OBVIOUS
  <1>1. CASE StopUsb
    <2> USE <1>1 DEF StopUsb, Goto, Enter, armVars, hwVars
    <2>1. TypeOK'
      OBVIOUS
    <2>5. AtStep' /\ InTurn'
      OBVIOUS
    <2>2. DomainOrder'
      OBVIOUS
    <2>3. usb' = FALSE /\ pc' = "imageBegin" /\ dom' = "IMAGE"
      OBVIOUS
    <2>4. UsbInTurn' /\ UsbOffUnderImage'
      BY <2>3
    <2> QED BY <2>1, <2>2, <2>4, <2>5
  <1>2. CASE UngatePeripherals
    <2> USE <1>2 DEF UngatePeripherals, Goto, armVars, hwVars
    <2>1. TypeOK'
      OBVIOUS
    <2>2. AtStep' /\ InTurn' /\ UsbInTurn'
      OBVIOUS
    <2>3. DomainOrder' /\ UsbOffUnderImage'
      OBVIOUS
    <2> QED BY <2>1, <2>2, <2>3
  <1>3. CASE ReleasePeripherals
    BY <1>3 DEF ReleasePeripherals, SetBits, Goto, Enter, armVars, hwVars
  <1>4. CASE StartUsb
    BY <1>4 DEF StartUsb, Goto, Enter, armVars, hwVars
  <1>5. CASE StartPhyClock
    BY <1>5 DEF StartPhyClock, Goto, armVars, hwVars
  <1>6. CASE FinishPhy
    BY <1>6 DEF FinishPhy, Goto, Enter, armVars, hwVars
  <1> QED BY <1>1, <1>2, <1>3, <1>4, <1>5, <1>6 DEF Platform

\* The ARM control block.
LEMMA StartArmStep == IInv /\ StartArm => IInv'
  <1> SUFFICES ASSUME IInv, StartArm PROVE IInv'
    OBVIOUS
  <1>1. CASE CopyCode
    BY <1>1 DEF CopyCode, Goto, armVars, hwVars
  <1>2. CASE VerifyCode
    BY <1>2 DEF VerifyCode, Goto, armVars, hwVars
  <1>3. CASE MapMemory
    BY <1>3 DEF MapMemory, Goto, armVars, hwVars
  <1>4. CASE SetupClock
    BY <1>4 DEF SetupClock, Goto, armVars, hwVars
  <1>5. CASE ReleaseArm
    BY <1>5 DEF ReleaseArm, SetBits, Goto, armVars, hwVars
  <1>6. CASE OpenBridge
    <2> USE <1>6 DEF OpenBridge, Goto, Enter, armVars, hwVars
    <2>1. TypeOK'
      <3>1. dev' \in [Drivers -> {"uninitialized", "stopped", "started"}]
        OBVIOUS
      <3>2. /\ pc' \in PCs /\ dom' \in Domains /\ seq' \in 1 .. 2 /\ i' \in 1 .. 4
            /\ reqstop' \in BOOLEAN
        OBVIOUS
      <3> QED BY <3>1, <3>2
    <2>2. AtStep' /\ InTurn' /\ UsbInTurn'
      OBVIOUS
    <2>3. DomainOrder' /\ UsbOffUnderImage'
      BY SMTT(30)
    <2> QED BY <2>1, <2>2, <2>3
  <1> QED BY <1>1, <1>2, <1>3, <1>4, <1>5, <1>6 DEF StartArm

\* A status bit goes up or down: POWOK never under a domain out of isolation.
LEMMA HardwareStep == IInv /\ Hardware => IInv'
  <1> SUFFICES ASSUME IInv, Hardware PROVE IInv'
    OBVIOUS
  <1>1. CASE PhyAnswers
    BY <1>1 DEF PhyAnswers, progVars, armVars
  <1>2. ASSUME NEW d \in Domains, RaisePowOk(d) PROVE IInv'
    BY <1>2 DEF RaisePowOk, progVars, armVars
  <1>3. ASSUME NEW d \in Domains, DropPowOk(d) PROVE IInv'
    BY <1>3 DEF DropPowOk, progVars, armVars
  <1>4. ASSUME NEW d \in Domains, RaiseMrDone(d) PROVE IInv'
    BY <1>4 DEF RaiseMrDone, progVars, armVars
  <1> QED BY <1>1, <1>2, <1>3, <1>4 DEF Hardware

\* The four kinds of step together.
LEMMA IInvStep == IInv /\ [Next]_vars => IInv'
  <1>1. CASE UNCHANGED vars
    BY <1>1 DEF vars, progVars, armVars, hwVars
  <1> QED BY <1>1, PowerOnStep, PlatformActs, StartArmStep, HardwareStep DEF Next

HIDE DEF IInv, TypeOK, DomainOrder, UsbOffUnderImage

\* The invariant holds throughout.
LEMMA Invariant == Spec => []IInv
  BY InitIInv, IInvStep, PTL DEF Spec

-----------------------------------------------------------------------------

USE DEF JInv, ArmInOrder, Sweep, CfgSweepSuffices

\* Nothing is loaded, nobody has waited.
LEMMA InitJInv == Init => JInv
  BY DEF Init

\* The power-up sequence: each round raises CFG or has seen POWOK.
LEMMA PowerOnSweep == IInv /\ JInv /\ PowerOn => JInv'
  <1> SUFFICES ASSUME IInv, JInv, PowerOn PROVE JInv'
    OBVIOUS
  <1> USE DEF IInv, TypeOK, AtStep, InTurn
  <1>1. CASE BeginImage
    BY <1>1 DEF BeginImage, WithLowBit, armVars, hwVars
  <1>2. CASE BeginArm
    BY <1>2 DEF BeginArm, armVars, hwVars
  <1>3. CASE BeginPowerUpSequence
    BY <1>3 DEF BeginPowerUpSequence, SetBits, armVars, hwVars
  <1>4. CASE SeePowOk
    BY <1>4 DEF SeePowOk, AfterPowOk, LastRound, armVars, hwVars
  <1>5. CASE MissPowOk
    <2> USE <1>5 DEF MissPowOk, LastRound, armVars, hwVars
    <2>1. ArmInOrder'
      OBVIOUS
    <2>2. i <= cfg[dom] + 1 /\ cfg[dom] \in 0 .. 3 /\ need[dom] \in Nat /\ "POWUP" \in pm[dom]
      OBVIOUS
    <2>3. CASE i = LastRound
      <3>1. need[dom] <= 3 => PowOkDue
        BY <2>2, <2>3 DEF PowOkDue
      <3>2. slow' = (slow \/ PowOkDue) /\ pc' = "panic" /\ need' = need /\ dom' = dom
        BY <2>3
      <3> QED BY <2>1, <2>2, <3>1, <3>2
    <2>4. CASE i # LastRound
      BY <2>1, <2>4
    <2> QED BY <2>3, <2>4
  <1>6. CASE RestartSequence
    BY <1>6 DEF RestartSequence, ClearBits, armVars, hwVars
  <1>7. CASE SetIsPow
    BY <1>7 DEF SetIsPow, SetBits, Goto, armVars, hwVars
  <1>8. CASE SetMemRep
    BY <1>8 DEF SetMemRep, SetBits, Goto, armVars, hwVars
  <1>9. CASE SetIsFunc
    BY <1>9 DEF SetIsFunc, SetBits, Goto, Enter, MrDoneSeen, armVars, hwVars
  <1>10. CASE MissMrDone
    BY <1>10 DEF MissMrDone, Goto, armVars, hwVars
  <1> QED BY <1>1, <1>2, <1>3, <1>4, <1>5, <1>6, <1>7, <1>8, <1>9, <1>10 DEF PowerOn

\* The rest of PEStartPlatform and the ARM control block.
LEMMA PlatformSweep == IInv /\ JInv /\ (Platform \/ StartArm) => JInv'
  <1> SUFFICES ASSUME IInv, JInv, Platform \/ StartArm PROVE JInv'
    OBVIOUS
  <1> USE DEF IInv, TypeOK, AtStep, InTurn, Goto, Enter, SetBits, armVars, hwVars
  <1>1. CASE StopUsb \/ UngatePeripherals \/ ReleasePeripherals
    BY <1>1 DEF StopUsb, UngatePeripherals, ReleasePeripherals
  <1>2. CASE StartUsb \/ StartPhyClock \/ FinishPhy
    BY <1>2 DEF StartUsb, StartPhyClock, FinishPhy
  <1>3. CASE CopyCode
    BY <1>3 DEF CopyCode
  <1>4. CASE VerifyCode
    BY <1>4 DEF VerifyCode
  <1>5. CASE MapMemory \/ SetupClock
    BY <1>5 DEF MapMemory, SetupClock
  <1>6. CASE ReleaseArm
    BY <1>6 DEF ReleaseArm
  <1>7. CASE OpenBridge
    BY <1>7 DEF OpenBridge
  <1> QED BY <1>1, <1>2, <1>3, <1>4, <1>5, <1>6, <1>7 DEF Platform, StartArm

\* Status bits: POWOK does not go while POWUP is set.
LEMMA HardwareSweep == IInv /\ JInv /\ Hardware => JInv'
  <1> SUFFICES ASSUME IInv, JInv, Hardware PROVE JInv'
    OBVIOUS
  <1> USE DEF IInv, TypeOK, AtStep, progVars, armVars
  <1>1. CASE PhyAnswers
    BY <1>1 DEF PhyAnswers
  <1>2. ASSUME NEW d \in Domains, RaisePowOk(d) PROVE JInv'
    BY <1>2 DEF RaisePowOk
  <1>3. ASSUME NEW d \in Domains, DropPowOk(d) PROVE JInv'
    BY <1>3 DEF DropPowOk
  <1>4. ASSUME NEW d \in Domains, RaiseMrDone(d) PROVE JInv'
    BY <1>4 DEF RaiseMrDone
  <1> QED BY <1>1, <1>2, <1>3, <1>4 DEF Hardware

\* The three kinds of step together.
LEMMA JInvStep == IInv /\ JInv /\ [Next]_vars => JInv'
  <1>1. CASE UNCHANGED vars
    BY <1>1 DEF vars, progVars, armVars, hwVars
  <1> QED BY <1>1, PowerOnSweep, PlatformSweep, HardwareSweep DEF Next

HIDE DEF JInv, CfgSweepSuffices

\* The second invariant holds throughout, next to the first.
LEMMA SecondInvariant == Spec => []JInv
  BY InitJInv, JInvStep, Invariant, PTL DEF Spec

\* The ARM's first fetch finds verified code behind a map, a clock and a powered
\* domain, for every requirement of the silicon and every delay.
THEOREM FirstFetch == Spec => []ArmRunsCode
  <1>1. IInv /\ JInv => ArmRunsCode
    BY DEF IInv, JInv, ArmInOrder, TypeOK, ArmRunsCode, ArmRuns
  <1> QED BY <1>1, Invariant, SecondInvariant, PTL

\* The sweep of waitForPOWOK reaches every CFG that can help: a panic has a cause.
THEOREM SweepIsLongEnough == Spec => []CfgSweepSuffices
  <1>1. JInv => CfgSweepSuffices
    BY DEF JInv
  <1> QED BY <1>1, SecondInvariant, PTL

\* Types: CFG stays within its two bits, the rounds within four.
THEOREM TypeCorrect == Spec => []TypeOK
  <1>1. IInv => TypeOK
    BY DEF IInv
  <1> QED BY <1>1, Invariant, PTL

\* Isolation, memory repair, logic and reset of a domain follow the documented
\* order for every requirement of the silicon and every delay.
THEOREM PowerUpOrder == Spec => []DomainOrder
  <1>1. IInv => DomainOrder
    BY DEF IInv
  <1> QED BY <1>1, Invariant, PTL

\* USB is off for as long as IMAGE is being brought up.
THEOREM UsbRule == Spec => []UsbOffUnderImage
  <1>1. IInv => UsbOffUnderImage
    BY DEF IInv
  <1> QED BY <1>1, Invariant, PTL
=============================================================================
