# TLA+ models of rpi-open-firmware

rpi-open-firmware is a free replacement for the boot firmware of the Raspberry
Pi. This directory holds TLA+ modules of the parts of it that decide something
while hardware, another processor or a card does something else, TLC
configurations that check them on small instances, and TLAPS proofs of the
results that matter most for every value of the constants.

    tlc  -config SdHost.cfg MCSdHost.tla      # a model-checking run
    tlapm SdHostProofs.tla                    # a proof module

`PROJECT.json` says for every definition which lines of the source it stands
for, and lists runs, mutants, hazards, findings and theorems.

## 1. The system

Two programs run one after the other on two processors.

**Firmware on the VideoCore (VPU), `firmware/`.** `_main` (`romstage.c:95`) goes
straight through OTP, UART, PLLC, the exception table, C++ constructors,
`sdram_init`, `PEStartPlatform`, then lets interrupts in (`ei`, 137) and ends in
`monitor_start`. `PEStartPlatform` (`BCM2708PlatformStartup.cc`) powers the IMAGE
domain, the USB controller and its PHY and last the ARM; `BCM2708ArmControl.cc`
copies the chainloader, which is linked into the firmware, to the ARM's memory,
verifies it and opens the bridge between the ARM and memory. From then on the VPU
sleeps and serves interrupts: `sleh_irq` (`trap.c`) dispatches the timer and the
mailbox, `arm_monitor_interrupt` (`arm_monitor.c`) answers property messages.

**Chainloader on the ARM, `arm_chainloader/`.** `start.s` enters `c_entry`
(`main.c`), which turns caches and MMU on and calls `main`: `sdhost_init`,
`init_mbr_disk`, and the constructor of `LoaderImpl` (`loader.cc`) that mounts the
card's FAT partition, reads kernel, initrd, command line and device tree to fixed
addresses, completes the tree, turns the hardware and the caches off and jumps
into Linux. Reads go FatFs -> `disk_read` -> `MbrImpl` -> `BlockDevice::read_block`
-> SDHOST controller -> card. Linux may then talk to the VPU by mailbox.

**Around them.** `common/` (device registry, C++ start-up, register headers),
`tlsf/` (the heap), `notc/` (string functions), `lib_armv6`; host tools:
`uart-manager` (sends a chainloader by XMODEM), `utils`, `hs-gpio`; build files,
device trees, JTAG scripts, notes and `docs/`.

### Components, their state and what makes them correct

| Component | State and operations | What is hard | What makes it correct |
|---|---|---|---|
| SD host driver (`sdhost_impl.cc`) | `card_ready`, `is_high_capacity`, the registers SH_*; `start`/`restart_controller`, `init_card`, `read_block`, `stop` | the controller finishes, loses, garbles and delays commands behind the driver's back; data left in the FIFO; errors known only at a block's end | the caller's buffer holds the words asked for; `card_ready` is true only of a usable card; calls return |
| IPC monitor, interrupts (`arm_monitor.c`, `trap.c`, `romstage.c`) | mailboxes, interrupt masks, the word in hand; interrupt handler | the ARM runs before the VPU listens; a full mailbox; level-triggered interrupts; unknown interrupts; sizes in a message that nobody checks | words served in order, once; replies that tell the truth and stay in their buffer |
| ARM mailbox driver (`mailbox.cc`) | poll and write | check of FULL and write are two accesses | true only for a word sent |
| Power domains, USB PHY, ARM control (`BCM2708*.cc`) | PM registers, CFG, device states, bridge; one start-up sequence | status bits come late or never; retries over CFG | the documented order of the bits; the ARM fetches only verified code |
| Chainloader entry, caches, MMU (`main.c`, `mmu.c`, `mmu_asm.s`) | SCTLR, data cache | what the cache holds when it is turned off | Linux sees what was loaded |
| MBR, FatFs glue (`mbr_disk.cc`, `diskio.c`) | the partition table on the heap | a failed read that nobody reports | files come from the card in the slot |
| Second-stage loader (`loader.cc`) | files at fixed addresses, the tree and the room in it | overlaps, a full tree, missing files and nodes | complete images and tree, or a panic with a cause |
| Heap (`tlsf.c`) | block headers, a matrix of free lists, two bitmaps | coalescing with both neighbours, rounding to lists, exhaustion, a pool that survives a restart | blocks disjoint, headers, lists and bitmaps agree, nothing lost, NULL only when nothing fits |
| SDRAM (`sdram.c`) | clock manager, controller, PHY, mode registers | two starts, unlimited polls, commands that time out | clocks changed only while it is down, started on locked PLLs, the size told is the size there is |
| `uart-manager` | receive buffer, block number, one writer thread per block | a detached thread per block, ACK and NAK found in text, an impatient board | every block stored once and in order, EOT after the last, no byte from behind the file |
| Device registry, clocks, OTP, GPIO, console | tables and registers, straight-line | an array without a bound check | nothing that moves while they run |

Components are joined by calls (loader to disk to SD driver), by memory (the VPU
writes the chainloader into the ARM's memory), by mailbox words that are
addresses of shared buffers, and by interrupts.

Every hazard found on the way is in `PROJECT.json` under `hazards`, at its line,
with the property that watches it or the reason why none does.

## 2. The modules

| Module | Models | Used by |
|---|---|---|
| `SdHost` | the SD driver, the SDHOST controller, the card | `MCSdHost`, `SdHostProofs` |
| `MailService` | abstract: a queue of requests, replies in order or lost | `Monitor` (refinement) |
| `Monitor` | `arm_monitor.c`, `sleh_irq`, the end of `_main`, `write_word`, a client on the ARM | `MCMonitor`, `MonitorProofs` |
| `Power` | `PEStartPlatform`: IMAGE, USB, PHY, ARM | `Firmware`, `PowerProofs` |
| `Sdram` | `sdram_init`, clock manager, controller and PHY | `Firmware`, `SdramProofs` |
| `Firmware` | `sdram_init`, then `PEStartPlatform`: `Power` and `Sdram` composed | `MCFirmware`, `FirmwareProofs` |
| `Boot` | the chainloader from `c_entry` to the jump into Linux | `MCBoot`, `BootProofs` |
| `HeapService` | abstract: blocks in use are disjoint and inside the pool | `Tlsf` (refinement) |
| `Tlsf` | `malloc`, `free` and the set-up of the pool | `MCTlsf`, `TlsfProofs` |
| `UartXmodem` | `uart-manager`'s loop and threads, the line, a board | run `uart`, `UartProofs` |

The `MC*` modules give the constants their values.

### SdHost

`pc` names the points between two register accesses whose outcome the hardware
can change. `Reset` is `restart_controller` up to `init_card`; `SendInit`,
`QueryInterface`, `QueryVoltage`, `Identify`, `InitFails` and `Selected` are
`init_card` with the ACMD41 loop of `query_voltage_and_type`, `step` being the
command it is at; `Selected` also sets `card_ready`, the data clock and the
three flush reads. `DrainWait` to `FinishRead` are `read_block`, one action per
access that can go either way: the wait before it, the draining of the FIFO, the
read command, the wait for it, the poll of SH_HSTS for data, the look at its
error bits, the word, and STOP_TRANSMISSION. `FlushFifo`, `Park`, `Unpower`
are `stop`. `BeginRead` and `BeginStop` are the caller.

Controller and card are the environment: `Complete` and `Reject` (a card that does
not accept a command in its state leaves an error), and the faults in `Faults`:
`Lose`, `Garble`, `Delay`/`Report`, a `wait()` that runs out, a bad CRC, a stall.
Faults may come any number of times. A word is its address on the card and
whether it arrived intact; register layout, CID, CSD contents, capacity and the
diagnostic prints are left out. `seen` remembers which kinds of fault happened,
because some promises hold only without some of them: `Trusted` says that no
`wait()` ran out and no STOP was lost on a sending card. The code ignores both
results, and after either of them driver and card disagree about the FIFO.

### Monitor and MailService

`StartArm`, `EnableInterrupts`, `EnableMailIrq` are the end of `_main` and
`monitor_start`; `TakeIrq`, `DispatchTimer`, `AckTimer`, `DispatchStranger`,
`ReadMail`, `HandleTag`, `EndTags`, `Post` are `sleh_irq` and `arm_monitor_interrupt`,
`HandleTag` being one turn of its tag loop;
`PollFull`, `WriteWord` are `write_word`; `BeginWrite`, `CollectReply`, `Tick`,
`RaiseStranger` are the ARM, the timer, and interrupts that the VPU leaves
enabled and does not know. The ARM's buffers lie in one memory of 32-bit words, `mem`, and
`position` wraps at 32 bits (`Wrap`), so that the tag loop's arithmetic on bytes and words,
and what it does for want of a check, are those of the code. The hash is written over
whatever lies behind a value that is too short: its own end tag, or the size and the
response code of the next buffer's message. `spoilt` remembers which messages the VPU
wrote into while it served another; a buffer leaves it when the ARM lays out a new request.
Memory outside the buffers can hold any of the words of `Foreign` whenever it is read; that
the hash can be written there too is not kept. A value size that takes back what header and
padding add leaves the loop at one tag for ever (`Stuck`).
`MailService` promises: a word asked for waits in order; the service answers the
oldest one or ignores it if it is not a property message; a reply is lost only
when there is no room for it.

### Power

A PM register is the set of its control bits, its CFG field and two status bits
that the hardware raises after its own time. Twenty polls are one step that sees
the bit or runs out. Both IMAGE sequences (the second from CFG 3), the rounds
of `waitForPOWOK`, USB off before and on after, the PHY, the ARM control block's
load, verify, address map, clock and bridge, and the ARM domain are actions.
POWOK falls only while POWUP is off.

### Sdram and Firmware

`at` is the step of `sdram_init`; each of its waits is an action enabled by the
hardware's answer, because the code polls without a limit. The helpers it runs
twice are modelled once: `stage` tells the first start on the crystal, the clock
switched off, and the second start on the PHY's PLL apart. `SwitchClock` to
`EndUpdate` are `switch_to_cprman_clock` and `clkman_update_begin`/`_end` with what
stands between them (`Setting`); `ResetDll` to `AddrDllLocked` are `reset_phy` and
`reset_phy_dll`; `Issue` and `Await` are `write_mr`, `read_mr` and the ZQ calibration,
run through the list `Commands`; `CalibrateAddr` to `EndCalibration` are
`calibrate_pvt_early`; `Standby`, `ControllerDown`, `LockPll` are
`reset_with_timing`. A mode register command may time out: the code panics or, for
the calibration, does not look. The hardware (`SdramHardware`) accepts updates,
locks, raises and drops SDUP, finishes commands in its own time; SDUP needs a
running clock. `Firmware` lets `PEStartPlatform` begin when `sdram_init` has returned,
as `_main` does, and relates the two: what the ARM is told about its memory.

### Boot

Memory is counted in pages that hold a part of a file; the device tree's first page
carries the properties set in it. `View` is what a load sees through SCTLR and the
write-back cache, `Evict` may write back any page at any time, and `CleanCache`,
`DcacheOff`, `MmuOff`, `DisableIcache` are the hand-over with the bits the code clears.
`ReadMbr`, `Mount`, `Stat`, `Open`, `Read` load a file (the SD driver as `SdHost` shows it
from outside: true whatever it delivered), `CheckTree` and `SetProperty` are `load_fdt`
with its 4096 bytes of room. `RoomAfter` is what `fdt_setprop` takes of the room:
`_fdt_add_property` first adds the name to the tree's strings unless they have it
(`TakesName`) and then makes room for the value, and the name stays when the value does
not fit. `Cost` is what a value adds: for a property that the tree has already, what it
grows by, and such a name is in the strings (`card.names`). `InitSd` need not return: the
ACMD41 loop is without limit, and nothing is promised here about whether booting ends.
`hurt` remembers that a read went wrong without anybody being told; one misfortune per
boot.

### Tlsf and HeapService

The headers are a function `heap.blk` from addresses (bytes from the pool's first
block) to size, the two flags and `prev_hdr`. A free list is the set of its blocks,
because which of them `malloc` takes depends only on the order of freeing; the
model leaves that choice open. `HeapInit` is `heap_init` with `init_memory_pool` and
`process_area`; it returns at once when the pool's signature is there, so `Restart` (the
program starts again over memory that is kept) is an action. `Malloc` is `malloc_ex`:
`Adjusted` (rounding to 8), `Class` and `SearchClass` (`MAPPING_INSERT`,
`MAPPING_SEARCH`), `Find` (the two bitmaps), `Extract`, the split, `Insert` of the
rest. `Free` is `free_ex` with both merges. `live` is the client: what it asked for at
each pointer; it frees only what it holds, as the loader does. `HeapService` promises
that a block handed out lies in the pool and overlaps no other one in use.

### UartXmodem

`ReadUart` is one round of the main loop for the serial port: a chunk of any length
behind what `ring_buffer` keeps, searched for the prompt (`Begin`), else for NAK
(`Resend`), else for ACK (`Advance`), else kept (`Listen`). `SendBlock` starts a thread,
`WritePiece` is one `write()` of `send_packet`, short ones included; X and EOT are
written by the loop itself and may overtake a thread. `ReadStdin` and `Interrupt` are
keyboard and SIGINT. Keys go out as they are: Ctrl-D is the byte of EOT and ends the
board's transfer wherever it falls between packets, X starts one at the prompt, and any other key
is a byte that a packet may swallow (`typed` remembers the first two). The board is not in the repository: a plain XMODEM receiver
behind a boot prompt that may reset. `Disturb` loses or garbles a byte in
either direction. `hurries` counts how often the board asked again, gave up or
was reset while a block or an answer was still on its way: with such a board the order
holds only until block numbers wrap and not after a reset, two writers may
interleave for ever, and a block may be delivered twice. `lost` keeps what nobody
repeats: prompt, X and EOT are sent once. When EOT is lost, the next NAK makes the tool read
a block from behind the mapped file (`InsideFile` is about everything else). A file may have
no whole block: the first NAK then has block 1 sent all the same (221), from behind the end of
the mapping, and only then comes EOT.

## 3. The runs

| Run | What it asks | Distinct states |
|---|---|---|
| `sdhost` | types; `RightWords`, `NothingPastBadBlock`, `CleanReadIsComplete`, `ReadyCard` | 5.0 million |
| `sdhost_live` | `CallsReturn`, `BringUpSettles` | 168,000 |
| `monitor` | types; `ImplementsService` (refinement), `WrittenIsSent` | 2.4 million |
| `monitor_live` | `SingleTagReply`, `RoomyKeepsOut`, `Answered` | 963,000 |
| `firmware` | types of both parts; `DomainOrder`, `UsbOffUnderImage`, `ArmRunsCode`, `CfgSweepSuffices`, `StartedOnLock`, `ArmKnowsMemory`, `ClockSetQuietly`, `CommandsUndisturbed`, `StartupEnds` | 1.7 million |
| `boot` | types; `ImagesIntact`, `TreeComplete`, `PanicHasCause` | 188,922 |
| `heap` | types; `HeadersAgree`, `ListsAgree`, `NothingLeaks`, `NullMeansNoFit`, `ImplementsHeap` (refinement) | 70,992 |
| `uart` | types; `StoredInOrder`, `EotMeansAll`, `InsideFile`, `TransferEnds` | 3.4 million |
| `sdhost_result`, `monitor_tags`, `boot_mmu`, `boot_initrd` | each violated: section 6 | |

### Bounds, and why they are enough

* **SdHost.** Blocks have two words instead of 128: a first and a last word are all
  that the code and the CRC tell apart. Reads of one or two blocks cover
  single and multiple commands and the border between two blocks. A FIFO of
  two words holds half of the longest request, so it fills, and can keep words of an
  earlier read. Two sectors tell a wrong address from a right one; four cards cover
  SDSC with and without CMD8, SDHC, and a CSD version nobody knows. The
  number of reads and faults is not bounded. The liveness run takes one sector,
  two cards and a FIFO of one word, and leaves garbled and late responses to the
  safety run.
* **Monitor.** Mailboxes of two words and three buffers: more requests than MAIL0
  holds, which loses replies. The live run has two buffers, no more than MAIL0
  holds, as `Answered` needs: one of 8 words and one of 16 right behind it, so that a hash
  without room reaches the second one's first two words. Its messages are a known tag with
  and without room for the hash, an unknown tag, and a size at which the loop stands still;
  spoilt messages and memory outside the buffers (a 0 or a 3, the known tag) add tags that
  nobody wrote. `Wrap` is 4096 instead of 2^32: larger than any position without such
  sizes. Two channels, one of them not the
  property channel. Poll limit 1 or 0 instead of 10000: the loop's two exits are
  there. `MaxTicks` is 1: the timer's match is armed once.
* **Firmware.** Every CFG the boot ROM can leave; silicon that is content at once,
  only in the last round, or never (the theorem `SweepIsLongEnough` covers every need
  between); memory repair that finishes or does not. A chip of each size `lpddr2_size`
  knows, and one it does not.
* **Boot.** Kernel, initrd and tree have two pages of room each and files of one to
  three pages, so files that fit, fill their place, and run into the next one
  occur; 19 cards, among them each missing file, each missing node, an empty initrd, a partition
  of another type, an MBR without its signature, and command lines that fit, crowd out others, or
  do not fit at all, with and without room for the rest next to the name they leave behind.
  The room is 12: a value takes 1, a name that the tree lacks 1 (`bootargs` 2).
* **Tlsf.** Four second-level lists instead of 32 and a `SMALL_BLOCK` of 32 bytes, so
  that a pool of 112 bytes has small, exact and rounded sizes, up to five blocks, and
  every case of splitting and merging. The sizes asked for are 0, an odd one, one that
  leaves no rest, and one that is rounded up. Sequences of calls are not bounded. The
  theorems hold for every geometry, so for the one of `tlsf.c`.
* **UartXmodem.** Four blocks with numbers modulo 3, so numbers wrap; packets of two
  writes, so another thread or a key may come between; chunks of one or two tokens and a ring
  of three, so the prompt arrives in one chunk or in two. Files of 0, 1 and 3 blocks pass
  as well (the theorems are for any number). Two faults or keys, one hurry and one reset in any order: one of each is enough
  to break a property when its mutant is in place.

Every property has a mutant of the code that violates it under the same
configuration (a FIFO not drained, an error check dropped, a handler that empties
the mailbox, USB stopped in name only, a cache turned off without cleaning, ...).

### Fairness, and what justifies it

* `DriverFairness`: WF of the SD driver's steps. The chainloader is one thread
  without interrupts. Nothing is assumed of the hardware in `CallsReturn`.
* `CommandFairness`, only as a hypothesis of `BringUpSettles`: the controller ends
  each command (SH_TOUT bounds it), a card powers up.
* `Monitor`: WF of start-up, handler, `write_word`, and of Linux's own handler that
  empties MAIL0. The VPU has nothing else to run.
* `Firmware`: WF of the one start-up thread, of the SDRAM hardware and of the PHY's
  answer, which the code polls without a limit. Nothing is assumed of POWOK and MRDONE,
  whose polls are counted, and a mode register command may time out.
* `UartXmodem`: WF of the loop (`epoll` wakes it), of the writer threads (the host
  schedules them), of a board that goes on, and of its timeout while nothing is under
  way. `TransferEnds` is a promise to a patient board only.
* `Tlsf` has no liveness property: its calls are single steps.
* `Boot` has no liveness property: its end hangs on the SD driver's bring-up, whose ACMD41
  loop may spin for ever (`BringUpSettles` names the case). `CallsReturn` is about
  `read_block` and `stop` only.

## 4. What is proved

All proofs are checked by TLAPS with the constants' assumptions only
(`SdHostAssumption`, `MonitorAssumption`, `PowerAssumption`, `SdramAssumption`,
`BootAssumption`, `TlsfAssumption`, `XmodemAssumption`).

* **`SdHostProofs!TypeCorrect`**. `TypeInv` is `TypeOK` and the fact that the driver
  takes a word only from a FIFO that has one (`FifoHasWord`): it polled before,
  and nobody else takes words.
* **`SdHostProofs!ReadsAreRight`** (`RightWords`): for blocks, FIFOs and requests of
  any size. `RightWords` speaks of the buffer only and is not inductive. `Base`
  holds whatever goes wrong: the driver's idea of the card's addressing is the card's
  (`Honest`), only a card in its data state has words to send (`OnlyDataFlows`), the
  bring-up has none (`BringUpQuiet`), the buffer's length follows `i` (`Counted`).
  `Stream` holds for a trusted run: between reads only a STOP may be pending
  (`StopPending`), the FIFO is empty when the read command goes out (`Drained`), and
  from then on the FIFO and the card continue exactly where the buffer ends
  (`Streaming`). `Trusted` is not regained once lost (`SeenGrows`), so the invariant is
  `Base /\ (Trusted => Stream)`. On the same base: **`ReadyCardIsReady`** (`ReadyCard`)
  follows the card from `Before` to `After` each bring-up command, unless it missed one
  of the two whose fail flag nobody looks at (`Missed`: CMD7, CMD16);
  **`BadBlockIsLast`** (`NothingPastBadBlock`): what came and what the card has left make
  up the request (`Remaining`), and a bad word is in a block that is not over yet or its
  error is in SH_HSTS already (`Watched`), so the poll before the next block's first word
  sees it; **`CleanReadsComplete`** (`CleanReadIsComplete`), for runs in which nothing
  was spoilt (`Clean`).
* **`MonitorProofs!MonitorImplementsService`**: initial states map to initial states
  and each step to a step of the service or a stutter, for mailboxes of any depth
  and any messages. What waits is the request in hand followed by MAIL1.
* **`MonitorProofs!WriteWordIsHonest`** (`WrittenIsSent`): the room seen by the
  look at FULL is still there at the write, since the VPU only takes words out.
* **`MonitorProofs!MonitorTypes`** (`TypeOK`): whatever tags and sizes it meets, the loop stays
  at a position of 32 bits and leaves words of 32 bits in memory. It does not say that the loop
  ends: it may not. `Layout` joins the words of the tags with `FlattenSeq`, a recursive
  function; the prover has no induction over an operator, so `Induction` is stated over a
  *set* of natural numbers, and `Recursion` shows with it that such functions exist and obey
  their equation.
* **`MonitorProofs!OneOwner`** (`Owned`): a request is with the ARM, in MAIL1, in the VPU's
  hand or in MAIL0, and in one of them only. That does not keep others out of its words, as the
  VPU's hash may run over the end of another message; so `Content` goes with it: a request that
  waits has the words the ARM laid out (`Asks`), one in hand is before or after its one turn of
  the loop (`Turns`), one that is back tells the truth (`Tells`), each unless the buffer is
  `spoilt`, and the last two for requests of one tag with room (`Modest`). From it follow
  **`WordsKept`**, **`SingleTagTruthful`** (`SingleTagReply`) and **`RoomyStaysInside`**
  (`RoomyKeepsOut`), whose core is `OwnPacket`: six words of a packet with room lie inside their
  own message, and addresses do not wrap before. **`NoReplyLost`** (`Accounted`) is the safety
  half of `Answered`: where MAIL0 has room for as many words as there are buffers, a counting
  argument finds room for each reply.
* **`PowerProofs!PowerUpOrder`, `UsbRule`, `TypeCorrect`**: `IInv` says which bits are
  set at which step (`AtStep`), that the domains take turns (`InTurn`) and where
  USB is off (`UsbInTurn`). In `TypeCorrect` the point is CFG staying in two bits.
* **`PowerProofs!FirstFetch`** (`ArmRunsCode`): the bridge opens only over a verified
  image with clock and address map set. **`SweepIsLongEnough`** (`CfgSweepSuffices`): the
  rounds of `waitForPOWOK` reach every CFG above the one they start from, so a domain
  whose need can be met is up, or the poll of another bit ran out.
* **`SdramProofs!SdramTypes`, `StartsOnLock`, `ClockOnlyWhenDown`, `CommandsKeepTheLine`**:
  for every set of chips. The invariant says for each step which locks, latencies and
  commands are settled by then; the unawaited ("posted") command is the delicate one: it
  is still under way when the next one is issued, which waits for it.
* **`FirmwareProofs!FirmwareImplementsParts`**: every behaviour of `_main` is one of
  `sdram_init` and one of `PEStartPlatform`, so what is proved of the parts holds of the
  whole: `FirmwareTypes`, `FirmwareClock`, `FirmwareCommands`, `FirmwareStartsOnLock`,
  `FirmwarePowerOrder`, `FirmwareUsbRule`, `FirmwareSweep`, `FirmwareFirstFetch`.
  **`ArmIsToldTheTruth`** (`ArmKnowsMemory`) relates the two: the size the ARM is told is what
  the chip's MR8 stands for, for every chip.
* **`BootProofs!LinuxFindsItsFiles`** (`ImagesIntact`), **`TypeCorrect`**: for any load
  addresses and cards. `AllInPlace`: each file read so far is in view at its place;
  `CacheDiscipline`: from the cleaning loop on, memory holds what the cache holds;
  `KernelFirst`: files come in their order, so a file that fits never overwrites
  one before it. **`PanicIsJustified`** (`PanicHasCause`) adds that the table is the card's
  (`TableIsRead`). **`LinuxGetsItsTree`** (`TreeComplete`): the names in the tree are those
  before the property `load_fdt` is at that found room (`SetTo`), and the room is what these and
  the names of the others left (`RoomAt`; `TreeSoFar`), which needs the files' lengths to be what
  `read_file` returned (`LengthsRight`). `ServedList` is the arithmetic: all eight find room
  exactly when the sum fits, and all but `bootargs` exactly when the sum with its name does.
* **`TlsfProofs`**: `HeapTypes`, `WalksAreSafe` (`HeadersAgree`), `ListsAreRight`
  (`ListsAgree`), `NothingIsLost` (`NothingLeaks`), `NullIsHonest` (`NullMeansNoFit`) and
  the refinement `HeapImplementsService`, for every pool, geometry and request the
  assumption allows. The invariant `IInv`: once the heap is up, headers have their types
  (`Typed`), tile the pool without a gap (`Tiled`), know their neighbours, no two of them
  free side by side (`Joined`), lists and bitmaps hold exactly the free blocks by class
  (`Listed`), and the blocks in use are the client's (`Accounted`). The arithmetic
  lemmas on `MAPPING_INSERT` and `MAPPING_SEARCH` say that classes are ordered like sizes and
  that every block of the list found is large enough. That tiles do not overlap is an
  induction along the pool, done with a smallest counterexample.
* **`UartProofs!TypeCorrect`, `StoresInOrder`** (`StoredInOrder`), **`EndAfterAll`**
  (`EotMeansAll`), **`ReadsInsideFile`** (`InsideFile`): for files, packets,
  block numbers and ring buffers of any size (at least two numbers; files without a block
  included) and any faults, keys and resets, for what each property excepts of them. As long as
  nobody types X (`Plain`), the tool's mode and the board's go together (`Unprompted`). Two
  invariants carry the rest. `OneAtATime`, for a patient board: the tool's detached
  threads and the board keep in step because either the pieces of one block or one EOT are
  on their way out, or one answer on its way back (`AnswerAlone`); the block is the tool's
  `blockNr`, its pieces come once and in order (`OneBlock`), and `blockNr` is the board's
  `expect` or one behind (`Receiving`). A typed Ctrl-D ends this state of affairs: from then on
  `EndedEarly` holds until a reset, in which the board stores nothing more and the answers still
  on their way, NAKs before ACKs, take the tool no further than `LastBlock`, the last one it may
  send. `InStep`, for a board in a hurry, whose repeated
  questions put several blocks and answers on their way: it counts them. All answers to the
  tool and blocks to the board are one more than the hurries at most; and for each block `x`
  that is still wanted, `blockNr`, the ACKs on their way and the blocks before `x` on
  theirs add up to `x` and the hurries at most (`Bounded`), since each of them may take the
  tool one block further. So `blockNr` is ahead of `expect` by no more than the hurries,
  and as long as these are fewer than `Wrap - 1` the number on a packet tells which block it
  is (`NumbersTell`). The bound is sharp: after `Wrap - 1` hurries the next block but
  `Wrap - 1` may be taken for the one that is wanted. `Where` and `HowMany` count in a sequence; the lemmas about them
  (`Embedded`, `OneMore`, `OneRemoved`, ...) come from the library's facts on injections.

**Only model-checked**: liveness (`CallsReturn`, `BringUpSettles`, `Answered`,
`StartupEnds`, `TransferEnds`), which is out of the prover's reach.

## 5. What is not modelled, and why

FatFs and libfdt are vendored; FatFs is seen from outside, of libfdt only the room that
`fdt_setprop` takes is modelled. The register headers are
generated. libc pieces, console, GPIO, OTP, panics and dumps are I/O or print and
hang (a panic is a state with no further step). The other ARM cores spin. Clocks
and PLLs are straight-line register writes. The Raspberry Pi 4 and `start.elf`
variants and `arm64` are experiments that print. Host tools other than
`uart-manager` are no part of the boot. Most lines of the repository are such
tables and headers (code pages of FatFs, register maps, captured register dumps); the
modules cover the code that decides something.

Of modelled parts, left out: `calloc` (nobody calls it), `realloc` (not compiled in),
`add_new_area`, requests of 2^30 bytes and more, a pool whose size is no multiple of 8;
SDRAM timings, slew rates and the addresses of the self test (at `sdram.c:480` address
0x1FF00000 is tested on boards of 256 MB and of 1 GB and not on those of 512 MB, whose
last megabyte it is); words that the monitor writes outside the ARM's buffers; in
`uart-manager`, a `write()` that fails: it returns -1, `i += ret` (60-61) steps back, and a byte
is sent again, memory in front of the packet is sent, or the thread spins; the use as a terminal
without a file (a NAK behind a prompt then sends from a null `elf_buffer`); and the errors of
`epoll`. A last incomplete block is never sent (227) if there is a whole one before it:
`Blocks` counts whole ones.

What the models take on trust: the controller and card of `SdHost` (how SDHOST
and the SD specification behave, as far as the driver relies on it), POWOK
falling only while POWUP is off, a PHY that answers, CTRL 4 of CM_SDCCTL standing for
the PHY's PLL, the density code of LPDDR2's MR8, a Linux that collects
replies, a data cache whose lines are pages, a board that speaks XMODEM.

## 6. What disagrees

Four runs are expected to end in a violation. Each checks what a comment, a
message or the code's own use says against what the code does.

* `sdhost_result`: a second `hsts_err` inside the copy loop of `read_block`
  (`sdhost_impl.cc:420`) hides the one tested after it, so a read that broke off
  returns true.
* `monitor_tags`: the tag loop (`arm_monitor.c:79-81`) adds bytes to an index of words
  and pads aligned values; tags after the first are skipped, and the reply says success.
* `boot_mmu`: `mmu_asm.s:67` and `76` clear SCTLR bit 1 "mmu"; the MMU is bit 0. Linux
  is entered with the MMU on.
* `boot_initrd`: the address `load_initrd` returns is dropped (`loader.cc:90`); the tree
  says that the initrd begins at 0.

## 7. Plan

In the order of what matters for the boot. Done: `SdHost` (what everything is read
through), `Monitor` with `MailService`, `Power`, `Boot`, `Sdram` and `Firmware`, `Tlsf`
with `HeapService`, `UartXmodem`, and the proofs of section 4. Still to come:

1. `BlockDevice`, abstract: a read delivers a prefix of what was asked for and says
   true. `SdHost` refines it; `Boot` reads through it. Run: `SdHost` with it as a PROPERTY.
2. `clk_get_freq` and `compute_pll_freq` as operators, against the divider formula they
   stand for.
