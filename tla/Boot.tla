--------------------------------- MODULE Boot ---------------------------------
(***************************************************************************)
(* The chainloader on the ARM's first core, from c_entry() (main.c) to the *)
(* jump into Linux (loader.cc): caches and MMU (mmu.c, mmu_asm.s), the     *)
(* partition table (mbr_disk.cc), the files it copies to fixed addresses,  *)
(* the device tree it completes, and the hand-over.                        *)
(*                                                                         *)
(* Memory from the kernel's address up is counted in pages.  The data      *)
(* cache holds written pages until they are evicted or cleaned; what a     *)
(* load sees depends on SCTLR.  The SD driver is the one of module SdHost, *)
(* seen from outside: read_block() says true whatever it delivered.        *)
(***************************************************************************)
EXTENDS Integers, Sequences, FiniteSets

CONSTANTS
  KernelAt, InitrdAt, DtbAt, Top,  (* the load addresses and the end of memory  *)
  Cards,     (* the cards: partition type, files, pages of each, nodes and      *)
             (* names in the tree, and what the command line takes in it        *)
  Room,      (* what fdt_open_into() adds to the tree: 4096 bytes               *)
  NameCost,  (* what the name of each property takes in the tree's strings      *)
  Cost,      (* what the value of each property but bootargs takes              *)
  Faulty     (* whether reads may go wrong                                      *)

Files == {"zImage", "initrd", "cmdline.txt", "dtb"}  \* "dtb": detect_model_dtb()'s
Images == Files \ {"cmdline.txt"}

Nodes == {"/", "ethernet0", "/system", "/chosen", "/memory", "/soc"}

\* load_fdt()'s properties in the order it sets them.
Properties == <<[node |-> "/",         name |-> "serial-number"],
                [node |-> "ethernet0", name |-> "local-mac-address"],
                [node |-> "/system",   name |-> "linux,revision"],
                [node |-> "/chosen",   name |-> "bootargs"],
                [node |-> "/chosen",   name |-> "linux,initrd-start"],
                [node |-> "/chosen",   name |-> "linux,initrd-end"],
                [node |-> "/memory",   name |-> "reg"],
                [node |-> "/soc",      name |-> "ranges"]>>

Names == {Properties[k].name : k \in DOMAIN Properties}

InitrdNames == {"linux,initrd-start", "linux,initrd-end"}

\* The initrd may be empty: an empty kernel or tree is not worth a card.
CardSpace == [part  : {"fat", "other", "unsigned"},
              files : SUBSET Files,
              size  : {s \in [Images -> Nat] : s["zImage"] # 0 /\ s["dtb"] # 0},
              args  : Nat \ {0},
              nodes : SUBSET Nodes,
              names : SUBSET Names]

ASSUME BootAssumption ==
  /\ {KernelAt, InitrdAt, DtbAt, Top} \subseteq Nat
  /\ KernelAt < InitrdAt /\ InitrdAt < DtbAt /\ DtbAt < Top
  /\ Cards \subseteq CardSpace /\ Cards # {}
  /\ Room \in Nat
  /\ NameCost \in [Names -> Nat] /\ Cost \in [Names \ {"bootargs"} -> Nat]
  /\ Faulty \in BOOLEAN

Pages == KernelAt .. Top - 1

LoadedAt(f) == CASE f = "zImage" -> KernelAt
                 [] f = "initrd" -> InitrdAt
                 [] OTHER        -> DtbAt

\* What a page holds: a part of a file; for the device tree what was set in it.
Image(f, n, t) == [file |-> f, part |-> n, tree |-> t]
Junk   == Image("junk", 0, {})
NoLine == Image("no line", 0, {})

\* Bits of SCTLR.
M == 0
A == 1
C == 2
I == 12

-----------------------------------------------------------------------------

VARIABLES
  pc,      (* what the loader does next                                       *)
  file,    (* the file read_file() is at                                      *)
  opened,  (* f_open() succeeded                                              *)
  len,     (* what read_file() returned for each file; 0 before               *)
  prop,    (* the property load_fdt() is at                                   *)
  room,    (* room left in the tree                                           *)
  mbr,     (* the Mbr on the heap                                             *)
  fatInit, (* g_FatFsDiskInitialized                                          *)
  sctlr,   (* the bits of SCTLR above                                         *)
  ram,     (* what memory holds                                               *)
  cache,   (* what the data cache holds of it                                 *)
  sd,      (* the SD controller                                               *)
  cpu,     (* the core                                                        *)
  card,    (* what is on the card: partition type, files, nodes of the tree   *)
  hurt     (* history: a read went wrong, and nobody was told                 *)

readVars == <<file, opened, len>>
treeVars == <<prop, room>>
diskVars == <<mbr, fatInit>>
memVars  == <<ram, cache>>
world    == <<cpu, card>>
vars     == <<pc, readVars, treeVars, diskVars, sctlr, memVars, sd, world, hurt>>

PCs == {"setup", "mmuOn", "sdInit", "readMbr", "mount", "stat", "open", "read", "check",
        "prop", "teardown", "clean", "dcacheOff", "mmuOff", "icacheOff", "linux", "panic"}

\* Pages, whatever they hold.
Contents == [file : Images \cup {"junk", "no line"}, part : Nat,
             tree : SUBSET [name : Names, value : Nat]]

TypeOK ==
  /\ pc \in PCs /\ file \in Files /\ opened \in BOOLEAN
  /\ len \in [Files -> Nat]
  /\ prop \in DOMAIN Properties /\ room \in 0 .. Room
  /\ mbr \in {"none", "card", "stale"} /\ fatInit \in BOOLEAN
  /\ sctlr \subseteq {M, A, C, I}
  /\ ram \in [Pages -> Contents] /\ cache \in [Pages -> Contents]
  /\ sd \in {"off", "ready", "stopped"}
  /\ cpu \in {"armv6", "armv7"} /\ card \in Cards /\ hurt \in BOOLEAN

\* Out of reset: caches and MMU off.
Init ==
  /\ pc = "setup" /\ file = "zImage" /\ opened = FALSE /\ len = [f \in Files |-> 0]
  /\ prop = 1 /\ room = 0 /\ mbr = "none" /\ fatInit = FALSE
  /\ sctlr = {} /\ ram = [p \in Pages |-> Junk] /\ cache = [p \in Pages |-> NoLine]
  /\ sd = "off" /\ cpu \in {"armv6", "armv7"} /\ hurt = FALSE
  /\ card \in Cards

-----------------------------------------------------------------------------
(* Memory through the data cache.                                            *)

CacheOn == {M, C} \subseteq sctlr

View(p) == IF CacheOn /\ cache[p] # NoLine THEN cache[p] ELSE ram[p]

\* f[p] is stored to every page p of DOMAIN f.
Store(f) ==
  LET Over(m) == [p \in Pages |-> IF p \in DOMAIN f THEN f[p] ELSE m[p]]
  IN  IF CacheOn THEN cache' = Over(cache) /\ UNCHANGED ram
                 ELSE ram' = Over(ram) /\ UNCHANGED cache

\* A line leaves the cache whenever it likes, also one that is turned off.
Evict(p) ==
  /\ cache[p] # NoLine
  /\ ram' = [ram EXCEPT ![p] = cache[p]] /\ cache' = [cache EXCEPT ![p] = NoLine]
  /\ UNCHANGED <<pc, readVars, treeVars, diskVars, sctlr, sd, world, hurt>>

-----------------------------------------------------------------------------
(* c_entry() and main().                                                     *)

\* Bound: one misfortune a boot.
MayFail == Faulty /\ ~hurt

\* arm_lowlevel_setup(): enable_icache().
Setup ==
  /\ pc = "setup" /\ pc' = "mmuOn"
  /\ sctlr' = sctlr \cup {I}
  /\ UNCHANGED <<readVars, treeVars, diskVars, memVars, sd, world, hurt>>

\* The heap, then init_page_tables(): MMU and data cache on at once.
TurnMmuOn ==
  /\ pc = "mmuOn" /\ pc' = "sdInit"
  /\ sctlr' = sctlr \cup {M, C}
  /\ UNCHANGED <<readVars, treeVars, diskVars, memVars, sd, world, hurt>>

\* sdhost_init(), if it returns: it asks a card that is busy for ever for ever
\* (module SdHost), and Spec lets this step wait as long.
InitSd ==
  /\ pc = "sdInit"
  /\ \/ pc' = "readMbr" /\ sd' = "ready" /\ UNCHANGED hurt
     \/ MayFail /\ pc' = "panic" /\ hurt' = TRUE /\ UNCHANGED sd
  /\ UNCHANGED <<readVars, treeVars, diskVars, sctlr, memVars, world>>

\* read_mbr(): a read that went wrong leaves the new Mbr what the heap held, and
\* only the signature tells; on a warm start it may be that of the last card.
ReadMbr ==
  /\ pc = "readMbr"
  /\ \/ /\ mbr' = "card" /\ UNCHANGED hurt
        /\ pc' = IF card.part = "unsigned" THEN "panic" ELSE "mount"
     \/ MayFail /\ mbr' = "stale" /\ pc' = "mount" /\ hurt' = TRUE
     \/ MayFail /\ mbr' = "none" /\ pc' = "panic" /\ hurt' = TRUE
  /\ UNCHANGED <<readVars, treeVars, fatInit, sctlr, memVars, sd, world>>

\* disk_initialize() finds one of the FAT types in the table.
FatPartition == (mbr = "card" /\ card.part = "fat") \/ mbr = "stale"

\* find_and_mount(): f_mount() asks disk_initialize() and reads the volume's first
\* sectors.
Mount ==
  /\ pc = "mount"
  /\ fatInit' = (fatInit \/ FatPartition)
  /\ \/ fatInit' /\ card.part = "fat" /\ pc' = "stat" /\ UNCHANGED hurt
     \/ ~(fatInit' /\ card.part = "fat") /\ pc' = "panic" /\ UNCHANGED hurt
     \/ MayFail /\ pc' = "panic" /\ hurt' = TRUE
  /\ UNCHANGED <<readVars, treeVars, mbr, sctlr, memVars, sd, world>>

-----------------------------------------------------------------------------
(* read_file().                                                              *)

Stat ==
  /\ pc = "stat"
  /\ \/ file \in card.files /\ pc' = "open" /\ UNCHANGED hurt
     \/ file \notin card.files /\ pc' = "panic" /\ UNCHANGED hurt
     \/ MayFail /\ pc' = "panic" /\ hurt' = TRUE
  /\ UNCHANGED <<readVars, treeVars, diskVars, sctlr, memVars, sd, world>>

\* The result of f_open() is not looked at; after a failure f_size() is whatever
\* the stack holds, and f_read() refuses.
Open ==
  /\ pc = "open" /\ pc' = "read"
  /\ \/ opened' = TRUE /\ UNCHANGED hurt
     \/ MayFail /\ opened' = FALSE /\ hurt' = TRUE
  /\ UNCHANGED <<file, len, treeVars, diskVars, sctlr, memVars, sd, world>>

\* Mutant of AfterFile: the tree is looked at before it is read.
AfterFileTooSoon == IF file = "cmdline.txt" THEN "check" ELSE "stat"

\* The file after this one, and where the loader goes once it has read it.
NextFile == CASE file = "zImage"      -> "initrd"
              [] file = "initrd"      -> "cmdline.txt"
              [] OTHER                -> "dtb"

AfterFile == IF file = "dtb" THEN "check" ELSE "stat"

Length(f) == IF f = "cmdline.txt" THEN card.args ELSE card.size[f]

\* The pages of memory that n pages of the file go to.
Target(n) == {p \in Pages : p >= LoadedAt(file) /\ p < LoadedAt(file) + n}

\* f_read() copies what there is, right or wrong, and says how much; the command
\* line goes to the heap.
Read ==
  /\ pc = "read"
  /\ \E n \in 0 .. Length(file), bad \in SUBSET Target(Length(file)) :
       LET right == opened /\ sd = "ready" /\ n = Length(file) /\ bad = {}
       IN  /\ right \/ MayFail \/ ~opened \/ sd # "ready"
           /\ ~opened => n = 0
           /\ file = "cmdline.txt" \/ bad \subseteq Target(n)
           /\ len' = [len EXCEPT ![file] = n]
           /\ hurt' = (hurt \/ ~right)
           /\ IF file = "cmdline.txt" THEN UNCHANGED memVars
              ELSE Store([p \in Target(n) |->
                            IF p \in bad THEN Junk ELSE Image(file, p - LoadedAt(file), {})])
  /\ file' = NextFile /\ pc' = AfterFile
  /\ UNCHANGED <<opened, treeVars, diskVars, sctlr, sd, world>>

-----------------------------------------------------------------------------
(* load_fdt().                                                               *)

\* fdt_check_header(), and fdt_open_into(), whose result is not looked at.
CheckTree ==
  /\ pc = "check"
  /\ IF View(DtbAt).file = "dtb"
       THEN pc' = "prop" /\ room' \in (IF len["dtb"] = card.size["dtb"] THEN {Room} ELSE {0, Room})
       ELSE pc' = "panic" /\ UNCHANGED room
  /\ UNCHANGED <<readVars, prop, diskVars, sctlr, memVars, sd, world, hurt>>

Takes(name) == IF name = "bootargs" THEN len["cmdline.txt"] ELSE Cost[name]

\* The loader's initrd is never assigned: load_initrd()'s result is dropped.
initrd == 0

Value(name) == CASE name = "linux,initrd-start" -> initrd
                 [] name = "linux,initrd-end"   -> initrd + len["initrd"]
                 [] OTHER                       -> 0

\* Without an initrd its two properties are left out.
Skipped(name) == name \in InitrdNames /\ len["initrd"] = 0

\* A name that the tree's strings have is not added again.
TakesName(name) == IF name \in card.names THEN 0 ELSE NameCost[name]

\* Mutant of HasRoom: the name, which is in the tree by now, is not counted.
HasRoomForValue(name) == Takes(name) <= room

\* _fdt_find_add_string() finds room for the name, and _fdt_splice_struct() behind
\* it for the value.
HasRoomForName(name) == TakesName(name) <= room
HasRoom(name)        == TakesName(name) + Takes(name) <= room

\* Mutant of RoomAfter: a name whose value does not fit is taken out again.
RoomAfterUndo(name) == IF HasRoom(name) THEN room - TakesName(name) - Takes(name) ELSE room

\* A name stays when its value does not fit.
RoomAfter(name) ==
  CASE HasRoom(name)         -> room - TakesName(name) - Takes(name)
    [] ~HasRoomForName(name) -> room
    [] OTHER                 -> room - TakesName(name)

\* fdt_setprop()'s result is not looked at.
SetProperty ==
  /\ pc = "prop"
  /\ LET q == Properties[prop]
     IN  IF q.node \notin card.nodes
           THEN pc' = "panic" /\ UNCHANGED <<treeVars, memVars>>
           ELSE /\ room' = IF Skipped(q.name) THEN room ELSE RoomAfter(q.name)
                /\ IF Skipped(q.name) \/ ~HasRoom(q.name)
                     THEN UNCHANGED memVars
                     ELSE Store([p \in {DtbAt} |-> [View(p) EXCEPT !.tree =
                                   @ \cup {[name |-> q.name, value |-> Value(q.name)]}]])
                /\ IF prop = Len(Properties) THEN pc' = "teardown" /\ UNCHANGED prop
                                             ELSE prop' = prop + 1 /\ UNCHANGED pc
  /\ UNCHANGED <<readVars, diskVars, sctlr, sd, world, hurt>>

-----------------------------------------------------------------------------
(* The hand-over.                                                            *)

\* Nothing can be read from the card after this.
TeardownHardware ==
  /\ pc = "teardown"
  /\ pc' = IF cpu = "armv6" THEN "mmuOff" ELSE "clean"
  /\ sd' = "stopped"
  /\ UNCHANGED <<readVars, treeVars, diskVars, sctlr, memVars, world, hurt>>

\* Mutant of CleanCache: the loop over sets and ways is left out.
CleanNothing ==
  /\ pc = "clean" /\ pc' = "dcacheOff"
  /\ UNCHANGED <<readVars, treeVars, diskVars, sctlr, memVars, sd, world, hurt>>

\* arm7_dcache_off(): every line is written back, and stays in the cache ...
CleanCache ==
  /\ pc = "clean" /\ pc' = "dcacheOff"
  /\ ram' = [p \in Pages |-> IF cache[p] = NoLine THEN ram[p] ELSE cache[p]]
  /\ UNCHANGED <<readVars, treeVars, diskVars, sctlr, cache, sd, world, hurt>>

\* ... and the cache is turned off.
DcacheOff ==
  /\ pc = "dcacheOff" /\ pc' = "mmuOff"
  /\ sctlr' = sctlr \ {C}
  /\ UNCHANGED <<readVars, treeVars, diskVars, memVars, sd, world, hurt>>

\* arm6_mmu_off() and arm7_mmu_off() clear "bit 1 mmu".
MmuOff ==
  /\ pc = "mmuOff" /\ pc' = "icacheOff"
  /\ sctlr' = sctlr \ {A}
  /\ UNCHANGED <<readVars, treeVars, diskVars, memVars, sd, world, hurt>>

\* disable_icache(), and the jump.
DisableIcache ==
  /\ pc = "icacheOff" /\ pc' = "linux"
  /\ sctlr' = sctlr \ {I}
  /\ UNCHANGED <<readVars, treeVars, diskVars, memVars, sd, world, hurt>>

-----------------------------------------------------------------------------

Start    == Setup \/ TurnMmuOn \/ InitSd \/ ReadMbr \/ Mount
ReadFile == Stat \/ Open \/ Read
LoadFdt  == CheckTree \/ SetProperty
HandOver == TeardownHardware \/ CleanCache \/ DcacheOff \/ MmuOff \/ DisableIcache
Loader   == Start \/ ReadFile \/ LoadFdt \/ HandOver

Next == Loader \/ \E p \in Pages : Evict(p)

Spec == Init /\ [][Next]_vars

-----------------------------------------------------------------------------
(* Properties.                                                               *)

\* The files fit between the fixed load addresses (32, 64 and 240 MB).
Fits ==
  /\ KernelAt + card.size["zImage"] <= InitrdAt
  /\ InitrdAt + card.size["initrd"] <= DtbAt
  /\ DtbAt + card.size["dtb"] <= Top

\* What Linux finds at the three addresses is what is on the card, in every page,
\* whatever the data cache kept to itself when the loader was done, as long as
\* the files fit and no read went wrong in silence.
ImagesIntact ==
  pc = "linux" /\ Fits /\ ~hurt =>
    \A f \in Images : \A n \in 0 .. card.size[f] - 1 :
      LET v == View(LoadedAt(f) + n) IN v.file = f /\ v.part = n

\* The names in the tree that Linux is given.
Given == {e.name : e \in View(DtbAt).tree}

\* The properties that Linux should be given; what each takes, the first three, and
\* all but bootargs.
Wanted      == IF card.size["initrd"] = 0 THEN Names \ InitrdNames ELSE Names
Price(name) == IF name \in Wanted THEN TakesName(name) + Cost[name] ELSE 0
First       == Price("serial-number") + Price("local-mac-address") + Price("linux,revision")
Needed      == First + Price("linux,initrd-start") + Price("linux,initrd-end")
                     + Price("reg") + Price("ranges")

\* The command line fits behind the first three; what is left of one that does not.
LineFits   == First + TakesName("bootargs") + card.args <= Room
LeftBehind == IF First + TakesName("bootargs") <= Room THEN TakesName("bootargs") ELSE 0

\* Linux is given every property just when they fit into the room together with
\* their names.  Of a command line that does not fit behind the first three the name
\* is left behind, and just when the others fit next to it none of them is missing.
\* (A command line that fits takes its room first and crowds out what follows.)
TreeComplete ==
  pc = "linux" /\ Fits /\ ~hurt =>
    /\ Given = Wanted <=> Needed + TakesName("bootargs") + card.args <= Room
    /\ ~LineFits => (Given = Wanted \ {"bootargs"} <=> Needed + LeftBehind <= Room)

\* The loader gives up only for what is missing on the card or a read gone wrong.
PanicHasCause ==
  pc = "panic" => \/ hurt
                  \/ card.part # "fat"
                  \/ card.files # Files
                  \/ card.nodes # Nodes
                  \/ ~Fits

\* mmu_off() logs "MMU now off" before the jump.
MmuIsOff == pc = "linux" => M \notin sctlr

\* "chosen.txt describes linux,initrd-start and linux,initrd-end": they tell
\* Linux where the initrd was loaded.
InitrdIsThere ==
  pc = "linux" => \A e \in View(DtbAt).tree :
                    e.name = "linux,initrd-start" => e.value = InitrdAt
=============================================================================
