------------------------------ MODULE BootProofs ------------------------------
(***************************************************************************)
(* For every layout of memory and every card: the chainloader's state is    *)
(* well typed, Linux finds the files of the card at their addresses and the *)
(* tree with every property that has room, and the loader only gives up     *)
(* for a reason.                                                            *)
(***************************************************************************)
EXTENDS Boot, TLAPS

\* The eight properties are what SetProperty counts through.
LEMMA PropertyList ==
  /\ DOMAIN Properties = 1 .. 8
  /\ Len(Properties) = 8
  /\ \A k \in DOMAIN Properties : Properties[k].name \in Names
  /\ \A k \in DOMAIN Properties :
       Properties[k].name # "bootargs" => Properties[k].name \in Names \ {"bootargs"}
<1>1. DOMAIN Properties = 1 .. 8 /\ Len(Properties) = 8
  BY DEF Properties
<1>2. \A k \in DOMAIN Properties : Properties[k].name \in Names
  BY DEF Names
<1> QED
  BY <1>1, <1>2

\* The load addresses in their order.
LEMMA Layout ==
  /\ \A f \in Files : LoadedAt(f) \in Nat
  /\ DtbAt \in Pages
  /\ \A p \in Pages : p \in Nat
  BY BootAssumption DEF LoadedAt, Files, Pages

\* A value that load_fdt() sets is a number.
LEMMA ValueType ==
  ASSUME TypeOK, NEW name
  PROVE  Value(name) \in Nat
<1>1. len["initrd"] \in Nat
  BY DEF TypeOK, Files
<1>2. initrd \in Nat /\ initrd + len["initrd"] \in Nat
  BY <1>1 DEF initrd
<1> HIDE DEF initrd
<1> QED
  BY <1>2, Zenon DEF Value

\* Setting a property keeps a page of the tree a page.
LEMMA TreePage ==
  ASSUME NEW c \in Contents, NEW e \in [name : Names, value : Nat]
  PROVE  [c EXCEPT !.tree = @ \cup {e}] \in Contents
<1>1. c.tree \cup {e} \in SUBSET [name : Names, value : Nat]
  BY DEF Contents
<1> HIDE DEF Names
<1> QED
  BY <1>1 DEF Contents

\* What a load sees is contents, in memory or in the cache.
LEMMA ViewType ==
  ASSUME TypeOK, NEW p \in Pages
  PROVE  View(p) \in Contents
  BY DEF TypeOK, View

\* Storing contents keeps memory and cache well typed.
LEMMA StoreType ==
  ASSUME TypeOK, NEW S \in SUBSET Pages, NEW f \in [S -> Contents], Store(f)
  PROVE  ram' \in [Pages -> Contents] /\ cache' \in [Pages -> Contents]
  BY DEF TypeOK, Store

\* What every step that leaves the memory, the disk and the tree alone preserves.
LEMMA TypeStep ==
  ASSUME TypeOK, [Next]_vars
  PROVE  TypeOK'
<1> USE BootAssumption DEF TypeOK
<1>1. CASE Setup
  BY <1>1 DEF Setup, readVars, treeVars, diskVars, memVars, world, PCs
<1>2. CASE TurnMmuOn
  BY <1>2 DEF TurnMmuOn, readVars, treeVars, diskVars, memVars, world, PCs
<1>3. CASE InitSd
  BY <1>3 DEF InitSd, readVars, treeVars, diskVars, memVars, world, PCs
<1>4. CASE ReadMbr
  BY <1>4 DEF ReadMbr, readVars, treeVars, memVars, world, PCs
<1>5. CASE Mount
  BY <1>5 DEF Mount, FatPartition, readVars, treeVars, memVars, world, PCs
<1>6. CASE Stat
  BY <1>6 DEF Stat, readVars, treeVars, diskVars, memVars, world, PCs
<1>7. CASE Open
  BY <1>7 DEF Open, treeVars, diskVars, memVars, world, PCs
<1>8. CASE Read
  <2>1. file' \in Files /\ pc' \in PCs
    BY <1>8 DEF Read, NextFile, AfterFile, Files, PCs
  <2>2. PICK n \in 0 .. Length(file), bad \in SUBSET Target(Length(file)) :
           /\ len' = [len EXCEPT ![file] = n]
           /\ hurt' \in BOOLEAN
           /\ IF file = "cmdline.txt" THEN UNCHANGED memVars
              ELSE Store([p \in Target(n) |->
                            IF p \in bad THEN Junk ELSE Image(file, p - LoadedAt(file), {})])
    BY <1>8 DEF Read
  <2>3. n \in Nat
    BY <2>2, card \in CardSpace DEF Length, CardSpace, Images, Files
  <2>4. len' \in [Files -> Nat]
    BY <2>2, <2>3
  <2>5. ram' \in [Pages -> Contents] /\ cache' \in [Pages -> Contents]
    <3>1. CASE file = "cmdline.txt"
      BY <3>1, <2>2 DEF memVars
    <3>2. CASE file # "cmdline.txt"
      <4> DEFINE F == [p \in Target(n) |->
                         IF p \in bad THEN Junk ELSE Image(file, p - LoadedAt(file), {})]
      <4>1. Target(n) \in SUBSET Pages
        BY DEF Target
      <4>2. ASSUME NEW p \in Target(n)
            PROVE  /\ Junk \in Contents
                   /\ Image(file, p - LoadedAt(file), {}) \in Contents
        <5>1. p - LoadedAt(file) \in Nat
          BY <4>2, Layout DEF Target
        <5>2. file \in Images
          BY <3>2 DEF Images
        <5> QED
          BY <5>1, <5>2 DEF Junk, Image, Contents
      <4>3. F \in [Target(n) -> Contents]
        BY <4>2
      <4>4. Store(F)
        BY <3>2, <2>2
      <4> HIDE DEF F
      <4> QED
        BY <4>1, <4>3, <4>4, StoreType
    <3> QED
      BY <3>1, <3>2
  <2> QED
    BY <1>8, <2>1, <2>2, <2>4, <2>5 DEF Read, treeVars, diskVars, world
<1>9. CASE CheckTree
  BY <1>9 DEF CheckTree, readVars, diskVars, memVars, world, PCs
<1>10. CASE SetProperty
  <2> DEFINE q == Properties[prop]
  <2>1. pc' \in PCs /\ prop' \in DOMAIN Properties
    BY <1>10, PropertyList DEF SetProperty, treeVars, PCs
  <2>2. Takes(q.name) \in Nat /\ TakesName(q.name) \in Nat /\ q.name \in Names
    BY PropertyList DEF Takes, TakesName, Files
  <2>3. room' \in 0 .. Room
    <3>1. RoomAfter(q.name) \in 0 .. Room
      <4> HIDE DEF q
      <4> QED
        BY <2>2 DEF RoomAfter, HasRoom, HasRoomForName
    <3> QED
      BY <1>10, <3>1 DEF SetProperty, treeVars
  <2>4. ram' \in [Pages -> Contents] /\ cache' \in [Pages -> Contents]
    <3> DEFINE F == [p \in {DtbAt} |-> [View(p) EXCEPT !.tree =
                       @ \cup {[name |-> q.name, value |-> Value(q.name)]}]]
    <3>1. CASE UNCHANGED memVars
      BY <3>1 DEF memVars
    <3>2. CASE Store(F)
      <4>1. {DtbAt} \in SUBSET Pages
        BY Layout
      <4>2. Value(q.name) \in Nat
        BY ValueType
      <4>3. View(DtbAt) \in Contents
        BY Layout, ViewType
      <4>4. [View(DtbAt) EXCEPT !.tree =
               @ \cup {[name |-> q.name, value |-> Value(q.name)]}] \in Contents
        BY <2>2, <4>2, <4>3, TreePage
      <4>5. F \in [{DtbAt} -> Contents]
        BY <4>4
      <4> HIDE DEF F
      <4> QED
        BY <3>2, <4>1, <4>5, StoreType
    <3> QED
      BY <1>10, <3>1, <3>2 DEF SetProperty
  <2> QED
    BY <1>10, <2>1, <2>3, <2>4 DEF SetProperty, readVars, diskVars, world
<1>11. CASE TeardownHardware
  BY <1>11 DEF TeardownHardware, readVars, treeVars, diskVars, memVars, world, PCs
<1>12. CASE CleanCache
  BY <1>12 DEF CleanCache, readVars, treeVars, diskVars, world, PCs
<1>13. CASE DcacheOff
  BY <1>13 DEF DcacheOff, readVars, treeVars, diskVars, memVars, world, PCs
<1>14. CASE MmuOff
  BY <1>14 DEF MmuOff, readVars, treeVars, diskVars, memVars, world, PCs
<1>15. CASE DisableIcache
  BY <1>15 DEF DisableIcache, readVars, treeVars, diskVars, memVars, world, PCs
<1>16. CASE \E p \in Pages : Evict(p)
  <2>1. PICK p \in Pages : Evict(p)
    BY <1>16
  <2>2. NoLine \in Contents
    BY DEF NoLine, Image, Contents
  <2> QED
    BY <2>1, <2>2 DEF Evict, readVars, treeVars, diskVars, world
<1>17. CASE UNCHANGED vars
  BY <1>17 DEF vars, readVars, treeVars, diskVars, memVars, world
<1> QED
  BY <1>1, <1>2, <1>3, <1>4, <1>5, <1>6, <1>7, <1>8, <1>9, <1>10, <1>11, <1>12, <1>13,
     <1>14, <1>15, <1>16, <1>17
     DEF Next, Loader, Start, ReadFile, LoadFdt, HandOver

\* The loader's state is well typed: the room left in the tree never falls below
\* zero, whatever the command line's length.
THEOREM TypeCorrect == Spec => []TypeOK
<1>1. ASSUME Init PROVE TypeOK
  <2>1. Junk \in Contents /\ NoLine \in Contents
    BY DEF Junk, NoLine, Image, Contents
  <2>2. 1 \in DOMAIN Properties /\ 0 \in 0 .. Room
    BY PropertyList, BootAssumption
  <2> QED
    BY <1>1, <2>1, <2>2 DEF Init, TypeOK, PCs, Files
<1> QED
  BY <1>1, TypeStep, PTL DEF Spec

-----------------------------------------------------------------------------
(* Linux finds the files.                                                    *)

\* The files whose pages read_file() has delivered, as far as the loader goes on.
Delivered ==
  CASE pc \in {"check", "prop", "teardown", "clean", "dcacheOff", "mmuOff", "icacheOff",
               "linux"} -> Images
    [] pc \in {"stat", "open", "read"} /\ file = "initrd" -> {"zImage"}
    [] pc \in {"stat", "open", "read"} /\ file \in {"cmdline.txt", "dtb"} -> {"zImage", "initrd"}
    [] OTHER -> {}

\* Every page of f is where it belongs.
InPlace(f) ==
  \A n \in 0 .. card.size[f] - 1 :
    View(LoadedAt(f) + n).file = f /\ View(LoadedAt(f) + n).part = n

AllInPlace == Fits /\ ~hurt => \A f \in Delivered : InPlace(f)

\* Turning the cache off loses nothing.
Coherent == \A p \in Pages : cache[p] = NoLine \/ cache[p] = ram[p]

CachedPCs == {"sdInit", "readMbr", "mount", "stat", "open", "read", "check", "prop",
              "teardown", "clean"}

CacheDiscipline ==
  /\ pc \in CachedPCs => CacheOn
  /\ pc = "dcacheOff" \/ ~CacheOn => Coherent

\* The kernel is the first file.
KernelFirst == pc \in {"setup", "mmuOn", "sdInit", "readMbr", "mount"} => file = "zImage"

IInv == AllInPlace /\ CacheDiscipline /\ KernelFirst

\* Where files that fit have their pages.
LEMMA Places ==
  ASSUME TypeOK, Fits, NEW f \in Images, NEW n \in 0 .. card.size[f] - 1
  PROVE  /\ LoadedAt(f) + n \in Pages
         /\ f = "zImage" => LoadedAt(f) + n < InitrdAt
         /\ f = "initrd" => LoadedAt(f) + n >= InitrdAt /\ LoadedAt(f) + n < DtbAt
         /\ f = "dtb" => LoadedAt(f) + n >= DtbAt
<1>1. card.size[f] \in Nat
  BY BootAssumption DEF TypeOK, CardSpace
<1>2. n \in Nat /\ n < card.size[f]
  BY <1>1
<1>3. CASE f = "zImage"
  BY <1>1, <1>2, <1>3, BootAssumption DEF Fits, LoadedAt, Pages
<1>4. CASE f = "initrd"
  BY <1>1, <1>2, <1>4, BootAssumption DEF Fits, LoadedAt, Pages
<1>5. CASE f = "dtb"
  BY <1>1, <1>2, <1>5, BootAssumption DEF Fits, LoadedAt, Pages
<1> QED
  BY <1>3, <1>4, <1>5 DEF Images, Files

\* A step after which every load sees what it saw before keeps the files in place.
LEMMA KeepInPlace ==
  ASSUME TypeOK, AllInPlace, card' = card, ~hurt' => ~hurt,
         Delivered' \subseteq Delivered,
         \A p \in Pages : View(p)' = View(p)
  PROVE  AllInPlace'
<1> SUFFICES ASSUME Fits', ~hurt', NEW f \in Delivered', NEW n \in 0 .. card.size[f] - 1
             PROVE  /\ View(LoadedAt(f) + n)'.file = f
                    /\ View(LoadedAt(f) + n)'.part = n
  BY DEF AllInPlace, InPlace, LoadedAt
<1>1. Fits /\ ~hurt /\ f \in Delivered
  BY DEF Fits
<1>2. f \in Images
  BY <1>1 DEF Delivered, Images, Files
<1>3. LoadedAt(f) + n \in Pages
  BY <1>1, <1>2, Places
<1>4. View(LoadedAt(f) + n).file = f /\ View(LoadedAt(f) + n).part = n
  BY <1>1 DEF AllInPlace, InPlace
<1> QED
  BY <1>3, <1>4

\* Without a change of memory, cache and SCTLR's M and C a load sees the same.
LEMMA SameView ==
  ASSUME ram' = ram, cache' = cache, CacheOn' = CacheOn
  PROVE  \A p \in Pages : View(p)' = View(p)
  BY DEF View

\* With the cache on, a store is seen, and only where it went.
LEMMA StoreSeen ==
  ASSUME TypeOK, CacheOn, CacheOn', NEW S \in SUBSET Pages, NEW f \in [S -> Contents],
         Store(f), \A p \in S : f[p] # NoLine, NEW p \in Pages
  PROVE  View(p)' = IF p \in S THEN f[p] ELSE View(p)
<1>1. DOMAIN f = S
  OBVIOUS
<1> QED
  BY <1>1 DEF Store, View, TypeOK

\* The chainloader starts with nothing in place and nothing cached.
LEMMA InitCorrect == Init => IInv
<1> SUFFICES ASSUME Init PROVE IInv
  OBVIOUS
<1>1. Delivered = {}
  BY DEF Init, Delivered
<1>2. ~CacheOn /\ pc = "setup"
  BY DEF Init, CacheOn, M, C
<1>3. Coherent
  BY DEF Init, Coherent
<1> QED
  BY <1>1, <1>2, <1>3 DEF IInv, AllInPlace, CacheDiscipline, CachedPCs, KernelFirst, Init

\* Every step that neither stores to memory nor touches the cache.
LEMMA QuietSteps ==
  ASSUME TypeOK, IInv,
         Setup \/ TurnMmuOn \/ InitSd \/ ReadMbr \/ Mount \/ Stat \/ Open \/ CheckTree
         \/ TeardownHardware \/ MmuOff \/ DisableIcache \/ UNCHANGED vars
  PROVE  IInv'
<1>1. ram' = ram /\ cache' = cache /\ card' = card /\ (~hurt' => ~hurt)
  BY DEF Setup, TurnMmuOn, InitSd, ReadMbr, Mount, Stat, Open, CheckTree, TeardownHardware,
         MmuOff, DisableIcache, vars, memVars, world, TypeOK
<1>2. Coherent' = Coherent
  BY <1>1 DEF Coherent
<1>5. KernelFirst'
  BY DEF Setup, TurnMmuOn, InitSd, ReadMbr, Mount, Stat, Open, CheckTree, TeardownHardware,
         MmuOff, DisableIcache, vars, readVars, IInv, KernelFirst
<1>3. CASE TurnMmuOn
  <2>1. Delivered' = {}
    BY <1>3 DEF TurnMmuOn, Delivered
  <2>2. CacheOn'
    BY <1>3 DEF TurnMmuOn, CacheOn
  <2>3. pc' = "sdInit"
    BY <1>3 DEF TurnMmuOn
  <2> QED
    BY <1>5, <2>1, <2>2, <2>3 DEF IInv, AllInPlace, CacheDiscipline, CachedPCs
<1>4. CASE ~TurnMmuOn
  <2>1. CacheOn' = CacheOn
    BY <1>4 DEF Setup, InitSd, ReadMbr, Mount, Stat, Open, CheckTree, TeardownHardware,
                MmuOff, DisableIcache, vars, CacheOn, M, A, C, I
  <2>2. Delivered' \subseteq Delivered
    <3>1. file' = file
      BY <1>4 DEF Setup, InitSd, ReadMbr, Mount, Stat, Open, CheckTree, TeardownHardware,
                  MmuOff, DisableIcache, vars, readVars
    <3>2. CASE Setup \/ InitSd \/ ReadMbr \/ Mount
      <4>1. file' = "zImage" /\ pc' \in {"mmuOn", "readMbr", "mount", "stat", "panic"}
        BY <3>1, <3>2 DEF Setup, InitSd, ReadMbr, Mount, IInv, KernelFirst
      <4> QED
        BY <4>1 DEF Delivered
    <3>3. CASE Stat \/ Open \/ CheckTree
      BY <3>1, <3>3 DEF Stat, Open, CheckTree, Delivered
    <3>4. CASE TeardownHardware \/ MmuOff \/ DisableIcache \/ UNCHANGED vars
      BY <3>1, <3>4 DEF TeardownHardware, MmuOff, DisableIcache, vars, Delivered
    <3> QED
      BY <1>4, <3>2, <3>3, <3>4
  <2>3. AllInPlace'
    BY <1>1, <2>1, <2>2, SameView, KeepInPlace DEF IInv
  <2>4. pc' \in CachedPCs => pc \in CachedPCs
    BY <1>4 DEF Setup, InitSd, ReadMbr, Mount, Stat, Open, CheckTree, TeardownHardware,
                MmuOff, DisableIcache, vars, CachedPCs
  <2>5. pc' = "dcacheOff" => pc = "dcacheOff"
    BY <1>4 DEF Setup, InitSd, ReadMbr, Mount, Stat, Open, CheckTree, TeardownHardware,
                MmuOff, DisableIcache, vars
  <2> QED
    BY <1>2, <1>5, <2>1, <2>3, <2>4, <2>5 DEF IInv, CacheDiscipline
<1> QED
  BY <1>3, <1>4

\* The cleaning loop, the cache's switch and an eviction show every load what it saw.
LEMMA CacheSteps ==
  ASSUME TypeOK, IInv, CleanCache \/ DcacheOff \/ \E p \in Pages : Evict(p)
  PROVE  IInv'
<1>1. card' = card /\ hurt' = hurt /\ KernelFirst'
  BY DEF CleanCache, DcacheOff, Evict, world, readVars, IInv, KernelFirst
<1>2. CASE CleanCache
  <2>1. CacheOn /\ CacheOn'
    BY <1>2 DEF CleanCache, IInv, CacheDiscipline, CachedPCs, CacheOn
  <2>2. \A p \in Pages : ram'[p] = IF cache[p] = NoLine THEN ram[p] ELSE cache[p]
    BY <1>2 DEF CleanCache, TypeOK
  <2>3. cache' = cache
    BY <1>2 DEF CleanCache
  <2>4. \A p \in Pages : View(p)' = View(p)
    BY <2>1, <2>2, <2>3 DEF View
  <2>5. Coherent'
    BY <2>2, <2>3 DEF Coherent
  <2>6. Delivered' \subseteq Delivered
    BY <1>2 DEF CleanCache, Delivered
  <2>7. AllInPlace'
    BY <1>1, <2>4, <2>6, KeepInPlace DEF IInv
  <2> QED
    BY <1>1, <1>2, <2>1, <2>5, <2>7 DEF IInv, CacheDiscipline, CleanCache, CachedPCs
<1>3. CASE DcacheOff
  <2>1. Coherent /\ ~CacheOn'
    BY <1>3 DEF DcacheOff, IInv, CacheDiscipline, CacheOn
  <2>2. ram' = ram /\ cache' = cache
    BY <1>3 DEF DcacheOff, memVars
  <2>3. \A p \in Pages : View(p)' = View(p)
    BY <2>1, <2>2 DEF View, Coherent
  <2>4. Coherent'
    BY <2>1, <2>2 DEF Coherent
  <2>5. Delivered' \subseteq Delivered
    BY <1>3 DEF DcacheOff, Delivered
  <2>6. AllInPlace'
    BY <1>1, <2>3, <2>5, KeepInPlace DEF IInv
  <2> QED
    BY <1>1, <1>3, <2>4, <2>6 DEF IInv, CacheDiscipline, DcacheOff, CachedPCs
<1>4. CASE \E p \in Pages : Evict(p)
  <2>1. PICK p \in Pages : Evict(p)
    BY <1>4
  <2>2. /\ pc' = pc /\ sctlr' = sctlr /\ file' = file
        /\ cache[p] # NoLine
        /\ ram' = [ram EXCEPT ![p] = cache[p]] /\ cache' = [cache EXCEPT ![p] = NoLine]
    BY <2>1 DEF Evict, readVars
  <2>3. CacheOn' = CacheOn
    BY <2>2 DEF CacheOn
  <2>4. /\ ram'[p] = cache[p] /\ cache'[p] = NoLine
        /\ \A x \in Pages \ {p} : ram'[x] = ram[x] /\ cache'[x] = cache[x]
    BY <2>2 DEF TypeOK
  <2>5. \A x \in Pages : View(x)' = View(x)
    <3>1. CASE CacheOn
      BY <2>2, <2>3, <2>4, <3>1 DEF View
    <3>2. CASE ~CacheOn
      <4>1. ram[p] = cache[p]
        BY <2>2, <3>2 DEF IInv, CacheDiscipline, Coherent
      <4> QED
        BY <2>3, <2>4, <3>2, <4>1 DEF View
    <3> QED
      BY <3>1, <3>2
  <2>6. Coherent => Coherent'
    BY <2>4 DEF Coherent
  <2>7. Delivered' \subseteq Delivered
    BY <2>2 DEF Delivered
  <2>8. AllInPlace'
    BY <1>1, <2>5, <2>7, KeepInPlace DEF IInv
  <2> QED
    BY <1>1, <2>2, <2>3, <2>6, <2>8 DEF IInv, CacheDiscipline
<1> QED
  BY <1>2, <1>3, <1>4

\* Setting a property changes what is in the tree and nothing else.
LEMMA SetPropertyStep ==
  ASSUME TypeOK, IInv, SetProperty
  PROVE  IInv'
<1> DEFINE q == Properties[prop]
           page(p) == [View(p) EXCEPT !.tree =
                         @ \cup {[name |-> q.name, value |-> Value(q.name)]}]
           F == [p \in {DtbAt} |-> page(p)]
<1>1. /\ card' = card /\ hurt' = hurt /\ sctlr' = sctlr /\ pc = "prop"
      /\ pc' \in {"prop", "teardown", "panic"}
      /\ UNCHANGED memVars \/ Store(F)
  BY DEF SetProperty, world, treeVars
<1>2. CacheOn /\ CacheOn'
  BY <1>1 DEF IInv, CacheDiscipline, CachedPCs, CacheOn
<1>3. CacheDiscipline' /\ KernelFirst'
  BY <1>1, <1>2 DEF CacheDiscipline, KernelFirst
<1>4. Delivered' \subseteq Delivered
  BY <1>1 DEF Delivered
<1>5. CASE UNCHANGED memVars
  <2>1. \A p \in Pages : View(p)' = View(p)
    BY <1>2, <1>5, SameView DEF memVars
  <2>2. AllInPlace'
    BY <1>1, <1>4, <2>1, KeepInPlace DEF IInv
  <2> QED
    BY <1>3, <2>2 DEF IInv
<1>6. CASE Store(F) /\ Fits /\ ~hurt
  <2>1. DtbAt \in Pages /\ {DtbAt} \in SUBSET Pages
    BY Layout
  <2>2. View(DtbAt) \in Contents
    BY <2>1, ViewType
  <2>3. Value(q.name) \in Nat /\ q.name \in Names
    BY PropertyList, ValueType DEF TypeOK
  <2>4. page(DtbAt) \in Contents
    BY <2>2, <2>3, TreePage
  <2>5. page(DtbAt).file = View(DtbAt).file /\ page(DtbAt).part = View(DtbAt).part
    BY <2>2 DEF Contents
  <2>6. View(DtbAt).file = "dtb"
    <3>1. InPlace("dtb")
      BY <1>1, <1>6 DEF IInv, AllInPlace, Delivered, Images, Files
    <3>2. 0 \in 0 .. card.size["dtb"] - 1
      BY BootAssumption DEF TypeOK, CardSpace, Images, Files
    <3>3. LoadedAt("dtb") + 0 = DtbAt
      BY BootAssumption DEF LoadedAt
    <3> QED
      BY <3>1, <3>2, <3>3 DEF InPlace
  <2>7. page(DtbAt) # NoLine
    BY <2>5, <2>6 DEF NoLine, Image
  <2>8. F \in [{DtbAt} -> Contents] /\ \A p \in {DtbAt} : F[p] # NoLine
    BY <2>4, <2>7
  <2>9. F[DtbAt] = page(DtbAt)
    OBVIOUS
  <2> HIDE DEF F
  <2>10. \A p \in Pages : View(p)' = IF p \in {DtbAt} THEN F[p] ELSE View(p)
    BY <1>2, <1>6, <2>1, <2>8, StoreSeen
  <2>11. \A p \in Pages : View(p)'.file = View(p).file /\ View(p)'.part = View(p).part
    BY <2>5, <2>9, <2>10
  <2>12. AllInPlace'
    <3> SUFFICES ASSUME NEW f \in Delivered', NEW n \in 0 .. card.size[f] - 1
                 PROVE  /\ View(LoadedAt(f) + n)'.file = f
                        /\ View(LoadedAt(f) + n)'.part = n
      BY <1>1 DEF AllInPlace, InPlace, LoadedAt
    <3>1. f \in Delivered /\ f \in Images
      BY <1>4 DEF Delivered, Images, Files
    <3>2. LoadedAt(f) + n \in Pages
      BY <1>6, <3>1, Places
    <3>3. View(LoadedAt(f) + n).file = f /\ View(LoadedAt(f) + n).part = n
      BY <1>6, <3>1 DEF IInv, AllInPlace, InPlace
    <3> QED
      BY <2>11, <3>2, <3>3
  <2> QED
    BY <1>3, <2>12 DEF IInv
<1>7. CASE ~(Fits /\ ~hurt)
  <2>1. AllInPlace'
    BY <1>1, <1>7 DEF AllInPlace, Fits
  <2> QED
    BY <1>3, <2>1 DEF IInv
<1> QED
  BY <1>1, <1>5, <1>6, <1>7

\* A file that is read puts its own pages in place and, if the files fit, leaves
\* those of the files before it alone.
LEMMA ReadStep ==
  ASSUME TypeOK, IInv, Read
  PROVE  IInv'
<1>1. /\ card' = card /\ sctlr' = sctlr /\ pc = "read"
      /\ file' = NextFile /\ pc' = AfterFile
  BY DEF Read, world
<1>2. CacheOn /\ CacheOn'
  BY <1>1 DEF IInv, CacheDiscipline, CachedPCs, CacheOn
<1>3. CacheDiscipline' /\ KernelFirst'
  BY <1>1, <1>2 DEF CacheDiscipline, KernelFirst, AfterFile
<1>4. SUFFICES ASSUME Fits', ~hurt', NEW f \in Delivered', NEW n \in 0 .. card.size[f] - 1
               PROVE  /\ View(LoadedAt(f) + n)'.file = f
                      /\ View(LoadedAt(f) + n)'.part = n
  BY <1>1, <1>3 DEF IInv, AllInPlace, InPlace, LoadedAt
<1>5. Fits /\ ~hurt
  BY <1>1, <1>4 DEF Fits, Read, TypeOK
<1>6. f \in Images
  BY <1>4 DEF Delivered, Images, Files
<1>7. LoadedAt(f) + n \in Pages
  BY <1>5, <1>6, Places
<1>8. f \in Delivered \/ f = file
  BY <1>1, <1>4 DEF Delivered, NextFile, AfterFile, TypeOK, Files, Images
<1>9. CASE file = "cmdline.txt"
  <2>1. f \in Delivered
    BY <1>6, <1>8, <1>9 DEF Images
  <2>2. View(LoadedAt(f) + n)' = View(LoadedAt(f) + n)
    BY <1>2, <1>9 DEF Read, memVars, View, LoadedAt
  <2> QED
    BY <1>5, <2>1, <2>2 DEF IInv, AllInPlace, InPlace
<1>10. CASE file # "cmdline.txt"
  <2> DEFINE T == Target(Length(file))
             F == [p \in T |-> Image(file, p - LoadedAt(file), {})]
  <2>1. file \in Images /\ Length(file) = card.size[file]
    BY <1>10 DEF TypeOK, Images, Length
  <2>2. PICK bad \in SUBSET T :
           /\ bad = {}
           /\ Store([p \in T |-> IF p \in bad THEN Junk ELSE Image(file, p - LoadedAt(file), {})])
    BY <1>4, <1>5, <1>10 DEF Read
  <2>3. Store(F)
    <3>1. F = [p \in T |-> IF p \in bad THEN Junk ELSE Image(file, p - LoadedAt(file), {})]
      BY <2>2
    <3> QED
      BY <2>2, <3>1
  <2>4. T \in SUBSET Pages
    BY DEF Target
  <2>5. ASSUME NEW p \in T
        PROVE  /\ F[p] \in Contents /\ F[p] # NoLine
               /\ F[p].file = file /\ F[p].part = p - LoadedAt(file)
    <3>1. p - LoadedAt(file) \in Nat
      BY <2>5, Layout DEF Target, TypeOK
    <3> QED
      BY <2>1, <3>1 DEF Image, NoLine, Contents, Images, Files
  <2>6. F \in [T -> Contents]
    BY <2>5
  <2> HIDE DEF F, T
  <2>7. View(LoadedAt(f) + n)' =
          IF LoadedAt(f) + n \in T THEN F[LoadedAt(f) + n] ELSE View(LoadedAt(f) + n)
    <3> DEFINE p == LoadedAt(f) + n
    <3>1. p \in Pages
      BY <1>7
    <3>2. \A x \in Pages : View(x)' = IF x \in T THEN F[x] ELSE View(x)
      BY <1>2, <2>3, <2>4, <2>5, <2>6, StoreSeen
    <3> QED
      BY <3>1, <3>2 DEF LoadedAt
  <2>8. LoadedAt(file) \in Nat /\ LoadedAt(f) \in Nat /\ n \in Nat
    BY <1>6, <2>1, BootAssumption, Layout DEF TypeOK, CardSpace, Images
  <2>9. LoadedAt(f) + n \in T <=>
          LoadedAt(f) + n >= LoadedAt(file) /\ LoadedAt(f) + n < LoadedAt(file) + Length(file)
    BY <1>7 DEF T, Target
  <2>10. CASE f = file
    <3>1. n < Length(file)
      BY <2>1, <2>8, <2>10, BootAssumption DEF TypeOK, CardSpace
    <3>2. LoadedAt(f) + n \in T
      BY <2>1, <2>8, <2>9, <2>10, <3>1, BootAssumption DEF TypeOK, CardSpace
    <3> QED
      BY <2>5, <2>7, <2>8, <2>10, <3>2
  <2>11. CASE f # file
    <3>1. f \in Delivered
      BY <1>8, <2>11
    <3>2. \/ f = "zImage" /\ file = "initrd"
          \/ f \in {"zImage", "initrd"} /\ file = "dtb"
      BY <1>1, <2>1, <2>11, <3>1 DEF Delivered, Images, Files
    <3>3. LoadedAt(f) + n < LoadedAt(file)
      <4>1. /\ f = "zImage" => LoadedAt(f) + n < InitrdAt
            /\ f = "initrd" => LoadedAt(f) + n < DtbAt
        BY <1>5, <1>6, Places
      <4>2. /\ file = "initrd" => LoadedAt(file) = InitrdAt
            /\ file = "dtb" => LoadedAt(file) = DtbAt
        BY DEF LoadedAt
      <4> QED
        BY <2>8, <3>2, <4>1, <4>2, BootAssumption
    <3>4. LoadedAt(f) + n \notin T
      BY <2>8, <2>9, <3>3
    <3>5. View(LoadedAt(f) + n).file = f /\ View(LoadedAt(f) + n).part = n
      BY <1>5, <3>1 DEF IInv, AllInPlace, InPlace
    <3> QED
      BY <2>7, <3>4, <3>5
  <2> QED
    BY <2>10, <2>11
<1> QED
  BY <1>9, <1>10

\* Linux finds every page of the kernel, the initrd and the tree where the loader
\* put it: for all load addresses in that order and all files that fit between
\* them, whatever the cache evicts or keeps meanwhile.
THEOREM LinuxFindsItsFiles == Spec => []ImagesIntact
<1>1. TypeOK /\ IInv /\ [Next]_vars => IInv'
  BY QuietSteps, CacheSteps, SetPropertyStep, ReadStep
     DEF Next, Loader, Start, ReadFile, LoadFdt, HandOver
<1>2. IInv => ImagesIntact
  BY DEF IInv, AllInPlace, InPlace, Delivered, ImagesIntact, Images, Files
<1> QED
  BY <1>1, <1>2, InitCorrect, TypeCorrect, PTL DEF Spec

-----------------------------------------------------------------------------
(* The loader gives up only with a cause.                                    *)

\* Before the volume is mounted the table is the card's, unless a read went wrong.
TableIsRead == pc = "mount" => hurt \/ mbr = "card"

\* Every step to the panic has a cause, and causes do not go away.
LEMMA PanicStep ==
  ASSUME TypeOK, IInv, TableIsRead, PanicHasCause, [Next]_vars
  PROVE  TableIsRead' /\ PanicHasCause'
<1>1. /\ card' = card /\ (hurt => hurt')
      /\ pc' = "mount" => hurt' \/ mbr' = "card"
  <2>1. CASE Setup
    BY <2>1 DEF Setup, world, diskVars
  <2>2. CASE TurnMmuOn
    BY <2>2 DEF TurnMmuOn, world, diskVars
  <2>3. CASE InitSd
    BY <2>3 DEF InitSd, world, diskVars
  <2>4. CASE ReadMbr
    BY <2>4 DEF ReadMbr, world, diskVars
  <2>5. CASE Mount
    BY <2>5 DEF Mount, world, diskVars
  <2>6. CASE Stat
    BY <2>6 DEF Stat, world, diskVars
  <2>7. CASE Open
    BY <2>7 DEF Open, world, diskVars
  <2>8. CASE Read
    BY <2>8 DEF Read, world, diskVars, AfterFile
  <2>9. CASE CheckTree
    BY <2>9 DEF CheckTree, world, diskVars
  <2>10. CASE SetProperty
    BY <2>10 DEF SetProperty, world, diskVars
  <2>11. CASE TeardownHardware
    BY <2>11 DEF TeardownHardware, world, diskVars
  <2>12. CASE CleanCache
    BY <2>12 DEF CleanCache, world, diskVars
  <2>13. CASE DcacheOff
    BY <2>13 DEF DcacheOff, world, diskVars
  <2>14. CASE MmuOff
    BY <2>14 DEF MmuOff, world, diskVars
  <2>15. CASE DisableIcache
    BY <2>15 DEF DisableIcache, world, diskVars
  <2>16. CASE (\E p \in Pages : Evict(p)) \/ UNCHANGED vars
    BY <2>16 DEF Evict, vars, world, diskVars, TableIsRead
  <2> QED
    BY <2>1, <2>2, <2>3, <2>4, <2>5, <2>6, <2>7, <2>8, <2>9, <2>10, <2>11, <2>12, <2>13, <2>14, <2>15, <2>16
       DEF Next, Loader, Start, ReadFile, LoadFdt, HandOver
<1>2. Fits' = Fits
  BY <1>1 DEF Fits
<1>3. CASE pc = "panic"
  BY <1>1, <1>2, <1>3 DEF PanicHasCause, TableIsRead
<1>4. ASSUME pc # "panic", pc' = "panic"
      PROVE  hurt' \/ card.part # "fat" \/ card.files # Files \/ card.nodes # Nodes \/ ~Fits
  <2>1. CASE InitSd \/ ReadMbr \/ Mount
    BY <1>4, <2>1 DEF InitSd, ReadMbr, Mount, FatPartition, TableIsRead
  <2>2. CASE Stat
    BY <1>4, <2>2 DEF Stat, TypeOK
  <2>3. CASE CheckTree
    <3>1. View(DtbAt).file # "dtb" /\ pc = "check"
      BY <1>4, <2>3 DEF CheckTree
    <3>2. ASSUME Fits, ~hurt PROVE FALSE
      <4>1. InPlace("dtb")
        BY <3>1, <3>2 DEF IInv, AllInPlace, Delivered, Images, Files
      <4>2. 0 \in 0 .. card.size["dtb"] - 1
        BY BootAssumption DEF TypeOK, CardSpace, Images, Files
      <4>3. LoadedAt("dtb") + 0 = DtbAt
        BY BootAssumption DEF LoadedAt
      <4> QED
        BY <3>1, <4>1, <4>2, <4>3 DEF InPlace
    <3> QED
      BY <1>1, <3>2
  <2>4. CASE SetProperty
    <3>1. Properties[prop].node \notin card.nodes
      BY <1>4, <2>4 DEF SetProperty
    <3>2. \A k \in DOMAIN Properties : Properties[k].node \in Nodes
      <4> SUFFICES ASSUME NEW k \in 1 .. 8 PROVE Properties[k].node \in Nodes
        BY PropertyList
      <4>1. /\ Properties[1].node = "/" /\ Properties[2].node = "ethernet0"
            /\ Properties[3].node = "/system" /\ Properties[4].node = "/chosen"
            /\ Properties[5].node = "/chosen" /\ Properties[6].node = "/chosen"
            /\ Properties[7].node = "/memory" /\ Properties[8].node = "/soc"
        BY DEF Properties
      <4>2. k = 1 \/ k = 2 \/ k = 3 \/ k = 4 \/ k = 5 \/ k = 6 \/ k = 7 \/ k = 8
        OBVIOUS
      <4> QED
        BY <4>1, <4>2 DEF Nodes
    <3> QED
      BY <3>1, <3>2 DEF TypeOK
  <2>5. InitSd \/ ReadMbr \/ Mount \/ Stat \/ CheckTree \/ SetProperty
    <3>1. ~(Setup \/ TurnMmuOn \/ Open \/ TeardownHardware \/ CleanCache \/ DcacheOff)
      BY <1>4 DEF Setup, TurnMmuOn, Open, TeardownHardware, CleanCache, DcacheOff
    <3>2. ~(Read \/ MmuOff \/ DisableIcache \/ (\E p \in Pages : Evict(p)) \/ UNCHANGED vars)
      BY <1>4 DEF Read, AfterFile, MmuOff, DisableIcache, Evict, vars
    <3> QED
      BY <3>1, <3>2 DEF Next, Loader, Start, ReadFile, LoadFdt, HandOver
  <2> QED
    BY <2>1, <2>2, <2>3, <2>4, <2>5
<1>5. PanicHasCause'
  BY <1>1, <1>2, <1>3, <1>4 DEF PanicHasCause
<1> QED
  BY <1>1, <1>5 DEF TableIsRead

\* The invariants so far, together.
LEMMA BootInvariants == Spec => [](TypeOK /\ IInv)
<1>1. TypeOK /\ IInv /\ [Next]_vars => IInv'
  BY QuietSteps, CacheSteps, SetPropertyStep, ReadStep
     DEF Next, Loader, Start, ReadFile, LoadFdt, HandOver
<1> QED
  BY <1>1, InitCorrect, TypeCorrect, PTL DEF Spec

\* The loader panics only for what is missing on the card, files that do not fit, or a read
\* that went wrong: for every layout of memory and every card.
THEOREM PanicIsJustified == Spec => []PanicHasCause
<1>1. Init => TableIsRead /\ PanicHasCause
  BY DEF Init, TableIsRead, PanicHasCause
<1>2. TypeOK /\ IInv /\ TableIsRead /\ PanicHasCause /\ [Next]_vars => (TableIsRead /\ PanicHasCause)'
  BY PanicStep
<1> QED
  BY <1>1, <1>2, BootInvariants, PTL DEF Spec

-----------------------------------------------------------------------------
(* Linux is given every property.                                            *)

\* A step of the hand-over, and an eviction, show every load what it saw.
LEMMA ViewStays ==
  ASSUME TypeOK, IInv,
         CheckTree \/ TeardownHardware \/ CleanCache \/ DcacheOff \/ MmuOff \/ DisableIcache
         \/ (\E p \in Pages : Evict(p)) \/ UNCHANGED vars
  PROVE  \A p \in Pages : View(p)' = View(p)
<1>1. CASE CheckTree \/ TeardownHardware \/ MmuOff \/ DisableIcache \/ UNCHANGED vars
  <2>1. ram' = ram /\ cache' = cache
    BY <1>1 DEF CheckTree, TeardownHardware, MmuOff, DisableIcache, vars, memVars
  <2>2. CacheOn' = CacheOn
    BY <1>1 DEF CheckTree, TeardownHardware, MmuOff, DisableIcache, vars, CacheOn, M, A, C, I
  <2> QED
    BY <2>1, <2>2, SameView
<1>2. CASE CleanCache
  <2>1. CacheOn /\ CacheOn' /\ cache' = cache
    BY <1>2 DEF CleanCache, IInv, CacheDiscipline, CachedPCs, CacheOn
  <2>2. \A p \in Pages : ram'[p] = IF cache[p] = NoLine THEN ram[p] ELSE cache[p]
    BY <1>2 DEF CleanCache, TypeOK
  <2> QED
    BY <2>1, <2>2 DEF View
<1>3. CASE DcacheOff
  <2>1. Coherent /\ ~CacheOn' /\ ram' = ram /\ cache' = cache
    BY <1>3 DEF DcacheOff, IInv, CacheDiscipline, CacheOn, memVars
  <2> QED
    BY <2>1 DEF View, Coherent
<1>4. CASE \E p \in Pages : Evict(p)
  <2>1. PICK p \in Pages : Evict(p)
    BY <1>4
  <2>2. /\ sctlr' = sctlr /\ cache[p] # NoLine
        /\ ram' = [ram EXCEPT ![p] = cache[p]] /\ cache' = [cache EXCEPT ![p] = NoLine]
    BY <2>1 DEF Evict
  <2>3. CacheOn' = CacheOn
    BY <2>2 DEF CacheOn
  <2>4. /\ ram'[p] = cache[p] /\ cache'[p] = NoLine
        /\ \A x \in Pages \ {p} : ram'[x] = ram[x] /\ cache'[x] = cache[x]
    BY <2>2 DEF TypeOK
  <2>5. CASE CacheOn
    BY <2>2, <2>3, <2>4, <2>5 DEF View
  <2>6. CASE ~CacheOn
    <3>1. ram[p] = cache[p]
      BY <2>2, <2>6 DEF IInv, CacheDiscipline, Coherent
    <3> QED
      BY <2>3, <2>4, <2>6, <3>1 DEF View
  <2> QED
    BY <2>5, <2>6
<1> QED
  BY <1>1, <1>2, <1>3, <1>4

\* What a property makes of the tree's first page.
Added(page, name) == [page EXCEPT !.tree = @ \cup {[name |-> name, value |-> Value(name)]}]

\* A property that is stored is seen.
LEMMA PropertySeen ==
  ASSUME TypeOK, IInv, Fits, ~hurt, pc = "prop", sctlr' = sctlr, NEW name \in Names,
         Store([p \in {DtbAt} |-> Added(View(p), name)])
  PROVE  /\ View(DtbAt)'.tree = View(DtbAt).tree \cup {[name |-> name, value |-> Value(name)]}
         /\ \A p \in Pages : View(p)' = IF p = DtbAt THEN Added(View(DtbAt), name) ELSE View(p)
<1> DEFINE F == [p \in {DtbAt} |-> Added(View(p), name)]
           e == [name |-> name, value |-> Value(name)]
<1>1. CacheOn /\ CacheOn'
  BY DEF IInv, CacheDiscipline, CachedPCs, CacheOn
<1>2. DtbAt \in Pages /\ {DtbAt} \in SUBSET Pages
  BY Layout
<1>3. View(DtbAt) \in Contents
  BY <1>2, ViewType
<1>4. Value(name) \in Nat
  BY ValueType
<1>5. Added(View(DtbAt), name) \in Contents
  BY <1>3, <1>4, TreePage DEF Added
<1>6. View(DtbAt).file = "dtb"
  <2>1. InPlace("dtb")
    BY DEF IInv, AllInPlace, Delivered, Images, Files
  <2>2. 0 \in 0 .. card.size["dtb"] - 1
    BY BootAssumption DEF TypeOK, CardSpace, Images, Files
  <2>3. LoadedAt("dtb") + 0 = DtbAt
    BY BootAssumption DEF LoadedAt
  <2> QED
    BY <2>1, <2>2, <2>3 DEF InPlace
<1>7. /\ Added(View(DtbAt), name).file = "dtb"
      /\ Added(View(DtbAt), name).tree = View(DtbAt).tree \cup {e}
  <2> HIDE DEF e
  <2>1. Added(View(DtbAt), name) = [View(DtbAt) EXCEPT !.tree = @ \cup {e}]
    BY DEF Added, e
  <2> QED
    BY <1>3, <1>6, <2>1 DEF Contents
<1>8. Added(View(DtbAt), name) # NoLine
  <2>1. Added(View(DtbAt), name).file = "dtb"
    BY <1>7
  <2>2. NoLine.file = "no line"
    BY DEF NoLine, Image
  <2> QED
    BY <2>1, <2>2
<1>9. F \in [{DtbAt} -> Contents] /\ (\A p \in {DtbAt} : F[p] # NoLine) /\ Store(F)
      /\ F[DtbAt] = Added(View(DtbAt), name)
  <2>1. \A p \in {DtbAt} : F[p] = Added(View(DtbAt), name)
    OBVIOUS
  <2>2. F = [p \in {DtbAt} |-> F[p]] /\ Store(F)
    OBVIOUS
  <2> HIDE DEF F
  <2>3. F \in [{DtbAt} -> Contents]
    BY <1>5, <2>1, <2>2
  <2> QED
    BY <1>8, <2>1, <2>2, <2>3
<1> HIDE DEF F
<1>10. \A p \in Pages : View(p)' = IF p \in {DtbAt} THEN F[p] ELSE View(p)
  BY <1>1, <1>2, <1>9, StoreSeen
<1>11. \A p \in Pages : View(p)' = IF p = DtbAt THEN Added(View(DtbAt), name) ELSE View(p)
  BY <1>9, <1>10
<1>12. View(DtbAt)' = Added(View(DtbAt), name)
  BY <1>2, <1>11
<1> QED
  BY <1>7, <1>11, <1>12

\* The tree as it is read has no properties of the loader's in it.
LEMMA TreeRead ==
  ASSUME TypeOK, IInv, Read, file = "dtb", Fits, ~hurt'
  PROVE  View(DtbAt)'.tree = {}
<1> DEFINE T == Target(Length(file))
           G(bad) == [p \in T |-> IF p \in bad THEN Junk ELSE Image(file, p - LoadedAt(file), {})]
           F == G({})
<1>1. CacheOn /\ CacheOn'
  BY DEF Read, IInv, CacheDiscipline, CachedPCs, CacheOn
<1>2. Store(F)
  <2>1. PICK bad \in SUBSET T : bad = {} /\ Store(G(bad))
    BY DEF Read
  <2> QED
    BY <2>1
<1>3. Length(file) = card.size["dtb"] /\ card.size["dtb"] \in Nat \ {0} /\ LoadedAt(file) = DtbAt
  BY BootAssumption DEF TypeOK, CardSpace, Images, Files, Length, LoadedAt
<1>4. T \in SUBSET Pages /\ DtbAt \in T /\ DtbAt \in Pages
  BY <1>3, Layout DEF Target
<1>5. ASSUME NEW p \in T PROVE F[p] \in Contents /\ F[p] # NoLine /\ F[p].tree = {}
  <2>1. p - LoadedAt(file) \in Nat
    BY <1>3, <1>5, Layout DEF Target
  <2> QED
    BY <2>1 DEF Image, NoLine, Contents, Images, Files
<1>6. F \in [T -> Contents]
  BY <1>5
<1> HIDE DEF F, T
<1>7. \A p \in Pages : View(p)' = IF p \in T THEN F[p] ELSE View(p)
  BY <1>1, <1>2, <1>4, <1>5, <1>6, StoreSeen
<1>8. View(DtbAt)' = F[DtbAt]
  BY <1>4, <1>7
<1> QED
  BY <1>4, <1>5, <1>8

\* Once the tree is complete; and from the time it is read.
TailPCs == {"teardown", "clean", "dcacheOff", "mmuOff", "icacheOff", "linux"}
TreePCs == {"check", "prop"} \cup TailPCs

\* The files that have been read, while the loader goes on.
Done ==
  CASE pc \in TreePCs -> Files
    [] pc \in {"stat", "open", "read"} /\ file = "initrd" -> {"zImage"}
    [] pc \in {"stat", "open", "read"} /\ file = "cmdline.txt" -> {"zImage", "initrd"}
    [] pc \in {"stat", "open", "read"} /\ file = "dtb" -> {"zImage", "initrd", "cmdline.txt"}
    [] OTHER -> {}

\* read_file() returned the length of each.
LengthsRight == ~hurt => \A f \in Done : len[f] = Length(f)

\* Files are read in their order, so that a length once right stays right.
LEMMA LengthsStep ==
  ASSUME TypeOK, IInv, LengthsRight, [Next]_vars
  PROVE  LengthsRight'
<1>1. CASE Read
  <2>1. PICK n \in 0 .. Length(file) :
           /\ len' = [len EXCEPT ![file] = n]
           /\ ~hurt' => ~hurt /\ n = Length(file)
    BY <1>1 DEF Read, TypeOK
  <2>2. card' = card /\ pc = "read" /\ file' = NextFile /\ pc' = AfterFile
    BY <1>1 DEF Read, world
  <2>3. \A f \in Files : Length(f)' = Length(f)
    BY <2>2 DEF Length
  <2>4. Done' \subseteq Done \cup {file} /\ Done' \subseteq Files
    BY <2>2 DEF Done, NextFile, AfterFile, TypeOK, Files, TreePCs, TailPCs
  <2>5. len' \in [Files -> Nat] => \A f \in Files : len'[f] = IF f = file THEN n ELSE len[f]
    BY <2>1 DEF TypeOK
  <2>6. len'[file] = n /\ \A f \in Files \ {file} : len'[f] = len[f]
    BY <2>1 DEF TypeOK
  <2> QED
    BY <2>1, <2>3, <2>4, <2>6 DEF LengthsRight
<1>2. CASE ~Read
  <2>1. len' = len /\ file' = file /\ card' = card /\ (hurt => hurt')
    <3>1. CASE Setup \/ TurnMmuOn \/ InitSd \/ ReadMbr \/ Mount
      BY <3>1 DEF Setup, TurnMmuOn, InitSd, ReadMbr, Mount, readVars, world
    <3>2. CASE Stat \/ Open \/ CheckTree \/ SetProperty
      BY <3>2 DEF Stat, Open, CheckTree, SetProperty, readVars, world
    <3>3. CASE TeardownHardware \/ CleanCache \/ DcacheOff \/ MmuOff \/ DisableIcache
      BY <3>3 DEF TeardownHardware, CleanCache, DcacheOff, MmuOff, DisableIcache, readVars, world
    <3>4. CASE (\E p \in Pages : Evict(p)) \/ UNCHANGED vars
      BY <3>4 DEF Evict, vars, readVars, world
    <3> QED
      BY <1>2, <3>1, <3>2, <3>3, <3>4 DEF Next, Loader, Start, ReadFile, LoadFdt, HandOver
  <2>2. Done' \subseteq Done
    <3>1. CASE Setup \/ TurnMmuOn \/ InitSd \/ ReadMbr
      BY <3>1, <2>1 DEF Setup, TurnMmuOn, InitSd, ReadMbr, Done, TreePCs, TailPCs
    <3>2. CASE Mount
      BY <3>2, <2>1 DEF Mount, Done, TreePCs, TailPCs, IInv, KernelFirst
    <3>3. CASE Stat \/ Open
      BY <3>3, <2>1 DEF Stat, Open, Done, TreePCs, TailPCs
    <3>4. CASE CheckTree \/ SetProperty
      BY <3>4 DEF CheckTree, SetProperty, Done, TreePCs, TailPCs
    <3>5. CASE TeardownHardware \/ CleanCache \/ DcacheOff \/ MmuOff \/ DisableIcache
      BY <3>5 DEF TeardownHardware, CleanCache, DcacheOff, MmuOff, DisableIcache, Done, TreePCs, TailPCs
    <3>6. CASE (\E p \in Pages : Evict(p)) \/ UNCHANGED vars
      BY <3>6, <2>1 DEF Evict, vars, Done
    <3> QED
      BY <1>2, <3>1, <3>2, <3>3, <3>4, <3>5, <3>6 DEF Next, Loader, Start, ReadFile, LoadFdt, HandOver
  <2>3. \A f : Length(f)' = Length(f)
    BY <2>1 DEF Length
  <2> QED
    BY <2>1, <2>2, <2>3 DEF LengthsRight
<1> QED
  BY <1>1, <1>2

\* The names in their order.
NameOf(k) == Properties[k].name

\* What the name and the value of the k-th property take of the room.
NameTakes(k)  == IF NameOf(k) \in Wanted THEN TakesName(NameOf(k)) ELSE 0
ValueTakes(k) == IF NameOf(k) \notin Wanted THEN 0
                 ELSE IF k = 4 THEN card.args ELSE Cost[NameOf(k)]

\* The room left of r; and before each property, which is what fdt_setprop() finds.
Less(r, n, v) == IF n + v <= r THEN r - (n + v) ELSE IF n <= r THEN r - n ELSE r

Room2 == Less(Room,  NameTakes(1), ValueTakes(1))
Room3 == Less(Room2, NameTakes(2), ValueTakes(2))
Room4 == Less(Room3, NameTakes(3), ValueTakes(3))
Room5 == Less(Room4, NameTakes(4), ValueTakes(4))
Room6 == Less(Room5, NameTakes(5), ValueTakes(5))
Room7 == Less(Room6, NameTakes(6), ValueTakes(6))
Room8 == Less(Room7, NameTakes(7), ValueTakes(7))
Room9 == Less(Room8, NameTakes(8), ValueTakes(8))

RoomAt == [k \in 1 .. 9 |-> CASE k = 1 -> Room  [] k = 2 -> Room2 [] k = 3 -> Room3
                              [] k = 4 -> Room4 [] k = 5 -> Room5 [] k = 6 -> Room6
                              [] k = 7 -> Room7 [] k = 8 -> Room8 [] k = 9 -> Room9]

\* The k-th property finds room; the names among the first k - 1 that are set.
Enough(k) == NameTakes(k) + ValueTakes(k) <= RoomAt[k]
SetTo     == [k \in 1 .. 9 |->
                {NameOf(j) : j \in {i \in 1 .. k - 1 : NameOf(i) \in Wanted /\ Enough(i)}}]

\* The list of properties, one by one.
LEMMA NameList ==
  /\ NameOf(1) = "serial-number" /\ NameOf(2) = "local-mac-address"
  /\ NameOf(3) = "linux,revision" /\ NameOf(4) = "bootargs"
  /\ NameOf(5) = "linux,initrd-start" /\ NameOf(6) = "linux,initrd-end"
  /\ NameOf(7) = "reg" /\ NameOf(8) = "ranges"
  BY DEF NameOf, Properties

\* Every name has one place in the list.
LEMMA NamePlaces ==
  /\ Names = {NameOf(k) : k \in 1 .. 8}
  /\ \A j, k \in 1 .. 8 : NameOf(j) = NameOf(k) => j = k
  /\ \A k \in 1 .. 8 : NameOf(k) = "bootargs" <=> k = 4
<1>1. Names = {NameOf(k) : k \in 1 .. 8}
  BY PropertyList DEF Names, NameOf
<1>2. \A k \in 1 .. 8 : k = 1 \/ k = 2 \/ k = 3 \/ k = 4 \/ k = 5 \/ k = 6 \/ k = 7 \/ k = 8
  OBVIOUS
<1>3. \A k \in 1 .. 8 : NameOf(k) = "bootargs" <=> k = 4
  BY <1>2, NameList
<1>4. \A j, k \in 1 .. 8 : NameOf(j) = NameOf(k) => j = k
  BY <1>2, NameList
<1> QED
  BY <1>1, <1>3, <1>4

\* The command line is wanted on every card.
LEMMA LineWanted == Wanted \subseteq Names /\ NameOf(4) \in Wanted
<1>1. NameOf(4) = "bootargs"
  BY NameList
<1>2. "bootargs" \in Names
  <2>1. 4 \in 1 .. 8
    OBVIOUS
  <2>2. NameOf(4) \in Names
    BY <2>1, NamePlaces
  <2> QED
    BY <1>1, <2>2
<1>3. "bootargs" \notin InitrdNames
  BY DEF InitrdNames
<1> QED
  BY <1>1, <1>2, <1>3 DEF Wanted

\* What a property takes is a number.
LEMMA Amounts ==
  ASSUME TypeOK
  PROVE  /\ \A k \in 1 .. 8 : NameTakes(k) \in Nat /\ ValueTakes(k) \in Nat
         /\ card.args \in Nat /\ Room \in Nat
<1>1. card.args \in Nat /\ Room \in Nat
  BY BootAssumption DEF TypeOK, CardSpace
<1>2. ASSUME NEW k \in 1 .. 8 PROVE NameTakes(k) \in Nat /\ ValueTakes(k) \in Nat
  <2>1. NameOf(k) \in Names /\ (k # 4 => NameOf(k) \in Names \ {"bootargs"})
    BY NamePlaces
  <2>2. NameCost[NameOf(k)] \in Nat /\ (k # 4 => Cost[NameOf(k)] \in Nat)
    BY <2>1, BootAssumption
  <2> QED
    BY <1>1, <2>2 DEF NameTakes, ValueTakes, TakesName
<1> QED
  BY <1>1, <1>2

\* The room before each property is a number, and follows from the one before.
LEMMA RoomSteps ==
  ASSUME TypeOK
  PROVE  /\ RoomAt[1] = Room
         /\ \A k \in 1 .. 8 : /\ RoomAt[k] \in Nat
                              /\ RoomAt[k + 1] = Less(RoomAt[k], NameTakes(k), ValueTakes(k))
<1>1. ASSUME NEW r \in Nat, NEW n \in Nat, NEW v \in Nat PROVE Less(r, n, v) \in Nat
  BY DEF Less
<1>2. /\ RoomAt[1] = Room  /\ RoomAt[2] = Room2 /\ RoomAt[3] = Room3
      /\ RoomAt[4] = Room4 /\ RoomAt[5] = Room5 /\ RoomAt[6] = Room6
      /\ RoomAt[7] = Room7 /\ RoomAt[8] = Room8 /\ RoomAt[9] = Room9
  BY DEF RoomAt
<1>3. ASSUME NEW k \in 1 .. 8
      PROVE  RoomAt[k + 1] = Less(RoomAt[k], NameTakes(k), ValueTakes(k))
  <2>1. k = 1 \/ k = 2 \/ k = 3 \/ k = 4 \/ k = 5 \/ k = 6 \/ k = 7 \/ k = 8
    OBVIOUS
  <2>2. /\ 1 + 1 = 2 /\ 2 + 1 = 3 /\ 3 + 1 = 4 /\ 4 + 1 = 5
        /\ 5 + 1 = 6 /\ 6 + 1 = 7 /\ 7 + 1 = 8 /\ 8 + 1 = 9
    OBVIOUS
  <2>3. RoomAt[1 + 1] = Less(RoomAt[1], NameTakes(1), ValueTakes(1))
    BY <1>2, <2>2, Zenon DEF Room2
  <2>4. RoomAt[2 + 1] = Less(RoomAt[2], NameTakes(2), ValueTakes(2))
    BY <1>2, <2>2, Zenon DEF Room3
  <2>5. RoomAt[3 + 1] = Less(RoomAt[3], NameTakes(3), ValueTakes(3))
    BY <1>2, <2>2, Zenon DEF Room4
  <2>6. RoomAt[4 + 1] = Less(RoomAt[4], NameTakes(4), ValueTakes(4))
    BY <1>2, <2>2, Zenon DEF Room5
  <2>7. RoomAt[5 + 1] = Less(RoomAt[5], NameTakes(5), ValueTakes(5))
    BY <1>2, <2>2, Zenon DEF Room6
  <2>8. RoomAt[6 + 1] = Less(RoomAt[6], NameTakes(6), ValueTakes(6))
    BY <1>2, <2>2, Zenon DEF Room7
  <2>9. RoomAt[7 + 1] = Less(RoomAt[7], NameTakes(7), ValueTakes(7))
    BY <1>2, <2>2, Zenon DEF Room8
  <2>10. RoomAt[8 + 1] = Less(RoomAt[8], NameTakes(8), ValueTakes(8))
    BY <1>2, <2>2, Zenon DEF Room9
  <2> QED
    BY <2>1, <2>3, <2>4, <2>5, <2>6, <2>7, <2>8, <2>9, <2>10, Zenon
<1>4. \A k \in 1 .. 8 : RoomAt[k] \in Nat
  <2>1. /\ NameTakes(1) \in Nat /\ NameTakes(2) \in Nat /\ NameTakes(3) \in Nat /\ NameTakes(4) \in Nat
        /\ NameTakes(5) \in Nat /\ NameTakes(6) \in Nat /\ NameTakes(7) \in Nat
        /\ ValueTakes(1) \in Nat /\ ValueTakes(2) \in Nat /\ ValueTakes(3) \in Nat /\ ValueTakes(4) \in Nat
        /\ ValueTakes(5) \in Nat /\ ValueTakes(6) \in Nat /\ ValueTakes(7) \in Nat /\ Room \in Nat
    BY Amounts
  <2>2. Room2 \in Nat
    BY <1>1, <2>1, Zenon DEF Room2
  <2>3. Room3 \in Nat
    BY <1>1, <2>1, <2>2, Zenon DEF Room3
  <2>4. Room4 \in Nat
    BY <1>1, <2>1, <2>3, Zenon DEF Room4
  <2>5. Room5 \in Nat
    BY <1>1, <2>1, <2>4, Zenon DEF Room5
  <2>6. Room6 \in Nat
    BY <1>1, <2>1, <2>5, Zenon DEF Room6
  <2>7. Room7 \in Nat
    BY <1>1, <2>1, <2>6, Zenon DEF Room7
  <2>8. Room8 \in Nat
    BY <1>1, <2>1, <2>7, Zenon DEF Room8
  <2>9. \A k \in 1 .. 8 : k = 1 \/ k = 2 \/ k = 3 \/ k = 4 \/ k = 5 \/ k = 6 \/ k = 7 \/ k = 8
    OBVIOUS
  <2> QED
    BY <1>2, <2>2, <2>3, <2>4, <2>5, <2>6, <2>7, <2>8, <2>9, Amounts
<1> QED
  BY <1>2, <1>3, <1>4

\* The names set so far.
LEMMA NamesGrow ==
  /\ SetTo[1] = {}
  /\ \A k \in 1 .. 8 :
       SetTo[k + 1] = SetTo[k] \cup (IF NameOf(k) \in Wanted /\ Enough(k) THEN {NameOf(k)} ELSE {})
<1>1. SetTo[1] = {}
  BY DEF SetTo
<1>2. ASSUME NEW k \in 1 .. 8
      PROVE  SetTo[k + 1] = SetTo[k] \cup (IF NameOf(k) \in Wanted /\ Enough(k) THEN {NameOf(k)} ELSE {})
  <2>1. 1 .. (k + 1) - 1 = (1 .. k - 1) \cup {k}
    OBVIOUS
  <2> QED
    BY <2>1 DEF SetTo
<1> QED
  BY <1>1, <1>2

\* Linux has every property, or all but the command line, just when they found room.
LEMMA AllSet ==
  ASSUME TypeOK
  PROVE  /\ SetTo[9] = Wanted <=> \A k \in 1 .. 8 : Enough(k)
         /\ SetTo[9] = Wanted \ {"bootargs"} <=> \A k \in 1 .. 8 : Enough(k) <=> k # 4
<1>1. Wanted \subseteq Names /\ NameOf(4) \in Wanted
  BY LineWanted
<1>2. ASSUME NEW k \in 1 .. 8 PROVE NameOf(k) \in SetTo[9] <=> NameOf(k) \in Wanted /\ Enough(k)
  <2>1. 9 - 1 = 8
    OBVIOUS
  <2>2. NameOf(k) \in SetTo[9] <=>
          \E i \in 1 .. 8 : NameOf(i) \in Wanted /\ Enough(i) /\ NameOf(k) = NameOf(i)
    <3>1. SetTo[9] = {NameOf(j) : j \in {i \in 1 .. 8 : NameOf(i) \in Wanted /\ Enough(i)}}
      BY <2>1, 9 \in 1 .. 9 DEF SetTo
    <3> QED
      BY <3>1
  <2> QED
    BY <2>2, NamePlaces, Zenon
<1>3. SetTo[9] \subseteq Wanted
  BY 9 \in 1 .. 9 DEF SetTo
<1>4. ASSUME NEW k \in 1 .. 8, NameOf(k) \notin Wanted PROVE Enough(k)
  BY <1>4, RoomSteps DEF Enough, NameTakes, ValueTakes
<1>5. SetTo[9] = Wanted <=> \A k \in 1 .. 8 : Enough(k)
  <2>1. \A x \in Wanted : \E k \in 1 .. 8 : x = NameOf(k)
    BY <1>1, NamePlaces
  <2>2. ASSUME SetTo[9] = Wanted, NEW k \in 1 .. 8 PROVE Enough(k)
    BY <1>2, <1>4, <2>2
  <2>3. ASSUME \A k \in 1 .. 8 : Enough(k) PROVE SetTo[9] = Wanted
    BY <1>2, <1>3, <2>1, <2>3
  <2> QED
    BY <2>2, <2>3
<1>6. SetTo[9] = Wanted \ {"bootargs"} <=> \A k \in 1 .. 8 : Enough(k) <=> k # 4
  <2>1. \A x \in Wanted : \E k \in 1 .. 8 : x = NameOf(k)
    BY <1>1, NamePlaces
  <2>2. \A k \in 1 .. 8 : NameOf(k) # "bootargs" <=> k # 4
    BY NamePlaces
  <2>3. ASSUME SetTo[9] = Wanted \ {"bootargs"}, NEW k \in 1 .. 8 PROVE Enough(k) <=> k # 4
    <3>1. NameOf(k) \in SetTo[9] <=> NameOf(k) \in Wanted /\ k # 4
      BY <2>2, <2>3
    <3> QED
      BY <1>1, <1>2, <1>4, <3>1
  <2>4. ASSUME \A k \in 1 .. 8 : Enough(k) <=> k # 4 PROVE SetTo[9] = Wanted \ {"bootargs"}
    <3>1. ASSUME NEW x \in Wanted PROVE x \in SetTo[9] <=> x # "bootargs"
      <4>1. PICK k \in 1 .. 8 : x = NameOf(k)
        BY <2>1, <3>1
      <4> QED
        BY <1>2, <2>2, <2>4, <3>1, <4>1
    <3> QED
      BY <1>3, <3>1
  <2> QED
    BY <2>3, <2>4
<1> QED
  BY <1>5, <1>6

\* The amounts of TreeComplete are those of the list.
LEMMA AmountsAdd ==
  ASSUME TypeOK
  PROVE  /\ First = NameTakes(1) + ValueTakes(1) + NameTakes(2) + ValueTakes(2)
                    + NameTakes(3) + ValueTakes(3)
         /\ Needed = First + (NameTakes(5) + ValueTakes(5) + NameTakes(6) + ValueTakes(6)
                     + NameTakes(7) + ValueTakes(7) + NameTakes(8) + ValueTakes(8))
         /\ TakesName("bootargs") = NameTakes(4) /\ card.args = ValueTakes(4)
<1>1. NameOf(4) \in Wanted
  BY LineWanted
<1>2. ASSUME NEW k \in 1 .. 8, k # 4 PROVE Price(NameOf(k)) = NameTakes(k) + ValueTakes(k)
  BY <1>2 DEF Price, NameTakes, ValueTakes
<1>3. /\ Price("serial-number") = NameTakes(1) + ValueTakes(1)
      /\ Price("local-mac-address") = NameTakes(2) + ValueTakes(2)
      /\ Price("linux,revision") = NameTakes(3) + ValueTakes(3)
      /\ Price("linux,initrd-start") = NameTakes(5) + ValueTakes(5)
      /\ Price("linux,initrd-end") = NameTakes(6) + ValueTakes(6)
      /\ Price("reg") = NameTakes(7) + ValueTakes(7)
      /\ Price("ranges") = NameTakes(8) + ValueTakes(8)
  <2>1. /\ Price(NameOf(1)) = NameTakes(1) + ValueTakes(1) /\ Price(NameOf(2)) = NameTakes(2) + ValueTakes(2)
        /\ Price(NameOf(3)) = NameTakes(3) + ValueTakes(3) /\ Price(NameOf(5)) = NameTakes(5) + ValueTakes(5)
        /\ Price(NameOf(6)) = NameTakes(6) + ValueTakes(6) /\ Price(NameOf(7)) = NameTakes(7) + ValueTakes(7)
        /\ Price(NameOf(8)) = NameTakes(8) + ValueTakes(8)
    BY <1>2
  <2> QED
    BY <2>1, NameList, Zenon
<1>4. /\ NameTakes(1) \in Nat /\ NameTakes(2) \in Nat /\ NameTakes(3) \in Nat
      /\ NameTakes(5) \in Nat /\ NameTakes(6) \in Nat /\ NameTakes(7) \in Nat /\ NameTakes(8) \in Nat
      /\ ValueTakes(1) \in Nat /\ ValueTakes(2) \in Nat /\ ValueTakes(3) \in Nat
      /\ ValueTakes(5) \in Nat /\ ValueTakes(6) \in Nat /\ ValueTakes(7) \in Nat /\ ValueTakes(8) \in Nat
  BY Amounts
<1>5. TakesName("bootargs") = NameTakes(4) /\ card.args = ValueTakes(4)
  BY <1>1, NameList DEF NameTakes, ValueTakes
<1> QED
  <2>1. First = NameTakes(1) + ValueTakes(1) + NameTakes(2) + ValueTakes(2)
                  + NameTakes(3) + ValueTakes(3)
    <3>1. ASSUME NEW n1 \in Nat, NEW v1 \in Nat, NEW n2 \in Nat, NEW v2 \in Nat,
                 NEW n3 \in Nat, NEW v3 \in Nat
          PROVE  (n1 + v1) + (n2 + v2) + (n3 + v3) = n1 + v1 + n2 + v2 + n3 + v3
      OBVIOUS
    <3>2. First = (NameTakes(1) + ValueTakes(1)) + (NameTakes(2) + ValueTakes(2))
                    + (NameTakes(3) + ValueTakes(3))
      BY <1>3, Zenon DEF First
    <3> QED
      BY <1>4, <3>1, <3>2
  <2>2. First \in Nat
    BY <1>4, <2>1
  <2>3. Needed = First + (NameTakes(5) + ValueTakes(5)) + (NameTakes(6) + ValueTakes(6))
                   + (NameTakes(7) + ValueTakes(7)) + (NameTakes(8) + ValueTakes(8))
    BY <1>3 DEF Needed
  <2> QED
    BY <1>4, <1>5, <2>1, <2>2, <2>3

\* The properties of the list are served in turn.
ServedHere ==
  /\ (\A k \in 1 .. 8 : Enough(k)) <=> Needed + TakesName("bootargs") + card.args <= Room
  /\ ~LineFits => ((\A k \in 1 .. 8 : Enough(k) <=> k # 4) <=> Needed + LeftBehind <= Room)

\* What TreeComplete counts is what fdt_setprop() finds.
LEMMA ServedList ==
  ASSUME TypeOK
  PROVE  ServedHere
<1> DEFINE n(k) == NameTakes(k)
           v(k) == ValueTakes(k)
           r(k) == RoomAt[k]
           E(k) == n(k) + v(k) <= r(k)
           first == n(1) + v(1) + n(2) + v(2) + n(3) + v(3)
           last  == n(5) + v(5) + n(6) + v(6) + n(7) + v(7) + n(8) + v(8)
<1>1. /\ n(1) \in Nat /\ n(2) \in Nat /\ n(3) \in Nat /\ n(4) \in Nat
      /\ n(5) \in Nat /\ n(6) \in Nat /\ n(7) \in Nat /\ n(8) \in Nat
      /\ v(1) \in Nat /\ v(2) \in Nat /\ v(3) \in Nat /\ v(4) \in Nat
      /\ v(5) \in Nat /\ v(6) \in Nat /\ v(7) \in Nat /\ v(8) \in Nat
  BY Amounts
<1>2. /\ r(1) \in Nat /\ r(2) \in Nat /\ r(3) \in Nat /\ r(4) \in Nat
      /\ r(5) \in Nat /\ r(6) \in Nat /\ r(7) \in Nat /\ r(8) \in Nat /\ r(1) = Room
  BY RoomSteps
<1>3. /\ r(2) = Less(r(1), n(1), v(1)) /\ r(3) = Less(r(2), n(2), v(2))
      /\ r(4) = Less(r(3), n(3), v(3)) /\ r(5) = Less(r(4), n(4), v(4))
      /\ r(6) = Less(r(5), n(5), v(5)) /\ r(7) = Less(r(6), n(6), v(6))
      /\ r(8) = Less(r(7), n(7), v(7))
  <2>1. /\ 1 + 1 = 2 /\ 2 + 1 = 3 /\ 3 + 1 = 4 /\ 4 + 1 = 5 /\ 5 + 1 = 6 /\ 6 + 1 = 7 /\ 7 + 1 = 8
        /\ \A k \in {1, 2, 3, 4, 5, 6, 7} : k \in 1 .. 8
    OBVIOUS
  <2>2. \A k \in {1, 2, 3, 4, 5, 6, 7} : r(k + 1) = Less(r(k), n(k), v(k))
    BY <2>1, RoomSteps
  <2> HIDE DEF r, n, v
  <2> QED
    BY <2>1, <2>2
<1>4. /\ First = first /\ Needed = First + last
      /\ TakesName("bootargs") = n(4) /\ card.args = v(4)
  BY AmountsAdd
<1>5. /\ (\A k \in 1 .. 8 : Enough(k)) <=>
           E(1) /\ E(2) /\ E(3) /\ E(4) /\ E(5) /\ E(6) /\ E(7) /\ E(8)
      /\ (\A k \in 1 .. 8 : Enough(k) <=> k # 4) <=>
           E(1) /\ E(2) /\ E(3) /\ ~E(4) /\ E(5) /\ E(6) /\ E(7) /\ E(8)
  <2>1. \A k \in 1 .. 8 : k = 1 \/ k = 2 \/ k = 3 \/ k = 4 \/ k = 5 \/ k = 6 \/ k = 7 \/ k = 8
    OBVIOUS
  <2>2. \A k \in 1 .. 8 : Enough(k) <=> E(k)
    BY DEF Enough
  <2>3. 1 \in 1 .. 8 /\ 2 \in 1 .. 8 /\ 3 \in 1 .. 8 /\ 4 \in 1 .. 8
        /\ 5 \in 1 .. 8 /\ 6 \in 1 .. 8 /\ 7 \in 1 .. 8 /\ 8 \in 1 .. 8
    OBVIOUS
  <2> HIDE DEF E
  <2>4. (\A k \in 1 .. 8 : Enough(k)) <=>
           E(1) /\ E(2) /\ E(3) /\ E(4) /\ E(5) /\ E(6) /\ E(7) /\ E(8)
    BY <2>1, <2>2, <2>3
  <2>5. (\A k \in 1 .. 8 : Enough(k) <=> k # 4) <=>
           E(1) /\ E(2) /\ E(3) /\ ~E(4) /\ E(5) /\ E(6) /\ E(7) /\ E(8)
    BY <2>1, <2>2, <2>3
  <2> QED
    BY <2>4, <2>5
<1> HIDE DEF n, v, r
<1>6. /\ (E(1) /\ E(2) /\ E(3) /\ E(4) /\ E(5) /\ E(6) /\ E(7) /\ E(8))
           <=> first + last + n(4) + v(4) <= r(1)
      /\ first + n(4) + v(4) > r(1) =>
           ((E(1) /\ E(2) /\ E(3) /\ ~E(4) /\ E(5) /\ E(6) /\ E(7) /\ E(8))
              <=> first + last + (IF first + n(4) <= r(1) THEN n(4) ELSE 0) <= r(1))
  BY <1>1, <1>2, <1>3 DEF Less
<1> DEFINE all    == \A k \in 1 .. 8 : Enough(k)
           others == \A k \in 1 .. 8 : Enough(k) <=> k # 4
<1>7. first \in Nat /\ last \in Nat
  BY <1>1
<1>8. all <=> Needed + TakesName("bootargs") + card.args <= Room
  <2> HIDE DEF all, E
  <2>1. all <=> first + last + n(4) + v(4) <= r(1)
    BY <1>5, <1>6 DEF all
  <2> HIDE DEF first, last
  <2> QED
    BY <1>1, <1>2, <1>4, <1>7, <2>1
<1>9. ~LineFits => (others <=> Needed + LeftBehind <= Room)
  <2> HIDE DEF others, E
  <2>1. first + n(4) + v(4) > r(1) =>
           (others <=> first + last + (IF first + n(4) <= r(1) THEN n(4) ELSE 0) <= r(1))
    BY <1>5, <1>6 DEF others
  <2> HIDE DEF first, last
  <2> QED
    BY <1>1, <1>2, <1>4, <1>7, <2>1 DEF LineFits, LeftBehind
<1> QED
  BY <1>8, <1>9 DEF ServedHere

\* The next property; behind the last one once all are set.
Upto == IF pc = "prop" THEN prop ELSE 9

\* load_fdt() starts with the first property.
FirstProperty == pc \notin {"prop", "panic"} \cup TailPCs => prop = 1

\* The properties before the one load_fdt() is at are in the tree as far as they
\* found room, and took it.
TreeSoFar ==
  Fits /\ ~hurt => /\ pc = "check" => Given = {}
                   /\ pc = "prop" => room = RoomAt[prop]
                   /\ pc \in {"prop"} \cup TailPCs => Given = SetTo[Upto]

\* What the properties take does not change.
LEMMA SameAmounts ==
  ASSUME card' = card
  PROVE  RoomAt' = RoomAt /\ SetTo' = SetTo /\ Fits' = Fits
<1>1. Wanted' = Wanted /\ \A name : TakesName(name)' = TakesName(name)
  BY DEF Wanted, TakesName
<1>2. \A k : NameTakes(k)' = NameTakes(k) /\ ValueTakes(k)' = ValueTakes(k)
  BY <1>1 DEF NameTakes, ValueTakes, NameOf
<1>3. Room2' = Room2
  BY <1>2 DEF Room2, Less
<1>4. Room3' = Room3
  BY <1>2, <1>3 DEF Room3, Less
<1>5. Room4' = Room4
  BY <1>2, <1>4 DEF Room4, Less
<1>6. Room5' = Room5
  BY <1>2, <1>5 DEF Room5, Less
<1>7. Room6' = Room6
  BY <1>2, <1>6 DEF Room6, Less
<1>8. Room7' = Room7
  BY <1>2, <1>7 DEF Room7, Less
<1>9. Room8' = Room8
  BY <1>2, <1>8 DEF Room8, Less
<1>10. Room9' = Room9
  BY <1>2, <1>9 DEF Room9, Less
<1>11. RoomAt' = RoomAt
  BY <1>3, <1>4, <1>5, <1>6, <1>7, <1>8, <1>9, <1>10 DEF RoomAt
<1>12. \A k : Enough(k)' = Enough(k)
  BY <1>2, <1>11 DEF Enough
<1>13. SetTo' = SetTo
  BY <1>1, <1>12 DEF SetTo, NameOf
<1> QED
  BY <1>11, <1>13 DEF Fits

\* A step that changes neither the card nor what can be seen of the tree.
LEMMA SameGiven ==
  ASSUME View(DtbAt)' = View(DtbAt)
  PROVE  Given' = Given
  BY DEF Given

\* A property is set and paid for, or finds no room and leaves its name behind.
LEMMA NextProperty ==
  ASSUME TypeOK, IInv, LengthsRight, TreeSoFar, Fits, ~hurt, SetProperty, pc' # "panic"
  PROVE  Given' = SetTo[prop + 1] /\ room' = RoomAt[prop + 1]
<1> DEFINE name == NameOf(prop)
           n == NameTakes(prop)
           v == ValueTakes(prop)
<1>1. pc = "prop" /\ prop \in 1 .. 8 /\ name \in Names /\ sctlr' = sctlr
  BY PropertyList DEF SetProperty, TypeOK, NameOf
<1>2. \A f \in Files : len[f] = Length(f)
  BY <1>1 DEF LengthsRight, Done, TreePCs
<1>3. len["initrd"] = card.size["initrd"] /\ len["cmdline.txt"] = card.args
  BY <1>2 DEF Files, Length
<1>4. Skipped(name) <=> name \notin Wanted
  BY <1>1, <1>3 DEF Skipped, Wanted
<1>5. /\ room' = IF Skipped(name) THEN room ELSE RoomAfter(name)
      /\ IF Skipped(name) \/ ~HasRoom(name) THEN UNCHANGED memVars
         ELSE Store([p \in {DtbAt} |-> Added(View(p), name)])
  BY <1>1 DEF SetProperty, Added, NameOf
<1>6. /\ room = RoomAt[prop] /\ Given = SetTo[prop] /\ room \in Nat /\ n \in Nat /\ v \in Nat
      /\ RoomAt[prop + 1] = Less(room, n, v)
  BY <1>1, RoomSteps, Amounts DEF TreeSoFar, Upto
<1>7. SetTo[prop + 1] = SetTo[prop] \cup (IF name \in Wanted /\ n + v <= room THEN {name} ELSE {})
  BY <1>1, <1>6, NamesGrow DEF Enough
<1>8. name \in Wanted => TakesName(name) = n /\ Takes(name) = v
  BY <1>1, <1>3, NamePlaces DEF Takes, NameTakes, ValueTakes
<1>9. name \notin Wanted => n = 0 /\ v = 0
  BY DEF NameTakes, ValueTakes
<1> HIDE DEF name, n, v
<1>10. room' = Less(room, n, v)
  BY <1>4, <1>5, <1>6, <1>8, <1>9 DEF Less, RoomAfter, HasRoom, HasRoomForName
<1>11. CASE name \in Wanted /\ n + v <= room
  <2>1. Store([p \in {DtbAt} |-> Added(View(p), name)])
    BY <1>4, <1>5, <1>8, <1>11 DEF HasRoom
  <2>2. View(DtbAt)'.tree = View(DtbAt).tree \cup {[name |-> name, value |-> Value(name)]}
    BY <1>1, <2>1, PropertySeen
  <2>3. Given' = Given \cup {name}
    <3>1. Given' = {e.name : e \in View(DtbAt)'.tree}
      BY DEF Given
    <3>2. [name |-> name, value |-> Value(name)].name = name
      OBVIOUS
    <3> DEFINE s == [name |-> name, value |-> Value(name)]
    <3> HIDE DEF s
    <3>3. {e.name : e \in View(DtbAt).tree \cup {s}} = {e.name : e \in View(DtbAt).tree} \cup {s.name}
      OBVIOUS
    <3> QED
      BY <2>2, <3>1, <3>2, <3>3 DEF Given, s
  <2> QED
    BY <1>6, <1>7, <1>10, <1>11, <2>3
<1>12. CASE ~(name \in Wanted /\ n + v <= room)
  <2>1. ram' = ram /\ cache' = cache
    BY <1>4, <1>5, <1>8, <1>12 DEF HasRoom, memVars
  <2>2. View(DtbAt)' = View(DtbAt)
    BY <1>1, <2>1 DEF View, CacheOn
  <2>3. Given' = Given
    BY <2>2, SameGiven
  <2> QED
    BY <1>6, <1>7, <1>10, <1>12, <2>3
<1> QED
  BY <1>11, <1>12

\* Every step keeps the tree as far as it is written.
LEMMA TreeStep ==
  ASSUME TypeOK, TypeOK', IInv, LengthsRight, FirstProperty, TreeSoFar, [Next]_vars
  PROVE  FirstProperty' /\ TreeSoFar'
<1>1. /\ card' = card /\ (hurt => hurt') /\ Fits' = Fits
      /\ RoomAt' = RoomAt /\ SetTo' = SetTo
  <2>1. card' = card /\ (hurt => hurt')
    <3>1. CASE Start
      BY <3>1 DEF Start, Setup, TurnMmuOn, InitSd, ReadMbr, Mount, world
    <3>2. CASE ReadFile
      <4>1. CASE Stat \/ Open
        BY <4>1 DEF Stat, Open, world
      <4>2. CASE Read
        BY <4>2 DEF Read, world
      <4> QED
        BY <3>2, <4>1, <4>2 DEF ReadFile
    <3>3. CASE LoadFdt
      BY <3>3 DEF LoadFdt, CheckTree, SetProperty, world
    <3>4. CASE HandOver
      BY <3>4 DEF HandOver, TeardownHardware, CleanCache, DcacheOff, MmuOff, DisableIcache, world
    <3>5. CASE (\E p \in Pages : Evict(p)) \/ UNCHANGED vars
      BY <3>5 DEF Evict, vars, world
    <3> QED
      BY <3>1, <3>2, <3>3, <3>4, <3>5 DEF Next, Loader
  <2> QED
    BY <2>1, SameAmounts
<1>2. CASE Start \/ Stat \/ Open \/ (Read /\ file # "dtb")
  <2>1. pc' \notin {"check", "prop"} \cup TailPCs
    BY <1>2 DEF Start, Setup, TurnMmuOn, InitSd, ReadMbr, Mount, Stat, Open, Read, AfterFile, TailPCs
  <2>2. prop' = prop /\ pc \notin {"prop", "panic"} \cup TailPCs
    BY <1>2 DEF Start, Setup, TurnMmuOn, InitSd, ReadMbr, Mount, Stat, Open, Read, TailPCs, treeVars
  <2> QED
    BY <2>1, <2>2 DEF FirstProperty, TreeSoFar
<1>3. CASE Read /\ file = "dtb"
  <2>1. pc = "read" /\ pc' = "check" /\ prop' = prop
    BY <1>3 DEF Read, AfterFile, treeVars
  <2>2. prop = 1
    BY <2>1 DEF FirstProperty, TailPCs
  <2>3. ASSUME Fits', ~hurt' PROVE Given' = {}
    <3>1. View(DtbAt)'.tree = {}
      BY <1>1, <1>3, <2>3, TreeRead
    <3> QED
      BY <3>1 DEF Given
  <2> QED
    BY <2>1, <2>2, <2>3 DEF FirstProperty, TreeSoFar, TailPCs
<1>4. CASE CheckTree
  <2>1. pc = "check" /\ pc' \in {"prop", "panic"} /\ prop' = prop /\ hurt' = hurt
    BY <1>4 DEF CheckTree
  <2>2. prop = 1
    BY <2>1 DEF FirstProperty, TailPCs
  <2>3. ASSUME Fits', ~hurt', pc' = "prop" PROVE Given' = {} /\ room' = Room
    <3>1. Given = {}
      BY <1>1, <2>1, <2>3 DEF TreeSoFar
    <3>2. View(DtbAt)' = View(DtbAt)
      BY <1>4, ViewStays, Layout
    <3>3. len["dtb"] = card.size["dtb"]
      <4>1. ~hurt /\ Done = Files
        BY <1>1, <2>1, <2>3 DEF Done, TreePCs
      <4> QED
        BY <4>1 DEF LengthsRight, Files, Length
    <3>4. room' = Room
      BY <1>4, <2>3, <3>3 DEF CheckTree
    <3> QED
      BY <3>1, <3>2, <3>4, SameGiven
  <2>4. ASSUME Fits', ~hurt', pc' = "prop"
        PROVE  room' = RoomAt'[prop'] /\ Given' = SetTo'[Upto']
    <3>1. prop' = 1 /\ Upto' = 1
      BY <2>1, <2>2, <2>4 DEF Upto
    <3>2. RoomAt'[1] = Room /\ SetTo'[1] = {}
      BY <1>1, RoomSteps, NamesGrow
    <3> QED
      BY <2>3, <2>4, <3>1, <3>2
  <2> QED
    BY <2>1, <2>2, <2>4 DEF FirstProperty, TreeSoFar, TailPCs
<1>5. CASE SetProperty
  <2>1. CASE pc' = "panic"
    BY <2>1 DEF FirstProperty, TreeSoFar, TailPCs
  <2>2. CASE pc' # "panic"
    <3>1. pc = "prop" /\ prop \in 1 .. 8 /\ hurt' = hurt
      BY <1>5, PropertyList DEF SetProperty, TypeOK
    <3>2. (prop = 8 /\ pc' = "teardown") \/ (prop' = prop + 1 /\ pc' = "prop")
      BY <1>5, <2>2, <3>1, PropertyList DEF SetProperty
    <3>3. Upto' = prop + 1 /\ pc' # "check" /\ (pc' = "prop" => prop' = prop + 1)
      BY <3>1, <3>2 DEF Upto
    <3>4. ASSUME Fits', ~hurt' PROVE Given' = SetTo[prop + 1] /\ room' = RoomAt[prop + 1]
      BY <1>1, <1>5, <2>2, <3>4, NextProperty
    <3>5. FirstProperty'
      BY <3>2 DEF FirstProperty, TailPCs
    <3> QED
      BY <1>1, <3>3, <3>4, <3>5 DEF TreeSoFar
  <2> QED
    BY <2>1, <2>2
<1>6. CASE HandOver \/ (\E p \in Pages : Evict(p)) \/ UNCHANGED vars
  <2>1. prop' = prop /\ room' = room /\ hurt' = hurt
    BY <1>6 DEF HandOver, TeardownHardware, CleanCache, DcacheOff, MmuOff, DisableIcache, Evict, vars, treeVars
  <2>2. \/ pc' = pc
        \/ pc \in TailPCs /\ pc' \in TailPCs
    BY <1>6 DEF HandOver, TeardownHardware, CleanCache, DcacheOff, MmuOff, DisableIcache, Evict, vars, TailPCs
  <2>3. View(DtbAt)' = View(DtbAt)
    BY <1>6, ViewStays, Layout DEF HandOver
  <2>4. Given' = Given
    BY <2>3, SameGiven
  <2>5. (pc' = "check" <=> pc = "check") /\ (pc' = "prop" <=> pc = "prop") /\ Upto' = Upto
    BY <2>1, <2>2 DEF Upto, TailPCs
  <2>6. pc' \in TailPCs <=> pc \in TailPCs
    BY <2>2
  <2>7. FirstProperty'
    BY <2>1, <2>2, <2>5 DEF FirstProperty, TailPCs
  <2>8. TreeSoFar'
    BY <1>1, <2>1, <2>4, <2>5, <2>6 DEF TreeSoFar
  <2> QED
    BY <2>7, <2>8
<1> QED
  BY <1>2, <1>3, <1>4, <1>5, <1>6 DEF Next, Loader, ReadFile, LoadFdt

\* Linux is given every property of load_fdt() just when they fit into the 4096 bytes with their
\* names, and all but a command line that does not fit just when there is room for them and the
\* name it leaves behind: for every room, every cost, every tree and every length.
THEOREM LinuxGetsItsTree == Spec => []TreeComplete
<1>1. Init => LengthsRight /\ FirstProperty /\ TreeSoFar
  BY DEF Init, LengthsRight, Done, TreePCs, TailPCs, FirstProperty, TreeSoFar
<1>2. /\ TypeOK /\ TypeOK' /\ IInv /\ LengthsRight /\ FirstProperty /\ TreeSoFar /\ [Next]_vars
      => (LengthsRight /\ FirstProperty /\ TreeSoFar)'
  BY LengthsStep, TreeStep
<1>3. TypeOK /\ TreeSoFar => TreeComplete
  <2> SUFFICES ASSUME TypeOK, TreeSoFar, pc = "linux", Fits, ~hurt
               PROVE  /\ Given = Wanted <=> Needed + TakesName("bootargs") + card.args <= Room
                      /\ ~LineFits => (Given = Wanted \ {"bootargs"} <=> Needed + LeftBehind <= Room)
    BY DEF TreeComplete
  <2>1. Given = SetTo[9]
    BY DEF TreeSoFar, TailPCs, Upto
  <2>2. /\ Given = Wanted <=> \A k \in 1 .. 8 : Enough(k)
        /\ Given = Wanted \ {"bootargs"} <=> \A k \in 1 .. 8 : Enough(k) <=> k # 4
    BY <2>1, AllSet
  <2>3. ServedHere
    BY ServedList
  <2> QED
    BY <2>2, <2>3 DEF ServedHere
<1> QED
  BY <1>1, <1>2, <1>3, BootInvariants, TypeCorrect, PTL DEF Spec
=============================================================================
