-------------------------------- MODULE Tlsf --------------------------------
(***************************************************************************)
(* The heap of the chainloader: TLSF, two-level segregated-fit malloc and  *)
(* free (tlsf.c) on one pool, set up by heap_init (main.c).                *)
(*                                                                         *)
(* Addresses are bytes from the first block that process_area() makes; a   *)
(* block is the Overhead bytes of its header and size bytes behind it.     *)
(* The headers are a function from their addresses; the pool ends with a   *)
(* header of size 0.  A free list is the set of its blocks: its order is   *)
(* that of freeing, and malloc's choice within a list is left open.        *)
(***************************************************************************)
EXTENDS Integers

CONSTANTS
  LogSli,     (* MAX_LOG2_SLI (5): second-level lists are 2^LogSli           *)
  FliOffset,  (* FLI_OFFSET (6): SMALL_BLOCK is 2^(FliOffset+1)              *)
  MaxFli,     (* MAX_FLI (30): blocks are smaller than 2^MaxFli              *)
  PoolSize,   (* the size of the pool's first block                          *)
  Requests    (* the sizes asked for, in bytes                               *)

Align    == 8  \* BLOCK_ALIGN of a 32-bit ARM
MinBlock == 8  \* sizeof(free_ptr_t)
Overhead == 8  \* BHDR_OVERHEAD: prev_hdr and size
Header   == 16 \* sizeof(bhdr_t)

PowersOfTwo == <<1, 2, 4, 8, 16, 32, 64, 128, 256, 512, 1024, 2048, 4096, 8192, 16384, 32768,
                 65536, 131072, 262144, 524288, 1048576, 2097152, 4194304, 8388608, 16777216,
                 33554432, 67108864, 134217728, 268435456, 536870912, 1073741824>>
Pow2(k) == PowersOfTwo[k + 1]

Sli   == Pow2(LogSli)
Small == Pow2(FliOffset + 1)

\* The first-level lists below SMALL_BLOCK are no wider than the alignment, and the
\* requests stay where rounding up does not leave the lists.
ASSUME TlsfAssumption ==
  /\ LogSli \in 1 .. 5 /\ FliOffset \in LogSli .. 8 /\ MaxFli \in FliOffset + 2 .. 30
  /\ Align % (Small \div Sli) = 0
  /\ PoolSize \in Nat /\ PoolSize % Align = 0 /\ MinBlock <= PoolSize /\ PoolSize < Pow2(MaxFli)
  /\ Requests \subseteq 0 .. Pow2(MaxFli - 1) - Align

VARIABLES
  up,         (* heap_init() has run                                         *)
  signature,  (* the word at the pool's start is TLSF_SIGNATURE              *)
  heap,       (* headers, matrix of free lists, the two bitmaps              *)
  live        (* the client: what it asked for, by the pointer it got        *)

vars == <<up, signature, heap, live>>

End     == Overhead + PoolSize
Null    == 0                                   \* no pointer is 0: headers are in front
Fls     == 0 .. MaxFli - FliOffset - 1
Classes == Fls \X (0 .. Sli - 1)
NoClass == <<-1, -1>>

Block == [size : 0 .. PoolSize, free : BOOLEAN, prevFree : BOOLEAN, prev : 0 .. End]

Addresses == 0 .. End

TypeOK ==
  /\ up \in BOOLEAN /\ signature \in BOOLEAN
  /\ DOMAIN heap = {"blk", "matrix", "sl", "fl"}
  /\ DOMAIN heap.blk \subseteq Addresses /\ \A a \in DOMAIN heap.blk : heap.blk[a] \in Block
  /\ heap.matrix \in [Classes -> SUBSET Addresses]
  /\ heap.sl \subseteq Classes /\ heap.fl \subseteq Fls
  /\ DOMAIN live \subseteq Addresses /\ \A p \in DOMAIN live : live[p] \in Requests

-----------------------------------------------------------------------------
(* Sizes and lists.                                                          *)

MsBit(n)  == CHOOSE k \in 0 .. 30 : Pow2(k) <= n /\ n < 2 * Pow2(k)
LsBit(S)  == CHOOSE s \in S : \A t \in S : s <= t

RoundUp(n)  == ((n + Align - 1) \div Align) * Align
Adjusted(n) == IF n < MinBlock THEN MinBlock ELSE RoundUp(n)

\* Mutant of Class: the lists of a first level are half as wide.
ClassTooNarrow(n) ==
  IF n < Small THEN <<0, n \div (Small \div Sli)>>
               ELSE <<MsBit(n) - FliOffset, n \div Pow2(MsBit(n) - LogSli - 1) - 2 * Sli>>

\* MAPPING_INSERT: the list of a block of size n.
Class(n) ==
  IF n < Small THEN <<0, n \div (Small \div Sli)>>
               ELSE <<MsBit(n) - FliOffset, n \div Pow2(MsBit(n) - LogSli) - Sli>>

\* Mutant of Slack: the request is not rounded up to the next list.
SlackForgotten(n) == 0

\* MAPPING_SEARCH adds this, so that every block of the list found is large enough ...
Slack(n) == IF n < Small THEN 0 ELSE Pow2(MsBit(n) - LogSli) - 1

SearchClass(n) == Class(n + Slack(n))

\* ... and makes the request as large as the smallest block of that list.
SearchSize(n) == (n + Slack(n)) - ((n + Slack(n)) % (Slack(n) + 1))

\* Mutant of Find: only the first level of the request is looked at.
FindOnOneLevel(h, c) ==
  LET here == {s \in 0 .. Sli - 1 : <<c[1], s>> \in h.sl /\ s >= c[2]}
  IN  IF here # {} THEN <<c[1], LsBit(here)>> ELSE NoClass

\* FIND_SUITABLE_BLOCK: the first list that is not empty, from c on.
Find(h, c) ==
  LET here  == {s \in 0 .. Sli - 1 : <<c[1], s>> \in h.sl /\ s >= c[2]}
      above == {f \in h.fl : f > c[1]}
      level == LsBit(above)
  IN  IF here # {} THEN <<c[1], LsBit(here)>>
      ELSE IF above # {} THEN <<level, LsBit({s \in 0 .. Sli - 1 : <<level, s>> \in h.sl})>>
      ELSE NoClass

-----------------------------------------------------------------------------
(* Blocks.                                                                   *)

NextOf(blk, b) == b + Overhead + blk[b].size

\* INSERT_BLOCK
Insert(h, b) ==
  LET c == Class(h.blk[b].size)
  IN  [h EXCEPT !.matrix[c] = @ \cup {b}, !.sl = @ \cup {c}, !.fl = @ \cup {c[1]}]

\* Mutant of Extract: the second-level bit stays when a list becomes empty.
ExtractKeepingBit(h, b) == [h EXCEPT !.matrix[Class(h.blk[b].size)] = @ \ {b}]

\* EXTRACT_BLOCK, EXTRACT_BLOCK_HDR: a list's last block takes the bits with it.
Extract(h, b) ==
  LET c    == Class(h.blk[b].size)
      last == h.matrix[c] = {b}
      sl   == IF last THEN h.sl \ {c} ELSE h.sl
      gone == last /\ \A s \in 0 .. Sli - 1 : <<c[1], s>> \notin sl
  IN  [h EXCEPT !.matrix[c] = @ \ {b}, !.sl = sl, !.fl = IF gone THEN @ \ {c[1]} ELSE @]

\* process_area() and the free of its block: one free block, and the pool's end.
FreshHeap ==
  Insert([blk |-> [a \in {0, End} |->
                     IF a = 0 THEN [size |-> PoolSize, free |-> TRUE, prevFree |-> FALSE, prev |-> 0]
                              ELSE [size |-> 0, free |-> FALSE, prevFree |-> TRUE, prev |-> 0]],
          matrix |-> [c \in Classes |-> {}], sl |-> {}, fl |-> {}], 0)

\* A pool whose signature is there is taken as it is.
InitMemoryPool(signed) ==
  /\ heap' = IF signed THEN heap ELSE FreshHeap
  /\ signature' = TRUE

Split(size, need) == size - need >= Header

\* malloc_ex() with the block b found for a request of need bytes.
Take(h, b, need) ==
  LET g    == Extract(h, b)
      size == h.blk[b].size
      next == NextOf(h.blk, b)
      rest == b + Overhead + need
      used == [h.blk EXCEPT ![b].free = FALSE, ![next].prevFree = FALSE]
      cut  == [a \in DOMAIN h.blk \cup {rest} |->
                 IF a = b THEN [h.blk[b] EXCEPT !.size = need, !.free = FALSE]
                 ELSE IF a = rest THEN [size |-> size - need - Overhead, free |-> TRUE,
                                        prevFree |-> FALSE, prev |-> 0]
                 ELSE IF a = next THEN [h.blk[next] EXCEPT !.prev = rest]
                 ELSE h.blk[a]]
  IN  IF Split(size, need) THEN Insert([g EXCEPT !.blk = cut], rest)
                           ELSE [g EXCEPT !.blk = used]

\* Mutant of Swallow: the sizes are added, the header between them is forgotten.
SwallowShort(h, b, n) ==
  [h EXCEPT !.blk = [a \in DOMAIN h.blk \ {n} |->
     IF a = b THEN [h.blk[b] EXCEPT !.size = @ + h.blk[n].size] ELSE h.blk[a]]]

\* The block b grows over its neighbour n.
Swallow(h, b, n) ==
  [h EXCEPT !.blk = [a \in DOMAIN h.blk \ {n} |->
     IF a = b THEN [h.blk[b] EXCEPT !.size = @ + h.blk[n].size + Overhead] ELSE h.blk[a]]]

Mark(h, b) == [h EXCEPT !.blk[b].free = TRUE]

\* free_ex(): a free neighbour above, ...
JoinNext(h, b) ==
  LET n == NextOf(h.blk, b)
  IN  IF h.blk[n].free THEN Swallow(Extract(h, n), b, n) ELSE h

\* ... one below, ...
Owner(h, b) == IF h.blk[b].prevFree THEN h.blk[b].prev ELSE b

JoinPrev(h, b) ==
  LET p == Owner(h, b)
  IN  IF p # b THEN Swallow(Extract(h, p), p, b) ELSE h

\* ... into a list, and the block above is told.
Enlist(h, b) ==
  LET n == NextOf(h.blk, b)
  IN  [Insert(h, b) EXCEPT !.blk[n].prevFree = TRUE, !.blk[n].prev = b]

Put(h, b) ==
  LET g == JoinNext(Mark(h, b), b)
  IN  Enlist(JoinPrev(g, b), Owner(g, b))

-----------------------------------------------------------------------------
(* Operations.                                                               *)

\* The pool holds something, after a power-up, or an old heap, after a reset.
Init ==
  /\ up = FALSE /\ signature = FALSE /\ live = <<>>
  /\ heap = [blk |-> <<>>, matrix |-> [c \in Classes |-> {}], sl |-> {}, fl |-> {}]

\* Mutant of HeapInit: the signature is not cleared first.
HeapInitWarm ==
  /\ ~up /\ up' = TRUE
  /\ InitMemoryPool(signature)
  /\ UNCHANGED live

HeapInit ==
  /\ ~up /\ up' = TRUE
  /\ InitMemoryPool(FALSE)
  /\ UNCHANGED live

\* malloc(n); a NULL leaves everything as it is.
Malloc(n) ==
  /\ up
  /\ LET c == Find(heap, SearchClass(Adjusted(n)))
     IN  /\ c # NoClass
         /\ \E b \in heap.matrix[c] :
              /\ heap' = Take(heap, b, SearchSize(Adjusted(n)))
              /\ live' = [p \in DOMAIN live \cup {b + Overhead} |->
                            IF p = b + Overhead THEN n ELSE live[p]]
  /\ UNCHANGED <<up, signature>>

\* free(p) of a block in use; free(NULL) does nothing.
Free(p) ==
  /\ up /\ p \in DOMAIN live
  /\ heap' = Put(heap, p - Overhead)
  /\ live' = [q \in DOMAIN live \ {p} |-> live[q]]
  /\ UNCHANGED <<up, signature>>

\* A reset that keeps memory as it is.
Restart ==
  /\ up /\ up' = FALSE /\ live' = <<>>
  /\ UNCHANGED <<signature, heap>>

Next == \/ HeapInit \/ Restart
        \/ \E n \in Requests : Malloc(n)
        \/ \E p \in DOMAIN live : Free(p)

Spec == Init /\ [][Next]_vars

-----------------------------------------------------------------------------
(* Properties.                                                               *)

\* The blocks tile the pool: each ends where the next header is.
Tiled(blk) ==
  /\ {0, End} \subseteq DOMAIN blk /\ blk[End].size = 0 /\ ~blk[End].free
  /\ \A a \in DOMAIN blk \ {End} :
       /\ blk[a].size >= MinBlock /\ blk[a].size % Align = 0
       /\ NextOf(blk, a) \in DOMAIN blk
       /\ \A d \in DOMAIN blk : d <= a \/ d >= NextOf(blk, a)

\* Each header knows whether the block below is free and where it begins, and no two
\* neighbours are free.
Joined(blk) ==
  /\ ~blk[0].prevFree
  /\ \A a \in DOMAIN blk \ {End} :
       /\ blk[NextOf(blk, a)].prevFree = blk[a].free
       /\ blk[a].free => blk[NextOf(blk, a)].prev = a /\ ~blk[NextOf(blk, a)].free

\* After any calls the headers a walk over memory meets are consistent: free_ex follows
\* size, PREV_FREE and prev_hdr without a check.
HeadersAgree == up => Tiled(heap.blk) /\ Joined(heap.blk)

\* The lists hold the free blocks, each in the list of its size, and the bitmaps say
\* which lists there are; malloc looks at the bitmaps alone.
ListsAgree ==
  up => /\ \A c \in Classes : heap.matrix[c] =
             {a \in DOMAIN heap.blk : heap.blk[a].free /\ Class(heap.blk[a].size) = c}
        /\ heap.sl = {c \in Classes : heap.matrix[c] # {}}
        /\ heap.fl = {c[1] : c \in heap.sl}

\* What is not free is somebody's, and is as large as was asked for: nothing leaks, and
\* with all blocks freed the pool is one block again.
NothingLeaks ==
  up => /\ {a \in DOMAIN heap.blk \ {End} : ~heap.blk[a].free} = {p - Overhead : p \in DOMAIN live}
        /\ \A p \in DOMAIN live : live[p] <= heap.blk[p - Overhead].size
        /\ live = <<>> => DOMAIN heap.blk = {0, End}

\* malloc returns NULL only when no free block is as large as the request rounded up
\* to its list, however the pool is split up.
NullMeansNoFit ==
  up => \A n \in Requests :
          Find(heap, SearchClass(Adjusted(n))) = NoClass =>
            \A a \in DOMAIN heap.blk :
              heap.blk[a].free => heap.blk[a].size < SearchSize(Adjusted(n))

\* The heap implements the promise of HeapService, restarts on a warm memory included.
Service == INSTANCE HeapService WITH Top <- End
ImplementsHeap == Service!Spec
=============================================================================
