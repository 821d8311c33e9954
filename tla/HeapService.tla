---------------------------- MODULE HeapService ----------------------------
(***************************************************************************)
(* What malloc and free promise: a block that has been handed out lies     *)
(* inside the pool and overlaps no other block in use, until it is freed.  *)
(* A restart of the program forgets all blocks.                            *)
(***************************************************************************)
EXTENDS Naturals

CONSTANTS
  Top,       (* the pool's addresses are below Top     *)
  Requests   (* the sizes that are asked for           *)

VARIABLES
  up,        (* the heap has been set up               *)
  live       (* the size asked for, by address         *)

Init == up = FALSE /\ live = <<>>

Start == ~up /\ up' = TRUE /\ UNCHANGED live

Allocate(n, p) ==
  /\ up /\ p \notin DOMAIN live /\ p + n <= Top
  /\ \A q \in DOMAIN live : p + n <= q \/ q + live[q] <= p
  /\ live' = [q \in DOMAIN live \cup {p} |-> IF q = p THEN n ELSE live[q]]
  /\ UNCHANGED up

Release(p) ==
  /\ up /\ p \in DOMAIN live
  /\ live' = [q \in DOMAIN live \ {p} |-> live[q]]
  /\ UNCHANGED up

Restart == up' = FALSE /\ live' = <<>>

Next == \/ Start \/ Restart
        \/ \E p \in 0 .. Top : Release(p) \/ \E n \in Requests : Allocate(n, p)

Spec == Init /\ [][Next]_<<up, live>>
=============================================================================
