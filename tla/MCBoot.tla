------------------------------- MODULE MCBoot -------------------------------
(* Boot on small instances: two pages each for kernel, initrd and tree.       *)
EXTENDS Boot

\* The names that most trees have.
Common == {"serial-number", "local-mac-address", "reg", "ranges"}

Card(kernel, ramdisk, tree, args) ==
  [part |-> "fat", files |-> Files, nodes |-> Nodes, names |-> Common, args |-> args,
   size |-> [f \in Images |-> CASE f = "zImage" -> kernel
                                [] f = "initrd" -> ramdisk
                                [] OTHER        -> tree]]

\* Room for all, with an initrd and without; for bootargs but not for all that
\* follows, twice; not for bootargs but for its name and all else, and not for its
\* name and all else; files that run into each other; a bad partition, a table
\* without its signature, a missing file, a missing node.
MCCards ==
  {[Card(2, 2, 2, 2) EXCEPT !.names = @ \cup {"bootargs"}], Card(1, 0, 1, 4),
   Card(2, 1, 1, 1), Card(1, 1, 1, 6), Card(1, 2, 1, 7),
   [Card(1, 1, 1, 7) EXCEPT !.names = @ \ {"ranges"}],
   Card(3, 1, 1, 1), Card(1, 3, 1, 1)}
  \cup {[Card(1, 1, 1, 1) EXCEPT !.part = p] : p \in {"other", "unsigned"}}
  \cup {[Card(1, 1, 1, 1) EXCEPT !.files = Files \ {f}] : f \in Files}
  \cup {[Card(1, 1, 1, 1) EXCEPT !.nodes = Nodes \ {n}] : n \in Nodes \ {"/"}}

MCCost     == [name \in Names \ {"bootargs"} |-> 1]
MCNameCost == [name \in Names |-> IF name = "bootargs" THEN 2 ELSE 1]
=============================================================================
