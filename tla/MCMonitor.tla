----------------------------- MODULE MCMonitor -----------------------------
(* Monitor on small instances: a mailbox of two words, two or three buffers. *)
EXTENDS Monitor

HashTag  == [tag |-> 3, size |-> 20, words |-> 5]
ShortTag == [tag |-> 3, size |-> 8, words |-> 2]
OtherTag == [tag |-> 5, size |-> 6, words |-> 2]
\* A size that takes back what the loop adds.
StuckTag == [tag |-> 5, size |-> Wrap - 16, words |-> 0]

MCChannels == {1, 8}
MCMessages == {<<HashTag>>, <<ShortTag>>, <<OtherTag>>, <<StuckTag>>}
OneMessage == {<<HashTag>>}
TwoTags == {<<HashTag>>, <<HashTag, OtherTag>>}

\* A buffer of eight words, and right behind it one with room for two tags.
TwoBuffers == {0, 8}
TwoSizes == (0 :> 8) @@ (8 :> 16)
ThreeBuffers == {0, 12, 24}
ThreeSizes == [b \in ThreeBuffers |-> 12]
MCForeign == {0, 3}
=============================================================================
