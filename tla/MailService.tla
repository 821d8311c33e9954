---------------------------- MODULE MailService ----------------------------
(***************************************************************************)
(* What the IPC monitor of the VideoCore firmware promises to the ARM: the *)
(* words the ARM sends are served one at a time in the order it sent them; *)
(* a property request comes back as the same word, exactly once; a word on *)
(* any other channel is dropped.  Replies wait in a mailbox of Depth words, *)
(* and one that finds it full is lost, for the monitor does not look.       *)
(***************************************************************************)
EXTENDS Naturals, Sequences

CONSTANTS
  Words,     (* what can be sent                         *)
  Requests,  (* those of them that deserve a reply       *)
  Depth      (* replies the mailbox holds                *)

VARIABLES
  waiting,   (* words sent and not served yet            *)
  replies    (* replies the ARM has not collected yet    *)

Init == waiting = <<>> /\ replies = <<>>

Ask(w) == waiting' = Append(waiting, w) /\ UNCHANGED replies

Answer ==
  /\ waiting # <<>> /\ Head(waiting) \in Requests
  /\ waiting' = Tail(waiting)
  /\ replies' = IF Len(replies) < Depth THEN Append(replies, Head(waiting)) ELSE replies

Ignore ==
  /\ waiting # <<>> /\ Head(waiting) \notin Requests
  /\ waiting' = Tail(waiting)
  /\ UNCHANGED replies

Collect ==
  /\ replies # <<>>
  /\ replies' = Tail(replies)
  /\ UNCHANGED waiting

Next == Answer \/ Ignore \/ Collect \/ \E w \in Words : Ask(w)

Spec == Init /\ [][Next]_<<waiting, replies>>
=============================================================================
