----------------------------- MODULE UartXmodem -----------------------------
(***************************************************************************)
(* uart-manager: sends a file by XMODEM to a board that asks for it on its *)
(* serial console.  The main loop answers each chunk of text the board     *)
(* sends; every block is written by a detached thread of its own.          *)
(*                                                                         *)
(* The line is a queue in each direction: a packet is its Pieces, written  *)
(* one write() at a time, everything else one byte.  The board is a plain  *)
(* XMODEM receiver behind a boot prompt; it is not in the repository.      *)
(***************************************************************************)
EXTENDS Naturals, Sequences, SequencesExt

CONSTANTS
  Blocks,     (* whole blocks of 128 bytes in the file, maybe none           *)
  Wrap,       (* block numbers on the line are taken modulo Wrap (256)       *)
  Pieces,     (* writes a packet may take                                    *)
  ChunkSize,  (* what one read() takes (512 bytes) ...                       *)
  RingSize,   (* ... and the ring buffer keeps (1024 bytes)                  *)
  MaxFaults,  (* bytes lost, garbled or typed in                             *)
  MaxHurries, (* see hurries                                                 *)
  MaxResets   (* resets of the board                                         *)

ASSUME XmodemAssumption ==
  /\ Blocks \in Nat /\ Wrap \in Nat \ {0, 1} /\ Pieces \in Nat \ {0}
  /\ ChunkSize \in Nat \ {0} /\ RingSize \in Nat \ {0}
  /\ MaxFaults \in Nat /\ MaxHurries \in Nat /\ MaxResets \in Nat

VARIABLES
  run,        (* the main loop's flag                                        *)
  ring,       (* ring_buffer                                                 *)
  xmodem,     (* the prompt was seen                                         *)
  blockNr,
  writers     (* the detached threads, oldest first: packet, pieces written  *)

hostVars == <<run, ring, xmodem, blockNr, writers>>

VARIABLES
  down,       (* the line to the board                                       *)
  up,         (* and back                                                    *)
  mode,       (* the board: boots, waits for X, receives, is done or gone    *)
  expect,     (* the block it wants next                                     *)
  got,        (* the pieces of the packet under way                          *)
  stored,     (* the blocks it has taken                                     *)
  faults, resets,
  typed,      (* history: what the keyboard sent of what the board acts on    *)
  hurries,    (* history: how often the board asked again, gave up or was    *)
              (* reset while a block or an answer was still under way        *)
  lost        (* history: what the line has eaten that nobody repeats        *)

lineVars  == <<down, up>>
boardVars == <<mode, expect, got, stored>>
pastVars  == <<faults, resets, typed, hurries, lost>>
vars      == <<hostVars, lineVars, boardVars, pastVars>>

Packets == [num : 0 .. Wrap - 1, data : Nat]
Piece   == [kind : {"piece"}, packet : Packets, k : 1 .. Pieces]
Signals == [kind : {"X", "EOT", "^D", "junk"}]
Byte(c) == [kind |-> c]
Answers == {"NAK", "ACK"}
Prompt  == <<"press", "stop">>   \* long enough to arrive in two chunks
Unrepeated == ToSet(Prompt) \cup {"X", "EOT"}
Keys    == {"X", "^D"}        \* the keys the board acts on
Ends    == {"EOT", "^D"}      \* one byte, 4: the tool's and the keyboard's
Text    == Answers \cup ToSet(Prompt) \cup {"text"}

TypeOK ==
  /\ run \in BOOLEAN /\ xmodem \in BOOLEAN /\ blockNr \in Nat
  /\ ring \in Seq(Text) /\ Len(ring) <= RingSize
  /\ writers \in Seq([packet : Packets, sent : 0 .. Pieces - 1])
  /\ down \in Seq(Piece \cup Signals) /\ up \in Seq(Text)
  /\ mode \in {"boot", "wait", "recv", "done", "gone"}
  /\ expect \in Nat /\ got \in Seq(Piece \cup Signals) /\ stored \in Seq(Nat)
  /\ Len(got) < Pieces
  /\ faults \in 0 .. MaxFaults /\ resets \in 0 .. MaxResets
  /\ typed \in SUBSET Keys /\ hurries \in 0 .. MaxHurries /\ lost \in SUBSET Unrepeated

\* The tool listens with an empty buffer to a board that is switched on.
Init ==
  /\ run = TRUE /\ ring = <<>> /\ xmodem = FALSE /\ blockNr = 0 /\ writers = <<>>
  /\ down = <<>> /\ up = <<>>
  /\ mode = "boot" /\ expect = 1 /\ got = <<>> /\ stored = <<>>
  /\ faults = 0 /\ resets = 0 /\ typed = {} /\ hurries = 0 /\ lost = {}

-----------------------------------------------------------------------------
(* The tool.                                                                 *)

\* Mutant of Packet: the payload is taken one block further on.
PacketOffByOne(b) == [num |-> b % Wrap, data |-> b + 1]

\* Which 128 bytes of the file a packet carries, under which number.
Packet(b) == [num |-> b % Wrap, data |-> b]

PieceOf(packet, k) == [kind |-> "piece", packet |-> packet, k |-> k]

SendBlock(b) == writers' = Append(writers, [packet |-> Packet(b), sent |-> 0])

\* Mutant of PastEnd: a file that ends on a block's border loses its last block.
PastEndTooSoon(b) == b >= Blocks

\* Mutant of PastEnd: one block more than there is.
PastEndTooLate(b) == b > Blocks + 1

\* (blockNr*128) > elf_size
PastEnd(b) == b > Blocks

\* Mutant of Keep: the buffer is never cut.
KeepAll(text) == text

Keep(text) == IF Len(text) > RingSize THEN SubSeq(text, Len(text) - RingSize + 1, Len(text))
                                      ELSE text

Prompted(text) == \E i \in 1 .. Len(text) - 1 : SubSeq(text, i, i + 1) = Prompt

\* The prompt, at any time, starts a transfer from its first block.
Begin(text) ==
  /\ Prompted(text)
  /\ ring' = <<>> /\ xmodem' = TRUE /\ blockNr' = 1
  /\ down' = Append(down, Byte("X"))
  /\ UNCHANGED writers

Resend(text) ==
  /\ ~Prompted(text) /\ xmodem /\ Contains(text, "NAK")
  /\ ring' = <<>> /\ SendBlock(blockNr)
  /\ UNCHANGED <<xmodem, blockNr, down>>

\* The next block, or the end of the transfer, which does not end the mode.
Advance(text) ==
  /\ ~Prompted(text) /\ xmodem /\ ~Contains(text, "NAK") /\ Contains(text, "ACK")
  /\ ring' = <<>> /\ blockNr' = blockNr + 1
  /\ IF PastEnd(blockNr + 1) THEN down' = Append(down, Byte("EOT")) /\ UNCHANGED writers
                             ELSE SendBlock(blockNr + 1) /\ UNCHANGED down
  /\ UNCHANGED xmodem

Listen(text) ==
  /\ ~Prompted(text) /\ (xmodem => ~Contains(text, "NAK") /\ ~Contains(text, "ACK"))
  /\ ring' = text
  /\ UNCHANGED <<xmodem, blockNr, down, writers>>

\* One round of the main loop for the serial port: a chunk of any length.
ReadUart ==
  /\ run
  /\ \E n \in 1 .. Len(up) :
       /\ n <= ChunkSize
       /\ LET text == Keep(ring \o SubSeq(up, 1, n))
          IN  /\ up' = SubSeq(up, n + 1, Len(up))
              /\ Begin(text) \/ Resend(text) \/ Advance(text) \/ Listen(text)
  /\ UNCHANGED <<run, boardVars, pastVars>>

\* What is typed on the keyboard goes out as it is.
ReadStdin ==
  /\ run /\ faults < MaxFaults
  /\ faults' = faults + 1
  /\ \E key \in {"junk"} \cup Keys :
       /\ down' = Append(down, Byte(key))
       /\ typed' = typed \cup ({key} \cap Keys)
  /\ UNCHANGED <<hostVars, up, boardVars, resets, hurries, lost>>

\* Mutant of WritePiece: a short write is taken for a whole one.
WriteOnce(i) ==
  /\ \E n \in 1 .. Pieces :
       /\ down' = down \o [k \in 1 .. n |-> PieceOf(writers[i].packet, k)]
       /\ writers' = RemoveAt(writers, i)
  /\ UNCHANGED <<run, ring, xmodem, blockNr, up, boardVars, pastVars>>

\* send_packet(): write() takes some of what is left.
WritePiece(i) ==
  /\ LET w == writers[i]
     IN  \E n \in w.sent + 1 .. Pieces :
           /\ down' = down \o [k \in 1 .. n - w.sent |-> PieceOf(w.packet, w.sent + k)]
           /\ writers' = IF n = Pieces THEN RemoveAt(writers, i)
                                       ELSE [writers EXCEPT ![i].sent = n]
  /\ UNCHANGED <<run, ring, xmodem, blockNr, up, boardVars, pastVars>>

Write == \E i \in 1 .. Len(writers) : WritePiece(i)

\* SIGINT ends the loop, and the end of the process its threads.
Interrupt ==
  /\ run
  /\ run' = FALSE /\ writers' = <<>>
  /\ UNCHANGED <<ring, xmodem, blockNr, lineVars, boardVars, pastVars>>

-----------------------------------------------------------------------------
(* The board and the line.                                                   *)

\* A block or an answer to one is on its way.
UnderWay == writers # <<>> \/ down # <<>> \/ Contains(up, "NAK") \/ Contains(up, "ACK")

HurryIf(early) == IF early THEN hurries < MaxHurries /\ hurries' = hurries + 1
                           ELSE UNCHANGED hurries

Boot ==
  /\ mode = "boot" /\ mode' = "wait"
  /\ \E log \in {<<>>, <<"text">>} : up' = up \o log \o Prompt
  /\ UNCHANGED <<hostVars, down, expect, got, stored, pastVars>>

\* No X in time: the board boots what it has.
Autoboot ==
  /\ mode = "wait" /\ down = <<>> /\ mode' = "gone"
  /\ hurries < MaxHurries /\ hurries' = hurries + 1
  /\ UNCHANGED <<hostVars, lineVars, expect, got, stored, faults, resets, typed, lost>>

StopAutoboot ==
  /\ mode = "wait" /\ down # <<>>
  /\ IF Head(down).kind = "X" THEN mode' = "recv" /\ up' = Append(up, "NAK")
                         ELSE UNCHANGED <<mode, up>>
  /\ down' = Tail(down)
  /\ UNCHANGED <<hostVars, expect, got, stored, pastVars>>

\* Nobody listens to what comes later.
Ignore ==
  /\ mode \in {"done", "gone"} /\ down # <<>>
  /\ down' = Tail(down)
  /\ UNCHANGED <<hostVars, up, boardVars, pastVars>>

\* A packet that arrived whole.
Whole(bytes) == \A k \in 1 .. Len(bytes) :
                  bytes[k].kind = "piece" /\ bytes[k].k = k /\ bytes[k].packet = bytes[1].packet

\* Between packets only a packet's first piece and EOT mean something, whoever
\* sent it.
SkipByte ==
  /\ mode = "recv" /\ got = <<>> /\ down # <<>>
  /\ Head(down).kind = "piece" => Head(down).k # 1
  /\ down' = Tail(down)
  /\ IF Head(down).kind \in Ends THEN mode' = "done" /\ up' = Append(up, "ACK")
                                  ELSE UNCHANGED <<mode, up>>
  /\ UNCHANGED <<hostVars, expect, got, stored, pastVars>>

\* A packet takes what comes until it is full.  The block it waits for is stored,
\* the one before it is acknowledged again; anything else is refused, after the
\* silence that a patient board waits for.
ReceiveByte ==
  /\ mode = "recv" /\ down # <<>>
  /\ got # <<>> \/ (Head(down).kind = "piece" /\ Head(down).k = 1)
  /\ LET bytes == Append(got, Head(down))
         number == IF Whole(bytes) THEN bytes[1].packet.num ELSE Wrap
         wanted == number = expect % Wrap
         before == number = (expect + Wrap - 1) % Wrap
     IN  \/ /\ Len(bytes) < Pieces
            /\ got' = bytes /\ down' = Tail(down)
            /\ UNCHANGED <<up, expect, stored, hurries>>
         \/ /\ Len(bytes) = Pieces /\ wanted
            /\ got' = <<>> /\ down' = Tail(down) /\ up' = Append(up, "ACK")
            /\ stored' = Append(stored, bytes[1].packet.data) /\ expect' = expect + 1
            /\ UNCHANGED hurries
         \/ /\ Len(bytes) = Pieces /\ before /\ ~wanted
            /\ got' = <<>> /\ down' = Tail(down) /\ up' = Append(up, "ACK")
            /\ UNCHANGED <<expect, stored, hurries>>
         \/ /\ Len(bytes) = Pieces /\ ~wanted /\ ~before
            /\ got' = <<>> /\ down' = <<>> /\ up' = Append(up, "NAK")
            /\ HurryIf(writers # <<>>)
            /\ UNCHANGED <<expect, stored>>
  /\ UNCHANGED <<hostVars, mode, faults, resets, typed, lost>>

\* Silence: the block is asked for again.
TimeOut ==
  /\ mode = "recv" /\ down = <<>>
  /\ got' = <<>> /\ up' = Append(up, "NAK") /\ HurryIf(UnderWay)
  /\ UNCHANGED <<hostVars, down, mode, expect, stored, faults, resets, typed, lost>>

ResetBoard ==
  /\ resets < MaxResets /\ resets' = resets + 1 /\ HurryIf(UnderWay)
  /\ mode' = "boot" /\ expect' = 1 /\ got' = <<>> /\ stored' = <<>>
  /\ UNCHANGED <<hostVars, lineVars, faults, typed, lost>>

\* The line loses or garbles a byte.
Disturb ==
  /\ faults < MaxFaults /\ faults' = faults + 1
  /\ \/ /\ down # <<>>
        /\ \E c \in {<<>>, <<Byte("junk")>>} : down' = c \o Tail(down)
        /\ lost' = lost \cup ({Head(down).kind} \cap Unrepeated)
        /\ UNCHANGED up
     \/ /\ up # <<>>
        /\ \E c \in {<<>>, <<"text">>} : up' = c \o Tail(up)
        /\ lost' = lost \cup ({Head(up)} \cap Unrepeated)
        /\ UNCHANGED down
  /\ UNCHANGED <<hostVars, boardVars, resets, typed, hurries>>

-----------------------------------------------------------------------------

Board == Boot \/ StopAutoboot \/ Ignore \/ SkipByte \/ ReceiveByte
Next  == ReadUart \/ ReadStdin \/ Write \/ Interrupt
         \/ Board \/ Autoboot \/ TimeOut \/ ResetBoard \/ Disturb

\* The tool's threads are scheduled, the board goes on and does not wait for ever.
Spec == Init /\ [][Next]_vars
        /\ WF_vars(ReadUart) /\ WF_vars(Write) /\ WF_vars(Board)
        /\ WF_vars(TimeOut /\ ~UnderWay)

-----------------------------------------------------------------------------
(* Properties.                                                               *)

\* What the board stores is the file from its beginning, block for block, although
\* blocks are sent again, threads interleave, numbers wrap and somebody types.  With
\* an impatient board that is so only until the numbers wrap, and not after a reset:
\* a thread that slept meanwhile delivers an old block as a new one.  An X that is
\* typed at a board whose prompt got lost starts a transfer behind the tool's back.
StoredInOrder ==
  /\ "X" \notin typed
  /\ hurries = 0 \/ (resets = 0 /\ hurries + 1 < Wrap /\ Len(stored) < Wrap)
  => \A k \in 1 .. Len(stored) : stored[k] = k

\* As long as the board is patient and nobody types X or Ctrl-D, the board is told
\* the end, which main writes itself, only when it has every block, each written by
\* a thread.
EotMeansAll == mode = "done" /\ hurries = 0 /\ typed = {} => Len(stored) >= Blocks

\* As long as the board is patient, EOT gets through and nobody types X, no packet is
\* made of what lies behind the end of the mapped file, but for the first block of a
\* file that has not even one.
InsideFile ==
  hurries = 0 /\ "EOT" \notin lost /\ "X" \notin typed =>
    \A i \in 1 .. Len(writers) : LET b == writers[i].packet.data
                                 IN  b <= Blocks \/ (Blocks = 0 /\ b = 1)

\* With a patient board, if prompt and X get through, the transfer ends, whatever
\* else is lost, garbled or typed in.
TransferEnds == [](run /\ hurries = 0 /\ lost \subseteq {"EOT"}) => <>(mode = "done")
=============================================================================
