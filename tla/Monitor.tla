------------------------------ MODULE Monitor ------------------------------
(***************************************************************************)
(* The IPC monitor of the VideoCore firmware (arm_monitor.c), entered from *)
(* the end of _main (romstage.c) and from the interrupt handler (trap.c),  *)
(* against an ARM that sends words with Bcm2708Mailbox::write_word         *)
(* (mailbox.cc) and collects replies.                                      *)
(*                                                                         *)
(* MAIL1 carries words to the VPU, MAIL0 back.  A word is an address of a  *)
(* 16-byte aligned buffer with a channel in its low four bits.  A buffer   *)
(* on the property channel holds 32-bit words: size in bytes, response     *)
(* code, tags [tag, value size in bytes, response, value words], end tag.  *)
(***************************************************************************)
EXTENDS Integers, SequencesExt, FiniteSets

CONSTANTS
  Depth,       (* words a mailbox holds                                        *)
  Wrap,        (* positions and words are taken modulo Wrap (2^32)             *)
  Buffers,     (* where in memory the ARM's request buffers begin, in words    *)
  Size,        (* their sizes in words                                         *)
  Foreign,     (* words found in other memory                                  *)
  Channels,    (* the channels it sends on                                     *)
  Messages,    (* the requests it makes: sequences of [tag, size, words]; size *)
               (* is the value size a tag tells, words are what it has room for *)
  Timeout,     (* polls of write_word: 10000 by default in the code            *)
  MaxTicks,    (* timer matches: ST_C0 is armed once, 100 s after boot, and    *)
               (* the 32-bit counter comes round again after 71 minutes        *)
  Strangers    (* whether the ARM's peripherals raise other enabled interrupts *)

Word32 == 0 .. Wrap - 1
Tags   == [tag : Word32, size : Word32, words : Nat]

\* Buffers do not overlap, and RAM ends well below the end of the address space.
ASSUME MonitorAssumption ==
  /\ Depth \in Nat \ {0}
  /\ Wrap \in Nat /\ Wrap > 2000 /\ Wrap % 4 = 0
  /\ Buffers \subseteq Nat /\ Buffers # {}
  /\ Size \in [Buffers -> Nat \ {0, 1}]
  /\ \A b \in Buffers : b + Size[b] + 16 <= Wrap \div 4
  /\ \A b, c \in Buffers : b < c => b + Size[b] <= c
  /\ Foreign \subseteq Word32 /\ Foreign # {}
  /\ Channels \subseteq 0 .. 15 /\ Channels # {}
  /\ Messages \subseteq Seq(Tags) /\ Messages # {}
  /\ Timeout \in Nat
  /\ MaxTicks \in Nat
  /\ Strangers \in BOOLEAN

PropertyChannel == 8
FirmwareHash    == 3  \* the one tag handle_property_tag knows

Words    == [chan : Channels, buf : Buffers]
Requests == [chan : {PropertyChannel} \cap Channels, buf : Buffers]

\* Symbols for 0x80000000, 0x80000001 and 0x80000000 | 20, and for the words of
\* the firmware hash.
Success == 1000
Error   == 1001
Handled == 1020
Hash    == <<111, 151, 191, 171, 111>>

-----------------------------------------------------------------------------
(* Property messages.                                                        *)

TagWords(t) == <<t.tag, t.size, 0>> \o [k \in 1 .. t.words |-> 0]

\* The words the ARM's driver lays out: header, tags, end tag.
Layout(m) ==
  LET body == FlattenSeq([k \in DOMAIN m |-> TagWords(m[k])])
  IN  <<4 * (Len(body) + 3), 0>> \o body \o <<0>>

\* The memory of the buffers.
Memory == UNION {b .. b + Size[b] - 1 : b \in Buffers}

\* The word that message[k] of the message at b is.
At(b, k) == (b + k) % (Wrap \div 4)

\* Memory m with words from b on.
Put(m, b, words) ==
  [a \in Memory |-> IF a - b + 1 \in DOMAIN words THEN words[a - b + 1] ELSE m[a]]

\* Which word of the packet at position p of the message at b word a is.
OfPacket(a, b, p) == (a - b - p) % (Wrap \div 4)

\* Mutant of WriteHash: the value is taken to begin at the response word.
WriteHashEarly(m, b, p) ==
  [a \in Memory |-> LET k == OfPacket(a, b, p)
                    IN  CASE k = 2      -> Handled
                          [] k \in 3 .. 6 -> Hash[k - 1]
                          [] OTHER      -> m[a]]

\* handle_property_tag() for the known tag: the response word and five words of
\* hash, whatever the value size, and whatever lies there.
WriteHash(m, b, p) ==
  [a \in Memory |-> LET k == OfPacket(a, b, p)
                    IN  CASE k = 2      -> Handled
                          [] k \in 3 .. 7 -> Hash[k - 2]
                          [] OTHER      -> m[a]]

\* Sizes in bytes are added to a position in words, and four more even to an
\* aligned value, in 32 bits.
NextTag(p, size) == (p + 12 + size + (4 - (size % 4))) % Wrap

-----------------------------------------------------------------------------

VARIABLES
  vpu,       (* what the VPU does next                                        *)
  resume,    (* where the interrupt handler returns to                        *)
  irqEn,     (* ARM_MC_IHAVEDATAIRQEN is set                                  *)
  msg,       (* arm_monitor_interrupt's msg                                   *)
  position,  (* where its tag loop is                                         *)
  error,     (* whether it met a tag it does not know                         *)
  ticks,     (* timer matches so far                                          *)
  timer,     (* ST_CS shows a match of ST_C0                                  *)
  stranger,  (* another enabled interrupt is pending                          *)
  mail1,     (* words on their way to the VPU                                 *)
  mail0,     (* words on their way to the ARM                                 *)
  mem,       (* the memory of the buffers                                     *)
  arm,       (* what the ARM does next                                        *)
  word,      (* write_word's data                                             *)
  polls,     (* write_word's timeout                                          *)
  asked,     (* the request last put into each buffer                         *)
  inUse,     (* buffers sent and not seen back                                *)
  spoilt     (* history: the messages the VPU wrote into while it served      *)
             (* another one                                                   *)

loopVars == <<position, error>>
vpuVars == <<vpu, resume, irqEn, msg, loopVars>>
irqVars == <<ticks, timer, stranger>>
armVars == <<arm, word, polls, asked, inUse>>
memVars == <<mem, spoilt>>
vars    == <<vpuVars, irqVars, mail1, mail0, memVars, armVars>>

TypeOK ==
  /\ vpu \in {"startArm", "ei", "monitor", "sleep", "irq", "ack", "tags", "post", "hung"}
  /\ resume \in {"monitor", "sleep"}
  /\ irqEn \in BOOLEAN
  /\ msg \in Words /\ position \in Word32 /\ error \in BOOLEAN
  /\ ticks \in 0 .. MaxTicks /\ timer \in BOOLEAN /\ stranger \in BOOLEAN
  /\ mail1 \in Seq(Words) /\ Len(mail1) <= Depth
  /\ mail0 \in Seq(Requests) /\ Len(mail0) <= Depth
  /\ mem \in [Memory -> Word32] /\ spoilt \in SUBSET Buffers
  /\ arm \in {"off", "idle", "poll", "write"}
  /\ word \in Words
  /\ polls \in 0 .. Timeout
  /\ asked \in [Buffers -> Messages]
  /\ inUse \in SUBSET Buffers

\* _main has armed ST_C0 and is about to call PEStartPlatform; the buffers are clear.
Init ==
  /\ vpu = "startArm" /\ resume = "monitor" /\ irqEn = FALSE
  /\ msg = CHOOSE w \in Words : TRUE
  /\ position = 2 /\ error = FALSE
  /\ ticks = 0 /\ timer = FALSE /\ stranger = FALSE
  /\ mail1 = <<>> /\ mail0 = <<>>
  /\ asked = [b \in Buffers |-> CHOOSE m \in Messages : TRUE]
  /\ mem = [a \in Memory |-> 0] /\ spoilt = {}
  /\ arm = "off" /\ word = msg /\ polls = 0 /\ inUse = {}

-----------------------------------------------------------------------------
(* The VPU: the end of _main, sleh_irq and arm_monitor_interrupt.           *)

\* PEStartPlatform() lets the ARM run ...
StartArm ==
  /\ vpu = "startArm" /\ vpu' = "ei"
  /\ arm' = "idle"
  /\ UNCHANGED <<resume, irqEn, msg, loopVars, irqVars, mail1, mail0, memVars, word, polls, asked, inUse>>

\* ... before interrupts are let in ...
EnableInterrupts ==
  /\ vpu = "ei" /\ vpu' = "monitor"
  /\ UNCHANGED <<resume, irqEn, msg, loopVars, irqVars, mail1, mail0, memVars, armVars>>

\* Mutant of EnableMailIrq: monitor_start empties the mailbox first.
EnableMailIrqEmptying ==
  /\ vpu = "monitor" /\ vpu' = "sleep"
  /\ irqEn' = TRUE /\ mail1' = <<>>
  /\ UNCHANGED <<resume, msg, loopVars, irqVars, mail0, memVars, armVars>>

\* ... and before monitor_start() lets the mailbox raise one.
EnableMailIrq ==
  /\ vpu = "monitor" /\ vpu' = "sleep"
  /\ irqEn' = TRUE
  /\ UNCHANGED <<resume, msg, loopVars, irqVars, mail1, mail0, memVars, armVars>>

\* Mutant of MailIrq: the interrupt tells of a full mailbox.
MailIrqWhenFull == irqEn /\ Len(mail1) = Depth

\* The mailbox holds its interrupt up for as long as there is a word to read.
MailIrq == irqEn /\ mail1 # <<>>

\* Interrupts are masked while one is served.
TakeIrq ==
  /\ vpu \in {"monitor", "sleep"}
  /\ timer \/ stranger \/ MailIrq
  /\ resume' = vpu /\ vpu' = "irq"
  /\ UNCHANGED <<irqEn, msg, loopVars, irqVars, mail1, mail0, memVars, armVars>>

\* sleh_irq() reads one source off IC0_S: of several, any.
DispatchTimer ==
  /\ vpu = "irq" /\ timer
  /\ vpu' = "ack"
  /\ UNCHANGED <<resume, irqEn, msg, loopVars, irqVars, mail1, mail0, memVars, armVars>>

\* ST_CS = cs acknowledges the match it read.
AckTimer ==
  /\ vpu = "ack" /\ vpu' = resume
  /\ timer' = FALSE
  /\ UNCHANGED <<resume, irqEn, msg, loopVars, ticks, stranger, mail1, mail0, memVars, armVars>>

\* "unknown interrupt source!"
DispatchStranger ==
  /\ vpu = "irq" /\ stranger
  /\ vpu' = "hung"
  /\ UNCHANGED <<resume, irqEn, msg, loopVars, irqVars, mail1, mail0, memVars, armVars>>

\* Mutant of ReadMail: the other channels are echoed as well.
ReadMailEchoing ==
  /\ vpu = "irq" /\ MailIrq
  /\ msg' = Head(mail1) /\ mail1' = Tail(mail1)
  /\ vpu' = "post"
  /\ UNCHANGED <<resume, irqEn, loopVars, irqVars, mail0, memVars, armVars>>

\* arm_monitor_interrupt() takes one word and looks at its channel.
ReadMail ==
  /\ vpu = "irq" /\ MailIrq
  /\ msg' = Head(mail1) /\ mail1' = Tail(mail1)
  /\ IF msg'.chan = PropertyChannel THEN vpu' = "tags" /\ position' = 2 /\ error' = FALSE
                                     ELSE vpu' = resume /\ UNCHANGED loopVars
  /\ UNCHANGED <<resume, irqEn, irqVars, mail0, memVars, armVars>>

\* position < message[0] / 4
InMessage == position < mem[msg.buf] \div 4

\* Mutant of Known: every tag falls into the one case there is.
KnownAny(tag) == TRUE

\* handle_property_tag() returns false: the tag has been handled.
Known(tag) == tag = FirmwareHash

\* What is in memory at place a.
Found(a) == IF a \in Memory THEN {mem[a]} ELSE Foreign

\* Where the words of buffer b's request are.
WordsOf(b) == {a \in b .. b + Size[b] - 1 : a < b + Len(Layout(asked[b]))}

\* The messages that the packet's six words reach into.
Reached ==
  {b \in Buffers \ {msg.buf} : \E a \in WordsOf(b) : OfPacket(a, msg.buf, position) \in 2 .. 7}

\* One turn of the tag loop: position moves on, then the tag is handled.
HandleTag ==
  /\ vpu = "tags" /\ InMessage
  /\ \E tag \in Found(At(msg.buf, position)), size \in Found(At(msg.buf, position + 1)) :
       /\ position' = NextTag(position, size)
       /\ IF Known(tag)
            THEN /\ mem' = WriteHash(mem, msg.buf, position) /\ spoilt' = spoilt \cup Reached
                 /\ UNCHANGED error
            ELSE error' = TRUE /\ UNCHANGED memVars
  /\ UNCHANGED <<vpu, resume, irqEn, msg, irqVars, mail1, mail0, armVars>>

\* The response code, in message[1].
EndTags ==
  /\ vpu = "tags" /\ ~InMessage
  /\ vpu' = "post"
  /\ mem' = [mem EXCEPT ![msg.buf + 1] = IF error THEN Error ELSE Success]
  /\ UNCHANGED <<resume, irqEn, msg, loopVars, irqVars, mail1, mail0, armVars, spoilt>>

\* A write to a full mailbox is lost, and nobody looks whether this one is.
Post ==
  /\ vpu = "post" /\ vpu' = resume
  /\ mail0' = IF Len(mail0) < Depth THEN Append(mail0, msg) ELSE mail0
  /\ UNCHANGED <<resume, irqEn, msg, loopVars, irqVars, mail1, memVars, armVars>>

-----------------------------------------------------------------------------
(* The ARM: write_word and, outside this repository, its callers.           *)

\* A driver lays a request out in a buffer of its own that is large enough, and calls
\* write_word.
BeginWrite(w, m) ==
  /\ arm = "idle" /\ arm' = "poll"
  /\ word' = w /\ polls' = Timeout
  /\ IF w \in Requests
       THEN /\ w.buf \notin inUse /\ Len(Layout(m)) <= Size[w.buf]
            /\ asked' = [asked EXCEPT ![w.buf] = m]
            /\ mem' = Put(mem, w.buf, Layout(m)) /\ spoilt' = spoilt \ {w.buf}
       ELSE UNCHANGED <<asked, memVars>>
  /\ UNCHANGED <<vpuVars, irqVars, mail1, mail0, inUse>>

\* Mutant of PollFull: a full mailbox is not waited for.
PollNothing ==
  /\ arm = "poll" /\ arm' = "write"
  /\ UNCHANGED <<vpuVars, irqVars, mail1, mail0, memVars, word, polls, asked, inUse>>

\* wait_for_mask(): the FULL flag clears, or write_word gives up.
PollFull ==
  /\ arm = "poll"
  /\ IF Len(mail1) < Depth THEN arm' = "write" /\ UNCHANGED polls
     ELSE IF polls = 0     THEN arm' = "idle" /\ UNCHANGED polls
     ELSE arm' = "poll" /\ polls' = polls - 1
  /\ UNCHANGED <<vpuVars, irqVars, mail1, mail0, memVars, word, asked, inUse>>

\* The word goes out and write_word returns true.
WriteWord ==
  /\ arm = "write" /\ arm' = "idle"
  /\ mail1' = IF Len(mail1) < Depth THEN Append(mail1, word) ELSE mail1
  /\ inUse' = IF word \in Requests THEN inUse \cup {word.buf} ELSE inUse
  /\ UNCHANGED <<vpuVars, irqVars, mail0, memVars, word, polls, asked>>

\* The ARM's interrupt handler collects a reply.
CollectReply ==
  /\ mail0 # <<>> /\ arm # "off"
  /\ mail0' = Tail(mail0)
  /\ inUse' = inUse \ {Head(mail0).buf}
  /\ UNCHANGED <<vpuVars, irqVars, mail1, memVars, arm, word, polls, asked>>

Tick ==
  /\ ticks < MaxTicks
  /\ ticks' = ticks + 1 /\ timer' = TRUE
  /\ UNCHANGED <<vpuVars, stranger, mail1, mail0, memVars, armVars>>

RaiseStranger ==
  /\ Strangers /\ ~stranger /\ arm # "off"
  /\ stranger' = TRUE
  /\ UNCHANGED <<vpuVars, ticks, timer, mail1, mail0, memVars, armVars>>

-----------------------------------------------------------------------------

Startup == StartArm \/ EnableInterrupts \/ EnableMailIrq
Handler == TakeIrq \/ DispatchTimer \/ AckTimer \/ DispatchStranger
           \/ ReadMail \/ HandleTag \/ EndTags \/ Post
Sender  == PollFull \/ WriteWord
Client  == CollectReply \/ \E w \in Words, m \in Messages : BeginWrite(w, m)

Next == Startup \/ Handler \/ Sender \/ Client \/ Tick \/ RaiseStranger

Spec == Init /\ [][Next]_vars

\* The VPU runs nothing but this, write_word is a loop, and Linux's mailbox
\* driver empties MAIL0 in its own interrupt handler.
LiveSpec ==
  Spec /\ WF_vars(Startup) /\ WF_vars(Handler) /\ WF_vars(Sender) /\ WF_vars(CollectReply)

-----------------------------------------------------------------------------
(* Properties.                                                               *)

InHand == IF vpu \in {"tags", "post"} THEN <<msg>> ELSE <<>>

Service == INSTANCE MailService WITH waiting <- InHand \o mail1, replies <- mail0

\* The monitor, its boot order and the interrupts around it implement the
\* service: every word that write_word returned true for is served in order and
\* once, also those sent before anybody listened.
ImplementsService == Service!Spec

\* write_word returns true only for a word that is in the mailbox, although the
\* FULL flag is read some time before the word is written: only the ARM fills MAIL1.
WrittenIsSent == [][arm = "write" /\ arm' # "write" => mail1' = Append(mail1, word)]_vars

\* The VPU is done with a buffer whose word has come back.
Replied(b) == [chan |-> PropertyChannel, buf |-> b] \in ToSet(mail0)

\* A tag that has the room it tells of and, if it is the hash's, room for the hash.
Roomy(t) == t.words = (t.size + 3) \div 4 /\ (t.tag = FirmwareHash => t.words >= 5)

\* A reply to a request of one tag tells the truth, as long as the VPU did not write
\* into it from another message: success exactly if the tag is known, and then the
\* response word and the five words of the hash are in place and the end tag is intact.
SingleTagReply ==
  \A b \in Buffers \ spoilt : Replied(b) /\ Len(asked[b]) = 1 /\ Roomy(asked[b][1]) =>
    LET known == asked[b][1].tag = FirmwareHash
    IN  /\ mem[b + 1] = (IF known THEN Success ELSE Error)
        /\ mem[b + 4] = (IF known THEN Handled ELSE 0)
        /\ known => \A i \in 1 .. 5 : mem[b + 4 + i] = Hash[i]
        /\ mem[b + Len(Layout(asked[b])) - 1] = 0

\* And the VPU does write into other messages only for want of room: no request of
\* one roomy tag, not written into itself, makes it.
RoomyKeepsOut ==
  [][spoilt' \subseteq spoilt \/ msg.buf \in spoilt
     \/ Len(asked[msg.buf]) # 1 \/ ~Roomy(asked[msg.buf][1])]_vars

\* The tag loop does not move: a value size of 2^32 - 16 takes back what the header
\* and the padding add.
Stuck ==
  LET a == At(msg.buf, position + 1)
  IN  vpu = "tags" /\ a \in Memory /\ NextTag(position, mem[a]) = position

\* With no more requests under way than MAIL0 has room for, every request is
\* answered -- unless an interrupt that sleh_irq does not know hangs the VPU, or a
\* value size that stops the tag loop does.
Answered ==
  \A b \in Buffers : (b \in inUse) ~> (b \notin inUse \/ stranger \/ Stuck)

\* Where each tag of a request begins, in words.
TagAt(m, k) == Len(Layout(SubSeq(m, 1, k - 1))) - 1

\* What the tag loop means to do ("the header", "padding to align"): look at
\* every tag, so that success means that every tag was handled.
SuccessMeansAllHandled ==
  \A b \in Buffers : Replied(b) /\ mem[b + 1] = Success =>
    \A k \in DOMAIN asked[b] : mem[b + TagAt(asked[b], k) + 2] = Handled
=============================================================================
