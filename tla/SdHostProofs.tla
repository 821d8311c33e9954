---------------------------- MODULE SdHostProofs ----------------------------
(***************************************************************************)
(* Theorems about SdHost, for every block size, set of sectors, FIFO depth, *)
(* set of cards and set of faults: types and words of a read, the clock's   *)
(* switch, the card's state after the bring-up, bad blocks, whole reads.    *)
(***************************************************************************)
EXTENDS SdHost, TLAPS, SequenceTheorems

\* The copy loop reads SH_DATA only while the FIFO holds a word.
FifoHasWord == pc \in {"check", "data"} => fifo # <<>>

TypeInv == TypeOK /\ FifoHasWord

Command == [op : Ops, arg : Nat, st : {"new", "late", "done", "fail"}]
Word    == [addr : Nat, ok : BOOLEAN]

-----------------------------------------------------------------------------
(* What the primitives do to the types.                                      *)

\* wait() adds nothing to seen but the marks of a spoilt run.
LEMMA WaitType == ASSUME TypeOK, Wait PROVE seen' \subseteq Marked
  BY DEF TypeOK, Wait, Marked

\* So does wait() with its result looked at.
LEMMA WaitedType ==
  ASSUME TypeOK, NEW ok \in BOOLEAN, Waited(ok) PROVE seen' \subseteq Marked
  BY DEF TypeOK, Waited, Marked

\* So does reading a response.
LEMMA RespondedType ==
  ASSUME TypeOK, NEW ok \in BOOLEAN, Responded(ok)
  PROVE  r0' \in Responses /\ seen' \subseteq Marked
<1>1. ASSUME Waited(FALSE) PROVE seen' \subseteq Marked
  BY <1>1, WaitedType
<1>2. QED
  BY <1>1 DEF TypeOK, Responded

\* send_raw puts a command of the alphabet in SH_CMD.
LEMMA SendRawType ==
  ASSUME TypeOK, NEW op \in Ops, NEW arg \in Nat, SendRaw(op, arg)
  PROVE  cmd' \in Command /\ errs' \subseteq {"cmd", "data"} /\ seen' \subseteq Marked
  BY WaitType DEF SendRaw, Command

\* A command the card carries out leaves the card well typed.
LEMMA ExecuteType ==
  ASSUME TypeOK, Execute
  PROVE  /\ app' \in BOOLEAN /\ blk512' \in BOOLEAN
         /\ cardSt' \in {"off", "idle", "ready", "ident", "stby", "tran", "data"}
         /\ xfer' \in [next : Nat, left : Nat, bad : BOOLEAN, multi : BOOLEAN]
<1>1. app' \in BOOLEAN /\ blk512' \in BOOLEAN
  BY DEF Execute, TypeOK
<1>2. cardSt' \in {"off", "idle", "ready", "ident", "stby", "tran", "data"}
  BY DEF Execute, TypeOK
<1>3. WordsPerBlock * hblc \in Nat /\ cmd.arg * WordsPerBlock \in Nat
      /\ (cmd.arg \div 512) * WordsPerBlock \in Nat
  BY SdHostAssumption, SMTT(30) DEF TypeOK
<1>4. xfer' \in [next : Nat, left : Nat, bad : BOOLEAN, multi : BOOLEAN]
  BY <1>3 DEF Execute, TypeOK, NoXfer
<1>5. QED
  BY <1>1, <1>2, <1>4

\* What the card answers is a response.
LEMMA AnswerType == Answer \in Responses
  BY DEF Answer, Responses

\* The command line changes nothing of a command but its state.
LEMMA StatusType ==
  ASSUME TypeOK, NEW st \in {"new", "late", "done", "fail"}
  PROVE  [cmd EXCEPT !.st = st] \in Command
  BY DEF TypeOK, Command

-----------------------------------------------------------------------------
(* Type correctness.                                                         *)

\* Types and the FIFO flag before start().
LEMMA TypeInit == Init => TypeInv
<1> SUFFICES ASSUME Init PROVE TypeInv
  OBVIOUS
<1>1. cmd \in Command /\ xfer \in [next : Nat, left : Nat, bad : BOOLEAN, multi : BOOLEAN]
  BY DEF Init, NoCmd, NoXfer, Command, Ops, InitOps
<1>2. Junk \in Word
  BY DEF Junk, Word
<1>3. fifo \in Seq(Word) /\ buf \in Seq(Word)
  <2>1. <<Junk>> \in Seq(Word) /\ <<>> \in Seq(Word)
    BY <1>2
  <2>2. QED
    BY <2>1 DEF Init
<1>4. step \in InitOps /\ r0 \in Responses /\ rsp0 \in Responses
  BY DEF Init, InitOps, Responses
<1>5. flushes \in 0 .. FlushCycles /\ req \in [sector : Nat, count : Nat]
  BY DEF Init, FlushCycles
<1>6. QED
  BY <1>1, <1>3, <1>4, <1>5 DEF Init, TypeInv, TypeOK, FifoHasWord, Command, Word, PCs

\* The bring-up, step by step.
LEMMA TypeBringUp == TypeInv /\ BringUp => TypeInv'
<1> SUFFICES ASSUME TypeInv, BringUp PROVE TypeInv'
  OBVIOUS
<1> USE DEF TypeInv, TypeOK, FifoHasWord, PCs, identVars, callVars, driverVars, regVars,
            cardVars, hwVars
<1>1. CASE Reset
  <2>1. NoCmd \in Command
    BY DEF NoCmd, Command, Ops, InitOps
  <2>2. QED
    BY <1>1, <2>1 DEF Reset, Command
<1>2. CASE SendInit
  <2>1. step \in Ops /\ step' \in InitOps
    BY <1>2 DEF SendInit, Ops, InitOps
  <2>2. cmd' \in Command /\ errs' \subseteq {"cmd", "data"} /\ seen' \subseteq Marked
    BY <1>2, <2>1, SendRawType DEF SendInit
  <2>3. QED
    BY <1>2, <2>1, <2>2 DEF SendInit, Command
<1>3. CASE QueryInterface
  <2>1. r0' \in Responses /\ seen' \subseteq Marked
    BY <1>3, RespondedType DEF QueryInterface
  <2>2. QED
    BY <1>3, <2>1 DEF QueryInterface, InitOps
<1>4. CASE QueryVoltage
  <2>1. r0' \in Responses /\ seen' \subseteq Marked
    BY <1>4, RespondedType DEF QueryVoltage
  <2>2. step' \in InitOps /\ isHC' \in BOOLEAN
    BY <1>4 DEF QueryVoltage, InitOps
  <2>3. QED
    BY <1>4, <2>1, <2>2 DEF QueryVoltage
<1>5. CASE Identify
  <2>1. r0' \in Responses /\ seen' \subseteq Marked
    BY <1>5, RespondedType DEF Identify
  <2>2. step' \in InitOps
    BY <1>5 DEF Identify, AfterIdentify, InitOps
  <2>3. QED
    BY <1>5, <2>1, <2>2 DEF Identify
<1>6. CASE InitFails
  <2>1. r0' \in Responses /\ seen' \subseteq Marked
    BY <1>6, RespondedType, WaitedType DEF InitFails
  <2>2. QED
    BY <1>6, <2>1 DEF InitFails
<1>7. CASE Selected
  <2>1. seen' \subseteq Marked
    BY <1>7, WaitedType DEF Selected
  <2>2. CASE step = "SELECT_CARD" /\ kind.csd = "1.0"
    BY <1>7, <2>1, <2>2 DEF Selected, InitOps
  <2>3. CASE ~(step = "SELECT_CARD" /\ kind.csd = "1.0")
    <3>1. /\ req' = [sector |-> 0, count |-> 1] /\ buf' = <<>> /\ i' = 0 /\ hblc' = 1
          /\ cdiv' = "data" /\ cardReady' = TRUE /\ pc' = "drain" /\ step' = step
      BY <1>7, <2>3 DEF Selected
    <3>2. req' \in [sector : Nat, count : Nat] /\ buf' \in Seq(Word)
      BY <3>1
    <3>3. QED
      BY <1>7, <2>1, <3>1, <3>2 DEF Selected, Word
  <2>4. QED
    BY <2>2, <2>3
<1>8. QED
  BY <1>1, <1>2, <1>3, <1>4, <1>5, <1>6, <1>7 DEF BringUp

\* read_block, step by step.
LEMMA TypeReadBlock == TypeInv /\ ReadBlock => TypeInv'
<1> SUFFICES ASSUME TypeInv, ReadBlock PROVE TypeInv'
  OBVIOUS
<1> USE DEF TypeInv, TypeOK, FifoHasWord, PCs, identVars, callVars, driverVars, regVars,
            cardVars, hwVars
<1>1. CASE DrainWait
  BY <1>1, WaitType DEF DrainWait
<1>2. CASE DrainFifo
  <2>1. fifo' \in Seq(Word)
    <3>1. fifo # <<>> => Tail(fifo) \in Seq(Word)
      BY DEF Word
    <3>2. QED
      BY <1>2, <3>1 DEF DrainFifo, Word
  <2>2. QED
    BY <1>2, <2>1 DEF DrainFifo, Word
<1>3. CASE IssueRead
  <2>1. Address(req.sector) \in Nat
    BY DEF Address
  <2>2. "READ_BLOCK_SINGLE" \in Ops /\ "READ_BLOCK_MULTIPLE" \in Ops
    BY DEF Ops, ReadOps
  <2>3. cmd' \in Command /\ errs' \subseteq {"cmd", "data"} /\ seen' \subseteq Marked
    BY <1>3, <2>1, <2>2, SendRawType DEF IssueRead
  <2>4. QED
    BY <1>3, <2>3 DEF IssueRead, Command
<1>4. CASE SettleRead
  BY <1>4, WaitType DEF SettleRead
<1>5. CASE PollData
  <2>1. seen' \subseteq Marked
    BY <1>5 DEF PollData, Marked
  <2>2. QED
    BY <1>5, <2>1 DEF PollData
<1>6. CASE CheckErrors
  BY <1>6 DEF CheckErrors
<1>7. CASE TakeWord
  <2>1. fifo' \in Seq(Word) /\ buf' \in Seq(Word)
    BY <1>7 DEF TakeWord, Word
  <2>2. QED
    BY <1>7, <2>1 DEF TakeWord, Word
<1>8. CASE FinishRead
  <2>1. "STOP_TRANSMISSION" \in Ops
    BY DEF Ops
  <2>2. cmd' \in Command /\ errs' \subseteq {"cmd", "data"} /\ seen' \subseteq Marked
    BY <1>8, <2>1, SendRawType DEF FinishRead
  <2>3. QED
    BY <1>8, <2>2, SMTT(30) DEF FinishRead, Command, FlushCycles
<1>9. QED
  BY <1>1, <1>2, <1>3, <1>4, <1>5, <1>6, <1>7, <1>8 DEF ReadBlock

\* stop() and the return to the caller.
LEMMA TypeStop == TypeInv /\ (StopSteps \/ Caller) => TypeInv'
<1> SUFFICES ASSUME TypeInv, StopSteps \/ Caller PROVE TypeInv'
  OBVIOUS
<1> USE DEF TypeInv, TypeOK, FifoHasWord, PCs, identVars, callVars, driverVars, regVars,
            cardVars, hwVars
<1>0. "GO_IDLE_STATE" \in Ops /\ NoCmd \in Command
  BY DEF NoCmd, Command, Ops, InitOps
<1>1. CASE FlushFifo
  BY <1>1, SMTT(30) DEF FlushFifo
<1>2. CASE Park
  BY <1>0, <1>2, SendRawType DEF Park, Command
<1>3. CASE Unpower
  BY <1>0, <1>3 DEF Unpower, NoXfer, Command
<1>4. CASE BeginStop
  BY <1>4 DEF BeginStop
<1>5. ASSUME NEW s \in Sectors, NEW n \in 1 .. MaxCount, BeginRead(s, n) PROVE TypeInv'
  <2>1. s \in Nat /\ n \in Nat
    BY SdHostAssumption
  <2>2. req' \in [sector : Nat, count : Nat] /\ buf' \in Seq(Word)
    BY <1>5, <2>1 DEF BeginRead, Word
  <2>3. QED
    BY <1>5, <2>1, <2>2 DEF BeginRead, Word
<1>6. QED
  BY <1>1, <1>2, <1>3, <1>4, <1>5 DEF StopSteps, Caller

\* A step that leaves the driver, the FIFO and the block count alone.
LEMMA TypeOfCard ==
  ASSUME TypeInv, UNCHANGED <<driverVars, hblc, cdiv, fifo, kind, up>>,
         cmd' \in Command, errs' \subseteq {"cmd", "data"}, rsp0' \in Responses,
         app' \in BOOLEAN, blk512' \in BOOLEAN,
         cardSt' \in {"off", "idle", "ready", "ident", "stby", "tran", "data"},
         xfer' \in [next : Nat, left : Nat, bad : BOOLEAN, multi : BOOLEAN],
         seen' \subseteq Marked
  PROVE  TypeInv'
<1>1. /\ pc' \in PCs /\ step' \in InitOps /\ cardReady' \in BOOLEAN /\ isHC' \in BOOLEAN
      /\ askHC' \in BOOLEAN /\ r0' \in Responses
  BY DEF TypeInv, TypeOK, driverVars, identVars
<1>2. /\ flushes' \in 0 .. FlushCycles /\ req' \in [sector : Nat, count : Nat] /\ i' \in Nat
      /\ buf' \in Seq([addr : Nat, ok : BOOLEAN]) /\ ret' \in BOOLEAN
  BY DEF TypeInv, TypeOK, driverVars, callVars
<1>3. /\ hblc' \in Nat /\ cdiv' \in {"ident", "data", "off"}
      /\ fifo' \in Seq([addr : Nat, ok : BOOLEAN]) /\ kind' \in CardKinds /\ up' \in BOOLEAN
  BY DEF TypeInv, TypeOK
<1>4. FifoHasWord'
  BY DEF TypeInv, FifoHasWord, driverVars
<1>5. QED
  BY <1>1, <1>2, <1>3, <1>4 DEF TypeInv, TypeOK, Command

\* Controller and card, step by step.
LEMMA TypeHardware == TypeInv /\ Hardware => TypeInv'
<1> SUFFICES ASSUME TypeInv, Hardware PROVE TypeInv'
  OBVIOUS
<1>0. /\ TypeOK /\ seen \subseteq Marked /\ "other" \in Marked /\ errs \subseteq {"cmd", "data"}
      /\ rsp0 \in Responses
  BY DEF TypeInv, TypeOK, Marked
<1>c. /\ app \in BOOLEAN /\ blk512 \in BOOLEAN
      /\ cardSt \in {"off", "idle", "ready", "ident", "stby", "tran", "data"}
      /\ xfer \in [next : Nat, left : Nat, bad : BOOLEAN, multi : BOOLEAN]
  BY DEF TypeInv, TypeOK
<1>1. CASE Complete
  <2>1. cmd' \in Command
    BY <1>0, <1>1, StatusType DEF Complete
  <2>2. rsp0' \in Responses
    BY <1>0, <1>1, AnswerType DEF Complete
  <2>3. QED
    BY <1>0, <1>1, <2>1, <2>2, ExecuteType, TypeOfCard DEF Complete
<1>2. CASE Reject
  <2>1. cmd' \in Command
    BY <1>0, <1>2, StatusType DEF Reject
  <2>2. QED
    BY <1>0, <1>c, <1>2, <2>1, TypeOfCard DEF Reject, regVars
<1>3. CASE Lose
  <2>1. cmd' \in Command
    BY <1>0, <1>3, StatusType DEF Lose
  <2>2. seen' \subseteq Marked
    BY <1>0, <1>3 DEF Lose, Mark, Marked
  <2>3. QED
    BY <1>0, <1>c, <1>3, <2>1, <2>2, TypeOfCard DEF Lose, regVars, cardVars
<1>4. CASE Garble
  <2>1. cmd' \in Command
    BY <1>0, <1>4, StatusType DEF Garble
  <2>2. QED
    BY <1>0, <1>4, <2>1, ExecuteType, TypeOfCard DEF Garble, regVars
<1>5. CASE Delay
  <2>1. cmd' \in Command
    BY <1>0, <1>5, StatusType DEF Delay
  <2>2. rsp0' \in Responses
    BY <1>0, <1>5, AnswerType DEF Delay
  <2>3. QED
    BY <1>0, <1>5, <2>1, <2>2, ExecuteType, TypeOfCard DEF Delay
<1>6. CASE Report
  <2>1. cmd' \in Command
    BY <1>0, <1>6, StatusType DEF Report
  <2>2. QED
    BY <1>0, <1>c, <1>6, <2>1, TypeOfCard DEF Report, regVars, cardVars
<1> USE DEF TypeInv, TypeOK, FifoHasWord, identVars, callVars, driverVars, regVars, cardVars,
            hwVars
<1>7. ASSUME NEW ok \in BOOLEAN, Feed(ok) PROVE TypeInv'
  <2>1. seen' \subseteq Marked
    BY <1>7 DEF Feed, Marked
  <2>2. xfer' \in [next : Nat, left : Nat, bad : BOOLEAN, multi : BOOLEAN]
    <3>1. xfer.next + 1 \in Nat /\ xfer.left - 1 \in Nat /\ (xfer.bad \/ ~ok) \in BOOLEAN
      BY <1>7, SMTT(30) DEF Feed, Flowing
    <3>2. xfer' = [next |-> xfer.next + 1, left |-> xfer.left - 1, bad |-> xfer.bad \/ ~ok,
                   multi |-> xfer.multi]
      BY <1>7 DEF Feed
    <3>3. QED
      BY <3>1, <3>2
  <2>3. fifo' \in Seq(Word) /\ fifo' # <<>>
    BY <1>7, SMTT(30) DEF Feed, Word
  <2>4. cardSt' \in {"off", "idle", "ready", "ident", "stby", "tran", "data"}
    BY <1>7 DEF Feed
  <2>5. QED
    BY <1>7, <2>1, <2>2, <2>3, <2>4, SMTT(30) DEF Feed, Word
<1>8. CASE JudgeCrc
  <2>1. errs' \subseteq {"cmd", "data"}
    BY <1>8 DEF JudgeCrc
  <2>2. xfer' \in [next : Nat, left : Nat, bad : BOOLEAN, multi : BOOLEAN]
    BY <1>8 DEF JudgeCrc
  <2>3. QED
    BY <1>8, <2>1, <2>2 DEF JudgeCrc
<1>9. CASE PowerUp
  BY <1>9 DEF PowerUp
<1>10. QED
  BY <1>1, <1>2, <1>3, <1>4, <1>5, <1>6, <1>7, <1>8, <1>9 DEF Hardware, CommandLine, DataLine

\* Types and the FIFO flag, throughout.
LEMMA TypeInvariant == Spec => []TypeInv
<1>1. TypeInv /\ UNCHANGED vars => TypeInv'
  BY DEF TypeInv, TypeOK, FifoHasWord, vars, identVars, callVars, driverVars, regVars, cardVars, hwVars
<1>2. TypeInv /\ [Next]_vars => TypeInv'
  BY <1>1, TypeBringUp, TypeReadBlock, TypeStop, TypeHardware DEF Next, Driver
<1>3. QED
  BY <1>2, TypeInit, PTL DEF Spec

\* Every variable of the driver, the controller and the card keeps its type.
THEOREM TypeCorrect == Spec => []TypeOK
  BY TypeInvariant, PTL DEF TypeInv

-----------------------------------------------------------------------------
(* The stream invariant: where the words in the FIFO come from.              *)

\* Answers tell the truth about the card, and what the driver concludes from
\* them does too once it has identified the card.
Identified == {"ALL_SEND_CID", "SET_RELATIVE_ADDR", "SEND_CID", "SEND_CSD", "SELECT_CARD",
               "SET_BLOCKLEN"}

Honest ==
  /\ rsp0 = "ready_hc" => kind.hc
  /\ rsp0 = "ready" => ~kind.hc
  /\ step \in Identified => isHC = kind.hc
  /\ pc \notin {"reset", "send", "await", "panic"} => step \in Identified

\* Only a card in its data state has words left to send.
OnlyDataFlows == cardSt # "data" => xfer.left = 0

\* Before the first read there is no data phase and nothing in the buffer.
BringUpQuiet ==
  pc \in {"reset", "send", "await", "panic"} =>
    /\ cardSt # "data" /\ buf = <<>> /\ flushes = FlushCycles
    /\ cmd.op \in InitOps

\* Between reads only the STOP can still be on its way.
StopPending ==
  pc \in {"drain", "idle"} =>
    /\ cmd.st = "new" => cmd.op = "STOP_TRANSMISSION"
    /\ cmd.st # "new" => xfer.left = 0
    /\ cmd.op \notin ReadOps

\* The FIFO is drained after the STOP has settled, so it stays drained.
Drained ==
  /\ pc \in {"drainFifo", "issue"} => ~Pending /\ xfer.left = 0 /\ cmd.op \notin ReadOps
  /\ pc = "issue" => fifo = <<>>

\* From the read command on, FIFO and card continue where the buffer ends.
Streaming ==
  pc \in {"settle", "poll", "check", "data"} =>
    /\ cmd.op \in ReadOps /\ cmd.arg = Address(req.sector)
    /\ cmd.st = "new" => xfer.left = 0 /\ fifo = <<>> /\ i = 0
    /\ \A n \in 1 .. Len(fifo) : fifo[n].addr = Wanted(i + n)
    /\ xfer.left > 0 => xfer.next = Wanted(i + Len(fifo) + 1)

\* The buffer is empty during the flush reads and follows i afterwards.
Counted ==
  /\ flushes > 0 => buf = <<>>
  /\ pc \in {"drain", "drainFifo", "issue", "settle"} => i = 0 /\ buf = <<>>
  /\ pc \in {"poll", "check", "data"} /\ flushes = 0 => Len(buf) = i

AllRight == \A n \in 1 .. Len(buf) : buf[n].addr = Wanted(n)

Base    == Honest /\ OnlyDataFlows /\ BringUpQuiet /\ Counted
Stream  == StopPending /\ Drained /\ Streaming /\ AllRight
StreamInv == Base /\ (Trusted => Stream)

-----------------------------------------------------------------------------
(* The part that holds whatever goes wrong.                                  *)

\* Which command makes the card send, and which makes it stop.
LEMMA ExecuteFlow ==
  ASSUME TypeOK, OnlyDataFlows, Accepts(cmd.op), Execute
  PROVE  /\ OnlyDataFlows'
         /\ cmd.op \notin ReadOps /\ xfer.left = 0 => xfer'.left = 0
         /\ cmd.op = "STOP_TRANSMISSION" => xfer'.left = 0
         /\ cmd.op \in InitOps /\ cardSt # "data" => cardSt' # "data"
<1>1. CASE cmd.op \in ReadOps
  BY <1>1 DEF Execute, OnlyDataFlows, ReadOps, InitOps
<1>2. CASE cmd.op \in {"STOP_TRANSMISSION", "GO_IDLE_STATE"}
  BY <1>2 DEF Execute, OnlyDataFlows, NoXfer, ReadOps
<1>3. CASE cmd.op \notin ReadOps \cup {"STOP_TRANSMISSION", "GO_IDLE_STATE"}
  <2>1. xfer' = xfer
    BY <1>3 DEF Execute
  <2>2. cardSt # "data" /\ cardSt' # "data"
    BY <1>3 DEF Execute, Accepts, ReadOps
  <2>3. QED
    BY <1>3, <2>1, <2>2 DEF OnlyDataFlows
<1>4. QED
  BY <1>1, <1>2, <1>3

\* Nothing is in the FIFO before start().
LEMMA BaseInit == Init => Base
  BY DEF Init, Base, Honest, OnlyDataFlows, BringUpQuiet, Counted, Identified, NoXfer, NoCmd,
         InitOps

\* The bring-up asks for no data.
LEMMA BaseBringUp == TypeInv /\ Base /\ BringUp => Base'
<1> SUFFICES ASSUME TypeInv, Base, BringUp PROVE Base'
  OBVIOUS
<1> USE DEF Base, Honest, OnlyDataFlows, BringUpQuiet, Counted, Identified,
            identVars, callVars, driverVars, regVars, cardVars, hwVars
<1>1. CASE Reset
  BY <1>1 DEF Reset, NoCmd, InitOps
<1>2. CASE SendInit
  <2>1. step \in InitOps
    BY DEF TypeInv, TypeOK
  <2>2. cmd'.op = step
    BY <1>2 DEF SendInit, SendRaw
  <2>3. step' \in Identified => step' = step
    BY <1>2 DEF SendInit
  <2>4. QED
    BY <1>2, <2>1, <2>2, <2>3 DEF SendInit
<1>3. CASE QueryInterface
  BY <1>3 DEF QueryInterface
<1>4. CASE QueryVoltage
  <2>1. r0' = rsp0
    BY <1>4 DEF QueryVoltage, Responded, Waited
  <2>2. kind.hc \in BOOLEAN /\ kind' = kind /\ rsp0' = rsp0
    BY <1>4, SdHostAssumption DEF QueryVoltage, TypeInv, TypeOK
  <2>3. step' \in Identified => isHC' = kind.hc
    BY <1>4, <2>1, <2>2 DEF QueryVoltage
  <2>4. QED
    BY <1>4, <2>2, <2>3 DEF QueryVoltage
<1>5. CASE Identify
  BY <1>5 DEF Identify
<1>6. CASE InitFails
  BY <1>6 DEF InitFails
<1>7. CASE Selected
  BY <1>7 DEF Selected, FlushCycles
<1>8. QED
  BY <1>1, <1>2, <1>3, <1>4, <1>5, <1>6, <1>7 DEF BringUp

\* read_block sends the data commands and reads the FIFO.
LEMMA BaseReadBlock == TypeInv /\ Base /\ ReadBlock => Base'
<1> SUFFICES ASSUME TypeInv, Base, ReadBlock PROVE Base'
  OBVIOUS
<1> USE DEF Base, Honest, OnlyDataFlows, BringUpQuiet, Counted,
            identVars, callVars, driverVars, regVars, cardVars, hwVars
<1>1. CASE DrainWait
  BY <1>1 DEF DrainWait
<1>2. CASE DrainFifo
  BY <1>2 DEF DrainFifo
<1>3. CASE IssueRead
  BY <1>3 DEF IssueRead
<1>4. CASE SettleRead
  BY <1>4 DEF SettleRead
<1>5. CASE PollData
  BY <1>5 DEF PollData
<1>6. CASE CheckErrors
  BY <1>6 DEF CheckErrors
<1>7. CASE TakeWord
  <2>1. flushes = 0 => Len(buf') = Len(buf) + 1
    BY <1>7 DEF TakeWord, TypeInv, TypeOK
  <2>2. QED
    BY <1>7, <2>1 DEF TakeWord, TypeInv, TypeOK, FlushCycles
<1>8. CASE FinishRead
  BY <1>8 DEF FinishRead, TypeInv, TypeOK, FlushCycles
<1>9. QED
  BY <1>1, <1>2, <1>3, <1>4, <1>5, <1>6, <1>7, <1>8 DEF ReadBlock

\* stop() asks for no data.
LEMMA BaseStop == TypeInv /\ Base /\ (StopSteps \/ Caller) => Base'
<1> SUFFICES ASSUME TypeInv, Base, StopSteps \/ Caller PROVE Base'
  OBVIOUS
<1> USE DEF Base, Honest, OnlyDataFlows, BringUpQuiet, Counted,
            identVars, callVars, driverVars, regVars, cardVars, hwVars
<1>1. CASE FlushFifo
  BY <1>1 DEF FlushFifo
<1>2. CASE Park
  BY <1>2 DEF Park
<1>3. CASE Unpower
  BY <1>3 DEF Unpower, NoXfer
<1>4. CASE BeginStop
  BY <1>4 DEF BeginStop
<1>5. ASSUME NEW s \in Sectors, NEW n \in 1 .. MaxCount, BeginRead(s, n) PROVE Base'
  BY <1>5 DEF BeginRead
<1>6. QED
  BY <1>1, <1>2, <1>3, <1>4, <1>5 DEF StopSteps, Caller

\* Words come only from a card that is sending.
LEMMA BaseHardware == TypeInv /\ Base /\ Hardware => Base'
<1> SUFFICES ASSUME TypeInv, Base, Hardware PROVE Base'
  OBVIOUS
<1> USE DEF TypeInv, Base, Honest, BringUpQuiet, Counted,
            identVars, callVars, driverVars, regVars, cardVars, hwVars
<1>1. /\ Answer = "ready_hc" => kind.hc
      /\ Answer = "ready" => ~kind.hc
  BY DEF Answer
<1>2. \A st \in {"new", "late", "done", "fail"} : [cmd EXCEPT !.st = st].op = cmd.op
  BY DEF TypeOK
<1>3. CASE Complete
  BY <1>1, <1>2, <1>3, ExecuteFlow DEF Complete
<1>4. CASE Reject
  BY <1>2, <1>4 DEF Reject, OnlyDataFlows
<1>5. CASE Lose
  BY <1>2, <1>5 DEF Lose, OnlyDataFlows
<1>6. CASE Garble
  BY <1>2, <1>6, ExecuteFlow DEF Garble
<1>7. CASE Delay
  BY <1>1, <1>2, <1>7, ExecuteFlow DEF Delay
<1>8. CASE Report
  BY <1>2, <1>8 DEF Report, OnlyDataFlows
<1>9. ASSUME NEW ok \in BOOLEAN, Feed(ok) PROVE Base'
  <2>1. xfer'.left = xfer.left - 1 /\ cardSt = "data"
    BY <1>9 DEF Feed, Flowing, TypeOK
  <2>2. OnlyDataFlows'
    BY <1>9, <2>1 DEF Feed, OnlyDataFlows
  <2>3. QED
    BY <1>9, <2>1, <2>2 DEF Feed
<1>10. CASE JudgeCrc
  BY <1>10 DEF JudgeCrc, OnlyDataFlows, TypeOK
<1>11. CASE PowerUp
  BY <1>11 DEF PowerUp, OnlyDataFlows
<1>12. QED
  BY <1>3, <1>4, <1>5, <1>6, <1>7, <1>8, <1>9, <1>10, <1>11 DEF Hardware, CommandLine, DataLine

-----------------------------------------------------------------------------
(* The part that holds while Trusted does.                                   *)

\* What has spoilt a run once has spoilt it for good.
LEMMA SeenGrows == Next => seen \subseteq seen'
<1> SUFFICES ASSUME Next PROVE seen \subseteq seen'
  OBVIOUS
<1>1. Wait => seen \subseteq seen'
  BY DEF Wait
<1>2. \A ok \in BOOLEAN : Waited(ok) => seen \subseteq seen'
  BY DEF Waited
<1>3. \A ok \in BOOLEAN : Responded(ok) => seen \subseteq seen'
  BY <1>2 DEF Responded
<1>4. BringUp => seen \subseteq seen'
  BY <1>1, <1>2, <1>3 DEF BringUp, Reset, SendInit, SendRaw, QueryInterface, QueryVoltage,
     Identify, InitFails, Selected
<1>5. ReadBlock => seen \subseteq seen'
  BY <1>1 DEF ReadBlock, DrainWait, DrainFifo, IssueRead, SendRaw, SettleRead, PollData,
     CheckErrors, TakeWord, FinishRead
<1>6. StopSteps \/ Caller => seen \subseteq seen'
  BY <1>1 DEF StopSteps, FlushFifo, Park, SendRaw, Unpower, Caller, BeginStop, BeginRead
<1>7. Hardware => seen \subseteq seen'
  BY DEF Hardware, CommandLine, DataLine, Complete, Reject, Lose, Garble, Delay, Report, Feed,
     JudgeCrc, PowerUp
<1>8. QED
  BY <1>4, <1>5, <1>6, <1>7 DEF Next, Driver

\* A wait that leaves the run trusted has seen the command settle.
LEMMA TrustedWait == Wait /\ Trusted' => ~Pending
  BY DEF Wait, Trusted

\* No stream is open during the bring-up.
LEMMA StreamBringUp == TypeInv /\ Base /\ BringUp /\ Trusted' => Stream'
<1> SUFFICES ASSUME TypeInv, Base, BringUp, Trusted' PROVE Stream'
  OBVIOUS
<1> USE DEF Base, OnlyDataFlows, BringUpQuiet, Stream, StopPending, Drained, Streaming, AllRight
<1>1. buf = <<>> /\ xfer.left = 0 /\ cmd.op \in InitOps
  BY DEF BringUp, Reset, SendInit, QueryInterface, QueryVoltage, Identify, InitFails, Selected
<1>2. CASE Selected
  <2>1. buf' = <<>> /\ pc' \in {"send", "drain"} /\ cmd' = cmd /\ xfer' = xfer /\ ~Pending
    BY <1>1, <1>2 DEF Selected, Waited
  <2>2. cmd.st # "new" /\ cmd.op \notin ReadOps
    BY <1>1, <2>1 DEF Pending, InitOps, ReadOps
  <2>3. QED
    BY <1>1, <2>1, <2>2
<1>3. CASE ~Selected
  <2>1. buf' = <<>> /\ pc' \in {"send", "await", "panic"}
    BY <1>1, <1>3 DEF BringUp, Reset, SendInit, QueryInterface, QueryVoltage, Identify, InitFails,
       callVars, identVars
  <2>2. QED
    BY <2>1
<1>4. QED
  BY <1>2, <1>3

\* A read opens its stream on an empty FIFO and closes it again.
LEMMA StreamReadBlock == TypeInv /\ Base /\ Stream /\ ReadBlock /\ Trusted' => Stream'
<1> SUFFICES ASSUME TypeInv, Base, Stream, ReadBlock, Trusted' PROVE Stream'
  OBVIOUS
<1> USE DEF Stream, StopPending, Drained, Streaming, AllRight, Wanted, Address, Pending,
            identVars, callVars, driverVars, regVars, cardVars, hwVars
<1>1. CASE DrainWait
  BY <1>1, TrustedWait DEF DrainWait
<1>2. CASE DrainFifo
  BY <1>2 DEF DrainFifo
<1>3. CASE IssueRead
  BY <1>3 DEF IssueRead, SendRaw, Base, Counted, ReadOps
<1>4. CASE SettleRead
  BY <1>4 DEF SettleRead
<1>5. CASE PollData
  BY <1>5 DEF PollData
<1>6. CASE CheckErrors
  BY <1>6 DEF CheckErrors
<1>7. CASE TakeWord
  <2>1. /\ fifo \in Seq(Word) /\ fifo # <<>> /\ buf \in Seq(Word) /\ i \in Nat
        /\ req \in [sector : Nat, count : Nat]
    BY <1>7 DEF TakeWord, TypeInv, TypeOK, FifoHasWord, Word
  <2>2. /\ Len(Tail(fifo)) = Len(fifo) - 1
        /\ \A n \in 1 .. Len(Tail(fifo)) : Tail(fifo)[n] = fifo[n + 1]
        /\ Head(fifo) = fifo[1]
    BY <2>1
  <2>3. /\ \A n \in 1 .. Len(fifo) : fifo[n].addr = Wanted(i + n)
        /\ xfer.left > 0 => xfer.next = Wanted(i + Len(fifo) + 1)
        /\ cmd.op \in ReadOps /\ cmd.arg = Address(req.sector) /\ cmd.st # "new"
    BY <1>7, <2>1 DEF TakeWord
  <2>4. /\ pc' = "poll" /\ i' = i + 1 /\ fifo' = Tail(fifo)
        /\ cmd' = cmd /\ xfer' = xfer /\ req' = req /\ isHC' = isHC
    BY <1>7 DEF TakeWord
  <2>5. Streaming'
    <3> DEFINE k == Len(fifo)
    <3>1. k \in Nat /\ k > 0
      BY <2>1
    <3>2. ASSUME NEW n \in 1 .. Len(fifo') PROVE fifo'[n].addr = Wanted((i + 1) + n)
      <4>1. fifo'[n] = fifo[n + 1] /\ n + 1 \in 1 .. Len(fifo)
        BY <2>1, <2>2, <2>4, <3>1
      <4>2. fifo[n + 1].addr = Wanted(i + (n + 1)) /\ i + (n + 1) = (i + 1) + n
        BY <2>1, <2>3, <4>1
      <4>3. QED
        BY <4>1, <4>2
    <3>3. i' + Len(fifo') + 1 = i + Len(fifo) + 1
      BY <2>1, <2>2, <2>4, <3>1
    <3>4. xfer.left > 0 => xfer.next = Wanted((i + 1) + Len(fifo') + 1)
      <4>1. (i + 1) + Len(fifo') + 1 = i + Len(fifo) + 1
        BY <2>4, <3>3
      <4>2. QED
        BY <2>3, <4>1
    <3>5. QED
      BY <2>3, <2>4, <3>2, <3>4
  <2>6. AllRight'
    <3>1. CASE flushes = 0
      <4>1. buf' = Append(buf, Head(fifo)) /\ Len(buf) = i
        BY <1>7, <3>1 DEF TakeWord, Base, Counted
      <4>2. /\ Len(buf') = Len(buf) + 1 /\ buf'[Len(buf) + 1] = Head(fifo)
            /\ \A n \in 1 .. Len(buf) : buf'[n] = buf[n]
        BY <2>1, <4>1
      <4>3. fifo[1].addr = Wanted(i + 1)
        BY <2>1, <2>3
      <4>4. QED
        BY <2>1, <2>2, <2>4, <4>1, <4>2, <4>3
    <3>2. CASE flushes # 0
      BY <1>7, <2>4, <3>2 DEF TakeWord
    <3>3. QED
      BY <3>1, <3>2
  <2>7. QED
    BY <2>4, <2>5, <2>6
<1>8. CASE FinishRead
  BY <1>8 DEF FinishRead, SendRaw, ReadOps
<1>9. QED
  BY <1>1, <1>2, <1>3, <1>4, <1>5, <1>6, <1>7, <1>8 DEF ReadBlock

\* stop() finds no stream open.
LEMMA StreamStop == TypeInv /\ Base /\ Stream /\ (StopSteps \/ Caller) => Stream'
<1> SUFFICES ASSUME TypeInv, Base, Stream, StopSteps \/ Caller PROVE Stream'
  OBVIOUS
<1> USE DEF Stream, StopPending, Drained, Streaming, AllRight, Wanted, Pending,
            identVars, callVars, driverVars, regVars, cardVars, hwVars
<1>1. CASE FlushFifo
  BY <1>1 DEF FlushFifo
<1>2. CASE Park
  BY <1>2 DEF Park
<1>3. CASE Unpower
  BY <1>3 DEF Unpower
<1>4. CASE BeginStop
  BY <1>4 DEF BeginStop
<1>5. ASSUME NEW s \in Sectors, NEW n \in 1 .. MaxCount, BeginRead(s, n) PROVE Stream'
  BY <1>5 DEF BeginRead
<1>6. QED
  BY <1>1, <1>2, <1>3, <1>4, <1>5 DEF StopSteps, Caller

\* The card adds the next word of the stream, the controller moves it on.
LEMMA StreamHardware == TypeInv /\ Base /\ Stream /\ Hardware /\ Trusted' => Stream'
<1> SUFFICES ASSUME TypeInv, Base, Stream, Hardware, Trusted' PROVE Stream'
  OBVIOUS
<1> USE DEF Stream, StopPending, Drained, Streaming, AllRight, Wanted, Address, Pending,
            identVars, callVars, driverVars, regVars, cardVars, hwVars
<1>1. \A st \in {"new", "late", "done", "fail"} :
        LET c == [cmd EXCEPT !.st = st]
        IN  c.op = cmd.op /\ c.arg = cmd.arg /\ c.st = st
  BY DEF TypeInv, TypeOK
<1>2. ASSUME cmd.st = "new", Accepts(cmd.op), Execute, UNCHANGED <<driverVars, fifo, kind>>,
             NEW st \in {"late", "done", "fail"}, cmd' = [cmd EXCEPT !.st = st]
      PROVE  Stream'
  <2>1. cmd'.op = cmd.op /\ cmd'.arg = cmd.arg /\ cmd'.st = st
    BY <1>1, <1>2
  <2>2. StopPending' /\ Drained'
    BY <1>2, <2>1, ExecuteFlow DEF Base, TypeInv
  <2>3. ASSUME pc \in {"settle", "poll", "check", "data"}
        PROVE  xfer'.next = Wanted(1) /\ fifo = <<>> /\ i = 0
    <3>1. cmd.op \in ReadOps /\ cmd.arg = Address(req.sector) /\ fifo = <<>> /\ i = 0
      BY <1>2, <2>3
    <3>2. xfer'.next = (IF kind.hc THEN cmd.arg ELSE cmd.arg \div 512) * WordsPerBlock
      BY <1>2, <3>1 DEF Execute, ReadOps
    <3>3. isHC = kind.hc
      BY <2>3 DEF Base, Honest
    <3>4. req.sector \in Nat /\ (req.sector * 512) \div 512 = req.sector
      BY DEF TypeInv, TypeOK
    <3>5. QED
      BY <3>1, <3>2, <3>3, <3>4, SdHostAssumption
  <2>4. Streaming'
    BY <1>2, <2>1, <2>3
  <2>5. QED
    BY <1>2, <2>2, <2>4
<1>3. CASE Complete
  BY <1>2, <1>3 DEF Complete
<1>4. CASE Reject
  <2>1. cmd.op = "STOP_TRANSMISSION" => xfer.left = 0
    BY <1>4 DEF Reject, Accepts, Base, OnlyDataFlows
  <2>2. QED
    BY <1>1, <1>4, <2>1 DEF Reject
<1>5. CASE Lose
  <2>1. cmd.op # "STOP_TRANSMISSION"
    BY <1>5 DEF Lose, Mark, Marked, Trusted
  <2>2. QED
    BY <1>1, <1>5, <2>1 DEF Lose
<1>6. CASE Garble
  BY <1>2, <1>6 DEF Garble
<1>7. CASE Delay
  BY <1>2, <1>7 DEF Delay
<1>8. CASE Report
  BY <1>1, <1>8 DEF Report
<1>9. ASSUME NEW ok \in BOOLEAN, Feed(ok) PROVE Stream'
  <2>1. /\ xfer.left > 0 /\ xfer'.left = xfer.left - 1 /\ xfer'.next = xfer.next + 1
        /\ fifo' = Append(fifo, [addr |-> xfer.next, ok |-> ok])
        /\ cmd' = cmd /\ UNCHANGED driverVars
    BY <1>9 DEF Feed, Flowing, TypeInv, TypeOK
  <2>2. fifo \in Seq(Word) /\ i \in Nat /\ xfer.left \in Nat /\ xfer.next \in Nat
    BY DEF TypeInv, TypeOK, Word
  <2>3. /\ Len(fifo') = Len(fifo) + 1 /\ fifo'[Len(fifo) + 1].addr = xfer.next
        /\ \A n \in 1 .. Len(fifo) : fifo'[n] = fifo[n]
    BY <2>1, <2>2
  <2>4. ASSUME pc \in {"settle", "poll", "check", "data"} PROVE Streaming'
    <3>1. ASSUME NEW n \in 1 .. Len(fifo') PROVE fifo'[n].addr = Wanted(i + n)
      <4>1. CASE n = Len(fifo) + 1
        <5>1. xfer.next = Wanted(i + Len(fifo) + 1) /\ i + Len(fifo) + 1 = i + n
          BY <2>1, <2>2, <2>4, <4>1
        <5>2. QED
          BY <2>3, <4>1, <5>1
      <4>2. CASE n # Len(fifo) + 1
        <5>1. n \in 1 .. Len(fifo)
          BY <2>2, <2>3, <4>2
        <5>2. QED
          BY <2>3, <2>4, <5>1
      <4>3. QED
        BY <4>1, <4>2
    <3>2. xfer'.next = Wanted(i + Len(fifo') + 1)
      <4>1. /\ xfer.next = Wanted(i + Len(fifo) + 1) /\ xfer'.next = xfer.next + 1
            /\ Len(fifo') = Len(fifo) + 1
        BY <2>1, <2>3, <2>4
      <4>2. req.sector * WordsPerBlock \in Nat /\ i \in Nat /\ Len(fifo) \in Nat
        BY <2>2, SdHostAssumption DEF TypeInv, TypeOK
      <4> DEFINE start == req.sector * WordsPerBlock
      <4> HIDE DEF start
      <4>3. start \in Nat /\ \A m \in Nat : Wanted(m) = start + m - 1
        BY <4>2 DEF start, Wanted
      <4>4. QED
        BY <4>1, <4>2, <4>3
    <3>3. QED
      BY <2>1, <2>4, <3>1, <3>2
  <2>5. pc \notin {"drainFifo", "issue"}
    BY <2>1, <2>2
  <2>6. ASSUME pc \in {"drain", "idle"} PROVE cmd.st = "new"
    BY <2>1, <2>2, <2>6
  <2>7. QED
    BY <2>1, <2>4, <2>5, <2>6
<1>10. CASE JudgeCrc
  <2>1. xfer'.left = xfer.left /\ xfer'.next = xfer.next
    BY <1>10 DEF JudgeCrc, TypeInv, TypeOK
  <2>2. QED
    BY <1>10, <2>1 DEF JudgeCrc
<1>11. CASE PowerUp
  BY <1>11 DEF PowerUp
<1>12. QED
  BY <1>3, <1>4, <1>5, <1>6, <1>7, <1>8, <1>9, <1>10, <1>11 DEF Hardware, CommandLine, DataLine

\* No stream is open at the start.
LEMMA StreamInit == Init => Stream
  BY DEF Init, Stream, StopPending, Drained, Streaming, AllRight

\* The stream invariant, relative to the type invariant.
LEMMA StreamInvariant == Spec => []StreamInv
<1>1. Init => StreamInv
  BY BaseInit, StreamInit DEF StreamInv
<1>2. TypeInv /\ StreamInv /\ Next => StreamInv'
  <2> SUFFICES ASSUME TypeInv, StreamInv, Next PROVE StreamInv'
    OBVIOUS
  <2>1. Base'
    BY BaseBringUp, BaseReadBlock, BaseStop, BaseHardware DEF StreamInv, Next, Driver
  <2>2. Trusted' => Trusted
    BY SeenGrows DEF Trusted
  <2>3. Trusted' => Stream'
    BY <2>2, StreamBringUp, StreamReadBlock, StreamStop, StreamHardware
       DEF StreamInv, Next, Driver
  <2>4. QED
    BY <2>1, <2>3 DEF StreamInv
<1>3. StreamInv /\ UNCHANGED vars => StreamInv'
  BY DEF StreamInv, Base, Honest, OnlyDataFlows, BringUpQuiet, Counted, Stream, StopPending,
     Drained, Streaming, AllRight, Wanted, Address, Pending, Trusted, vars, identVars, callVars,
     driverVars, regVars, cardVars, hwVars
<1>4. QED
  BY <1>1, <1>2, <1>3, TypeInvariant, PTL DEF Spec

\* For every block size, FIFO depth, card and mixture of faults: what read_block
\* stores is a prefix of what was asked for, as long as no wait() ran out and no
\* STOP was lost on a sending card.
THEOREM ReadsAreRight == Spec => []RightWords
<1>1. StreamInv => RightWords
  BY DEF StreamInv, Stream, AllRight, RightWords
<1>2. QED
  BY <1>1, StreamInvariant, PTL

-----------------------------------------------------------------------------
(* The card's state during the bring-up, and after it.                       *)

\* The card's state before and after each command of identify_card() and select_card().
Before(op) == CASE op = "ALL_SEND_CID"                              -> "ready"
                [] op = "SET_RELATIVE_ADDR"                         -> "ident"
                [] op \in {"SEND_CID", "SEND_CSD", "SELECT_CARD"}   -> "stby"
                [] OTHER                                            -> "tran"

After(op) == CASE op = "ALL_SEND_CID"                                    -> "ident"
               [] op \in {"SET_RELATIVE_ADDR", "SEND_CID", "SEND_CSD"}   -> "stby"
               [] OTHER                                                  -> "tran"

\* The card missed one of the two commands whose fail flag nobody looks at.
Unchecked == {"SELECT_CARD", "SET_BLOCKLEN"}
Missed == seen \cap Unchecked # {}

\* What is known at pc = "await".
Answering ==
  /\ cmd.op = step
  /\ step = "APP_OP_COND" /\ cmd.st \in {"late", "done"} /\ rsp0 \in {"ready", "ready_hc"}
       => cardSt = "ready"
  /\ step \in Identified =>
       \/ cmd.st = "new" /\ cardSt = Before(step)
       \/ cmd.st # "new" /\ cardSt = After(step) /\ (step = "SET_BLOCKLEN" => blk512)
       \/ cmd.st = "fail" /\ step \notin Unchecked

Asking == step \in Identified => ~Pending /\ cardSt = Before(step)

\* A card with CSD 2.0 counts in blocks of 512; a card the driver selects has a known CSD.
BlocksKnown ==
  /\ kind.csd = "2.0" /\ cardSt \notin {"off", "idle"} => blk512
  /\ pc # "panic" /\ step \in Unchecked => kind.csd # "other"

BringUpPCs == {"reset", "send", "await", "panic"}
EndPCs     == {"unpower", "stopped"}

\* In between the card transfers, or is about to.
InUse ==
  /\ cardSt \in {"tran", "data"} /\ blk512
  /\ cmd.st = "new" => cmd.op \in ReadOps \cup {"STOP_TRANSMISSION"}

CardInv ==
  /\ cardReady => pc \notin BringUpPCs
  /\ pc = "reset" => step = "GO_IDLE_STATE"
  /\ BlocksKnown
  /\ \/ Missed
     \/ /\ pc = "send" => Asking
        /\ pc = "await" => Answering
        /\ pc \notin BringUpPCs \cup EndPCs => InUse

\* The bring-up takes the card from state to state.
LEMMA CardBringUp == TypeInv /\ Base /\ CardInv /\ BringUp => CardInv'
<1> SUFFICES ASSUME TypeInv, Base, CardInv, BringUp PROVE CardInv'
  OBVIOUS
<1> USE DEF identVars, callVars, driverVars, regVars, cardVars, hwVars
<1>1. Missed => Missed'
  BY SeenGrows DEF Missed, Next, Driver
<1>2. ~cardReady /\ pc \in BringUpPCs
  BY DEF CardInv, BringUp, Reset, SendInit, QueryInterface, QueryVoltage, Identify, InitFails, Selected,
     BringUpPCs
<1>3. CASE Reset
  <2>1. pc' = "send" /\ step' = step /\ cardReady' = cardReady /\ cardSt' = "idle" /\ kind' = kind
        /\ blk512' = blk512 /\ seen' = seen /\ pc = "reset"
    BY <1>3 DEF Reset
  <2>2. step = "GO_IDLE_STATE"
    BY <2>1 DEF CardInv
  <2> QED
    BY <1>2, <2>1, <2>2 DEF CardInv, Asking, Identified, BlocksKnown, Unchecked, BringUpPCs
<1>4. ASSUME ~Reset, ~Selected PROVE cardReady' = cardReady /\ pc' \in BringUpPCs /\ pc' # "reset"
             /\ cardSt' = cardSt /\ blk512' = blk512 /\ kind' = kind
  BY <1>4 DEF BringUp, SendInit, QueryInterface, QueryVoltage, Identify, InitFails, BringUpPCs
<1>5. CASE SendInit
  <2>1. pc = "send" /\ cmd'.op = step /\ cmd'.st = "new"
        /\ pc' = (IF Awaited(step) THEN "await" ELSE "send") /\ cardSt' = cardSt
    BY <1>5 DEF SendInit, SendRaw
  <2>2. \/ step = "GO_IDLE_STATE" /\ step' = "SEND_IF_COND" /\ pc' = "send"
        \/ step = "APP_CMD" /\ step' = "APP_OP_COND" /\ pc' = "send"
        \/ step \notin {"GO_IDLE_STATE", "APP_CMD"} /\ step' = step /\ pc' = "await"
    BY <1>5, <2>1 DEF SendInit, Awaited
  <2>3. BlocksKnown'
    BY <1>4, <1>5, <2>1, <2>2 DEF CardInv, BlocksKnown, Unchecked, SendInit, Reset, Selected
  <2>4. ASSUME ~Missed PROVE (pc' = "send" => Asking') /\ (pc' = "await" => Answering')
    <3>1. Asking
      BY <2>1, <2>4 DEF CardInv
    <3>2. pc' = "send" => Asking'
      BY <2>2 DEF Asking, Identified
    <3>3. pc' = "await" => Answering'
      BY <2>1, <2>2, <3>1 DEF Asking, Answering, Before, Identified
    <3> QED
      BY <3>2, <3>3
  <2> QED
    BY <1>1, <1>2, <1>4, <2>1, <2>3, <2>4 DEF CardInv, Reset, Selected, BringUpPCs
<1>6. CASE QueryInterface
  BY <1>1, <1>2, <1>6 DEF QueryInterface, CardInv, Asking, Identified, BringUpPCs, BlocksKnown, Unchecked
<1>7. CASE QueryVoltage
  <2>1. cmd.st = "done" /\ r0' = rsp0 /\ pc = "await" /\ step = "APP_OP_COND" /\ pc' = "send"
        /\ cmd' = cmd /\ rsp0' = rsp0
        /\ \/ r0' \in {"ready", "ready_hc"} /\ step' = "ALL_SEND_CID"
           \/ step' = "APP_CMD"
    BY <1>7 DEF QueryVoltage, Responded
  <2>2. ASSUME ~Missed PROVE Asking'
    <3>1. Answering
      BY <2>1, <2>2 DEF CardInv
    <3> QED
      BY <1>7, <2>1, <3>1 DEF Answering, Asking, Identified, Before, Pending, QueryVoltage
  <2> QED
    BY <1>1, <1>2, <1>7, <2>1, <2>2 DEF QueryVoltage, CardInv, BringUpPCs, BlocksKnown, Unchecked
<1>8. CASE Identify
  <2>1. cmd.st = "done" /\ pc = "await" /\ step \in Identified \ Unchecked
        /\ pc' = (IF step = "SEND_CSD" /\ kind.csd = "other" THEN "panic" ELSE "send")
        /\ step' = AfterIdentify(step) /\ cmd' = cmd /\ cardSt' = cardSt /\ blk512' = blk512
        /\ kind' = kind /\ cardReady' = cardReady
    BY <1>8 DEF Identify, Responded, Identified, Unchecked
  <2>2. ASSUME ~Missed, pc' = "send" PROVE Asking'
    <3>1. Answering
      BY <2>1, <2>2 DEF CardInv
    <3>2. cardSt = After(step)
      BY <2>1, <3>1 DEF Answering
    <3>3. Before(AfterIdentify(step)) = After(step)
      BY <1>8 DEF Identify, Before, After, AfterIdentify
    <3> QED
      BY <2>1, <3>2, <3>3 DEF Asking, Pending
  <2>3. BlocksKnown'
    BY <1>8, <2>1 DEF CardInv, BlocksKnown, Identify, AfterIdentify, Unchecked
  <2> QED
    BY <1>1, <1>2, <2>1, <2>2, <2>3 DEF CardInv, BringUpPCs
<1>9. CASE InitFails
  BY <1>1, <1>2, <1>9 DEF InitFails, CardInv, BringUpPCs, BlocksKnown
<1>10. CASE Selected
  <2>1. pc = "await" /\ step \in Unchecked /\ ~Pending /\ cmd' = cmd /\ cardSt' = cardSt
        /\ blk512' = blk512 /\ kind' = kind
    BY <1>10 DEF Selected, Waited, Unchecked
  <2>2. cmd.st \in {"done", "fail"}
    BY <2>1 DEF TypeInv, TypeOK, Pending
  <2>3. ASSUME ~Missed
        PROVE  cardSt = "tran" /\ (step = "SET_BLOCKLEN" => blk512) /\ cmd.op = step
    <3>1. Answering
      BY <2>1, <2>3 DEF CardInv
    <3> QED
      BY <2>1, <2>2, <3>1 DEF Answering, After, Unchecked, Identified
  <2>4. kind.csd \in {"1.0", "2.0"}
    BY <2>1, SdHostAssumption DEF TypeInv, TypeOK, CardInv, BlocksKnown
  <2>5. CASE step = "SELECT_CARD" /\ kind.csd = "1.0"
    <3>1. step' = "SET_BLOCKLEN" /\ pc' = "send" /\ cardReady' = cardReady
      BY <1>10, <2>5 DEF Selected
    <3>2. ~Missed => Asking'
      BY <2>1, <2>2, <2>3, <3>1 DEF Asking, Before, Pending
    <3> QED
      BY <1>1, <1>2, <2>1, <2>5, <3>1, <3>2 DEF CardInv, BringUpPCs, BlocksKnown, Unchecked
  <2>6. CASE ~(step = "SELECT_CARD" /\ kind.csd = "1.0")
    <3>1. step' = step /\ pc' = "drain" /\ cardReady'
      BY <1>10, <2>6 DEF Selected
    <3>2. step = "SELECT_CARD" => kind.csd = "2.0"
      BY <2>4, <2>6
    <3>3. ~Missed => InUse'
      BY <2>1, <2>2, <2>3, <3>2 DEF InUse, CardInv, BlocksKnown, Unchecked
    <3> QED
      BY <1>1, <2>1, <3>1, <3>3 DEF CardInv, BringUpPCs, BlocksKnown
  <2> QED
    BY <2>5, <2>6
<1> QED
  BY <1>3, <1>5, <1>6, <1>7, <1>8, <1>9, <1>10 DEF BringUp

\* Reads and stop() leave the card's state to the card.
LEMMA CardDriver == TypeInv /\ Base /\ CardInv /\ (ReadBlock \/ StopSteps \/ Caller) => CardInv'
<1> SUFFICES ASSUME TypeInv, Base, CardInv, ReadBlock \/ StopSteps \/ Caller PROVE CardInv'
  OBVIOUS
<1>1. Missed => Missed'
  BY SeenGrows DEF Missed, Next, Driver
<1>2. CASE Unpower
  BY <1>1, <1>2 DEF Unpower, CardInv, BringUpPCs, EndPCs, BlocksKnown, identVars
<1>3. CASE ~Unpower
  <2>1. /\ pc \notin BringUpPCs \cup EndPCs /\ pc' \notin BringUpPCs
        /\ cardSt' = cardSt /\ blk512' = blk512 /\ kind' = kind /\ step' = step
    <3>1. CASE ReadBlock
      BY <3>1 DEF ReadBlock, DrainWait, DrainFifo, IssueRead, SettleRead, PollData, CheckErrors,
         TakeWord, FinishRead, BringUpPCs, EndPCs, identVars, cardVars, hwVars
    <3>2. CASE StopSteps \/ Caller
      BY <1>3, <3>2 DEF StopSteps, FlushFifo, Park, Caller, BeginStop, BeginRead, BringUpPCs, EndPCs,
         identVars, cardVars, hwVars
    <3> QED
      BY <3>1, <3>2
  <2>2. pc' \in EndPCs \/ cmd' = cmd \/ cmd'.op \in ReadOps \cup {"STOP_TRANSMISSION"}
    <3>1. CASE ReadBlock
      BY <3>1 DEF ReadBlock, DrainWait, DrainFifo, IssueRead, SettleRead, PollData, CheckErrors,
         TakeWord, FinishRead, SendRaw, ReadOps, hwVars
    <3>2. CASE StopSteps \/ Caller
      BY <1>3, <3>2 DEF StopSteps, FlushFifo, Park, Caller, BeginStop, BeginRead, EndPCs, hwVars
    <3> QED
      BY <3>1, <3>2
  <2>3. ~Missed /\ pc' \notin EndPCs => InUse'
    BY <2>1, <2>2 DEF CardInv, InUse
  <2> QED
    BY <1>1, <2>1, <2>3 DEF CardInv, BringUpPCs, BlocksKnown
<1> QED
  BY <1>2, <1>3

\* What a card does with a command of the second half of the bring-up.
LEMMA ExecuteMoves ==
  ASSUME TypeOK, BlocksKnown, Accepts(cmd.op), Execute, UNCHANGED driverVars, kind' = kind
  PROVE  /\ BlocksKnown'
         /\ cmd.op \in Identified => cardSt' = After(cmd.op) /\ (cmd.op = "SET_BLOCKLEN" => blk512')
         /\ blk512 => blk512'
         /\ cmd.op \in ReadOps \cup {"STOP_TRANSMISSION"} => cardSt' \in {"tran", "data"}
         /\ cmd.op = "APP_OP_COND" /\ PoweredUp => cardSt' = "ready"
<1>1. blk512' = (blk512 \/ kind.csd = "2.0" \/ cmd.op = "SET_BLOCKLEN")
  BY DEF Execute
<1>2. BlocksKnown'
  BY <1>1 DEF BlocksKnown, driverVars, identVars
<1>3. cmd.op \in Identified => cardSt' = After(cmd.op)
  <2>1. CASE cmd.op \in {"SEND_CID", "SEND_CSD"}
    <3>1. cardSt' = cardSt /\ cardSt = "stby"
      BY <2>1 DEF Execute, Accepts, ReadOps
    <3> QED
      BY <2>1, <3>1 DEF After
  <2>2. CASE cmd.op = "SET_BLOCKLEN"
    <3>1. cardSt' = cardSt /\ cardSt = "tran"
      BY <2>2 DEF Execute, Accepts, ReadOps
    <3> QED
      BY <2>2, <3>1 DEF After
  <2>3. CASE cmd.op \in {"ALL_SEND_CID", "SET_RELATIVE_ADDR", "SELECT_CARD"}
    <3>1. /\ cmd.op = "ALL_SEND_CID" => cardSt' = "ident"
          /\ cmd.op = "SET_RELATIVE_ADDR" => cardSt' = "stby"
          /\ cmd.op = "SELECT_CARD" => cardSt' = "tran"
      BY DEF Execute, ReadOps
    <3> QED
      BY <2>3, <3>1 DEF After
  <2> QED
    BY <2>1, <2>2, <2>3 DEF Identified
<1>4. cmd.op \in ReadOps \cup {"STOP_TRANSMISSION"} => cardSt' \in {"tran", "data"}
  <2>1. /\ cmd.op = "STOP_TRANSMISSION" => cardSt' = "tran"
        /\ cmd.op = "READ_BLOCK_SINGLE" => cardSt' = "data"
        /\ cmd.op = "READ_BLOCK_MULTIPLE" => cardSt' = "data"
    BY DEF Execute, ReadOps
  <2> QED
    BY <2>1 DEF ReadOps
<1>5. cmd.op = "APP_OP_COND" /\ PoweredUp => cardSt' = "ready"
  BY DEF Execute, ReadOps
<1> QED
  BY <1>1, <1>2, <1>3, <1>4, <1>5

\* The card moves as the bring-up expects, or has missed a command.
LEMMA CardHardware == TypeInv /\ Base /\ CardInv /\ Hardware => CardInv'
<1> SUFFICES ASSUME TypeInv, Base, CardInv, Hardware PROVE CardInv'
  OBVIOUS
<1>1. Missed => Missed'
  BY SeenGrows DEF Missed, Next
<1>2. /\ pc' = pc /\ step' = step /\ cardReady' = cardReady /\ kind' = kind
  BY DEF Hardware, CommandLine, DataLine, Complete, Reject, Lose, Garble, Delay, Report, Feed,
     JudgeCrc, PowerUp, driverVars, identVars, cardVars
<1>3. \A st \in {"new", "late", "done", "fail"} :
        [cmd EXCEPT !.st = st].op = cmd.op /\ [cmd EXCEPT !.st = st].st = st
  BY DEF TypeInv, TypeOK
<1>4. CASE (Complete \/ Garble \/ Delay)
  <2>1. /\ cmd.st = "new" /\ Accepts(cmd.op) /\ Execute /\ UNCHANGED driverVars
        /\ cmd'.op = cmd.op /\ cmd'.st \in {"done", "fail", "late"}
        /\ cmd'.st # "fail" /\ cmd.op = "APP_OP_COND" => rsp0' = Answer
    BY <1>3, <1>4 DEF Complete, Garble, Delay
  <2>2. /\ BlocksKnown'
        /\ cmd.op \in Identified => cardSt' = After(cmd.op) /\ (cmd.op = "SET_BLOCKLEN" => blk512')
        /\ blk512 => blk512'
        /\ cmd.op \in ReadOps \cup {"STOP_TRANSMISSION"} => cardSt' \in {"tran", "data"}
        /\ cmd.op = "APP_OP_COND" /\ PoweredUp => cardSt' = "ready"
    BY <1>2, <2>1, ExecuteMoves DEF TypeInv, CardInv
  <2>3. ASSUME ~Missed, pc = "await" PROVE Answering'
    <3>1. Answering
      BY <2>3 DEF CardInv
    <3>2. cmd'.op = step'
      BY <1>2, <2>1, <3>1 DEF Answering
    <3>3. step = "APP_OP_COND" /\ cmd'.st # "fail" /\ rsp0' \in {"ready", "ready_hc"} => cardSt' = "ready"
      <4>1. SUFFICES ASSUME step = "APP_OP_COND", cmd'.st # "fail", rsp0' \in {"ready", "ready_hc"}
                     PROVE  PoweredUp
        BY <2>2, <3>1 DEF Answering
      <4>2. cmd.op = "APP_OP_COND" /\ rsp0' = Answer
        BY <2>1, <3>1, <4>1 DEF Answering
      <4> QED
        BY <4>1, <4>2 DEF Answer
    <3>4. step \in Identified => cardSt' = After(step) /\ (step = "SET_BLOCKLEN" => blk512')
      BY <2>2, <3>1 DEF Answering
    <3> QED
      BY <1>2, <2>1, <3>2, <3>3, <3>4 DEF Answering
  <2>4. pc = "send" /\ ~Missed => Asking'
    BY <1>2, <2>1 DEF CardInv, Asking, Pending
  <2>5. pc \notin BringUpPCs \cup EndPCs /\ ~Missed => InUse'
    BY <2>1, <2>2 DEF CardInv, InUse
  <2> QED
    BY <1>1, <1>2, <2>2, <2>3, <2>4, <2>5 DEF CardInv
<1>5. CASE Reject
  <2>1. /\ cmd.st = "new" /\ ~Accepts(cmd.op) /\ cmd'.op = cmd.op /\ cmd'.st = "fail" /\ rsp0' = rsp0
        /\ cardSt' = cardSt /\ blk512' = blk512 /\ seen' = seen
    BY <1>3, <1>5 DEF Reject, regVars
  <2>2. BlocksKnown'
    BY <1>2, <2>1 DEF CardInv, BlocksKnown
  <2>3. ASSUME ~Missed, pc = "await" PROVE Answering'
    <3>1. Answering
      BY <2>3 DEF CardInv
    <3>2. step \notin Unchecked
      <4>1. SUFFICES ASSUME step \in Unchecked PROVE FALSE
        OBVIOUS
      <4>2. cmd.op = step /\ cardSt = Before(step)
        BY <2>1, <3>1, <4>1 DEF Answering, Identified, Unchecked
      <4> QED
        BY <2>1, <4>1, <4>2 DEF Accepts, Before, Unchecked
    <3> QED
      BY <1>2, <2>1, <3>1, <3>2 DEF Answering
  <2>4. pc = "send" /\ ~Missed => Asking'
    BY <1>2, <2>1 DEF CardInv, Asking, Pending
  <2>5. pc \notin BringUpPCs \cup EndPCs /\ ~Missed => InUse'
    BY <2>1 DEF CardInv, InUse
  <2> QED
    BY <1>1, <1>2, <2>2, <2>3, <2>4, <2>5 DEF CardInv
<1>6. CASE Lose
  <2>1. /\ cmd.st = "new" /\ cmd'.op = cmd.op /\ cmd'.st = "fail" /\ rsp0' = rsp0
        /\ cardSt' = cardSt /\ blk512' = blk512 /\ seen' = seen \cup {Mark(cmd.op)}
    BY <1>3, <1>6 DEF Lose, regVars, cardVars
  <2>2. BlocksKnown'
    BY <1>2, <2>1 DEF CardInv, BlocksKnown
  <2>3. cmd.op \in Unchecked => Missed'
    BY <2>1 DEF Missed, Unchecked, Mark, Marked
  <2>4. ASSUME ~Missed', ~Missed, pc = "await" PROVE Answering'
    <3>1. Answering
      BY <2>4 DEF CardInv
    <3> QED
      BY <1>2, <2>1, <2>3, <2>4, <3>1 DEF Answering
  <2>5. pc = "send" /\ ~Missed => Asking'
    BY <1>2, <2>1 DEF CardInv, Asking, Pending
  <2>6. pc \notin BringUpPCs \cup EndPCs /\ ~Missed => InUse'
    BY <2>1 DEF CardInv, InUse
  <2> QED
    BY <1>1, <1>2, <2>2, <2>4, <2>5, <2>6 DEF CardInv
<1>7. CASE Report
  <2>1. /\ cmd.st = "late" /\ cmd'.op = cmd.op /\ cmd'.st = "done" /\ rsp0' = rsp0
        /\ cardSt' = cardSt /\ blk512' = blk512 /\ seen' = seen
    BY <1>3, <1>7 DEF Report, regVars, cardVars
  <2>2. BlocksKnown'
    BY <1>2, <2>1 DEF CardInv, BlocksKnown
  <2>3. ASSUME ~Missed, pc = "await" PROVE Answering'
    <3>1. Answering
      BY <2>3 DEF CardInv
    <3> QED
      BY <1>2, <2>1, <3>1 DEF Answering
  <2>4. pc = "send" /\ ~Missed => Asking'
    BY <1>2, <2>1 DEF CardInv, Asking, Pending
  <2>5. pc \notin BringUpPCs \cup EndPCs /\ ~Missed => InUse'
    BY <2>1 DEF CardInv, InUse
  <2> QED
    BY <1>1, <1>2, <2>2, <2>3, <2>4, <2>5 DEF CardInv
<1>8. CASE DataLine \/ PowerUp
  <2>1. /\ cmd' = cmd /\ rsp0' = rsp0 /\ blk512' = blk512
        /\ cardSt' = cardSt \/ (cardSt = "data" /\ cardSt' = "tran")
    BY <1>8 DEF DataLine, Feed, Flowing, JudgeCrc, PowerUp, regVars, cardVars
  <2>2. BlocksKnown'
    BY <1>2, <2>1 DEF CardInv, BlocksKnown
  <2>3. pc \in {"send", "await"} => cardSt' = cardSt
    BY <2>1 DEF Base, BringUpQuiet
  <2>4. ASSUME ~Missed, pc = "await" PROVE Answering'
    <3>1. Answering
      BY <2>4 DEF CardInv
    <3> QED
      BY <1>2, <2>1, <2>3, <2>4, <3>1 DEF Answering
  <2>5. pc = "send" /\ ~Missed => Asking'
    BY <1>2, <2>1, <2>3 DEF CardInv, Asking, Pending
  <2>6. pc \notin BringUpPCs \cup EndPCs /\ ~Missed => InUse'
    BY <2>1 DEF CardInv, InUse
  <2> QED
    BY <1>1, <1>2, <2>2, <2>4, <2>5, <2>6 DEF CardInv
<1> QED
  BY <1>4, <1>5, <1>6, <1>7, <1>8 DEF Hardware, CommandLine

\* The card's states, throughout.
LEMMA CardInvariant == Spec => []CardInv
<1>1. Init => CardInv
  BY DEF Init, CardInv, BlocksKnown, BringUpPCs, Unchecked
<1>2. TypeInv /\ Base /\ CardInv /\ Next => CardInv'
  BY CardBringUp, CardDriver, CardHardware DEF Next, Driver
<1>3. CardInv /\ UNCHANGED vars => CardInv'
  BY DEF CardInv, BlocksKnown, Missed, Asking, Answering, InUse, Pending, vars, driverVars, identVars,
     hwVars, regVars, cardVars
<1> QED
  BY <1>1, <1>2, <1>3, TypeInvariant, StreamInvariant, PTL DEF Spec, StreamInv

\* For every card and mixture of faults: a card that is called ready is selected, counts in
\* 512 bytes and is addressed in its own way, or it missed a command nobody checked.
THEOREM ReadyCardIsReady == Spec => []ReadyCard
<1>1. TypeInv /\ Base /\ CardInv => ReadyCard
  BY DEF CardInv, InUse, Missed, Unchecked, ReadyCard, EndPCs, BringUpPCs, Base, Honest
<1> QED
  BY <1>1, TypeInvariant, StreamInvariant, CardInvariant, PTL DEF StreamInv

-----------------------------------------------------------------------------
(* How many words there are still to come, and what a bad one does.          *)

ReadPCs == {"settle", "poll", "check", "data"}

\* Words of the read taken and in the FIFO.
Come == i + Len(fifo)

\* SH_HBLC is the number of blocks asked for; the flush reads ask for one.
BlocksSet ==
  /\ pc \in {"drain", "drainFifo", "issue"} \cup ReadPCs => hblc = req.count
  /\ pc \notin BringUpPCs /\ flushes > 0 => req.count = 1
  /\ pc \in {"idle", "flush", "park", "unpower", "stopped"} => flushes = 0

\* What has come and what the card has left make up the request.
Remaining ==
  pc \in ReadPCs /\ cmd.st # "new" =>
    \/ xfer.left + Come = Chunks
    \/ cmd.st = "fail" /\ xfer.left = 0 /\ Come = 0

\* The last word of the block that word n belongs to.
BlockEndOf(n) == WordsPerBlock * ((n - 1) \div WordsPerBlock + 1)

\* A bad word in the n-th place: its block is not over, or the error is in SH_HSTS.
Noticed(n) == "data" \in errs \/ (xfer.bad /\ Come <= BlockEndOf(n))

Watched ==
  pc \in ReadPCs /\ flushes = 0 =>
    /\ \A n \in 1 .. Len(buf) : ~buf[n].ok => Noticed(n)
    /\ \A n \in 1 .. Len(fifo) : ~fifo[n].ok => Noticed(i + n)

\* The word that is about to be taken belongs to no later block than a bad one before it.
NextInBlock ==
  pc = "data" /\ flushes = 0 =>
    \A n \in 1 .. Len(buf) : ~buf[n].ok => Len(buf) + 1 <= BlockEndOf(n)

InBlock == \A n \in 1 .. Len(buf) : ~buf[n].ok => Len(buf) <= BlockEndOf(n)

Crc == Remaining /\ Watched /\ NextInBlock /\ InBlock

\* The numbers of blocks agree, whatever goes wrong.
LEMMA BlocksStep == TypeInv /\ Base /\ BlocksSet /\ Next => BlocksSet'
<1> SUFFICES ASSUME TypeInv, Base, BlocksSet, Next PROVE BlocksSet'
  OBVIOUS
<1> USE DEF BlocksSet, ReadPCs, BringUpPCs, identVars, callVars, driverVars, regVars, cardVars, hwVars
<1>1. CASE BringUp /\ ~Selected
  BY <1>1 DEF BringUp, Reset, SendInit, QueryInterface, QueryVoltage, Identify, InitFails
<1>2. CASE Selected
  BY <1>2 DEF Selected
<1>3. CASE ReadBlock /\ ~FinishRead
  BY <1>3 DEF ReadBlock, DrainWait, DrainFifo, IssueRead, SettleRead, PollData, CheckErrors, TakeWord
<1>4. CASE FinishRead
  BY <1>4 DEF FinishRead, TypeInv, TypeOK, FlushCycles
<1>5. CASE StopSteps
  BY <1>5 DEF StopSteps, FlushFifo, Park, Unpower
<1>6. CASE BeginStop
  BY <1>6 DEF BeginStop
<1>7. ASSUME NEW s \in Sectors, NEW n \in 1 .. MaxCount, BeginRead(s, n) PROVE BlocksSet'
  <2>1. flushes' = flushes /\ pc' = "drain" /\ hblc' = n /\ req'.count = n
    BY <1>7 DEF BeginRead
  <2>2. flushes = 0
    BY <1>7 DEF BeginRead
  <2> QED
    BY <2>1, <2>2
<1>8. CASE Hardware
  BY <1>8 DEF Hardware, CommandLine, DataLine, Complete, Reject, Lose, Garble, Delay, Report,
       Feed, JudgeCrc, PowerUp
<1> QED
  BY <1>1, <1>2, <1>3, <1>4, <1>5, <1>6, <1>7, <1>8 DEF Next, Driver, Caller

\* Blocks: the end of a word's block, and where one ends.
LEMMA BlockArithmetic ==
  ASSUME NEW n \in Nat \ {0}, NEW t \in Nat, NEW left \in Nat \ {0}, left + t = Chunks, n <= t,
         TypeOK, t <= BlockEndOf(n), left % WordsPerBlock # 0
  PROVE  t + 1 <= BlockEndOf(n)
<1> DEFINE q == (n - 1) \div WordsPerBlock + 1
<1>1. WordsPerBlock \in Nat \ {0} /\ req.count \in Nat
  BY SdHostAssumption DEF TypeOK
<1>2. q \in Nat
  BY <1>1
<1>3. BlockEndOf(n) = WordsPerBlock * q /\ Chunks = WordsPerBlock * req.count
  BY DEF BlockEndOf, Chunks
<1> HIDE DEF q
<1>4. ASSUME t = WordsPerBlock * q PROVE FALSE
  <2>1. left = WordsPerBlock * req.count - WordsPerBlock * q
    BY <1>1, <1>2, <1>3, <1>4
  <2>2. left = WordsPerBlock * (req.count - q)
    BY <1>1, <1>2, <2>1
  <2>3. req.count - q \in Int
    BY <1>1, <1>2
  <2>4. \A k \in Int : (WordsPerBlock * k) % WordsPerBlock = 0
    BY <1>1
  <2> QED
    BY <2>2, <2>3, <2>4
<1>5. WordsPerBlock * q \in Nat
  BY <1>1, <1>2
<1> QED
  BY <1>3, <1>4, <1>5

\* A word never lies behind the end of its own block.
LEMMA OwnBlock ==
  ASSUME NEW n \in Nat \ {0} PROVE n <= BlockEndOf(n) /\ BlockEndOf(n) \in Nat
<1>1. WordsPerBlock \in Nat \ {0}
  BY SdHostAssumption
<1> DEFINE q == (n - 1) \div WordsPerBlock
<1>2. q \in Nat /\ n - 1 < WordsPerBlock * (q + 1)
  BY <1>1
<1>3. BlockEndOf(n) = WordsPerBlock * (q + 1)
  BY DEF BlockEndOf
<1> HIDE DEF q
<1>4. WordsPerBlock * (q + 1) \in Nat
  BY <1>1, <1>2
<1> QED
  BY <1>2, <1>3, <1>4

\* No block is under way outside the reads' loop.
LEMMA CrcBringUp == TypeInv /\ Base /\ BringUp => Crc'
<1> SUFFICES ASSUME TypeInv, Base, BringUp PROVE Crc'
  OBVIOUS
<1>1. pc' \notin ReadPCs /\ pc' # "data" /\ buf' = <<>>
  BY DEF BringUp, Reset, SendInit, QueryInterface, QueryVoltage, Identify, InitFails, Selected,
     Base, BringUpQuiet, ReadPCs, callVars
<1> QED
  BY <1>1 DEF Crc, Remaining, Watched, NextInBlock, InBlock, ReadPCs

\* The loop looks at SH_HSTS before each word, and takes the word it looked for.
LEMMA CrcReadBlock ==
  TypeInv /\ Base /\ Stream /\ Crc /\ ReadBlock /\ Trusted' => Crc'
<1> SUFFICES ASSUME TypeInv, Base, Stream, Crc, ReadBlock, Trusted' PROVE Crc'
  OBVIOUS
<1>1. CASE DrainWait \/ DrainFifo
  BY <1>1 DEF DrainWait, DrainFifo, Crc, Remaining, Watched, NextInBlock, InBlock, ReadPCs, callVars,
     BlockEndOf
<1>2. CASE IssueRead
  <2>1. /\ fifo' = <<>> /\ buf' = <<>> /\ pc' = "settle" /\ cmd'.st = "new"
    BY <1>2 DEF IssueRead, SendRaw, Stream, Drained, Base, Counted, callVars
  <2> QED
    BY <2>1 DEF Crc, Remaining, Watched, NextInBlock, InBlock
<1>3. CASE SettleRead \/ PollData
  <2>1. /\ pc \in ReadPCs /\ pc' \in {"poll", "check", "halt"}
        /\ UNCHANGED <<cmd, xfer, i, fifo, buf, errs, req, flushes>>
    BY <1>3 DEF SettleRead, PollData, ReadPCs, callVars, hwVars
  <2> QED
    BY <2>1 DEF Crc, Remaining, Watched, NextInBlock, InBlock, ReadPCs, Chunks, Come, Noticed, BlockEndOf
<1>4. CASE CheckErrors
  <2>1. /\ pc = "check" /\ pc' \in {"data", "halt"} /\ (pc' = "data" => errs = {})
        /\ UNCHANGED <<cmd, xfer, i, fifo, buf, errs, req, flushes>>
    BY <1>4 DEF CheckErrors, callVars, hwVars
  <2>2. Remaining' /\ Watched' /\ InBlock'
    BY <2>1 DEF Crc, Remaining, Watched, InBlock, ReadPCs, Chunks, Come, Noticed, BlockEndOf
  <2>3. NextInBlock'
    <3>1. SUFFICES ASSUME pc' = "data", flushes = 0, NEW n \in 1 .. Len(buf), ~buf[n].ok
                   PROVE  Len(buf) + 1 <= BlockEndOf(n)
      BY <2>1 DEF NextInBlock, BlockEndOf
    <3>2. Come <= BlockEndOf(n)
      BY <2>1, <3>1 DEF Crc, Watched, Noticed, ReadPCs
    <3>3. Len(buf) = i /\ Len(fifo) >= 1
      BY <2>1, <3>1 DEF Base, Counted, TypeInv, TypeOK, FifoHasWord
    <3>4. i \in Nat /\ Len(fifo) \in Nat /\ BlockEndOf(n) \in Nat
      <4>1. i \in Nat /\ Len(fifo) \in Nat /\ n \in Nat \ {0}
        BY <3>1 DEF TypeInv, TypeOK
      <4> QED
        BY <4>1, OwnBlock
    <3> QED
      BY <3>2, <3>3, <3>4 DEF Come
  <2> QED
    BY <2>2, <2>3 DEF Crc
<1>5. CASE TakeWord
  <2>1. /\ pc = "data" /\ pc' = "poll" /\ i' = i + 1 /\ fifo' = Tail(fifo)
        /\ buf' = (IF flushes = 0 THEN Append(buf, Head(fifo)) ELSE buf)
        /\ UNCHANGED <<cmd, xfer, errs, req, flushes>>
    BY <1>5 DEF TakeWord
  <2>2. /\ fifo \in Seq(Word) /\ fifo # <<>> /\ buf \in Seq(Word) /\ i \in Nat
    BY <2>1 DEF TypeInv, TypeOK, FifoHasWord, Word
  <2>3. /\ Len(Tail(fifo)) = Len(fifo) - 1
        /\ \A n \in 1 .. Len(Tail(fifo)) : Tail(fifo)[n] = fifo[n + 1]
        /\ Head(fifo) = fifo[1] /\ Len(fifo) \in Nat /\ Len(fifo) >= 1
    BY <2>2
  <2>4. Come' = Come
    BY <2>1, <2>2, <2>3 DEF Come
  <2>5. \A n : Noticed(n)' = Noticed(n)
    BY <2>1, <2>4 DEF Noticed, BlockEndOf
  <2>6. Remaining'
    BY <2>1, <2>4 DEF Crc, Remaining, ReadPCs, Chunks
  <2>7. NextInBlock'
    BY <2>1 DEF NextInBlock
  <2>8. CASE flushes # 0
    BY <2>1, <2>6, <2>7, <2>8 DEF Crc, Watched, InBlock, BlockEndOf
  <2>9. CASE flushes = 0
    <3>1. /\ Len(buf) = i /\ Len(buf') = i + 1 /\ buf'[i + 1] = fifo[1]
          /\ \A n \in 1 .. Len(buf) : buf'[n] = buf[n]
      BY <2>1, <2>2, <2>3, <2>9 DEF Base, Counted
    <3>2. Watched'
      <4>1. ASSUME NEW n \in 1 .. Len(buf'), ~buf'[n].ok PROVE Noticed(n)
        <5>1. CASE n = i + 1
          <6>1. ~fifo[1].ok /\ 1 \in 1 .. Len(fifo)
            BY <2>3, <3>1, <4>1, <5>1
          <6> QED
            BY <2>1, <2>9, <5>1, <6>1 DEF Crc, Watched, ReadPCs
        <5>2. CASE n # i + 1
          <6>1. n \in 1 .. Len(buf)
            BY <2>2, <3>1, <5>2
          <6> QED
            BY <2>1, <2>9, <3>1, <4>1, <6>1 DEF Crc, Watched, ReadPCs
        <5> QED
          BY <5>1, <5>2
      <4>2. ASSUME NEW n \in 1 .. Len(fifo'), ~fifo'[n].ok PROVE Noticed(i' + n)
        <5>1. n + 1 \in 1 .. Len(fifo) /\ fifo'[n] = fifo[n + 1] /\ i + (n + 1) = i' + n
          BY <2>1, <2>2, <2>3
        <5>2. Noticed(i + (n + 1))
          BY <2>1, <2>9, <4>2, <5>1 DEF Crc, Watched, ReadPCs
        <5> QED
          BY <5>1, <5>2
      <4> QED
        BY <2>5, <4>1, <4>2 DEF Watched
    <3>3. InBlock'
      <4>1. SUFFICES ASSUME NEW n \in 1 .. Len(buf'), ~buf'[n].ok PROVE Len(buf') <= BlockEndOf(n)
        BY DEF InBlock, BlockEndOf
      <4>2. CASE n = i + 1
        <5>1. n \in Nat \ {0}
          BY <2>2, <4>2
        <5> QED
          BY <3>1, <4>2, <5>1, OwnBlock
      <4>3. CASE n # i + 1
        <5>1. n \in 1 .. Len(buf)
          BY <2>2, <3>1, <4>3
        <5> QED
          BY <2>1, <2>9, <3>1, <4>1, <5>1 DEF Crc, NextInBlock
      <4> QED
        BY <4>2, <4>3
    <3> QED
      BY <2>6, <2>7, <3>2, <3>3 DEF Crc
  <2> QED
    BY <2>8, <2>9
<1>6. CASE FinishRead
  <2>1. pc' \notin ReadPCs /\ buf' = buf
    BY <1>6 DEF FinishRead, ReadPCs
  <2> QED
    BY <2>1 DEF Crc, Remaining, Watched, NextInBlock, InBlock, ReadPCs, BlockEndOf
<1> QED
  BY <1>1, <1>2, <1>3, <1>4, <1>5, <1>6 DEF ReadBlock

\* stop() and the callers take no words.
LEMMA CrcStop == TypeInv /\ Crc /\ (StopSteps \/ Caller) => Crc'
<1> SUFFICES ASSUME TypeInv, Crc, StopSteps \/ Caller PROVE Crc'
  OBVIOUS
<1>1. pc' \notin ReadPCs /\ (buf' = buf \/ buf' = <<>>)
  BY DEF StopSteps, FlushFifo, Park, Unpower, Caller, BeginStop, BeginRead, ReadPCs, callVars
<1> QED
  BY <1>1 DEF Crc, Remaining, Watched, NextInBlock, InBlock, ReadPCs, BlockEndOf

\* The card begins no block before the last one's CRC was judged.
LEMMA CrcHardware ==
  TypeInv /\ Base /\ BlocksSet /\ Stream /\ Crc /\ Hardware /\ Trusted' => Crc'
<1> SUFFICES ASSUME TypeInv, Base, BlocksSet, Stream, Crc, Hardware, Trusted' PROVE Crc'
  OBVIOUS
<1>1. UNCHANGED <<pc, i, buf, req, flushes>>
  BY DEF Hardware, CommandLine, DataLine, Complete, Reject, Lose, Garble, Delay, Report, Feed,
     JudgeCrc, PowerUp, driverVars, callVars
<1>2. InBlock' /\ NextInBlock'
  BY <1>1 DEF Crc, InBlock, NextInBlock, BlockEndOf
<1>3. SUFFICES ASSUME pc \in ReadPCs PROVE Remaining' /\ Watched'
  BY <1>1, <1>2 DEF Crc, Remaining, Watched
<1>4. \A st \in {"new", "late", "done", "fail"} : [cmd EXCEPT !.st = st].st = st
  BY DEF TypeInv, TypeOK
<1>5. cmd.st = "new" => /\ cmd.op \in ReadOps /\ fifo = <<>> /\ i = 0 /\ xfer.left = 0 /\ Come = 0
                        /\ flushes = 0 => Len(buf) = 0
  BY <1>3 DEF Stream, Streaming, ReadPCs, Come, Base, Counted
<1>6. /\ i \in Nat /\ fifo \in Seq(Word) /\ buf \in Seq(Word) /\ xfer.left \in Nat
      /\ xfer \in [next : Nat, left : Nat, bad : BOOLEAN, multi : BOOLEAN]
      /\ WordsPerBlock \in Nat \ {0} /\ req.count \in Nat /\ Come \in Nat /\ Chunks \in Nat
  BY SdHostAssumption DEF TypeInv, TypeOK, Word, Come, Chunks
<1>7. CASE Complete \/ Garble \/ Delay
  <2>1. cmd.st = "new" /\ Execute /\ fifo' = fifo
    BY <1>7 DEF Complete, Garble, Delay
  <2>2. xfer'.left = WordsPerBlock * hblc
    BY <1>5, <2>1 DEF Execute, ReadOps
  <2>3. hblc = req.count
    BY <1>3 DEF BlocksSet
  <2>4. xfer'.left = Chunks /\ Come' = 0
    BY <1>1, <1>5, <2>1, <2>2, <2>3 DEF Chunks, Come
  <2>5. Remaining'
    BY <1>1, <1>6, <2>4 DEF Remaining, Chunks
  <2>6. Watched'
    BY <1>1, <1>5, <2>1 DEF Watched
  <2> QED
    BY <2>5, <2>6
<1>8. CASE Reject \/ Lose
  <2>1. cmd.st = "new" /\ cmd'.st = "fail" /\ fifo' = fifo /\ xfer' = xfer
    BY <1>4, <1>8 DEF Reject, Lose
  <2> QED
    BY <1>1, <1>5, <2>1 DEF Remaining, Watched, Come
<1>9. CASE Report \/ PowerUp
  <2>1. (cmd'.st # "new" => cmd.st # "new") /\ (cmd.st = "fail" => cmd'.st = "fail")
        /\ fifo' = fifo /\ xfer' = xfer /\ errs' = errs
    BY <1>4, <1>9 DEF Report, PowerUp
  <2> QED
    BY <1>1, <1>3, <2>1 DEF Crc, Remaining, Watched, Come, Chunks, Noticed, BlockEndOf
<1>10. CASE JudgeCrc
  <2>1. fifo' = fifo /\ cmd' = cmd /\ xfer'.left = xfer.left /\ "data" \in errs'
    BY <1>6, <1>10 DEF JudgeCrc
  <2>2. Remaining'
    BY <1>1, <1>3, <2>1 DEF Crc, Remaining, Come, Chunks
  <2>3. Watched'
    BY <1>1, <2>1 DEF Watched, Noticed
  <2> QED
    BY <2>2, <2>3
<1>11. ASSUME NEW ok \in BOOLEAN, Feed(ok) PROVE Remaining' /\ Watched'
  <2>1. /\ xfer.left > 0 /\ ~(xfer.bad /\ BlockEnd) /\ cmd' = cmd /\ errs' = errs
        /\ fifo' = Append(fifo, [addr |-> xfer.next, ok |-> ok])
        /\ xfer' = [xfer EXCEPT !.next = @ + 1, !.left = @ - 1, !.bad = @ \/ ~ok]
    BY <1>11 DEF Feed, Flowing
  <2>2. xfer'.left = xfer.left - 1 /\ xfer'.bad = (xfer.bad \/ ~ok)
    BY <1>6, <2>1
  <2>3. /\ Len(fifo') = Len(fifo) + 1 /\ fifo'[Len(fifo) + 1].ok = ok /\ Len(fifo) \in Nat
        /\ \A n \in 1 .. Len(fifo) : fifo'[n] = fifo[n]
    BY <1>6, <2>1 DEF Word
  <2>4. Come' = Come + 1
    BY <1>1, <1>6, <2>3 DEF Come
  <2>5. cmd.st # "new" /\ xfer.left + Come = Chunks
    BY <1>3, <1>5, <1>6, <2>1 DEF Crc, Remaining
  <2>6. Remaining'
    BY <1>1, <1>6, <2>1, <2>2, <2>4, <2>5 DEF Remaining, Chunks
  <2>7. ASSUME NEW n \in Nat \ {0}, n <= Come, Noticed(n)
        PROVE  "data" \in errs' \/ (xfer'.bad /\ Come' <= BlockEndOf(n))
    <3>1. CASE "data" \in errs
      BY <2>1, <3>1
    <3>2. CASE "data" \notin errs
      <4>1. xfer.bad /\ Come <= BlockEndOf(n)
        BY <2>7, <3>2 DEF Noticed
      <4>2. xfer.left % WordsPerBlock # 0
        BY <2>1, <4>1 DEF BlockEnd
      <4>3. Come + 1 <= BlockEndOf(n)
        <5>1. xfer.left \in Nat \ {0} /\ TypeOK
          BY <1>6, <2>1 DEF TypeInv
        <5> QED
          BY <1>6, <2>5, <2>7, <4>1, <4>2, <5>1, BlockArithmetic
      <4> QED
        BY <2>2, <2>4, <4>1, <4>3
    <3> QED
      BY <3>1, <3>2
  <2>8. flushes = 0 => Len(buf) <= i
    BY <1>3, <1>6 DEF Base, Counted, ReadPCs
  <2>9. Watched'
    <3>1. SUFFICES ASSUME flushes = 0
                   PROVE  /\ \A n \in 1 .. Len(buf) : ~buf[n].ok => Noticed(n)'
                          /\ \A n \in 1 .. Len(fifo') : ~fifo'[n].ok => Noticed(i + n)'
      BY <1>1 DEF Watched
    <3>2. \A n : Noticed(n)' = ("data" \in errs' \/ (xfer'.bad /\ Come' <= BlockEndOf(n)))
      BY DEF Noticed, BlockEndOf
    <3>3. ASSUME NEW n \in 1 .. Len(buf), ~buf[n].ok PROVE Noticed(n)'
      <4>1. Noticed(n) /\ n \in Nat \ {0} /\ n <= Come
        BY <1>3, <1>6, <2>3, <2>8, <3>1, <3>3 DEF Crc, Watched, Come
      <4> QED
        BY <2>7, <3>2, <4>1
    <3>4. ASSUME NEW n \in 1 .. Len(fifo'), ~fifo'[n].ok
          PROVE  "data" \in errs' \/ (xfer'.bad /\ Come' <= BlockEndOf(i + n))
      <4>1. CASE n = Len(fifo) + 1
        <5>1. ~ok /\ i + n = Come' /\ i + n \in Nat \ {0}
          BY <1>6, <2>3, <2>4, <3>4, <4>1 DEF Come
        <5>2. xfer'.bad /\ Come' <= BlockEndOf(i + n)
          BY <2>2, <5>1, OwnBlock
        <5> QED
          BY <5>2
      <4>2. CASE n # Len(fifo) + 1
        <5>1. n \in 1 .. Len(fifo)
          BY <2>3, <4>2
        <5>2. Noticed(i + n) /\ i + n \in Nat \ {0} /\ i + n <= Come
          BY <1>3, <1>6, <2>3, <3>1, <3>4, <5>1, SMTT(30) DEF Crc, Watched, Come
        <5> QED
          BY <2>7, <5>2
      <4> QED
        BY <4>1, <4>2
    <3> QED
      BY <1>1, <3>3, <3>4 DEF Noticed, BlockEndOf
  <2> QED
    BY <2>6, <2>9
<1> QED
  BY <1>7, <1>8, <1>9, <1>10, <1>11 DEF Hardware, CommandLine, DataLine

\* The numbers of blocks, and what bad words do while the run is trusted, throughout.
LEMMA CrcInvariant == Spec => [](BlocksSet /\ (Trusted => Crc))
<1>1. Init => BlocksSet /\ Crc
  BY DEF Init, BlocksSet, BringUpPCs, ReadPCs, Crc, Remaining, Watched, NextInBlock, InBlock
<1>2. TypeInv /\ StreamInv /\ BlocksSet /\ (Trusted => Crc) /\ Next => BlocksSet' /\ (Trusted' => Crc')
  <2> SUFFICES ASSUME TypeInv, StreamInv, BlocksSet, Trusted => Crc, Next
               PROVE  BlocksSet' /\ (Trusted' => Crc')
    OBVIOUS
  <2>1. BlocksSet'
    BY BlocksStep DEF StreamInv
  <2>2. Trusted' => Trusted
    BY SeenGrows DEF Trusted
  <2>3. Trusted' => Crc'
    BY <2>2, CrcBringUp, CrcReadBlock, CrcStop, CrcHardware DEF StreamInv, Next, Driver
  <2> QED
    BY <2>1, <2>3
<1>3. BlocksSet /\ (Trusted => Crc) /\ UNCHANGED vars => BlocksSet' /\ (Trusted' => Crc')
  BY DEF BlocksSet, Crc, Remaining, Watched, NextInBlock, InBlock, Noticed, Come, Chunks, BlockEndOf,
     Trusted, vars, driverVars, identVars, callVars, hwVars, regVars, cardVars
<1> QED
  BY <1>1, <1>2, <1>3, TypeInvariant, StreamInvariant, PTL DEF Spec

\* For every block size, FIFO depth and mixture of faults: behind a block that failed its CRC
\* read_block stores no word of a later one.
THEOREM BadBlockIsLast == Spec => []NothingPastBadBlock
<1>1. (Trusted => Crc) => NothingPastBadBlock
  BY DEF Crc, InBlock, BlockEndOf, NothingPastBadBlock
<1> QED
  BY <1>1, CrcInvariant, PTL

-----------------------------------------------------------------------------
(* A run in which nothing goes wrong.                                        *)

\* Between reads the card is back in its transfer state once the STOP has settled, and
\* while words come there is no error.
Clean ==
  /\ ~xfer.bad
  /\ pc \in {"drain", "idle"} /\ cmd.st # "new" => cardSt = "tran"
  /\ pc \in {"drainFifo", "issue"} => cardSt = "tran"
  /\ pc \in ReadPCs => errs = {} /\ IF cmd.st = "new" THEN cardSt = "tran" ELSE cmd.st = "done"
  /\ pc \in {"poll", "check", "data"} => ~Pending
  /\ pc \in {"halt", "idle"} => i = Chunks

\* Nothing went wrong before, if nothing has now.
LEMMA SeenEmpty == Next /\ seen' = {} => seen = {}
  BY SeenGrows

\* The driver's part: the loop ends when all words have come.
LEMMA CleanDriver ==
  /\ TypeInv /\ StreamInv /\ CardInv /\ Crc /\ Clean
  /\ Driver \/ Caller
  /\ seen' = {}
  => Clean'
<1> SUFFICES ASSUME TypeInv, StreamInv, CardInv, Crc, Clean, Driver \/ Caller, seen' = {} PROVE Clean'
  OBVIOUS
<1>1. seen = {} /\ Base /\ Stream
  BY SeenEmpty DEF Next, StreamInv, Trusted
<1>2. Wait => ~Pending
  BY <1>1 DEF Wait
<1> USE DEF callVars, identVars, driverVars, regVars, cardVars, hwVars
<1>3. CASE BringUp /\ ~Selected
  <2>1. pc' \in {"send", "await", "panic"} /\ xfer' = xfer
    BY <1>3 DEF BringUp, Reset, SendInit, QueryInterface, QueryVoltage, Identify, InitFails
  <2> QED
    BY <2>1 DEF Clean, ReadPCs
<1>4. CASE Selected
  <2>1. /\ pc = "await" /\ step \in Unchecked /\ ~Pending /\ pc' \in {"send", "drain"}
        /\ xfer' = xfer /\ cardSt' = cardSt
    BY <1>4 DEF Selected, Waited, Unchecked
  <2>2. cmd.st \in {"done", "fail"}
    BY <2>1 DEF TypeInv, TypeOK, Pending
  <2>3. Answering
    BY <1>1, <2>1 DEF CardInv, Missed
  <2>4. cardSt = "tran"
    BY <2>1, <2>2, <2>3 DEF Answering, After, Unchecked, Identified
  <2> QED
    BY <2>1, <2>4 DEF Clean, ReadPCs
<1>5. CASE DrainWait
  <2>1. pc = "drain" /\ pc' = "drainFifo" /\ ~Pending /\ xfer' = xfer /\ cardSt' = cardSt
    BY <1>2, <1>5 DEF DrainWait
  <2> QED
    BY <2>1 DEF Clean, ReadPCs, Pending
<1>6. CASE DrainFifo
  BY <1>6 DEF DrainFifo, Clean, ReadPCs
<1>7. CASE IssueRead
  BY <1>7 DEF IssueRead, SendRaw, Clean, ReadPCs
<1>8. CASE SettleRead
  BY <1>2, <1>8 DEF SettleRead, Clean, ReadPCs, Pending
<1>9. CASE PollData
  <2>1. /\ pc = "poll" /\ pc' \in {"check", "halt"} /\ UNCHANGED <<cmd, xfer, i, errs, req, cardSt>>
        /\ pc' = "halt" => i = Chunks \/ (fifo = <<>> /\ ~Flowing)
    BY <1>1, <1>9 DEF PollData
  <2>2. pc' = "halt" => i = Chunks
    <3>1. SUFFICES ASSUME fifo = <<>>, ~Flowing PROVE i = Chunks
      BY <2>1
    <3>2. cmd.st = "done"
      BY <2>1 DEF Clean, ReadPCs, Pending
    <3>3. xfer.left = 0
      BY <3>1 DEF Flowing, Base, OnlyDataFlows, TypeInv, TypeOK, StreamInv
    <3>4. xfer.left + Come = Chunks
      BY <2>1, <3>2 DEF Crc, Remaining, ReadPCs
    <3> QED
      BY <3>1, <3>3, <3>4 DEF Come, TypeInv, TypeOK
  <2> QED
    BY <2>1, <2>2 DEF Clean, ReadPCs, Pending, Chunks
<1>10. CASE CheckErrors
  BY <1>10 DEF CheckErrors, Clean, ReadPCs, Pending
<1>11. CASE TakeWord
  BY <1>11 DEF TakeWord, Clean, ReadPCs, Pending
<1>12. CASE FinishRead
  BY <1>12 DEF FinishRead, SendRaw, Clean, ReadPCs, Chunks
<1>13. CASE StopSteps
  BY <1>13 DEF StopSteps, FlushFifo, Park, Unpower, Clean, ReadPCs, NoXfer
<1>14. CASE Caller
  BY <1>14 DEF Caller, BeginStop, BeginRead, Clean, ReadPCs
<1> QED
  BY <1>3, <1>4, <1>5, <1>6, <1>7, <1>8, <1>9, <1>10, <1>11, <1>12, <1>13, <1>14
     DEF Driver, BringUp, ReadBlock

\* The card's part: a read command is taken, and a STOP where there is one to take.
LEMMA CleanHardware ==
  /\ TypeInv /\ StreamInv /\ CardInv /\ Crc /\ Clean /\ Hardware /\ seen' = {}
  => Clean'
<1> SUFFICES ASSUME TypeInv, StreamInv, CardInv, Crc, Clean, Hardware, seen' = {} PROVE Clean'
  OBVIOUS
<1>1. seen = {} /\ Base /\ Stream
  BY SeenEmpty DEF Next, StreamInv, Trusted
<1>2. UNCHANGED <<pc, i, req>>
  BY DEF Hardware, CommandLine, DataLine, Complete, Reject, Lose, Garble, Delay, Report, Feed,
     JudgeCrc, PowerUp, driverVars, callVars
<1>3. ~Lose /\ ~Garble /\ ~Delay /\ ~JudgeCrc
  BY <1>1 DEF Lose, Garble, Delay, JudgeCrc, Clean
<1>4. \A st \in {"new", "late", "done", "fail"} :
        [cmd EXCEPT !.st = st].st = st /\ [cmd EXCEPT !.st = st].op = cmd.op
  BY DEF TypeInv, TypeOK
<1>5. InUse \/ pc \in BringUpPCs \cup EndPCs
  BY <1>1 DEF CardInv, Missed
<1>6. CASE Complete
  <2>1. cmd.st = "new" /\ cmd'.st = "done" /\ cmd'.op = cmd.op /\ Execute /\ errs' = errs
    BY <1>4, <1>6 DEF Complete
  <2>2. ~xfer'.bad
    BY <2>1 DEF Execute, Clean, NoXfer
  <2>3. cmd.op = "STOP_TRANSMISSION" => cardSt' = "tran"
    BY <2>1 DEF Execute, ReadOps
  <2>4. pc \in {"drain", "idle"} => cmd.op = "STOP_TRANSMISSION"
    BY <1>1, <2>1 DEF Stream, StopPending
  <2>5. pc \notin {"drainFifo", "issue", "poll", "check", "data"}
    BY <1>1, <2>1 DEF Stream, Drained, Pending, Clean
  <2> QED
    BY <1>2, <2>1, <2>2, <2>3, <2>4, <2>5 DEF Clean, Pending, ReadPCs, Chunks
<1>7. CASE Reject
  <2>1. /\ cmd.st = "new" /\ ~Accepts(cmd.op) /\ cmd'.st = "fail" /\ xfer' = xfer
        /\ cardSt' = cardSt
    BY <1>4, <1>7 DEF Reject
  <2>2. pc \notin ReadPCs
    <3>1. SUFFICES ASSUME pc \in ReadPCs PROVE FALSE
      OBVIOUS
    <3>2. cmd.op \in ReadOps /\ cardSt = "tran"
      BY <1>1, <2>1, <3>1 DEF Stream, Streaming, ReadPCs, Clean
    <3> QED
      BY <2>1, <3>2 DEF Accepts
  <2>3. pc \in {"drain", "idle"} => cardSt = "tran"
    <3>1. SUFFICES ASSUME pc \in {"drain", "idle"} PROVE cardSt = "tran"
      OBVIOUS
    <3>2. cmd.op = "STOP_TRANSMISSION" /\ cardSt # "data"
      BY <1>1, <2>1, <3>1 DEF Stream, StopPending, Accepts
    <3>3. InUse
      BY <1>5, <3>1 DEF BringUpPCs, EndPCs
    <3> QED
      BY <3>2, <3>3 DEF InUse
  <2> QED
    BY <1>2, <2>1, <2>2, <2>3 DEF Clean, ReadPCs, Chunks
<1>8. CASE Report
  <2>1. cmd.st = "late" /\ cmd'.st = "done" /\ UNCHANGED <<errs, xfer, cardSt>>
    BY <1>4, <1>8 DEF Report, cardVars
  <2> QED
    BY <1>2, <2>1 DEF Clean, ReadPCs, Pending, Chunks
<1>9. ASSUME NEW ok \in BOOLEAN, Feed(ok) PROVE Clean'
  <2>1. /\ ok /\ cmd' = cmd /\ errs' = errs /\ cardSt = "data" /\ xfer.left > 0
        /\ xfer' = [xfer EXCEPT !.next = @ + 1, !.left = @ - 1, !.bad = @ \/ ~ok]
        /\ cardSt' \in {"tran", "data"}
    BY <1>1, <1>9 DEF Feed, Flowing
  <2>2. xfer'.bad = xfer.bad
    BY <2>1 DEF TypeInv, TypeOK
  <2> QED
    BY <1>2, <2>1, <2>2 DEF Clean, ReadPCs, Pending, Chunks
<1>10. CASE PowerUp
  BY <1>2, <1>10 DEF PowerUp, Clean, ReadPCs, Pending, Chunks
<1> QED
  BY <1>3, <1>6, <1>7, <1>8, <1>9, <1>10 DEF Hardware, CommandLine, DataLine

\* For every block size, FIFO depth and card: a read nothing went wrong for has brought all
\* its words, in spite of the error bits that every STOP after a single block leaves behind.
THEOREM CleanReadsComplete == Spec => []CleanReadIsComplete
<1>1. Init => Clean
  BY DEF Init, Clean, ReadPCs, NoXfer
<1>2. TypeInv /\ StreamInv /\ CardInv /\ (Trusted => Crc) /\ (seen = {} => Clean) /\ Next
        => (seen = {} => Clean)'
  <2> SUFFICES ASSUME TypeInv, StreamInv, CardInv, Trusted => Crc, seen = {} => Clean, Next, seen' = {}
               PROVE  Clean'
    OBVIOUS
  <2>1. seen = {} /\ Trusted
    BY SeenEmpty DEF Trusted
  <2> QED
    BY <2>1, CleanDriver, CleanHardware DEF Next
<1>3. (seen = {} => Clean) /\ UNCHANGED vars => (seen = {} => Clean)'
  BY DEF Clean, Chunks, Pending, vars, driverVars, callVars, hwVars, cardVars
<1>4. (seen = {} => Clean) => CleanReadIsComplete
  BY DEF Clean, CleanReadIsComplete
<1> QED
  BY <1>1, <1>2, <1>3, <1>4, TypeInvariant, StreamInvariant, CardInvariant, CrcInvariant, PTL DEF Spec
=============================================================================
