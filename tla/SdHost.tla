------------------------------- MODULE SdHost -------------------------------
(***************************************************************************)
(* The SD host driver of the ARM chainloader (sdhost_impl.cc), running      *)
(* against the BCM2708 SDHOST controller and an SD card.                    *)
(*                                                                          *)
(* The driver is one thread of polled register accesses.  Its control is    *)
(* flattened into the points `pc' between the accesses whose outcome the    *)
(* hardware can change; a wait() that is followed by nothing but another    *)
(* wait() is merged with it.  The controller and the card are the           *)
(* environment: they finish a command, lose it, garble its response, run    *)
(* late, push words into the FIFO, stall, and detect a bad CRC only at the  *)
(* end of a block.  CONSTANT Faults says which of these misfortunes occur.  *)
(***************************************************************************)
EXTENDS Integers, Sequences, FiniteSets

CONSTANTS
  WordsPerBlock,  (* FIFO words of a block: 128 in the code                 *)
  Sectors,        (* the sectors a caller may start a read at               *)
  MaxCount,       (* the most blocks a caller asks for at once              *)
  FifoDepth,      (* words the controller's FIFO holds                      *)
  CardKinds,      (* the cards: [hc, v2 |-> BOOLEAN, csd |-> "1.0", ...]    *)
  Faults          (* which kinds of fault the hardware shows                *)

FaultKinds == {"lost", "garbled", "late", "timeout", "crc", "stall"}

ASSUME SdHostAssumption ==
  /\ WordsPerBlock \in Nat \ {0}
  /\ Sectors \subseteq Nat
  /\ MaxCount \in Nat \ {0}
  /\ FifoDepth \in Nat \ {0}
  /\ CardKinds \subseteq [hc : BOOLEAN, v2 : BOOLEAN, csd : {"1.0", "2.0", "other"}]
  /\ \A k \in CardKinds : k.hc => k.v2
  /\ Faults \subseteq FaultKinds

ReadOps == {"READ_BLOCK_SINGLE", "READ_BLOCK_MULTIPLE"}

\* The commands init_card sends, in the order it sends them.
InitOps == {"GO_IDLE_STATE", "SEND_IF_COND", "APP_CMD", "APP_OP_COND",
            "ALL_SEND_CID", "SET_RELATIVE_ADDR", "SEND_CID", "SEND_CSD",
            "SELECT_CARD", "SET_BLOCKLEN"}

Ops == InitOps \cup ReadOps \cup {"STOP_TRANSMISSION"}

Responses == {"unknown", "if_cond", "busy", "ready", "ready_hc", "status"}

FlushCycles == 3  \* dummy reads of sector 0 after bring-up

-----------------------------------------------------------------------------

VARIABLES
  pc,         (* what the driver does next                                  *)
  step,       (* the command init_card is at                                *)
  cardReady,  (* card_ready                                                 *)
  isHC,       (* is_high_capacity                                           *)
  askHC,      (* the local `t' of query_voltage_and_type has MMC_OCR_HCS    *)
  r0,         (* what r[0] holds                                            *)
  flushes,    (* flush reads restart_controller has still to make           *)
  req,        (* the read in progress or the last one: [sector, count]      *)
  i,          (* chunks of that read taken from the FIFO                    *)
  buf,        (* what it stored in the caller's buffer                      *)
  ret         (* what the last read_block returned                          *)

identVars  == <<step, cardReady, isHC, askHC, r0>>
callVars   == <<flushes, req, i, buf, ret>>
driverVars == <<pc, identVars, callVars>>

VARIABLES
  cmd,        (* SH_CMD and SH_ARG: [op, arg, st], st is NEW while "new"/"late" *)
  errs,       (* the error bits of SH_HSTS                                  *)
  rsp0,       (* SH_RSP0                                                    *)
  hblc,       (* SH_HBLC                                                    *)
  cdiv,       (* SH_CDIV: "ident" or "data" clock, "off" when parked        *)
  fifo,       (* words waiting behind SH_DATA; not empty = the DATA flag    *)
  xfer,       (* the card's data phase: [next, left, bad, multi]            *)
  kind,       (* which card is in the slot                                  *)
  cardSt,     (* the card's state machine                                   *)
  app,        (* the card has just accepted APP_CMD                         *)
  up,         (* the card's power-up procedure has finished                 *)
  blk512      (* the card's block length is 512                             *)

regVars  == <<rsp0, hblc, cdiv>>
cardVars == <<kind, cardSt, app, up, blk512>>
hwVars   == <<cmd, errs, regVars, fifo, xfer, cardVars>>

\* History: misfortunes so far that matter to the properties below.
VARIABLE seen

vars == <<driverVars, hwVars, seen>>

Marked == {"timeout", "STOP_TRANSMISSION", "SELECT_CARD", "SET_BLOCKLEN", "other"}

\* What a fault of op leaves in the history.
Mark(op) == IF op \in Marked THEN op ELSE "other"

NoCmd  == [op |-> "GO_IDLE_STATE", arg |-> 0, st |-> "done"]
Junk   == [addr |-> 0, ok |-> FALSE]  \* a word an earlier boot stage left behind
NoXfer == [next |-> 0, left |-> 0, bad |-> FALSE, multi |-> FALSE]

Chunks == WordsPerBlock * req.count

\* The n-th word (from 1) of the read the caller asked for.
Wanted(n) == req.sector * WordsPerBlock + n - 1

PCs == {"reset", "send", "await", "drain", "drainFifo", "issue", "settle", "poll",
        "check", "data", "halt", "idle", "flush", "park", "unpower", "stopped", "panic"}

TypeOK ==
  /\ pc \in PCs
  /\ step \in InitOps
  /\ cardReady \in BOOLEAN
  /\ isHC \in BOOLEAN
  /\ askHC \in BOOLEAN
  /\ r0 \in Responses
  /\ flushes \in 0 .. FlushCycles
  /\ req \in [sector : Nat, count : Nat]
  /\ i \in Nat
  /\ buf \in Seq([addr : Nat, ok : BOOLEAN])
  /\ ret \in BOOLEAN
  /\ cmd \in [op : Ops, arg : Nat, st : {"new", "late", "done", "fail"}]
  /\ errs \subseteq {"cmd", "data"}
  /\ rsp0 \in Responses
  /\ hblc \in Nat
  /\ cdiv \in {"ident", "data", "off"}
  /\ fifo \in Seq([addr : Nat, ok : BOOLEAN])
  /\ xfer \in [next : Nat, left : Nat, bad : BOOLEAN, multi : BOOLEAN]
  /\ kind \in CardKinds
  /\ cardSt \in {"off", "idle", "ready", "ident", "stby", "tran", "data"}
  /\ app \in BOOLEAN
  /\ up \in BOOLEAN
  /\ blk512 \in BOOLEAN
  /\ seen \subseteq Marked

Init ==
  /\ pc = "reset" /\ step = "GO_IDLE_STATE"
  /\ cardReady = FALSE /\ isHC = FALSE /\ askHC = FALSE /\ r0 = "unknown"
  /\ flushes = FlushCycles /\ req = [sector |-> 0, count |-> 0]
  /\ i = 0 /\ buf = <<>> /\ ret = FALSE
  /\ cmd = NoCmd /\ errs = {} /\ rsp0 = "unknown" /\ hblc = 0 /\ cdiv = "off"
  /\ fifo \in {<<>>, <<Junk>>} /\ xfer = NoXfer
  /\ kind \in CardKinds
  /\ cardSt = "off" /\ app = FALSE /\ up = FALSE /\ blk512 = FALSE
  /\ seen = {}

-----------------------------------------------------------------------------
(* The primitives every operation is built from.                            *)

\* SH_CMD still shows SH_CMD_NEW_FLAG.
Pending == cmd.st \in {"new", "late"}

\* Mutant of Wait: the poll has no limit.
WaitForever == ~Pending /\ UNCHANGED seen

\* wait() with its result thrown away: the flag clears, or the poll runs out.
Wait ==
  \/ ~Pending /\ UNCHANGED seen
  \/ Pending /\ "timeout" \in Faults /\ seen' = seen \cup {"timeout"}

\* wait() whose caller does look at the result.
Waited(ok) ==
  IF ok THEN ~Pending /\ UNCHANGED seen
        ELSE Pending /\ "timeout" \in Faults /\ seen' = seen \cup {"timeout"}

\* Mutant of Responded: the fail flag of the command is not looked at.
RespondedAnyway(ok) ==
  \/ ok /\ ~Pending /\ r0' = rsp0 /\ UNCHANGED seen
  \/ ~ok /\ Waited(FALSE) /\ UNCHANGED r0

\* wait_and_get_response(): r is refreshed even when the command failed, but
\* not when the wait timed out.
Responded(ok) ==
  \/ /\ cmd.st = (IF ok THEN "done" ELSE "fail")
     /\ r0' = rsp0
     /\ UNCHANGED seen
  \/ ~ok /\ Waited(FALSE) /\ UNCHANGED r0

\* Mutant of SendRaw: the error bits are left as they are.
SendRawKeepingErrors(op, arg) ==
  /\ Wait
  /\ UNCHANGED errs
  /\ cmd' = [op |-> op, arg |-> arg, st |-> "new"]

\* send_raw(): wait, acknowledge the error bits, write SH_ARG and SH_CMD.
SendRaw(op, arg) ==
  /\ Wait
  /\ errs' = {}
  /\ cmd' = [op |-> op, arg |-> arg, st |-> "new"]

-----------------------------------------------------------------------------
(* restart_controller() and init_card().                                    *)

\* reset(), then the identification clock: the controller's registers are
\* cleared and the card is power-cycled.
Reset ==
  /\ pc = "reset"
  /\ pc' = "send"
  /\ cmd' = NoCmd /\ errs' = {} /\ hblc' = 0 /\ cdiv' = "ident"
  /\ cardSt' = "idle"
  /\ UNCHANGED <<identVars, callVars, rsp0, fifo, xfer, kind, app, up, blk512, seen>>

\* Commands whose answer init_card waits for before the next one.
Awaited(op) == op \notin {"GO_IDLE_STATE", "APP_CMD"}

\* One send of init_card.
SendInit ==
  /\ pc = "send"
  /\ SendRaw(step, IF step = "APP_OP_COND" /\ askHC THEN 1 ELSE 0)
  /\ pc' = IF Awaited(step) THEN "await" ELSE "send"
  /\ step' = CASE step = "GO_IDLE_STATE" -> "SEND_IF_COND"
               [] step = "APP_CMD"       -> "APP_OP_COND"
               [] OTHER                  -> step
  /\ UNCHANGED <<cardReady, isHC, askHC, r0, callVars, regVars, fifo, xfer, cardVars>>

\* CMD8: a failure is not an error, it only means no HCS in the ACMD41 argument.
QueryInterface ==
  /\ pc = "await" /\ step = "SEND_IF_COND"
  /\ \E ok \in BOOLEAN : Responded(ok)
  /\ askHC' = (r0' = "if_cond")
  /\ step' = "APP_CMD" /\ pc' = "send"
  /\ UNCHANGED <<cardReady, isHC, callVars, hwVars>>

\* ACMD41, repeated until the card reports MMC_OCR_MEM_READY.
QueryVoltage ==
  /\ pc = "await" /\ step = "APP_OP_COND"
  /\ Responded(TRUE)
  /\ pc' = "send"
  /\ IF r0' \in {"ready", "ready_hc"}
       THEN isHC' = (r0' = "ready_hc") /\ step' = "ALL_SEND_CID"
       ELSE isHC' = isHC /\ step' = "APP_CMD"
  /\ UNCHANGED <<cardReady, askHC, callVars, hwVars>>

\* Mutant of AfterIdentify: the card is never selected.
AfterIdentifyUnselected(op) ==
  CASE op = "ALL_SEND_CID"      -> "SET_RELATIVE_ADDR"
    [] op = "SET_RELATIVE_ADDR" -> "SEND_CID"
    [] op = "SEND_CID"          -> "SEND_CSD"
    [] OTHER                    -> "SET_BLOCKLEN"

AfterIdentify(op) ==
  CASE op = "ALL_SEND_CID"      -> "SET_RELATIVE_ADDR"
    [] op = "SET_RELATIVE_ADDR" -> "SEND_CID"
    [] op = "SEND_CID"          -> "SEND_CSD"
    [] OTHER                    -> "SELECT_CARD"

\* identify_card(): CMD2, CMD3, CMD10, CMD9, and the look at the CSD version.
Identify ==
  /\ pc = "await"
  /\ step \in {"ALL_SEND_CID", "SET_RELATIVE_ADDR", "SEND_CID", "SEND_CSD"}
  /\ Responded(TRUE)
  /\ pc' = IF step = "SEND_CSD" /\ kind.csd = "other" THEN "panic" ELSE "send"
  /\ step' = AfterIdentify(step)
  /\ UNCHANGED <<cardReady, isHC, askHC, callVars, hwVars>>

\* init_card() returns false on these, and restart_controller() panics.
InitFails ==
  /\ pc = "await"
  /\ \/ step \notin {"SEND_IF_COND", "SELECT_CARD", "SET_BLOCKLEN"} /\ Responded(FALSE)
     \/ step \in {"SELECT_CARD", "SET_BLOCKLEN"} /\ Waited(FALSE) /\ UNCHANGED r0
  /\ pc' = "panic"
  /\ UNCHANGED <<step, cardReady, isHC, askHC, callVars, hwVars>>

\* Only wait() is asked about CMD7 and CMD16, never the fail flag.
\* A version 1.0 CSD needs CMD16; after it the clock goes up and card_ready is set.
Selected ==
  /\ pc = "await" /\ step \in {"SELECT_CARD", "SET_BLOCKLEN"}
  /\ Waited(TRUE)
  /\ IF step = "SELECT_CARD" /\ kind.csd = "1.0"
       THEN /\ step' = "SET_BLOCKLEN" /\ pc' = "send"
            /\ UNCHANGED <<cardReady, req, i, buf, hblc, cdiv>>
       ELSE /\ cdiv' = "data" /\ cardReady' = TRUE
            /\ pc' = "drain" /\ req' = [sector |-> 0, count |-> 1]
            /\ i' = 0 /\ buf' = <<>> /\ hblc' = 1
            /\ UNCHANGED step
  /\ UNCHANGED <<isHC, askHC, r0, flushes, ret, cmd, errs, rsp0, fifo, xfer, cardVars>>

-----------------------------------------------------------------------------
(* read_block().                                                             *)

\* A caller (FatFs, the partition table) asks for blocks.
BeginRead(s, n) ==
  /\ pc = "idle"
  /\ pc' = "drain"
  /\ req' = [sector |-> s, count |-> n]
  /\ i' = 0 /\ buf' = <<>> /\ hblc' = n
  /\ UNCHANGED <<identVars, flushes, ret, cmd, errs, rsp0, cdiv, fifo, xfer, cardVars, seen>>

\* drain_fifo() first waits for the command before it, usually the STOP ...
DrainWait ==
  /\ pc = "drain"
  /\ Wait
  /\ pc' = "drainFifo"
  /\ UNCHANGED <<identVars, callVars, hwVars>>

\* Mutant of DrainFifo: what an earlier read left in the FIFO stays there.
KeepFifo ==
  /\ pc = "drainFifo" /\ pc' = "issue"
  /\ UNCHANGED <<identVars, callVars, hwVars, seen>>

\* ... then reads SH_DATA for as long as the data flag is set.
DrainFifo ==
  /\ pc = "drainFifo"
  /\ IF fifo = <<>>
       THEN pc' = "issue" /\ UNCHANGED fifo
       ELSE pc' = pc /\ fifo' = Tail(fifo)
  /\ UNCHANGED <<identVars, callVars, cmd, errs, regVars, xfer, cardVars, seen>>

\* Mutant of Address: sectors are counted from one.
AddressFromOne(s) == IF isHC THEN s - 1 ELSE (s - 1) * 512

\* The command argument: a block number, or a byte address for an SDSC card.
Address(s) == IF isHC THEN s ELSE s * 512

IssueRead ==
  /\ pc = "issue"
  /\ SendRaw(IF req.count = 1 THEN "READ_BLOCK_SINGLE" ELSE "READ_BLOCK_MULTIPLE",
             Address(req.sector))
  /\ pc' = "settle"
  /\ UNCHANGED <<identVars, callVars, regVars, fifo, xfer, cardVars>>

\* The wait() after the read command; its result is not looked at.
SettleRead ==
  /\ pc = "settle"
  /\ Wait
  /\ pc' = "poll"
  /\ UNCHANGED <<identVars, callVars, hwVars>>

\* The card is sending; a poll that runs out all the same is a stall.
Flowing == cardSt = "data" /\ xfer.left > 0

\* wait_for_fifo_data(): the head of the copy loop.
PollData ==
  /\ pc = "poll"
  /\ \/ i = Chunks /\ pc' = "halt" /\ UNCHANGED seen
     \/ i < Chunks /\ fifo # <<>> /\ pc' = "check" /\ UNCHANGED seen
     \/ /\ i < Chunks /\ fifo = <<>> /\ pc' = "halt"
        /\ IF Flowing THEN "stall" \in Faults /\ seen' = seen \cup {"other"}
                      ELSE UNCHANGED seen
  /\ UNCHANGED <<identVars, callVars, hwVars>>

\* Mutant of CheckErrors: the copy loop ignores SH_HSTS.
CheckNothing ==
  /\ pc = "check" /\ pc' = "data"
  /\ UNCHANGED <<identVars, callVars, hwVars, seen>>

\* The error bits are looked at before every word, and end the loop.
CheckErrors ==
  /\ pc = "check"
  /\ pc' = IF errs = {} THEN "data" ELSE "halt"
  /\ UNCHANGED <<identVars, callVars, hwVars, seen>>

\* The flush reads of restart_controller() pass a null buffer.
TakeWord ==
  /\ pc = "data"
  /\ pc' = "poll"
  /\ i' = i + 1
  /\ buf' = IF flushes = 0 THEN Append(buf, Head(fifo)) ELSE buf
  /\ fifo' = Tail(fifo)
  /\ UNCHANGED <<identVars, flushes, req, ret, cmd, errs, regVars, xfer, cardVars, seen>>

\* STOP_TRANSMISSION goes out after every read, single or multiple, and nobody
\* waits for it.  The result is TRUE whatever happened: the loop assigns an
\* hsts_err of its own that hides the one tested here.  Three flush reads, then
\* the driver is up.
FinishRead ==
  /\ pc = "halt"
  /\ SendRaw("STOP_TRANSMISSION", 0)
  /\ ret' = TRUE
  /\ IF flushes > 1
       THEN pc' = "drain" /\ flushes' = flushes - 1 /\ i' = 0 /\ hblc' = 1
       ELSE pc' = "idle" /\ flushes' = 0 /\ UNCHANGED <<i, hblc>>
  /\ UNCHANGED <<identVars, req, buf, rsp0, cdiv, fifo, xfer, cardVars>>

-----------------------------------------------------------------------------
(* stop().  card_ready is set whenever a caller can get here.                *)

BeginStop ==
  /\ pc = "idle"
  /\ pc' = "flush"
  /\ UNCHANGED <<identVars, callVars, hwVars, seen>>

\* drain_fifo_nowait(): one word at least, on while SH_HSTS is the data flag alone.
\* Then the slow clock.
FlushFifo ==
  /\ pc = "flush"
  /\ fifo' = IF fifo = <<>> THEN fifo ELSE Tail(fifo)
  /\ IF fifo' # <<>> /\ errs = {}
       THEN UNCHANGED <<pc, cdiv>>
       ELSE pc' = "park" /\ cdiv' = "ident"
  /\ UNCHANGED <<identVars, callVars, cmd, errs, rsp0, hblc, xfer, cardVars, seen>>

Park ==
  /\ pc = "park"
  /\ SendRaw("GO_IDLE_STATE", 0)
  /\ pc' = "unpower"
  /\ UNCHANGED <<identVars, callVars, regVars, fifo, xfer, cardVars>>

\* Registers cleared, power off.  card_ready stays set.
Unpower ==
  /\ pc = "unpower"
  /\ pc' = "stopped"
  /\ cmd' = NoCmd /\ errs' = {} /\ hblc' = 0 /\ cdiv' = "off"
  /\ cardSt' = "off" /\ xfer' = NoXfer
  /\ UNCHANGED <<identVars, callVars, rsp0, fifo, kind, app, up, blk512, seen>>

-----------------------------------------------------------------------------
(* The controller and the card.                                              *)

\* The card understands op in its present state.
Accepts(op) ==
  \/ op = "GO_IDLE_STATE"
  \/ cardSt = "idle" /\ (\/ op = "APP_CMD"
                         \/ op = "SEND_IF_COND" /\ kind.v2
                         \/ op = "APP_OP_COND" /\ app)
  \/ cardSt = "ready" /\ op = "ALL_SEND_CID"
  \/ cardSt = "ident" /\ op = "SET_RELATIVE_ADDR"
  \/ cardSt = "stby" /\ op \in {"SEND_CID", "SEND_CSD", "SELECT_CARD"}
  \/ cardSt = "tran" /\ op \in ReadOps \cup {"SET_BLOCKLEN"}
  \/ cardSt = "data" /\ op = "STOP_TRANSMISSION"

\* A high-capacity card stays busy until the host announces HCS.
PoweredUp == up /\ (kind.hc => cmd.arg = 1)

\* What the card does on taking the command.
Execute ==
  /\ app' = (cmd.op = "APP_CMD")
  /\ blk512' = (blk512 \/ kind.csd = "2.0" \/ cmd.op = "SET_BLOCKLEN")
  /\ cardSt' = CASE cmd.op = "GO_IDLE_STATE"               -> "idle"
                 [] cmd.op = "APP_OP_COND" /\ PoweredUp    -> "ready"
                 [] cmd.op = "ALL_SEND_CID"                -> "ident"
                 [] cmd.op = "SET_RELATIVE_ADDR"           -> "stby"
                 [] cmd.op \in {"SELECT_CARD", "STOP_TRANSMISSION"} -> "tran"
                 [] cmd.op \in ReadOps                     -> "data"
                 [] OTHER                                  -> cardSt
  /\ xfer' = CASE cmd.op \in ReadOps ->
                    [next  |-> (IF kind.hc THEN cmd.arg ELSE cmd.arg \div 512) * WordsPerBlock,
                     left  |-> WordsPerBlock * hblc,
                     bad   |-> FALSE,
                     multi |-> cmd.op = "READ_BLOCK_MULTIPLE"]
               [] cmd.op \in {"STOP_TRANSMISSION", "GO_IDLE_STATE"} -> NoXfer
               [] OTHER -> xfer

Answer ==
  CASE cmd.op = "SEND_IF_COND" -> "if_cond"
    [] cmd.op = "APP_OP_COND"  -> IF ~PoweredUp THEN "busy"
                                  ELSE IF kind.hc THEN "ready_hc" ELSE "ready"
    [] OTHER                   -> "status"

\* The command is taken and the flag clears.
Complete ==
  /\ cmd.st = "new" /\ Accepts(cmd.op)
  /\ Execute
  /\ rsp0' = (IF cmd.op = "GO_IDLE_STATE" THEN rsp0 ELSE Answer)
  /\ cmd' = [cmd EXCEPT !.st = "done"]
  /\ UNCHANGED <<driverVars, errs, hblc, cdiv, fifo, kind, up, seen>>

\* The card does not answer an illegal command: SDHSTS_CMD_TIME_OUT.
Reject ==
  /\ cmd.st = "new" /\ ~Accepts(cmd.op)
  /\ cmd' = [cmd EXCEPT !.st = "fail"] /\ errs' = errs \cup {"cmd"}
  /\ app' = FALSE
  /\ UNCHANGED <<driverVars, regVars, fifo, xfer, kind, cardSt, up, blk512, seen>>

\* Fault: the card never sees the command.
Lose ==
  /\ "lost" \in Faults
  /\ cmd.st = "new" /\ Accepts(cmd.op) /\ cmd.op # "GO_IDLE_STATE"
  /\ cmd' = [cmd EXCEPT !.st = "fail"] /\ errs' = errs \cup {"cmd"}
  /\ seen' = seen \cup {Mark(cmd.op)}
  /\ UNCHANGED <<driverVars, regVars, fifo, xfer, cardVars>>

\* Fault: the card takes the command and its response does not pass CRC7.
Garble ==
  /\ "garbled" \in Faults
  /\ cmd.st = "new" /\ Accepts(cmd.op) /\ cmd.op # "GO_IDLE_STATE"
  /\ Execute
  /\ cmd' = [cmd EXCEPT !.st = "fail"] /\ errs' = errs \cup {"cmd"}
  /\ seen' = seen \cup {"other"}
  /\ UNCHANGED <<driverVars, regVars, fifo, kind, up>>

\* Fault: the card takes the command, and the flag clears only later (Report),
\* perhaps after the driver gave up waiting.
Delay ==
  /\ "late" \in Faults
  /\ cmd.st = "new" /\ Accepts(cmd.op)
  /\ Execute
  /\ cmd' = [cmd EXCEPT !.st = "late"]
  /\ rsp0' = (IF cmd.op = "GO_IDLE_STATE" THEN rsp0 ELSE Answer)
  /\ seen' = seen \cup {"other"}
  /\ UNCHANGED <<driverVars, errs, hblc, cdiv, fifo, kind, up>>

Report ==
  /\ cmd.st = "late"
  /\ cmd' = [cmd EXCEPT !.st = "done"]
  /\ UNCHANGED <<driverVars, errs, regVars, fifo, xfer, cardVars, seen>>

BlockEnd == xfer.left % WordsPerBlock = 0

\* A word reaches the FIFO.  The controller enters its read state with the
\* response to a read command, so nothing moves while one is pending; nor does
\* a new block begin before the CRC of the last one was judged.
Feed(ok) ==
  /\ Flowing /\ Len(fifo) < FifoDepth
  /\ ~(Pending /\ cmd.op \in ReadOps)
  /\ ~(xfer.bad /\ BlockEnd)
  /\ ok \/ "crc" \in Faults
  /\ fifo' = Append(fifo, [addr |-> xfer.next, ok |-> ok])
  /\ xfer' = [xfer EXCEPT !.next = @ + 1, !.left = @ - 1, !.bad = @ \/ ~ok]
  /\ cardSt' = IF xfer.left = 1 /\ ~xfer.multi THEN "tran" ELSE cardSt
  /\ seen' = IF ok THEN seen ELSE seen \cup {"other"}
  /\ UNCHANGED <<driverVars, cmd, errs, regVars, kind, app, up, blk512>>

\* The CRC16 of a block is known only after its last word.
JudgeCrc ==
  /\ xfer.bad /\ BlockEnd
  /\ errs' = errs \cup {"data"}
  /\ xfer' = [xfer EXCEPT !.bad = FALSE]
  /\ UNCHANGED <<driverVars, cmd, regVars, fifo, cardVars, seen>>

PowerUp ==
  /\ cardSt = "idle" /\ ~up
  /\ up' = TRUE
  /\ UNCHANGED <<driverVars, cmd, errs, regVars, fifo, xfer, kind, cardSt, app, blk512, seen>>

-----------------------------------------------------------------------------

BringUp   == Reset \/ SendInit \/ QueryInterface \/ QueryVoltage \/ Identify
             \/ InitFails \/ Selected
ReadBlock == DrainWait \/ DrainFifo \/ IssueRead \/ SettleRead \/ PollData
             \/ CheckErrors \/ TakeWord \/ FinishRead
StopSteps == FlushFifo \/ Park \/ Unpower
Driver    == BringUp \/ ReadBlock \/ StopSteps
Caller    == BeginStop \/ \E s \in Sectors, n \in 1 .. MaxCount : BeginRead(s, n)
CommandLine == Complete \/ Reject \/ Lose \/ Garble \/ Delay \/ Report
DataLine    == JudgeCrc \/ \E ok \in BOOLEAN : Feed(ok)
Hardware    == CommandLine \/ DataLine \/ PowerUp

Next == Driver \/ Caller \/ Hardware

Spec == Init /\ [][Next]_vars

\* The chainloader is a single thread that never yields: the driver goes on.
DriverFairness == WF_vars(Driver)

\* SH_TOUT bounds how long the controller holds a command, and a card powers up.
CommandFairness == WF_vars(CommandLine) /\ WF_vars(PowerUp)

LiveSpec == Spec /\ DriverFairness

-----------------------------------------------------------------------------
(* Properties.                                                               *)

\* Neither did a wait() run out nor was a STOP lost on a sending card.  Both
\* leave the card and the driver disagreeing about what the FIFO holds, and the
\* code looks at neither result.
Trusted == seen \cap {"timeout", "STOP_TRANSMISSION"} = {}

\* What read_block stores is, from the first word on, what was asked for: no
\* word of an aborted earlier read gets in, none is skipped and none doubled,
\* and SDSC and SDHC addressing agree with the card in the slot.
RightWords == Trusted => \A n \in 1 .. Len(buf) : buf[n].addr = Wanted(n)

\* Once a block has failed its CRC, read_block stores no word of a later block.
NothingPastBadBlock ==
  Trusted => \A n \in 1 .. Len(buf) :
               ~buf[n].ok => Len(buf) <= WordsPerBlock * ((n - 1) \div WordsPerBlock + 1)

\* A read nothing went wrong for is complete, although the STOP sent after a
\* single-block read is illegal there and always leaves error bits behind.
CleanReadIsComplete == pc \in {"halt", "idle"} /\ seen = {} => i = Chunks

\* card_ready promises a selected card with 512-byte blocks and the right kind
\* of addresses, unless the card missed one of the two commands (CMD7, CMD16)
\* of which init_card checks only that the controller is done with them.
ReadyCard ==
  cardReady /\ pc \notin {"unpower", "stopped"} =>
    /\ isHC = kind.hc
    /\ \/ cardSt \in {"tran", "data"} /\ blk512
       \/ seen \cap {"SELECT_CARD", "SET_BLOCKLEN"} # {}

\* Every read_block and every stop() returns, whatever the hardware does or
\* fails to do: each poll of theirs is bounded, the draining loops by the data
\* phase that feeds them.
CallsReturn ==
  /\ (cardReady /\ pc \notin {"idle", "flush", "park", "unpower", "stopped"}) ~> (pc = "idle")
  /\ (pc = "flush") ~> (pc = "stopped")

\* With a controller that finishes its commands and a card that powers up,
\* bring-up ends in a ready card or a panic -- except that an SDHC card whose
\* answer to CMD8 was lost is asked without HCS, and the ACMD41 loop of
\* query_voltage_and_type has no limit.
BringUpSettles ==
  CommandFairness =>
    <>(\/ cardReady
       \/ pc = "panic"
       \/ kind.hc /\ ~askHC /\ step \in {"APP_CMD", "APP_OP_COND"})

\* What the result of read_block is for ("ERROR: Transfer error" and return
\* false; disk_read and the flush cycles test it): true means all words came.
TrueMeansComplete == pc = "idle" /\ ret => i = Chunks
=============================================================================
