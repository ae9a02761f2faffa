------------------------------- MODULE SdCard --------------------------------
(***************************************************************************)
(* The SD card driver (sd.c) behind machine.SDCard (machine_sdcard.c):     *)
(* sd_init, sd_readblock and sd_writeblock with the commands they send,    *)
(* their error paths, the EMMC controller and the card.                    *)
(*                                                                         *)
(* One step is one command (sd_cmd), one wait for data (sd_int) or one     *)
(* set-up action.  The card and the controller are hardware, modelled from *)
(* how sd.c uses them: a command may be lost, or be obeyed and its answer  *)
(* lost, and a block may fail on the line; MaxFaults bounds how often.     *)
(* Every wait polls through mp_hal_delay_ms, out of which a pending        *)
(* exception (Ctrl-C) may jump: Interrupted.  Callbacks that call the      *)
(* driver again from such a wait are not modelled.                         *)
(***************************************************************************)
EXTENDS Integers, Sequences

CONSTANTS
  NBlocks,        \* blocks of the card
  SECTOR,         \* bytes in a block (512), the unit of a byte address
  Cards,          \* kinds of card: [high |-> block-addressed, scr |-> its SCR]
  Lbas, ReadNums, WriteNums,  \* arguments of readblocks and writeblocks
  Data,           \* what writeblocks writes
  MaxFaults,      \* bound: hardware faults
  Interruptible   \* whether an exception comes out of a wait

\* Flags of sd_scr[0].  CCS is the driver's own (line 158); in the register the
\* card sends, that bit is the lowest one of SD_SPEC.
Flags == {"WIDTH_4", "SET_BLKCNT", "CCS"}

ASSUME SizeAssumption == NBlocks \in Nat \ {0} /\ SECTOR \in Nat \ {0, 1}
ASSUME CardsAssumption == Cards \subseteq [high : BOOLEAN, scr : SUBSET Flags]
ASSUME CallsAssumption ==
  /\ Lbas \subseteq Nat /\ ReadNums \subseteq Nat /\ WriteNums \subseteq Nat
  /\ Data \cap Nat = {}
ASSUME BoundsAssumption ==
  MaxFaults \in Nat /\ Interruptible \in BOOLEAN

Blocks == 0 .. NBlocks - 1
SD_OK      == "OK"
SD_TIMEOUT == "TIMEOUT"
SD_ERROR   == "ERROR"
NoCall == [kind |-> "none"]
Open   == -1                    \* blocks left of a transfer without a count

VARIABLES
  card,        \* the card: kind, state, bus width, address, transfer
  store,       \* what its blocks hold; at first each its own number
  hostWide,    \* CONTROL0, the 4-bit flag
  clocked,     \* the controller gives a stable clock
  intErr,      \* an error flag is set in INTERRUPT
  dat,         \* SR_DAT_INHIBIT: a transfer the controller has not ended
  lateErr,     \* a written block failed; the controller will flag it
  sd_scr, sd_rca, sd_err,
  pc, call,    \* where the driver is and what for
  cnt, ccs,    \* sd_init's locals
  c, buf,      \* sd_readblock's: blocks so far, the buffer
  ret,         \* result of the last read or write
  initOk,      \* history: the last sd_init returned SD_OK
  moved,       \* history: blocks of the call the card has stored
  faults

hw     == <<card, store, hostWide, clocked, intErr, dat, lateErr>>
driver == <<sd_scr, sd_rca, sd_err>>
locals == <<call, cnt, ccs, c, buf>>
vars == <<card, store, hostWide, clocked, intErr, dat, lateErr, sd_scr, sd_rca,
          sd_err, pc, call, cnt, ccs, c, buf, ret, initOk, moved, faults>>

PowerUp(k) == [kind |-> k, state |-> "idle", wide |-> FALSE, rca |-> FALSE,
               blkcnt |-> 0, addr |-> 0, left |-> 0]
Init ==
  /\ \E k \in Cards : card = PowerUp(k)
  /\ store = [b \in Blocks |-> b]
  /\ hostWide = FALSE /\ clocked = FALSE
  /\ intErr = FALSE /\ dat = FALSE /\ lateErr = FALSE
  /\ sd_scr = {} /\ sd_rca = FALSE /\ sd_err = SD_OK
  /\ pc = "idle" /\ call = NoCall
  /\ cnt = 0 /\ ccs = FALSE /\ c = 0 /\ buf = << >>
  /\ ret = "none" /\ initOk = FALSE /\ moved = {} /\ faults = 0

Fault   == faults < MaxFaults /\ faults' = faults + 1
NoFault == UNCHANGED faults

-----------------------------------------------------------------------------
(* The card. *)

States == {"idle", "ready", "ident", "stby", "tran", "data", "rcv"}

\* The states in which the card obeys a command.  A step of the driver that
\* sends a command has its name as pc; the commands with the CMD_NEED_APP flag
\* stand for CMD_APP_CMD and the command itself.
Obeyed ==
  [GO_IDLE |-> States, SEND_IF_COND |-> {"idle"}, SEND_OP_COND |-> {"idle"},
   ALL_SEND_CID |-> {"ready"}, SEND_REL_ADDR |-> {"ident", "stby"},
   CARD_SELECT |-> {"stby"}, SEND_SCR |-> {"tran"}, SET_BUS_WIDTH |-> {"tran"},
   SET_BLOCKCNT |-> {"tran"}, READ_SINGLE |-> {"tran"}, READ_MULTI |-> {"tran"},
   WRITE_SINGLE |-> {"tran"}, WRITE_MULTI |-> {"tran"},
   STOP_TRANS |-> {"data", "rcv"}]
Commands   == DOMAIN Obeyed
Unanswered == {"GO_IDLE"}      \* the host cannot tell whether it was heard
AppReplied == {"SEND_SCR", "SET_BUS_WIDTH"}  \* CMD_APP_CMD has an answer

BlockMode == "CCS" \in sd_scr
\* Wrong on purpose: every block of a call has the same byte address.
Arg_First == IF BlockMode THEN call.lba ELSE call.lba * SECTOR
\* The address the driver sends: a block number, or (lba + c) * 512
Arg == IF BlockMode THEN call.lba ELSE (call.lba + c) * SECTOR

\* The block the card takes an address for, if it has one there
At(a) == IF card.kind.high THEN a
         ELSE IF a % SECTOR = 0 THEN a \div SECTOR ELSE NBlocks

Transfer(state, left) ==
  IF At(Arg) \in Blocks
  THEN [card EXCEPT !.state = state, !.addr = At(Arg), !.left = left, !.blkcnt = 0]
  ELSE card
Multi(state) == Transfer(state, IF card.blkcnt = 0 THEN Open ELSE card.blkcnt)

\* The card once it has obeyed the command of this step
After ==
  CASE pc = "GO_IDLE"       -> PowerUp(card.kind)
    [] pc = "SEND_OP_COND"  -> [card EXCEPT !.state = "ready"]
    [] pc = "ALL_SEND_CID"  -> [card EXCEPT !.state = "ident"]
    [] pc = "SEND_REL_ADDR" -> [card EXCEPT !.state = "stby", !.rca = TRUE]
    [] pc = "CARD_SELECT"   -> [card EXCEPT !.state = "tran"]
    [] pc = "SET_BUS_WIDTH" -> [card EXCEPT !.wide = TRUE]
    [] pc = "SET_BLOCKCNT"  -> [card EXCEPT !.blkcnt = call.num]
    [] pc = "READ_SINGLE"   -> Transfer("data", 1)
    [] pc = "READ_MULTI"    -> Multi("data")
    [] pc = "WRITE_SINGLE"  -> Transfer("rcv", 1)
    [] pc = "WRITE_MULTI"   -> Multi("rcv")
    [] pc = "STOP_TRANS"    -> [card EXCEPT !.state = "tran", !.left = 0]
    [] OTHER -> card

\* The card once one more block has gone over the line; past its last block
\* it has nothing to move.
Advanced ==
  IF card.left = 1 THEN [card EXCEPT !.state = "tran", !.left = 0]
  ELSE [card EXCEPT !.addr = IF @ \in Blocks THEN @ + 1 ELSE @,
                    !.left = IF @ = Open THEN Open ELSE @ - 1]

Heard == clocked /\ card.state \in Obeyed[pc]
OnLine(state) ==
  card.state = state /\ card.addr \in Blocks /\ card.wide = hostWide

-----------------------------------------------------------------------------
(* sd_cmd: how a command may end. *)

\* sd_status sees an error flag left in INTERRUPT, or the controller busy:
\* nothing is sent and nothing cleared.
Refused ==
  /\ \/ intErr /\ NoFault /\ UNCHANGED lateErr
     \/ ~intErr /\ lateErr /\ lateErr' = FALSE /\ NoFault
     \/ ~intErr /\ ~lateErr /\ Fault /\ UNCHANGED lateErr
  /\ intErr' = (intErr \/ lateErr)
  /\ sd_err' = IF pc \in AppReplied THEN SD_ERROR ELSE SD_TIMEOUT
  /\ UNCHANGED card

\* INTERRUPT is cleared and the command sent.  A late error that is flagged
\* between the test and the clearing is cleared with the rest.
Answered ==
  /\ ~intErr /\ NoFault
  /\ lateErr' = FALSE /\ UNCHANGED intErr
  /\ card' = IF Heard THEN After ELSE card
  /\ sd_err' = IF Heard \/ pc \in Unanswered THEN SD_OK
               ELSE IF pc \in AppReplied THEN SD_ERROR ELSE SD_TIMEOUT

\* The command or its answer is lost, or a late error is flagged while sd_int
\* waits for the answer: it returns that and clears it.
Unheard ==
  /\ ~intErr
  /\ IF lateErr THEN NoFault ELSE Fault
  /\ lateErr' = FALSE /\ UNCHANGED intErr
  /\ card' \in IF Heard THEN {card, After} ELSE {card}
  /\ sd_err' \in IF pc \in Unanswered THEN {SD_OK} ELSE {SD_TIMEOUT, SD_ERROR}

sd_cmd == pc \in Commands /\ (Refused \/ Answered \/ Unheard)

-----------------------------------------------------------------------------
(* machine.SDCard: ioctl(INIT), readblocks, writeblocks. *)

StartInit == pc' = "reset" /\ initOk' = FALSE /\ ccs' = FALSE

CallInit ==
  /\ pc = "idle"
  /\ StartInit
  /\ UNCHANGED <<hw, driver, call, cnt, c, buf, ret, moved, faults>>

\* Here a caller uses the card while its last initialisation succeeded; what
\* the start-up code does is in SdMount.
MayCall == pc = "idle" /\ initOk

\* if(num<1) num=1
Length(num) == IF num < 1 THEN 1 ELSE num

StartCall(k) ==
  /\ call' = k
  /\ pc' = "status" /\ c' = 0 /\ buf' = << >> /\ moved' = {}
  /\ UNCHANGED <<hw, driver, cnt, ccs, ret, initOk, faults>>

Read(l, n) == [kind |-> "read", lba |-> l, num |-> Length(n), data |-> 0,
               aligned |-> TRUE]
Write(l, n, d, a) == [kind |-> "write", lba |-> l, num |-> Length(n), data |-> d,
                      aligned |-> a]

readblocks  == MayCall /\ \E l \in Lbas, n \in ReadNums : StartCall(Read(l, n))
writeblocks ==
  /\ MayCall
  /\ \E l \in Lbas, n \in WriteNums, d \in Data, a \in BOOLEAN :
       StartCall(Write(l, n, d, a))

-----------------------------------------------------------------------------
(* sd_init. *)

ReturnInit(ok) == pc' = "idle" /\ initOk' = ok
Then(p) == pc' = p /\ UNCHANGED initOk

rwVars == <<call, c, buf, ret, moved>>

\* Lines 358-366.  The controller forgets its clock, flags and transfer.
Reset ==
  /\ pc = "reset"
  /\ hostWide' = FALSE /\ clocked' = FALSE
  /\ intErr' = FALSE /\ dat' = FALSE /\ lateErr' = FALSE
  /\ \/ NoFault /\ Then("clock")
     \/ Fault /\ ReturnInit(FALSE)
  /\ UNCHANGED <<card, store, driver, cnt, ccs, rwVars>>

\* sd_clk(400000), and what line 371 resets
Clock ==
  /\ pc = "clock"
  /\ \/ NoFault /\ Then("GO_IDLE") /\ clocked' = TRUE
        /\ sd_scr' = {} /\ sd_rca' = FALSE /\ sd_err' = SD_OK
     \/ Fault /\ ReturnInit(FALSE) /\ UNCHANGED <<clocked, driver>>
  /\ UNCHANGED <<card, store, hostWide, intErr, dat, lateErr, cnt, ccs, rwVars>>

\* The commands after which sd_init only looks at sd_err.  The answer of
\* SEND_IF_COND and the outcome of ALL_SEND_CID are not looked at.
Following ==
  [GO_IDLE |-> "SEND_IF_COND", SEND_IF_COND |-> "SEND_OP_COND",
   ALL_SEND_CID |-> "SEND_REL_ADDR", CARD_SELECT |-> "scrStatus",
   SEND_SCR |-> "scr"]

InitCommand ==
  /\ pc \in DOMAIN Following
  /\ sd_cmd
  /\ IF sd_err' = SD_OK \/ pc = "ALL_SEND_CID"
     THEN Then(Following[pc]) ELSE ReturnInit(FALSE)
  /\ cnt' = IF pc = "SEND_IF_COND" THEN 6 ELSE cnt
  /\ UNCHANGED <<store, hostWide, clocked, dat, sd_scr, sd_rca, ccs, rwVars>>

\* Wrong on purpose: the tries are not counted.
OpCondAgain_NoLimit ==
  /\ \/ NoFault /\ card' = card /\ sd_err' = IF Heard THEN SD_OK ELSE SD_TIMEOUT
     \/ Fault /\ card' \in (IF Heard THEN {card, After} ELSE {card})
        /\ sd_err' \in {SD_TIMEOUT, SD_ERROR}
  /\ IF sd_err' = SD_ERROR THEN ReturnInit(FALSE) ELSE Then(pc)
  /\ UNCHANGED ccs

\* A try without COMPLETE: the card is still powering up, or it or its answer
\* was not heard.  Only SD_ERROR ends the loop before six tries are over.
OpCondAgain ==
  /\ \/ NoFault /\ card' = card /\ sd_err' = IF Heard THEN SD_OK ELSE SD_TIMEOUT
     \/ Fault /\ card' \in (IF Heard THEN {card, After} ELSE {card})
        /\ sd_err' \in {SD_TIMEOUT, SD_ERROR}
  /\ IF sd_err' = SD_ERROR \/ cnt = 1 THEN ReturnInit(FALSE) ELSE Then(pc)
  /\ UNCHANGED ccs

\* COMPLETE.  A failure of the unanswered CMD_APP_CMD is not noticed, but stays
\* in sd_err.  The sixth try leaves cnt = 0, which line 394 takes for a timeout.
OpCondComplete ==
  /\ Heard /\ card' = After
  /\ \/ NoFault /\ sd_err' = SD_OK
     \/ Fault /\ sd_err' \in {SD_TIMEOUT, SD_ERROR}
  /\ IF sd_err' = SD_ERROR \/ cnt = 1
     THEN ReturnInit(FALSE) /\ UNCHANGED ccs
     ELSE Then("ALL_SEND_CID") /\ ccs' = card.kind.high

SendOpCond ==
  /\ pc = "SEND_OP_COND"
  /\ OpCondAgain \/ OpCondComplete
  /\ cnt' = cnt - 1
  /\ UNCHANGED <<store, hostWide, clocked, intErr, dat, lateErr, sd_scr, sd_rca,
                 rwVars>>

SendRelAddr ==
  /\ pc = "SEND_REL_ADDR"
  /\ sd_cmd
  /\ sd_rca' = (sd_err' = SD_OK)
  /\ IF sd_err' = SD_OK THEN Then("clock2") ELSE ReturnInit(FALSE)
  /\ UNCHANGED <<store, hostWide, clocked, dat, sd_scr, cnt, ccs, rwVars>>

\* sd_clk(10400000): the clock is off while the divider changes.
Clock2 ==
  /\ pc = "clock2"
  /\ \/ NoFault /\ Then("CARD_SELECT") /\ UNCHANGED clocked
     \/ Fault /\ ReturnInit(FALSE) /\ clocked' \in BOOLEAN
  /\ UNCHANGED <<card, store, hostWide, intErr, dat, lateErr, driver, cnt, ccs,
                 rwVars>>

\* Lines 412 and 416-420: the wait before SEND_SCR; the wait after it, and the
\* first word of the register, as the card sent it.
ScrStatus ==
  /\ pc = "scrStatus"
  /\ \/ NoFault /\ Then("SEND_SCR")
     \/ Fault /\ ReturnInit(FALSE)
  /\ UNCHANGED <<hw, driver, cnt, ccs, rwVars>>

Scr ==
  /\ pc = "scr"
  /\ \/ NoFault /\ Then("words") /\ sd_scr' = card.kind.scr /\ UNCHANGED dat
     \/ Fault /\ ReturnInit(FALSE) /\ dat' \in BOOLEAN /\ UNCHANGED sd_scr
  /\ UNCHANGED <<card, store, hostWide, clocked, intErr, lateErr, sd_rca, sd_err,
                 cnt, ccs, rwVars>>

\* Wrong on purpose: the driver's flag is not set.
Finish_NoFlag ==
  /\ ReturnInit(TRUE)
  /\ sd_scr' = sd_scr \ {"CCS"}

\* Lines 437-439
Finish ==
  /\ ReturnInit(TRUE)
  /\ sd_scr' = (sd_scr \ {"CCS"}) \cup (IF ccs THEN {"CCS"} ELSE {})

\* The second word.  The loop of line 418 does not count its turns down: the
\* words are taken to come once sd_int has seen INT_READ_RDY.
Words ==
  /\ pc = "words"
  /\ IF "WIDTH_4" \in sd_scr
     THEN Then("SET_BUS_WIDTH") /\ UNCHANGED sd_scr ELSE Finish
  /\ UNCHANGED <<hw, sd_rca, sd_err, cnt, ccs, rwVars, faults>>

SetBusWidth ==
  /\ pc = "SET_BUS_WIDTH"
  /\ sd_cmd
  /\ IF sd_err' = SD_OK
     THEN Finish /\ hostWide' = TRUE
     ELSE ReturnInit(FALSE) /\ UNCHANGED <<sd_scr, hostWide>>
  /\ UNCHANGED <<store, clocked, dat, sd_rca, cnt, ccs, rwVars>>

sd_init == Reset \/ Clock \/ InitCommand \/ SendOpCond \/ SendRelAddr \/ Clock2
             \/ ScrStatus \/ Scr \/ Words \/ SetBusWidth

-----------------------------------------------------------------------------
(* sd_readblock and sd_writeblock. *)

initVars == <<cnt, ccs, initOk, hostWide, clocked, sd_scr, sd_rca>>
Return(r) == pc' = "idle" /\ ret' = r
Continue(p) == pc' = p /\ UNCHANGED ret

Transfers == {"READ_SINGLE", "READ_MULTI", "WRITE_SINGLE", "WRITE_MULTI"}
TransferCommand ==
  LET multi == BlockMode /\ call.num > 1
  IN IF call.kind = "read" THEN IF multi THEN "READ_MULTI" ELSE "READ_SINGLE"
     ELSE IF multi THEN "WRITE_MULTI" ELSE "WRITE_SINGLE"

\* sd_status(SR_DAT_INHIBIT); sd_writeblock also refuses unaligned data.
Status ==
  /\ pc = "status"
  /\ \/ /\ IF dat \/ intErr THEN NoFault ELSE Fault
        /\ sd_err' = SD_TIMEOUT /\ Return("error")
     \/ /\ ~dat /\ ~intErr /\ NoFault
        /\ ~call.aligned /\ sd_err' = SD_OK /\ Return("error")
     \/ /\ ~dat /\ ~intErr /\ NoFault
        /\ call.aligned /\ UNCHANGED sd_err
        /\ IF BlockMode /\ call.num > 1 /\ "SET_BLKCNT" \in sd_scr
           THEN Continue("SET_BLOCKCNT") ELSE Continue(TransferCommand)
  /\ UNCHANGED <<card, store, intErr, dat, lateErr, initVars, call, c, buf, moved>>

SetBlockCnt ==
  /\ pc = "SET_BLOCKCNT"
  /\ sd_cmd
  /\ IF sd_err' = SD_OK THEN Continue(TransferCommand) ELSE Return("error")
  /\ UNCHANGED <<store, dat, initVars, call, c, buf, moved>>

\* The bits of the answer that report a bad address are not looked at.
StartTransfer ==
  /\ pc \in Transfers
  /\ sd_cmd
  /\ IF sd_err' = SD_OK THEN Continue("data") ELSE Return("error")
  /\ UNCHANGED <<store, dat, initVars, call, c, buf, moved>>

\* Wrong on purpose: a transfer without a count is not stopped.
AfterBlocks_NoStop == Continue("return")

AfterBlocks ==
  IF call.num > 1 /\ BlockMode /\ "SET_BLKCNT" \notin sd_scr
  THEN Continue("STOP_TRANS") ELSE Continue("return")

NextBlock ==
  /\ c' = c + 1
  /\ IF c + 1 < call.num
     THEN Continue(IF BlockMode THEN "data" ELSE TransferCommand)
     ELSE IF call.kind = "write" THEN Continue("dataDone") ELSE AfterBlocks

\* sd_int(INT_READ_RDY) and the 128 words
ReadData ==
  /\ pc = "data" /\ call.kind = "read"
  /\ \/ /\ OnLine("data") /\ NoFault
        /\ buf' = Append(buf, store[card.addr]) /\ card' = Advanced
        /\ NextBlock
        /\ UNCHANGED <<sd_err, dat>>
     \/ /\ IF OnLine("data") THEN Fault ELSE NoFault
        /\ card' = IF card.state = "data" THEN Advanced ELSE card
        /\ sd_err' \in {SD_TIMEOUT, SD_ERROR} /\ dat' \in BOOLEAN
        /\ Return("error")
        /\ UNCHANGED <<c, buf>>
  /\ UNCHANGED <<store, intErr, lateErr, initVars, call, moved>>

\* sd_int fails: the flags are written back, which clears them.
IntFails ==
  /\ lateErr' = FALSE /\ sd_err' \in {SD_TIMEOUT, SD_ERROR} /\ dat' \in BOOLEAN
  /\ Return("error")

\* The block reaches the card or fails on the line, which is flagged later.
Land ==
  \/ /\ OnLine("rcv") /\ NoFault
     /\ store' = [store EXCEPT ![card.addr] = call.data]
     /\ moved' = moved \cup {card.addr}
     /\ UNCHANGED lateErr
  \/ /\ IF OnLine("rcv") THEN Fault ELSE NoFault
     /\ lateErr' = TRUE
     /\ UNCHANGED <<store, moved>>

\* sd_int(INT_WRITE_RDY) and the 128 words.  An error of the block before may
\* be flagged by then, or not yet.
WriteData ==
  /\ pc = "data" /\ call.kind = "write"
  /\ \/ /\ Land
        /\ card' = IF card.state = "rcv" THEN Advanced ELSE card
        /\ NextBlock
        /\ UNCHANGED <<sd_err, dat>>
     \/ /\ IF lateErr THEN NoFault ELSE Fault
        /\ IntFails
        /\ UNCHANGED <<card, store, moved, c>>
  /\ UNCHANGED <<intErr, initVars, call, buf>>

\* Wrong on purpose: the write does not wait for its end.
DataDone_NoWait ==
  /\ pc = "dataDone"
  /\ NoFault /\ AfterBlocks /\ UNCHANGED <<lateErr, sd_err, dat>>
  /\ UNCHANGED <<card, store, intErr, initVars, call, c, buf, moved>>

\* sd_int(INT_DATA_DONE)
DataDone ==
  /\ pc = "dataDone"
  /\ \/ ~lateErr /\ NoFault /\ AfterBlocks /\ UNCHANGED <<lateErr, sd_err, dat>>
     \/ (IF lateErr THEN NoFault ELSE Fault) /\ IntFails
  /\ UNCHANGED <<card, store, intErr, initVars, call, c, buf, moved>>

StopTrans ==
  /\ pc = "STOP_TRANS"
  /\ sd_cmd
  /\ Continue("return")
  /\ UNCHANGED <<store, dat, initVars, call, c, buf, moved>>

\* return sd_err!=SD_OK || c!=num? 0 : num*512
ReturnBytes ==
  /\ pc = "return"
  /\ Return(IF sd_err # SD_OK \/ c # call.num THEN "error" ELSE "ok")
  /\ UNCHANGED <<hw, driver, locals, initOk, moved, faults>>

sd_readwrite == Status \/ SetBlockCnt \/ StartTransfer \/ ReadData \/ WriteData
                  \/ DataDone \/ StopTrans \/ ReturnBytes

RwSteps == {"status", "SET_BLOCKCNT", "data", "dataDone", "STOP_TRANS",
            "return"}
             \cup Transfers

\* mp_handle_pending raises in a wait of this step.  The command may have been
\* sent, the card goes on with what it was told, and nobody clears what the
\* controller flags afterwards.  The reset of the controller may be done or not,
\* and sd_clk turns the clock off and on between its waits.
Interrupted ==
  LET reset  == IF pc = "reset" THEN {FALSE} ELSE {}
      sd_clk == IF pc \in {"clock", "clock2"} THEN BOOLEAN ELSE {clocked}
  IN
  /\ Interruptible /\ pc \notin {"idle", "return"}
  /\ hostWide' \in {hostWide} \cup reset /\ clocked' \in sd_clk \cup reset
  /\ card' \in {card} \cup (IF pc \in Commands /\ Heard THEN {After} ELSE {})
                 \cup (IF card.state = "data" THEN {Advanced} ELSE {})
  /\ intErr' \in {intErr \/ lateErr, TRUE} \cup reset /\ dat' \in {dat, TRUE} \cup reset
  /\ lateErr' = FALSE
  /\ IF pc \in RwSteps THEN Return("raised") ELSE Return(ret)
  /\ UNCHANGED <<store, driver, locals, initOk, moved, faults>>

Next == CallInit \/ readblocks \/ writeblocks \/ sd_init \/ sd_readwrite
          \/ Interrupted

Spec == Init /\ [][Next]_vars

-----------------------------------------------------------------------------
(* Properties. *)

Requests ==
  {Read(l, n) : l \in Lbas, n \in ReadNums}
    \cup {Write(l, n, d, a) : l \in Lbas, n \in WriteNums, d \in Data, a \in BOOLEAN}
InitSteps ==
  {"reset", "clock", "clock2", "scrStatus", "scr", "words"}
    \cup (Commands \ RwSteps)

\* Every variable keeps its type.
TypeOK ==
  /\ card \in [kind : Cards, state : States, wide : BOOLEAN, rca : BOOLEAN,
               blkcnt : Nat, addr : Nat, left : Nat \cup {Open}]
  /\ store \in [Blocks -> Blocks \cup Data]
  /\ hostWide \in BOOLEAN /\ clocked \in BOOLEAN
  /\ intErr \in BOOLEAN /\ dat \in BOOLEAN /\ lateErr \in BOOLEAN
  /\ sd_scr \subseteq Flags /\ sd_rca \in BOOLEAN
  /\ sd_err \in {SD_OK, SD_TIMEOUT, SD_ERROR}
  /\ pc \in {"idle"} \cup InitSteps \cup RwSteps
  /\ call \in Requests \cup {NoCall}
  /\ cnt \in 0 .. 6 /\ ccs \in BOOLEAN
  /\ c \in Nat /\ buf \in Seq(Blocks \cup Data)
  /\ ret \in {"none", "ok", "error", "raised"}
  /\ initOk \in BOOLEAN /\ moved \subseteq Blocks /\ faults \in 0 .. MaxFaults

\* After an sd_init that returned SD_OK the driver and the card agree: on how
\* blocks are addressed, on the SCR, on the width of the bus; and the card is
\* selected (sd.c:371-439).
ReadyAfterInit ==
  initOk =>
    /\ sd_scr = (card.kind.scr \ {"CCS"})
                  \cup (IF card.kind.high THEN {"CCS"} ELSE {})
    /\ hostWide = card.wide /\ clocked /\ sd_rca /\ card.rca
    /\ card.state \in {"tran", "data", "rcv"}

\* No call returns while the error of a block it has written is still to be
\* flagged: the next call would be charged with it.  An error flag, with which
\* sd_status (line 172) refuses every command until the next sd_init, comes to
\* stay in two ways only: an exception out of a wait, and a write of several
\* blocks to a byte-addressed card, whose next WRITE_SINGLE (line 284) is refused
\* for the error of the block before; that call returns an error.
ErrorsAccounted ==
  [][/\ pc' = "idle" => ~lateErr'
     /\ ~intErr /\ intErr'
          => \/ Interrupted
             \/ /\ pc = "WRITE_SINGLE" /\ lateErr /\ c > 0
                /\ pc' = "idle" /\ ret' = "error"]_vars

\* No call leaves an error behind at all, which takes requests that write one
\* block each, or block-addressed cards, and no exceptions.
ErrorsSettled == pc = "idle" => ~intErr /\ ~lateErr

\* A call that succeeds ends its transfer: the card waits for a command and
\* the controller has nothing left to move (lines 255, 292).
TransferEnded == pc = "idle" /\ ret = "ok" /\ initOk => card.state = "tran" /\ ~dat

\* The driver implements a store of numbered blocks.
Device == INSTANCE BlockDevice WITH
  Blocks <- Blocks, Contents <- Blocks \cup Data, Calls <- Requests,
  NoCall <- NoCall, store <- store,
  call <- IF pc \in RwSteps THEN call ELSE NoCall,
  moved <- moved, buf <- buf, ok <- ret = "ok"
ImplementsDevice == Device!Spec

\* When sd_readblock does not return 0, the blocks asked for are in the buffer
\* (sd.c:225, "return the number of bytes read, returns 0 on error").
ReadsTheBlocks ==
  pc = "idle" /\ ret = "ok" /\ call.kind = "read"
    => buf = [k \in 1 .. call.num |-> store[call.lba + k - 1]]
=============================================================================
