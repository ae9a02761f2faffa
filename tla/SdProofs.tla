------------------------------- MODULE SdProofs -------------------------------
(***************************************************************************)
(* What is proved about the SD card driver and about the start-up code     *)
(* that mounts the card, for every card, every request and any number of   *)
(* faults and interruptions.                                               *)
(*                                                                         *)
(* The driver's invariant SdInv has four parts.  ReadyInv follows sd_init: *)
(* what the card, the controller and the driver have agreed on at each of  *)
(* its steps.  CountInv says how far a request is from where its driver    *)
(* stands in the code; PlaceInv, BlkCntInv and LeftInv say that the card   *)
(* is as far.  From these follow what is in the buffer (GotInv), what has  *)
(* been stored (WroteInv: all blocks so far where one command is enough,   *)
(* the last one always) and that a transfer is over with its request.      *)
(* The steps are proved for any caller: the start-up code, whose FatFs     *)
(* uses the driver whatever sd_init has returned, takes the same lemmas.   *)
(***************************************************************************)
EXTENDS SdMount, SequenceTheorems, TLAPS

-----------------------------------------------------------------------------
(***************************************************************************)
(* Types, and what a command comes to.                                     *)
(***************************************************************************)
AnyCard == [kind : Cards, state : States, wide : BOOLEAN, rca : BOOLEAN,
            blkcnt : Nat, addr : Nat, left : Nat \cup {Open}]
AnyCall == [kind : {"read", "write"}, lba : Nat, num : Nat \ {0},
            data : Data \cup {0}, aligned : BOOLEAN]
Results == {SD_OK, SD_TIMEOUT, SD_ERROR}

HardwareInv ==
  /\ card \in AnyCard
  /\ store \in [Blocks -> Blocks \cup Data]
  /\ hostWide \in BOOLEAN /\ clocked \in BOOLEAN
  /\ intErr \in BOOLEAN /\ dat \in BOOLEAN /\ lateErr \in BOOLEAN
  /\ moved \subseteq Blocks /\ faults \in 0 .. MaxFaults
DriverInv ==
  /\ sd_scr \subseteq Flags /\ sd_rca \in BOOLEAN /\ sd_err \in Results
  /\ pc \in {"idle"} \cup InitSteps \cup RwSteps
  /\ cnt \in 0 .. 6 /\ ccs \in BOOLEAN /\ initOk \in BOOLEAN
  /\ pc = "SEND_OP_COND" => cnt > 0
CallInv ==
  /\ call \in AnyCall \cup {NoCall}
  /\ pc \in RwSteps => call \in AnyCall
  /\ call.kind = "write" => call.data \in Data
  /\ c \in Nat /\ buf \in Seq(Blocks \cup Data)
  /\ ret \in {"none", "ok", "error", "raised"}
SdTypes == HardwareInv /\ DriverInv /\ CallInv

\* sd_init is called, as FatFs does it: StartInit and nothing else.
Restarts == StartInit /\ pc = "idle"
              /\ UNCHANGED <<hw, driver, call, cnt, c, buf, ret, moved, faults>>
\* A request for blocks, whoever makes it.
Asks == pc = "idle" /\ \E k \in AnyCall : StartCall(k) /\ (k.kind = "write" => k.data \in Data)

\* What the driver can be seen to do: the callers in this module and in
\* SdMount add nothing to these steps.
Steps == Restarts \/ Asks \/ sd_init \/ sd_readwrite \/ Interrupted

\* The same, with a caller who asks only while the last sd_init has succeeded.
CarefulSteps == \/ Restarts \/ sd_init \/ sd_readwrite \/ Interrupted
                \/ Asks /\ initOk

\* Names of pc: a command's step is one of sd_init's or of sd_readwrite's.
LEMMA PcNames ==
  /\ Commands = {"GO_IDLE", "SEND_IF_COND", "SEND_OP_COND", "ALL_SEND_CID",
                 "SEND_REL_ADDR", "CARD_SELECT", "SEND_SCR", "SET_BUS_WIDTH",
                 "SET_BLOCKCNT", "READ_SINGLE", "READ_MULTI", "WRITE_SINGLE",
                 "WRITE_MULTI", "STOP_TRANS"}
  /\ RwSteps = {"status", "SET_BLOCKCNT", "data", "dataDone", "STOP_TRANS", "return",
                "READ_SINGLE", "READ_MULTI", "WRITE_SINGLE", "WRITE_MULTI"}
  /\ InitSteps = {"reset", "clock", "clock2", "scrStatus", "scr", "words",
                  "GO_IDLE", "SEND_IF_COND", "SEND_OP_COND", "ALL_SEND_CID",
                  "SEND_REL_ADDR", "CARD_SELECT", "SEND_SCR", "SET_BUS_WIDTH"}
  /\ DOMAIN Following = {"GO_IDLE", "SEND_IF_COND", "ALL_SEND_CID", "CARD_SELECT",
                         "SEND_SCR"}
<1>1. Commands = {"GO_IDLE", "SEND_IF_COND", "SEND_OP_COND", "ALL_SEND_CID",
                 "SEND_REL_ADDR", "CARD_SELECT", "SEND_SCR", "SET_BUS_WIDTH",
                 "SET_BLOCKCNT", "READ_SINGLE", "READ_MULTI", "WRITE_SINGLE",
                 "WRITE_MULTI", "STOP_TRANS"}
  BY DEF Commands, Obeyed
<1>2. RwSteps = {"status", "SET_BLOCKCNT", "data", "dataDone", "STOP_TRANS", "return",
                "READ_SINGLE", "READ_MULTI", "WRITE_SINGLE", "WRITE_MULTI"}
  BY DEF RwSteps, Transfers
<1>3. InitSteps = {"reset", "clock", "clock2", "scrStatus", "scr", "words",
                  "GO_IDLE", "SEND_IF_COND", "SEND_OP_COND", "ALL_SEND_CID",
                  "SEND_REL_ADDR", "CARD_SELECT", "SEND_SCR", "SET_BUS_WIDTH"}
  BY <1>1, <1>2 DEF InitSteps
<1>. QED  BY <1>1, <1>2, <1>3 DEF Following

\* Where every command but the one the driver sends last leads.
LEMMA FollowingSteps ==
  /\ Following["GO_IDLE"] = "SEND_IF_COND" /\ Following["SEND_IF_COND"] = "SEND_OP_COND"
  /\ Following["ALL_SEND_CID"] = "SEND_REL_ADDR"
  /\ Following["CARD_SELECT"] = "scrStatus" /\ Following["SEND_SCR"] = "scr"
BY DEF Following

\* The states in which a command is obeyed, where a proof needs them.
LEMMA ObeyedStates ==
  /\ Obeyed["SEND_IF_COND"] = {"idle"} /\ Obeyed["SEND_OP_COND"] = {"idle"}
  /\ Obeyed["ALL_SEND_CID"] = {"ready"} /\ Obeyed["SEND_REL_ADDR"] = {"ident", "stby"}
  /\ Obeyed["CARD_SELECT"] = {"stby"} /\ Obeyed["SET_BUS_WIDTH"] = {"tran"}
  /\ Obeyed["SEND_SCR"] = {"tran"} /\ Obeyed["SET_BLOCKCNT"] = {"tran"}
  /\ Obeyed["STOP_TRANS"] = {"data", "rcv"}
  /\ \A p \in Transfers : Obeyed[p] = {"tran"}
BY DEF Obeyed, Transfers

\* The card a transfer begins with.
LEMMA TransferCard ==
  ASSUME card \in AnyCard, NEW state \in States, NEW left \in Nat \cup {Open}
  PROVE  /\ Transfer(state, left) \in AnyCard
         /\ Transfer(state, left).kind = card.kind
         /\ Transfer(state, left).wide = card.wide
         /\ Transfer(state, left).rca = card.rca
         /\ Transfer(state, left).blkcnt \in {0, card.blkcnt}
         /\ At(Arg) \in Blocks => /\ Transfer(state, left).state = state
                                  /\ Transfer(state, left).addr = At(Arg)
                                  /\ Transfer(state, left).left = left
         /\ At(Arg) \notin Blocks => Transfer(state, left) = card
<1>. DEFINE a == At(Arg)
<1>1. CASE At(Arg) \in Blocks
  <2>1. Transfer(state, left)
          = [card EXCEPT !.state = state, !.addr = a, !.left = left, !.blkcnt = 0]
    BY <1>1 DEF Transfer
  <2>2. a \in Nat
    BY <1>1, SizeAssumption DEF Blocks
  <2>. HIDE DEF a
  <2>. DEFINE k == [card EXCEPT !.state = state, !.addr = a, !.left = left, !.blkcnt = 0]
  <2>3. a \in Nat /\ state \in States /\ left \in Nat \cup {Open} /\ 0 \in Nat
    BY <2>2
  <2>4. k \in AnyCard
    BY <2>3 DEF AnyCard
  <2>5. /\ k.kind = card.kind /\ k.wide = card.wide /\ k.rca = card.rca
        /\ k.blkcnt = 0 /\ k.state = state /\ k.addr = a /\ k.left = left
    BY DEF AnyCard
  <2>6. Transfer(state, left) = k
    BY <2>1
  <2>. HIDE DEF k
  <2>7. a = At(Arg)
    BY DEF a
  <2>. QED  BY <1>1, <2>4, <2>5, <2>6, <2>7
<1>2. CASE At(Arg) \notin Blocks
  BY <1>2 DEF Transfer
<1>. QED  BY <1>1, <1>2

\* What a command that is obeyed makes of the card.
LEMMA AfterCard ==
  ASSUME card \in AnyCard, pc \in Commands, pc \in RwSteps => call \in AnyCall
  PROVE  /\ After \in AnyCard /\ After.kind = card.kind
         /\ pc = "GO_IDLE" => After = PowerUp(card.kind)
         /\ pc # "GO_IDLE" =>
              /\ After.wide = (card.wide \/ pc = "SET_BUS_WIDTH")
              /\ After.rca = (card.rca \/ pc = "SEND_REL_ADDR")
         /\ pc \in {"SEND_IF_COND", "SEND_SCR"} => After = card
         /\ pc \in {"SET_BUS_WIDTH", "SET_BLOCKCNT"} => After.state = card.state
         /\ pc = "SEND_OP_COND" => After.state = "ready"
         /\ pc = "ALL_SEND_CID" => After.state = "ident"
         /\ pc = "SEND_REL_ADDR" => After.state = "stby"
         /\ pc \in {"CARD_SELECT", "STOP_TRANS"} => After.state = "tran"
         /\ pc = "SET_BLOCKCNT" => After.blkcnt = call.num
         /\ pc \notin Transfers \cup {"SET_BLOCKCNT", "GO_IDLE"} =>
              After.blkcnt = card.blkcnt
         /\ pc \in Transfers => After.blkcnt \in {0, card.blkcnt}
         /\ pc \in Transfers =>
              IF At(Arg) \in Blocks
              THEN /\ After.state = IF pc \in {"READ_SINGLE", "READ_MULTI"}
                                    THEN "data" ELSE "rcv"
                   /\ After.addr = At(Arg)
                   /\ After.left = IF pc \in {"READ_SINGLE", "WRITE_SINGLE"} THEN 1
                                   ELSE IF card.blkcnt = 0 THEN Open ELSE card.blkcnt
              ELSE After = card
<1>. /\ States = {"idle", "ready", "ident", "stby", "tran", "data", "rcv"}
     /\ Open \in Int
  BY DEF States, Open
<1>0. pc \in RwSteps => call.num \in Nat
  BY DEF AnyCall
<1>1. CASE pc = "GO_IDLE"
  <2>1. After = PowerUp(card.kind) /\ pc \notin Transfers
    BY <1>1 DEF After, Transfers
  <2>2. PowerUp(card.kind) \in AnyCard /\ PowerUp(card.kind).kind = card.kind
    BY DEF PowerUp, AnyCard
  <2>. QED  BY <1>1, <2>1, <2>2
<1>2. CASE pc \in {"SEND_IF_COND", "SEND_SCR"}
  <2>1. After = card /\ pc \notin Transfers
    BY <1>2 DEF After, Transfers
  <2>. QED  BY <1>2, <2>1 DEF AnyCard
<1>3. CASE pc = "SEND_OP_COND"
  <2>1. After = [card EXCEPT !.state = "ready"] /\ pc \notin Transfers
    BY <1>3 DEF After, Transfers
  <2>. QED  BY <1>3, <2>1 DEF AnyCard
<1>4. CASE pc = "ALL_SEND_CID"
  <2>1. After = [card EXCEPT !.state = "ident"] /\ pc \notin Transfers
    BY <1>4 DEF After, Transfers
  <2>. QED  BY <1>4, <2>1 DEF AnyCard
<1>5. CASE pc = "SEND_REL_ADDR"
  <2>1. After = [card EXCEPT !.state = "stby", !.rca = TRUE] /\ pc \notin Transfers
    BY <1>5 DEF After, Transfers
  <2>. QED  BY <1>5, <2>1 DEF AnyCard
<1>6. CASE pc = "CARD_SELECT"
  <2>1. After = [card EXCEPT !.state = "tran"] /\ pc \notin Transfers
    BY <1>6 DEF After, Transfers
  <2>. QED  BY <1>6, <2>1 DEF AnyCard
<1>7. CASE pc = "SET_BUS_WIDTH"
  <2>1. After = [card EXCEPT !.wide = TRUE] /\ pc \notin Transfers
    BY <1>7 DEF After, Transfers
  <2>. QED  BY <1>7, <2>1 DEF AnyCard
<1>8. CASE pc = "SET_BLOCKCNT"
  <2>1. After = [card EXCEPT !.blkcnt = call.num] /\ pc \notin Transfers
    BY <1>8 DEF After, Transfers
  <2>2. call.num \in Nat
    BY <1>0, <1>8 DEF RwSteps
  <2>. QED  BY <1>8, <2>1, <2>2 DEF AnyCard
<1>9. CASE pc = "STOP_TRANS"
  <2>1. After = [card EXCEPT !.state = "tran", !.left = 0] /\ pc \notin Transfers
    BY <1>9 DEF After, Transfers
  <2>. QED  BY <1>9, <2>1 DEF AnyCard
<1>10. CASE pc \in Transfers
  <2>. DEFINE way == IF pc \in {"READ_SINGLE", "READ_MULTI"} THEN "data" ELSE "rcv"
              blocks == IF pc \in {"READ_SINGLE", "WRITE_SINGLE"} THEN 1
                        ELSE IF card.blkcnt = 0 THEN Open ELSE card.blkcnt
  <2>1. After = Transfer(way, blocks)
    BY <1>10 DEF After, Transfers, Multi
  <2>2. way \in States /\ blocks \in Nat \cup {Open}
    BY DEF AnyCard
  <2>3. pc \notin {"GO_IDLE", "SEND_IF_COND", "SEND_OP_COND", "ALL_SEND_CID",
                   "SEND_REL_ADDR", "CARD_SELECT", "SEND_SCR", "SET_BUS_WIDTH",
                   "SET_BLOCKCNT", "STOP_TRANS"}
    BY <1>10 DEF Transfers
  <2>4. card.wide \in BOOLEAN /\ card.rca \in BOOLEAN
    BY DEF AnyCard
  <2>. HIDE DEF way, blocks
  <2>5. /\ After \in AnyCard
        /\ After.kind = card.kind
        /\ After.wide = card.wide
        /\ After.rca = card.rca
        /\ After.blkcnt \in {0, card.blkcnt}
        /\ At(Arg) \in Blocks => After.state = way /\ After.addr = At(Arg)
                                   /\ After.left = blocks
        /\ At(Arg) \notin Blocks => After = card
    BY <2>1, <2>2, TransferCard
  <2>. QED  BY <1>10, <2>3, <2>4, <2>5 DEF way, blocks
<1>. QED
  BY <1>1, <1>2, <1>3, <1>4, <1>5, <1>6, <1>7, <1>8, <1>9, <1>10, PcNames
  DEF Transfers

\* How a command ends: whatever goes wrong, the card has obeyed it or has not,
\* and only a command that was obeyed and answered is reported as SD_OK.
LEMMA CommandEnds ==
  ASSUME SdTypes, sd_cmd
  PROVE  /\ card' \in {card, After} /\ card' \in AnyCard
         /\ sd_err' \in Results /\ intErr' \in BOOLEAN /\ lateErr' \in BOOLEAN
         /\ faults' \in 0 .. MaxFaults
         /\ sd_err' = SD_OK /\ pc # "GO_IDLE" => Heard /\ card' = After
         /\ sd_err' = SD_OK => ~intErr' /\ ~lateErr'
         /\ card' # card => Heard
         /\ lateErr' => lateErr /\ intErr
         /\ ~intErr /\ ~lateErr => ~intErr'
<1>. pc \in Commands
  BY DEF sd_cmd
<1>0. /\ After \in AnyCard /\ card \in AnyCard
      /\ faults \in Nat /\ faults <= MaxFaults /\ MaxFaults \in Nat
      /\ intErr \in BOOLEAN /\ lateErr \in BOOLEAN
  BY AfterCard, BoundsAssumption DEF SdTypes, HardwareInv, CallInv
<1>f. /\ Fault => faults' \in 0 .. MaxFaults
      /\ NoFault => faults' \in 0 .. MaxFaults
  BY <1>0 DEF Fault, NoFault
<1>. /\ SD_OK # SD_TIMEOUT /\ SD_OK # SD_ERROR
     /\ Results = {SD_OK, SD_TIMEOUT, SD_ERROR}
     /\ Unanswered = {"GO_IDLE"}
  BY DEF SD_OK, SD_TIMEOUT, SD_ERROR, Results, Unanswered
<1>1. CASE Refused
  <2>1. UNCHANGED card /\ sd_err' \in {SD_ERROR, SD_TIMEOUT} /\ (Fault \/ NoFault)
    BY <1>1 DEF Refused
  <2>2. intErr' = (intErr \/ lateErr)
    BY <1>1 DEF Refused
  <2>3. (lateErr' = lateErr /\ (intErr \/ ~lateErr)) \/ lateErr' = FALSE
    BY <1>1, Zenon DEF Refused
  <2>4. lateErr' => lateErr /\ intErr
    BY <1>0, <2>3
  <2>5. lateErr' \in BOOLEAN /\ intErr' \in BOOLEAN
    BY <1>0, <2>2, <2>3
  <2>. QED  BY <1>0, <1>f, <2>1, <2>2, <2>4, <2>5
<1>2. CASE Answered
  <2>1. ~intErr /\ NoFault /\ lateErr' = FALSE /\ intErr' = intErr
    BY <1>2 DEF Answered
  <2>2. card' = IF Heard THEN After ELSE card
    BY <1>2 DEF Answered
  <2>3. sd_err' = IF Heard \/ pc \in Unanswered THEN SD_OK
                  ELSE IF pc \in AppReplied THEN SD_ERROR ELSE SD_TIMEOUT
    BY <1>2 DEF Answered
  <2>. QED  BY <1>0, <1>f, <2>1, <2>2, <2>3
<1>3. CASE Unheard
  <2>1. ~intErr /\ (Fault \/ NoFault) /\ lateErr' = FALSE /\ intErr' = intErr
    BY <1>3 DEF Unheard
  <2>2. card' \in IF Heard THEN {card, After} ELSE {card}
    BY <1>3 DEF Unheard
  <2>3. sd_err' \in IF pc \in Unanswered THEN {SD_OK} ELSE {SD_TIMEOUT, SD_ERROR}
    BY <1>3 DEF Unheard
  <2>. QED  BY <1>0, <1>f, <2>1, <2>2, <2>3
<1>. QED  BY <1>1, <1>2, <1>3 DEF sd_cmd

\* The command that starts a transfer.
LEMMA TransferCommands ==
  /\ TransferCommand \in Transfers
  /\ TransferCommand \in {"READ_MULTI", "WRITE_MULTI"} <=> BlockMode /\ call.num > 1
  /\ TransferCommand \in {"READ_SINGLE", "READ_MULTI"} <=> call.kind = "read"
BY DEF TransferCommand, Transfers

\* What is left of a transfer after one more block.
LEMMA AdvancedCard ==
  ASSUME card \in AnyCard
  PROVE  /\ Advanced \in AnyCard /\ Advanced.kind = card.kind
         /\ Advanced.wide = card.wide /\ Advanced.rca = card.rca
         /\ Advanced.blkcnt = card.blkcnt
         /\ card.left = 1 => Advanced.state = "tran" /\ Advanced.addr = card.addr
         /\ card.left # 1 =>
              /\ Advanced.state = card.state
              /\ Advanced.addr = IF card.addr \in Blocks THEN card.addr + 1 ELSE card.addr
              /\ Advanced.left = IF card.left = Open THEN Open ELSE card.left - 1
<1>1. CASE card.left = 1
  <2>1. Advanced = [card EXCEPT !.state = "tran", !.left = 0]
    BY <1>1 DEF Advanced
  <2>2. "tran" \in States
    BY DEF States
  <2>. QED  BY <1>1, <2>1, <2>2 DEF AnyCard
<1>2. CASE card.left # 1
  <2>. DEFINE a == IF card.addr \in Blocks THEN card.addr + 1 ELSE card.addr
              l == IF card.left = Open THEN Open ELSE card.left - 1
  <2>1. Advanced = [card EXCEPT !.addr = a, !.left = l]
    BY <1>2 DEF Advanced, AnyCard
  <2>2. a \in Nat /\ l \in Nat \cup {Open}
    BY DEF AnyCard, Open
  <2>. HIDE DEF a, l
  <2>3. /\ [card EXCEPT !.addr = a, !.left = l] \in AnyCard
        /\ [card EXCEPT !.addr = a, !.left = l].kind = card.kind
        /\ [card EXCEPT !.addr = a, !.left = l].wide = card.wide
        /\ [card EXCEPT !.addr = a, !.left = l].rca = card.rca
        /\ [card EXCEPT !.addr = a, !.left = l].blkcnt = card.blkcnt
        /\ [card EXCEPT !.addr = a, !.left = l].state = card.state
        /\ [card EXCEPT !.addr = a, !.left = l].addr = a
        /\ [card EXCEPT !.addr = a, !.left = l].left = l
    BY <2>2 DEF AnyCard
  <2>. QED  BY <1>2, <2>1, <2>3 DEF a, l
<1>. QED  BY <1>1, <1>2

\* Every step counts its faults within the bound.
LEMMA FaultCount ==
  ASSUME SdTypes
  PROVE  /\ faults \in 0 .. MaxFaults
         /\ Fault => faults' \in 0 .. MaxFaults
         /\ NoFault => faults' \in 0 .. MaxFaults
BY BoundsAssumption DEF Fault, NoFault, SdTypes, HardwareInv

\* Every step keeps the types: of the card, the controller and the counts ...
LEMMA HardwareStep ==
  ASSUME SdTypes, Steps
  PROVE  HardwareInv'
<1>. HardwareInv
  BY DEF SdTypes
<1>f. /\ faults \in 0 .. MaxFaults
      /\ Fault => faults' \in 0 .. MaxFaults
      /\ NoFault => faults' \in 0 .. MaxFaults
  BY FaultCount
<1>c. /\ sd_cmd => /\ card' \in AnyCard /\ intErr' \in BOOLEAN /\ lateErr' \in BOOLEAN
                   /\ faults' \in 0 .. MaxFaults
      /\ card \in AnyCard => Advanced \in AnyCard
  BY CommandEnds, AdvancedCard
<1>a. pc \in Commands => After \in AnyCard
  BY AfterCard DEF SdTypes, HardwareInv, CallInv
<1>1. CASE Restarts \/ Asks
  BY <1>1 DEF Restarts, Asks, StartCall, StartInit, HardwareInv, hw
<1>2. CASE Reset \/ Clock \/ Clock2 \/ ScrStatus \/ Scr
  BY <1>2, <1>f DEF Reset, Clock, Clock2, ScrStatus, Scr, rwVars, driver, hw, HardwareInv
<1>3. CASE InitCommand \/ SendRelAddr
  BY <1>3, <1>c DEF InitCommand, SendRelAddr, HardwareInv, rwVars
<1>4. CASE SendOpCond
  <2>1. card' \in {card, After} /\ (Fault \/ NoFault)
    BY <1>4 DEF SendOpCond, OpCondAgain, OpCondComplete
  <2>2. pc \in Commands
    BY <1>4, PcNames DEF SendOpCond
  <2>. QED  BY <1>4, <1>f, <1>a, <2>1, <2>2 DEF SendOpCond, rwVars, HardwareInv
<1>5. CASE Words
  BY <1>5, <1>f DEF Words, hw, rwVars, HardwareInv
<1>6. CASE SetBusWidth
  BY <1>6, <1>c DEF SetBusWidth, rwVars, HardwareInv
<1>7. CASE Status
  BY <1>7, <1>f DEF Status, initVars, HardwareInv
<1>8. CASE SetBlockCnt \/ StartTransfer \/ StopTrans
  BY <1>8, <1>c DEF SetBlockCnt, StartTransfer, StopTrans, initVars, HardwareInv
<1>9. CASE ReadData
  BY <1>9, <1>f, <1>c DEF ReadData, initVars, HardwareInv
<1>10. CASE WriteData
  <2>1. call.data \in Data
    BY <1>10 DEF WriteData, SdTypes, CallInv
  <2>2. CASE Land
    <3>1. store' \in [Blocks -> Blocks \cup Data] /\ moved' \subseteq Blocks
      BY <2>1, <2>2 DEF Land, OnLine, HardwareInv
    <3>2. lateErr' \in BOOLEAN /\ (Fault \/ NoFault)
      BY <2>2 DEF Land, HardwareInv
    <3>3. /\ UNCHANGED intErr /\ UNCHANGED initVars
          /\ \/ /\ card' = IF card.state = "rcv" THEN Advanced ELSE card
                /\ UNCHANGED dat
             \/ dat' \in BOOLEAN /\ UNCHANGED card
      BY <1>10 DEF WriteData, IntFails
    <3>4. card' \in AnyCard /\ dat' \in BOOLEAN
      BY <1>c, <3>3 DEF IntFails, HardwareInv
    <3>. QED  BY <1>f, <3>1, <3>2, <3>3, <3>4 DEF initVars, HardwareInv
  <2>3. CASE ~Land
    <3>1. /\ Fault \/ NoFault
          /\ lateErr' = FALSE /\ dat' \in BOOLEAN /\ UNCHANGED <<card, store, moved>>
      BY <1>10, <2>3 DEF WriteData, IntFails
    <3>. QED  BY <1>10, <1>f, <3>1 DEF WriteData, initVars, HardwareInv
  <2>. QED  BY <2>2, <2>3
<1>11. CASE DataDone
  BY <1>11, <1>f DEF DataDone, IntFails, initVars, HardwareInv
<1>12. CASE ReturnBytes
  BY <1>12 DEF ReturnBytes, hw, HardwareInv
<1>13. CASE Interrupted
  <2>1. card' \in AnyCard
    BY <1>13, <1>a, <1>c DEF Interrupted, HardwareInv
  <2>. QED  BY <1>13, <2>1 DEF Interrupted, HardwareInv
<1>. QED
  BY <1>1, <1>2, <1>3, <1>4, <1>5, <1>6, <1>7, <1>8, <1>9, <1>10, <1>11, <1>12, <1>13
  DEF Steps, sd_init, sd_readwrite

\* ... of the driver's own state and place ...
LEMMA DriverStep ==
  ASSUME SdTypes, Steps
  PROVE  DriverInv'
<1>. DriverInv /\ card \in AnyCard
  BY DEF SdTypes, HardwareInv
<1>c. sd_cmd => sd_err' \in Results
  BY CommandEnds
<1>r. /\ SD_OK \in Results /\ SD_TIMEOUT \in Results /\ SD_ERROR \in Results
  BY DEF Results
<1>k. card.kind.scr \subseteq Flags /\ card.kind.high \in BOOLEAN
  BY CardsAssumption DEF AnyCard
<1>w. "CCS" \in Flags
  BY DEF Flags
<1>1. CASE Restarts \/ Asks
  <2>1. pc' \in {"reset", "status"} /\ initOk' \in {FALSE, initOk} /\ ccs' \in {FALSE, ccs}
    BY <1>1 DEF Restarts, Asks, StartCall, StartInit
  <2>2. UNCHANGED driver /\ UNCHANGED cnt
    BY <1>1 DEF Restarts, Asks, StartCall, StartInit
  <2>. QED  BY <2>1, <2>2, PcNames DEF DriverInv, driver
<1>2. CASE Reset \/ Clock2 \/ ScrStatus
  BY <1>2, PcNames DEF Reset, Clock2, ScrStatus, Then, ReturnInit, driver, DriverInv
<1>3. CASE Clock
  BY <1>3, <1>r, PcNames DEF Clock, Then, ReturnInit, driver, DriverInv
<1>4. CASE Scr
  BY <1>4, <1>k, PcNames DEF Scr, Then, ReturnInit, DriverInv
<1>5. CASE InitCommand
  <2>1. pc' \in {"idle", "SEND_IF_COND", "SEND_OP_COND", "SEND_REL_ADDR", "scrStatus", "scr"}
        /\ initOk' \in {FALSE, initOk}
    BY <1>5, PcNames, FollowingSteps DEF InitCommand, Then, ReturnInit
  <2>2. pc' = "SEND_OP_COND" => pc = "SEND_IF_COND"
    BY <1>5, PcNames, FollowingSteps DEF InitCommand, Then, ReturnInit
  <2>3. /\ cnt' = IF pc = "SEND_IF_COND" THEN 6 ELSE cnt
        /\ sd_err' \in Results /\ UNCHANGED <<sd_scr, sd_rca, ccs>>
    BY <1>5, <1>c DEF InitCommand
  <2>4. cnt' \in 0 .. 6 /\ (pc' = "SEND_OP_COND" => cnt' > 0)
    BY <2>2, <2>3 DEF DriverInv
  <2>. QED  BY <2>1, <2>3, <2>4, PcNames DEF DriverInv
<1>6. CASE SendOpCond
  <2>1. /\ pc = "SEND_OP_COND" /\ cnt' = cnt - 1 /\ cnt > 0
        /\ sd_err' \in Results /\ UNCHANGED <<sd_scr, sd_rca>>
    BY <1>6, <1>r DEF SendOpCond, OpCondAgain, OpCondComplete, DriverInv
  <2>2. /\ pc' \in {"idle", "ALL_SEND_CID", pc} /\ initOk' \in {FALSE, initOk}
        /\ ccs' \in BOOLEAN
        /\ pc' = pc => cnt # 1
    BY <1>6, <1>k DEF SendOpCond, OpCondAgain, OpCondComplete, Then, ReturnInit, DriverInv
  <2>3. cnt' \in 0 .. 6 /\ (pc' = "SEND_OP_COND" => cnt' > 0)
    BY <2>1, <2>2 DEF DriverInv
  <2>. QED  BY <2>1, <2>2, <2>3, PcNames DEF DriverInv
<1>7. CASE SendRelAddr
  <2>1. /\ pc' \in {"idle", "clock2"} /\ initOk' \in {FALSE, initOk} /\ sd_err' \in Results
        /\ sd_rca' \in BOOLEAN /\ UNCHANGED <<sd_scr, cnt, ccs>>
    BY <1>7, <1>c DEF SendRelAddr, Then, ReturnInit
  <2>. QED  BY <2>1, PcNames DEF DriverInv
<1>8. CASE Words
  BY <1>8, <1>w, PcNames DEF Words, Finish, Then, ReturnInit, rwVars, DriverInv
<1>9. CASE SetBusWidth
  BY <1>9, <1>c, <1>w, PcNames DEF SetBusWidth, Finish, ReturnInit, rwVars, DriverInv
<1>10. CASE Status
  BY <1>10, <1>r, PcNames, TransferCommands DEF Status, Return, Continue, initVars, DriverInv, Transfers
<1>11. CASE SetBlockCnt \/ StartTransfer \/ StopTrans
  <2>1. /\ pc' \in {"idle", "data", "return"} \cup Transfers
        /\ sd_err' \in Results /\ UNCHANGED initVars
    BY <1>11, <1>c, TransferCommands
    DEF SetBlockCnt, StartTransfer, StopTrans, Return, Continue
  <2>. QED  BY <2>1, PcNames DEF Transfers, initVars, DriverInv
<1>12. CASE ReadData \/ WriteData \/ DataDone
  <2>1. UNCHANGED initVars
    BY <1>12 DEF ReadData, WriteData, DataDone
  <2>2. sd_err' \in Results
    BY <1>12, <1>r DEF ReadData, WriteData, DataDone, IntFails, DriverInv
  <2>3. AfterBlocks => pc' \in {"STOP_TRANS", "return"}
    BY DEF AfterBlocks, Continue
  <2>4. NextBlock => pc' \in {"STOP_TRANS", "return", "data", "dataDone"} \cup Transfers
    BY <2>3, TransferCommands DEF NextBlock, Continue
  <2>5. pc' \in {"idle", "STOP_TRANS", "return", "data", "dataDone"} \cup Transfers
    BY <1>12, <2>3, <2>4 DEF ReadData, WriteData, DataDone, IntFails, Return
  <2>. QED  BY <2>1, <2>2, <2>5, PcNames DEF Transfers, initVars, DriverInv
<1>13. CASE ReturnBytes \/ Interrupted
  <2>1. pc' = "idle" /\ UNCHANGED <<driver, cnt, ccs, initOk>>
    BY <1>13 DEF ReturnBytes, Interrupted, Return, locals
  <2>. QED  BY <2>1 DEF driver, DriverInv
<1>. QED
  BY <1>1, <1>2, <1>3, <1>4, <1>5, <1>6, <1>7, <1>8, <1>9, <1>10, <1>11, <1>12, <1>13
  DEF Steps, sd_init, sd_readwrite

\* ... and of the call being served.
LEMMA CallStep ==
  ASSUME SdTypes, Steps
  PROVE  CallInv'
<1>. CallInv /\ HardwareInv
  BY DEF SdTypes
<1>1. CASE Restarts
  BY <1>1, PcNames DEF Restarts, StartInit, CallInv
<1>2. CASE Asks
  <2>1. PICK k \in AnyCall : StartCall(k) /\ (k.kind = "write" => k.data \in Data)
    BY <1>2 DEF Asks
  <2>. QED  BY <2>1, EmptySeq DEF StartCall, CallInv
<1>3. CASE sd_init
  <2>1. UNCHANGED rwVars
    BY <1>3 DEF sd_init, Reset, Clock, InitCommand, SendOpCond, SendRelAddr, Clock2,
                ScrStatus, Scr, Words, SetBusWidth
  <2>2. pc' \notin RwSteps
    BY <1>3, PcNames, FollowingSteps DEF sd_init, Reset, Clock, InitCommand, SendOpCond, OpCondAgain,
                OpCondComplete, SendRelAddr, Clock2, ScrStatus, Scr, Words, Finish,
                SetBusWidth, Then, ReturnInit
  <2>. QED  BY <2>1, <2>2 DEF rwVars, CallInv
<1>4. CASE ReadData
  <2>1. UNCHANGED call /\ (ret' = "error" \/ UNCHANGED ret) /\ pc \in RwSteps
    BY <1>4, PcNames DEF ReadData, NextBlock, AfterBlocks, Continue, Return
  <2>2. c' \in Nat
    BY <1>4 DEF ReadData, NextBlock, CallInv
  <2>3. \/ UNCHANGED buf
        \/ buf' = Append(buf, store[card.addr]) /\ card.addr \in Blocks
    BY <1>4 DEF ReadData, OnLine
  <2>4. buf' \in Seq(Blocks \cup Data)
    BY <2>3, AppendProperties DEF HardwareInv, CallInv
  <2>. QED  BY <2>1, <2>2, <2>4 DEF CallInv
<1>5. CASE WriteData
  <2>1. UNCHANGED <<call, buf>> /\ (ret' = "error" \/ UNCHANGED ret) /\ pc \in RwSteps
    BY <1>5, PcNames DEF WriteData, NextBlock, AfterBlocks, IntFails, Continue, Return
  <2>2. c' \in Nat
    BY <1>5 DEF WriteData, NextBlock, CallInv
  <2>. QED  BY <2>1, <2>2 DEF CallInv
<1>6. CASE Status \/ SetBlockCnt \/ StartTransfer \/ DataDone \/ StopTrans \/ ReturnBytes
  <2>1. /\ UNCHANGED call /\ UNCHANGED c /\ UNCHANGED buf
        /\ ret' \in {ret, "ok", "error"} /\ pc \in RwSteps
    BY <1>6, PcNames DEF Status, SetBlockCnt, StartTransfer, DataDone, StopTrans, ReturnBytes,
             AfterBlocks, IntFails, Continue, Return, locals, Transfers
  <2>. QED  BY <2>1 DEF CallInv
<1>7. CASE Interrupted
  <2>1. UNCHANGED call /\ UNCHANGED c /\ UNCHANGED buf /\ pc' = "idle"
        /\ ret' \in {ret, "raised"}
    BY <1>7 DEF Interrupted, locals, Return
  <2>. QED  BY <2>1, PcNames DEF CallInv
<1>. QED
  BY <1>1, <1>2, <1>3, <1>4, <1>5, <1>6, <1>7 DEF Steps, sd_readwrite

\* The types are an invariant of the driver, whoever calls it.
LEMMA TypesStep == SdTypes /\ Steps => SdTypes'
BY HardwareStep, DriverStep, CallStep DEF SdTypes

\* A card after power-up and a driver before its first call have their types.
LEMMA TypesBegin == Init => SdTypes
<1>. SUFFICES ASSUME Init PROVE SdTypes
  OBVIOUS
<1>1. PICK k \in Cards : card = PowerUp(k)
  BY DEF Init
<1>2. card \in AnyCard
  BY <1>1 DEF PowerUp, AnyCard, States
<1>i. /\ store = [b \in Blocks |-> b] /\ hostWide = FALSE /\ clocked = FALSE
      /\ intErr = FALSE /\ dat = FALSE /\ lateErr = FALSE
      /\ moved = {} /\ faults = 0
      /\ sd_scr = {} /\ sd_rca = FALSE /\ sd_err = SD_OK /\ pc = "idle"
      /\ cnt = 0 /\ ccs = FALSE /\ initOk = FALSE
  BY DEF Init
<1>s. store \in [Blocks -> Blocks \cup Data]
  BY <1>i
<1>b. /\ hostWide \in BOOLEAN /\ clocked \in BOOLEAN
      /\ intErr \in BOOLEAN /\ dat \in BOOLEAN /\ lateErr \in BOOLEAN
      /\ sd_rca \in BOOLEAN /\ ccs \in BOOLEAN /\ initOk \in BOOLEAN
  BY <1>i, Zenon
<1>n. moved \subseteq Blocks /\ faults \in 0 .. MaxFaults /\ cnt \in 0 .. 6
  BY <1>i, BoundsAssumption
<1>3. HardwareInv
  BY <1>2, <1>s, <1>b, <1>n DEF HardwareInv
<1>p. sd_scr \subseteq Flags /\ sd_err \in Results /\ pc = "idle"
  BY <1>i DEF Results
<1>4. DriverInv
  BY <1>b, <1>n, <1>p DEF DriverInv
<1>5. CallInv
  BY PcNames, EmptySeq DEF Init, CallInv, NoCall
<1>. QED  BY <1>3, <1>4, <1>5 DEF SdTypes

-----------------------------------------------------------------------------
(***************************************************************************)
(* What sd_init has reached at each of its steps.                          *)
(***************************************************************************)
Selected  == {"scrStatus", "SEND_SCR", "scr", "words", "SET_BUS_WIDTH"}
Addressed == {"clock2", "CARD_SELECT"} \cup Selected

\* While sd_init runs it has not succeeded; a request runs while it has.
PhaseInv ==
  /\ pc \in InitSteps => ~initOk
  /\ pc \in RwSteps => initOk

\* The controller: narrow and idle since the reset, clocked since line 369.
ControllerInv ==
  /\ pc \in InitSteps \ {"reset"} => ~hostWide /\ ~dat
  /\ pc \in InitSteps \ {"reset", "clock"} => clocked

\* The card has gone from state to state with sd_init: GO_IDLE, which no card
\* answers, may have been missed, but then SEND_IF_COND is not obeyed.
IdentInv ==
  /\ card.state \in {"idle", "ready", "ident"} => ~card.wide
  /\ pc = "ALL_SEND_CID" => card.state = "ready"
  /\ pc = "SEND_REL_ADDR" => card.state \in {"ready", "ident"}
  /\ pc \in {"clock2", "CARD_SELECT"} => card.state = "stby"
  /\ pc \in Selected => card.state = "tran"
  /\ pc \in Addressed => sd_rca /\ card.rca /\ ~card.wide

\* What the driver has learnt of the card
LearntInv ==
  /\ pc \in {"ALL_SEND_CID", "SEND_REL_ADDR"} \cup Addressed => ccs = card.kind.high
  /\ pc \in {"words", "SET_BUS_WIDTH"} => sd_scr = card.kind.scr

ReadyInv == PhaseInv /\ ControllerInv /\ IdentInv /\ LearntInv /\ ReadyAfterInit

\* The places of sd_init in which the card has been selected, and those in which
\* it has an address; a transfer's places are none of sd_init's.
LEMMA PhaseNames ==
  /\ Selected = {"scrStatus", "SEND_SCR", "scr", "words", "SET_BUS_WIDTH"}
  /\ Addressed = {"clock2", "CARD_SELECT", "scrStatus", "SEND_SCR", "scr", "words",
                  "SET_BUS_WIDTH"}
  /\ \A p \in RwSteps : p \notin InitSteps /\ p # "idle"
  /\ "idle" \notin InitSteps
BY PcNames DEF Selected, Addressed

\* Outside sd_init nothing but a request's steps happens, and those leave the
\* driver and the card as they agreed.
LEMMA ReadyKept ==
  ASSUME SdTypes, ReadyInv,
         pc' \notin InitSteps, UNCHANGED <<initOk, hostWide, clocked, sd_scr, sd_rca>>,
         pc' \in RwSteps => initOk,
         card'.kind = card.kind, card'.wide = card.wide, card'.rca = card.rca,
         initOk => card'.state \in {"tran", "data", "rcv"},
         card'.state \in {"idle", "ready", "ident"} => ~card'.wide
  PROVE  ReadyInv'
<1>1. PhaseInv' /\ ControllerInv' /\ IdentInv' /\ LearntInv'
  BY PcNames, PhaseNames DEF PhaseInv, ControllerInv, IdentInv, LearntInv
<1>2. ReadyAfterInit'
  BY DEF ReadyInv, ReadyAfterInit
<1>. QED  BY <1>1, <1>2 DEF ReadyInv

\* sd_init's steps reach what they should, and it returns SD_OK only when the
\* driver and the card agree.
LEMMA InitReady ==
  ASSUME SdTypes, ReadyInv, sd_init
  PROVE  ReadyInv'
<1>. /\ card \in AnyCard /\ HardwareInv /\ DriverInv
     /\ PhaseInv /\ ControllerInv /\ IdentInv /\ LearntInv
  BY DEF SdTypes, HardwareInv, ReadyInv
<1>t. /\ card.kind.scr \subseteq Flags /\ card.kind.high \in BOOLEAN
      /\ card.wide \in BOOLEAN /\ card.rca \in BOOLEAN
  BY CardsAssumption DEF AnyCard
<1>i. pc \in InitSteps /\ ~initOk
  BY PcNames DEF sd_init, Reset, Clock, InitCommand, SendOpCond, SendRelAddr, Clock2,
        ScrStatus, Scr, Words, SetBusWidth, PhaseInv
<1>a. pc \in Commands =>
        /\ After \in AnyCard /\ After.kind = card.kind
        /\ pc = "GO_IDLE" => After.wide = FALSE
        /\ pc # "GO_IDLE" => /\ After.wide = (card.wide \/ pc = "SET_BUS_WIDTH")
                             /\ After.rca = (card.rca \/ pc = "SEND_REL_ADDR")
        /\ pc \in {"SEND_IF_COND", "SEND_SCR"} => After = card
        /\ pc = "SET_BUS_WIDTH" => After.state = card.state
        /\ pc = "SEND_OP_COND" => After.state = "ready"
        /\ pc = "ALL_SEND_CID" => After.state = "ident"
        /\ pc = "SEND_REL_ADDR" => After.state = "stby"
        /\ pc = "CARD_SELECT" => After.state = "tran"
  BY AfterCard DEF SdTypes, CallInv, PowerUp
<1>h. Heard => card.state \in Obeyed[pc]
  BY DEF Heard
<1>s. sd_cmd =>
        /\ card' \in {card, After}
        /\ card' # card => Heard
        /\ sd_err' = SD_OK /\ pc # "GO_IDLE" => Heard /\ card' = After
  BY CommandEnds
\* A step that gives up, or that is not the last, ends with initOk still FALSE.
<1>0. ASSUME ~initOk', card' = card, pc' = "idle"
      PROVE  ReadyInv'
  BY <1>0, PhaseNames, PcNames
  DEF ReadyInv, PhaseInv, ControllerInv, IdentInv, LearntInv, ReadyAfterInit
<1>1. CASE Reset
  <2>1. /\ card' = card /\ ~hostWide' /\ ~dat' /\ ~initOk' /\ pc' \in {"idle", "clock"}
    BY <1>1, <1>i DEF Reset, Then, ReturnInit
  <2>. QED
    BY <2>1, PhaseNames, PcNames
    DEF ReadyInv, PhaseInv, ControllerInv, IdentInv, LearntInv, ReadyAfterInit
<1>2. CASE Clock
  <2>1. CASE pc' = "idle"
    BY <1>0, <1>2, <2>1 DEF Clock, Then, ReturnInit
  <2>2. CASE pc' # "idle"
    <3>1. pc = "clock" /\ pc' = "GO_IDLE" /\ clocked' /\ ~initOk' /\ UNCHANGED <<card, hostWide, dat>>
      BY <1>2, <1>i, <2>2 DEF Clock, Then, ReturnInit
    <3>. QED
      BY <3>1, PhaseNames, PcNames
      DEF ReadyInv, PhaseInv, ControllerInv, IdentInv, LearntInv, ReadyAfterInit
  <2>. QED  BY <2>1, <2>2
<1>3. CASE InitCommand
  <2>1. /\ sd_cmd /\ ~initOk' /\ UNCHANGED <<hostWide, clocked, dat, sd_scr, sd_rca, ccs>>
        /\ pc \in {"GO_IDLE", "SEND_IF_COND", "ALL_SEND_CID", "CARD_SELECT", "SEND_SCR"}
        /\ \/ pc' = "idle"
           \/ pc' = Following[pc] /\ (sd_err' = SD_OK \/ pc = "ALL_SEND_CID")
    BY <1>3, <1>i, PcNames DEF InitCommand, Then, ReturnInit
  <2>c. pc \in Commands
    BY <2>1, PcNames
  <2>2. card'.state \in {"idle", "ready", "ident"} => ~card'.wide
    BY <1>a, <1>s, <1>h, <2>1, <2>c, ObeyedStates DEF IdentInv
  <2>3. CASE pc' = "idle"
    BY <2>1, <2>2, <2>3, PhaseNames, PcNames
    DEF ReadyInv, PhaseInv, ControllerInv, IdentInv, LearntInv, ReadyAfterInit
  <2>4. CASE pc' = Following[pc] /\ pc \in {"GO_IDLE", "SEND_IF_COND"}
    <3>1. pc' \in {"SEND_IF_COND", "SEND_OP_COND"} /\ clocked
      BY <2>4, FollowingSteps, PcNames DEF ControllerInv
    <3>2. ~hostWide /\ ~dat
      BY <2>4, PcNames DEF ControllerInv
    <3>. QED
      BY <2>1, <2>2, <3>1, <3>2, PhaseNames, PcNames
      DEF ReadyInv, PhaseInv, ControllerInv, IdentInv, LearntInv, ReadyAfterInit
  <2>5. CASE pc' = Following[pc] /\ pc = "ALL_SEND_CID"
    <3>1. pc' = "SEND_REL_ADDR" /\ clocked /\ ~hostWide /\ ~dat /\ ccs = card.kind.high
      BY <2>5, FollowingSteps, PcNames DEF ControllerInv, LearntInv
    <3>2. card'.state \in {"ready", "ident"} /\ card'.kind = card.kind
      BY <1>a, <1>s, <2>1, <2>5, <2>c DEF IdentInv
    <3>. QED
      BY <2>1, <2>2, <3>1, <3>2, PhaseNames, PcNames
      DEF ReadyInv, PhaseInv, ControllerInv, IdentInv, LearntInv, ReadyAfterInit
  <2>6. CASE pc' = Following[pc] /\ pc \in {"CARD_SELECT", "SEND_SCR"}
    <3>1. /\ pc' \in {"scrStatus", "scr"} /\ clocked /\ ~hostWide /\ ~dat
          /\ ccs = card.kind.high /\ sd_rca /\ card.rca /\ ~card.wide
      BY <2>6, FollowingSteps, PcNames, PhaseNames DEF ControllerInv, LearntInv, IdentInv
    <3>2. card' = After /\ Heard
      BY <1>s, <2>1, <2>6, <3>1
    <3>3. /\ card'.state = "tran" /\ card'.kind = card.kind /\ card'.rca /\ ~card'.wide
      BY <1>a, <1>h, <2>6, <2>c, <3>1, <3>2, ObeyedStates
    <3>. QED
      BY <2>1, <2>2, <3>1, <3>3, PhaseNames, PcNames
      DEF ReadyInv, PhaseInv, ControllerInv, IdentInv, LearntInv, ReadyAfterInit
  <2>. QED  BY <2>1, <2>3, <2>4, <2>5, <2>6
<1>4. CASE SendOpCond
  <2>1. /\ pc = "SEND_OP_COND" /\ UNCHANGED <<hostWide, clocked, dat, sd_scr, sd_rca>>
        /\ ~initOk'
    BY <1>4, <1>i DEF SendOpCond, OpCondAgain, OpCondComplete, Then, ReturnInit, hw
  <2>c. pc \in Commands /\ clocked /\ ~hostWide /\ ~dat
    BY <2>1, PcNames DEF ControllerInv
  <2>2. card' \in {card, After} /\ (card' # card => Heard)
    BY <1>4 DEF SendOpCond, OpCondAgain, OpCondComplete
  <2>3. card'.state \in {"idle", "ready", "ident"} => ~card'.wide
    BY <1>a, <1>h, <2>1, <2>2, <2>c, ObeyedStates DEF IdentInv
  <2>4. \/ pc' \in {"idle", "SEND_OP_COND"}
        \/ pc' = "ALL_SEND_CID" /\ card' = After /\ ccs' = card.kind.high
    BY <1>4, <2>1 DEF SendOpCond, OpCondAgain, OpCondComplete, Then, ReturnInit
  <2>5. CASE pc' \in {"idle", "SEND_OP_COND"}
    BY <2>1, <2>c, <2>3, <2>5, PhaseNames, PcNames
    DEF ReadyInv, PhaseInv, ControllerInv, IdentInv, LearntInv, ReadyAfterInit
  <2>6. CASE pc' = "ALL_SEND_CID" /\ card' = After /\ ccs' = card.kind.high
    <3>1. card'.state = "ready" /\ card'.kind = card.kind
      BY <1>a, <2>1, <2>c, <2>6
    <3>. QED
      BY <2>1, <2>c, <2>3, <2>6, <3>1, PhaseNames, PcNames
      DEF ReadyInv, PhaseInv, ControllerInv, IdentInv, LearntInv, ReadyAfterInit
  <2>. QED  BY <2>4, <2>5, <2>6
<1>5. CASE SendRelAddr
  <2>1. /\ pc = "SEND_REL_ADDR" /\ sd_cmd /\ ~initOk'
        /\ UNCHANGED <<hostWide, clocked, dat, sd_scr, ccs>>
        /\ sd_rca' = (sd_err' = SD_OK)
        /\ pc' = IF sd_err' = SD_OK THEN "clock2" ELSE "idle"
    BY <1>5, <1>i DEF SendRelAddr, Then, ReturnInit
  <2>c. /\ pc \in Commands /\ clocked /\ ~hostWide /\ ~dat /\ ccs = card.kind.high
        /\ ~card.wide
    BY <2>1, PcNames DEF ControllerInv, LearntInv, IdentInv
  <2>2. card'.state \in {"idle", "ready", "ident"} => ~card'.wide
    BY <1>a, <1>s, <2>1, <2>c
  <2>3. CASE pc' = "idle"
    BY <2>1, <2>2, <2>3, PhaseNames, PcNames
    DEF ReadyInv, PhaseInv, ControllerInv, IdentInv, LearntInv, ReadyAfterInit
  <2>4. CASE pc' = "clock2"
    <3>1. card' = After /\ sd_rca'
      BY <1>s, <2>1, <2>4
    <3>2. card'.state = "stby" /\ card'.kind = card.kind /\ card'.rca /\ ~card'.wide
      BY <1>a, <2>1, <2>c, <3>1
    <3>. QED
      BY <2>1, <2>c, <2>2, <2>4, <3>1, <3>2, PhaseNames, PcNames
      DEF ReadyInv, PhaseInv, ControllerInv, IdentInv, LearntInv, ReadyAfterInit
  <2>. QED  BY <2>1, <2>3, <2>4
<1>6. CASE Clock2 \/ ScrStatus \/ Scr
  <2>1. CASE pc' = "idle"
    BY <1>0, <1>6, <2>1 DEF Clock2, ScrStatus, Scr, Then, ReturnInit, hw
  <2>2. CASE pc' # "idle"
    <3>1. /\ ~initOk' /\ UNCHANGED <<card, hostWide, clocked, dat, sd_rca, ccs>>
          /\ \/ pc = "clock2" /\ pc' = "CARD_SELECT"
             \/ pc = "scrStatus" /\ pc' = "SEND_SCR"
             \/ pc = "scr" /\ pc' = "words" /\ sd_scr' = card.kind.scr
      BY <1>6, <1>i, <2>2 DEF Clock2, ScrStatus, Scr, Then, ReturnInit, hw, driver
    <3>2. /\ clocked /\ ~hostWide /\ ~dat /\ ccs = card.kind.high
          /\ sd_rca /\ card.rca /\ ~card.wide
          /\ card.state = IF pc = "clock2" THEN "stby" ELSE "tran"
      BY <3>1, PhaseNames, PcNames DEF ControllerInv, LearntInv, IdentInv
    <3>. QED
      BY <3>1, <3>2, PhaseNames, PcNames
      DEF ReadyInv, PhaseInv, ControllerInv, IdentInv, LearntInv, ReadyAfterInit
  <2>. QED  BY <2>1, <2>2
<1>7. CASE Words \/ SetBusWidth
  <2>1. pc \in {"words", "SET_BUS_WIDTH"}
    BY <1>7 DEF Words, SetBusWidth
  <2>2. /\ clocked /\ ~hostWide /\ ~dat /\ ccs = card.kind.high
        /\ sd_rca /\ card.rca /\ ~card.wide /\ card.state = "tran"
        /\ sd_scr = card.kind.scr
    BY <2>1, PhaseNames, PcNames DEF ControllerInv, LearntInv, IdentInv
  <2>3. /\ UNCHANGED <<clocked, dat, sd_rca, ccs>>
    BY <1>7 DEF Words, SetBusWidth, hw, rwVars
  <2>4. CASE Finish
    <3>1. /\ pc' = "idle" /\ initOk'
          /\ sd_scr' = (sd_scr \ {"CCS"}) \cup (IF ccs THEN {"CCS"} ELSE {})
      BY <2>4 DEF Finish, ReturnInit
    <3>2. /\ card'.kind = card.kind /\ card'.rca /\ card'.state = "tran"
          /\ hostWide' = card'.wide
      <4>1. CASE Words
        BY <2>2, <4>1, <1>t DEF Words, hw, HardwareInv
      <4>2. CASE SetBusWidth
        <5>1. CASE sd_err' = SD_OK
          <6>1. pc = "SET_BUS_WIDTH" /\ hostWide' = TRUE /\ card' = After /\ pc \in Commands
            BY <1>s, <4>2, <5>1, PcNames DEF SetBusWidth
          <6>2. card'.wide = TRUE
            BY <1>a, <6>1, <1>t
          <6>. QED  BY <1>a, <2>2, <6>1, <6>2
        <5>2. CASE sd_err' # SD_OK
          BY <3>1, <4>2, <5>2 DEF SetBusWidth, ReturnInit
        <5>. QED  BY <5>1, <5>2
      <4>. QED  BY <1>7, <4>1, <4>2
    <3>3. ReadyAfterInit'
      BY <2>2, <2>3, <3>1, <3>2 DEF ReadyAfterInit
    <3>. QED
      BY <3>1, <3>2, <3>3, PhaseNames, PcNames
      DEF ReadyInv, PhaseInv, ControllerInv, IdentInv, LearntInv
  <2>5. CASE ~Finish
    <3>1. CASE Words
      <4>1. pc' = "SET_BUS_WIDTH" /\ ~initOk' /\ UNCHANGED <<card, hostWide, sd_scr>>
        BY <1>i, <2>5, <3>1 DEF Words, Then, hw
      <4>. QED
        BY <2>2, <2>3, <4>1, PhaseNames, PcNames
        DEF ReadyInv, PhaseInv, ControllerInv, IdentInv, LearntInv, ReadyAfterInit
    <3>2. CASE SetBusWidth
      <4>1. pc' = "idle" /\ ~initOk' /\ sd_cmd /\ pc = "SET_BUS_WIDTH" /\ pc \in Commands
        BY <2>5, <3>2, PcNames DEF SetBusWidth, ReturnInit
      <4>2. card'.state = "tran"
        BY <1>a, <1>s, <2>2, <4>1
      <4>. QED
        BY <4>1, <4>2, PhaseNames, PcNames
        DEF ReadyInv, PhaseInv, ControllerInv, IdentInv, LearntInv, ReadyAfterInit
    <3>. QED  BY <1>7, <3>1, <3>2
  <2>. QED  BY <2>4, <2>5
<1>. QED
  BY <1>1, <1>2, <1>3, <1>4, <1>5, <1>6, <1>7 DEF sd_init

\* A request and an exception leave alone what sd_init has found.
LEMMA ReadyStep ==
  ASSUME SdTypes, ReadyInv, CarefulSteps
  PROVE  ReadyInv'
<1>. /\ card \in AnyCard /\ HardwareInv /\ DriverInv
     /\ PhaseInv /\ ControllerInv /\ IdentInv /\ LearntInv
  BY DEF SdTypes, HardwareInv, ReadyInv
<1>r. /\ initOk => card.state \in {"tran", "data", "rcv"}
      /\ card.state \in {"idle", "ready", "ident"} => ~card.wide
      /\ card.wide \in BOOLEAN /\ card.rca \in BOOLEAN
  BY DEF ReadyInv, ReadyAfterInit, IdentInv, AnyCard
<1>v. Advanced.kind = card.kind /\ Advanced.wide = card.wide /\ Advanced.rca = card.rca
      /\ Advanced.state \in {card.state, "tran"}
  BY AdvancedCard
<1>a. pc \in Commands =>
        /\ After.kind = card.kind
        /\ pc = "GO_IDLE" => After.wide = FALSE
        /\ pc # "GO_IDLE" => /\ After.wide = (card.wide \/ pc = "SET_BUS_WIDTH")
                             /\ After.rca = (card.rca \/ pc = "SEND_REL_ADDR")
        /\ pc \in {"SEND_IF_COND", "SEND_SCR"} => After = card
        /\ pc \in {"SET_BUS_WIDTH", "SET_BLOCKCNT"} => After.state = card.state
        /\ pc = "SEND_OP_COND" => After.state = "ready"
        /\ pc = "ALL_SEND_CID" => After.state = "ident"
        /\ pc = "SEND_REL_ADDR" => After.state = "stby"
        /\ pc \in {"CARD_SELECT", "STOP_TRANS"} => After.state = "tran"
        /\ pc \in Transfers => After.state \in {card.state, "data", "rcv"}
  BY AfterCard DEF SdTypes, CallInv, PowerUp
<1>h. Heard => card.state \in Obeyed[pc]
  BY DEF Heard
\* What a command of a request can make of the card
<1>q. pc \in Commands /\ pc \in RwSteps =>
        /\ After.kind = card.kind /\ After.wide = card.wide /\ After.rca = card.rca
        /\ After.state \in {card.state, "data", "rcv", "tran"}
  <2>1. CASE pc \in Transfers
    BY <1>a, <1>r, <2>1, PcNames DEF Transfers
  <2>2. CASE pc \in {"SET_BLOCKCNT", "STOP_TRANS"}
    BY <1>a, <1>r, <2>2, PcNames
  <2>. QED  BY <2>1, <2>2, PcNames DEF Transfers
<1>1. CASE Restarts
  <2>1. pc' = "reset" /\ ~initOk' /\ UNCHANGED card
    BY <1>1 DEF Restarts, StartInit, hw
  <2>. QED
    BY <1>r, <2>1, PhaseNames, PcNames
    DEF ReadyInv, PhaseInv, ControllerInv, IdentInv, LearntInv, ReadyAfterInit
<1>2. CASE Asks /\ initOk
  <2>1. /\ pc' = "status" /\ UNCHANGED <<initOk, hostWide, clocked, sd_scr, sd_rca, card>>
        /\ initOk
    BY <1>2 DEF Asks, StartCall, hw, driver
  <2>. QED  BY <1>r, <2>1, ReadyKept, PhaseNames, PcNames
<1>3. CASE sd_init
  BY <1>3, InitReady
<1>4. CASE sd_readwrite
  <2>1. UNCHANGED <<initOk, hostWide, clocked, sd_scr, sd_rca>>
    BY <1>4 DEF sd_readwrite, Status, SetBlockCnt, StartTransfer, ReadData, WriteData,
                DataDone, StopTrans, ReturnBytes, initVars, hw, driver
  <2>2. pc \in RwSteps
    BY <1>4, PcNames DEF sd_readwrite, Status, SetBlockCnt, StartTransfer, ReadData,
                WriteData, DataDone, StopTrans, ReturnBytes, Transfers
  <2>3. initOk /\ pc' \notin InitSteps
    <3>1. AfterBlocks => pc' \in {"STOP_TRANS", "return"}
      BY DEF AfterBlocks, Continue
    <3>2. NextBlock => pc' \in {"STOP_TRANS", "return", "data", "dataDone"} \cup Transfers
      BY <3>1, TransferCommands DEF NextBlock, Continue
    <3>3. pc' \in {"idle"} \cup RwSteps
      BY <1>4, <3>1, <3>2, TransferCommands, PcNames
      DEF sd_readwrite, Status, SetBlockCnt, StartTransfer, ReadData, WriteData, DataDone,
          StopTrans, ReturnBytes, IntFails, Continue, Return, Transfers
    <3>. QED  BY <2>2, <3>3, PhaseNames DEF PhaseInv
  <2>4. \/ card' \in {card, Advanced}
        \/ pc \in Commands /\ card' = After
    <3>1. sd_cmd => card' \in {card, After} /\ pc \in Commands
      BY CommandEnds DEF sd_cmd
    <3>. QED
      BY <1>4, <3>1 DEF sd_readwrite, Status, SetBlockCnt, StartTransfer, ReadData,
          WriteData, DataDone, StopTrans, ReturnBytes, hw
  <2>5. /\ card'.kind = card.kind /\ card'.wide = card.wide /\ card'.rca = card.rca
        /\ card'.state \in {card.state, "data", "rcv", "tran"}
    BY <1>v, <1>q, <2>2, <2>4
  <2>. QED  BY <1>r, <2>1, <2>3, <2>5, ReadyKept
<1>5. CASE Interrupted
  <2>1. /\ pc' = "idle" /\ UNCHANGED <<initOk, sd_scr, sd_rca>> /\ pc # "idle"
        /\ pc \in RwSteps => UNCHANGED <<hostWide, clocked>>
    BY <1>5, PcNames DEF Interrupted, Return, driver
  <2>2. \/ card' \in {card, Advanced}
        \/ pc \in Commands /\ Heard /\ card' = After
    BY <1>5 DEF Interrupted
  <2>3. CASE pc \in RwSteps
    <3>1. /\ card'.kind = card.kind /\ card'.wide = card.wide /\ card'.rca = card.rca
          /\ card'.state \in {card.state, "data", "rcv", "tran"}
      BY <1>v, <1>q, <2>2, <2>3
    <3>2. pc' \notin InitSteps /\ pc' \notin RwSteps
      BY <2>1, PhaseNames
    <3>3. initOk' = initOk /\ (initOk => ~(pc \in InitSteps))
      BY <1>r, <2>1, <2>3, PhaseNames DEF ReadyInv, PhaseInv
    <3>. QED  BY <1>r, <2>1, <2>3, <3>1, <3>2, <3>3, ReadyKept, PhaseNames
  <2>4. CASE pc \in InitSteps
    <3>1. ~initOk'
      BY <2>1, <2>4 DEF PhaseInv
    <3>2. card'.state \in {"idle", "ready", "ident"} => ~card'.wide
      BY <1>a, <1>h, <1>r, <1>v, <2>2, <2>4, ObeyedStates, PcNames
    <3>. QED
      BY <2>1, <3>1, <3>2, PhaseNames, PcNames
      DEF ReadyInv, PhaseInv, ControllerInv, IdentInv, LearntInv, ReadyAfterInit
  <2>. QED  BY <2>1, <2>3, <2>4 DEF DriverInv
<1>. QED  BY <1>1, <1>2, <1>3, <1>4, <1>5 DEF CarefulSteps

\* Before the first call nothing has been learnt about the card and none is
\* agreed on.
LEMMA ReadyBegin == Init => ReadyInv
<1>. SUFFICES ASSUME Init PROVE ReadyInv
  OBVIOUS
<1>1. PICK k \in Cards : card = PowerUp(k)
  BY DEF Init
<1>2. card.wide = FALSE
  BY <1>1 DEF PowerUp
<1>3. pc = "idle" /\ initOk = FALSE
  BY DEF Init
<1>. QED
  BY <1>2, <1>3, PhaseNames, PcNames
  DEF ReadyInv, PhaseInv, ControllerInv, IdentInv, LearntInv, ReadyAfterInit

-----------------------------------------------------------------------------
(***************************************************************************)
(* What a read delivers.                                                   *)
(***************************************************************************)
\* The driver addresses the card as the card takes it.
Agreed == pc \in RwSteps => (BlockMode <=> card.kind.high)

\* How far a request has come
CountInv ==
  /\ pc \in {"status", "SET_BLOCKCNT"} => c = 0
  /\ pc \in Transfers => pc = TransferCommand /\ c < call.num
  /\ pc \in Transfers => (BlockMode => c = 0)
  /\ pc = "data" => c < call.num
  /\ pc \in {"dataDone", "STOP_TRANS", "return"} => c = call.num

\* The card sends or takes as it was told, and is at the block whose turn it
\* is, or past its last one.
PlaceInv ==
  pc = "data" /\ card.state \in {"data", "rcv"} =>
    /\ card.state = IF call.kind = "read" THEN "data" ELSE "rcv"
    /\ card.addr \in Blocks => card.addr = call.lba + c

Delivered ==
  \A k \in 1 .. Len(buf) : /\ call.lba + k - 1 \in Blocks
                           /\ buf[k] = store[call.lba + k - 1]

\* The buffer holds the first blocks that were asked for, as they are stored.
GotInv ==
  /\ pc \in RwSteps /\ call.kind = "read" => Len(buf) = c /\ Delivered
  /\ pc \notin RwSteps /\ ret = "ok" /\ call.kind = "read" =>
       Len(buf) = call.num /\ Delivered

ReadInv == CountInv /\ PlaceInv /\ GotInv

\* A number of bytes that is a whole number of blocks
LEMMA WholeBlocks ==
  ASSUME NEW x \in Nat, NEW s \in Nat \ {0}
  PROVE  (x * s) % s = 0 /\ (x * s) \div s = x
OBVIOUS

\* The block a card takes the driver's address for is the one whose turn it is.
LEMMA Located ==
  ASSUME call \in AnyCall, c \in Nat, card \in AnyCard, BlockMode <=> card.kind.high,
         BlockMode => c = 0
  PROVE  At(Arg) = call.lba + c
<1>1. call.lba \in Nat /\ call.lba + c \in Nat
  BY DEF AnyCall
<1>2. CASE BlockMode
  BY <1>1, <1>2 DEF At, Arg
<1>3. CASE ~BlockMode
  <2>1. Arg = (call.lba + c) * SECTOR
    BY <1>3 DEF Arg
  <2>2. At(Arg) = IF Arg % SECTOR = 0 THEN Arg \div SECTOR ELSE NBlocks
    BY <1>3 DEF At
  <2>3. SECTOR \in Nat \ {0}
    BY SizeAssumption
  <2>. QED  BY <1>1, <2>1, <2>2, <2>3, WholeBlocks
<1>. QED  BY <1>2, <1>3

\* Where a request goes from each of its steps.
LEMMA CountStep ==
  ASSUME SdTypes, CountInv, Steps
  PROVE  CountInv'
<1>. CallInv
  BY DEF SdTypes
<1>1. CASE Restarts
  BY <1>1, PcNames DEF Restarts, StartInit, CountInv, Transfers
<1>2. CASE Asks
  BY <1>2, PcNames DEF Asks, StartCall, CountInv, Transfers
<1>3. CASE sd_init
  <2>1. pc' \notin RwSteps
    BY <1>3, PcNames, FollowingSteps DEF sd_init, Reset, Clock, InitCommand, SendOpCond,
          OpCondAgain, OpCondComplete, SendRelAddr, Clock2, ScrStatus, Scr, Words, Finish,
          SetBusWidth, Then, ReturnInit
  <2>. QED  BY <2>1, PcNames DEF CountInv, Transfers
<1>4. CASE Interrupted
  <2>1. pc' = "idle"
    BY <1>4 DEF Interrupted, Return
  <2>. QED  BY <2>1 DEF CountInv, Transfers
<1>5. CASE sd_readwrite
  <2>1. UNCHANGED sd_scr /\ UNCHANGED call
    BY <1>5 DEF sd_readwrite, Status, SetBlockCnt, StartTransfer, ReadData, WriteData,
          DataDone, StopTrans, ReturnBytes, initVars, driver, locals
  <2>2. pc \in RwSteps
    BY <1>5, PcNames DEF sd_readwrite, Status, SetBlockCnt, StartTransfer, ReadData,
                WriteData, DataDone, StopTrans, ReturnBytes, Transfers
  <2>3. call \in AnyCall /\ call.num \in Nat \ {0} /\ c \in Nat
    BY <2>2 DEF CallInv, AnyCall
  <2>4. /\ TransferCommand' = TransferCommand /\ TransferCommand \in Transfers
        /\ BlockMode' = BlockMode
    BY <2>1, TransferCommands DEF TransferCommand, BlockMode
  <2>a. AfterBlocks => pc' \in {"STOP_TRANS", "return"}
    BY DEF AfterBlocks, Continue
  <2>5. CASE Status \/ SetBlockCnt
    <3>1. c = 0 /\ UNCHANGED c
      BY <2>5 DEF Status, SetBlockCnt, CountInv
    <3>2. pc' \in {"idle", "SET_BLOCKCNT", TransferCommand}
      BY <2>5 DEF Status, SetBlockCnt, Continue, Return
    <3>. QED  BY <2>1, <2>3, <2>4, <3>1, <3>2 DEF CountInv, Transfers
  <2>6. CASE StartTransfer
    BY <2>1, <2>3, <2>6 DEF StartTransfer, Continue, Return, CountInv, Transfers
  <2>7. CASE ReadData \/ WriteData
    <3>1. c < call.num
      BY <2>7 DEF ReadData, WriteData, CountInv
    <3>2. \/ pc' = "idle"
          \/ NextBlock
      BY <2>7 DEF ReadData, WriteData, IntFails, Return
    <3>3. CASE NextBlock /\ c + 1 < call.num
      <4>1. c' = c + 1 /\ pc' = IF BlockMode THEN "data" ELSE TransferCommand
        BY <3>3 DEF NextBlock, Continue
      <4>. QED  BY <2>1, <2>3, <2>4, <3>3, <4>1 DEF CountInv, Transfers
    <3>4. CASE NextBlock /\ ~(c + 1 < call.num)
      <4>1. c' = call.num /\ pc' \in {"dataDone", "STOP_TRANS", "return"}
        BY <2>3, <2>a, <3>1, <3>4 DEF NextBlock, Continue
      <4>. QED  BY <2>1, <4>1 DEF CountInv, Transfers
    <3>. QED  BY <3>2, <3>3, <3>4 DEF CountInv, Transfers
  <2>8. CASE DataDone \/ StopTrans \/ ReturnBytes
    <3>1. UNCHANGED c /\ pc' \in {"idle", "STOP_TRANS", "return"} /\ c = call.num
      BY <2>8, <2>a DEF DataDone, StopTrans, ReturnBytes, IntFails, Continue, Return,
            locals, CountInv
    <3>. QED  BY <2>1, <3>1 DEF CountInv, Transfers
  <2>. QED  BY <1>5, <2>5, <2>6, <2>7, <2>8 DEF sd_readwrite
<1>. QED  BY <1>1, <1>2, <1>3, <1>4, <1>5 DEF Steps

\* A transfer is at the block its command has named, and goes on block by block.
LEMMA PlaceStep ==
  ASSUME SdTypes, Agreed, CountInv, PlaceInv, Steps
  PROVE  PlaceInv'
<1>. /\ card \in AnyCard /\ CallInv
  BY DEF SdTypes, HardwareInv
<1>. SUFFICES ASSUME pc' = "data", card'.state \in {"data", "rcv"}
              PROVE  /\ card'.state = IF call'.kind = "read" THEN "data" ELSE "rcv"
                     /\ card'.addr \in Blocks => card'.addr = call'.lba + c'
  BY DEF PlaceInv
<1>1. StartTransfer \/ ReadData \/ WriteData
  <2>1. ~sd_init
    BY PcNames, FollowingSteps DEF sd_init, Reset, Clock, InitCommand, SendOpCond,
          OpCondAgain, OpCondComplete, SendRelAddr, Clock2, ScrStatus, Scr, Words, Finish,
          SetBusWidth, Then, ReturnInit
  <2>2. ~Restarts /\ ~Asks /\ ~Interrupted
    BY DEF Restarts, StartInit, Asks, StartCall, Interrupted, Return
  <2>3. ~Status /\ ~SetBlockCnt /\ ~DataDone /\ ~StopTrans /\ ~ReturnBytes
    BY TransferCommands DEF Status, SetBlockCnt, DataDone, StopTrans, ReturnBytes, AfterBlocks,
         IntFails, Continue, Return, Transfers
  <2>. QED  BY <2>1, <2>2, <2>3 DEF Steps, sd_readwrite
<1>2. CASE StartTransfer
  <2>1. pc \in Transfers /\ sd_cmd /\ sd_err' = SD_OK /\ UNCHANGED <<call, c>>
    BY <1>2 DEF StartTransfer, Continue, Return
  <2>2. pc \in RwSteps /\ pc \in Commands /\ pc # "GO_IDLE"
    BY <2>1, PcNames DEF Transfers
  <2>3. Heard /\ card' = After
    BY <2>1, <2>2, CommandEnds
  <2>4. card.state = "tran"
    BY <2>1, <2>3, ObeyedStates DEF Heard
  <2>5. At(Arg) = call.lba + c
    BY <2>1, <2>2, Located DEF Agreed, CallInv, CountInv
  <2>6. IF At(Arg) \in Blocks
        THEN /\ After.state = IF pc \in {"READ_SINGLE", "READ_MULTI"} THEN "data" ELSE "rcv"
             /\ After.addr = At(Arg)
        ELSE After = card
    BY <2>1, <2>2, AfterCard DEF CallInv
  <2>7. pc \in {"READ_SINGLE", "READ_MULTI"} <=> call.kind = "read"
    BY <2>1, TransferCommands DEF CountInv
  <2>. QED  BY <2>1, <2>3, <2>4, <2>5, <2>6, <2>7
<1>3. CASE ReadData \/ WriteData
  <2>1. /\ pc = "data" /\ UNCHANGED call /\ call.kind \in {"read", "write"}
        /\ \/ card' = Advanced
           \/ card' = card /\ call.kind = "write" /\ card.state # "rcv"
    BY <1>3 DEF ReadData, WriteData, NextBlock, IntFails, Return
  <2>2. c' = c + 1
    BY <1>3 DEF ReadData, WriteData, NextBlock, IntFails, Return
  <2>3. c \in Nat /\ call.lba \in Nat
    BY <2>1, PcNames DEF CallInv, AnyCall
  <2>4. card' = Advanced
    BY <2>1 DEF PlaceInv
  <2>5. card.left # 1 /\ card'.state = card.state
        /\ card'.addr = IF card.addr \in Blocks THEN card.addr + 1 ELSE card.addr
    BY <2>4, AdvancedCard
  <2>. QED  BY <2>1, <2>2, <2>3, <2>5 DEF PlaceInv
<1>. QED  BY <1>1, <1>2, <1>3

\* A sequence with one element more
LEMMA OneMore ==
  ASSUME NEW T, NEW s \in Seq(T), NEW x \in T
  PROVE  /\ Append(s, x) \in Seq(T) /\ Len(Append(s, x)) = Len(s) + 1
         /\ \A k \in 1 .. Len(s) : Append(s, x)[k] = s[k]
         /\ Append(s, x)[Len(s) + 1] = x
BY AppendProperties

\* A block goes into the buffer as it is stored.
LEMMA GotStep ==
  ASSUME SdTypes, CountInv, PlaceInv, GotInv, Steps
  PROVE  GotInv'
<1>. CallInv /\ HardwareInv
  BY DEF SdTypes
\* Where neither the buffer nor the store changes ...
<1>k. ASSUME UNCHANGED <<buf, call, store>>
      PROVE  Delivered' = Delivered
  BY <1>k DEF Delivered
<1>1. CASE Restarts
  <2>1. UNCHANGED <<buf, call, store, ret>> /\ pc' = "reset" /\ pc = "idle"
    BY <1>1 DEF Restarts, StartInit, hw
  <2>. QED  BY <1>k, <2>1, PcNames DEF GotInv
<1>2. CASE Asks
  <2>1. buf' = << >> /\ c' = 0 /\ pc' = "status"
    BY <1>2 DEF Asks, StartCall
  <2>2. Len(buf') = 0
    BY <2>1, EmptySeq
  <2>3. Delivered'
    BY <2>2 DEF Delivered
  <2>. QED  BY <2>1, <2>2, <2>3, PcNames DEF GotInv
<1>3. CASE sd_init
  <2>1. UNCHANGED <<buf, call, store, ret>>
    BY <1>3 DEF sd_init, Reset, Clock, InitCommand, SendOpCond, SendRelAddr, Clock2,
                ScrStatus, Scr, Words, SetBusWidth, rwVars, hw
  <2>2. pc' \notin RwSteps /\ pc \notin RwSteps
    BY <1>3, PcNames, FollowingSteps DEF sd_init, Reset, Clock, InitCommand, SendOpCond,
          OpCondAgain, OpCondComplete, SendRelAddr, Clock2, ScrStatus, Scr, Words, Finish,
          SetBusWidth, Then, ReturnInit
  <2>. QED  BY <1>k, <2>1, <2>2 DEF GotInv
<1>4. CASE Interrupted
  <2>1. UNCHANGED <<buf, call, store>> /\ pc' = "idle"
    BY <1>4 DEF Interrupted, locals, Return
  <2>2. IF pc \in RwSteps THEN ret' = "raised" ELSE ret' = ret
    BY <1>4 DEF Interrupted, Return
  <2>. QED  BY <1>k, <2>1, <2>2, PcNames DEF GotInv
<1>5. CASE Status \/ SetBlockCnt \/ StartTransfer \/ DataDone \/ StopTrans
  <2>1. UNCHANGED <<buf, call, store, c>>
    BY <1>5 DEF Status, SetBlockCnt, StartTransfer, DataDone, StopTrans
  <2>2. pc \in RwSteps
    BY <1>5, PcNames DEF Status, SetBlockCnt, StartTransfer, DataDone, StopTrans, Transfers
  <2>3. pc' \in RwSteps \/ ret' = "error"
    BY <1>5, PcNames, TransferCommands DEF Status, SetBlockCnt, StartTransfer, DataDone,
         StopTrans, AfterBlocks, IntFails, Continue, Return, Transfers
  <2>. QED  BY <1>k, <2>1, <2>2, <2>3 DEF GotInv
<1>6. CASE ReadData
  <2>1. /\ pc = "data" /\ pc \in RwSteps /\ call.kind = "read" /\ UNCHANGED <<call, store>>
    BY <1>6, PcNames DEF ReadData
  <2>2. /\ call \in AnyCall /\ call.lba \in Nat /\ c \in Nat
        /\ Len(buf) = c /\ Delivered
    BY <2>1 DEF CallInv, AnyCall, GotInv
  <2>3. CASE pc' = "idle" /\ ret' = "error"
    BY <2>3, PcNames DEF GotInv
  <2>4. CASE OnLine("data") /\ buf' = Append(buf, store[card.addr]) /\ NextBlock
    <3>1. card.addr = call.lba + c /\ card.addr \in Blocks
      BY <2>1, <2>4 DEF OnLine, PlaceInv
    <3>2. store[card.addr] \in Blocks \cup Data
      BY <3>1 DEF HardwareInv
    <3>3. /\ buf' \in Seq(Blocks \cup Data) /\ Len(buf') = c + 1 /\ c' = c + 1
          /\ \A k \in 1 .. Len(buf) : buf'[k] = buf[k]
          /\ buf'[c + 1] = store[card.addr]
      <4>1. buf \in Seq(Blocks \cup Data) /\ c' = c + 1
        BY <2>4 DEF CallInv, NextBlock
      <4>. QED  BY <2>2, <2>4, <3>2, <4>1, OneMore
    <3>4. Delivered'
      <4>. SUFFICES ASSUME NEW k \in 1 .. c + 1
                    PROVE  /\ call.lba + k - 1 \in Blocks
                           /\ buf'[k] = store[call.lba + k - 1]
        BY <2>1, <3>3 DEF Delivered
      <4>1. CASE k = c + 1
        <5>1. call.lba + k - 1 = card.addr
          BY <2>2, <3>1, <4>1
        <5>. QED  BY <3>1, <3>3, <4>1, <5>1
      <4>2. CASE k # c + 1
        <5>1. k \in 1 .. Len(buf)
          BY <2>2, <4>2
        <5>. QED  BY <2>2, <3>3, <5>1 DEF Delivered
      <4>. QED  BY <4>1, <4>2
    <3>5. pc' \in RwSteps
      BY <2>4, PcNames, TransferCommands DEF NextBlock, AfterBlocks, Continue, Transfers
    <3>. QED  BY <3>3, <3>4, <3>5 DEF GotInv
  <2>. QED  BY <1>6, <2>3, <2>4 DEF ReadData, Return
<1>7. CASE WriteData
  <2>1. UNCHANGED call /\ call.kind = "write"
    BY <1>7 DEF WriteData
  <2>. QED  BY <2>1 DEF GotInv
<1>8. CASE ReturnBytes
  <2>1. UNCHANGED <<buf, call, store, c>> /\ pc' = "idle" /\ c = call.num /\ pc \in RwSteps
    BY <1>8, PcNames DEF ReturnBytes, Return, hw, locals, CountInv
  <2>. QED  BY <1>k, <2>1, PcNames DEF GotInv
<1>. QED
  BY <1>1, <1>2, <1>3, <1>4, <1>5, <1>6, <1>7, <1>8 DEF Steps, sd_readwrite

\* Reads deliver what is stored, whoever calls the driver.
LEMMA ReadStep ==
  ASSUME SdTypes, Agreed, ReadInv, Steps
  PROVE  ReadInv'
BY CountStep, PlaceStep, GotStep DEF ReadInv

\* Before the first call no block has been read.
LEMMA ReadBegin == Init => ReadInv
<1>. SUFFICES ASSUME Init PROVE ReadInv
  OBVIOUS
<1>1. pc = "idle" /\ ret = "none"
  BY DEF Init
<1>. QED  BY <1>1, PcNames DEF ReadInv, CountInv, PlaceInv, GotInv, Transfers

\* ReadInv says that a read that returned ok delivered the blocks it was asked
\* for.
LEMMA ReadInvReads ==
  ASSUME SdTypes, ReadInv
  PROVE  ReadsTheBlocks
<1>. SUFFICES ASSUME pc = "idle", ret = "ok", call.kind = "read"
              PROVE  buf = [k \in 1 .. call.num |-> store[call.lba + k - 1]]
  BY DEF ReadsTheBlocks
<1>1. Len(buf) = call.num /\ Delivered
  BY PcNames DEF ReadInv, GotInv
<1>2. buf \in Seq(Blocks \cup Data)
  BY DEF SdTypes, CallInv
<1>3. buf = [k \in 1 .. Len(buf) |-> buf[k]]
  BY <1>2
<1>. QED  BY <1>1, <1>3 DEF Delivered

-----------------------------------------------------------------------------
(***************************************************************************)
(* How a transfer ends.                                                    *)
(***************************************************************************)
Multiple == BlockMode /\ call.num > 1
Counted  == "SET_BLKCNT" \in sd_scr

\* The controller moves nothing when a request begins its transfer.
QuietInv == pc \in RwSteps \ {"status"} => ~dat

\* The count the card was given is the request's.
BlkCntInv ==
  /\ "SET_BLKCNT" \notin card.kind.scr => card.blkcnt = 0
  /\ pc = "SET_BLOCKCNT" => Counted
  /\ pc \in {"READ_MULTI", "WRITE_MULTI"} /\ Counted => card.blkcnt = call.num

\* The card ends its transfer with the request, unless it was given no count.
LeftInv ==
  /\ pc = "data" /\ card.state # "tran" =>
       card.left = IF ~Multiple THEN 1 ELSE IF Counted THEN call.num - c ELSE Open
  /\ pc = "dataDone" /\ card.state # "tran" => Multiple /\ ~Counted
  /\ pc = "return" /\ sd_err = SD_OK => card.state = "tran"

EndInv == QuietInv /\ BlkCntInv /\ LeftInv /\ TransferEnded

\* A step that begins a request leaves the controller without a transfer.
LEMMA QuietStep ==
  ASSUME SdTypes, QuietInv, Steps
  PROVE  QuietInv'
<1>. HardwareInv
  BY DEF SdTypes
<1>1. CASE Restarts \/ Asks \/ Interrupted
  BY <1>1, PcNames DEF Restarts, StartInit, Asks, StartCall, Interrupted, Return, QuietInv
<1>2. CASE sd_init
  <2>1. pc' \notin RwSteps
    BY <1>2, PcNames, FollowingSteps DEF sd_init, Reset, Clock, InitCommand, SendOpCond,
          OpCondAgain, OpCondComplete, SendRelAddr, Clock2, ScrStatus, Scr, Words, Finish,
          SetBusWidth, Then, ReturnInit
  <2>. QED  BY <2>1 DEF QuietInv
<1>3. CASE Status
  <2>1. UNCHANGED dat /\ (pc' = "idle" \/ ~dat)
    BY <1>3 DEF Status, Return
  <2>. QED  BY <2>1, PcNames DEF QuietInv
<1>4. CASE SetBlockCnt \/ StartTransfer \/ StopTrans
  <2>1. UNCHANGED dat /\ pc \in RwSteps \ {"status"}
    BY <1>4, PcNames DEF SetBlockCnt, StartTransfer, StopTrans, Transfers
  <2>. QED  BY <2>1 DEF QuietInv
<1>5. CASE ReadData \/ WriteData \/ DataDone
  <2>1. (UNCHANGED dat \/ pc' = "idle") /\ pc \in RwSteps \ {"status"}
    BY <1>5, PcNames DEF ReadData, WriteData, DataDone, IntFails, Return
  <2>. QED  BY <2>1, PcNames DEF QuietInv
<1>6. CASE ReturnBytes
  BY <1>6, PcNames DEF ReturnBytes, Return, QuietInv
<1>. QED  BY <1>1, <1>2, <1>3, <1>4, <1>5, <1>6 DEF Steps, sd_readwrite

\* While a request runs, the driver's flags are those of the card.
LEMMA CardsFlags ==
  ASSUME ReadyInv, initOk
  PROVE  /\ Counted <=> "SET_BLKCNT" \in card.kind.scr
         /\ card.kind.high \in BOOLEAN => (BlockMode <=> card.kind.high)
         /\ card.state \in {"tran", "data", "rcv"}
BY DEF ReadyInv, ReadyAfterInit, Counted, BlockMode

\* The block count the card was told stays the one of the transfer under way.
LEMMA BlkCntStep ==
  ASSUME SdTypes, ReadyInv, CountInv, BlkCntInv, Steps
  PROVE  BlkCntInv'
<1>. card \in AnyCard /\ CallInv /\ PhaseInv
  BY DEF SdTypes, HardwareInv, ReadyInv
<1>v. Advanced.kind = card.kind /\ Advanced.blkcnt = card.blkcnt
  BY AdvancedCard
<1>a. pc \in Commands =>
        /\ After.kind = card.kind
        /\ pc \notin {"GO_IDLE", "SET_BLOCKCNT"} => After.blkcnt \in {0, card.blkcnt}
        /\ pc = "GO_IDLE" => After.blkcnt = 0
        /\ pc = "SET_BLOCKCNT" => After.blkcnt = call.num
  BY AfterCard DEF CallInv, PowerUp
<1>s. sd_cmd => /\ card' \in {card, After} /\ pc \in Commands
                /\ sd_err' = SD_OK /\ pc # "GO_IDLE" => card' = After
  BY CommandEnds DEF sd_cmd
\* What the card may do with its count, whatever the step
<1>c. ASSUME \/ card' \in {card, Advanced}
             \/ pc \in Commands /\ card' = After /\ pc # "SET_BLOCKCNT",
             pc' \notin {"SET_BLOCKCNT", "READ_MULTI", "WRITE_MULTI"}
      PROVE  BlkCntInv'
  BY <1>c, <1>v, <1>a DEF BlkCntInv
<1>1. CASE Restarts \/ Asks
  <2>1. UNCHANGED card /\ pc' \in {"reset", "status"}
    BY <1>1 DEF Restarts, StartInit, Asks, StartCall, hw
  <2>. QED  BY <1>c, <2>1
<1>2. CASE sd_init
  <2>1. pc' \notin RwSteps /\ pc # "SET_BLOCKCNT"
    BY <1>2, PcNames, FollowingSteps DEF sd_init, Reset, Clock, InitCommand, SendOpCond,
          OpCondAgain, OpCondComplete, SendRelAddr, Clock2, ScrStatus, Scr, Words, Finish,
          SetBusWidth, Then, ReturnInit
  <2>2. \/ card' = card
        \/ pc \in Commands /\ card' = After
    BY <1>2, <1>s, PcNames DEF sd_init, Reset, Clock, InitCommand, SendOpCond, OpCondAgain,
          OpCondComplete, SendRelAddr, Clock2, ScrStatus, Scr, Words, SetBusWidth, hw
  <2>. QED  BY <1>c, <2>1, <2>2, PcNames
<1>3. CASE Status
  <2>1. UNCHANGED <<card, call, sd_scr, c>>
    BY <1>3 DEF Status, initVars
  <2>2. /\ pc' \in {"READ_MULTI", "WRITE_MULTI"} => ~Counted
        /\ pc' = "SET_BLOCKCNT" => Counted
    BY <1>3, TransferCommands DEF Status, Continue, Return, Counted, Transfers
  <2>. QED  BY <2>1, <2>2 DEF BlkCntInv, Counted
<1>4. CASE SetBlockCnt
  <2>1. /\ pc = "SET_BLOCKCNT" /\ sd_cmd /\ UNCHANGED <<call, sd_scr>>
        /\ pc \in RwSteps
    BY <1>4, PcNames DEF SetBlockCnt, initVars
  <2>2. pc' \in {"READ_MULTI", "WRITE_MULTI"} => sd_err' = SD_OK
    BY <1>4 DEF SetBlockCnt, Return
  <2>3. card' \in {card, After} /\ card'.kind = card.kind
        /\ (pc' \in {"READ_MULTI", "WRITE_MULTI"} => card'.blkcnt = call.num)
    BY <1>a, <1>s, <2>1, <2>2
  <2>4. CASE Counted
    <3>1. "SET_BLKCNT" \in card.kind.scr /\ pc' # "SET_BLOCKCNT"
      BY <1>4, <2>1, <2>4, CardsFlags, TransferCommands
      DEF PhaseInv, SetBlockCnt, Continue, Return, Transfers
    <3>. QED  BY <2>1, <2>3, <3>1 DEF BlkCntInv, Counted
  <2>5. CASE ~Counted
    <3>1. pc = "SET_BLOCKCNT" => Counted
      BY DEF BlkCntInv
    <3>. QED  BY <2>1, <2>5, <3>1
  <2>. QED  BY <2>4, <2>5
<1>5. CASE StartTransfer \/ StopTrans
  <2>1. pc \in Commands /\ card' \in {card, After} /\ pc # "SET_BLOCKCNT"
    BY <1>5, <1>s DEF StartTransfer, StopTrans, Transfers
  <2>2. pc' \in {"data", "idle", "return"}
    BY <1>5 DEF StartTransfer, StopTrans, Continue, Return
  <2>. QED  BY <1>c, <2>1, <2>2
<1>6. CASE ReadData \/ WriteData
  <2>1. card' \in {card, Advanced}
    BY <1>6 DEF ReadData, WriteData
  <2>2. NextBlock => pc' \notin {"SET_BLOCKCNT", "READ_MULTI", "WRITE_MULTI"}
    BY TransferCommands DEF NextBlock, AfterBlocks, Continue, Transfers
  <2>3. pc' \notin {"SET_BLOCKCNT", "READ_MULTI", "WRITE_MULTI"}
    BY <1>6, <2>2 DEF ReadData, WriteData, IntFails, Return
  <2>. QED  BY <1>c, <2>1, <2>3
<1>7. CASE DataDone \/ ReturnBytes
  <2>1. UNCHANGED card /\ pc' \in {"STOP_TRANS", "return", "idle"}
    BY <1>7 DEF DataDone, ReturnBytes, IntFails, AfterBlocks, Continue, Return, hw
  <2>. QED  BY <1>c, <2>1
<1>8. CASE Interrupted
  <2>1. /\ pc' = "idle"
        /\ \/ card' \in {card, Advanced}
           \/ pc \in Commands /\ card' = After
    BY <1>8 DEF Interrupted, Return
  <2>2. CASE pc = "SET_BLOCKCNT" /\ card' = After
    <3>1. "SET_BLKCNT" \in card.kind.scr
      BY <2>2, CardsFlags, PcNames DEF BlkCntInv, PhaseInv
    <3>. QED  BY <1>a, <2>1, <2>2, <3>1, PcNames DEF BlkCntInv
  <2>. QED  BY <1>c, <2>1, <2>2
<1>. QED  BY <1>1, <1>2, <1>3, <1>4, <1>5, <1>6, <1>7, <1>8 DEF Steps, sd_readwrite

\* The blocks the card has still to move are those the driver has still to wait
\* for.
LEMMA LeftStep ==
  ASSUME SdTypes, ReadyInv, CountInv, PlaceInv, BlkCntInv, LeftInv, Steps
  PROVE  LeftInv'
<1>. card \in AnyCard /\ CallInv /\ PhaseInv /\ DriverInv
  BY DEF SdTypes, HardwareInv, ReadyInv
<1>a. AfterBlocks => pc' = IF Multiple /\ ~Counted THEN "STOP_TRANS" ELSE "return"
  BY DEF AfterBlocks, Continue, Multiple, Counted
<1>1. CASE Restarts \/ Asks \/ Interrupted \/ ReturnBytes
  <2>1. pc' \in {"reset", "status", "idle"}
    BY <1>1 DEF Restarts, StartInit, Asks, StartCall, Interrupted, ReturnBytes, Return
  <2>. QED  BY <2>1 DEF LeftInv
<1>2. CASE sd_init
  <2>1. pc' \notin RwSteps
    BY <1>2, PcNames, FollowingSteps DEF sd_init, Reset, Clock, InitCommand, SendOpCond,
          OpCondAgain, OpCondComplete, SendRelAddr, Clock2, ScrStatus, Scr, Words, Finish,
          SetBusWidth, Then, ReturnInit
  <2>. QED  BY <2>1, PcNames DEF LeftInv
<1>3. CASE Status \/ SetBlockCnt
  <2>1. pc' \notin {"data", "dataDone", "return"}
    BY <1>3, TransferCommands DEF Status, SetBlockCnt, Continue, Return, Transfers
  <2>. QED  BY <2>1 DEF LeftInv
<1>4. CASE StartTransfer
  <2>1. /\ pc \in Transfers /\ sd_cmd /\ UNCHANGED <<call, c, sd_scr>>
        /\ pc \in RwSteps /\ pc \in Commands /\ pc # "GO_IDLE"
    BY <1>4, PcNames DEF StartTransfer, initVars, Transfers
  <2>2. pc' \in {"idle", "data"} /\ (pc' = "data" => sd_err' = SD_OK)
    BY <1>4 DEF StartTransfer, Continue, Return
  <2>3. CASE pc' = "data"
    <3>1. Heard /\ card' = After
      BY <2>1, <2>2, <2>3, CommandEnds
    <3>2. card.state = "tran"
      BY <2>1, <3>1, ObeyedStates DEF Heard
    <3>3. card'.state # "tran" =>
            card'.left = IF pc \in {"READ_SINGLE", "WRITE_SINGLE"} THEN 1
                         ELSE IF card.blkcnt = 0 THEN Open ELSE card.blkcnt
      BY <2>1, <3>1, <3>2, AfterCard DEF CallInv
    <3>4. /\ pc \in {"READ_SINGLE", "WRITE_SINGLE"} <=> ~Multiple
          /\ pc \notin {"READ_SINGLE", "WRITE_SINGLE"} => pc \in {"READ_MULTI", "WRITE_MULTI"}
      BY <2>1, TransferCommands DEF CountInv, Transfers, Multiple
    <3>5. Multiple => card.blkcnt = IF Counted THEN call.num ELSE 0
      BY <2>1, <3>4, CardsFlags DEF BlkCntInv, PhaseInv
    <3>6. call.num \in Nat \ {0} /\ (Multiple => c = 0)
      BY <2>1 DEF CallInv, AnyCall, CountInv, Multiple
    <3>. QED
      BY <2>1, <2>3, <3>3, <3>4, <3>5, <3>6 DEF LeftInv, Multiple, Counted, BlockMode
  <2>. QED  BY <2>2, <2>3 DEF LeftInv
<1>5. CASE ReadData \/ WriteData
  <2>1. /\ pc = "data" /\ pc \in RwSteps /\ UNCHANGED <<call, sd_scr>>
    BY <1>5, PcNames DEF ReadData, WriteData, initVars
  <2>2. /\ call \in AnyCall /\ call.num \in Nat \ {0} /\ c \in Nat /\ c < call.num
        /\ card.state \in {"tran", "data", "rcv"}
    BY <2>1, CardsFlags DEF CallInv, AnyCall, CountInv, PhaseInv
  <2>3. CASE pc' = "idle"
    BY <2>3 DEF LeftInv
  <2>4. CASE NextBlock
    <3>1. c' = c + 1
      BY <2>4 DEF NextBlock
    <3>2. pc' # "idle"
      BY <2>4, TransferCommands DEF NextBlock, AfterBlocks, Continue, Transfers
    <3>3. card' = IF card.state = "tran" THEN card ELSE Advanced
      <4>1. ReadData => \/ pc' = "idle"
                        \/ card.state = "data" /\ card' = Advanced
        BY DEF ReadData, Return, OnLine
      <4>2. WriteData => \/ pc' = "idle"
                         \/ card' = IF card.state = "rcv" THEN Advanced ELSE card
        BY DEF WriteData, IntFails, Return
      <4>3. WriteData /\ card.state # "tran" => card.state = "rcv"
        BY <2>1, <2>2 DEF WriteData, PlaceInv
      <4>. QED  BY <1>5, <3>2, <4>1, <4>2, <4>3
    <3>4. card'.state # "tran" =>
            /\ card.state # "tran" /\ card.left # 1
            /\ card'.left = IF card.left = Open THEN Open ELSE card.left - 1
      BY <3>3, AdvancedCard
    <3>5. card.state # "tran" =>
            card.left = IF ~Multiple THEN 1 ELSE IF Counted THEN call.num - c ELSE Open
      BY <2>1 DEF LeftInv
    <3>6. /\ Multiple' = Multiple /\ Counted' = Counted /\ UNCHANGED call
          /\ Multiple => BlockMode
      BY <2>1 DEF Multiple, Counted, BlockMode
    <3>7. CASE c + 1 < call.num
      <4>1. pc' = IF BlockMode THEN "data" ELSE TransferCommand
        BY <2>4, <3>7 DEF NextBlock, Continue
      <4>2. CASE BlockMode
        <5>1. pc' = "data" /\ Multiple
          BY <2>2, <3>7, <4>1, <4>2 DEF Multiple
        <5>2. card'.state # "tran" => card'.left = IF Counted THEN call.num - c' ELSE Open
          BY <2>2, <3>1, <3>4, <3>5, <3>7, <5>1 DEF Open
        <5>. QED  BY <3>6, <5>1, <5>2 DEF LeftInv
      <4>3. CASE ~BlockMode
        <5>1. pc' \in Transfers
          BY <4>1, <4>3, TransferCommands
        <5>. QED  BY <5>1 DEF LeftInv, Transfers
      <4>. QED  BY <4>2, <4>3
    <3>8. CASE ~(c + 1 < call.num)
      <4>1. card'.state # "tran" => Multiple /\ ~Counted
        BY <2>2, <3>4, <3>5, <3>8 DEF Open
      <4>2. \/ pc' = "dataDone"
            \/ pc' = IF Multiple /\ ~Counted THEN "STOP_TRANS" ELSE "return"
        BY <1>a, <2>4, <3>8 DEF NextBlock, Continue
      <4>. QED  BY <3>6, <4>1, <4>2 DEF LeftInv
    <3>. QED  BY <3>7, <3>8
  <2>5. ReadData \/ WriteData => NextBlock \/ pc' = "idle"
    BY DEF ReadData, WriteData, IntFails, Return
  <2>. QED  BY <1>5, <2>3, <2>4, <2>5
<1>6. CASE DataDone
  <2>1. /\ pc = "dataDone" /\ UNCHANGED card /\ UNCHANGED <<call, sd_scr>>
        /\ \/ pc' = "idle"
           \/ pc' = IF Multiple /\ ~Counted THEN "STOP_TRANS" ELSE "return"
    BY <1>6, <1>a DEF DataDone, IntFails, Return, initVars
  <2>. QED  BY <2>1 DEF LeftInv
<1>7. CASE StopTrans
  <2>1. pc = "STOP_TRANS" /\ sd_cmd /\ pc' = "return" /\ pc \in Commands
    BY <1>7, PcNames DEF StopTrans, Continue
  <2>2. sd_err' = SD_OK => card' = After
    BY <2>1, CommandEnds
  <2>3. After.state = "tran"
    BY <2>1, AfterCard DEF CallInv
  <2>. QED  BY <2>1, <2>2, <2>3 DEF LeftInv
<1>. QED  BY <1>1, <1>2, <1>3, <1>4, <1>5, <1>6, <1>7 DEF Steps, sd_readwrite

\* A request that succeeds, and an initialisation that succeeds after it, leave
\* no transfer behind.
LEMMA TransferEndedStep ==
  ASSUME SdTypes, ReadyInv, QuietInv, LeftInv, TransferEnded, Steps
  PROVE  TransferEnded'
<1>. SUFFICES ASSUME pc' = "idle", ret' = "ok", initOk'
              PROVE  card'.state = "tran" /\ ~dat'
  BY DEF TransferEnded
<1>. card \in AnyCard /\ CallInv /\ PhaseInv /\ DriverInv /\ HardwareInv
  BY DEF SdTypes, HardwareInv, ReadyInv
<1>1. ~Restarts /\ ~Asks
  BY DEF Restarts, StartInit, Asks, StartCall
<1>2. CASE Interrupted
  <2>1. pc \in InitSteps /\ UNCHANGED initOk
    BY <1>2 DEF Interrupted, Return, DriverInv
  <2>. QED  BY <2>1 DEF PhaseInv
<1>3. CASE sd_init
  <2>1. ~initOk
    BY <1>3, PcNames DEF sd_init, Reset, Clock, InitCommand, SendOpCond, SendRelAddr, Clock2,
        ScrStatus, Scr, Words, SetBusWidth, PhaseInv
  <2>2. \/ Words
        \/ SetBusWidth /\ sd_err' = SD_OK
    BY <1>3, <2>1 DEF sd_init, Reset, Clock, InitCommand, SendOpCond, OpCondAgain,
          OpCondComplete, SendRelAddr, Clock2, ScrStatus, Scr, SetBusWidth, Then, ReturnInit
  <2>3. pc \in {"words", "SET_BUS_WIDTH"} /\ UNCHANGED dat
    BY <2>2 DEF Words, SetBusWidth, hw
  <2>4. card.state = "tran" /\ ~dat
    BY <2>3, PhaseNames, PcNames DEF ReadyInv, IdentInv, ControllerInv
  <2>5. \/ card' = card
        \/ card' = After /\ pc = "SET_BUS_WIDTH"
    BY <2>2, CommandEnds DEF Words, SetBusWidth, hw
  <2>6. pc = "SET_BUS_WIDTH" => After.state = card.state
    BY PcNames, AfterCard DEF CallInv
  <2>. QED  BY <2>3, <2>4, <2>5, <2>6
<1>4. CASE sd_readwrite
  <2>1. AfterBlocks => pc' # "idle"
    BY DEF AfterBlocks, Continue
  <2>2. NextBlock => pc' # "idle"
    BY <2>1, TransferCommands DEF NextBlock, Continue, Transfers
  <2>3. ReturnBytes
    BY <1>4, <2>1, <2>2, TransferCommands DEF sd_readwrite, Status, SetBlockCnt, StartTransfer,
       ReadData, WriteData, DataDone, StopTrans, IntFails, Continue, Return, Transfers
  <2>4. pc = "return" /\ sd_err = SD_OK /\ UNCHANGED <<card, dat>>
    BY <2>3 DEF ReturnBytes, Return, hw
  <2>. QED  BY <2>4, PcNames DEF QuietInv, LeftInv
<1>. QED  BY <1>1, <1>2, <1>3, <1>4 DEF Steps

\* Every step keeps what is known about the end of a transfer.
LEMMA EndStep ==
  ASSUME SdTypes, ReadyInv, CountInv, PlaceInv, EndInv, Steps
  PROVE  EndInv'
BY QuietStep, BlkCntStep, LeftStep, TransferEndedStep DEF EndInv

\* Before the first call the card transfers nothing.
LEMMA EndBegin == Init => EndInv
<1>. SUFFICES ASSUME Init PROVE EndInv
  OBVIOUS
<1>1. PICK k \in Cards : card = PowerUp(k)
  BY DEF Init
<1>2. card.blkcnt = 0
  BY <1>1 DEF PowerUp
<1>3. pc = "idle" /\ ret = "none"
  BY DEF Init
<1>. QED
  BY <1>2, <1>3, PcNames DEF EndInv, QuietInv, BlkCntInv, LeftInv, TransferEnded

-----------------------------------------------------------------------------
(***************************************************************************)
(* What a write stores.                                                    *)
(***************************************************************************)
\* On a block-addressed card, or of one block.
OneCommand == pc \in RwSteps /\ call.kind = "write" => call.num = 1 \/ BlockMode

\* The blocks of the request before the one whose turn it is have been stored,
\* or the controller is about to flag that one has not.
StoredInv ==
  /\ pc \in {"status", "SET_BLOCKCNT"} \cup Transfers => moved = {}
  /\ pc \in RwSteps /\ call.kind = "read" => moved = {}
  /\ pc \in {"data", "dataDone"} /\ call.kind = "write" =>
       lateErr \/ moved = call.lba .. call.lba + c - 1
  /\ pc \in {"STOP_TRANS", "return"} /\ call.kind = "write" =>
       moved = call.lba .. call.lba + call.num - 1

\* The blocks a write has got through are those it has stored, unless an error is
\* about to be flagged.
LEMMA StoredStep ==
  ASSUME SdTypes, CountInv, PlaceInv, StoredInv, Steps, OneCommand
  PROVE  StoredInv'
<1>. CallInv /\ HardwareInv
  BY DEF SdTypes
<1>1. CASE Restarts \/ Asks \/ Interrupted \/ ReturnBytes
  <2>1. \/ pc' \in {"reset", "idle"}
        \/ pc' = "status" /\ moved' = {}
    BY <1>1 DEF Restarts, StartInit, Asks, StartCall, Interrupted, ReturnBytes, Return
  <2>. QED  BY <2>1, PcNames DEF StoredInv, Transfers
<1>2. CASE sd_init
  <2>1. pc' \notin RwSteps
    BY <1>2, PcNames, FollowingSteps DEF sd_init, Reset, Clock, InitCommand, SendOpCond,
          OpCondAgain, OpCondComplete, SendRelAddr, Clock2, ScrStatus, Scr, Words, Finish,
          SetBusWidth, Then, ReturnInit
  <2>. QED  BY <2>1, PcNames DEF StoredInv, Transfers
<1>3. CASE Status \/ SetBlockCnt
  <2>1. UNCHANGED <<moved, call>> /\ moved = {} /\ pc' \notin {"data", "dataDone", "STOP_TRANS", "return"}
    BY <1>3, TransferCommands DEF Status, SetBlockCnt, Continue, Return, Transfers, StoredInv
  <2>. QED  BY <2>1 DEF StoredInv
<1>4. CASE StartTransfer
  <2>1. /\ pc \in Transfers /\ pc \in RwSteps /\ UNCHANGED <<moved, call, c>> /\ moved = {}
        /\ pc' \in {"idle", "data"}
    BY <1>4, PcNames DEF StartTransfer, Continue, Return, StoredInv, Transfers
  <2>2. call.kind = "write" => c = 0 /\ call.lba \in Nat
    <3>1. call.num \in Nat /\ c \in Nat /\ c < call.num /\ (BlockMode => c = 0)
      BY <2>1 DEF CountInv, CallInv, AnyCall
    <3>. QED  BY <2>1, <3>1 DEF OneCommand, CallInv, AnyCall
  <2>3. call'.kind = "write" => moved' = call'.lba .. call'.lba + c' - 1
    BY <2>1, <2>2
  <2>. QED  BY <2>1, <2>3 DEF StoredInv, Transfers
<1>5. CASE ReadData
  <2>1. /\ UNCHANGED <<call, moved>> /\ call.kind = "read"
        /\ pc \in RwSteps /\ pc = "data"
    BY <1>5, PcNames DEF ReadData
  <2>. QED  BY <2>1 DEF StoredInv
<1>6. CASE WriteData
  <2>1. UNCHANGED call /\ call.kind = "write" /\ pc \in RwSteps /\ pc = "data"
    BY <1>6, PcNames DEF WriteData
  <2>2. call.lba \in Nat /\ call.num \in Nat /\ c \in Nat
    BY <2>1 DEF CallInv, AnyCall
  <2>3. CASE pc' = "idle"
    BY <2>3, PcNames DEF StoredInv, Transfers
  <2>4. CASE pc' # "idle"
    <3>1. Land /\ NextBlock
      BY <1>6, <2>4 DEF WriteData, IntFails, Return
    <3>2. c' = c + 1 /\ pc' \in {"data", "dataDone"}
      <4>1. c + 1 < call.num => BlockMode
        BY <2>1, <2>2 DEF OneCommand
      <4>. QED  BY <2>1, <3>1, <4>1 DEF NextBlock, Continue
    <3>3. lateErr' \/ moved' = call.lba .. call.lba + c' - 1
      <4>1. CASE OnLine("rcv") /\ moved' = moved \cup {card.addr} /\ UNCHANGED lateErr
        <5>1. card.addr = call.lba + c
          BY <2>1, <4>1 DEF OnLine, PlaceInv
        <5>2. CASE lateErr
          BY <4>1, <5>2
        <5>3. CASE moved = call.lba .. call.lba + c - 1
          BY <2>2, <3>2, <4>1, <5>1, <5>3
        <5>. QED  BY <2>1, <5>2, <5>3 DEF StoredInv
      <4>2. CASE lateErr' = TRUE
        BY <4>2
      <4>. QED  BY <3>1, <4>1, <4>2 DEF Land
    <3>. QED  BY <2>1, <3>2, <3>3 DEF StoredInv, Transfers
  <2>. QED  BY <2>3, <2>4
<1>7. CASE DataDone
  <2>1. /\ pc = "dataDone" /\ UNCHANGED <<call, moved>> /\ c = call.num
        /\ \/ pc' = "idle"
           \/ ~lateErr /\ pc' \in {"STOP_TRANS", "return"}
    BY <1>7 DEF DataDone, IntFails, AfterBlocks, Continue, Return, CountInv
  <2>. QED  BY <2>1, PcNames DEF StoredInv, Transfers
<1>8. CASE StopTrans
  BY <1>8, PcNames DEF StopTrans, Continue, StoredInv, Transfers
<1>. QED  BY <1>1, <1>2, <1>3, <1>4, <1>5, <1>6, <1>7, <1>8 DEF Steps, sd_readwrite

\* What the card counts as stored is there.
HeldInv == \A b \in moved : store[b] = call.data

\* When a write gets to its end its last block has been stored: that is the one
\* the driver waits for, however many commands the write took.
LastInv ==
  /\ pc = "dataDone" /\ call.kind = "write" =>
       lateErr \/ call.lba + call.num - 1 \in moved
  /\ pc \in {"STOP_TRANS", "return"} /\ call.kind = "write" =>
       call.lba + call.num - 1 \in moved

\* What is true of the last request when it was a write and has succeeded
DoneInv ==
  pc \notin RwSteps /\ ret = "ok" /\ call.kind = "write" =>
    /\ call.lba + call.num - 1 \in moved
    /\ call.num = 1 \/ card.kind.high =>
         moved = call.lba .. call.lba + call.num - 1

WroteInv == (OneCommand => StoredInv) /\ HeldInv /\ LastInv /\ DoneInv

\* No request is served while sd_init runs, and the store is left alone.
LEMMA InitPlaces ==
  /\ sd_init => pc \notin RwSteps /\ pc' \notin RwSteps
  /\ sd_init => UNCHANGED <<store, moved, call, ret>>
<1>1. ASSUME sd_init PROVE pc \notin RwSteps /\ pc' \notin RwSteps
  BY <1>1, PcNames, FollowingSteps DEF sd_init, Reset, Clock, InitCommand, SendOpCond,
        OpCondAgain, OpCondComplete, SendRelAddr, Clock2, ScrStatus, Scr, Words, Finish,
        SetBusWidth, Then, ReturnInit
<1>2. ASSUME sd_init PROVE UNCHANGED <<store, moved, call, ret>>
  BY <1>2 DEF sd_init, Reset, Clock, InitCommand, SendOpCond, SendRelAddr, Clock2,
              ScrStatus, Scr, Words, SetBusWidth, rwVars, hw
<1>. QED  BY <1>1, <1>2

\* A step of a request is one of its places, and leaves the request as it is.
LEMMA RequestPlaces ==
  sd_readwrite => pc \in RwSteps /\ UNCHANGED <<call, sd_scr>>
<1>1. ASSUME sd_readwrite PROVE pc \in RwSteps
  BY <1>1, PcNames DEF sd_readwrite, Status, SetBlockCnt, StartTransfer, ReadData,
              WriteData, DataDone, StopTrans, ReturnBytes, Transfers
<1>2. ASSUME sd_readwrite PROVE UNCHANGED <<call, sd_scr>>
  BY <1>2 DEF sd_readwrite, Status, SetBlockCnt, StartTransfer, ReadData, WriteData,
        DataDone, StopTrans, ReturnBytes, initVars, driver, locals
<1>. QED  BY <1>1, <1>2

\* A card stays of its kind.
LEMMA KindKept ==
  ASSUME SdTypes, Steps
  PROVE  card'.kind = card.kind
<1>. card \in AnyCard /\ CallInv
  BY DEF SdTypes, HardwareInv
<1>1. Advanced.kind = card.kind
  BY AdvancedCard
<1>2. pc \in Commands => After.kind = card.kind
  BY AfterCard DEF CallInv
<1>3. sd_cmd => card'.kind = card.kind
  BY <1>2, CommandEnds DEF sd_cmd
<1>4. CASE sd_init
  <2>1. \/ card' = card
        \/ sd_cmd
        \/ pc \in Commands /\ card' = After
    BY <1>4, PcNames DEF sd_init, Reset, Clock, InitCommand, SendOpCond, OpCondAgain,
          OpCondComplete, SendRelAddr, Clock2, ScrStatus, Scr, Words, SetBusWidth, hw
  <2>. QED  BY <1>2, <1>3, <2>1
<1>5. CASE Restarts \/ Asks \/ sd_readwrite
  <2>1. card' \in {card, Advanced} \/ sd_cmd
    BY <1>5 DEF Restarts, StartInit, Asks, StartCall, hw, sd_readwrite, Status, SetBlockCnt,
          StartTransfer, ReadData, WriteData, DataDone, StopTrans, ReturnBytes
  <2>. QED  BY <1>1, <1>3, <2>1
<1>6. CASE Interrupted
  <2>1. \/ card' \in {card, Advanced}
        \/ pc \in Commands /\ card' = After
    BY <1>6 DEF Interrupted
  <2>. QED  BY <1>1, <1>2, <2>1
<1>. QED  BY <1>4, <1>5, <1>6 DEF Steps

\* The blocks counted as stored hold the data of the request.
LEMMA HeldStep ==
  ASSUME SdTypes, HeldInv, Steps
  PROVE  HeldInv'
<1>1. CASE UNCHANGED <<store, moved, call>>
  BY <1>1 DEF HeldInv
<1>2. CASE moved' = {}
  BY <1>2 DEF HeldInv
<1>3. CASE WriteData /\ Land
  <2>1. /\ UNCHANGED call
        /\ \/ UNCHANGED <<store, moved>>
           \/ /\ OnLine("rcv") /\ store' = [store EXCEPT ![card.addr] = call.data]
              /\ moved' = moved \cup {card.addr}
    BY <1>3 DEF WriteData, Land
  <2>2. store \in [Blocks -> Blocks \cup Data] /\ moved \subseteq Blocks
    BY DEF SdTypes, HardwareInv
  <2>3. OnLine("rcv") => card.addr \in Blocks
    BY DEF OnLine
  <2>. QED  BY <2>1, <2>2, <2>3 DEF HeldInv
<1>4. \/ UNCHANGED <<store, moved, call>>
      \/ moved' = {}
      \/ WriteData /\ Land
  BY InitPlaces DEF Steps, Restarts, StartInit, Asks, StartCall, Interrupted, hw, locals,
     sd_readwrite, Status, SetBlockCnt, StartTransfer, ReadData, WriteData, DataDone,
     StopTrans, ReturnBytes
<1>. QED  BY <1>1, <1>2, <1>3, <1>4

\* The last block of a write is stored before the driver goes on to return.
LEMMA LastStep ==
  ASSUME SdTypes, CountInv, PlaceInv, LastInv, Steps
  PROVE  LastInv'
<1>. CallInv
  BY DEF SdTypes
<1>1. CASE pc' \notin {"dataDone", "STOP_TRANS", "return"}
  BY <1>1 DEF LastInv
<1>2. CASE call'.kind # "write"
  BY <1>2 DEF LastInv
<1>3. CASE pc' \in {"dataDone", "STOP_TRANS", "return"} /\ call'.kind = "write"
  <2>1. sd_readwrite
    <3>1. ~sd_init
      BY <1>3, InitPlaces, PcNames
    <3>2. ~Restarts /\ ~Asks /\ ~Interrupted
      BY <1>3 DEF Restarts, StartInit, Asks, StartCall, Interrupted, Return
    <3>. QED  BY <3>1, <3>2 DEF Steps
  <2>2. UNCHANGED call /\ call.kind = "write" /\ pc \in RwSteps
    BY <1>3, <2>1, RequestPlaces
  <2>3. call.lba \in Nat /\ call.num \in Nat \ {0} /\ c \in Nat
    BY <2>2 DEF CallInv, AnyCall
  <2>4. WriteData \/ DataDone \/ StopTrans
    <3>1. ~Status /\ ~SetBlockCnt /\ ~StartTransfer /\ ~ReturnBytes
      BY <1>3, TransferCommands DEF Status, SetBlockCnt, StartTransfer, ReturnBytes,
         Continue, Return, Transfers
    <3>2. ~ReadData
      BY <2>2 DEF ReadData
    <3>. QED  BY <2>1, <3>1, <3>2 DEF sd_readwrite
  <2>5. CASE WriteData
    <3>1. pc = "data" /\ Land /\ NextBlock
      BY <1>3, <2>5 DEF WriteData, IntFails, Return
    <3>2. c + 1 = call.num /\ pc' = "dataDone"
      <4>1. c < call.num
        BY <3>1 DEF CountInv
      <4>2. ~(c + 1 < call.num)
        BY <1>3, <3>1, TransferCommands DEF NextBlock, Continue, Transfers
      <4>. QED  BY <2>2, <2>3, <3>1, <4>1, <4>2 DEF NextBlock, Continue
    <3>3. lateErr' \/ call.lba + call.num - 1 \in moved'
      <4>1. CASE OnLine("rcv") /\ moved' = moved \cup {card.addr}
        <5>1. card.addr = call.lba + c
          BY <2>2, <3>1, <4>1 DEF OnLine, PlaceInv
        <5>2. call.lba + c = call.lba + call.num - 1
          BY <2>3, <3>2
        <5>. QED  BY <4>1, <5>1, <5>2
      <4>2. CASE lateErr' = TRUE
        BY <4>2
      <4>. QED  BY <3>1, <4>1, <4>2 DEF Land
    <3>. QED  BY <2>2, <3>2, <3>3 DEF LastInv
  <2>6. CASE DataDone
    <3>1. pc = "dataDone" /\ ~lateErr /\ pc' \in {"STOP_TRANS", "return"} /\ UNCHANGED moved
      BY <1>3, <2>6 DEF DataDone, IntFails, AfterBlocks, Continue, Return
    <3>. QED  BY <2>2, <3>1 DEF LastInv
  <2>7. CASE StopTrans
    <3>1. pc = "STOP_TRANS" /\ pc' = "return" /\ UNCHANGED moved
      BY <2>7 DEF StopTrans, Continue
    <3>. QED  BY <2>2, <3>1 DEF LastInv
  <2>. QED  BY <2>4, <2>5, <2>6, <2>7
<1>. QED  BY <1>1, <1>2, <1>3

\* A write that returns ok has stored its last block, and all of them when one
\* command was enough.
LEMMA DoneStep ==
  ASSUME SdTypes, Agreed, WroteInv, Steps
  PROVE  DoneInv'
<1>. CallInv /\ card'.kind = card.kind
  BY KindKept DEF SdTypes
<1>1. CASE Restarts \/ sd_init
  <2>1. UNCHANGED <<ret, call, moved>> /\ pc \notin RwSteps
    BY <1>1, InitPlaces, PcNames DEF Restarts, StartInit, hw
  <2>. QED  BY <2>1 DEF DoneInv, WroteInv
<1>2. CASE Asks
  <2>1. pc' \in RwSteps
    BY <1>2, PcNames DEF Asks, StartCall
  <2>. QED  BY <2>1 DEF DoneInv
<1>3. CASE Interrupted
  <2>1. UNCHANGED <<call, moved>>
    BY <1>3 DEF Interrupted, locals
  <2>2. IF pc \in RwSteps THEN ret' = "raised" ELSE ret' = ret
    BY <1>3 DEF Interrupted, Return
  <2>. QED  BY <2>1, <2>2 DEF DoneInv, WroteInv
<1>4. CASE sd_readwrite
  <2>1. CASE pc' \in RwSteps \/ ret' = "error"
    BY <2>1 DEF DoneInv
  <2>2. CASE ReturnBytes
    <3>1. pc = "return" /\ UNCHANGED <<call, moved>> /\ pc \in RwSteps
      BY <2>2, PcNames DEF ReturnBytes, locals
    <3>2. call.kind = "write" => call.lba + call.num - 1 \in moved
      BY <3>1 DEF WroteInv, LastInv
    <3>3. call.kind = "write" /\ (call.num = 1 \/ card.kind.high) =>
            moved = call.lba .. call.lba + call.num - 1
      BY <3>1 DEF WroteInv, StoredInv, OneCommand, Agreed
    <3>. QED  BY <3>1, <3>2, <3>3 DEF DoneInv
  <2>3. ReturnBytes \/ pc' \in RwSteps \/ ret' = "error"
    BY <1>4, PcNames, TransferCommands DEF sd_readwrite, Status, SetBlockCnt, StartTransfer,
       ReadData, WriteData, DataDone, StopTrans, NextBlock, AfterBlocks, IntFails, Continue,
       Return, Transfers
  <2>. QED  BY <2>1, <2>2, <2>3
<1>. QED  BY <1>1, <1>2, <1>3, <1>4 DEF Steps

\* Every step keeps what is known of writes, whoever calls the driver.
LEMMA WroteStep ==
  ASSUME SdTypes, Agreed, CountInv, PlaceInv, WroteInv, Steps
  PROVE  WroteInv'
<1>1. OneCommand' => StoredInv'
  <2>1. CASE pc' \notin RwSteps
    BY <2>1, PcNames DEF StoredInv, Transfers
  <2>2. CASE Asks
    <3>1. pc' = "status" /\ moved' = {}
      BY <2>2 DEF Asks, StartCall
    <3>. QED  BY <3>1 DEF StoredInv, Transfers
  <2>3. CASE pc' \in RwSteps /\ ~Asks
    <3>1. sd_readwrite
      BY <2>3, InitPlaces, PcNames DEF Steps, Restarts, StartInit, Interrupted, Return
    <3>2. OneCommand' => OneCommand
      BY <2>3, <3>1, RequestPlaces DEF OneCommand, BlockMode
    <3>. QED  BY <3>2, StoredStep DEF WroteInv
  <2>. QED  BY <2>1, <2>2, <2>3
<1>. QED  BY <1>1, HeldStep, LastStep, DoneStep DEF WroteInv

\* Before the first call nothing has been stored.
LEMMA WroteBegin == Init => WroteInv
<1>. SUFFICES ASSUME Init PROVE WroteInv
  OBVIOUS
<1>1. pc = "idle" /\ ret = "none" /\ moved = {}
  BY DEF Init
<1>. QED
  BY <1>1, PcNames DEF WroteInv, StoredInv, HeldInv, LastInv, DoneInv, Transfers

\* What a caller may rely on when a write has succeeded
WroteTheBlocks ==
  pc = "idle" /\ ret = "ok" /\ call.kind = "write" =>
    /\ store[call.lba + call.num - 1] = call.data
    /\ call.num = 1 \/ card.kind.high =>
         \A b \in call.lba .. call.lba + call.num - 1 : store[b] = call.data

\* WroteInv says that a write that returned ok has stored what it was given.
LEMMA WroteInvWrites ==
  ASSUME WroteInv
  PROVE  WroteTheBlocks
BY PcNames DEF WroteInv, HeldInv, DoneInv, WroteTheBlocks

-----------------------------------------------------------------------------
(***************************************************************************)
(* The driver of SdCard, whose callers wait for sd_init's SD_OK.           *)
(***************************************************************************)
SdInv == SdTypes /\ call \in Requests \cup {NoCall} /\ ReadyInv /\ ReadInv /\ EndInv

\* A request of the driver's callers is a call of its.
LEMMA RequestsAreCalls ==
  \A k \in Requests : k \in AnyCall /\ (k.kind = "write" => k.data \in Data) /\ k # NoCall
<1>1. \A n \in Nat : Length(n) \in Nat \ {0}
  BY DEF Length
<1>2. ASSUME NEW l \in Lbas, NEW n \in ReadNums
      PROVE  Read(l, n) \in AnyCall /\ Read(l, n).kind = "read"
  BY <1>1, CallsAssumption DEF Read, AnyCall
<1>3. ASSUME NEW l \in Lbas, NEW n \in WriteNums, NEW d \in Data, NEW a \in BOOLEAN
      PROVE  Write(l, n, d, a) \in AnyCall /\ Write(l, n, d, a).data = d
  BY <1>1, CallsAssumption DEF Write, AnyCall
<1>4. \A k \in AnyCall : k.kind # NoCall.kind
  BY DEF AnyCall, NoCall
<1>. QED  BY <1>2, <1>3, <1>4 DEF Requests

\* Under SdInv every step of the specification is one the step lemmas are about.
LEMMA SdSteps ==
  ASSUME SdInv, Next
  PROVE  CarefulSteps /\ Steps
<1>1. CASE CallInit
  BY <1>1 DEF CallInit, StartInit, Restarts, Steps, CarefulSteps
<1>2. CASE readblocks \/ writeblocks
  <2>1. PICK k \in Requests : pc = "idle" /\ initOk /\ StartCall(k)
    BY <1>2 DEF readblocks, writeblocks, MayCall, Requests
  <2>. QED  BY <2>1, RequestsAreCalls DEF Asks, Steps, CarefulSteps
<1>. QED  BY <1>1, <1>2 DEF Next, Steps, CarefulSteps

\* A call is one that a script or FatFs may make.
LEMMA SdRequests ==
  ASSUME SdInv, Next
  PROVE  call' \in Requests \cup {NoCall}
<1>1. CASE readblocks \/ writeblocks
  <2>1. PICK k \in Requests : StartCall(k)
    BY <1>1 DEF readblocks, writeblocks, MayCall, Requests
  <2>. QED  BY <2>1 DEF StartCall
<1>2. CASE CallInit \/ sd_init \/ sd_readwrite \/ Interrupted
  <2>1. UNCHANGED call
    BY <1>2 DEF CallInit, sd_init, Reset, Clock, InitCommand, SendOpCond, SendRelAddr, Clock2,
                ScrStatus, Scr, Words, SetBusWidth, rwVars, sd_readwrite, Status, SetBlockCnt,
                StartTransfer, ReadData, WriteData, DataDone, StopTrans, ReturnBytes, locals,
                Interrupted
  <2>. QED  BY <2>1 DEF SdInv
<1>. QED  BY <1>1, <1>2 DEF Next

\* Under SdInv driver and card agree on the addressing of blocks in every
\* transfer.
LEMMA SdAgreed ==
  ASSUME SdInv
  PROVE  Agreed
BY CardsFlags, CardsAssumption DEF SdInv, SdTypes, HardwareInv, AnyCard, Agreed, ReadyInv, PhaseInv

\* Every step keeps SdInv.
LEMMA SdStep ==
  ASSUME SdInv, [Next]_vars
  PROVE  SdInv'
<1>1. CASE Next
  <2>1. SdTypes' /\ ReadInv'
    BY <1>1, SdSteps, SdAgreed, TypesStep, ReadStep DEF SdInv
  <2>2. ReadyInv' /\ EndInv'
    BY <1>1, SdSteps, ReadyStep, EndStep DEF SdInv, ReadInv
  <2>. QED  BY <1>1, <2>1, <2>2, SdRequests DEF SdInv
<1>2. CASE UNCHANGED vars
  BY <1>2 DEF vars, SdInv, SdTypes, HardwareInv, DriverInv, CallInv,
     ReadyInv, PhaseInv, ControllerInv, IdentInv, LearntInv, ReadyAfterInit,
     ReadInv, CountInv, PlaceInv, GotInv, Delivered, TransferCommand, BlockMode,
     EndInv, QuietInv, BlkCntInv, LeftInv, TransferEnded, Multiple, Counted
<1>. QED  BY <1>1, <1>2

\* Init establishes SdInv.
LEMMA SdBegin == Init => SdInv
BY TypesBegin, ReadyBegin, ReadBegin, EndBegin DEF Init, SdInv

\* Throughout every execution of callers that read and write only while the last
\* sd_init has succeeded (MayCall), as all theorems about Spec suppose, the
\* driver, the controller and the card stand to each other as SdInv says,
\* whatever fails and whatever is interrupted.
THEOREM SdInvariant == Spec => []SdInv
BY SdBegin, SdStep, PTL DEF Spec

\* Every variable of the driver, the controller and the card keeps its type.
THEOREM SdTypeOK == Spec => []TypeOK
<1>1. SdInv => TypeOK
  BY DEF SdInv, SdTypes, HardwareInv, DriverInv, CallInv, AnyCard, Results, TypeOK
<1>. QED  BY <1>1, SdInvariant, PTL

\* After an sd_init that returned SD_OK the driver and the card agree.
THEOREM InitAgrees == Spec => []ReadyAfterInit
<1>1. SdInv => ReadyAfterInit
  BY DEF SdInv, ReadyInv
<1>. QED  BY <1>1, SdInvariant, PTL

\* A request that succeeds leaves no transfer behind.
THEOREM TransfersEnd == Spec => []TransferEnded
<1>1. SdInv => TransferEnded
  BY DEF SdInv, EndInv
<1>. QED  BY <1>1, SdInvariant, PTL

\* What is stored changes only where, and as, the write that runs asks for.
WriteRequested ==
  \A b \in Blocks : store'[b] # store[b] =>
    /\ pc \in RwSteps /\ call.kind = "write"
    /\ b \in call.lba .. call.lba + call.num - 1
    /\ store'[b] = call.data

\* A step that stores a block stores one of the request, with its data: the place
\* of the transfer in the card is the block whose turn it is (PlaceInv).
LEMMA StoreStep ==
  ASSUME SdTypes, CountInv, PlaceInv, Steps
  PROVE  WriteRequested
<1>. CallInv /\ HardwareInv
  BY DEF SdTypes
<1>1. CASE UNCHANGED store
  BY <1>1 DEF WriteRequested
<1>2. CASE store' # store
  <2>1. WriteData /\ Land
    BY <1>2 DEF Steps, Restarts, StartInit, Asks, StartCall, Interrupted, hw,
       sd_init, Reset, Clock, InitCommand, SendOpCond, SendRelAddr, Clock2, ScrStatus, Scr,
       Words, SetBusWidth, sd_readwrite, Status, SetBlockCnt, StartTransfer, ReadData,
       WriteData, DataDone, StopTrans, ReturnBytes
  <2>2. /\ OnLine("rcv") /\ store' = [store EXCEPT ![card.addr] = call.data]
        /\ pc = "data" /\ pc \in RwSteps /\ call.kind = "write"
    BY <1>2, <2>1, PcNames DEF Land, WriteData
  <2>3. card.addr = call.lba + c /\ c < call.num
    BY <2>2 DEF OnLine, PlaceInv, CountInv
  <2>4. call.lba \in Nat /\ call.num \in Nat /\ c \in Nat
    BY <2>2 DEF CallInv, AnyCall
  <2>5. card.addr \in call.lba .. call.lba + call.num - 1
    BY <2>3, <2>4
  <2>6. store \in [Blocks -> Blocks \cup Data]
    BY DEF HardwareInv
  <2>7. ASSUME NEW b \in Blocks, store'[b] # store[b]
        PROVE  b = card.addr /\ store'[b] = call.data
    BY <2>2, <2>6, <2>7
  <2>. QED  BY <2>2, <2>5, <2>7 DEF WriteRequested
<1>. QED  BY <1>1, <1>2

\* On cards of either kind whose last sd_init succeeded, and for requests of any
\* length, also when they fail or are interrupted, nothing is stored but what the
\* request asks for.
THEOREM OnlyRequestedBlocks == Spec => [][WriteRequested]_vars
<1>1. SdInv /\ [Next]_vars => [WriteRequested]_vars
  BY SdSteps, StoreStep DEF SdInv, ReadInv
<1>. QED  BY <1>1, SdInvariant, PTL DEF Spec

\* Every step keeps WroteInv.
LEMMA WritesKept == Spec => []WroteInv
<1>1. SdInv /\ WroteInv /\ [Next]_vars => WroteInv'
  <2>. SUFFICES ASSUME SdInv, WroteInv, [Next]_vars PROVE WroteInv'
    OBVIOUS
  <2>1. CASE Next
    BY <2>1, SdSteps, SdAgreed, WroteStep DEF SdInv, ReadInv
  <2>2. CASE UNCHANGED vars
    BY <2>2 DEF vars, WroteInv, OneCommand, BlockMode, StoredInv, HeldInv, LastInv, DoneInv
  <2>. QED  BY <2>1, <2>2
<1>. QED  BY <1>1, WroteBegin, SdInvariant, PTL DEF Spec

\* A write that succeeds has stored its last block, on cards of either kind whose
\* last sd_init succeeded; and all of its blocks, when there is one or the card
\* is block-addressed.
THEOREM WritesStore == Spec => []WroteTheBlocks
BY WroteInvWrites, WritesKept, PTL

\* A read that succeeds delivers what is stored, on cards of either kind, also
\* after reads and writes that failed or were interrupted, provided that the last
\* sd_init before it succeeded.  After one that failed it is false of
\* block-addressed cards (the run MCSdMountReinit); MountedReads is about
\* byte-addressed ones.
THEOREM ReadsDeliver == Spec => []ReadsTheBlocks
<1>1. SdInv => ReadsTheBlocks
  BY ReadInvReads DEF SdInv
<1>. QED  BY <1>1, SdInvariant, PTL

-----------------------------------------------------------------------------
(***************************************************************************)
(* Whole writes: the driver implements a store of blocks.                  *)
(***************************************************************************)
\* Cards are block-addressed, or writes are for one block.
WholeWrites == (\A k \in Cards : k.high) \/ WriteNums \subseteq {0, 1}

\* Then a write needs one command, whatever the card.
LEMMA WholeMode ==
  ASSUME WholeWrites, SdInv
  PROVE  OneCommand
<1>1. CASE \A k \in Cards : k.high
  BY <1>1, SdAgreed DEF SdInv, SdTypes, HardwareInv, AnyCard, Agreed, OneCommand
<1>2. CASE WriteNums \subseteq {0, 1}
  <2>1. \A l \in Lbas, n \in WriteNums, d \in Data, a \in BOOLEAN : Write(l, n, d, a).num = 1
    BY <1>2 DEF Write, Length
  <2>2. \A l \in Lbas, n \in ReadNums : Read(l, n).kind # "write"
    BY DEF Read
  <2>3. NoCall.kind # "write"
    BY DEF NoCall
  <2>4. call.kind = "write" => call.num = 1
    BY <2>1, <2>2, <2>3 DEF SdInv, Requests
  <2>. QED  BY <2>4 DEF OneCommand
<1>. QED  BY <1>1, <1>2 DEF WholeWrites

\* The call the abstract store sees
Serving == IF pc \in RwSteps THEN call ELSE NoCall

\* Init is an initial state of the abstract store of blocks.
LEMMA DeviceBegins == Init => Device!Init
<1>. SUFFICES ASSUME Init PROVE Device!Init
  OBVIOUS
<1>1. store = [b \in Blocks |-> b] /\ moved = {} /\ buf = << >> /\ ret = "none" /\ pc = "idle"
  BY DEF Init
<1>2. store \in [Blocks -> Blocks \cup Data]
  BY <1>1
<1>. QED  BY <1>1, <1>2, PcNames DEF Device!Init

\* Each step of the driver is one of the store's, or none.
LEMMA DeviceStep ==
  ASSUME SdInv, StoredInv, Next
  PROVE  Device!Next \/ UNCHANGED Device!vars
<1>. /\ CallInv /\ HardwareInv
     /\ CountInv /\ PlaceInv /\ GotInv
  BY DEF SdInv, SdTypes, ReadInv
<1>i. pc \in RwSteps => pc # "idle"
  BY PhaseNames
<1>q. /\ pc \in RwSteps => /\ call \in AnyCall /\ call # NoCall
                           /\ call.kind \in {"read", "write"}
                           /\ call.lba \in Nat /\ call.num \in Nat \ {0}
      /\ c \in Nat /\ "idle" \notin RwSteps
  <2>1. call \in Requests \/ call = NoCall
    BY DEF SdInv
  <2>2. pc \in RwSteps => call \in AnyCall
    BY DEF CallInv
  <2>3. NoCall \notin AnyCall
    BY DEF NoCall, AnyCall
  <2>. QED  BY <2>1, <2>2, <2>3, PhaseNames DEF AnyCall, CallInv
\* A request that fails, and one that goes on
<1>f. ASSUME pc \in RwSteps, pc' = "idle", ret' \in {"error", "raised"},
             UNCHANGED <<store, moved, buf>>
      PROVE  Device!Next
  BY <1>f, <1>q DEF Device!Next, Device!Fail
<1>g. ASSUME pc \in RwSteps, pc' \in RwSteps,
             UNCHANGED <<store, moved, buf, ret, call>>
      PROVE  UNCHANGED Device!vars
  BY <1>g DEF Device!vars
<1>1. CASE CallInit
  <2>1. /\ pc = "idle" /\ pc' = "reset" /\ UNCHANGED <<store, moved, buf, ret>>
    BY <1>1 DEF CallInit, StartInit, hw
  <2>. QED  BY <2>1, PcNames DEF Device!vars
<1>2. CASE readblocks \/ writeblocks
  <2>1. PICK k \in Requests : pc = "idle" /\ StartCall(k)
    BY <1>2 DEF readblocks, writeblocks, MayCall, Requests
  <2>2. /\ call' = k /\ pc' = "status" /\ buf' = << >> /\ moved' = {}
        /\ UNCHANGED <<store, ret>>
    BY <2>1 DEF StartCall, hw
  <2>3. pc' \in RwSteps /\ pc \notin RwSteps
    BY <2>1, <2>2, PcNames
  <2>. QED  BY <2>2, <2>3 DEF Device!Next, Device!Start
<1>3. CASE sd_init
  <2>1. UNCHANGED <<buf, moved, store, ret>>
    BY <1>3 DEF sd_init, Reset, Clock, InitCommand, SendOpCond, SendRelAddr, Clock2,
                ScrStatus, Scr, Words, SetBusWidth, rwVars, hw
  <2>2. pc' \notin RwSteps /\ pc \notin RwSteps
    BY <1>3, PcNames, FollowingSteps DEF sd_init, Reset, Clock, InitCommand, SendOpCond,
          OpCondAgain, OpCondComplete, SendRelAddr, Clock2, ScrStatus, Scr, Words, Finish,
          SetBusWidth, Then, ReturnInit
  <2>. QED  BY <2>1, <2>2 DEF Device!vars
<1>4. CASE Status \/ SetBlockCnt \/ StartTransfer \/ DataDone \/ StopTrans
  <2>1. UNCHANGED <<buf, call, store, moved>> /\ pc \in RwSteps
    BY <1>4, PcNames DEF Status, SetBlockCnt, StartTransfer, DataDone, StopTrans, Transfers
  <2>2. \/ pc' \in RwSteps /\ UNCHANGED ret
        \/ pc' = "idle" /\ ret' = "error"
    BY <1>4, PcNames, TransferCommands DEF Status, SetBlockCnt, StartTransfer, DataDone,
         StopTrans, AfterBlocks, IntFails, Continue, Return, Transfers
  <2>. QED  BY <1>f, <1>g, <2>1, <2>2
<1>n. NextBlock => pc' \in RwSteps /\ UNCHANGED ret
  BY PcNames, TransferCommands DEF NextBlock, AfterBlocks, Continue, Transfers
<1>5. CASE ReadData
  <2>1. /\ pc = "data" /\ call.kind = "read" /\ pc \in RwSteps
        /\ UNCHANGED <<store, moved, call>>
    BY <1>5, PcNames DEF ReadData
  <2>2. CASE pc' = "idle" /\ ret' = "error" /\ UNCHANGED buf
    BY <1>f, <2>1, <2>2
  <2>3. CASE OnLine("data") /\ buf' = Append(buf, store[card.addr]) /\ NextBlock
    <3>1. card.addr = call.lba + c /\ c < call.num /\ Len(buf) = c
      BY <2>1, <2>3 DEF OnLine, PlaceInv, CountInv, GotInv
    <3>2. buf' = Append(buf, store[call.lba + Len(buf)]) /\ Len(buf) < call.num
      BY <2>3, <3>1
    <3>. QED  BY <1>n, <1>q, <2>1, <2>3, <3>2 DEF Device!Next, Device!Get
  <2>. QED  BY <1>5, <2>2, <2>3 DEF ReadData, Return
<1>6. CASE WriteData
  <2>1. /\ pc = "data" /\ call.kind = "write" /\ pc \in RwSteps
        /\ UNCHANGED <<buf, call>>
    BY <1>6, PcNames DEF WriteData
  <2>2. CASE IntFails /\ UNCHANGED <<store, moved>>
    BY <1>f, <2>1, <2>2 DEF IntFails, Return
  <2>3. CASE Land /\ NextBlock
    <3>1. CASE UNCHANGED <<store, moved>>
      BY <1>g, <1>n, <2>1, <2>3, <3>1
    <3>2. CASE /\ OnLine("rcv") /\ store' = [store EXCEPT ![card.addr] = call.data]
               /\ moved' = moved \cup {card.addr}
      <4>1. card.addr = call.lba + c /\ c < call.num
        BY <2>1, <3>2 DEF OnLine, PlaceInv, CountInv
      <4>2. card.addr \in call.lba .. call.lba + call.num - 1
        BY <1>q, <2>1, <4>1
      <4>. QED  BY <1>n, <1>q, <2>1, <2>3, <3>2, <4>2 DEF Device!Next, Device!Put, Device!Span
    <3>. QED  BY <2>3, <3>1, <3>2 DEF Land
  <2>. QED  BY <1>6, <2>2, <2>3 DEF WriteData
<1>7. CASE ReturnBytes
  <2>1. /\ pc = "return" /\ pc \in RwSteps /\ pc' = "idle" /\ UNCHANGED <<store, moved, buf>>
        /\ ret' \in {"ok", "error"}
    BY <1>7, PcNames DEF ReturnBytes, Return, hw, locals
  <2>2. CASE ret' = "error"
    BY <1>f, <2>1, <2>2
  <2>3. CASE ret' = "ok"
    <3>1. c = call.num
      BY <2>1 DEF CountInv
    <3>2. IF call.kind = "read" THEN Len(buf) = call.num
          ELSE moved = call.lba .. call.lba + call.num - 1
      BY <1>q, <2>1, <3>1 DEF GotInv, StoredInv
    <3>. QED  BY <1>q, <2>1, <2>3, <3>2 DEF Device!Next, Device!Succeed, Device!Span
  <2>. QED  BY <2>1, <2>2, <2>3
<1>8. CASE Interrupted
  <2>1. pc' = "idle" /\ UNCHANGED <<store, moved, buf>>
    BY <1>8 DEF Interrupted, Return, locals
  <2>2. CASE pc \in RwSteps
    BY <1>8, <1>f, <2>1, <2>2 DEF Interrupted, Return
  <2>3. CASE pc \notin RwSteps
    BY <1>8, <1>q, <2>1, <2>3 DEF Interrupted, Return, Device!vars
  <2>. QED  BY <2>2, <2>3
<1>. QED  BY <1>1, <1>2, <1>3, <1>4, <1>5, <1>6, <1>7, <1>8 DEF Next, sd_readwrite

\* On block-addressed cards, and on cards of either kind as long as a block is
\* written at a time, the driver implements BlockDevice for callers that use the
\* card while its last sd_init succeeded (MayCall): a read that succeeds
\* delivers the blocks asked for as they are stored, a write that succeeds has
\* stored all of its own, and no other block ever changes.
THEOREM DeviceImplemented == WholeWrites => (Spec => ImplementsDevice)
<1>. SUFFICES ASSUME WholeWrites PROVE Spec => ImplementsDevice
  OBVIOUS
<1>1. SdInv /\ WroteInv => StoredInv
  BY WholeMode DEF WroteInv
<1>2. SdInv /\ StoredInv /\ [Next]_vars => [Device!Next]_Device!vars
  <2>1. UNCHANGED vars => UNCHANGED Device!vars
    BY DEF vars, Device!vars
  <2>. QED  BY <2>1, DeviceStep
<1>. QED
  BY <1>1, <1>2, SdInvariant, WritesKept, DeviceBegins, PTL DEF Spec, ImplementsDevice, Device!Spec

-----------------------------------------------------------------------------
(***************************************************************************)
(* Errors that nobody clears.                                              *)
(***************************************************************************)
\* No error is flagged, and one that is still to be flagged is waited for.
ErrorInv == ~intErr /\ (lateErr => pc \in {"data", "dataDone"} /\ call.kind = "write")

\* No step but an exception out of a wait leaves an error flagged.
LEMMA ErrorStep ==
  ASSUME SdTypes, CountInv, ErrorInv, OneCommand,
         Restarts \/ Asks \/ sd_init \/ sd_readwrite
  PROVE  ErrorInv'
<1>. CallInv /\ HardwareInv
  BY DEF SdTypes
<1>c. sd_cmd /\ ~lateErr => ~intErr' /\ ~lateErr'
  BY CommandEnds DEF ErrorInv
<1>1. CASE Restarts \/ Asks
  BY <1>1 DEF Restarts, StartInit, Asks, StartCall, hw, ErrorInv
<1>2. CASE sd_init
  <2>1. pc \notin {"data", "dataDone"}
    BY <1>2, PcNames DEF sd_init, Reset, Clock, InitCommand, SendOpCond, SendRelAddr, Clock2,
       ScrStatus, Scr, Words, SetBusWidth
  <2>2. ~lateErr /\ ~intErr
    BY <2>1 DEF ErrorInv
  <2>3. \/ sd_cmd
        \/ UNCHANGED <<lateErr, intErr>>
        \/ lateErr' = FALSE /\ intErr' = FALSE
    BY <1>2 DEF sd_init, Reset, Clock, InitCommand, SendOpCond, SendRelAddr,
       Clock2, ScrStatus, Scr, Words, SetBusWidth, hw
  <2>4. ~lateErr' /\ ~intErr'
    BY <1>c, <2>2, <2>3
  <2>. QED  BY <2>4 DEF ErrorInv
<1>3. CASE Status \/ ReturnBytes \/ ReadData
  BY <1>3 DEF Status, ReturnBytes, ReadData, hw, ErrorInv
<1>4. CASE SetBlockCnt \/ StartTransfer \/ StopTrans
  <2>1. sd_cmd /\ pc \notin {"data", "dataDone"}
    BY <1>4 DEF SetBlockCnt, StartTransfer, StopTrans, Transfers
  <2>. QED  BY <1>c, <2>1 DEF ErrorInv
<1>5. CASE WriteData
  <2>1. /\ UNCHANGED <<intErr, call>> /\ call.kind = "write" /\ pc = "data" /\ pc \in RwSteps
    BY <1>5, PcNames DEF WriteData
  <2>2. CASE IntFails
    BY <2>1, <2>2 DEF IntFails, ErrorInv
  <2>3. CASE NextBlock
    <3>1. c < call.num /\ c \in Nat /\ call.num \in Nat \ {0}
      BY <2>1 DEF CountInv, CallInv, AnyCall
    <3>2. pc' \in {"data", "dataDone"}
      BY <2>1, <2>3, <3>1 DEF NextBlock, Continue, OneCommand
    <3>. QED  BY <2>1, <3>2 DEF ErrorInv
  <2>. QED  BY <1>5, <2>2, <2>3 DEF WriteData
<1>6. CASE DataDone
  BY <1>6 DEF DataDone, IntFails, ErrorInv
<1>. QED  BY <1>1, <1>2, <1>3, <1>4, <1>5, <1>6 DEF sd_readwrite

\* An error of a block that is still to be flagged belongs to a write that goes
\* on, and a request sends its commands and waits for data with no error flagged.
LateInv ==
  /\ lateErr => /\ pc \in {"data", "dataDone", "WRITE_SINGLE"}
                /\ call.kind = "write" /\ c > 0
  /\ pc \in {"SET_BLOCKCNT", "data", "dataDone"} \cup Transfers => ~intErr

\* How an error flag comes to stay
FlagKept ==
  \/ Interrupted
  \/ pc = "WRITE_SINGLE" /\ lateErr /\ c > 0 /\ pc' = "idle" /\ ret' = "error"

Accounted == (pc' = "idle" => ~lateErr') /\ (~intErr /\ intErr' => FlagKept)

\* A command that is refused for the error of the block before is the only one
\* that raises the flag.
LEMMA CommandFlags ==
  ASSUME SdTypes, sd_cmd, lateErr => ~intErr
  PROVE  /\ ~lateErr'
         /\ ~intErr /\ intErr' => lateErr /\ sd_err' # SD_OK
<1>1. /\ sd_err' = SD_OK => ~intErr' /\ ~lateErr'
      /\ lateErr' => lateErr /\ intErr
      /\ ~intErr /\ ~lateErr => ~intErr'
  BY CommandEnds
<1>. QED  BY <1>1

\* No step of the driver, and no call of it, leaves an error unaccounted for.
LEMMA LateStep ==
  ASSUME SdTypes, CountInv, LateInv, Steps
  PROVE  LateInv' /\ Accounted
<1>. CallInv /\ HardwareInv
  BY DEF SdTypes
<1>0. lateErr => ~intErr
  BY PcNames DEF LateInv, Transfers
<1>c. sd_cmd => ~lateErr' /\ (~intErr /\ intErr' => lateErr) /\ (sd_err' = SD_OK => ~intErr')
  BY <1>0, CommandFlags, CommandEnds
<1>1. CASE Restarts \/ Asks
  BY <1>1 DEF Restarts, StartInit, Asks, StartCall, hw, LateInv, Accounted, Transfers
<1>2. CASE sd_init
  <2>1. pc \notin {"data", "dataDone", "WRITE_SINGLE"} /\ pc' \in {"idle"} \cup InitSteps
    BY <1>2, PcNames, FollowingSteps DEF sd_init, Reset, Clock, InitCommand, SendOpCond,
       OpCondAgain, OpCondComplete, SendRelAddr, Clock2, ScrStatus, Scr, Words, SetBusWidth,
       Then, ReturnInit, Finish
  <2>2. ~lateErr
    BY <2>1 DEF LateInv
  <2>3. \/ sd_cmd
        \/ UNCHANGED <<lateErr, intErr>>
        \/ lateErr' = FALSE /\ intErr' = FALSE
    BY <1>2 DEF sd_init, Reset, Clock, InitCommand, SendOpCond, SendRelAddr,
       Clock2, ScrStatus, Scr, Words, SetBusWidth, hw
  <2>4. ~lateErr' /\ (~intErr => ~intErr')
    BY <1>c, <2>2, <2>3
  <2>. QED  BY <2>1, <2>4, PcNames DEF LateInv, Accounted, Transfers
<1>3. CASE Status \/ ReturnBytes \/ ReadData
  <2>1. /\ ~lateErr /\ UNCHANGED <<lateErr, intErr>>
        /\ pc' \notin {"idle", "STOP_TRANS", "return"} => ~intErr
    BY <1>3 DEF Status, ReturnBytes, ReadData, hw, LateInv, Return
  <2>. QED  BY <2>1, PcNames DEF LateInv, Accounted, Transfers
<1>4. CASE SetBlockCnt \/ StartTransfer \/ StopTrans
  <2>1. /\ sd_cmd
        /\ sd_err' # SD_OK /\ pc # "STOP_TRANS" => pc' = "idle" /\ ret' = "error"
        /\ pc = "STOP_TRANS" => pc' = "return"
        /\ pc \in {"SET_BLOCKCNT", "STOP_TRANS"} \cup Transfers
    BY <1>4 DEF SetBlockCnt, StartTransfer, StopTrans, Transfers, Return, Continue
  <2>2. ~lateErr' /\ (~intErr /\ intErr' => lateErr) /\ (sd_err' = SD_OK => ~intErr')
    BY <1>c, <2>1
  <2>3. LateInv'
    BY <2>1, <2>2, PcNames DEF LateInv, Transfers
  <2>4. lateErr => pc = "WRITE_SINGLE" /\ c > 0
    BY <2>1, PcNames DEF LateInv, Transfers
  <2>5. ASSUME ~intErr, intErr' PROVE FlagKept
    BY <2>1, <2>2, <2>4, <2>5 DEF FlagKept
  <2>. QED  BY <2>2, <2>3, <2>5 DEF Accounted
<1>5. CASE WriteData
  <2>1. /\ UNCHANGED <<intErr, call>> /\ call.kind = "write" /\ pc = "data" /\ pc \in RwSteps
    BY <1>5, PcNames DEF WriteData
  <2>2. CASE IntFails
    BY <2>1, <2>2, PcNames DEF IntFails, Return, LateInv, Accounted, Transfers
  <2>3. CASE NextBlock
    <3>1. c' = c + 1 /\ c \in Nat
      BY <2>3 DEF NextBlock, CallInv
    <3>2. pc' \in {"data", "dataDone", "WRITE_SINGLE"}
      BY <2>1, <2>3 DEF NextBlock, Continue, TransferCommand
    <3>3. ~intErr'
      BY <2>1 DEF LateInv
    <3>. QED  BY <2>1, <3>1, <3>2, <3>3 DEF LateInv, Accounted
  <2>. QED  BY <1>5, <2>2, <2>3 DEF WriteData
<1>6. CASE DataDone
  <2>1. pc = "dataDone" /\ intErr' = intErr /\ ~lateErr' /\ ~intErr
    BY <1>6 DEF DataDone, IntFails, LateInv
  <2>. QED  BY <2>1 DEF LateInv, Accounted
<1>7. CASE Interrupted
  <2>1. pc' = "idle" /\ lateErr' = FALSE
    BY <1>7 DEF Interrupted, Return
  <2>. QED  BY <1>7, <2>1, PcNames DEF LateInv, Accounted, FlagKept, Transfers
<1>. QED  BY <1>1, <1>2, <1>3, <1>4, <1>5, <1>6, <1>7 DEF Steps, sd_readwrite

\* Whatever fails and wherever an exception comes from, no call returns while an
\* error is still to be flagged, and a flag stays only in the two known ways.
THEOREM ErrorsTold == Spec => ErrorsAccounted
<1>1. Init => LateInv
  BY PcNames DEF Init, LateInv, Transfers
<1>2. SdInv /\ LateInv /\ [Next]_vars => LateInv' /\ [Accounted]_vars
  <2>. SUFFICES ASSUME SdInv, LateInv, [Next]_vars PROVE LateInv' /\ [Accounted]_vars
    OBVIOUS
  <2>1. CASE Next
    BY <2>1, SdSteps, LateStep DEF SdInv, ReadInv, Steps
  <2>2. CASE UNCHANGED vars
    BY <2>2 DEF vars, LateInv
  <2>. QED  BY <2>1, <2>2
<1>3. [Accounted]_vars
        => [/\ pc' = "idle" => ~lateErr'
            /\ ~intErr /\ intErr'
                 => \/ Interrupted
                    \/ /\ pc = "WRITE_SINGLE" /\ lateErr /\ c > 0
                       /\ pc' = "idle" /\ ret' = "error"]_vars
  BY DEF Accounted, FlagKept
<1>. QED  BY <1>1, <1>2, <1>3, SdInvariant, PTL DEF Spec, ErrorsAccounted

\* As long as a write needs one command and no exception comes out of a wait, a
\* request leaves no error behind for the next one.
THEOREM ErrorsEnd == WholeWrites /\ ~Interruptible => (Spec => []ErrorsSettled)
<1>. SUFFICES ASSUME WholeWrites, ~Interruptible PROVE Spec => []ErrorsSettled
  OBVIOUS
<1>1. Init => ErrorInv
  BY DEF Init, ErrorInv
<1>2. SdInv /\ ErrorInv /\ [Next]_vars => ErrorInv'
  <2>. SUFFICES ASSUME SdInv, ErrorInv, [Next]_vars PROVE ErrorInv'
    OBVIOUS
  <2>1. CASE Next
    <3>1. Restarts \/ Asks \/ sd_init \/ sd_readwrite
      BY <2>1, SdSteps DEF Steps, Interrupted
    <3>. QED  BY <2>1, <3>1, WholeMode, ErrorStep DEF SdInv, ReadInv
  <2>2. CASE UNCHANGED vars
    BY <2>2 DEF vars, ErrorInv
  <2>. QED  BY <2>1, <2>2
<1>3. ErrorInv => ErrorsSettled
  BY DEF ErrorInv, ErrorsSettled
<1>. QED  BY <1>1, <1>2, <1>3, SdInvariant, PTL DEF Spec

-----------------------------------------------------------------------------
(***************************************************************************)
(* The steps of the composition are steps of the driver.                   *)
(***************************************************************************)
Mounts == [name : {"/sd", "/sd2", "/sd3", "/sd4"}, part : Nat]
MountInv ==
  /\ mount = "partition" => pc = "idle"
  /\ part_num \in Nat /\ first_part \in BOOLEAN
  /\ vfs_mount_table \in Seq(Mounts)

\* A request of FatFs: that of f_mount, or one for a mounted file system.
LEMMA MountRequests ==
  /\ Read(0, 1) \in AnyCall /\ Read(0, 1).kind = "read"
  /\ \A l \in Lbas, n \in ReadNums : Read(l, n) \in AnyCall /\ Read(l, n).kind = "read"
  /\ \A l \in Lbas, n \in WriteNums, d \in Data :
       Write(l, n, d, TRUE) \in AnyCall /\ Write(l, n, d, TRUE).data = d
BY CallsAssumption DEF Read, Write, Length, AnyCall

\* Seen from the driver, every step is one of its own or none at all.
LEMMA MountSteps ==
  ASSUME MountInv, MNext
  PROVE  \/ Restarts \/ Asks \/ sd_init \/ sd_readwrite
         \/ UNCHANGED vars
<1>1. CASE TryPartition
  BY <1>1 DEF TryPartition, StartInit, Restarts, MountInv
<1>2. CASE MountReads
  BY <1>2, MountRequests DEF MountReads, Asks
<1>3. CASE UseFile
  BY <1>3, MountRequests DEF UseFile, Asks
<1>. QED
  BY <1>1, <1>2, <1>3 DEF MNext, NoMemory, LoopEnds, MountFails, MountSucceeds

-----------------------------------------------------------------------------
(***************************************************************************)
(* The names.                                                              *)
(***************************************************************************)
\* Until something is mounted the next mount is the first; the first mount has
\* the name and is the current directory, and those after it are of partitions
\* after its own, which the loop has not come to yet.
TableInv ==
  /\ first_part <=> Len(vfs_mount_table) = 0
  /\ ~first_part => vfs_cur = vfs_mount_table[1] /\ vfs_cur.name = "/sd"
  /\ \A k \in 1 .. Len(vfs_mount_table) :
       /\ vfs_mount_table[k].part < part_num
       /\ k > 1 => /\ vfs_mount_table[k].name # "/sd"
                   /\ vfs_mount_table[1].part < vfs_mount_table[k].part

\* Every entry of the mount table names a partition.
LEMMA MountedParts ==
  ASSUME MountInv
  PROVE  \A k \in 1 .. Len(vfs_mount_table) : vfs_mount_table[k].part \in Nat
<1>1. \A k \in 1 .. Len(vfs_mount_table) : vfs_mount_table[k] \in Mounts
  BY ElementOfSeq DEF MountInv
<1>. QED  BY <1>1 DEF Mounts

\* Each step of init_sdcard_fs keeps the mount table in the order of the
\* partitions, the first one first.
LEMMA MountStep ==
  ASSUME MountInv, TableInv, MNext
  PROVE  MountInv' /\ TableInv'
<1>1. CASE MountSucceeds
  <2>. DEFINE m == [name |-> NameOf(part_num), part |-> part_num]
              n == Len(vfs_mount_table)
  <2>1. /\ vfs_mount_table' = Append(vfs_mount_table, m) /\ first_part' = FALSE
        /\ vfs_cur' = (IF first_part THEN m ELSE vfs_cur)
        /\ part_num' = part_num + 1 /\ pc = "idle" /\ UNCHANGED pc
    BY <1>1 DEF MountSucceeds, Mounted, NextPartition, vars
  <2>2. /\ m \in Mounts /\ m.part = part_num
        /\ first_part => m.name = "/sd"
        /\ ~first_part => m.name # "/sd"
    <3>1. /\ NameOf(part_num) \in {"/sd", "/sd2", "/sd3", "/sd4"}
          /\ first_part <=> NameOf(part_num) = "/sd"
      BY DEF NameOf
    <3>2. part_num \in Nat
      BY DEF MountInv
    <3>. QED  BY <3>1, <3>2 DEF Mounts
  <2>. HIDE DEF m
  <2>3. /\ vfs_mount_table' \in Seq(Mounts) /\ Len(vfs_mount_table') = n + 1 /\ n \in Nat
        /\ \A k \in 1 .. n : vfs_mount_table'[k] = vfs_mount_table[k]
        /\ vfs_mount_table'[n + 1] = m
    BY <2>1, <2>2, OneMore, LenProperties DEF MountInv
  <2>4. part_num \in Nat /\ (first_part <=> n = 0)
    BY DEF MountInv, TableInv
  <2>. HIDE DEF n
  <2>5. MountInv'
    <3>1. first_part' \in BOOLEAN
      BY <2>1, Zenon
    <3>2. part_num' \in Nat
      BY <2>1, <2>4
    <3>. QED  BY <2>1, <2>3, <3>1, <3>2 DEF MountInv
  <2>6. vfs_cur' = vfs_mount_table'[1] /\ vfs_cur'.name = "/sd"
    <3>1. CASE first_part
      BY <2>1, <2>2, <2>3, <2>4, <3>1
    <3>2. CASE ~first_part
      <4>1. 1 \in 1 .. n
        BY <2>3, <2>4, <3>2
      <4>. QED  BY <2>1, <2>3, <3>2, <4>1 DEF TableInv
    <3>. QED  BY <3>1, <3>2
  <2>7. ASSUME NEW k \in 1 .. n + 1
        PROVE  /\ vfs_mount_table'[k].part < part_num'
               /\ k > 1 => /\ vfs_mount_table'[k].name # "/sd"
                           /\ vfs_mount_table'[1].part < vfs_mount_table'[k].part
    <3>1. CASE k = n + 1
      <4>1. k > 1 => 1 \in 1 .. n /\ ~first_part
        BY <2>3, <2>4, <3>1
      <4>. QED  BY <2>1, <2>2, <2>3, <2>4, <3>1, <4>1 DEF TableInv, n
    <3>2. CASE k # n + 1
      <4>1. k \in 1 .. n /\ (k > 1 => 1 \in 1 .. n)
        BY <2>3, <3>2
      <4>2. vfs_mount_table[k].part \in Nat
        BY <4>1, MountedParts DEF n
      <4>3. /\ vfs_mount_table[k].part < part_num
            /\ k > 1 => /\ vfs_mount_table[k].name # "/sd"
                        /\ vfs_mount_table[1].part < vfs_mount_table[k].part
        BY <4>1 DEF TableInv, n
      <4>4. /\ vfs_mount_table'[k] = vfs_mount_table[k]
            /\ k > 1 => vfs_mount_table'[1] = vfs_mount_table[1]
        BY <2>3, <4>1
      <4>5. vfs_mount_table[k].part < part_num'
        BY <2>1, <2>4, <4>2, <4>3
      <4>. QED  BY <4>3, <4>4, <4>5
    <3>. QED  BY <3>1, <3>2
  <2>. QED  BY <2>1, <2>3, <2>5, <2>6, <2>7 DEF TableInv
<1>2. CASE MountFails
  <2>1. /\ UNCHANGED <<first_part, vfs_mount_table, vfs_cur, pc>> /\ pc = "idle"
        /\ part_num' = part_num + 1
    BY <1>2 DEF MountFails, NextPartition, tableVars, vars
  <2>2. \A k \in 1 .. Len(vfs_mount_table) : vfs_mount_table[k].part \in Nat
    BY MountedParts
  <2>3. part_num' \in Nat /\ \A p \in Nat : p < part_num => p < part_num'
    BY <2>1 DEF MountInv
  <2>4. MountInv'
    BY <2>1, <2>3 DEF MountInv
  <2>5. TableInv'
    BY <2>1, <2>2, <2>3 DEF TableInv
  <2>. QED  BY <2>4, <2>5
<1>3. CASE \/ TryPartition \/ NoMemory \/ LoopEnds \/ MountReads \/ UseFile
           \/ (sd_init \/ sd_readwrite) /\ UNCHANGED mountVars
  <2>1. UNCHANGED <<first_part, vfs_mount_table, vfs_cur, part_num>>
    BY <1>3 DEF TryPartition, NoMemory, LoopEnds, MountReads, UseFile, mountVars, loopVars,
                tableVars
  <2>2. mount' = "partition" => mount = "partition" /\ (sd_init \/ sd_readwrite)
    BY <1>3 DEF TryPartition, NoMemory, LoopEnds, MountReads, UseFile, mountVars
  <2>3. sd_init \/ sd_readwrite => pc # "idle"
    BY PcNames DEF sd_init, Reset, Clock, InitCommand, SendOpCond, SendRelAddr, Clock2,
       ScrStatus, Scr, Words, SetBusWidth, sd_readwrite, Status, SetBlockCnt, StartTransfer,
       ReadData, WriteData, DataDone, StopTrans, ReturnBytes, Transfers
  <2>. QED  BY <2>1, <2>2, <2>3 DEF MountInv, TableInv
<1>. QED  BY <1>1, <1>2, <1>3 DEF MNext

\* Before init_sdcard_fs nothing is mounted and the driver has made no call.
LEMMA MountBegin == MInit => MountInv /\ TableInv /\ SdTypes /\ ReadInv
<1>. SUFFICES ASSUME MInit PROVE MountInv /\ TableInv /\ SdTypes /\ ReadInv
  OBVIOUS
<1>1. /\ Init /\ pc = "idle" /\ part_num = 1 /\ first_part = TRUE
      /\ vfs_mount_table = << >>
  BY DEF MInit, Init
<1>2. MountInv
  BY <1>1, EmptySeq DEF MountInv
<1>3. TableInv
  BY <1>1, EmptySeq DEF TableInv
<1>. QED  BY <1>1, <1>2, <1>3, TypesBegin, ReadBegin

\* Every step of the mount, of the driver and of the file systems keeps the
\* table and the types.
LEMMA MountKept ==
  ASSUME MountInv, TableInv, SdTypes, [MNext]_<<vars, mountVars>>
  PROVE  MountInv' /\ TableInv' /\ SdTypes'
<1>1. CASE MNext
  <2>1. CASE UNCHANGED vars
    BY <1>1, <2>1, MountStep DEF vars, SdTypes, HardwareInv, DriverInv, CallInv
  <2>2. CASE ~UNCHANGED vars
    BY <1>1, <2>2, MountStep, MountSteps, TypesStep DEF Steps
  <2>. QED  BY <2>1, <2>2
<1>2. CASE UNCHANGED <<vars, mountVars>>
  BY <1>2 DEF vars, mountVars, MountInv, TableInv, SdTypes, HardwareInv, DriverInv, CallInv
<1>. QED  BY <1>1, <1>2

\* Whatever fails, the first partition that was mounted, and no other, is "/sd",
\* and it is the current directory.
THEOREM FirstMountIsSd == MSpec => []FirstIsSd
<1>1. MInit => MountInv /\ TableInv /\ SdTypes
  BY MountBegin
<1>2. MountInv /\ TableInv /\ SdTypes /\ [MNext]_<<vars, mountVars>>
        => (MountInv /\ TableInv /\ SdTypes)'
  BY MountKept
<1>3. MountInv /\ TableInv => FirstIsSd
  <2>. SUFFICES ASSUME MountInv, TableInv, NEW k \in 1 .. Len(vfs_mount_table)
                PROVE  /\ vfs_mount_table[k].name = "/sd" <=> vfs_mount_table[k] = vfs_cur
                       /\ vfs_mount_table[k] # vfs_cur => vfs_cur.part < vfs_mount_table[k].part
    BY DEF FirstIsSd
  <2>1. ~first_part /\ (k = 1 \/ k > 1)
    BY LenProperties DEF TableInv, MountInv
  <2>. QED  BY <2>1 DEF TableInv
<1>. QED  BY <1>1, <1>2, <1>3, PTL DEF MSpec

-----------------------------------------------------------------------------
(***************************************************************************)
(* Byte-addressed cards.                                                   *)
(***************************************************************************)
LowCards == \A k \in Cards : ~k.high /\ "CCS" \notin k.scr

\* The driver never takes such a card for a block-addressed one, not even when
\* an initialisation has stopped half-way (sd_scr as it came from the card).
LowInv == ~ccs /\ "CCS" \notin sd_scr

\* With byte-addressed cards only, the driver never takes the card for a block-
\* addressed one.
LEMMA LowStep ==
  ASSUME LowCards, SdTypes, LowInv, Restarts \/ Asks \/ sd_init \/ sd_readwrite
  PROVE  LowInv'
<1>1. ~card.kind.high /\ "CCS" \notin card.kind.scr
  BY DEF LowCards, SdTypes, HardwareInv, AnyCard
<1>2. CASE Restarts \/ Asks
  BY <1>2 DEF Restarts, StartInit, Asks, StartCall, driver, LowInv
<1>3. CASE sd_readwrite
  <2>1. UNCHANGED <<ccs, sd_scr>>
    BY <1>3 DEF sd_readwrite, Status, SetBlockCnt, StartTransfer, ReadData, WriteData,
       DataDone, StopTrans, ReturnBytes, initVars, driver, locals
  <2>. QED  BY <2>1 DEF LowInv
<1>4. CASE sd_init
  <2>1. ccs' \in {ccs, FALSE, card.kind.high}
    BY <1>4 DEF sd_init, Reset, Clock, InitCommand, SendOpCond, OpCondAgain, OpCondComplete,
       SendRelAddr, Clock2, ScrStatus, Scr, Words, SetBusWidth
  <2>2. Finish => "CCS" \notin sd_scr'
    BY DEF Finish, LowInv
  <2>3. "CCS" \notin sd_scr'
    BY <1>1, <1>4, <2>2 DEF sd_init, Reset, Clock, InitCommand, SendOpCond, SendRelAddr, Clock2,
       ScrStatus, Scr, Words, SetBusWidth, driver, LowInv
  <2>4. ~ccs'
    BY <1>1, <2>1 DEF LowInv
  <2>. QED  BY <2>3, <2>4 DEF LowInv
<1>. QED  BY <1>2, <1>3, <1>4

\* With byte-addressed cards only, driver and card always agree on the
\* addressing, after a failed initialisation too.
LEMMA LowAgreed ==
  ASSUME LowCards, SdTypes, LowInv
  PROVE  Agreed
BY DEF LowCards, SdTypes, HardwareInv, AnyCard, LowInv, Agreed, BlockMode

LowMountInv == MountInv /\ TableInv /\ SdTypes /\ ReadInv /\ WroteInv /\ LowInv

\* On a byte-addressed card a file system's requests are at the blocks they ask
\* for, whatever has become of an initialisation for another partition.
LEMMA LowMounted ==
  ASSUME LowCards
  PROVE  MSpec => []LowMountInv
<1>1. MInit => LowMountInv
  BY MountBegin, WroteBegin DEF MInit, Init, LowInv, LowMountInv
<1>2. LowMountInv /\ [MNext]_<<vars, mountVars>> => LowMountInv'
  <2>. SUFFICES ASSUME LowMountInv, [MNext]_<<vars, mountVars>> PROVE LowMountInv'
    OBVIOUS
  <2>. MountInv /\ TableInv /\ SdTypes /\ ReadInv /\ WroteInv /\ LowInv
    BY DEF LowMountInv
  <2>1. MountInv' /\ TableInv' /\ SdTypes'
    BY MountKept
  <2>2. CASE UNCHANGED vars
    BY <2>1, <2>2 DEF vars, ReadInv, CountInv, PlaceInv, GotInv, Delivered, TransferCommand,
       BlockMode, WroteInv, OneCommand, StoredInv, HeldInv, LastInv, DoneInv, LowInv, LowMountInv
  <2>3. CASE ~UNCHANGED vars
    <3>1. Restarts \/ Asks \/ sd_init \/ sd_readwrite
      BY <2>3, MountSteps
    <3>2. ReadInv' /\ WroteInv' /\ LowInv'
      BY <3>1, LowAgreed, ReadStep, WroteStep, LowStep DEF Steps, ReadInv
    <3>. QED  BY <2>1, <3>2 DEF LowMountInv
  <2>. QED  BY <2>2, <2>3
<1>. QED  BY <1>1, <1>2, PTL DEF MSpec

\* A file system on a byte-addressed card reads what is stored, also when it
\* uses the card after an initialisation for another partition has failed.
THEOREM MountedReads == LowCards => (MSpec => []ReadsTheBlocks)
<1>. SUFFICES ASSUME LowCards PROVE MSpec => []ReadsTheBlocks
  OBVIOUS
<1>1. LowMountInv => ReadsTheBlocks
  BY ReadInvReads DEF LowMountInv
<1>. QED  BY <1>1, LowMounted, PTL

\* A write of it that succeeds has stored its last block, and a write of one block
\* that one.
THEOREM MountedWrites == LowCards => (MSpec => []WroteTheBlocks)
<1>. SUFFICES ASSUME LowCards PROVE MSpec => []WroteTheBlocks
  OBVIOUS
<1>1. LowMountInv => WroteTheBlocks
  BY WroteInvWrites DEF LowMountInv
<1>. QED  BY <1>1, LowMounted, PTL

\* And it stores nothing but what it was asked to store.
THEOREM MountedStores == LowCards => (MSpec => [][WriteRequested]_vars)
<1>. SUFFICES ASSUME LowCards PROVE MSpec => [][WriteRequested]_vars
  OBVIOUS
<1>1. LowMountInv /\ [MNext]_<<vars, mountVars>> => [WriteRequested]_vars
  <2>. SUFFICES ASSUME LowMountInv, MNext, ~UNCHANGED vars PROVE WriteRequested
    BY DEF vars
  <2>1. Restarts \/ Asks \/ sd_init \/ sd_readwrite
    BY MountSteps DEF LowMountInv
  <2>. QED  BY <2>1, StoreStep DEF LowMountInv, ReadInv, Steps
<1>. QED  BY <1>1, LowMounted, PTL DEF MSpec

-----------------------------------------------------------------------------
(***************************************************************************)
(* Errors that nobody clears.                                              *)
(***************************************************************************)
\* In the start-up and for the mounted file systems too, which use the card
\* whatever sd_init has returned, no call returns while an error is still to be
\* flagged, and a flag stays only after a write of several blocks has failed.
THEOREM MountErrorsTold == MSpec => ErrorsAccounted
<1>. DEFINE Inv == MountInv /\ TableInv /\ SdTypes /\ CountInv /\ LateInv
<1>1. MInit => Inv
  BY MountBegin, PcNames DEF MInit, Init, LateInv, ReadInv, Transfers
<1>2. Inv /\ [MNext]_<<vars, mountVars>> => Inv' /\ [Accounted]_vars
  <2>. SUFFICES ASSUME Inv, [MNext]_<<vars, mountVars>> PROVE Inv' /\ [Accounted]_vars
    OBVIOUS
  <2>1. MountInv' /\ TableInv' /\ SdTypes'
    BY MountKept
  <2>2. CASE UNCHANGED vars
    BY <2>1, <2>2 DEF vars, CountInv, TransferCommand, BlockMode, LateInv
  <2>3. CASE ~UNCHANGED vars
    <3>1. Steps
      BY <2>3, MountSteps DEF Steps
    <3>. QED  BY <2>1, <3>1, CountStep, LateStep
  <2>. QED  BY <2>2, <2>3
<1>3. [Accounted]_vars
        => [/\ pc' = "idle" => ~lateErr'
            /\ ~intErr /\ intErr'
                 => \/ Interrupted
                    \/ /\ pc = "WRITE_SINGLE" /\ lateErr /\ c > 0
                       /\ pc' = "idle" /\ ret' = "error"]_vars
  BY DEF Accounted, FlagKept
<1>. QED  BY <1>1, <1>2, <1>3, PTL DEF MSpec, ErrorsAccounted

\* Requests to write are for one block.
OnceInv == call.kind = "write" => call.num = 1

\* As long as FatFs writes a block at a time, no request and no initialisation
\* leaves an error behind that sd_status would charge the next one with.
THEOREM MountedErrors == WriteNums \subseteq {0, 1} => (MSpec => []ErrorsSettled)
<1>. SUFFICES ASSUME WriteNums \subseteq {0, 1} PROVE MSpec => []ErrorsSettled
  OBVIOUS
<1>. DEFINE Inv == MountInv /\ TableInv /\ SdTypes /\ CountInv /\ OnceInv /\ ErrorInv
<1>1. MInit => Inv
  BY MountBegin DEF MInit, Init, OnceInv, ErrorInv, ReadInv, NoCall
<1>2. Inv /\ [MNext]_<<vars, mountVars>> => Inv'
  <2>. SUFFICES ASSUME Inv, [MNext]_<<vars, mountVars>> PROVE Inv'
    OBVIOUS
  <2>1. MountInv' /\ TableInv' /\ SdTypes'
    BY MountKept
  <2>2. CASE UNCHANGED vars
    BY <2>1, <2>2 DEF vars, CountInv, TransferCommand, BlockMode, OnceInv, ErrorInv
  <2>3. CASE ~UNCHANGED vars
    <3>1. Restarts \/ Asks \/ sd_init \/ sd_readwrite
      BY <2>3, MountSteps
    <3>2. CountInv' /\ ErrorInv'
      BY <3>1, CountStep, ErrorStep DEF Steps, OnceInv, OneCommand
    <3>3. OnceInv'
      <4>1. CASE MountReads \/ UseFile
        <5>1. \/ call'.kind = "read"
              \/ \E l \in Lbas, n \in WriteNums, d \in Data : call' = Write(l, n, d, TRUE)
          <6>1. MountReads => call' = Read(0, 1)
            BY DEF MountReads, StartCall
          <6>2. UseFile =>
                  \/ \E l \in Lbas, n \in ReadNums : call' = Read(l, n)
                  \/ \E l \in Lbas, n \in WriteNums, d \in Data : call' = Write(l, n, d, TRUE)
            BY DEF UseFile, StartCall
          <6>. QED  BY <4>1, <6>1, <6>2, MountRequests
        <5>2. \A l \in Lbas, n \in WriteNums, d \in Data : Write(l, n, d, TRUE).num = 1
          <6>1. \A n \in WriteNums : Length(n) = 1
            BY DEF Length
          <6>. QED  BY <6>1 DEF Write
        <5>3. call'.kind = "read" \/ call'.num = 1
          BY <5>1, <5>2, Zenon
        <5>. QED  BY <5>3 DEF OnceInv
      <4>2. CASE ~MountReads /\ ~UseFile
        <5>1. UNCHANGED call
          BY <2>3, <4>2 DEF MNext, TryPartition, NoMemory, LoopEnds, MountFails, MountSucceeds,
            sd_init, Reset, Clock, InitCommand, SendOpCond, SendRelAddr, Clock2,
            ScrStatus, Scr, Words, SetBusWidth, rwVars, sd_readwrite, Status, SetBlockCnt,
            StartTransfer, ReadData, WriteData, DataDone, StopTrans, ReturnBytes, locals, vars
        <5>. QED  BY <5>1 DEF OnceInv
      <4>. QED  BY <4>1, <4>2
    <3>. QED  BY <2>1, <3>2, <3>3
  <2>. QED  BY <2>2, <2>3
<1>3. Inv => ErrorsSettled
  BY DEF ErrorInv, ErrorsSettled
<1>. QED  BY <1>1, <1>2, <1>3, PTL DEF MSpec
=============================================================================
