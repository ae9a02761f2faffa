--------------------------------- MODULE I2c ---------------------------------
(***************************************************************************)
(* The I2C driver (i2c.c) behind machine.I2C (machine_i2c.c), and the      *)
(* controller it polls (BSC).                                              *)
(*                                                                         *)
(* Every access of the driver to the status register S is a step of its    *)
(* own, and the controller moves between them.  Bytes are known by the     *)
(* call they belong to and by the number of bytes still to come, so that   *)
(* a byte that is lost, repeated or left over from another call shows.     *)
(*                                                                         *)
(* The controller is modelled from what the driver relies on: writing ST   *)
(* starts a transfer, which shows in TA a little later, or restarts the    *)
(* one that is active; DONE comes with                                     *)
(* the stop, after DLEN bytes or once CLEAR has emptied the FIFO of an     *)
(* active write (the comment at i2c.c:23-33); a slave that does not answer *)
(* ends the transfer with ERR or CLKT and leaves the bytes in the FIFO,    *)
(* which is why machine_i2c.c clears it after an error; DONE does not come *)
(* with an error, or the driver, which tests the two one after the other,  *)
(* could miss the error.  The address register is read when the transfer   *)
(* begins.                                                                 *)
(***************************************************************************)
EXTENDS Integers, Sequences

CONSTANTS
  Addrs, Slaves,   \* the addresses a script may use; those that answer
  FifoSize,        \* bytes in the controller's FIFO (16)
  MaxLen,          \* the longest buffer
  Prompt,          \* no interrupt holds up the driver for a byte's time
  Careful          \* scripts do not do what would hang the bus: see Settled

ASSUME BusAssumption ==
  /\ Slaves \subseteq Addrs
  /\ FifoSize \in Nat \ {0} /\ MaxLen \in Nat \ {0}
  /\ Prompt \in BOOLEAN /\ Careful \in BOOLEAN

VARIABLES
  S,           \* the latched bits of the status register
  FIFO, DLEN, A,
  READ, ST,    \* bits of the control register; ST until the start is made
  bus, to,     \* what the transfer is at, and the slave it goes to
  stopping,    \* the FIFO of an active write was cleared: a stop follows
  pc, cur,     \* the driver's place, and the call it serves
  len, continued, ret,   \* i2c_write's and i2c_read's locals and result
  op, todo,    \* the method of machine.I2C, the driver calls it has left
  toScan, found,
  turn, owed, got   \* history: see below

\* The bytes that i2c_write has accepted and no slave has seen, in order, each
\* with its slave; the bytes that i2c_read has stored.  turn tells one call's
\* bytes from the next one's.
history == <<turn, owed, got>>
regs    == <<S, FIFO, DLEN, A, READ, ST>>
wires   == <<bus, to, stopping>>
locals  == <<len, continued, ret>>
script  == <<op, todo, toScan, found>>
vars    == <<regs, wires, pc, cur, locals, script, history>>

Latched == {"DONE", "ERR", "CLKT"}
Endless == MaxLen + 1   \* stands for a DLEN of 0xffff: never used up

Start     == [f |-> "start", n |-> 0, stop |-> FALSE]
Write(n, stop) == [f |-> "write", n |-> n, stop |-> stop]
Read(n)   == [f |-> "read", n |-> n, stop |-> TRUE]

\* The n bytes of a call's buffer, or of a slave's answer.
Whole(t, n) == [i \in 1 .. n |-> <<t, n + 1 - i>>]

TXE == FIFO = << >>
TXD == Len(FIFO) < FifoSize
RXD == FIFO # << >>
Failed == S \cap {"ERR", "CLKT"} # {}
Active == "TA" \in S
WriteActive == Active /\ ~READ

Init ==
  /\ S = {} /\ FIFO = << >> /\ DLEN = 0 /\ A \in Addrs /\ READ = FALSE
  /\ ST = FALSE /\ bus = "free" /\ to = A /\ stopping = FALSE
  /\ pc = "script" /\ cur = Read(0)
  /\ len = 0 /\ continued = FALSE /\ ret = 0
  /\ op = "none" /\ todo = << >> /\ toScan = {} /\ found = {}
  /\ turn = 0 /\ owed = << >> /\ got = << >>

-----------------------------------------------------------------------------
(***************************************************************************)
(* The controller.                                                         *)
(***************************************************************************)
\* The driver polls and nothing it polls for is there, or no call is being
\* served: where it is found by whatever takes as long as a byte on the bus.
Polling ==
  \/ pc = "script"
  \/ pc = "abort" /\ ~TXE
  \/ pc = "started" /\ ~Active
  \/ pc \in {"wErr", "wDone", "wFill"}
       /\ ~Failed /\ ~(cur.stop /\ "DONE" \in S)
       /\ IF len = 0 THEN cur.stop /\ ~continued ELSE ~TXD
  \/ pc = "ended" /\ "DONE" \notin S
  \/ pc \in {"rErr", "rDone", "rData"} /\ ~Failed /\ "DONE" \notin S /\ ~RXD
  \/ pc = "busy" /\ Active /\ "DONE" \notin S

BusTime == ~ST /\ (Prompt => Polling)

Begin ==
  /\ ST
  /\ ST' = FALSE
  /\ S' = S \cup {"TA"}
  /\ bus' = "address" /\ to' = A /\ stopping' = FALSE
  /\ UNCHANGED <<FIFO, DLEN, A, READ, pc, cur, locals, script, history>>

Answer ==
  /\ BusTime /\ bus = "address" /\ to \in Slaves
  /\ bus' = "data"
  /\ UNCHANGED <<regs, to, stopping, pc, cur, locals, script, history>>

NoAnswer ==
  /\ BusTime /\ bus = "address" /\ to \notin Slaves
  /\ \E e \in {"ERR", "CLKT"} : S' = (S \ {"TA"}) \cup {e}
  /\ bus' = "free" /\ stopping' = FALSE
  /\ UNCHANGED <<FIFO, DLEN, A, READ, ST, to, pc, cur, locals, script, history>>

Moved == DLEN' = IF DLEN = Endless THEN DLEN ELSE DLEN - 1

Transmit ==
  /\ BusTime /\ bus = "data" /\ ~READ /\ ~stopping
  /\ DLEN # 0 /\ FIFO # << >>
  /\ FIFO' = Tail(FIFO) /\ Moved
  /\ owed' = IF owed = << >> THEN owed ELSE Tail(owed)
  /\ UNCHANGED <<S, A, READ, ST, wires, pc, cur, locals, script, turn, got>>

Receive ==
  /\ BusTime /\ bus = "data" /\ READ
  /\ DLEN # 0 /\ Len(FIFO) < FifoSize
  /\ FIFO' = Append(FIFO, <<turn, DLEN>>) /\ Moved
  /\ UNCHANGED <<S, A, READ, ST, wires, pc, cur, locals, script, history>>

\* The stop condition.
Finish ==
  /\ BusTime /\ bus = "data" /\ (DLEN = 0 \/ stopping)
  /\ S' = (S \ {"TA"}) \cup {"DONE"}
  /\ bus' = "free" /\ stopping' = FALSE
  /\ UNCHANGED <<FIFO, DLEN, A, READ, ST, to, pc, cur, locals, script, history>>

Controller ==
  \/ Begin \/ Answer \/ NoAnswer \/ Transmit \/ Receive \/ Finish

-----------------------------------------------------------------------------
(***************************************************************************)
(* Pieces of the driver.                                                   *)
(***************************************************************************)
\* S |= ...: writing a latched bit back clears it, so that every bit that was
\* set goes, whichever ones are named.
ClearFlags == S' = S \ Latched

\* C |= C_CLEAR
ClearFifo == FIFO' = << >> /\ stopping' = WriteActive

Goto(place) == pc' = place

Return(r) == ret' = r /\ Goto("back")

\* Steps that change nothing else.
Step(place) == Goto(place) /\ UNCHANGED <<regs, wires, cur, locals, script, history>>

Returns(r) ==
  Return(r) /\ UNCHANGED <<regs, wires, cur, len, continued, script, history>>

\* C |= C_ST
SetStart ==
  /\ ST' = ~Active
  /\ IF Active THEN bus' = "address" /\ to' = A /\ stopping' = FALSE
     ELSE UNCHANGED wires

\* The call that comes next, and where its function begins.
Entry == [start |-> "wsCheck", write |-> "wCheck", read |-> "rCheck"]

Call(call, a) ==
  /\ Goto(Entry[call.f])
  /\ cur' = call /\ len' = call.n /\ continued' = FALSE
  /\ UNCHANGED ret
  /\ IF call.f = "start" THEN UNCHANGED history
     ELSE /\ turn' = 1 - turn
          /\ got' = << >>
          /\ IF call.f = "read" THEN UNCHANGED owed
             ELSE owed' = owed \o [i \in 1 .. call.n |->
                                     [to |-> a, byte |-> Whole(1 - turn, call.n)[i]]]

-----------------------------------------------------------------------------
(***************************************************************************)
(* i2c_write_start, i2c_write and i2c_read: first what they have alike.    *)
(***************************************************************************)
Checks ==
  /\ pc \in {"wsCheck", "rCheck"}
  /\ Step(IF WriteActive THEN "abort" ELSE "flags")

\* i2c_abort_write
After == [start |-> "flags", write |-> "ended", read |-> "rStart"]

\* Wrong on purpose: does not wait for TXE.
AbortWaits_AtOnce == pc = "abort" /\ Step("clear")

AbortWaits == pc = "abort" /\ TXE /\ Step("clear")

AbortClears ==
  /\ pc = "clear"
  /\ ClearFifo
  /\ Goto(After[cur.f])
  /\ UNCHANGED <<S, DLEN, A, READ, ST, bus, to, cur, locals, script, history>>

Starting == [start |-> "wsStart", write |-> "wPreload", read |-> "rStart"]

\* Wrong on purpose: the flags of the call before stay.
Flags_Keep ==
  /\ pc = "flags"
  /\ READ' = (READ /\ cur.f = "read")
  /\ Goto(Starting[cur.f])
  /\ UNCHANGED <<S, FIFO, DLEN, A, ST, wires, cur, locals, script, history>>

Flags ==
  /\ pc = "flags"
  /\ ClearFlags
  /\ READ' = (READ /\ cur.f = "read")
  /\ Goto(Starting[cur.f])
  /\ UNCHANGED <<FIFO, DLEN, A, ST, wires, cur, locals, script, history>>

\* Wrong on purpose: a timeout is not reported.
Result_NoTimeout ==
  /\ pc = "result"
  /\ ClearFlags
  /\ Return(IF "ERR" \in S THEN -1 ELSE 0)
  /\ owed' = << >>
  /\ UNCHANGED <<FIFO, DLEN, A, READ, ST, wires, cur, len, continued, script,
                 turn, got>>

\* i2c_result, where an error was seen
Result ==
  /\ pc = "result"
  /\ ClearFlags
  /\ Return(IF "ERR" \in S THEN -1 ELSE -2)
  /\ owed' = << >>
  /\ UNCHANGED <<FIFO, DLEN, A, READ, ST, wires, cur, len, continued, script,
                 turn, got>>

StartStarts ==
  /\ pc = "wsStart"
  /\ DLEN' = Endless /\ SetStart
  /\ Return(0)
  /\ UNCHANGED <<S, FIFO, A, READ, cur, len, continued, script, history>>

(***************************************************************************)
(* i2c_write                                                               *)
(***************************************************************************)
WriteChecks ==
  /\ pc = "wCheck"
  /\ continued' = WriteActive
  /\ Goto(IF WriteActive THEN "wErr" ELSE "flags")
  /\ UNCHANGED <<regs, wires, cur, len, ret, script, history>>

\* Wrong on purpose: does not look at TXD.
Push_NoRoom ==
  /\ pc \in {"wPreload", "wFill"} /\ len # 0
  /\ FIFO' = Append(FIFO, <<turn, len>>) /\ len' = len - 1
  /\ UNCHANGED <<S, DLEN, A, READ, ST, wires, pc, cur, continued, ret, script,
                 history>>

\* One turn of the loops that fill the FIFO, lines 88-91 and 121-124.
Push ==
  /\ pc \in {"wPreload", "wFill"} /\ TXD /\ len # 0
  /\ FIFO' = Append(FIFO, <<turn, len>>) /\ len' = len - 1
  /\ UNCHANGED <<S, DLEN, A, READ, ST, wires, pc, cur, continued, ret, script,
                 history>>

WriteStarts ==
  /\ pc = "wPreload" /\ ~(TXD /\ len # 0)
  /\ DLEN' = (IF cur.stop THEN cur.n ELSE Endless) /\ SetStart
  /\ Goto("started")
  /\ UNCHANGED <<S, FIFO, A, READ, cur, locals, script, history>>

WriteStarted == pc = "started" /\ Active /\ Step("wErr")

\* Wrong on purpose: errors are not looked for.
WriteErr_NoTest ==
  /\ pc = "wErr"
  /\ \/ cur.stop /\ Step("wDone")
     \/ ~cur.stop /\ len = 0 /\ Returns(cur.n)
     \/ ~cur.stop /\ len # 0 /\ Step("wFill")

\* An error, or all is in the FIFO and no stop is asked for.
WriteErr ==
  /\ pc = "wErr"
  /\ \/ Failed /\ Step("result")
     \/ ~Failed /\ cur.stop /\ Step("wDone")
     \/ ~Failed /\ ~cur.stop /\ len = 0 /\ Returns(cur.n)
     \/ ~Failed /\ ~cur.stop /\ len # 0 /\ Step("wFill")

\* The second look at S, and the stop of a transfer that was continued.
WriteDone ==
  /\ pc = "wDone"
  /\ \/ "DONE" \in S /\ Returns(cur.n - len)
     \/ "DONE" \notin S /\ continued /\ len = 0 /\ Step("abort")
     \/ "DONE" \notin S /\ ~(continued /\ len = 0) /\ Step("wFill")

WriteFilled == pc = "wFill" /\ ~(TXD /\ len # 0) /\ Step("wErr")

\* Wrong on purpose: does not wait for the stop.
WriteEnded_AtOnce == pc = "ended" /\ Returns(cur.n)

WriteEnded == pc = "ended" /\ "DONE" \in S /\ Returns(cur.n)

(***************************************************************************)
(* i2c_read                                                                *)
(***************************************************************************)
ReadStarts ==
  /\ pc = "rStart"
  /\ DLEN' = cur.n /\ READ' = TRUE /\ SetStart
  /\ Goto("rErr")
  /\ UNCHANGED <<S, FIFO, A, cur, locals, script, history>>

ReadErr == pc = "rErr" /\ Step(IF Failed THEN "result" ELSE "rDone")

ReadDone ==
  /\ pc = "rDone"
  /\ \/ "DONE" \in S /\ Returns(cur.n - len)
     \/ "DONE" \notin S /\ Step("rData")

ReadData ==
  /\ pc = "rData"
  /\ Goto("rErr")
  /\ IF ~RXD THEN UNCHANGED <<FIFO, len, got>>
     ELSE /\ FIFO' = Tail(FIFO)
          /\ IF len = 0 THEN UNCHANGED <<len, got>>
             ELSE got' = Append(got, Head(FIFO)) /\ len' = len - 1
  /\ UNCHANGED <<S, DLEN, A, READ, ST, wires, cur, continued, ret, script,
                 turn, owed>>

-----------------------------------------------------------------------------
(***************************************************************************)
(* machine.I2C                                                             *)
(***************************************************************************)
Begins(a, calls) ==
  /\ pc = "script"
  /\ A' = a /\ op' = "io"
  /\ Call(Head(calls), a) /\ todo' = Tail(calls)
  /\ UNCHANGED <<S, FIFO, DLEN, READ, ST, wires, toScan, found>>

\* A careful script writes only to slaves that are there, and does not leave a
\* transfer open and then use a method that does not restart the bus.
Written == IF Careful THEN Slaves ELSE Addrs
Settled == Careful => ~WriteActive

writeto ==
  \E a \in Written, n \in 0 .. MaxLen, stop \in BOOLEAN :
    Begins(a, <<Start, Write(n, stop)>>)

readfrom == \E a \in Addrs, n \in 0 .. MaxLen : Begins(a, <<Read(n)>>)

read_mem ==
  Settled /\ \E a \in Written, n \in 0 .. MaxLen :
               Begins(a, <<Write(1, FALSE), Read(n)>>)

writeto_mem ==
  Settled /\ \E a \in Written, n \in 0 .. MaxLen :
               Begins(a, <<Write(1, FALSE), Write(n, TRUE)>>)

\* init() again, whatever the bus is at: what was accepted is given up.
init ==
  /\ pc = "script"
  /\ ClearFlags /\ ClearFifo
  /\ owed' = << >>
  /\ UNCHANGED <<DLEN, A, READ, ST, bus, to, pc, cur, locals, script, turn, got>>

scan ==
  /\ pc = "script" /\ Settled
  /\ op' = "scan" /\ toScan' = Addrs /\ found' = {}
  /\ Goto("busy")
  /\ UNCHANGED <<regs, wires, cur, locals, todo, history>>

\* Lines 188-198: some addresses are asked to be read from, others to take an
\* empty write.  The order is left open.
Probe ==
  /\ pc = "busy" /\ ~(Active /\ "DONE" \notin S)
  /\ \E a \in toScan :
       /\ A' = a /\ toScan' = toScan \ {a}
       /\ \E call \in {Read(1), Write(0, TRUE)} : Call(call, a)
  /\ UNCHANGED <<S, FIFO, DLEN, READ, ST, wires, op, todo, found>>

Probed ==
  /\ pc = "back" /\ op = "scan"
  /\ found' = IF ret >= 0 THEN found \cup {A} ELSE found
  /\ Goto(IF toScan = {} THEN "script" ELSE "busy")
  /\ UNCHANGED <<regs, wires, cur, locals, op, todo, toScan, history>>

NextCall ==
  /\ pc = "back" /\ op = "io" /\ ret >= 0 /\ todo # << >>
  /\ Call(Head(todo), A) /\ todo' = Tail(todo)
  /\ UNCHANGED <<regs, wires, op, toScan, found>>

Succeeds ==
  pc = "back" /\ op = "io" /\ ret >= 0 /\ todo = << >> /\ Step("script")

Raises ==
  /\ pc = "back" /\ op = "io" /\ ret < 0
  /\ ClearFifo
  /\ Goto("script") /\ todo' = << >>
  /\ UNCHANGED <<S, DLEN, A, READ, ST, bus, to, cur, locals, op, toScan, found,
                 history>>

-----------------------------------------------------------------------------
Driver ==
  \/ Checks \/ AbortWaits \/ AbortClears \/ Flags \/ Result \/ StartStarts
  \/ WriteChecks \/ Push \/ WriteStarts \/ WriteStarted \/ WriteErr
  \/ WriteDone \/ WriteFilled \/ WriteEnded
  \/ ReadStarts \/ ReadErr \/ ReadDone \/ ReadData
  \/ Probe \/ Probed \/ NextCall \/ Succeeds \/ Raises

Script == writeto \/ readfrom \/ read_mem \/ writeto_mem \/ init \/ scan

Next == Controller \/ Driver \/ Script

Spec == Init /\ [][Next]_vars

\* The core executes and the bus is clocked.
FairSpec == Spec /\ WF_vars(Driver) /\ WF_vars(Controller)

-----------------------------------------------------------------------------
Bytes == {0, 1} \X (1 .. MaxLen)

TypeOK ==
  /\ S \subseteq Latched \cup {"TA"}
  /\ FIFO \in Seq(Bytes) /\ Len(FIFO) <= FifoSize
  /\ DLEN \in 0 .. Endless /\ A \in Addrs /\ to \in Addrs
  /\ {READ, ST, stopping, continued, cur.stop} \subseteq BOOLEAN
  /\ bus \in {"free", "address", "data"}
  /\ len \in 0 .. cur.n /\ cur.n \in 0 .. MaxLen /\ ret \in -2 .. MaxLen
  /\ toScan \subseteq Addrs /\ found \subseteq Addrs
  /\ turn \in {0, 1} /\ got \in Seq(Bytes) /\ Len(got) <= MaxLen
  /\ owed \in Seq([to : Addrs, byte : Bytes])

\* Every byte a slave gets is the next one it is owed: none is lost, sent twice
\* or sent to another slave, neither where i2c_write refills the FIFO nor where
\* i2c_abort_write clears it.
BytesInOrder ==
  [][Transmit => /\ owed # << >>
                 /\ Head(owed) = [to |-> to, byte |-> Head(FIFO)]]_vars

\* i2c_write with a stop returns, if it returns no error, when all it was given,
\* now and before, has been sent and the bus is free.
WriteCompletes ==
  pc = "back" /\ cur.f = "write" /\ cur.stop /\ ret >= 0 =>
    owed = << >> /\ bus = "free" /\ ret = cur.n

\* i2c_read returns, if it returns no error, with what the slave sent, all of
\* it, and leaves nothing for the next call to find in the FIFO.
ReadWhole ==
  pc = "back" /\ cur.f = "read" /\ ret >= 0 =>
    got = Whole(turn, cur.n) /\ FIFO = << >>

\* scan lists the slaves that answer and no other.
ScanFinds == pc = "script" /\ op = "scan" => found = Slaves

\* Every method returns or raises: none of the loops that wait for a flag waits
\* for one that does not come.
CallsEnd == pc # "script" ~> pc = "script"
=============================================================================
