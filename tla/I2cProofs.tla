------------------------------ MODULE I2cProofs ------------------------------
(***************************************************************************)
(* What is proved about the I2C driver: its types for any script and any   *)
(* delay of the driver, and what it does for scripts that finish what they *)
(* start (Careful) with a driver that no interrupt holds up (Prompt).      *)
(*                                                                         *)
(* The invariant BusInv says what the transfer on the bus, the FIFO and    *)
(* the history are like at each place of the driver.                       *)
(***************************************************************************)
EXTENDS I2c, SequenceTheorems, TLAPS

Calls == [f : {"start", "write", "read"}, n : 0 .. MaxLen, stop : BOOLEAN]

WritePcs == {"wCheck", "wPreload", "started", "wErr", "wDone", "wFill", "ended"}
ReadPcs  == {"rCheck", "rStart", "rErr", "rDone", "rData"}
Pcs == {"script", "back", "busy", "abort", "clear", "flags", "result", "wsCheck", "wsStart"}
         \cup WritePcs \cup ReadPcs

\* The driver's place is one of the call it serves; a read knows how many bytes
\* it has stored; DLEN is never the endless one when the controller reads.
PlaceInv ==
  /\ pc \in Pcs /\ cur \in Calls /\ todo \in Seq(Calls)
  /\ pc \in {"wsCheck", "wsStart"} => cur.f = "start"
  /\ pc \in WritePcs => cur.f = "write"
  /\ pc \in ReadPcs => cur.f = "read"
  /\ cur.f = "read" => Len(got) + len = cur.n
  /\ pc \in {"wsStart", "wPreload"} => ~READ
  /\ READ => DLEN <= MaxLen

I2cTypes == TypeOK /\ PlaceInv

(***************************************************************************)
(* The states of the controller the driver's places go with.               *)
(***************************************************************************)
Unflagged == S \cap Latched = {}
Nothing   == FIFO = << >> /\ owed = << >>

\* No transfer
Free == ~Active /\ ~ST /\ bus = "free" /\ ~stopping

\* A transfer was asked for and has not begun, or has got no further than the
\* address of the call.
Begun ==
  /\ Unflagged /\ ~stopping
  /\ \/ ST /\ ~Active /\ bus = "free"
     \/ ~ST /\ Active /\ bus = "address" /\ to = A

\* A transfer is under way.
Running == Active /\ Unflagged /\ ~ST /\ bus \in {"address", "data"}

\* A write without a stop is under way, to a slave that is there.
Open == Running /\ ~READ /\ DLEN = Endless /\ to \in Slaves

\* A transfer ended as it should; it ended because no slave answered.
Stopped == Free /\ Nothing /\ "DONE" \in S /\ ~Failed /\ A \in Slaves
Missed  == Free /\ Nothing /\ Failed /\ "DONE" \notin S /\ A \notin Slaves

\* o is the bytes of the FIFO f followed by the r bytes that call t still has,
\* all of them for a.
Accepted(o, f, a, t, r) ==
  /\ Len(o) = Len(f) + r
  /\ \A i \in 1 .. Len(f) : o[i] = [to |-> a, byte |-> f[i]]
  /\ \A i \in 1 .. r : o[Len(f) + i] = [to |-> a, byte |-> <<t, r + 1 - i>>]

\* Between two calls: nothing is left, or a write is open; what ends it early
\* has emptied the FIFO.
WriteOpen ==
  Open /\ Accepted(owed, FIFO, to, turn, 0) /\ (stopping => Nothing)
Between == (Free /\ Nothing) \/ WriteOpen

\* What calls a method makes of the driver, and to which addresses
CallInv ==
  /\ pc \in {"script", "busy"} => todo = << >>
  /\ pc = "busy" => op = "scan"
  /\ pc \notin {"script", "busy"} =>
       /\ op \in {"io", "scan"}
       /\ op = "io" /\ cur.f # "read" => A \in Slaves
       /\ op = "scan" => cur.f # "start" /\ cur.stop
       /\ op = "scan" /\ cur.f = "write" => cur.n = 0
       /\ cur.f = "start" => Len(todo) = 1 /\ Head(todo).f = "write"
       /\ cur.f = "write" /\ ~cur.stop =>
            \/ todo = << >>
            \/ Len(todo) = 1 /\ Head(todo).f \in {"write", "read"} /\ Head(todo).stop
       /\ cur.f = "write" /\ cur.stop => todo = << >>
       /\ cur.f = "read" => todo = << >> /\ cur.stop

\* The state of the bus before a transfer is started
BetweenInv ==
  /\ pc \in {"script", "wsCheck", "rCheck"} => Between
  /\ pc = "busy" => Free /\ Nothing
  /\ pc = "abort" => WriteOpen /\ (cur.f = "write" => cur.stop /\ to = A)
  /\ pc = "clear" => Open /\ Nothing /\ (cur.f = "write" => cur.stop /\ to = A)
  /\ pc = "flags" /\ cur.f = "start" => (Free \/ Open) /\ Nothing
  /\ pc = "flags" /\ cur.f = "read" => Free /\ Nothing
  /\ pc = "wsStart" => (Free \/ Open) /\ Nothing /\ Unflagged
  /\ pc = "back" /\ cur.f = "start" => Begun /\ Nothing /\ ~READ /\ DLEN = Endless /\ ret = 0
  /\ pc = "result" => Missed /\ cur.f # "start" /\ cur.stop

\* The state of the bus in i2c_write
Writing ==
  /\ Running /\ ~READ /\ ~stopping /\ to = A
  /\ Accepted(owed, FIFO, A, turn, len)
  /\ DLEN = (IF cur.stop /\ ~continued THEN Len(owed) ELSE Endless)
  /\ ~continued => Len(FIFO) + len <= cur.n
  /\ continued \/ bus = "data" => A \in Slaves

WriteInv ==
  /\ pc = "wCheck" =>
       /\ len = cur.n /\ Accepted(owed, FIFO, A, turn, len)
       /\ \/ Free /\ FIFO = << >>
          \/ Begun /\ ~READ /\ FIFO = << >> /\ DLEN = Endless /\ A \in Slaves
          \/ Open /\ to = A /\ ~stopping
  /\ pc = "flags" /\ cur.f = "write" =>
       /\ len = cur.n /\ FIFO = << >> /\ Accepted(owed, FIFO, A, turn, len)
       /\ Free \/ Begun
       /\ ~continued
  /\ pc = "wPreload" =>
       /\ Len(FIFO) + len = cur.n /\ Accepted(owed, FIFO, A, turn, len)
       /\ (Free /\ Unflagged) \/ Begun
       /\ ~continued
  /\ pc = "started" =>
       /\ Len(FIFO) + len = cur.n /\ Accepted(owed, FIFO, A, turn, len) /\ Begun
       /\ ~READ /\ ~continued /\ DLEN = (IF cur.stop THEN Len(owed) ELSE Endless)
  /\ pc \in {"wErr", "wDone", "wFill"} =>
       \/ Writing
       \/ Stopped /\ cur.stop /\ ~continued /\ len = 0
       \/ Missed /\ cur.stop /\ ~continued
  /\ pc = "wDone" => cur.stop
  /\ pc = "ended" => cur.stop /\ ((Open /\ to = A /\ Nothing /\ stopping) \/ Stopped)
  /\ pc = "back" /\ cur.f = "write" =>
       \/ ~cur.stop /\ ret >= 0 /\ WriteOpen /\ to = A /\ ~stopping
       \/ cur.stop /\ ret = cur.n /\ Free /\ Nothing /\ A \in Slaves
       \/ cur.stop /\ ret < 0 /\ Free /\ Nothing /\ A \notin Slaves

\* The bytes stored are the first of the slave's answer.
Stored == \A i \in 1 .. Len(got) : got[i] = <<turn, cur.n + 1 - i>>

\* The state of the bus in i2c_read: a byte is fetched before the next one comes.
Reading ==
  /\ Running /\ READ /\ owed = << >> /\ ~stopping /\ to = A
  /\ bus = "data" => A \in Slaves
  /\ \/ FIFO = << >> /\ DLEN = len
     \/ FIFO = <<<<turn, len>>>> /\ DLEN = len - 1 /\ len > 0

ReadInv ==
  /\ pc \in {"rCheck", "abort", "clear", "flags", "rStart"} /\ cur.f = "read" => len = cur.n
  /\ pc = "rStart" => Nothing /\ ((Free /\ Unflagged) \/ Open)
  /\ pc \in {"rErr", "rDone", "rData"} =>
       /\ Stored
       /\ \/ Begun /\ READ /\ Nothing /\ DLEN = len
          \/ Reading
          \/ Stopped /\ len = 0
          \/ Missed
  /\ pc = "back" /\ cur.f = "read" =>
       /\ Free /\ Nothing
       /\ \/ ret >= 0 /\ len = 0 /\ Stored /\ A \in Slaves
          \/ ret < 0 /\ A \notin Slaves

\* The slaves scan has found are those among the addresses it has tried.
ScanInv ==
  op = "scan" =>
    /\ pc = "script" => toScan = {}
    /\ IF pc \in {"script", "busy"} THEN found = Slaves \ toScan
       ELSE A \notin toScan /\ found = Slaves \ (toScan \cup {A})

BusInv == CallInv /\ BetweenInv /\ WriteInv /\ ReadInv /\ ScanInv

-----------------------------------------------------------------------------
(***************************************************************************)
(* Types.                                                                  *)
(***************************************************************************)
Owing == [to : Addrs, byte : Bytes]

\* What appending, removing the first element and emptying do to a sequence
LEMMA SeqSteps ==
  ASSUME NEW X, NEW s \in Seq(X)
  PROVE  /\ Len(s) \in Nat
         /\ << >> \in Seq(X) /\ Len(<< >>) = 0
         /\ \A x \in X : Append(s, x) \in Seq(X) /\ Len(Append(s, x)) = Len(s) + 1
         /\ s # << >> => /\ Tail(s) \in Seq(X) /\ Len(Tail(s)) = Len(s) - 1
                         /\ Head(s) \in X /\ Len(s) > 0
         /\ Len(s) = 0 => s = << >>
<1>1. Len(s) \in Nat /\ (Len(s) = 0 => s = << >>)
  BY LenProperties, EmptySeq
<1>2. << >> \in Seq(X) /\ Len(<< >>) = 0
  BY EmptySeq
<1>3. \A x \in X : Append(s, x) \in Seq(X) /\ Len(Append(s, x)) = Len(s) + 1
  BY AppendProperties
<1>4. s # << >> => /\ Tail(s) \in Seq(X) /\ Len(Tail(s)) = Len(s) - 1
                   /\ Head(s) \in X /\ Len(s) > 0
  BY <1>1, HeadTailProperties
<1>. QED  BY <1>1, <1>2, <1>3, <1>4

\* Numbers and bytes of a call
LEMMA Bounds ==
  /\ MaxLen \in Nat /\ MaxLen >= 1 /\ Endless = MaxLen + 1 /\ Endless \in Nat
  /\ FifoSize \in Nat /\ FifoSize >= 1
  /\ \A t \in {0, 1}, n \in 1 .. MaxLen : <<t, n>> \in Bytes
BY BusAssumption DEF Endless, Bytes

\* The calls a method makes
LEMMA CallShapes ==
  /\ Start \in Calls /\ Start.f = "start" /\ Start.n = 0 /\ Start.stop = FALSE
  /\ \A n \in 0 .. MaxLen, stop \in BOOLEAN :
       /\ Write(n, stop) \in Calls /\ Write(n, stop).f = "write"
       /\ Write(n, stop).n = n /\ Write(n, stop).stop = stop
  /\ \A n \in 0 .. MaxLen :
       Read(n) \in Calls /\ Read(n).f = "read" /\ Read(n).n = n /\ Read(n).stop = TRUE
  /\ 0 \in 0 .. MaxLen /\ 1 \in 0 .. MaxLen
<1>. 0 \in 0 .. MaxLen /\ 1 \in 0 .. MaxLen
  BY Bounds
<1>. QED  BY DEF Start, Write, Read, Calls

\* A method starts with one of these lists of calls.
LEMMA ListShapes ==
  ASSUME NEW c \in Calls, NEW d \in Calls
  PROVE  /\ Head(<<c>>) = c /\ Tail(<<c>>) = << >> /\ << >> \in Seq(Calls)
         /\ Head(<<c, d>>) = c /\ Tail(<<c, d>>) = <<d>> /\ <<d>> \in Seq(Calls)
         /\ Len(<<d>>) = 1 /\ Len(<< >>) = 0
OBVIOUS

\* The bytes a write is given
LEMMA GivenType ==
  ASSUME NEW a \in Addrs, NEW t \in {0, 1}, NEW n \in 0 .. MaxLen
  PROVE  [i \in 1 .. n |-> [to |-> a, byte |-> Whole(t, n)[i]]] \in Seq(Owing)
<1>. DEFINE G == [i \in 1 .. n |-> [to |-> a, byte |-> Whole(t, n)[i]]]
<1>1. ASSUME NEW i \in 1 .. n
      PROVE  [to |-> a, byte |-> Whole(t, n)[i]] \in Owing
  <2>1. Whole(t, n)[i] = <<t, n + 1 - i>>
    BY DEF Whole
  <2>2. n + 1 - i \in 1 .. MaxLen
    BY Bounds
  <2>3. <<t, n + 1 - i>> \in Bytes
    BY <2>2, Bounds
  <2>. QED  BY <2>1, <2>3 DEF Owing
<1>2. n \in Nat
  BY Bounds
<1>3. G \in [1 .. n -> Owing]
  BY <1>1
<1>. QED  BY <1>2, <1>3

\* A call sets up the driver's locals and the history.
LEMMA CallTypes ==
  ASSUME I2cTypes, NEW c \in Calls, NEW a \in Addrs, Call(c, a)
  PROVE  /\ pc' = Entry[c.f] /\ cur' = c /\ len' = c.n /\ continued' = FALSE
         /\ UNCHANGED ret
         /\ turn' \in {0, 1} /\ got' \in Seq(Bytes) /\ Len(got') <= MaxLen
         /\ owed' \in Seq(Owing)
         /\ c.f = "read" => got' = << >>
<1>. /\ turn \in {0, 1} /\ got \in Seq(Bytes) /\ Len(got) <= MaxLen /\ owed \in Seq(Owing)
     /\ MaxLen \in Nat
  BY Bounds DEF I2cTypes, TypeOK, Owing
<1>1. /\ pc' = Entry[c.f] /\ cur' = c /\ len' = c.n /\ continued' = FALSE /\ UNCHANGED ret
  BY DEF Call, Goto
<1>2. CASE c.f = "start"
  BY <1>1, <1>2 DEF Call, history
<1>3. CASE c.f = "read"
  <2>1. turn' = 1 - turn /\ got' = << >> /\ UNCHANGED owed
    BY <1>3 DEF Call
  <2>2. turn' \in {0, 1} /\ got' \in Seq(Bytes) /\ Len(got') = 0
    BY <2>1
  <2>. QED  BY <1>1, <2>1, <2>2
<1>4. CASE c.f \notin {"start", "read"}
  <2>1. /\ turn' = 1 - turn /\ got' = << >>
        /\ owed' = owed \o [i \in 1 .. c.n |-> [to |-> a, byte |-> Whole(1 - turn, c.n)[i]]]
    BY <1>4 DEF Call
  <2>2. 1 - turn \in {0, 1} /\ c.n \in 0 .. MaxLen
    BY DEF Calls
  <2>3. owed' \in Seq(Owing)
    BY <2>1, <2>2, GivenType, ConcatProperties
  <2>4. got' \in Seq(Bytes) /\ Len(got') = 0
    BY <2>1
  <2>. QED  BY <1>1, <1>4, <2>1, <2>2, <2>3, <2>4
<1>. QED  BY <1>2, <1>3, <1>4

\* A call begins at the place of its function.
LEMMA Entries ==
  ASSUME NEW c \in Calls
  PROVE  /\ c.f \in {"start", "write", "read"} /\ c.n \in 0 .. MaxLen /\ c.stop \in BOOLEAN
         /\ c.f = "start" => Entry[c.f] = "wsCheck"
         /\ c.f = "write" => Entry[c.f] = "wCheck"
         /\ c.f = "read" => Entry[c.f] = "rCheck"
BY DEF Calls, Entry

\* The controller keeps the types.
LEMMA ControllerTypes ==
  ASSUME I2cTypes, Controller
  PROVE  I2cTypes'
<1>. /\ FIFO \in Seq(Bytes) /\ Len(FIFO) <= FifoSize /\ Len(FIFO) \in Nat
     /\ DLEN \in 0 .. Endless /\ DLEN \in Int /\ owed \in Seq(Owing)
     /\ READ => DLEN <= MaxLen
  BY SeqSteps, Bounds DEF I2cTypes, TypeOK, PlaceInv, Owing
<1>1. UNCHANGED <<A, READ, pc, cur, locals, script, turn, got>>
  BY DEF Controller, Begin, Answer, NoAnswer, Transmit, Receive, Finish, regs, history
<1>2. /\ S' \subseteq Latched \cup {"TA"} /\ ST' \in BOOLEAN /\ stopping' \in BOOLEAN
      /\ bus' \in {"free", "address", "data"} /\ to' \in Addrs
  <2>. /\ S \subseteq Latched \cup {"TA"} /\ ST \in BOOLEAN /\ stopping \in BOOLEAN
       /\ bus \in {"free", "address", "data"} /\ to \in Addrs /\ A \in Addrs
    BY DEF I2cTypes, TypeOK
  <2>1. CASE Begin
    BY <2>1 DEF Begin
  <2>2. CASE Answer
    BY <2>2 DEF Answer, regs
  <2>3. CASE NoAnswer
    BY <2>3 DEF NoAnswer, Latched
  <2>4. CASE Transmit \/ Receive
    BY <2>4 DEF Transmit, Receive, wires
  <2>5. CASE Finish
    BY <2>5 DEF Finish, Latched
  <2>. QED  BY <2>1, <2>2, <2>3, <2>4, <2>5 DEF Controller
<1>3. CASE Begin \/ Answer \/ NoAnswer \/ Finish
  <2>1. UNCHANGED <<FIFO, DLEN, owed>>
    BY <1>3 DEF Begin, Answer, NoAnswer, Finish, regs, history
  <2>. QED  BY <1>1, <1>2, <2>1 DEF locals, script, I2cTypes, TypeOK, PlaceInv
<1>4. ASSUME DLEN # 0, Moved
      PROVE  DLEN' \in 0 .. Endless /\ (DLEN <= MaxLen => DLEN' <= MaxLen)
  BY <1>4, Bounds DEF Moved
<1>5. CASE Transmit
  <2>1. FIFO # << >> /\ FIFO' = Tail(FIFO) /\ DLEN # 0 /\ Moved
    BY <1>5 DEF Transmit
  <2>2. FIFO' \in Seq(Bytes) /\ Len(FIFO') <= FifoSize
    BY <2>1, SeqSteps, Bounds
  <2>3. owed' \in Seq(Owing)
    <3>1. owed' = IF owed = << >> THEN owed ELSE Tail(owed)
      BY <1>5 DEF Transmit
    <3>. QED  BY <3>1, SeqSteps
  <2>. QED
    BY <1>1, <1>2, <1>4, <2>1, <2>2, <2>3 DEF locals, script, I2cTypes, TypeOK, PlaceInv, Owing
<1>6. CASE Receive
  <2>1. /\ FIFO' = Append(FIFO, <<turn, DLEN>>) /\ Len(FIFO) < FifoSize /\ READ
        /\ DLEN # 0 /\ Moved /\ UNCHANGED owed
    BY <1>6 DEF Receive, history
  <2>2. <<turn, DLEN>> \in Bytes
    <3>1. DLEN \in 1 .. MaxLen /\ turn \in {0, 1}
      BY <2>1, Bounds DEF I2cTypes, TypeOK
    <3>. QED  BY <3>1, Bounds
  <2>3. FIFO' \in Seq(Bytes) /\ Len(FIFO') <= FifoSize
    BY <2>1, <2>2, SeqSteps, Bounds
  <2>. QED
    BY <1>1, <1>2, <1>4, <2>1, <2>3 DEF locals, script, I2cTypes, TypeOK, PlaceInv
<1>. QED  BY <1>3, <1>5, <1>6 DEF Controller

\* The driver's steps between the calls keep the types.
LEMMA CallsTypes ==
  ASSUME I2cTypes, Probe \/ Probed \/ NextCall \/ Succeeds \/ Raises \/ Script
  PROVE  I2cTypes'
<1>. TypeOK /\ PlaceInv
  BY DEF I2cTypes
<1>1. ASSUME NEW a \in Addrs, NEW c \in Calls, Call(c, a), todo' \in Seq(Calls), A' \in Addrs,
             toScan' \subseteq Addrs,
             UNCHANGED <<S, FIFO, DLEN, READ, ST, wires, found>>
      PROVE  I2cTypes'
  <2>1. /\ pc' = Entry[c.f] /\ cur' = c /\ len' = c.n /\ continued' = FALSE
        /\ UNCHANGED ret
        /\ turn' \in {0, 1} /\ got' \in Seq(Bytes) /\ Len(got') <= MaxLen
        /\ owed' \in Seq(Owing)
        /\ c.f = "read" => got' = << >>
    BY <1>1, CallTypes
  <2>2. /\ c.f \in {"start", "write", "read"} /\ c.n \in 0 .. MaxLen /\ c.stop \in BOOLEAN
        /\ c.f = "start" => pc' = "wsCheck"
        /\ c.f = "write" => pc' = "wCheck"
        /\ c.f = "read" => pc' = "rCheck"
    BY <2>1, Entries
  <2>3. cur'.f = "read" => Len(got') + len' = cur'.n
    BY <2>1, <2>2, Bounds
  <2>4. len' \in 0 .. cur'.n /\ cur'.n \in 0 .. MaxLen
    BY <2>1, <2>2, Bounds
  <2>5. {READ, ST, stopping, continued, cur.stop}' \subseteq BOOLEAN
    BY <1>1, <2>1, <2>2 DEF wires, TypeOK
  <2>6. TypeOK'
    BY <1>1, <2>1, <2>4, <2>5 DEF wires, TypeOK, Owing
  <2>7. PlaceInv'
    BY <1>1, <2>1, <2>2, <2>3 DEF PlaceInv, Pcs, WritePcs, ReadPcs
  <2>. QED  BY <2>6, <2>7 DEF I2cTypes
<1>2. CASE Probe
  <2>1. PICK a \in toScan :
          /\ A' = a /\ toScan' = toScan \ {a}
          /\ \E call \in {Read(1), Write(0, TRUE)} : Call(call, a)
    BY <1>2 DEF Probe
  <2>2. PICK call \in {Read(1), Write(0, TRUE)} : Call(call, a)
    BY <2>1
  <2>3. call \in Calls
    <3>1. Read(1) \in Calls /\ Write(0, TRUE) \in Calls
      BY CallShapes
    <3>. QED  BY <3>1
  <2>4. UNCHANGED <<S, FIFO, DLEN, READ, ST, wires, found, todo>>
    BY <1>2 DEF Probe
  <2>. QED  BY <1>1, <2>1, <2>2, <2>3, <2>4 DEF TypeOK, PlaceInv
<1>3. CASE Probed
  <2>1. /\ pc' \in {"script", "busy"} /\ found' \subseteq Addrs
        /\ UNCHANGED <<regs, wires, cur, locals, todo, toScan, history>>
    BY <1>3 DEF Probed, Goto, TypeOK
  <2>. QED
    BY <2>1 DEF regs, wires, locals, history, I2cTypes, TypeOK, PlaceInv, Pcs, WritePcs, ReadPcs
<1>4. CASE NextCall
  <2>1. /\ todo # << >> /\ Call(Head(todo), A) /\ todo' = Tail(todo)
        /\ UNCHANGED <<S, FIFO, DLEN, A, READ, ST, wires, toScan, found>>
    BY <1>4 DEF NextCall, regs
  <2>2. Head(todo) \in Calls /\ todo' \in Seq(Calls)
    BY <2>1, SeqSteps DEF PlaceInv
  <2>. QED  BY <1>1, <2>1, <2>2 DEF TypeOK
<1>5. CASE Succeeds
  <2>1. pc' = "script" /\ UNCHANGED <<regs, wires, cur, locals, script, history>>
    BY <1>5 DEF Succeeds, Step, Goto
  <2>. QED
    BY <2>1 DEF regs, wires, locals, script, history, I2cTypes, TypeOK, PlaceInv, Pcs, WritePcs,
       ReadPcs
<1>6. CASE Raises \/ init
  <2>0. stopping' \in BOOLEAN
    <3>1. stopping' = WriteActive
      BY <1>6 DEF Raises, init, ClearFifo
    <3>. QED  BY <3>1, Zenon DEF WriteActive, Active
  <2>1. /\ FIFO' = << >> /\ stopping' \in BOOLEAN /\ pc' = "script" /\ todo' \in Seq(Calls)
        /\ S' \subseteq S /\ owed' \in Seq(Owing)
        /\ UNCHANGED <<DLEN, A, READ, ST, bus, to, cur, locals, toScan, found, turn, got>>
    <3>1. << >> \in Seq(Calls) /\ << >> \in Seq(Owing) /\ owed \in Seq(Owing)
          /\ todo \in Seq(Calls)
      BY DEF TypeOK, PlaceInv, Owing
    <3>2. CASE Raises
      BY <2>0, <3>1, <3>2 DEF Raises, ClearFifo, Goto, history
    <3>3. CASE init
      BY <2>0, <3>1, <3>3 DEF init, ClearFifo, ClearFlags, script
    <3>. QED  BY <1>6, <3>2, <3>3
  <2>2. FIFO' \in Seq(Bytes) /\ Len(FIFO') <= FifoSize
    BY <2>1, Bounds
  <2>. QED
    BY <2>1, <2>2 DEF locals, I2cTypes, TypeOK, PlaceInv, Pcs, WritePcs, ReadPcs, Owing
<1>7. CASE scan
  <2>1. /\ pc' = "busy" /\ toScan' = Addrs /\ found' = {}
        /\ UNCHANGED <<regs, wires, cur, locals, todo, history>>
    BY <1>7 DEF scan, Goto
  <2>. QED
    BY <2>1 DEF regs, wires, locals, history, I2cTypes, TypeOK, PlaceInv, Pcs, WritePcs, ReadPcs
<1>8. ASSUME NEW a \in Addrs, NEW c \in Calls, NEW rest \in Seq(Calls), NEW calls,
             Head(calls) = c, Tail(calls) = rest, Begins(a, calls)
      PROVE  I2cTypes'
  <2>1. /\ Call(c, a) /\ todo' = rest /\ A' = a
        /\ UNCHANGED <<S, FIFO, DLEN, READ, ST, wires, toScan, found>>
    BY <1>8 DEF Begins
  <2>. QED  BY <1>1, <2>1 DEF TypeOK
<1>9. Written \subseteq Addrs
  BY BusAssumption DEF Written
<1>10. CASE writeto
  <2>1. PICK a \in Written, n \in 0 .. MaxLen, stop \in BOOLEAN :
           Begins(a, <<Start, Write(n, stop)>>)
    BY <1>10 DEF writeto
  <2>2. Start \in Calls /\ Write(n, stop) \in Calls
    BY CallShapes
  <2>3. /\ Head(<<Start, Write(n, stop)>>) = Start
        /\ Tail(<<Start, Write(n, stop)>>) = <<Write(n, stop)>>
        /\ <<Write(n, stop)>> \in Seq(Calls)
    BY <2>2, ListShapes
  <2>. QED  BY <1>8, <1>9, <2>1, <2>2, <2>3
<1>11. CASE readfrom
  <2>1. PICK a \in Addrs, n \in 0 .. MaxLen : Begins(a, <<Read(n)>>)
    BY <1>11 DEF readfrom
  <2>2. Read(n) \in Calls
    BY CallShapes
  <2>3. Head(<<Read(n)>>) = Read(n) /\ Tail(<<Read(n)>>) = << >> /\ << >> \in Seq(Calls)
    BY <2>2, ListShapes
  <2>. QED  BY <1>8, <2>1, <2>2, <2>3
<1>12. CASE read_mem
  <2>1. PICK a \in Written, n \in 0 .. MaxLen : Begins(a, <<Write(1, FALSE), Read(n)>>)
    BY <1>12 DEF read_mem
  <2>2. Write(1, FALSE) \in Calls /\ Read(n) \in Calls
    BY CallShapes
  <2>3. /\ Head(<<Write(1, FALSE), Read(n)>>) = Write(1, FALSE)
        /\ Tail(<<Write(1, FALSE), Read(n)>>) = <<Read(n)>>
        /\ <<Read(n)>> \in Seq(Calls)
    BY <2>2, ListShapes
  <2>. QED  BY <1>8, <1>9, <2>1, <2>2, <2>3
<1>13. CASE writeto_mem
  <2>1. PICK a \in Written, n \in 0 .. MaxLen :
           Begins(a, <<Write(1, FALSE), Write(n, TRUE)>>)
    BY <1>13 DEF writeto_mem
  <2>2. Write(1, FALSE) \in Calls /\ Write(n, TRUE) \in Calls
    BY CallShapes
  <2>3. /\ Head(<<Write(1, FALSE), Write(n, TRUE)>>) = Write(1, FALSE)
        /\ Tail(<<Write(1, FALSE), Write(n, TRUE)>>) = <<Write(n, TRUE)>>
        /\ <<Write(n, TRUE)>> \in Seq(Calls)
    BY <2>2, ListShapes
  <2>. QED  BY <1>8, <1>9, <2>1, <2>2, <2>3
<1>. QED
  BY <1>2, <1>3, <1>4, <1>5, <1>6, <1>7, <1>10, <1>11, <1>12, <1>13 DEF Script

\* The steps of the driver that change no more than its place
LEMMA Moves ==
  ASSUME I2cTypes, UNCHANGED <<regs, wires, cur, len, continued, script, history>>,
         pc' \in Pcs, ret' \in -2 .. MaxLen,
         pc' \in {"wsCheck", "wsStart"} => cur.f = "start",
         pc' \in WritePcs => cur.f = "write",
         pc' \in ReadPcs => cur.f = "read",
         pc' \notin {"wsStart", "wPreload"}
  PROVE  I2cTypes'
BY DEF regs, wires, script, history, I2cTypes, TypeOK, PlaceInv

\* The driver's steps within a call keep the types.
LEMMA DriverTypes ==
  ASSUME I2cTypes, Driver
  PROVE  I2cTypes'
<1>. TypeOK /\ PlaceInv
  BY DEF I2cTypes
<1>. /\ cur.f \in {"start", "write", "read"} /\ cur.n \in 0 .. MaxLen /\ cur.stop \in BOOLEAN
     /\ len \in 0 .. cur.n /\ len \in Int /\ cur.n \in Int
     /\ MaxLen \in Nat /\ Endless = MaxLen + 1
     /\ cur.n - len \in -2 .. MaxLen /\ cur.n \in -2 .. MaxLen /\ ret \in -2 .. MaxLen
     /\ FIFO \in Seq(Bytes) /\ Len(FIFO) \in Nat
     /\ pc \in {"wsCheck", "wsStart"} => cur.f = "start"
     /\ pc \in WritePcs => cur.f = "write"
     /\ pc \in ReadPcs => cur.f = "read"
  BY Bounds, SeqSteps DEF TypeOK, PlaceInv, Calls
<1>1. CASE Checks \/ AbortWaits \/ WriteStarted \/ WriteFilled \/ ReadErr
  <2>1. /\ UNCHANGED <<regs, wires, cur, locals, script, history>>
        /\ \/ pc' \in {"abort", "clear", "flags", "result"}
           \/ pc' = "wErr" /\ pc \in {"started", "wFill"}
           \/ pc' = "rDone" /\ pc = "rErr"
    BY <1>1 DEF Checks, AbortWaits, WriteStarted, WriteFilled, ReadErr, Step, Goto
  <2>. QED  BY <2>1, Moves DEF locals, Pcs, WritePcs, ReadPcs
<1>2. CASE WriteErr
  <2>1. /\ UNCHANGED <<regs, wires, cur, len, continued, script, history>> /\ pc = "wErr"
        /\ pc' \in {"result", "wDone", "wFill", "back"} /\ ret' \in {ret, cur.n}
    BY <1>2 DEF WriteErr, Step, Goto, Returns, Return, locals
  <2>. QED  BY <2>1, Moves DEF Pcs, WritePcs, ReadPcs
<1>3. CASE WriteDone
  <2>1. /\ UNCHANGED <<regs, wires, cur, len, continued, script, history>> /\ pc = "wDone"
        /\ pc' \in {"abort", "wFill", "back"} /\ ret' \in {ret, cur.n - len}
    BY <1>3 DEF WriteDone, Step, Goto, Returns, Return, locals
  <2>. QED  BY <2>1, Moves DEF Pcs, WritePcs, ReadPcs
<1>4. CASE WriteEnded
  <2>1. /\ UNCHANGED <<regs, wires, cur, len, continued, script, history>>
        /\ pc' = "back" /\ ret' = cur.n
    BY <1>4 DEF WriteEnded, Returns, Return, Goto
  <2>. QED  BY <2>1, Moves DEF Pcs, WritePcs, ReadPcs
<1>5. CASE ReadDone
  <2>1. /\ UNCHANGED <<regs, wires, cur, len, continued, script, history>> /\ pc = "rDone"
        /\ pc' \in {"rData", "back"} /\ ret' \in {ret, cur.n - len}
    BY <1>5 DEF ReadDone, Step, Goto, Returns, Return, locals
  <2>. QED  BY <2>1, Moves DEF Pcs, WritePcs, ReadPcs
<1>6. CASE AbortClears
  <2>1. /\ FIFO' = << >> /\ stopping' \in BOOLEAN /\ pc' \in {"flags", "ended", "rStart"}
        /\ pc' = "ended" => cur.f = "write"
        /\ pc' = "rStart" => cur.f = "read"
        /\ UNCHANGED <<S, DLEN, A, READ, ST, bus, to, cur, locals, script, history>>
    BY <1>6 DEF AbortClears, ClearFifo, WriteActive, Active, Goto, After, TypeOK
  <2>2. FIFO' \in Seq(Bytes) /\ Len(FIFO') <= FifoSize
    BY <2>1, Bounds
  <2>. QED
    BY <2>1, <2>2 DEF locals, script, history, I2cTypes, TypeOK, PlaceInv, Pcs, WritePcs, ReadPcs
<1>7. CASE Flags
  <2>1. /\ S' \subseteq S /\ pc' \in {"wsStart", "wPreload", "rStart"}
        /\ pc' = "wsStart" => cur.f = "start" /\ READ' = FALSE
        /\ pc' = "wPreload" => cur.f = "write" /\ READ' = FALSE
        /\ pc' = "rStart" => cur.f = "read"
        /\ READ' \in BOOLEAN /\ (READ' => READ)
        /\ UNCHANGED <<FIFO, DLEN, A, ST, wires, cur, locals, script, history>>
    <3>1. READ' = (READ /\ cur.f = "read") /\ READ \in BOOLEAN
      BY <1>7 DEF Flags, TypeOK
    <3>2. READ' \in BOOLEAN /\ (READ' => READ) /\ (cur.f # "read" => READ' = FALSE)
      BY <3>1, Zenon
    <3>3. /\ S' \subseteq S /\ pc' = Starting[cur.f]
          /\ UNCHANGED <<FIFO, DLEN, A, ST, wires, cur, locals, script, history>>
      BY <1>7 DEF Flags, ClearFlags, Goto
    <3>4. /\ cur.f = "start" => pc' = "wsStart"
          /\ cur.f = "write" => pc' = "wPreload"
          /\ cur.f = "read" => pc' = "rStart"
      BY <3>3 DEF Starting
    <3>. QED  BY <3>2, <3>3, <3>4
  <2>. QED
    BY <2>1 DEF wires, locals, script, history, I2cTypes, TypeOK, PlaceInv, Pcs, WritePcs, ReadPcs
<1>8. CASE Result
  <2>1. /\ S' \subseteq S /\ pc' = "back" /\ ret' \in {-1, -2} /\ owed' = << >>
        /\ UNCHANGED <<FIFO, DLEN, A, READ, ST, wires, cur, len, continued, script, turn, got>>
    BY <1>8 DEF Result, ClearFlags, Return, Goto
  <2>2. ret' \in -2 .. MaxLen /\ owed' \in Seq([to : Addrs, byte : Bytes])
    BY <2>1
  <2>. QED
    BY <2>1, <2>2 DEF wires, script, I2cTypes, TypeOK, PlaceInv, Pcs, WritePcs, ReadPcs
<1>9. ASSUME SetStart
      PROVE  ST' \in BOOLEAN /\ to' \in Addrs /\ stopping' \in BOOLEAN
             /\ bus' \in {"free", "address", "data"}
  BY <1>9 DEF SetStart, wires, TypeOK, Active
<1>10. CASE StartStarts
  <2>1. /\ pc = "wsStart" /\ DLEN' = Endless /\ SetStart /\ pc' = "back" /\ ret' = 0
        /\ UNCHANGED <<S, FIFO, A, READ, cur, len, continued, script, history>>
    BY <1>10 DEF StartStarts, Return, Goto
  <2>2. DLEN' \in 0 .. Endless /\ ret' \in -2 .. MaxLen /\ ~READ
    BY <2>1 DEF PlaceInv
  <2>. QED
    BY <1>9, <2>1, <2>2 DEF script, history, I2cTypes, TypeOK, PlaceInv, Pcs, WritePcs, ReadPcs
<1>11. CASE WriteChecks
  <2>1. /\ continued' \in BOOLEAN /\ pc' \in {"wErr", "flags"} /\ cur.f = "write"
        /\ UNCHANGED <<regs, wires, cur, len, ret, script, history>>
    BY <1>11 DEF WriteChecks, WriteActive, Active, Goto, TypeOK, WritePcs
  <2>. QED
    BY <2>1 DEF regs, wires, script, history, I2cTypes, TypeOK, PlaceInv, Pcs, WritePcs, ReadPcs
<1>12. CASE Push
  <2>1. /\ FIFO' = Append(FIFO, <<turn, len>>) /\ len' = len - 1 /\ Len(FIFO) < FifoSize
        /\ len # 0 /\ cur.f = "write"
        /\ UNCHANGED <<S, DLEN, A, READ, ST, wires, pc, cur, continued, ret, script, history>>
    BY <1>12 DEF Push, TXD, WritePcs
  <2>2. len \in 1 .. MaxLen /\ turn \in {0, 1} /\ len' \in 0 .. cur.n
    BY <2>1 DEF TypeOK
  <2>3. FIFO' \in Seq(Bytes) /\ Len(FIFO') <= FifoSize
    BY <2>1, <2>2, Bounds, SeqSteps
  <2>. QED
    BY <2>1, <2>2, <2>3 DEF wires, script, history, I2cTypes, TypeOK, PlaceInv
<1>13. CASE WriteStarts
  <2>1. /\ pc = "wPreload" /\ SetStart /\ pc' = "started"
        /\ DLEN' = (IF cur.stop THEN cur.n ELSE Endless)
        /\ UNCHANGED <<S, FIFO, A, READ, cur, locals, script, history>>
    BY <1>13 DEF WriteStarts, Goto
  <2>2. DLEN' \in 0 .. Endless /\ ~READ /\ cur.f = "write"
    BY <2>1 DEF PlaceInv, WritePcs
  <2>. QED
    BY <1>9, <2>1, <2>2 DEF locals, script, history, I2cTypes, TypeOK, PlaceInv, Pcs, WritePcs,
       ReadPcs
<1>14. CASE ReadStarts
  <2>1. /\ pc = "rStart" /\ SetStart /\ pc' = "rErr" /\ READ' = TRUE /\ DLEN' = cur.n
        /\ UNCHANGED <<S, FIFO, A, cur, locals, script, history>>
    BY <1>14 DEF ReadStarts, Goto
  <2>2. DLEN' \in 0 .. Endless /\ DLEN' <= MaxLen /\ cur.f = "read" /\ READ' \in BOOLEAN
    BY <2>1 DEF ReadPcs
  <2>. QED
    BY <1>9, <2>1, <2>2 DEF locals, script, history, I2cTypes, TypeOK, PlaceInv, Pcs, WritePcs,
       ReadPcs
<1>15. CASE ReadData
  <2>1. /\ pc = "rData" /\ pc' = "rErr" /\ cur.f = "read"
        /\ UNCHANGED <<S, DLEN, A, READ, ST, wires, cur, continued, ret, script, turn, owed>>
    BY <1>15 DEF ReadData, Goto, ReadPcs
  <2>2. /\ FIFO' \in Seq(Bytes) /\ Len(FIFO') <= FifoSize
        /\ len' \in 0 .. cur.n /\ got' \in Seq(Bytes) /\ Len(got') <= MaxLen
        /\ Len(got') + len' = cur.n
    <3>. /\ got \in Seq(Bytes) /\ Len(got) + len = cur.n /\ Len(got) \in Nat
         /\ Len(got) <= MaxLen /\ Len(FIFO) <= FifoSize
      BY <2>1, SeqSteps DEF TypeOK, PlaceInv
    <3>1. CASE ~RXD
      BY <1>15, <3>1 DEF ReadData
    <3>2. CASE RXD
      <4>1. /\ FIFO # << >> /\ FIFO' = Tail(FIFO)
            /\ \/ len = 0 /\ UNCHANGED <<len, got>>
               \/ len # 0 /\ got' = Append(got, Head(FIFO)) /\ len' = len - 1
        BY <1>15, <3>2 DEF ReadData, RXD
      <4>2. /\ FIFO' \in Seq(Bytes) /\ Len(FIFO') = Len(FIFO) - 1 /\ Head(FIFO) \in Bytes
        BY <4>1, SeqSteps
      <4>3. Append(got, Head(FIFO)) \in Seq(Bytes) /\ Len(Append(got, Head(FIFO))) = Len(got) + 1
        BY <4>2, SeqSteps
      <4>4. CASE len = 0
        BY <4>1, <4>2, <4>4, Bounds
      <4>5. CASE len # 0
        <5>1. got' = Append(got, Head(FIFO)) /\ len' = len - 1 /\ len >= 1
          BY <4>1, <4>5
        <5>2. got' \in Seq(Bytes) /\ Len(got') = Len(got) + 1
          BY <4>3, <5>1
        <5>3. len' \in 0 .. cur.n /\ Len(got') + len' = cur.n /\ Len(got') <= MaxLen
          BY <5>1, <5>2
        <5>4. FIFO' \in Seq(Bytes) /\ Len(FIFO') <= FifoSize
          BY <4>1, <4>2, Bounds
        <5>. QED  BY <5>2, <5>3, <5>4
      <4>. QED  BY <4>4, <4>5
    <3>. QED  BY <3>1, <3>2
  <2>. QED
    BY <2>1, <2>2 DEF wires, script, I2cTypes, TypeOK, PlaceInv, Pcs, WritePcs, ReadPcs
<1>. QED
  BY <1>1, <1>2, <1>3, <1>4, <1>5, <1>6, <1>7, <1>8, <1>10, <1>11, <1>12, <1>13, <1>14, <1>15,
     CallsTypes DEF Driver

\* Every step keeps the types.
LEMMA TypesStep ==
  ASSUME I2cTypes, [Next]_vars
  PROVE  I2cTypes'
<1>1. CASE UNCHANGED vars
  BY <1>1 DEF vars, regs, wires, locals, script, history, I2cTypes, TypeOK, PlaceInv
<1>. QED  BY <1>1, ControllerTypes, DriverTypes, CallsTypes DEF Next

\* The types hold at the start.
LEMMA TypesBegin == Init => I2cTypes
<1>. SUFFICES ASSUME Init PROVE I2cTypes
  OBVIOUS
<1>1. cur \in Calls /\ cur.f = "read" /\ cur.n = 0 /\ cur.stop = TRUE
  BY CallShapes DEF Init
<1>2. FIFO \in Seq(Bytes) /\ Len(FIFO) = 0 /\ got \in Seq(Bytes) /\ Len(got) = 0
  BY DEF Init
<1>3. owed \in Seq([to : Addrs, byte : Bytes]) /\ todo \in Seq(Calls)
  BY DEF Init
<1>4. /\ DLEN = 0 /\ len = 0 /\ ret = 0 /\ turn = 0 /\ A \in Addrs /\ to = A
      /\ bus = "free" /\ pc = "script" /\ S = {} /\ toScan = {} /\ found = {}
  BY DEF Init
<1>5. {READ, ST, stopping, continued, cur.stop} \subseteq BOOLEAN
  BY <1>1 DEF Init
<1>6. DLEN \in 0 .. Endless /\ len \in 0 .. cur.n /\ cur.n \in 0 .. MaxLen /\ ret \in -2 .. MaxLen
  BY <1>1, <1>4, Bounds
<1>7. TypeOK
  BY <1>2, <1>3, <1>4, <1>5, <1>6, Bounds DEF TypeOK
<1>8. PlaceInv
  BY <1>1, <1>2, <1>3, <1>4, Bounds DEF PlaceInv, Pcs, WritePcs, ReadPcs
<1>. QED  BY <1>7, <1>8 DEF I2cTypes

\* Every variable keeps its type, for any script and however late the driver
\* comes: neither FIFO nor buffer overflows.
THEOREM I2cTypeOK == Spec => []TypeOK
<1>1. Spec => []I2cTypes
  BY TypesBegin, TypesStep, PTL DEF Spec
<1>2. I2cTypes => TypeOK
  BY DEF I2cTypes
<1>. QED  BY <1>1, <1>2, PTL

-----------------------------------------------------------------------------
(***************************************************************************)
(* The bytes that are on their way.                                        *)
(***************************************************************************)
\* An element of a sequence after its first one is taken, of a longer sequence
LEMMA TailElements ==
  ASSUME NEW X, NEW s \in Seq(X), s # << >>
  PROVE  /\ Tail(s) \in Seq(X) /\ Len(Tail(s)) = Len(s) - 1 /\ Len(s) \in Nat /\ Len(s) > 0
         /\ Head(s) = s[1]
         /\ \A i \in 1 .. Len(s) - 1 : Tail(s)[i] = s[i + 1]
<1>1. Tail(s) \in Seq(X) /\ Len(Tail(s)) = Len(s) - 1 /\ Len(s) \in Nat /\ Len(s) > 0
  BY SeqSteps
<1>. QED  BY <1>1, HeadTailProperties

\* The slave gets the byte it is owed.
LEMMA AcceptedTail ==
  ASSUME NEW o \in Seq(Owing), NEW f \in Seq(Bytes), NEW a, NEW t, NEW r \in Nat,
         Accepted(o, f, a, t, r), f # << >>
  PROVE  /\ o # << >> /\ Head(o) = [to |-> a, byte |-> Head(f)]
         /\ Accepted(Tail(o), Tail(f), a, t, r)
         /\ Len(o) \in Nat /\ Len(Tail(o)) = Len(o) - 1
         /\ Len(f) \in Nat /\ Len(Tail(f)) = Len(f) - 1
<1>1. /\ Len(f) \in Nat /\ Len(f) > 0 /\ Len(Tail(f)) = Len(f) - 1 /\ Head(f) = f[1]
      /\ \A i \in 1 .. Len(f) - 1 : Tail(f)[i] = f[i + 1]
  BY TailElements
<1>2. Len(o) = Len(f) + r
  BY DEF Accepted
<1>3. o # << >>
  BY <1>1, <1>2, SeqSteps
<1>4. /\ Len(Tail(o)) = Len(o) - 1 /\ Head(o) = o[1] /\ Len(o) \in Nat
      /\ \A i \in 1 .. Len(o) - 1 : Tail(o)[i] = o[i + 1]
  BY <1>3, TailElements
<1>5. Head(o) = [to |-> a, byte |-> Head(f)]
  <2>1. 1 \in 1 .. Len(f)
    BY <1>1
  <2>. QED  BY <1>1, <1>4, <2>1 DEF Accepted
<1>6. ASSUME NEW i \in 1 .. Len(Tail(f))
      PROVE  Tail(o)[i] = [to |-> a, byte |-> Tail(f)[i]]
  <2>1. i + 1 \in 1 .. Len(f) /\ i \in 1 .. Len(o) - 1 /\ i \in 1 .. Len(f) - 1
    BY <1>1, <1>2
  <2>. QED  BY <1>1, <1>4, <2>1 DEF Accepted
<1>7. ASSUME NEW i \in 1 .. r
      PROVE  Tail(o)[Len(Tail(f)) + i] = [to |-> a, byte |-> <<t, r + 1 - i>>]
  <2>1. /\ Len(Tail(f)) + i \in 1 .. Len(o) - 1 /\ Len(Tail(f)) + i + 1 = Len(f) + i
    BY <1>1, <1>2
  <2>2. Tail(o)[Len(Tail(f)) + i] = o[Len(f) + i]
    BY <1>4, <2>1
  <2>. QED  BY <2>2 DEF Accepted
<1>8. Len(Tail(o)) = Len(Tail(f)) + r
  BY <1>1, <1>2, <1>4
<1>. QED  BY <1>1, <1>3, <1>4, <1>5, <1>6, <1>7, <1>8 DEF Accepted

\* The driver puts the call's next byte into the FIFO.
LEMMA AcceptedPush ==
  ASSUME NEW o \in Seq(Owing), NEW f \in Seq(Bytes), NEW a, NEW t \in {0, 1},
         NEW r \in 1 .. MaxLen, Accepted(o, f, a, t, r)
  PROVE  Accepted(o, Append(f, <<t, r>>), a, t, r - 1)
<1>. DEFINE g == Append(f, <<t, r>>)
<1>1. /\ <<t, r>> \in Bytes /\ r \in Nat /\ r > 0
  BY Bounds
<1>2. /\ Len(f) \in Nat /\ Len(g) = Len(f) + 1
      /\ \A i \in 1 .. Len(f) : g[i] = f[i]
      /\ g[Len(f) + 1] = <<t, r>>
  BY <1>1, SeqSteps, AppendProperties
<1>3. Len(o) = Len(g) + (r - 1)
  BY <1>1, <1>2 DEF Accepted
<1>4. ASSUME NEW i \in 1 .. Len(g)
      PROVE  o[i] = [to |-> a, byte |-> g[i]]
  <2>1. CASE i \in 1 .. Len(f)
    BY <1>2, <2>1 DEF Accepted
  <2>2. CASE i = Len(f) + 1
    <3>1. 1 \in 1 .. r /\ r + 1 - 1 = r
      BY <1>1
    <3>2. o[Len(f) + 1] = [to |-> a, byte |-> <<t, r + 1 - 1>>]
      BY <3>1 DEF Accepted
    <3>. QED  BY <1>2, <2>2, <3>1, <3>2
  <2>3. i \in 1 .. Len(f) \/ i = Len(f) + 1
    BY <1>2
  <2>. QED  BY <2>1, <2>2, <2>3
<1>5. ASSUME NEW i \in 1 .. r - 1
      PROVE  o[Len(g) + i] = [to |-> a, byte |-> <<t, (r - 1) + 1 - i>>]
  <2>1. /\ i + 1 \in 1 .. r /\ Len(g) + i = Len(f) + (i + 1)
        /\ r + 1 - (i + 1) = (r - 1) + 1 - i
    BY <1>1, <1>2
  <2>2. o[Len(f) + (i + 1)] = [to |-> a, byte |-> <<t, r + 1 - (i + 1)>>]
    BY <2>1 DEF Accepted
  <2>. QED  BY <2>1, <2>2
<1>. HIDE DEF g
<1>6. Accepted(o, g, a, t, r - 1)
  BY <1>3, <1>4, <1>5 DEF Accepted
<1>. QED  BY <1>6 DEF g

\* Nothing is on its way when neither the FIFO nor the call holds a byte.
LEMMA AcceptedNone ==
  ASSUME NEW a, NEW t
  PROVE  /\ Accepted(<< >>, << >>, a, t, 0)
         /\ \A o \in Seq(Owing) : Accepted(o, << >>, a, t, 0) => o = << >>
<1>1. Len(<< >>) = 0
  OBVIOUS
<1>2. Accepted(<< >>, << >>, a, t, 0)
  BY <1>1 DEF Accepted
<1>3. ASSUME NEW o \in Seq(Owing), Accepted(o, << >>, a, t, 0)
      PROVE  o = << >>
  <2>1. Len(o) = 0
    BY <1>1, <1>3 DEF Accepted
  <2>. QED  BY <2>1, SeqSteps
<1>. QED  BY <1>2, <1>3

\* Which call is being served does not matter when it has no byte left.
LEMMA AcceptedOther ==
  ASSUME NEW o, NEW f, NEW a, NEW t, NEW u, Accepted(o, f, a, t, 0)
  PROVE  Accepted(o, f, a, u, 0)
BY DEF Accepted

\* A write is given n bytes.
LEMMA AcceptedCall ==
  ASSUME NEW o \in Seq(Owing), NEW f \in Seq(Bytes), NEW a \in Addrs, NEW t, NEW u \in {0, 1},
         NEW n \in 0 .. MaxLen, Accepted(o, f, a, t, 0)
  PROVE  Accepted(o \o [i \in 1 .. n |-> [to |-> a, byte |-> Whole(u, n)[i]]], f, a, u, n)
<1>. DEFINE G == [i \in 1 .. n |-> [to |-> a, byte |-> Whole(u, n)[i]]]
<1>1. G \in Seq(Owing) /\ n \in Nat
  BY GivenType, Bounds
<1>2. Len(G) = n
  BY <1>1
<1>3. \A i \in 1 .. n : G[i] = [to |-> a, byte |-> <<u, n + 1 - i>>]
  <2>1. \A i \in 1 .. n : Whole(u, n)[i] = <<u, n + 1 - i>>
    BY DEF Whole
  <2>. QED  BY <2>1
<1>. HIDE DEF G
<1>4. Len(f) \in Nat /\ Len(o) \in Nat /\ Len(o) = Len(f)
  BY SeqSteps DEF Accepted
<1>5. /\ Len(o \o G) = Len(o) + n
      /\ \A i \in 1 .. Len(o) : (o \o G)[i] = o[i]
      /\ \A i \in 1 .. n : (o \o G)[Len(o) + i] = G[i]
  <2>1. /\ Len(o \o G) = Len(o) + Len(G)
        /\ \A i \in 1 .. Len(o) + Len(G) :
             (o \o G)[i] = IF i <= Len(o) THEN o[i] ELSE G[i - Len(o)]
    BY <1>1, ConcatProperties
  <2>2. ASSUME NEW i \in 1 .. Len(o)
        PROVE  (o \o G)[i] = o[i]
    BY <1>1, <1>2, <1>4, <2>1
  <2>3. ASSUME NEW i \in 1 .. n
        PROVE  (o \o G)[Len(o) + i] = G[i]
    <3>1. Len(o) + i \in 1 .. Len(o) + Len(G) /\ ~(Len(o) + i <= Len(o)) /\ Len(o) + i - Len(o) = i
      BY <1>1, <1>2, <1>4
    <3>. QED  BY <2>1, <3>1
  <2>. QED  BY <1>2, <2>1, <2>2, <2>3
<1>6. Accepted(o \o G, f, a, u, n)
  <2>1. \A i \in 1 .. Len(f) : (o \o G)[i] = [to |-> a, byte |-> f[i]]
    BY <1>4, <1>5 DEF Accepted
  <2>2. \A i \in 1 .. n : (o \o G)[Len(f) + i] = [to |-> a, byte |-> <<u, n + 1 - i>>]
    BY <1>3, <1>4, <1>5
  <2>. QED  BY <1>4, <1>5, <2>1, <2>2 DEF Accepted
<1>. QED  BY <1>6 DEF G

\* As many bytes are on their way as the FIFO and the call hold.
LEMMA AcceptedLength ==
  ASSUME NEW o, NEW f, NEW a, NEW t, NEW r, Accepted(o, f, a, t, r)
  PROVE  Len(o) = Len(f) + r
BY DEF Accepted

-----------------------------------------------------------------------------
(***************************************************************************)
(* The controller keeps BusInv.                                            *)
(***************************************************************************)
\* The types BusInv is read with
LEMMA BusTypes ==
  ASSUME I2cTypes
  PROVE  /\ FIFO \in Seq(Bytes) /\ owed \in Seq(Owing) /\ Len(FIFO) \in Nat /\ Len(owed) \in Nat
         /\ (Len(FIFO) = 0 => FIFO = << >>) /\ (Len(owed) = 0 => owed = << >>)
         /\ Len(<< >>) = 0
         /\ DLEN \in Nat /\ DLEN <= Endless /\ len \in Nat /\ cur.n \in Nat /\ len <= cur.n
         /\ cur.n <= MaxLen /\ MaxLen \in Nat /\ Endless = MaxLen + 1
         /\ ret \in Int /\ A \in Addrs /\ to \in Addrs /\ turn \in {0, 1}
         /\ cur.f \in {"start", "write", "read"} /\ cur.stop \in BOOLEAN /\ cur.n \in 0 .. MaxLen
         /\ READ \in BOOLEAN /\ ST \in BOOLEAN /\ stopping \in BOOLEAN /\ continued \in BOOLEAN
<1>1. FIFO \in Seq(Bytes) /\ owed \in Seq(Owing)
  BY DEF I2cTypes, TypeOK, Owing
<1>2. /\ Len(FIFO) \in Nat /\ Len(owed) \in Nat /\ Len(<< >>) = 0
      /\ (Len(FIFO) = 0 => FIFO = << >>) /\ (Len(owed) = 0 => owed = << >>)
  BY <1>1, SeqSteps
<1>3. cur.f \in {"start", "write", "read"} /\ cur.stop \in BOOLEAN /\ cur.n \in 0 .. MaxLen
  BY DEF I2cTypes, PlaceInv, Calls
<1>4. /\ DLEN \in Nat /\ DLEN <= Endless /\ len \in Nat /\ cur.n \in Nat /\ len <= cur.n
      /\ cur.n <= MaxLen /\ MaxLen \in Nat /\ Endless = MaxLen + 1 /\ ret \in Int
  BY <1>3, Bounds DEF I2cTypes, TypeOK
<1>5. /\ A \in Addrs /\ to \in Addrs /\ turn \in {0, 1}
      /\ READ \in BOOLEAN /\ ST \in BOOLEAN /\ stopping \in BOOLEAN /\ continued \in BOOLEAN
  BY DEF I2cTypes, TypeOK
<1>. QED  BY <1>1, <1>2, <1>3, <1>4, <1>5

\* A start that was asked for is made.
LEMMA BusBegin ==
  ASSUME I2cTypes, BusInv, Begin
  PROVE  BusInv'
<1>. CallInv /\ BetweenInv /\ WriteInv /\ ReadInv /\ ScanInv
  BY DEF BusInv
<1>1. /\ ST /\ ST' = FALSE /\ S' = S \cup {"TA"} /\ bus' = "address" /\ to' = A
      /\ stopping' = FALSE
      /\ UNCHANGED <<FIFO, DLEN, A, READ, pc, cur, len, continued, ret, op, todo, toScan, found,
                     turn, owed, got>>
  BY DEF Begin, locals, script, history
<1>2. ~Free /\ ~Open /\ ~WriteOpen /\ ~Running /\ ~Stopped /\ ~Missed /\ ~Writing /\ ~Reading
  BY <1>1 DEF Free, Open, WriteOpen, Running, Stopped, Missed, Writing, Reading
<1>3. Begun => Begun'
  BY <1>1 DEF Begun, Unflagged, Active, Latched
<1>4. CallInv' /\ ScanInv'
  BY <1>1 DEF CallInv, ScanInv
<1>5. (Nothing' <=> Nothing) /\ (Stored' <=> Stored)
  BY <1>1 DEF Nothing, Stored
<1>6. BetweenInv' /\ WriteInv' /\ ReadInv'
  BY <1>1, <1>2, <1>3, <1>5 DEF BetweenInv, WriteInv, ReadInv, Between
<1>. QED  BY <1>4, <1>6 DEF BusInv

\* The places at which the bus has time to move, with a driver that is never
\* held up, and what the driver waits for there
LEMMA BusWaits ==
  ASSUME I2cTypes, BusInv, BusTime, bus # "free", Prompt
  PROVE  /\ ~ST
         /\ \/ pc = "script" /\ WriteOpen
            \/ pc = "abort" /\ WriteOpen /\ FIFO # << >>
            \/ pc \in {"wErr", "wDone", "wFill"} /\ Writing
            \/ pc = "ended" /\ Open /\ Nothing /\ stopping
            \/ /\ pc \in {"rErr", "rDone", "rData"} /\ FIFO = << >>
               /\ (Begun /\ Active /\ READ /\ Nothing /\ DLEN = len) \/ Reading
<1>. CallInv /\ BetweenInv /\ WriteInv /\ ReadInv /\ ScanInv
  BY DEF BusInv
<1>1. ~ST /\ Polling
  BY DEF BusTime
<1>2. ~Free /\ ~Stopped /\ ~Missed
  BY DEF Free, Stopped, Missed
<1>3. CASE pc = "script"
  BY <1>1, <1>2, <1>3 DEF BetweenInv, Between
<1>4. CASE pc = "abort"
  BY <1>1, <1>4 DEF BetweenInv, Polling, TXE
<1>5. CASE pc = "started"
  BY <1>1, <1>5 DEF Polling, WriteInv, Begun
<1>6. CASE pc \in {"wErr", "wDone", "wFill"}
  BY <1>1, <1>2, <1>6 DEF WriteInv
<1>7. CASE pc = "ended"
  BY <1>1, <1>2, <1>7 DEF WriteInv
<1>8. CASE pc \in {"rErr", "rDone", "rData"}
  <2>1. FIFO = << >>
    BY <1>1, <1>8 DEF Polling, RXD
  <2>. QED  BY <1>1, <1>2, <1>8, <2>1 DEF ReadInv, Begun
<1>9. CASE pc = "busy"
  BY <1>2, <1>9 DEF BetweenInv
<1>. QED  BY <1>1, <1>3, <1>4, <1>5, <1>6, <1>7, <1>8, <1>9 DEF Polling

\* What a step of the bus has to leave behind at the places it may come at
LEMMA BusMoves ==
  ASSUME I2cTypes, BusInv, UNCHANGED <<A, READ, ST, pc, cur, locals, script, turn, got>>,
         \/ pc = "script" /\ Between'
         \/ pc = "abort" /\ WriteOpen' /\ UNCHANGED to
         \/ pc \in {"wErr", "wDone", "wFill"}
              /\ \/ Writing'
                 \/ Stopped' /\ cur.stop /\ ~continued /\ len = 0
                 \/ Missed' /\ cur.stop /\ ~continued
         \/ /\ pc = "ended"
            /\ (Open' /\ to' = A /\ Nothing' /\ stopping') \/ Stopped'
         \/ pc \in {"rErr", "rDone", "rData"} /\ (Reading' \/ (Stopped' /\ len = 0) \/ Missed')
  PROVE  BusInv'
<1>. CallInv /\ BetweenInv /\ WriteInv /\ ReadInv /\ ScanInv
  BY DEF BusInv
<1>1. UNCHANGED <<A, READ, ST, pc, cur, len, continued, ret, op, todo, toScan, found, turn, got>>
  BY DEF locals, script
<1>2. CallInv' /\ ScanInv'
  BY <1>1 DEF CallInv, ScanInv
<1>3. Stored' <=> Stored
  BY <1>1 DEF Stored
<1>4. pc \in {"script", "abort", "wErr", "wDone", "wFill", "ended", "rErr", "rDone", "rData"}
  OBVIOUS
<1>5. BetweenInv'
  BY <1>1, <1>4 DEF BetweenInv
<1>6. WriteInv'
  BY <1>1, <1>4 DEF WriteInv
<1>7. ReadInv'
  BY <1>1, <1>3, <1>4 DEF ReadInv
<1>. QED  BY <1>2, <1>5, <1>6, <1>7 DEF BusInv

\* The slave is there, or no slave answers.
LEMMA BusAnswer ==
  ASSUME I2cTypes, BusInv, Answer \/ NoAnswer, Prompt
  PROVE  BusInv'
<1>. CallInv /\ BetweenInv /\ WriteInv /\ ReadInv /\ ScanInv
  BY DEF BusInv
<1>1. /\ bus = "address" /\ BusTime
      /\ UNCHANGED <<FIFO, DLEN, A, READ, ST, to, pc, cur, locals, script, turn, owed, got>>
  BY DEF Answer, NoAnswer, regs, history
<1>2. UNCHANGED <<cur, len, continued>>
  BY <1>1 DEF locals
<1>3. /\ ~ST
      /\ \/ pc = "script" /\ WriteOpen
         \/ pc = "abort" /\ WriteOpen /\ FIFO # << >>
         \/ pc \in {"wErr", "wDone", "wFill"} /\ Writing
         \/ pc = "ended" /\ Open /\ Nothing /\ stopping
         \/ /\ pc \in {"rErr", "rDone", "rData"} /\ FIFO = << >>
            /\ (Begun /\ Active /\ READ /\ Nothing /\ DLEN = len) \/ Reading
  BY <1>1, BusWaits
<1>4. CASE Answer
  <2>1. bus' = "data" /\ UNCHANGED <<S, stopping>> /\ to \in Slaves
    BY <1>4 DEF Answer, regs
  <2>2. Running => Running'
    BY <1>1, <2>1 DEF Running, Active, Unflagged
  <2>3. Open => Open'
    BY <1>1, <2>1, <2>2 DEF Open
  <2>4. WriteOpen => WriteOpen'
    BY <1>1, <2>1, <2>3 DEF WriteOpen, Nothing
  <2>5. Writing => Writing'
    BY <1>1, <1>2, <2>1, <2>2 DEF Writing
  <2>6. Reading => Reading'
    BY <1>1, <1>2, <2>1, <2>2 DEF Reading
  <2>7. Begun /\ Active /\ READ /\ Nothing /\ DLEN = len => Reading'
    BY <1>1, <1>2, <1>3, <2>1 DEF Begun, Nothing, Reading, Running, Active, Unflagged
  <2>8. Open /\ Nothing /\ stopping /\ pc = "ended" =>
          Open' /\ to' = A /\ Nothing' /\ stopping'
    <3>1. Open /\ pc = "ended" => to = A
      BY DEF WriteInv, Open, Running, Stopped, Free
    <3>. QED  BY <1>1, <2>1, <2>3, <3>1 DEF Nothing
  <2>. QED
    BY <1>1, <1>3, <2>4, <2>5, <2>6, <2>7, <2>8, BusMoves DEF Between
<1>5. CASE NoAnswer
  <2>1. /\ to \notin Slaves /\ bus' = "free" /\ stopping' = FALSE
        /\ \E e \in {"ERR", "CLKT"} : S' = (S \ {"TA"}) \cup {e}
    BY <1>5 DEF NoAnswer
  <2>2. ~Open /\ ~WriteOpen
    BY <2>1 DEF Open, WriteOpen
  <2>3. Unflagged => ~Active' /\ Failed' /\ "DONE" \notin S'
    BY <2>1 DEF Unflagged, Active, Failed, Latched
  <2>4. CASE pc \in {"wErr", "wDone", "wFill"} /\ Writing
    <3>1. A \notin Slaves /\ Unflagged /\ ~continued
      BY <2>1, <2>4 DEF Writing, Running
    <3>2. cur.f = "write"
      BY <2>4 DEF I2cTypes, PlaceInv, WritePcs
    <3>3. op = "scan" /\ cur.stop /\ cur.n = 0
      BY <2>4, <3>1, <3>2 DEF CallInv
    <3>4. Len(owed) = Len(FIFO) + len /\ Len(FIFO) + len <= 0
      BY <2>4, <3>1, <3>3, AcceptedLength DEF Writing
    <3>5. Nothing
      BY <3>4, BusTypes DEF Nothing
    <3>6. Missed'
      BY <1>1, <1>3, <2>1, <2>3, <3>1, <3>5 DEF Missed, Free, Nothing, Active, Failed
    <3>. QED  BY <1>1, <2>4, <3>1, <3>3, <3>6, BusMoves
  <2>5. CASE /\ pc \in {"rErr", "rDone", "rData"} /\ FIFO = << >>
             /\ (Begun /\ Active /\ READ /\ Nothing /\ DLEN = len) \/ Reading
    <3>1. A \notin Slaves /\ Unflagged /\ Nothing
      BY <1>3, <2>1, <2>5 DEF Begun, Reading, Running, Nothing
    <3>2. Missed'
      BY <1>1, <1>3, <2>1, <2>3, <3>1 DEF Missed, Free, Nothing, Active, Failed
    <3>. QED  BY <1>1, <2>5, <3>2, BusMoves
  <2>. QED  BY <1>3, <2>2, <2>4, <2>5
<1>. QED  BY <1>4, <1>5

\* A byte goes to the slave: the one it is owed.
LEMMA BusTransmit ==
  ASSUME I2cTypes, BusInv, Transmit, Prompt
  PROVE  /\ owed # << >> /\ Head(owed) = [to |-> to, byte |-> Head(FIFO)]
         /\ BusInv'
<1>. CallInv /\ BetweenInv /\ WriteInv /\ ReadInv /\ ScanInv
  BY DEF BusInv
<1>. /\ FIFO \in Seq(Bytes) /\ owed \in Seq(Owing) /\ DLEN \in Nat /\ len \in Nat
     /\ Len(FIFO) \in Nat /\ cur.n \in Nat /\ cur.n <= MaxLen /\ MaxLen \in Nat
     /\ Endless = MaxLen + 1
  BY BusTypes
<1>1. /\ bus = "data" /\ BusTime /\ ~READ /\ ~stopping /\ FIFO # << >> /\ FIFO' = Tail(FIFO)
      /\ owed' = (IF owed = << >> THEN owed ELSE Tail(owed))
      /\ DLEN' = (IF DLEN = Endless THEN DLEN ELSE DLEN - 1)
      /\ UNCHANGED <<S, A, READ, ST, bus, to, stopping, pc, cur, locals, script, turn, got>>
  BY DEF Transmit, Moved, wires
<1>2. UNCHANGED <<len, continued>>
  BY <1>1 DEF locals
<1>3. \/ pc = "script" /\ WriteOpen
      \/ pc = "abort" /\ WriteOpen
      \/ pc \in {"wErr", "wDone", "wFill"} /\ Writing
  BY <1>1, BusWaits DEF Nothing, Reading
<1>4. Running => Running'
  BY <1>1 DEF Running, Active, Unflagged
<1>5. CASE pc \in {"script", "abort"} /\ WriteOpen
  <2>1. /\ owed # << >> /\ Head(owed) = [to |-> to, byte |-> Head(FIFO)]
        /\ Accepted(Tail(owed), Tail(FIFO), to, turn, 0)
    BY <1>1, <1>5, AcceptedTail DEF WriteOpen
  <2>2. Open'
    BY <1>1, <1>4, <1>5 DEF WriteOpen, Open
  <2>3. WriteOpen'
    BY <1>1, <2>1, <2>2 DEF WriteOpen
  <2>. QED  BY <1>1, <1>5, <2>1, <2>3, BusMoves DEF Between
<1>6. CASE pc \in {"wErr", "wDone", "wFill"} /\ Writing
  <2>1. to = A /\ Accepted(owed, FIFO, A, turn, len)
    BY <1>6 DEF Writing
  <2>2. /\ owed # << >> /\ Head(owed) = [to |-> to, byte |-> Head(FIFO)]
        /\ Accepted(Tail(owed), Tail(FIFO), A, turn, len)
        /\ Len(Tail(owed)) = Len(owed) - 1 /\ Len(Tail(FIFO)) = Len(FIFO) - 1
        /\ Len(owed) \in Nat
    BY <1>1, <2>1, AcceptedTail
  <2>3. owed' = Tail(owed) /\ FIFO' = Tail(FIFO)
    BY <1>1, <2>2
  <2>4. DLEN' = (IF cur.stop /\ ~continued THEN Len(owed') ELSE Endless)
    <3>1. CASE cur.stop /\ ~continued
      <4>1. DLEN = Len(owed) /\ Len(FIFO) + len <= cur.n /\ Len(owed) = Len(FIFO) + len
        BY <1>6, <2>1, <3>1, AcceptedLength DEF Writing
      <4>2. DLEN # Endless
        BY <4>1
      <4>. QED  BY <1>1, <2>2, <2>3, <3>1, <4>1, <4>2
    <3>2. CASE ~(cur.stop /\ ~continued)
      BY <1>1, <1>6, <3>2 DEF Writing
    <3>. QED  BY <3>1, <3>2
  <2>5. ~continued => Len(FIFO') + len <= cur.n
    <3>1. ~continued => Len(FIFO) + len <= cur.n
      BY <1>6 DEF Writing
    <3>2. Len(FIFO') = Len(FIFO) - 1
      BY <2>2, <2>3
    <3>. QED  BY <3>1, <3>2
  <2>6. Writing'
    BY <1>1, <1>2, <1>4, <1>6, <2>2, <2>3, <2>4, <2>5 DEF Writing
  <2>. QED  BY <1>1, <1>6, <2>2, <2>6, BusMoves
<1>. QED  BY <1>3, <1>5, <1>6

\* A byte comes from the slave: the next one of the call's, and the FIFO was empty.
LEMMA BusReceive ==
  ASSUME I2cTypes, BusInv, Receive, Prompt
  PROVE  BusInv'
<1>. DLEN \in Nat /\ len \in Nat /\ len <= cur.n /\ cur.n <= MaxLen /\ cur.n \in Nat
     /\ MaxLen \in Nat /\ Endless = MaxLen + 1
  BY BusTypes
<1>1. /\ bus = "data" /\ BusTime /\ READ /\ DLEN # 0 /\ FIFO' = Append(FIFO, <<turn, DLEN>>)
      /\ DLEN' = (IF DLEN = Endless THEN DLEN ELSE DLEN - 1)
      /\ UNCHANGED <<S, A, READ, ST, bus, to, stopping, pc, cur, locals, script, turn, owed, got>>
  BY DEF Receive, Moved, wires, history
<1>2. UNCHANGED len
  BY <1>1 DEF locals
<1>3. pc \in {"rErr", "rDone", "rData"} /\ FIFO = << >> /\ Reading
  <2>1. ~WriteOpen /\ ~Open /\ ~Writing /\ ~(Begun /\ Active)
    BY <1>1, BusWaits DEF WriteOpen, Open, Writing, Begun
  <2>. QED  BY <1>1, <2>1, BusWaits
<1>4. DLEN = len /\ DLEN' = len - 1 /\ len > 0
  BY <1>1, <1>3 DEF Reading
<1>5. FIFO' = <<<<turn, len>>>>
  BY <1>1, <1>3, <1>4
<1>6. Reading'
  BY <1>1, <1>2, <1>3, <1>4, <1>5 DEF Reading, Running, Active, Unflagged
<1>. QED  BY <1>1, <1>3, <1>6, BusMoves

\* The transfer stops: with all of its bytes moved, or as the FIFO was cleared.
LEMMA BusFinish ==
  ASSUME I2cTypes, BusInv, Finish, Prompt
  PROVE  BusInv'
<1>. CallInv /\ BetweenInv /\ WriteInv /\ ReadInv /\ ScanInv
  BY DEF BusInv
<1>. /\ DLEN \in Nat /\ len \in Nat /\ Len(FIFO) \in Nat /\ Endless # 0
  BY BusTypes
<1>1. /\ bus = "data" /\ BusTime /\ (DLEN = 0 \/ stopping) /\ S' = (S \ {"TA"}) \cup {"DONE"}
      /\ bus' = "free" /\ stopping' = FALSE
      /\ UNCHANGED <<FIFO, DLEN, A, READ, ST, to, pc, cur, locals, script, turn, owed, got>>
  BY DEF Finish, history
<1>2. UNCHANGED <<len, cur, continued>>
  BY <1>1 DEF locals
<1>3. /\ ~ST
      /\ \/ pc = "script" /\ WriteOpen
         \/ pc = "abort" /\ WriteOpen /\ FIFO # << >>
         \/ pc \in {"wErr", "wDone", "wFill"} /\ Writing
         \/ pc = "ended" /\ Open /\ Nothing /\ stopping
         \/ /\ pc \in {"rErr", "rDone", "rData"} /\ FIFO = << >>
            /\ (Begun /\ Active /\ READ /\ Nothing /\ DLEN = len) \/ Reading
  BY <1>1, BusWaits
<1>4. /\ Unflagged => ~Failed'
      /\ Free' /\ "DONE" \in S'
      /\ Nothing' <=> Nothing
  BY <1>1, <1>3 DEF Unflagged, Failed, Free, Active, Latched, Nothing
<1>5. ASSUME Unflagged, Nothing, A \in Slaves
      PROVE  Stopped'
  BY <1>1, <1>4, <1>5 DEF Stopped
<1>6. WriteOpen => Nothing
  BY <1>1 DEF WriteOpen, Open
<1>7. CASE pc = "script" /\ WriteOpen
  BY <1>1, <1>4, <1>6, <1>7, BusMoves DEF Between
<1>8. CASE pc = "abort" /\ WriteOpen /\ FIFO # << >>
  BY <1>6, <1>8 DEF Nothing
<1>9. CASE pc \in {"wErr", "wDone", "wFill"} /\ Writing
  <2>1. /\ DLEN = 0 /\ cur.stop /\ ~continued /\ Len(owed) = 0 /\ A \in Slaves /\ Unflagged
    BY <1>1, <1>9 DEF Writing, Running
  <2>2. Len(owed) = Len(FIFO) + len
    BY <1>9, AcceptedLength DEF Writing
  <2>3. Len(FIFO) = 0 /\ len = 0
    <3>1. Len(FIFO) \in Nat /\ len \in Nat /\ Len(FIFO) + len = 0
      BY <2>1, <2>2, BusTypes
    <3>. QED  BY <3>1
  <2>4. Nothing
    BY <2>1, <2>3, BusTypes DEF Nothing
  <2>. QED  BY <1>1, <1>5, <1>9, <2>1, <2>3, <2>4, BusMoves
<1>10. CASE pc = "ended" /\ Open /\ Nothing /\ stopping
  <2>1. Unflagged /\ A \in Slaves
    BY <1>10 DEF WriteInv, Open, Running, Stopped
  <2>. QED  BY <1>1, <1>5, <1>10, <2>1, BusMoves
<1>11. CASE /\ pc \in {"rErr", "rDone", "rData"} /\ FIFO = << >>
            /\ (Begun /\ Active /\ READ /\ Nothing /\ DLEN = len) \/ Reading
  <2>1. Reading
    BY <1>1, <1>3, <1>11 DEF Begun
  <2>2. DLEN = 0 /\ len = 0 /\ Unflagged /\ Nothing /\ A \in Slaves
    BY <1>1, <1>11, <2>1 DEF Reading, Running, Nothing
  <2>. QED  BY <1>1, <1>5, <1>11, <2>2, BusMoves
<1>. QED  BY <1>3, <1>7, <1>8, <1>9, <1>10, <1>11

-----------------------------------------------------------------------------
(***************************************************************************)
(* The driver keeps BusInv.                                                *)
(***************************************************************************)
\* A step that changes nothing but the driver's place changes no state of the bus.
LEMMA SameBus ==
  ASSUME UNCHANGED <<regs, wires, cur, len, continued, history>>
  PROVE  /\ (Free' <=> Free) /\ (Nothing' <=> Nothing) /\ (Open' <=> Open)
         /\ (Unflagged' <=> Unflagged) /\ (Begun' <=> Begun) /\ (Stopped' <=> Stopped)
         /\ (Missed' <=> Missed) /\ (Running' <=> Running)
         /\ (WriteOpen' <=> WriteOpen) /\ (Between' <=> Between)
         /\ (Writing' <=> Writing) /\ (Reading' <=> Reading) /\ (Stored' <=> Stored)
         /\ (Active' <=> Active) /\ (Failed' <=> Failed)
         /\ UNCHANGED <<S, FIFO, DLEN, A, READ, ST, bus, to, stopping, turn, owed, got>>
<1>1. UNCHANGED <<S, FIFO, DLEN, A, READ, ST, bus, to, stopping, turn, owed, got, cur, len,
                  continued>>
  BY DEF regs, wires, history
<1>2. (Active' <=> Active) /\ (Failed' <=> Failed) /\ (Unflagged' <=> Unflagged)
      /\ (Nothing' <=> Nothing)
  BY <1>1 DEF Active, Failed, Unflagged, Nothing
<1>3. (Free' <=> Free) /\ (Begun' <=> Begun) /\ (Running' <=> Running)
  BY <1>1, <1>2 DEF Free, Begun, Running
<1>4. (Open' <=> Open) /\ (Stopped' <=> Stopped) /\ (Missed' <=> Missed)
  BY <1>1, <1>2, <1>3 DEF Open, Stopped, Missed
<1>5. (WriteOpen' <=> WriteOpen) /\ (Writing' <=> Writing) /\ (Reading' <=> Reading)
      /\ (Stored' <=> Stored)
  BY <1>1, <1>2, <1>3, <1>4 DEF WriteOpen, Writing, Reading, Stored
<1>6. Between' <=> Between
  BY <1>2, <1>3, <1>5 DEF Between
<1>. QED  BY <1>1, <1>2, <1>3, <1>4, <1>5, <1>6

\* Within a call nothing changes that CallInv and ScanInv speak of.
LEMMA SameCalls ==
  ASSUME CallInv, ScanInv, UNCHANGED <<A, cur, op, todo, toScan, found>>,
         pc \notin {"script", "busy"}, pc' \notin {"script", "busy"}
  PROVE  CallInv' /\ ScanInv'
BY DEF CallInv, ScanInv

\* Some states of the bus exclude each other.
LEMMA Apart ==
  /\ Free => /\ ~Open /\ ~Running /\ ~Writing /\ ~Reading /\ ~Begun /\ ~WriteOpen
             /\ ~Active /\ ~WriteActive
  /\ Open => Active /\ WriteActive /\ Running /\ Unflagged /\ ~READ /\ to \in Slaves
  /\ WriteOpen => Open
  /\ Writing => Running /\ ~READ
  /\ Reading => Running /\ READ
  /\ Running => Unflagged /\ ~Failed /\ "DONE" \notin S /\ Active /\ ~Free
  /\ Begun => Unflagged /\ ~Failed /\ "DONE" \notin S
  /\ Stopped => Free /\ Nothing /\ "DONE" \in S /\ ~Failed /\ A \in Slaves
  /\ Missed => Free /\ Nothing /\ "DONE" \notin S /\ Failed /\ A \notin Slaves
<1>1. Unflagged => ~Failed /\ "DONE" \notin S
  BY DEF Unflagged, Failed, Latched
<1>2. Free => /\ ~Open /\ ~Running /\ ~Writing /\ ~Reading /\ ~Begun /\ ~WriteOpen
              /\ ~Active /\ ~WriteActive
  BY DEF Free, Open, Running, Writing, Reading, Begun, WriteOpen, WriteActive
<1>3. /\ Open => Active /\ WriteActive /\ Running /\ Unflagged /\ ~READ /\ to \in Slaves
      /\ WriteOpen => Open
      /\ Writing => Running /\ ~READ
      /\ Reading => Running /\ READ
      /\ Running => Active /\ Unflagged /\ ~Free
      /\ Begun => Unflagged
  BY DEF Open, WriteOpen, Writing, Reading, Running, WriteActive, Begun, Free
<1>4. /\ Stopped => Free /\ Nothing /\ "DONE" \in S /\ ~Failed /\ A \in Slaves
      /\ Missed => Free /\ Nothing /\ "DONE" \notin S /\ Failed /\ A \notin Slaves
  BY DEF Stopped, Missed
<1>. QED  BY <1>1, <1>2, <1>3, <1>4

\* The first look at the bus, and the wait for an empty FIFO
LEMMA BusChecks ==
  ASSUME I2cTypes, BusInv, Checks \/ AbortWaits
  PROVE  BusInv'
<1>. CallInv /\ BetweenInv /\ WriteInv /\ ReadInv /\ ScanInv
  BY DEF BusInv
<1>1. UNCHANGED <<regs, wires, cur, len, continued, ret, op, todo, toScan, found, history>>
  BY DEF Checks, AbortWaits, Step, locals, script
<1>2. CASE Checks
  <2>1. /\ pc \in {"wsCheck", "rCheck"} /\ pc' = IF WriteActive THEN "abort" ELSE "flags"
    BY <1>2 DEF Checks, Step, Goto
  <2>2. Between /\ cur.f # "write"
    BY <2>1, BusTypes DEF BetweenInv, I2cTypes, PlaceInv, ReadPcs
  <2>3. CASE WriteActive
    <3>1. WriteOpen /\ pc' = "abort"
      BY <2>1, <2>2, <2>3, Apart DEF Between
    <3>2. cur.f = "read" => len = cur.n
      BY <2>1 DEF ReadInv, I2cTypes, PlaceInv, ReadPcs
    <3>. QED
      BY <1>1, <2>1, <2>2, <3>1, <3>2, SameBus, SameCalls DEF BusInv, BetweenInv, WriteInv, ReadInv
  <2>4. CASE ~WriteActive
    <3>1. Free /\ Nothing /\ pc' = "flags"
      BY <2>1, <2>2, <2>4, Apart DEF Between
    <3>2. cur.f = "read" => len = cur.n
      BY <2>1 DEF ReadInv, I2cTypes, PlaceInv, ReadPcs
    <3>. QED
      BY <1>1, <2>1, <2>2, <3>1, <3>2, SameBus, SameCalls DEF BusInv, BetweenInv, WriteInv, ReadInv
  <2>. QED  BY <2>3, <2>4
<1>3. CASE AbortWaits
  <2>1. pc = "abort" /\ pc' = "clear" /\ FIFO = << >>
    BY <1>3 DEF AbortWaits, Step, Goto, TXE
  <2>2. WriteOpen /\ (cur.f = "write" => cur.stop /\ to = A) /\ (cur.f = "read" => len = cur.n)
    BY <2>1 DEF BetweenInv, ReadInv
  <2>3. owed = << >>
    BY <2>1, <2>2, AcceptedNone, BusTypes DEF WriteOpen
  <2>4. Open /\ Nothing
    BY <2>1, <2>2, <2>3 DEF WriteOpen, Nothing
  <2>. QED
    BY <1>1, <2>1, <2>2, <2>4, SameBus, SameCalls DEF BusInv, BetweenInv, WriteInv, ReadInv
<1>. QED  BY <1>2, <1>3

\* i2c_abort_write clears the FIFO of an active write: a stop follows, unless a
\* start comes first.
LEMMA BusClears ==
  ASSUME I2cTypes, BusInv, AbortClears
  PROVE  BusInv'
<1>. CallInv /\ BetweenInv /\ WriteInv /\ ReadInv /\ ScanInv
  BY DEF BusInv
<1>1. /\ pc = "clear" /\ FIFO' = << >> /\ stopping' = WriteActive /\ pc' = After[cur.f]
      /\ UNCHANGED <<S, DLEN, A, READ, ST, bus, to, cur, len, continued, ret, op, todo, toScan,
                     found, turn, owed, got>>
  BY DEF AbortClears, ClearFifo, Goto, locals, script, history
<1>2. /\ Open /\ Nothing /\ (cur.f = "write" => cur.stop /\ to = A)
      /\ (cur.f = "read" => len = cur.n)
  BY <1>1 DEF BetweenInv, ReadInv
<1>3. stopping' = TRUE
  BY <1>1, <1>2 DEF Open, Running, WriteActive
<1>4. Open' /\ Nothing'
  BY <1>1, <1>2 DEF Open, Running, Active, Unflagged, Nothing
<1>5. /\ cur.f = "start" => pc' = "flags"
      /\ cur.f = "write" => pc' = "ended"
      /\ cur.f = "read" => pc' = "rStart"
  BY <1>1 DEF After
<1>6. CallInv' /\ ScanInv'
  BY <1>1, <1>5, BusTypes, SameCalls
<1>7. BetweenInv' /\ WriteInv' /\ ReadInv'
  BY <1>1, <1>2, <1>3, <1>4, <1>5, BusTypes DEF BetweenInv, WriteInv, ReadInv
<1>. QED  BY <1>6, <1>7 DEF BusInv

\* The flags of the transfer before are cleared.
LEMMA BusFlags ==
  ASSUME I2cTypes, BusInv, Flags
  PROVE  BusInv'
<1>. CallInv /\ BetweenInv /\ WriteInv /\ ReadInv /\ ScanInv
  BY DEF BusInv
<1>1. /\ pc = "flags" /\ S' = S \ Latched /\ READ' = (READ /\ cur.f = "read")
      /\ pc' = Starting[cur.f]
      /\ UNCHANGED <<FIFO, DLEN, A, ST, bus, to, stopping, cur, len, continued, ret, op, todo,
                     toScan, found, turn, owed, got>>
  BY DEF Flags, ClearFlags, Goto, wires, locals, script, history
<1>2. /\ cur.f = "start" => pc' = "wsStart"
      /\ cur.f = "write" => pc' = "wPreload"
      /\ cur.f = "read" => pc' = "rStart"
  BY <1>1 DEF Starting
<1>3. Unflagged' /\ (Active' <=> Active) /\ (Nothing' <=> Nothing)
  BY <1>1 DEF Unflagged, Active, Latched, Nothing
<1>4. (Free => Free') /\ (Begun => Begun')
  BY <1>1, <1>3 DEF Free, Begun
<1>5. Open => Open'
  BY <1>1, <1>3 DEF Open, Running
<1>6. CallInv' /\ ScanInv'
  BY <1>1, <1>2, BusTypes, SameCalls
<1>7. CASE cur.f = "start"
  BY <1>1, <1>2, <1>3, <1>4, <1>5, <1>6, <1>7 DEF BusInv, BetweenInv, WriteInv, ReadInv
<1>8. CASE cur.f = "read"
  BY <1>1, <1>2, <1>3, <1>4, <1>6, <1>8 DEF BusInv, BetweenInv, WriteInv, ReadInv
<1>9. CASE cur.f = "write"
  <2>1. /\ len = cur.n /\ FIFO = << >> /\ Accepted(owed, FIFO, A, turn, len)
        /\ (Free \/ Begun) /\ ~continued
    BY <1>1, <1>9 DEF WriteInv
  <2>2. Len(FIFO) + len = cur.n
    BY <2>1, BusTypes
  <2>. QED
    BY <1>1, <1>2, <1>3, <1>4, <1>6, <1>9, <2>1, <2>2 DEF BusInv, BetweenInv, WriteInv, ReadInv
<1>. QED  BY <1>7, <1>8, <1>9, BusTypes

\* i2c_result
LEMMA BusResult ==
  ASSUME I2cTypes, BusInv, Result
  PROVE  BusInv'
<1>. CallInv /\ BetweenInv /\ WriteInv /\ ReadInv /\ ScanInv
  BY DEF BusInv
<1>1. /\ pc = "result" /\ S' = S \ Latched /\ pc' = "back" /\ owed' = << >>
      /\ ret' = (IF "ERR" \in S THEN -1 ELSE -2)
      /\ UNCHANGED <<FIFO, DLEN, A, READ, ST, bus, to, stopping, cur, len, continued, op, todo,
                     toScan, found, turn, got>>
  BY DEF Result, ClearFlags, Return, Goto, wires, script
<1>2. Missed /\ cur.f # "start" /\ cur.stop
  BY <1>1 DEF BetweenInv
<1>3. ret' < 0
  BY <1>1
<1>4. Free' /\ Nothing' /\ A' \notin Slaves
  BY <1>1, <1>2, Apart DEF Free, Active, Nothing, Latched
<1>5. CallInv' /\ ScanInv'
  BY <1>1, SameCalls
<1>. QED
  BY <1>1, <1>2, <1>3, <1>4, <1>5 DEF BusInv, BetweenInv, WriteInv, ReadInv

\* A start is asked for, or made again on an open transfer.
LEMMA Starts ==
  ASSUME I2cTypes, SetStart, UNCHANGED <<S, A>>,
         (Free /\ Unflagged) \/ Begun \/ Open
  PROVE  Begun'
<1>1. CASE Active
  <2>1. ST' = FALSE /\ bus' = "address" /\ to' = A /\ stopping' = FALSE /\ Unflagged
    BY <1>1 DEF SetStart, Begun, Open, Running
  <2>. QED  BY <1>1, <2>1 DEF Begun, Unflagged, Active
<1>2. CASE ~Active
  <2>1. ST' = TRUE /\ UNCHANGED <<bus, to, stopping>>
    BY <1>2 DEF SetStart, wires
  <2>2. bus = "free" /\ ~stopping /\ Unflagged
    BY <1>2 DEF Begun, Free, Open, Running
  <2>. QED  BY <1>2, <2>1, <2>2 DEF Begun, Unflagged, Active
<1>. QED  BY <1>1, <1>2

\* i2c_write_start starts an endless write.
LEMMA BusStartStarts ==
  ASSUME I2cTypes, BusInv, StartStarts
  PROVE  BusInv'
<1>. CallInv /\ BetweenInv /\ WriteInv /\ ReadInv /\ ScanInv
  BY DEF BusInv
<1>1. /\ pc = "wsStart" /\ DLEN' = Endless /\ SetStart /\ pc' = "back" /\ ret' = 0
      /\ UNCHANGED <<S, FIFO, A, READ, cur, len, continued, op, todo, toScan, found, turn, owed,
                     got>>
  BY DEF StartStarts, Return, Goto, script, history
<1>2. (Free \/ Open) /\ Nothing /\ Unflagged
  BY <1>1 DEF BetweenInv
<1>3. Begun' /\ Nothing'
  BY <1>1, <1>2, Starts DEF Nothing
<1>4. ~READ' /\ cur.f = "start"
  BY <1>1 DEF I2cTypes, PlaceInv
<1>5. CallInv' /\ ScanInv'
  BY <1>1, SameCalls
<1>. QED
  BY <1>1, <1>3, <1>4, <1>5 DEF BusInv, BetweenInv, WriteInv, ReadInv

\* i2c_write's look at the bus: it goes on with the transfer it finds active.
LEMMA BusWriteChecks ==
  ASSUME I2cTypes, BusInv, WriteChecks
  PROVE  BusInv'
<1>. CallInv /\ BetweenInv /\ WriteInv /\ ReadInv /\ ScanInv
  BY DEF BusInv
<1>1. /\ pc = "wCheck" /\ continued' = WriteActive
      /\ pc' = (IF WriteActive THEN "wErr" ELSE "flags")
      /\ UNCHANGED <<S, FIFO, DLEN, A, READ, ST, bus, to, stopping, cur, len, ret, op, todo,
                     toScan, found, turn, owed, got>>
  BY DEF WriteChecks, Goto, regs, wires, script, history
<1>2. cur.f = "write" /\ len = cur.n /\ Accepted(owed, FIFO, A, turn, len)
  BY <1>1 DEF WriteInv, I2cTypes, PlaceInv, WritePcs
<1>3. \/ Free /\ FIFO = << >>
      \/ Begun /\ ~READ /\ FIFO = << >> /\ DLEN = Endless /\ A \in Slaves
      \/ Open /\ to = A /\ ~stopping
  BY <1>1 DEF WriteInv
<1>4. CallInv' /\ ScanInv'
  BY <1>1, SameCalls
<1>5. CASE WriteActive
  <2>1. /\ ~ST /\ Active /\ Unflagged /\ bus \in {"address", "data"} /\ ~READ /\ DLEN = Endless
        /\ to = A /\ ~stopping /\ A \in Slaves
    BY <1>3, <1>5, Apart DEF Begun, Open, Running, WriteActive
  <2>2. Writing'
    BY <1>1, <1>2, <1>5, <2>1 DEF Writing, Running, Active, Unflagged
  <2>. QED
    BY <1>1, <1>4, <1>5, <2>2 DEF BusInv, BetweenInv, WriteInv, ReadInv
<1>6. CASE ~WriteActive
  <2>1. FIFO = << >> /\ (Free \/ Begun) /\ ~continued'
    BY <1>1, <1>3, <1>6, Apart
  <2>2. Free' \/ Begun'
    BY <1>1, <2>1 DEF Free, Begun, Active, Unflagged
  <2>. QED
    BY <1>1, <1>2, <1>4, <1>6, <2>1, <2>2 DEF BusInv, BetweenInv, WriteInv, ReadInv
<1>. QED  BY <1>5, <1>6

\* A byte of the call goes into the FIFO.
LEMMA BusPush ==
  ASSUME I2cTypes, BusInv, Push
  PROVE  BusInv'
<1>. CallInv /\ BetweenInv /\ WriteInv /\ ReadInv /\ ScanInv
  BY DEF BusInv
<1>. /\ FIFO \in Seq(Bytes) /\ owed \in Seq(Owing) /\ len \in Nat /\ len <= cur.n
     /\ cur.n \in Nat /\ cur.n <= MaxLen /\ MaxLen \in Nat /\ Len(FIFO) \in Nat
     /\ turn \in {0, 1}
  BY BusTypes
<1>1. /\ pc \in {"wPreload", "wFill"} /\ len # 0 /\ FIFO' = Append(FIFO, <<turn, len>>)
      /\ len' = len - 1
      /\ UNCHANGED <<S, DLEN, A, READ, ST, bus, to, stopping, pc, cur, continued, ret, op, todo,
                     toScan, found, turn, owed, got>>
  BY DEF Push, wires, script, history
<1>2. CallInv' /\ ScanInv' /\ cur.f = "write"
  BY <1>1, SameCalls DEF I2cTypes, PlaceInv, WritePcs
<1>3. len \in 1 .. MaxLen /\ <<turn, len>> \in Bytes
  BY <1>1, Bounds
<1>4. Len(FIFO') = Len(FIFO) + 1
  BY <1>1, <1>3, SeqSteps
<1>5. Accepted(owed, FIFO, A, turn, len) => Accepted(owed', FIFO', A', turn', len')
  BY <1>1, <1>3, AcceptedPush
<1>6. CASE pc = "wPreload"
  <2>1. /\ Len(FIFO) + len = cur.n /\ Accepted(owed, FIFO, A, turn, len)
        /\ (Free /\ Unflagged) \/ Begun
        /\ ~continued
    BY <1>6 DEF WriteInv
  <2>2. (Free' /\ Unflagged') \/ Begun'
    BY <1>1, <2>1 DEF Free, Begun, Active, Unflagged
  <2>3. Len(FIFO') + len' = cur.n
    BY <1>1, <1>4, <2>1
  <2>. QED
    BY <1>1, <1>2, <1>5, <1>6, <2>1, <2>2, <2>3 DEF BusInv, BetweenInv, WriteInv, ReadInv
<1>7. CASE pc = "wFill"
  <2>1. Writing
    <3>1. \/ Writing
          \/ Stopped /\ len = 0
          \/ Missed
      BY <1>7 DEF WriteInv
    <3>2. Missed => len = 0
      <4>1. A \notin Slaves => op = "scan" /\ cur.n = 0
        BY <1>1, <1>2 DEF CallInv
      <4>. QED  BY <4>1, Apart
    <3>. QED  BY <1>1, <3>1, <3>2
  <2>2. Len(FIFO') + len' = Len(FIFO) + len
    BY <1>1, <1>4
  <2>3. Running'
    BY <1>1, <2>1 DEF Writing, Running, Active, Unflagged
  <2>4. ~continued' => Len(FIFO') + len' <= cur'.n
    BY <1>1, <2>1, <2>2 DEF Writing
  <2>5. Writing'
    BY <1>1, <1>5, <2>1, <2>3, <2>4 DEF Writing
  <2>. QED
    BY <1>1, <1>2, <1>7, <2>5 DEF BusInv, BetweenInv, WriteInv, ReadInv
<1>. QED  BY <1>1, <1>6, <1>7

\* A transfer of the call's length, or an endless one, is started.
LEMMA BusWriteStarts ==
  ASSUME I2cTypes, BusInv, WriteStarts
  PROVE  BusInv'
<1>. CallInv /\ BetweenInv /\ WriteInv /\ ReadInv /\ ScanInv
  BY DEF BusInv
<1>1. /\ pc = "wPreload" /\ pc' = "started" /\ SetStart
      /\ DLEN' = (IF cur.stop THEN cur.n ELSE Endless)
      /\ UNCHANGED <<S, FIFO, A, READ, cur, len, continued, ret, op, todo, toScan, found, turn,
                     owed, got>>
  BY DEF WriteStarts, Goto, locals, script, history
<1>2. /\ Len(FIFO) + len = cur.n /\ Accepted(owed, FIFO, A, turn, len)
      /\ (Free /\ Unflagged) \/ Begun
      /\ ~continued
  BY <1>1 DEF WriteInv
<1>3. Begun' /\ ~READ
  BY <1>1, <1>2, Starts DEF I2cTypes, PlaceInv
<1>4. Len(owed) = cur.n
  BY <1>2, AcceptedLength
<1>5. CallInv' /\ ScanInv' /\ cur.f = "write"
  BY <1>1, SameCalls DEF I2cTypes, PlaceInv, WritePcs
<1>. QED
  BY <1>1, <1>2, <1>3, <1>4, <1>5 DEF BusInv, BetweenInv, WriteInv, ReadInv

\* The loop of i2c_write: the transfer has begun, the errors, the stop and the
\* bytes that are left.
LEMMA BusWriteLoop ==
  ASSUME I2cTypes, BusInv, WriteStarted \/ WriteErr \/ WriteDone \/ WriteFilled
  PROVE  BusInv'
<1>. CallInv /\ BetweenInv /\ WriteInv /\ ReadInv /\ ScanInv
  BY DEF BusInv
<1>1. /\ pc \in {"started", "wErr", "wDone", "wFill"} /\ cur.f = "write"
      /\ UNCHANGED <<regs, wires, cur, len, continued, op, todo, toScan, found, history>>
      /\ pc' \in {"wErr", "wDone", "wFill", "result", "back", "abort"}
      /\ pc' # "back" => UNCHANGED ret
  BY DEF WriteStarted, WriteErr, WriteDone, WriteFilled, Step, Returns, Return, Goto, locals,
     script, I2cTypes, PlaceInv, WritePcs
<1>2. CallInv' /\ ScanInv' /\ UNCHANGED <<S, A, owed, FIFO, to, turn, stopping>>
  BY <1>1, SameCalls, SameBus
<1>3. CASE WriteStarted
  <2>1. pc = "started" /\ Active /\ pc' = "wErr"
    BY <1>3 DEF WriteStarted, Step, Goto
  <2>2. /\ Len(FIFO) + len = cur.n /\ Accepted(owed, FIFO, A, turn, len) /\ Begun
        /\ ~READ /\ ~continued /\ DLEN = (IF cur.stop THEN Len(owed) ELSE Endless)
    BY <2>1 DEF WriteInv
  <2>3. /\ Running /\ ~stopping /\ to = A /\ bus = "address"
    BY <2>1, <2>2 DEF Begun, Running
  <2>4. Len(FIFO) + len <= cur.n
    BY <2>2, BusTypes
  <2>5. Writing
    BY <2>2, <2>3, <2>4 DEF Writing
  <2>. QED
    BY <1>1, <1>2, <2>1, <2>5, SameBus DEF BusInv, BetweenInv, WriteInv, ReadInv
<1>4. CASE pc \in {"wErr", "wDone", "wFill"}
  <2>1. \/ Writing
        \/ Stopped /\ cur.stop /\ ~continued /\ len = 0
        \/ Missed /\ cur.stop /\ ~continued
    BY <1>4 DEF WriteInv
  <2>2. CASE pc' \in {"wErr", "wFill"}
    BY <1>1, <1>2, <2>1, <2>2, SameBus DEF BusInv, BetweenInv, WriteInv, ReadInv
  <2>3. CASE pc' = "wDone"
    <3>1. cur.stop
      BY <1>4, <2>3 DEF WriteStarted, WriteErr, WriteDone, WriteFilled, Step, Goto, Returns,
         Return
    <3>. QED
      BY <1>1, <1>2, <2>1, <2>3, <3>1, SameBus DEF BusInv, BetweenInv, WriteInv, ReadInv
  <2>4. CASE pc' = "result"
    <3>1. Failed
      BY <1>4, <2>4 DEF WriteStarted, WriteErr, WriteDone, WriteFilled, Step, Goto, Returns,
         Return
    <3>2. Missed /\ cur.stop
      BY <2>1, <3>1, Apart
    <3>. QED
      BY <1>1, <1>2, <2>4, <3>2, SameBus DEF BusInv, BetweenInv, WriteInv, ReadInv
  <2>5. CASE pc' = "abort"
    <3>1. pc = "wDone" /\ "DONE" \notin S /\ continued /\ len = 0
      BY <1>4, <2>5 DEF WriteStarted, WriteErr, WriteDone, WriteFilled, Step, Goto, Returns,
         Return
    <3>2. Writing /\ cur.stop
      BY <2>1, <3>1 DEF WriteInv
    <3>3. /\ Open /\ Accepted(owed, FIFO, to, turn, 0) /\ ~stopping /\ to = A
      BY <3>1, <3>2 DEF Writing, Open
    <3>4. WriteOpen
      BY <3>3 DEF WriteOpen
    <3>. QED
      BY <1>1, <1>2, <2>5, <3>2, <3>3, <3>4, SameBus DEF BusInv, BetweenInv, WriteInv, ReadInv
  <2>6. CASE pc' = "back" /\ pc = "wErr"
    <3>1. WriteErr
      BY <1>4, <2>6 DEF WriteStarted, WriteErr, WriteDone, WriteFilled, Step, Goto, Returns,
         Return
    <3>2. ~cur.stop /\ len = 0 /\ ret' = cur.n
      BY <2>6, <3>1 DEF WriteErr, Step, Goto, Returns, Return
    <3>3. Writing /\ A \in Slaves
      <4>1. op = "io"
        BY <1>1, <3>2 DEF CallInv
      <4>. QED  BY <1>1, <2>1, <3>2, <4>1 DEF CallInv
    <3>4. Open /\ Accepted(owed, FIFO, to, turn, 0) /\ ~stopping /\ to = A
      BY <3>2, <3>3 DEF Writing, Open
    <3>5. WriteOpen /\ ret' >= 0
      BY <3>2, <3>4, BusTypes DEF WriteOpen
    <3>. QED
      BY <1>1, <1>2, <2>6, <3>2, <3>4, <3>5, SameBus DEF BusInv, BetweenInv, WriteInv, ReadInv
  <2>7. CASE pc' = "back" /\ pc # "wErr"
    <3>1. WriteDone
      BY <1>4, <2>7 DEF WriteStarted, WriteErr, WriteDone, WriteFilled, Step, Goto, Returns,
         Return
    <3>2. "DONE" \in S /\ ret' = cur.n - len
      BY <2>7, <3>1 DEF WriteDone, Step, Goto, Returns, Return
    <3>3. Stopped /\ cur.stop /\ len = 0
      BY <2>1, <3>2, Apart
    <3>4. ret' = cur.n /\ Free /\ Nothing /\ A \in Slaves
      BY <3>2, <3>3, Apart, BusTypes
    <3>. QED
      BY <1>1, <1>2, <2>7, <3>3, <3>4, SameBus DEF BusInv, BetweenInv, WriteInv, ReadInv
  <2>. QED  BY <1>1, <2>2, <2>3, <2>4, <2>5, <2>6, <2>7
<1>5. pc = "started" => WriteStarted
  BY DEF WriteErr, WriteDone, WriteFilled
<1>. QED  BY <1>1, <1>3, <1>4, <1>5

\* The end of i2c_write, once the stop is there
LEMMA BusWriteEnded ==
  ASSUME I2cTypes, BusInv, WriteEnded
  PROVE  BusInv'
<1>. CallInv /\ BetweenInv /\ WriteInv /\ ReadInv /\ ScanInv
  BY DEF BusInv
<1>1. /\ pc = "ended" /\ "DONE" \in S /\ pc' = "back" /\ ret' = cur.n /\ cur.f = "write"
      /\ UNCHANGED <<regs, wires, cur, len, continued, op, todo, toScan, found, history>>
  BY DEF WriteEnded, Returns, Return, Goto, script, I2cTypes, PlaceInv, WritePcs
<1>2. CallInv' /\ ScanInv' /\ UNCHANGED A
  BY <1>1, SameCalls, SameBus
<1>3. cur.stop /\ Stopped
  BY <1>1, Apart DEF WriteInv
<1>4. Free /\ Nothing /\ A \in Slaves
  BY <1>3, Apart
<1>. QED
  BY <1>1, <1>2, <1>3, <1>4, SameBus DEF BusInv, BetweenInv, WriteInv, ReadInv

\* A read is started.
LEMMA BusReadStarts ==
  ASSUME I2cTypes, BusInv, ReadStarts
  PROVE  BusInv'
<1>. CallInv /\ BetweenInv /\ WriteInv /\ ReadInv /\ ScanInv
  BY DEF BusInv
<1>1. /\ pc = "rStart" /\ pc' = "rErr" /\ DLEN' = cur.n /\ READ' = TRUE /\ SetStart
      /\ UNCHANGED <<S, FIFO, A, cur, len, continued, ret, op, todo, toScan, found, turn, owed,
                     got>>
      /\ cur.f = "read"
  BY DEF ReadStarts, Goto, locals, script, history, I2cTypes, PlaceInv, ReadPcs
<1>2. Nothing /\ ((Free /\ Unflagged) \/ Open) /\ len = cur.n
  BY <1>1 DEF ReadInv
<1>3. Begun' /\ Nothing'
  BY <1>1, <1>2, Starts DEF Nothing
<1>4. Stored'
  <2>1. Len(got) + len = cur.n /\ Len(got) \in Nat
    BY <1>1, SeqSteps DEF I2cTypes, PlaceInv, TypeOK
  <2>2. Len(got') = 0
    BY <1>1, <1>2, <2>1, BusTypes
  <2>. QED  BY <2>2 DEF Stored
<1>5. CallInv' /\ ScanInv'
  BY <1>1, SameCalls
<1>. QED
  BY <1>1, <1>2, <1>3, <1>4, <1>5 DEF BusInv, BetweenInv, WriteInv, ReadInv

\* The loop of i2c_read: the errors and the stop
LEMMA BusReadLoop ==
  ASSUME I2cTypes, BusInv, ReadErr \/ ReadDone
  PROVE  BusInv'
<1>. CallInv /\ BetweenInv /\ WriteInv /\ ReadInv /\ ScanInv
  BY DEF BusInv
<1>1. /\ pc \in {"rErr", "rDone"} /\ cur.f = "read" /\ pc' \in {"result", "rDone", "rData", "back"}
      /\ UNCHANGED <<regs, wires, cur, len, continued, op, todo, toScan, found, history>>
  BY DEF ReadErr, ReadDone, Step, Returns, Return, Goto, locals, script, I2cTypes, PlaceInv,
     ReadPcs
<1>2. CallInv' /\ ScanInv' /\ UNCHANGED <<S, A, DLEN, READ>>
  BY <1>1, SameCalls, SameBus
<1>3. /\ Stored
      /\ \/ Begun /\ READ /\ Nothing /\ DLEN = len
         \/ Reading
         \/ Stopped /\ len = 0
         \/ Missed
  BY <1>1 DEF ReadInv
<1>4. CASE pc' \in {"rDone", "rData"}
  BY <1>1, <1>2, <1>3, <1>4, SameBus DEF BusInv, BetweenInv, WriteInv, ReadInv
<1>5. CASE pc' = "result"
  <2>1. Failed
    BY <1>5 DEF ReadErr, ReadDone, Step, Returns, Return, Goto
  <2>2. Missed /\ cur.stop
    BY <1>1, <1>3, <2>1, Apart DEF CallInv
  <2>. QED
    BY <1>1, <1>2, <1>5, <2>2, SameBus DEF BusInv, BetweenInv, WriteInv, ReadInv
<1>6. CASE pc' = "back"
  <2>1. "DONE" \in S /\ ret' = cur.n - len
    BY <1>6 DEF ReadErr, ReadDone, Step, Returns, Return, Goto
  <2>2. Stopped /\ len = 0
    BY <1>3, <2>1, Apart
  <2>3. Free /\ Nothing /\ ret' >= 0 /\ A \in Slaves
    BY <2>1, <2>2, Apart, BusTypes
  <2>. QED
    BY <1>1, <1>2, <1>3, <1>6, <2>2, <2>3, SameBus DEF BusInv, BetweenInv, WriteInv, ReadInv
<1>. QED  BY <1>1, <1>4, <1>5, <1>6

\* A byte that has come is stored behind those before it.
LEMMA BusReadData ==
  ASSUME I2cTypes, BusInv, ReadData
  PROVE  BusInv'
<1>. CallInv /\ BetweenInv /\ WriteInv /\ ReadInv /\ ScanInv
  BY DEF BusInv
<1>1. /\ pc = "rData" /\ pc' = "rErr" /\ cur.f = "read"
      /\ UNCHANGED <<S, DLEN, A, READ, ST, bus, to, stopping, cur, continued, ret, op, todo,
                     toScan, found, turn, owed>>
      /\ \/ FIFO = << >> /\ UNCHANGED <<FIFO, len, got>>
         \/ /\ FIFO # << >> /\ FIFO' = Tail(FIFO)
            /\ \/ len = 0 /\ UNCHANGED <<len, got>>
               \/ len # 0 /\ got' = Append(got, Head(FIFO)) /\ len' = len - 1
  BY DEF ReadData, RXD, Goto, wires, script, I2cTypes, PlaceInv, ReadPcs
<1>2. CallInv' /\ ScanInv'
  BY <1>1, SameCalls
<1>3. /\ Stored
      /\ \/ Begun /\ READ /\ Nothing /\ DLEN = len
         \/ Reading
         \/ Stopped /\ len = 0
         \/ Missed
  BY <1>1 DEF ReadInv
<1>4. CASE FIFO = << >>
  <2>1. UNCHANGED <<regs, wires, cur, len, continued, history>>
    BY <1>1, <1>4 DEF regs, wires, history
  <2>. QED
    BY <1>1, <1>2, <1>3, <2>1, SameBus DEF BusInv, BetweenInv, WriteInv, ReadInv
<1>5. CASE FIFO # << >>
  <2>1. Reading /\ FIFO = <<<<turn, len>>>> /\ DLEN = len - 1 /\ len > 0
    BY <1>3, <1>5, Apart DEF Nothing, Reading
  <2>2. /\ FIFO' = << >> /\ got' = Append(got, <<turn, len>>) /\ len' = len - 1
    BY <1>1, <1>5, <2>1
  <2>3. Reading'
    BY <1>1, <2>1, <2>2 DEF Reading, Running, Active, Unflagged
  <2>4. /\ Len(got) + len = cur.n /\ Len(got) \in Nat /\ got \in Seq(Bytes)
    BY <1>1, SeqSteps DEF I2cTypes, PlaceInv, TypeOK
  <2>5. <<turn, len>> \in Bytes
    <3>1. turn \in {0, 1} /\ len \in 1 .. MaxLen
      BY <2>1, BusTypes
    <3>. QED  BY <3>1, Bounds
  <2>6. /\ Len(got') = Len(got) + 1 /\ got'[Len(got) + 1] = <<turn, len>>
        /\ \A i \in 1 .. Len(got) : got'[i] = got[i]
    BY <2>2, <2>4, <2>5, AppendProperties
  <2>7. Stored'
    <3>. SUFFICES ASSUME NEW i \in 1 .. Len(got')
                  PROVE  got'[i] = <<turn, cur.n + 1 - i>>
      BY <1>1 DEF Stored
    <3>1. CASE i \in 1 .. Len(got)
      BY <1>3, <2>6, <3>1 DEF Stored
    <3>2. CASE i = Len(got) + 1
      <4>1. cur.n + 1 - i = len
        BY <2>4, <3>2, BusTypes
      <4>. QED  BY <2>6, <3>2, <4>1
    <3>3. i \in 1 .. Len(got) \/ i = Len(got) + 1
      BY <2>4, <2>6
    <3>. QED  BY <3>1, <3>2, <3>3
  <2>. QED
    BY <1>1, <1>2, <2>3, <2>7 DEF BusInv, BetweenInv, WriteInv, ReadInv
<1>. QED  BY <1>4, <1>5

-----------------------------------------------------------------------------
(***************************************************************************)
(* The methods of machine.I2C keep BusInv.                                 *)
(***************************************************************************)
\* A call begins where nothing, or an open write to the same slave, is under way.
LEMMA BusCall ==
  ASSUME I2cTypes, BusInv, NEW c \in Calls, NEW a \in Addrs, Call(c, a), A' = a,
         UNCHANGED <<S, FIFO, DLEN, READ, ST, bus, to, stopping>>,
         CallInv', ScanInv',
         \/ c.f \in {"start", "read"} /\ Between
         \/ /\ c.f = "write" /\ Accepted(owed, FIFO, a, turn, 0)
            /\ \/ Free /\ Nothing
               \/ Begun /\ ~READ /\ FIFO = << >> /\ DLEN = Endless /\ A = a /\ a \in Slaves
               \/ Open /\ to = a /\ ~stopping
  PROVE  BusInv'
<1>. /\ owed \in Seq(Owing) /\ FIFO \in Seq(Bytes) /\ turn \in {0, 1} /\ c.n \in 0 .. MaxLen
  BY BusTypes DEF Calls
<1>1. pc' = Entry[c.f] /\ cur' = c /\ len' = c.n
  BY DEF Call, Goto
<1>2. /\ c.f = "start" => pc' = "wsCheck"
      /\ c.f = "write" => pc' = "wCheck"
      /\ c.f = "read" => pc' = "rCheck"
  BY <1>1 DEF Entry
<1>3. (Active' <=> Active) /\ (Unflagged' <=> Unflagged)
  BY DEF Active, Unflagged
<1>4. (Free' <=> Free) /\ (Open' <=> Open)
  BY <1>3 DEF Free, Open, Running
<1>5. CASE c.f \in {"start", "read"}
  <2>1. UNCHANGED owed /\ Between
    BY <1>5 DEF Call, history
  <2>2. Nothing' <=> Nothing
    BY <2>1 DEF Nothing
  <2>3. ASSUME Free /\ Nothing  PROVE Between'
    BY <1>4, <2>2, <2>3 DEF Between
  <2>4. ASSUME WriteOpen  PROVE Between'
    <3>1. Accepted(owed, FIFO, to, turn', 0)
      BY <2>4, AcceptedOther DEF WriteOpen
    <3>2. Accepted(owed', FIFO', to', turn', 0)
      BY <2>1, <3>1
    <3>3. Open' /\ (stopping' => Nothing')
      BY <1>4, <2>2, <2>4 DEF WriteOpen
    <3>. QED  BY <3>2, <3>3 DEF Between, WriteOpen
  <2>5. Between'
    BY <2>1, <2>3, <2>4 DEF Between
  <2>. QED
    BY <1>1, <1>2, <1>5, <2>5 DEF BusInv, BetweenInv, WriteInv, ReadInv
<1>6. CASE c.f = "write"
  <2>1. /\ turn' = 1 - turn
        /\ owed' = owed \o [i \in 1 .. c.n |-> [to |-> a, byte |-> Whole(1 - turn, c.n)[i]]]
    BY <1>6 DEF Call
  <2>2. 1 - turn \in {0, 1} /\ Accepted(owed, FIFO, a, turn, 0)
    BY <1>6
  <2>3. Accepted(owed', FIFO, a, 1 - turn, c.n)
    BY <2>1, <2>2, AcceptedCall
  <2>4. Accepted(owed', FIFO', A', turn', len')
    BY <1>1, <2>1, <2>3
  <2>5. \/ Free' /\ FIFO' = << >>
        \/ Begun' /\ ~READ' /\ FIFO' = << >> /\ DLEN' = Endless /\ A' \in Slaves
        \/ Open' /\ to' = A' /\ ~stopping'
    <3>1. CASE Free /\ Nothing
      BY <1>4, <3>1 DEF Nothing
    <3>2. CASE Begun /\ ~READ /\ FIFO = << >> /\ DLEN = Endless /\ A = a /\ a \in Slaves
      <4>1. Begun'
        BY <1>3, <3>2 DEF Begun
      <4>. QED  BY <3>2, <4>1
    <3>3. CASE Open /\ to = a /\ ~stopping
      BY <1>4, <3>3
    <3>. QED  BY <1>6, <3>1, <3>2, <3>3
  <2>. QED
    BY <1>1, <1>2, <1>6, <2>4, <2>5 DEF BusInv, BetweenInv, WriteInv, ReadInv
<1>. QED  BY <1>5, <1>6

\* scan tries the next address.
LEMMA BusProbe ==
  ASSUME I2cTypes, BusInv, Probe
  PROVE  BusInv'
<1>. CallInv /\ BetweenInv /\ WriteInv /\ ReadInv /\ ScanInv
  BY DEF BusInv
<1>1. PICK a \in toScan :
        /\ A' = a /\ toScan' = toScan \ {a}
        /\ \E call \in {Read(1), Write(0, TRUE)} : Call(call, a)
  BY DEF Probe
<1>2. PICK call \in {Read(1), Write(0, TRUE)} : Call(call, a)
  BY <1>1
<1>3. /\ pc = "busy" /\ UNCHANGED <<S, FIFO, DLEN, READ, ST, bus, to, stopping, op, todo, found>>
  BY DEF Probe, wires
<1>4. a \in Addrs
  BY DEF I2cTypes, TypeOK
<1>5. /\ call \in Calls /\ call.stop = TRUE /\ call.f \in {"read", "write"}
      /\ call.f = "write" => call.n = 0
  <2>1. /\ Read(1) \in Calls /\ Read(1).f = "read" /\ Read(1).stop = TRUE
        /\ Write(0, TRUE) \in Calls /\ Write(0, TRUE).f = "write" /\ Write(0, TRUE).stop = TRUE
        /\ Write(0, TRUE).n = 0
    BY CallShapes
  <2>. QED  BY <2>1
<1>6. pc' = Entry[call.f] /\ cur' = call
  BY <1>2 DEF Call, Goto
<1>7. pc' \in {"rCheck", "wCheck"}
  BY <1>5, <1>6 DEF Entry
<1>8. op = "scan" /\ todo = << >> /\ Free /\ Nothing /\ found = Slaves \ toScan
  BY <1>3 DEF CallInv, BetweenInv, ScanInv
<1>9. CallInv'
  BY <1>3, <1>5, <1>6, <1>7, <1>8 DEF CallInv
<1>10. ScanInv'
  BY <1>1, <1>3, <1>7, <1>8 DEF ScanInv
<1>11. Accepted(owed, FIFO, a, turn, 0)
  BY <1>8, AcceptedNone DEF Nothing
<1>. QED
  BY <1>1, <1>2, <1>3, <1>4, <1>5, <1>8, <1>9, <1>10, <1>11, BusCall DEF Between

\* An address has been tried: a slave answered or none is there.
LEMMA BusProbed ==
  ASSUME I2cTypes, BusInv, Probed
  PROVE  BusInv'
<1>. CallInv /\ BetweenInv /\ WriteInv /\ ReadInv /\ ScanInv
  BY DEF BusInv
<1>1. /\ pc = "back" /\ op = "scan" /\ found' = (IF ret >= 0 THEN found \cup {A} ELSE found)
      /\ pc' = (IF toScan = {} THEN "script" ELSE "busy")
      /\ UNCHANGED <<regs, wires, cur, len, continued, ret, op, todo, toScan, history>>
  BY DEF Probed, Goto, locals
<1>2. cur.f \in {"write", "read"} /\ cur.stop /\ todo = << >>
  BY <1>1, BusTypes DEF CallInv
<1>3. Free /\ Nothing /\ (ret >= 0 <=> A \in Slaves)
  <2>1. CASE cur.f = "write"
    <3>1. \/ cur.stop /\ ret = cur.n /\ Free /\ Nothing /\ A \in Slaves
          \/ cur.stop /\ ret < 0 /\ Free /\ Nothing /\ A \notin Slaves
      BY <1>1, <1>2, <2>1 DEF WriteInv
    <3>2. ret = cur.n => ret >= 0
      BY BusTypes
    <3>3. ret < 0 => ~(ret >= 0)
      BY BusTypes
    <3>. QED  BY <3>1, <3>2, <3>3
  <2>2. CASE cur.f = "read"
    <3>1. Free /\ Nothing /\ ((ret >= 0 /\ A \in Slaves) \/ (ret < 0 /\ A \notin Slaves))
      BY <1>1, <2>2 DEF ReadInv
    <3>2. ret < 0 => ~(ret >= 0)
      BY BusTypes
    <3>. QED  BY <3>1, <3>2
  <2>. QED  BY <1>2, <2>1, <2>2
<1>4. found' = Slaves \ toScan /\ A \notin toScan
  <2>1. A \notin toScan /\ found = Slaves \ (toScan \cup {A})
    BY <1>1 DEF ScanInv
  <2>. QED  BY <1>1, <1>3, <2>1
<1>5. ScanInv' /\ CallInv'
  BY <1>1, <1>2, <1>4 DEF ScanInv, CallInv
<1>. QED
  BY <1>1, <1>3, <1>5, SameBus DEF BusInv, BetweenInv, WriteInv, ReadInv, Between

\* The method's next call: the write behind its start, or the second half of a
\* transfer with a register number.
LEMMA BusNextCall ==
  ASSUME I2cTypes, BusInv, NextCall
  PROVE  BusInv'
<1>. CallInv /\ BetweenInv /\ WriteInv /\ ReadInv /\ ScanInv
  BY DEF BusInv
<1>. DEFINE c == Head(todo)
<1>1. /\ pc = "back" /\ op = "io" /\ ret >= 0 /\ todo # << >> /\ Call(c, A)
      /\ todo' = Tail(todo)
      /\ UNCHANGED <<S, FIFO, DLEN, A, READ, ST, bus, to, stopping, op, toScan, found>>
  BY DEF NextCall, regs, wires
<1>2. c \in Calls /\ A \in Addrs /\ todo \in Seq(Calls)
  BY <1>1, SeqSteps, BusTypes DEF I2cTypes, PlaceInv
<1>3. /\ Len(todo) = 1
      /\ \/ cur.f = "start" /\ c.f = "write"
         \/ cur.f = "write" /\ ~cur.stop /\ c.f \in {"write", "read"} /\ c.stop
      /\ A \in Slaves
  BY <1>1, BusTypes DEF CallInv
<1>4. todo' = << >>
  <2>1. todo' \in Seq(Calls) /\ Len(todo') = 0
    BY <1>1, <1>2, <1>3, SeqSteps
  <2>. QED  BY <2>1, SeqSteps
<1>. HIDE DEF c
<1>5. pc' = Entry[c.f] /\ cur' = c
  BY <1>1 DEF Call, Goto
<1>6. pc' \in {"rCheck", "wCheck"}
  BY <1>3, <1>5 DEF Entry
<1>7. CallInv' /\ ScanInv'
  BY <1>1, <1>3, <1>4, <1>5, <1>6 DEF CallInv, ScanInv
<1>8. CASE cur.f = "start" /\ c.f = "write"
  <2>1. Begun /\ Nothing /\ ~READ /\ DLEN = Endless
    BY <1>1, <1>8 DEF BetweenInv
  <2>2. Accepted(owed, FIFO, A, turn, 0) /\ FIFO = << >>
    BY <2>1, AcceptedNone DEF Nothing
  <2>. QED  BY <1>1, <1>2, <1>3, <1>7, <1>8, <2>1, <2>2, BusCall
<1>9. CASE cur.f = "write" /\ ~cur.stop /\ c.f \in {"write", "read"} /\ c.stop
  <2>1. WriteOpen /\ to = A /\ ~stopping
    BY <1>1, <1>9 DEF WriteInv
  <2>2. Open /\ Accepted(owed, FIFO, A, turn, 0)
    BY <2>1 DEF WriteOpen
  <2>. QED  BY <1>1, <1>2, <1>7, <1>9, <2>1, <2>2, BusCall DEF Between
<1>. QED  BY <1>3, <1>8, <1>9

\* The method returns, or raises an error.
LEMMA BusReturns ==
  ASSUME I2cTypes, BusInv, Succeeds \/ Raises
  PROVE  BusInv'
<1>. CallInv /\ BetweenInv /\ WriteInv /\ ReadInv /\ ScanInv
  BY DEF BusInv
<1>1. pc = "back" /\ op = "io" /\ pc' = "script" /\ UNCHANGED op
  BY DEF Succeeds, Raises, Step, Goto, script
<1>2. CASE Succeeds
  <2>1. /\ todo = << >> /\ UNCHANGED <<regs, wires, cur, len, continued, todo, history>>
    BY <1>2 DEF Succeeds, Step, locals, script
  <2>2. Between
    <3>1. cur.f # "start"
      <4>1. cur.f = "start" => Len(todo) = 1
        BY <1>1 DEF CallInv
      <4>2. Len(<< >>) = 0
        BY BusTypes
      <4>. QED  BY <2>1, <4>1, <4>2
    <3>. QED  BY <1>1, <3>1, BusTypes DEF WriteInv, ReadInv, Between
  <2>3. Between'
    BY <2>1, <2>2, SameBus
  <2>4. CallInv' /\ ScanInv'
    BY <1>1, <2>1 DEF CallInv, ScanInv
  <2>. QED
    BY <1>1, <2>3, <2>4 DEF BusInv, BetweenInv, WriteInv, ReadInv
<1>3. CASE Raises
  <2>1. /\ ret < 0 /\ FIFO' = << >> /\ stopping' = WriteActive /\ todo' = << >>
        /\ UNCHANGED <<S, DLEN, A, READ, ST, bus, to, cur, owed>>
    BY <1>3 DEF Raises, ClearFifo, Goto, history
  <2>2. Free /\ Nothing
    <3>1. ~(ret >= 0) /\ ret # 0
      BY <2>1, BusTypes
    <3>. QED  BY <1>1, <3>1, BusTypes DEF BetweenInv, WriteInv, ReadInv
  <2>3. Free' /\ Nothing'
    BY <2>1, <2>2 DEF Free, Nothing, WriteActive, Active
  <2>4. CallInv' /\ ScanInv'
    BY <1>1, <2>1 DEF CallInv, ScanInv
  <2>. QED
    BY <1>1, <2>3, <2>4 DEF BusInv, BetweenInv, WriteInv, ReadInv, Between
<1>. QED  BY <1>2, <1>3

\* init() and the start of a scan
LEMMA BusInits ==
  ASSUME I2cTypes, BusInv, init \/ scan, Careful
  PROVE  BusInv'
<1>. CallInv /\ BetweenInv /\ WriteInv /\ ReadInv /\ ScanInv
  BY DEF BusInv
<1>1. pc = "script" /\ Between /\ todo = << >>
  BY DEF init, scan, BetweenInv, CallInv
<1>2. CASE init
  <2>1. /\ S' = S \ Latched /\ FIFO' = << >> /\ stopping' = WriteActive /\ owed' = << >>
        /\ UNCHANGED <<DLEN, A, READ, ST, bus, to, pc, cur, len, op, todo, toScan, found, turn>>
    BY <1>2 DEF init, ClearFlags, ClearFifo, locals, script
  <2>2. Nothing' /\ Unflagged' /\ (Active' <=> Active)
    BY <2>1 DEF Nothing, Unflagged, Active, Latched
  <2>3. Between'
    <3>1. CASE Free
      <4>1. Free'
        BY <2>1, <2>2, <3>1, Apart DEF Free
      <4>. QED  BY <2>2, <4>1 DEF Between
    <3>2. CASE WriteOpen
      <4>1. Open'
        BY <2>1, <2>2, <3>2 DEF WriteOpen, Open, Running
      <4>2. Accepted(owed', FIFO', to', turn', 0)
        BY <2>1, AcceptedNone
      <4>. QED  BY <2>2, <4>1, <4>2 DEF Between, WriteOpen
    <3>. QED  BY <1>1, <3>1, <3>2 DEF Between
  <2>4. CallInv' /\ ScanInv'
    BY <1>1, <2>1 DEF CallInv, ScanInv
  <2>. QED
    BY <1>1, <2>1, <2>3, <2>4 DEF BusInv, BetweenInv, WriteInv, ReadInv
<1>3. CASE scan
  <2>1. /\ ~WriteActive /\ op' = "scan" /\ toScan' = Addrs /\ found' = {} /\ pc' = "busy"
        /\ UNCHANGED <<regs, wires, cur, len, continued, ret, todo, history>>
    BY <1>3 DEF scan, Settled, Goto, locals
  <2>2. Free /\ Nothing
    BY <1>1, <2>1, Apart DEF Between
  <2>3. CallInv' /\ ScanInv'
    BY <1>1, <2>1, BusAssumption DEF CallInv, ScanInv
  <2>. QED
    BY <1>1, <2>1, <2>2, <2>3, SameBus DEF BusInv, BetweenInv, WriteInv, ReadInv
<1>. QED  BY <1>2, <1>3

\* A method begins with its first call.
LEMMA BusBegins ==
  ASSUME I2cTypes, BusInv, NEW a \in Addrs, NEW c \in Calls, NEW rest, NEW calls,
         Head(calls) = c, Tail(calls) = rest, Begins(a, calls),
         c.f # "read" => a \in Slaves,
         \/ c.f = "start" /\ Len(rest) = 1 /\ Head(rest).f = "write"
         \/ /\ c.f = "write" /\ ~c.stop /\ ~WriteActive
            /\ Len(rest) = 1 /\ Head(rest).f \in {"write", "read"} /\ Head(rest).stop
         \/ c.f = "read" /\ c.stop /\ rest = << >>
  PROVE  BusInv'
<1>. CallInv /\ BetweenInv /\ WriteInv /\ ReadInv /\ ScanInv
  BY DEF BusInv
<1>1. /\ pc = "script" /\ A' = a /\ op' = "io" /\ Call(c, a) /\ todo' = rest
      /\ UNCHANGED <<S, FIFO, DLEN, READ, ST, bus, to, stopping, toScan, found>>
  BY DEF Begins, wires
<1>2. Between
  BY <1>1 DEF BetweenInv
<1>3. pc' = Entry[c.f] /\ cur' = c
  BY <1>1 DEF Call, Goto
<1>4. pc' \in {"wsCheck", "rCheck", "wCheck"}
  BY <1>3 DEF Entry
<1>5. CallInv' /\ ScanInv'
  BY <1>1, <1>3, <1>4 DEF CallInv, ScanInv
<1>6. CASE c.f \in {"start", "read"}
  BY <1>1, <1>2, <1>5, <1>6, BusCall
<1>7. CASE c.f = "write"
  <2>1. Free /\ Nothing
    BY <1>2, <1>7, Apart DEF Between
  <2>2. Accepted(owed, FIFO, a, turn, 0)
    BY <2>1, AcceptedNone DEF Nothing
  <2>. QED  BY <1>1, <1>5, <1>7, <2>1, <2>2, BusCall
<1>. QED  BY <1>6, <1>7

\* Careful scripts keep BusInv.
LEMMA BusScript ==
  ASSUME I2cTypes, BusInv, Script, Careful
  PROVE  BusInv'
<1>1. Written = Slaves /\ Slaves \subseteq Addrs
  BY BusAssumption DEF Written
<1>2. CASE writeto
  <2>1. PICK a \in Written, n \in 0 .. MaxLen, stop \in BOOLEAN :
           Begins(a, <<Start, Write(n, stop)>>)
    BY <1>2 DEF writeto
  <2>2. Start \in Calls /\ Write(n, stop) \in Calls /\ Start.f = "start"
        /\ Write(n, stop).f = "write"
    BY CallShapes
  <2>3. /\ Head(<<Start, Write(n, stop)>>) = Start
        /\ Tail(<<Start, Write(n, stop)>>) = <<Write(n, stop)>>
        /\ Len(<<Write(n, stop)>>) = 1 /\ Head(<<Write(n, stop)>>) = Write(n, stop)
    BY <2>2, ListShapes
  <2>. QED  BY <1>1, <2>1, <2>2, <2>3, BusBegins
<1>3. CASE readfrom
  <2>1. PICK a \in Addrs, n \in 0 .. MaxLen : Begins(a, <<Read(n)>>)
    BY <1>3 DEF readfrom
  <2>2. Read(n) \in Calls /\ Read(n).f = "read" /\ Read(n).stop = TRUE
    BY CallShapes
  <2>3. Head(<<Read(n)>>) = Read(n) /\ Tail(<<Read(n)>>) = << >>
    BY <2>2, ListShapes
  <2>. QED  BY <2>1, <2>2, <2>3, BusBegins
<1>4. /\ Write(1, FALSE) \in Calls /\ Write(1, FALSE).f = "write" /\ ~Write(1, FALSE).stop
  BY CallShapes
<1>5. CASE read_mem
  <2>1. /\ ~WriteActive
        /\ \E a \in Written, n \in 0 .. MaxLen : Begins(a, <<Write(1, FALSE), Read(n)>>)
    BY <1>5 DEF read_mem, Settled
  <2>2. PICK a \in Written, n \in 0 .. MaxLen : Begins(a, <<Write(1, FALSE), Read(n)>>)
    BY <2>1
  <2>3. Read(n) \in Calls /\ Read(n).f = "read" /\ Read(n).stop = TRUE
    BY CallShapes
  <2>4. /\ Head(<<Write(1, FALSE), Read(n)>>) = Write(1, FALSE)
        /\ Tail(<<Write(1, FALSE), Read(n)>>) = <<Read(n)>>
        /\ Len(<<Read(n)>>) = 1 /\ Head(<<Read(n)>>) = Read(n)
    BY <1>4, <2>3, ListShapes
  <2>. QED  BY <1>1, <1>4, <2>1, <2>2, <2>3, <2>4, BusBegins
<1>6. CASE writeto_mem
  <2>1. /\ ~WriteActive
        /\ \E a \in Written, n \in 0 .. MaxLen : Begins(a, <<Write(1, FALSE), Write(n, TRUE)>>)
    BY <1>6 DEF writeto_mem, Settled
  <2>2. PICK a \in Written, n \in 0 .. MaxLen : Begins(a, <<Write(1, FALSE), Write(n, TRUE)>>)
    BY <2>1
  <2>3. Write(n, TRUE) \in Calls /\ Write(n, TRUE).f = "write" /\ Write(n, TRUE).stop = TRUE
    BY CallShapes
  <2>4. /\ Head(<<Write(1, FALSE), Write(n, TRUE)>>) = Write(1, FALSE)
        /\ Tail(<<Write(1, FALSE), Write(n, TRUE)>>) = <<Write(n, TRUE)>>
        /\ Len(<<Write(n, TRUE)>>) = 1 /\ Head(<<Write(n, TRUE)>>) = Write(n, TRUE)
    BY <1>4, <2>3, ListShapes
  <2>. QED  BY <1>1, <1>4, <2>1, <2>2, <2>3, <2>4, BusBegins
<1>. QED  BY <1>2, <1>3, <1>5, <1>6, BusInits DEF Script

\* Every step keeps BusInv.
LEMMA BusStep ==
  ASSUME I2cTypes, BusInv, [Next]_vars, Prompt, Careful
  PROVE  BusInv'
<1>1. CASE Controller
  BY <1>1, BusBegin, BusAnswer, BusTransmit, BusReceive, BusFinish DEF Controller
<1>2. CASE Driver
  BY <1>2, BusChecks, BusClears, BusFlags, BusResult, BusStartStarts, BusWriteChecks, BusPush,
     BusWriteStarts, BusWriteLoop, BusWriteEnded, BusReadStarts, BusReadLoop, BusReadData,
     BusProbe, BusProbed, BusNextCall, BusReturns DEF Driver
<1>3. CASE UNCHANGED vars
  <2>1. UNCHANGED <<regs, wires, pc, cur, len, continued, ret, op, todo, toScan, found, history>>
    BY <1>3 DEF vars, locals, script
  <2>2. UNCHANGED <<A, FIFO, DLEN, READ, to, owed, stopping, turn>>
    BY <2>1, SameBus
  <2>. QED
    BY <2>1, <2>2, SameBus DEF BusInv, CallInv, BetweenInv, WriteInv, ReadInv, ScanInv
<1>. QED  BY <1>1, <1>2, <1>3, BusScript DEF Next

\* BusInv holds at the start.
LEMMA BusInit == Init => BusInv
<1>. SUFFICES ASSUME Init PROVE BusInv
  OBVIOUS
<1>1. /\ pc = "script" /\ S = {} /\ ST = FALSE /\ bus = "free" /\ stopping = FALSE /\ FIFO = << >>
      /\ owed = << >> /\ op = "none" /\ todo = << >>
  BY DEF Init
<1>2. Free /\ Nothing
  BY <1>1 DEF Free, Nothing, Active
<1>. QED
  BY <1>1, <1>2 DEF BusInv, CallInv, BetweenInv, WriteInv, ReadInv, ScanInv, Between

\* The invariant, for careful scripts and a prompt driver
THEOREM I2cInvariant ==
  ASSUME Prompt, Careful
  PROVE  Spec => [](I2cTypes /\ BusInv)
<1>1. Init => I2cTypes /\ BusInv
  BY TypesBegin, BusInit
<1>2. I2cTypes /\ BusInv /\ [Next]_vars => (I2cTypes /\ BusInv)'
  BY TypesStep, BusStep
<1>. QED  BY <1>1, <1>2, PTL DEF Spec

\* i2c_write with a stop that returns no error has sent all it was given, now
\* and before.
THEOREM WritesComplete ==
  ASSUME Prompt, Careful
  PROVE  Spec => []WriteCompletes
<1>1. I2cTypes /\ BusInv => WriteCompletes
  <2>. SUFFICES ASSUME I2cTypes, BusInv, pc = "back", cur.f = "write", cur.stop, ret >= 0
                PROVE  owed = << >> /\ bus = "free" /\ ret = cur.n
    BY DEF WriteCompletes
  <2>1. ~(ret < 0)
    BY BusTypes
  <2>. QED  BY <2>1 DEF BusInv, WriteInv, Nothing, Free
<1>. QED  BY <1>1, I2cInvariant, PTL

\* i2c_read that returns no error has all the slave sent, and leaves nothing.
THEOREM ReadsWhole ==
  ASSUME Prompt, Careful
  PROVE  Spec => []ReadWhole
<1>1. I2cTypes /\ BusInv => ReadWhole
  <2>. SUFFICES ASSUME I2cTypes, BusInv, pc = "back", cur.f = "read", ret >= 0
                PROVE  got = Whole(turn, cur.n) /\ FIFO = << >>
    BY DEF ReadWhole
  <2>1. ~(ret < 0) /\ cur.n \in Nat
    BY BusTypes
  <2>2. Nothing /\ len = 0 /\ Stored
    BY <2>1 DEF BusInv, ReadInv
  <2>3. Len(got) = cur.n /\ got \in Seq(Bytes)
    <3>1. Len(got) + len = cur.n /\ got \in Seq(Bytes) /\ Len(got) \in Nat
      BY SeqSteps DEF I2cTypes, PlaceInv, TypeOK
    <3>. QED  BY <2>2, <3>1
  <2>4. got = [i \in 1 .. cur.n |-> got[i]]
    BY <2>3
  <2>5. got = [i \in 1 .. cur.n |-> <<turn, cur.n + 1 - i>>]
    BY <2>2, <2>3, <2>4 DEF Stored
  <2>. QED  BY <2>2, <2>5 DEF Whole, Nothing
<1>. QED  BY <1>1, I2cInvariant, PTL

\* scan lists the slaves that answer and no other.
THEOREM ScansFind ==
  ASSUME Prompt, Careful
  PROVE  Spec => []ScanFinds
<1>1. I2cTypes /\ BusInv => ScanFinds
  BY DEF BusInv, ScanInv, ScanFinds
<1>. QED  BY <1>1, I2cInvariant, PTL

\* Every byte a slave gets is the next one it is owed.
THEOREM BytesSent ==
  ASSUME Prompt, Careful
  PROVE  Spec => BytesInOrder
<1>. DEFINE Sent == Transmit => /\ owed # << >>
                                /\ Head(owed) = [to |-> to, byte |-> Head(FIFO)]
<1>1. I2cTypes /\ BusInv /\ [Next]_vars => [Sent]_vars
  BY BusTransmit
<1>. QED  BY <1>1, I2cInvariant, PTL DEF Spec, BytesInOrder
=============================================================================
