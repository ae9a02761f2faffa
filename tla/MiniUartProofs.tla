---------------------------- MODULE MiniUartProofs ----------------------------
(***************************************************************************)
(* Proofs about MiniUart, for every ring size, FIFO depth and length of    *)
(* input: type correctness, the ring invariant, and that the driver        *)
(* implements the drop-oldest queue of RxQueue.                            *)
(***************************************************************************)
EXTENDS MiniUart, SequenceTheorems, TLAPS

-----------------------------------------------------------------------------
(* Ring arithmetic. *)

\* Indexes stay indexes, and offsets into the ring are indexes.
LEMMA IndexType ==
  /\ \A i \in Index : Inc(i) \in Index
  /\ \A r, w \in Index : Dist(r, w) \in 0 .. RX_BUF_SIZE
  /\ \A r, k \in Index : At(r, k) \in Index
BY RingAssumption DEF Index, Inc, Dist, At

\* Two indexes have distance 0 exactly when they are equal.
LEMMA DistZero == \A r, w \in Index : Dist(r, w) = 0 <=> r = w
BY RingAssumption DEF Index, Dist

\* The write index is the slot behind the last character.
LEMMA AtDist == \A r, w \in Index : At(r, Dist(r, w)) = w
BY RingAssumption DEF Index, Dist, At

\* The slots a reader at r can reach before w are not w.
LEMMA AtOther ==
  \A r, w, k \in Index : k < Dist(r, w) => At(r, k) # w
BY RingAssumption DEF Index, Dist, At

\* Advancing the write index adds a character, unless that closes the ring.
LEMMA IncWrite ==
  \A r, w \in Index :
    IF Inc(w) = r THEN Dist(r, w) = RX_BUF_SIZE
                  ELSE Dist(r, Inc(w)) = Dist(r, w) + 1
BY RingAssumption DEF Index, Dist, Inc

\* Moving both indexes keeps the distance.
LEMMA IncBoth == \A r, w \in Index : Dist(Inc(r), Inc(w)) = Dist(r, w)
BY RingAssumption DEF Index, Dist, Inc

\* Advancing the read index removes the oldest character.
LEMMA IncRead ==
  \A r, w \in Index : r # w => Dist(Inc(r), w) = Dist(r, w) - 1
BY RingAssumption DEF Index, Dist, Inc

\* The slot k places after the next index is k + 1 places after this one.
LEMMA AtInc ==
  \A r, k \in Index : k < RX_BUF_SIZE => At(Inc(r), k) = At(r, k + 1)
BY RingAssumption DEF Index, At, Inc

\* In a full ring every index but the write index is an offset of the reader's,
\* so a reader anywhere sees a suffix of what the reader at r sees.
LEMMA FullSuffix ==
  ASSUME NEW r \in Index, NEW w \in Index, NEW s \in Index, Inc(w) = r
  PROVE  /\ Dist(r, w) = RX_BUF_SIZE
         /\ \A k \in Index : k < Dist(s, w)
              => At(s, k) = At(r, Dist(r, w) - Dist(s, w) + k)
BY RingAssumption DEF Index, Dist, At, Inc

\* In a full ring the write index is the only slot the reader cannot reach.
LEMMA FullReach ==
  \A r, w, i \in Index : Inc(w) = r /\ i # w => Dist(r, i) < Dist(r, w)
BY RingAssumption DEF Index, Dist, Inc

-----------------------------------------------------------------------------
(* Type correctness. *)

\* RX_READ loads its index before it uses it: what makes TypeOK inductive.
IndexLoaded == pc \in {"byte", "store"} => idx \in Index

TypeInv == TypeOK /\ IndexLoaded

\* Taking a character out of the hardware FIFO.
LEMMA FifoPop ==
  ASSUME NEW s \in Seq(Char), s # << >>, Len(s) <= FifoDepth
  PROVE  /\ Head(s) \in Char
         /\ Tail(s) \in Seq(Char)
         /\ Len(Tail(s)) <= FifoDepth
<1>1. Head(s) \in Char /\ Tail(s) \in Seq(Char) /\ Len(Tail(s)) = Len(s) - 1
  BY HeadTailProperties
<1> QED
  BY <1>1, LineAssumption, LenProperties

\* A character may arrive at the hardware FIFO.
LEMMA FifoPush ==
  ASSUME NEW s \in Seq(Char), Len(s) < FifoDepth, NEW ch \in Char
  PROVE  Append(s, ch) \in Seq(Char) /\ Len(Append(s, ch)) <= FifoDepth
BY LineAssumption, AppendProperties, LenProperties

\* Every step keeps the types, and RX_READ's index loaded until it is used.
LEMMA TypeStep == TypeInv /\ [Next]_vars => TypeInv'
<1> SUFFICES ASSUME TypeInv, [Next]_vars
             PROVE  TypeInv'
  OBVIOUS
<1> USE DEF TypeInv, TypeOK, IndexLoaded
<1>0. CASE UNCHANGED vars
  BY <1>0 DEF vars
<1>1. ASSUME NEW ch \in Char, Arrive(ch)
      PROVE  TypeInv'
  <2>1. fifo' \in Seq(Char) /\ Len(fifo') <= FifoDepth
    BY <1>1, FifoPush DEF Arrive
  <2>2. sent' \in 0 .. MaxChars
    BY <1>1, LineAssumption DEF Arrive
  <2> QED
    BY <1>1, <2>1, <2>2 DEF Arrive, ringVars, cpuVars, excVars, mainVars
<1>2. CASE IsrEnter
  BY <1>2 DEF IsrEnter, hwVars, ringVars, excVars, mainVars
<1>3. CASE IsrInterruptChar
  <2>1. fifo' \in Seq(Char) /\ Len(fifo') <= FifoDepth
    BY <1>3, FifoPop DEF IsrInterruptChar
  <2> QED
    BY <1>3, <2>1 DEF IsrInterruptChar, ringVars, cpuVars, mainVars
<1>4. CASE IsrDataChar
  <2>1. fifo' \in Seq(Char) /\ Len(fifo') <= FifoDepth /\ Head(fifo) \in Char
    BY <1>4, FifoPop DEF IsrDataChar
  <2>2. rbuf_w' \in Index /\ rbuf_r' \in Index
    BY <1>4, IndexType DEF IsrDataChar, RX_WRITE
  <2>3. rbuf' \in [Index -> Char \cup {NoChar}]
    BY <1>4, <2>1 DEF IsrDataChar, RX_WRITE
  <2>4. overrun' \in BOOLEAN
    <3>1. overrun' = Reading \/ overrun' = overrun
      BY <1>4 DEF IsrDataChar, RX_WRITE
    <3>2. Reading \in BOOLEAN
      BY DEF Reading
    <3> QED
      BY <3>1, <3>2
  <2>5. UNCHANGED <<sent, irqOn, inIsr, armed, kbdPending, pc, ldW, ldR, idx, c,
                    result>>
    BY <1>4 DEF IsrDataChar, cpuVars, excVars, mainVars
  <2> QED
    BY <2>1, <2>2, <2>3, <2>4, <2>5
<1>5. CASE IsrReturn
  BY <1>5 DEF IsrReturn, hwVars, ringVars, excVars, mainVars
<1>6. CASE Script
  BY <1>6 DEF Script, ToggleIrq, SetInterruptChar, VmRaises, StdinCall,
              hwVars, ringVars, cpuVars, excVars, mainVars
<1>7. CASE LoadW \/ LoadR \/ RxState \/ GetcWait \/ HandlePending
  BY <1>7 DEF LoadW, LoadR, RxState, GetcWait, HandlePending, Forget,
              hwVars, ringVars, cpuVars, excVars
<1>8. CASE ReadIndex \/ ReadAdvance
  BY <1>8 DEF ReadIndex, ReadAdvance, hwVars, ringVars, cpuVars, excVars
<1>9. CASE ReadByte
  BY <1>9 DEF ReadByte, hwVars, ringVars, cpuVars, excVars
<1>10. CASE ReadStore
  <2>1. rbuf_r' \in Index
    BY <1>10, IndexType DEF ReadStore
  <2> QED
    BY <1>10, <2>1 DEF ReadStore, hwVars, cpuVars, excVars
<1> QED
  BY <1>0, <1>1, <1>2, <1>3, <1>4, <1>5, <1>6, <1>7, <1>8, <1>9, <1>10
     DEF Next, Isr, Stdin

\* TypeInv is an inductive invariant, whatever the size of the ring.
LEMMA TypeInvariant == Spec => []TypeInv
<1>1. Init => TypeInv
  BY RingAssumption, LineAssumption, EmptySeq
     DEF Init, TypeInv, TypeOK, IndexLoaded, Index, Char
<1> QED
  BY <1>1, TypeStep, PTL DEF Spec

\* Every variable keeps its type, whatever the size of the ring.
THEOREM TypeCorrect == Spec => []TypeOK
<1>1. TypeInv => TypeOK
  BY DEF TypeInv
<1> QED
  BY <1>1, TypeInvariant, PTL

-----------------------------------------------------------------------------
(* The ring invariant.                                                       *)
(*                                                                           *)
(* GetcNeverStarves and NeverInvents are not inductive: the first needs to   *)
(* know what RX_EMPTY's two loads can have seen, the second which slots the  *)
(* handler has written and where the reader can be when it is overrun.       *)

\* RX_EMPTY's loads are used up when its test is done; while the ring is empty
\* they cannot have seen two different indexes.
LoadsFresh ==
  /\ pc \notin {"rx_state", "getc"} => ldW = NoIndex /\ ldR = NoIndex
  /\ pc = "rx_state" /\ rbuf_w = rbuf_r
       => ldW \in {NoIndex, rbuf_w} /\ ldR \in {NoIndex, rbuf_r}

\* Until a drop overtakes it, RX_READ works on the oldest character.
ReadsOldest ==
  ~overrun =>
    /\ pc \in {"byte", "store"} => idx = rbuf_r
    /\ pc \in {"advance", "store"} => c = rbuf[rbuf_r]

\* Every slot between the indexes has been written.
SlotsWritten ==
  \A k \in Index : k < Dist(rbuf_r, rbuf_w) => rbuf[At(rbuf_r, k)] # NoChar

\* A drop overtook RX_READ: the ring is full and all its slots are written.
OverrunIsFull ==
  overrun => /\ Reading
             /\ Inc(rbuf_w) = rbuf_r
             /\ \A i \in Index : rbuf[i] # NoChar

RingInv ==
  /\ GetcNeverStarves
  /\ NeverInvents
  /\ LoadsFresh
  /\ ReadsOldest
  /\ SlotsWritten
  /\ OverrunIsFull

\* The handler's RX_WRITE keeps the ring's invariant at any point of a read:
\* when it drops the oldest character the ring is full and stays so.
LEMMA RingWrite ==
  ASSUME TypeInv, RingInv, IsrDataChar
  PROVE  RingInv'
<1> DEFINE ch == Head(fifo)
<1>1. ch \in Char /\ ch # NoChar
  BY FifoPop DEF IsrDataChar, TypeInv, TypeOK, Char, NoChar
<1>2. /\ rbuf_w \in Index /\ rbuf_r \in Index /\ rbuf_w' \in Index
      /\ rbuf \in [Index -> Char \cup {NoChar}]
      /\ overrun \in BOOLEAN
  BY IndexType DEF TypeInv, TypeOK, IsrDataChar, RX_WRITE
<1>3. /\ rbuf' = [rbuf EXCEPT ![rbuf_w] = ch]
      /\ rbuf_w' = Inc(rbuf_w)
      /\ pc' = pc /\ ldW' = ldW /\ ldR' = ldR /\ idx' = idx /\ c' = c
  BY DEF IsrDataChar, RX_WRITE, mainVars
<1>4. \A i \in Index : i # rbuf_w => rbuf'[i] = rbuf[i]
  BY <1>2, <1>3
<1>5. rbuf'[rbuf_w] # NoChar
  BY <1>1, <1>2, <1>3
<1>6. rbuf_w' # rbuf_r'
  BY <1>2, RingAssumption DEF IsrDataChar, RX_WRITE, Inc, Index
<1>7. GetcNeverStarves' /\ NeverInvents' /\ LoadsFresh'
  BY <1>3, <1>6 DEF RingInv, GetcNeverStarves, NeverInvents, LoadsFresh
<1>8. CASE Inc(rbuf_w) = rbuf_r
  <2>1. rbuf_r' = Inc(rbuf_r) /\ overrun' = Reading
    BY <1>8 DEF IsrDataChar, RX_WRITE
  <2>2. \A i \in Index : rbuf'[i] # NoChar
    <3>1. SUFFICES ASSUME NEW i \in Index, i # rbuf_w
                   PROVE  rbuf[i] # NoChar
      BY <1>4, <1>5
    <3>2. /\ Dist(rbuf_r, i) \in Index
          /\ Dist(rbuf_r, i) < Dist(rbuf_r, rbuf_w)
          /\ At(rbuf_r, Dist(rbuf_r, i)) = i
      BY <1>2, <1>8, <3>1, FullReach, AtDist, IndexType DEF Index
    <3> QED
      BY <3>2 DEF RingInv, SlotsWritten
  <2>3. rbuf_r' \in Index
    BY <1>2, <2>1, IndexType
  <2>4. SlotsWritten'
    BY <1>2, <2>2, <2>3, IndexType DEF SlotsWritten
  <2>5. OverrunIsFull'
    BY <1>3, <1>8, <2>1, <2>2 DEF OverrunIsFull, Reading
  <2>6. ReadsOldest'
    <3>1. CASE Reading
      BY <2>1, <3>1 DEF ReadsOldest
    <3>2. CASE ~Reading
      BY <1>3, <3>2 DEF ReadsOldest, Reading
    <3> QED
      BY <3>1, <3>2
  <2> QED
    BY <1>7, <2>4, <2>5, <2>6 DEF RingInv
<1>9. CASE Inc(rbuf_w) # rbuf_r
  <2>1. rbuf_r' = rbuf_r /\ overrun' = overrun
    BY <1>9 DEF IsrDataChar, RX_WRITE
  <2>2. Dist(rbuf_r', rbuf_w') = Dist(rbuf_r, rbuf_w) + 1
    BY <1>2, <1>3, <1>9, <2>1, IncWrite
  <2>3. SlotsWritten'
    <3> SUFFICES ASSUME NEW k \in Index, k < Dist(rbuf_r, rbuf_w) + 1
                 PROVE  rbuf'[At(rbuf_r, k)] # NoChar
      BY <2>1, <2>2 DEF SlotsWritten
    <3>1. CASE k < Dist(rbuf_r, rbuf_w)
      BY <1>2, <1>4, <3>1, AtOther, IndexType DEF RingInv, SlotsWritten
    <3>2. CASE k = Dist(rbuf_r, rbuf_w)
      BY <1>2, <1>5, <3>2, AtDist
    <3>3. Dist(rbuf_r, rbuf_w) \in Int /\ k \in Int
      BY <1>2, IndexType DEF Index
    <3> QED
      BY <3>1, <3>2, <3>3
  <2>4. OverrunIsFull'
    BY <1>9, <2>1 DEF RingInv, OverrunIsFull
  <2>5. ReadsOldest'
    BY <1>2, <1>3, <1>4, <2>1
       DEF RingInv, ReadsOldest, GetcNeverStarves
  <2> QED
    BY <1>7, <2>3, <2>4, <2>5 DEF RingInv
<1> QED
  BY <1>8, <1>9

\* RX_READ's final store, stale index and all, keeps the ring's invariant.
LEMMA RingRead ==
  ASSUME TypeInv, RingInv, ReadStore
  PROVE  RingInv'
<1>1. /\ rbuf_w \in Index /\ rbuf_r \in Index /\ idx \in Index
      /\ rbuf_r # rbuf_w
  BY DEF TypeInv, TypeOK, IndexLoaded, ReadStore, RingInv, GetcNeverStarves
<1>2. /\ rbuf' = rbuf /\ rbuf_w' = rbuf_w /\ rbuf_r' = Inc(idx)
      /\ pc = "store" /\ pc' = "idle" /\ overrun' = FALSE
      /\ ldW' = ldW /\ ldR' = ldR
  BY DEF ReadStore
<1>3. GetcNeverStarves' /\ NeverInvents' /\ LoadsFresh' /\ ReadsOldest'
        /\ OverrunIsFull'
  BY <1>2 DEF RingInv, GetcNeverStarves, NeverInvents, LoadsFresh,
              ReadsOldest, OverrunIsFull
<1>4. SlotsWritten'
  <2>1. CASE overrun
    BY <1>1, <1>2, <2>1, IndexType DEF RingInv, OverrunIsFull, SlotsWritten
  <2>2. CASE ~overrun
    <3>1. idx = rbuf_r
      BY <1>2, <2>2 DEF RingInv, ReadsOldest
    <3>2. Dist(rbuf_r', rbuf_w') = Dist(rbuf_r, rbuf_w) - 1
      BY <1>1, <1>2, <3>1, IncRead
    <3>3. Dist(rbuf_r, rbuf_w) \in 0 .. RX_BUF_SIZE
      BY <1>1, IndexType
    <3> SUFFICES ASSUME NEW k \in Index, k < Dist(rbuf_r, rbuf_w) - 1
                 PROVE  rbuf[At(Inc(rbuf_r), k)] # NoChar
      BY <1>2, <3>1, <3>2 DEF SlotsWritten
    <3>4. /\ k + 1 \in Index
          /\ k + 1 < Dist(rbuf_r, rbuf_w)
          /\ k < RX_BUF_SIZE
      BY <3>3, RingAssumption DEF Index
    <3>5. At(Inc(rbuf_r), k) = At(rbuf_r, k + 1)
      BY <1>1, <3>4, AtInc
    <3> QED
      BY <3>4, <3>5 DEF RingInv, SlotsWritten
  <2> QED
    BY <2>1, <2>2
<1> QED
  BY <1>3, <1>4 DEF RingInv

\* Every step keeps the ring's invariant.
LEMMA RingStep == TypeInv /\ RingInv /\ [Next]_vars => RingInv'
<1> SUFFICES ASSUME TypeInv, RingInv, [Next]_vars
             PROVE  RingInv'
  OBVIOUS
<1> USE DEF RingInv, GetcNeverStarves, NeverInvents, LoadsFresh, ReadsOldest,
            SlotsWritten, OverrunIsFull, Reading
<1>0. CASE UNCHANGED vars
  BY <1>0 DEF vars
<1>1. ASSUME NEW ch \in Char, Arrive(ch)
      PROVE  RingInv'
  BY <1>1 DEF Arrive, ringVars, mainVars
<1>2. CASE IsrEnter \/ IsrInterruptChar \/ IsrReturn
  BY <1>2 DEF IsrEnter, IsrInterruptChar, IsrReturn, ringVars, mainVars
<1>3. CASE IsrDataChar
  BY <1>3, RingWrite
<1>4. CASE Script
  BY <1>4 DEF Script, ToggleIrq, SetInterruptChar, VmRaises, StdinCall,
              ringVars, mainVars
<1>5. CASE LoadW \/ LoadR
  BY <1>5 DEF LoadW, LoadR, ringVars
<1>6. CASE RxState
  BY <1>6 DEF RxState, Tested, Forget, ringVars
<1>7. CASE GetcWait \/ HandlePending
  BY <1>7 DEF GetcWait, HandlePending, Tested, Forget, ringVars
<1>8. CASE ReadIndex
  BY <1>8 DEF ReadIndex, ringVars
<1>9. CASE ReadByte
  <2>1. /\ pc = "byte" /\ pc' = "advance" /\ c' = rbuf[idx] /\ idx \in Index
        /\ UNCHANGED <<rbuf, rbuf_w, rbuf_r, ldW, ldR, overrun>>
    BY <1>9 DEF ReadByte, ringVars, TypeInv, TypeOK, IndexLoaded
  <2>2. Dist(rbuf_r, rbuf_w) \in 0 .. RX_BUF_SIZE /\ Dist(rbuf_r, rbuf_w) # 0
    BY <2>1, IndexType, DistZero DEF TypeInv, TypeOK
  <2>3. At(rbuf_r, 0) = rbuf_r
    BY RingAssumption DEF TypeInv, TypeOK, At, Index
  <2>4. rbuf[rbuf_r] # NoChar
    BY <2>2, <2>3, RingAssumption DEF Index
  <2>5. c' # NoChar
    BY <2>1, <2>4
  <2> QED
    BY <2>1, <2>5
<1>10. CASE ReadAdvance
  BY <1>10 DEF ReadAdvance, ringVars
<1>11. CASE ReadStore
  BY <1>11, RingRead
<1> QED
  BY <1>0, <1>1, <1>2, <1>3, <1>4, <1>5, <1>6, <1>7, <1>8, <1>9, <1>10, <1>11
     DEF Next, Isr, Stdin

\* The ring's invariant holds throughout.
LEMMA RingInvariant == Spec => [](TypeInv /\ RingInv)
<1>1. Init => RingInv
  BY RingAssumption
     DEF Init, RingInv, GetcNeverStarves, NeverInvents, LoadsFresh,
         ReadsOldest, SlotsWritten, OverrunIsFull, Index, Dist
<1>2. TypeInv /\ RingInv /\ [Next]_vars => (TypeInv /\ RingInv)'
  BY TypeStep, RingStep
<1> QED
  BY <1>1, <1>2, TypeInvariant, RingStep, PTL DEF Spec

\* mini_uart_getc never waits on an empty ring after mini_uart_rx_state has
\* answered yes (mini-uart.c:126), for every ring size and every interleaving.
THEOREM GetcNeverWaits == Spec => []GetcNeverStarves
<1>1. RingInv => GetcNeverStarves
  BY DEF RingInv
<1> QED
  BY <1>1, RingInvariant, PTL

\* RX_READ (mini-uart.c:38-40) never returns a slot that was never written.
THEOREM NothingInvented == Spec => []NeverInvents
<1>1. RingInv => NeverInvents
  BY DEF RingInv
<1> QED
  BY <1>1, RingInvariant, PTL

-----------------------------------------------------------------------------
(* The driver implements the drop-oldest queue. *)

\* The ring's contents are a sequence of characters, one per offset.
ContentsInv ==
  /\ Contents \in Seq(Char)
  /\ Len(Contents) = Dist(rbuf_r, rbuf_w)
  /\ Dist(rbuf_r, rbuf_w) \in 0 .. RX_BUF_SIZE
  /\ \A k \in 1 .. Dist(rbuf_r, rbuf_w) :
       Contents[k] = rbuf[At(rbuf_r, k - 1)]

\* The ring's contents are a sequence of characters, at most RX_BUF_SIZE long.
LEMMA ContentsSeq == TypeInv /\ RingInv => ContentsInv
<1> SUFFICES ASSUME TypeInv, RingInv
             PROVE  ContentsInv
  OBVIOUS
<1> DEFINE n == Dist(rbuf_r, rbuf_w)
<1>1. n \in 0 .. RX_BUF_SIZE
  BY IndexType DEF TypeInv, TypeOK
<1>2. \A k \in 1 .. n : rbuf[At(rbuf_r, k - 1)] \in Char
  <2> TAKE k \in 1 .. n
  <2>1. k - 1 \in Index /\ k - 1 < n
    BY <1>1, RingAssumption DEF Index
  <2>2. At(rbuf_r, k - 1) \in Index
    BY <2>1, IndexType DEF TypeInv, TypeOK
  <2>3. rbuf[At(rbuf_r, k - 1)] # NoChar
    BY <2>1 DEF RingInv, SlotsWritten
  <2> QED
    BY <2>2, <2>3 DEF TypeInv, TypeOK
<1>3. Contents \in [1 .. n -> Char]
  BY <1>2 DEF Contents
<1>4. n \in Nat
  BY <1>1, RingAssumption
<1>5. Contents \in Seq(Char) /\ Len(Contents) = n
  <2>1. Contents \in Seq(Char)
    BY <1>3, <1>4, SeqDef
  <2>2. DOMAIN Contents = 1 .. n
    BY <1>3
  <2> QED
    BY <1>4, <2>1, <2>2, LenProperties
<1> QED
  BY <1>1, <1>5 DEF Contents, ContentsInv

\* The handler's RX_WRITE is the queue's put, with the drop when it is full.
LEMMA WriteIsPut ==
  ASSUME TypeInv, RingInv, ContentsInv, ContentsInv', IsrDataChar
  PROVE  Queue!Next
<1> DEFINE ch == Head(fifo)
           n == Dist(rbuf_r, rbuf_w)
<1>1. ch \in Char
  BY FifoPop DEF IsrDataChar, TypeInv, TypeOK
<1>2. /\ rbuf_w \in Index /\ rbuf_r \in Index
      /\ rbuf \in [Index -> Char \cup {NoChar}]
  BY DEF TypeInv, TypeOK
<1>3. /\ rbuf' = [rbuf EXCEPT ![rbuf_w] = ch]
      /\ rbuf_w' = Inc(rbuf_w)
      /\ pc' = pc /\ result' = result
  BY DEF IsrDataChar, RX_WRITE, mainVars
<1>4. Reading' = Reading
  BY <1>3 DEF Reading
<1>5. \A i \in Index : i # rbuf_w => rbuf'[i] = rbuf[i]
  BY <1>2, <1>3
<1>6. rbuf'[rbuf_w] = ch
  BY <1>2, <1>3
<1>7. /\ Contents \in Seq(Char) /\ Len(Contents) = n
      /\ n \in 0 .. RX_BUF_SIZE
      /\ \A k \in 1 .. n : Contents[k] = rbuf[At(rbuf_r, k - 1)]
  BY DEF ContentsInv
<1>8. CASE Inc(rbuf_w) # rbuf_r
  <2>1. rbuf_r' = rbuf_r /\ overrun' = overrun
    BY <1>8 DEF IsrDataChar, RX_WRITE
  <2>2. Dist(rbuf_r', rbuf_w') = n + 1
    BY <1>2, <1>3, <1>8, <2>1, IncWrite
  <2>3. /\ Contents' \in Seq(Char) /\ Len(Contents') = n + 1
        /\ n + 1 <= RX_BUF_SIZE
        /\ \A k \in 1 .. n + 1 : Contents'[k] = rbuf'[At(rbuf_r, k - 1)]
    BY <2>1, <2>2, <1>7, RingAssumption DEF ContentsInv
  <2>4. /\ Append(Contents, ch) \in Seq(Char)
        /\ Len(Append(Contents, ch)) = n + 1
        /\ \A k \in 1 .. n : Append(Contents, ch)[k] = Contents[k]
        /\ Append(Contents, ch)[n + 1] = ch
    BY <1>1, <1>7, AppendProperties
  <2>5. \A k \in 1 .. n + 1 : Contents'[k] = Append(Contents, ch)[k]
    <3> TAKE k \in 1 .. n + 1
    <3>1. CASE k \in 1 .. n
      <4>1. k - 1 \in Index /\ k - 1 < n
        BY <3>1, <1>7, RingAssumption DEF Index
      <4>2. At(rbuf_r, k - 1) \in Index /\ At(rbuf_r, k - 1) # rbuf_w
        BY <4>1, <1>2, IndexType, AtOther
      <4> QED
        BY <3>1, <4>2, <1>5, <1>7, <2>3, <2>4
    <3>2. CASE k = n + 1
      <4>1. At(rbuf_r, k - 1) = rbuf_w
        BY <3>2, <1>2, <1>7, AtDist
      <4> QED
        BY <3>2, <4>1, <1>6, <2>3, <2>4
    <3> QED
      BY <3>1, <3>2, <1>7
  <2>6. Contents' = Append(Contents, ch)
    BY <2>3, <2>4, <2>5, SeqEqual
  <2>7. Queue!PutRoom(ch)
    BY <1>3, <1>4, <1>7, <2>1, <2>3, <2>6, RingAssumption DEF Queue!PutRoom
  <2> QED
    BY <1>1, <2>7 DEF Queue!Next
<1>9. CASE Inc(rbuf_w) = rbuf_r
  <2>1. rbuf_r' = Inc(rbuf_r) /\ overrun' = Reading
    BY <1>9 DEF IsrDataChar, RX_WRITE
  <2>2. Dist(rbuf_r', rbuf_w') = n /\ n = RX_BUF_SIZE
    BY <1>2, <1>3, <1>9, <2>1, IncWrite, IncBoth
  <2>3. /\ Contents' \in Seq(Char) /\ Len(Contents') = n
        /\ \A k \in 1 .. n : Contents'[k] = rbuf'[At(Inc(rbuf_r), k - 1)]
    BY <2>1, <2>2 DEF ContentsInv
  <2>4. /\ Tail(Contents) \in Seq(Char)
        /\ Len(Tail(Contents)) = n - 1
        /\ \A k \in 1 .. n - 1 : Tail(Contents)[k] = Contents[k + 1]
    BY <1>7, <2>2, RingAssumption, EmptySeq, HeadTailProperties
  <2>5. /\ Append(Tail(Contents), ch) \in Seq(Char)
        /\ Len(Append(Tail(Contents), ch)) = n
        /\ \A k \in 1 .. n - 1 :
             Append(Tail(Contents), ch)[k] = Tail(Contents)[k]
        /\ Append(Tail(Contents), ch)[n] = ch
    BY <1>1, <1>7, <2>4, AppendProperties
  <2>6. \A k \in 1 .. n : Contents'[k] = Append(Tail(Contents), ch)[k]
    <3> TAKE k \in 1 .. n
    <3>0. /\ k - 1 \in Index /\ k - 1 < RX_BUF_SIZE
          /\ k - 1 + 1 = k /\ k \in Index
      BY <2>2, RingAssumption DEF Index
    <3>1. At(Inc(rbuf_r), k - 1) = At(rbuf_r, k)
      BY <3>0, <1>2, AtInc
    <3>2. CASE k \in 1 .. n - 1
      <4>1. At(rbuf_r, k) \in Index /\ At(rbuf_r, k) # rbuf_w
        BY <3>0, <3>2, <1>2, <2>2, RingAssumption, IndexType, AtOther
      <4>2. Contents'[k] = rbuf[At(rbuf_r, k)]
        BY <3>1, <4>1, <1>5, <2>3
      <4>3. Contents[k + 1] = rbuf[At(rbuf_r, k + 1 - 1)]
        BY <3>2, <1>7, <2>2, RingAssumption
      <4> QED
        BY <3>0, <3>2, <4>2, <4>3, <2>4, <2>5
    <3>3. CASE k = n
      <4>1. At(rbuf_r, k) = rbuf_w
        BY <3>3, <1>2, AtDist
      <4> QED
        BY <3>1, <3>3, <4>1, <1>6, <2>3, <2>5
    <3> QED
      <4>1. n \in Nat /\ k \in 1 .. n
        BY <2>2, RingAssumption
      <4>2. k \in 1 .. n - 1 \/ k = n
        BY <4>1
      <4> QED
        BY <3>2, <3>3, <4>2
  <2>7. Contents' = Append(Tail(Contents), ch)
    BY <2>3, <2>5, <2>6, SeqEqual
  <2>8. Queue!PutDrop(ch)
    BY <1>3, <1>4, <1>7, <2>1, <2>2, <2>7 DEF Queue!PutDrop
  <2> QED
    BY <1>1, <2>8 DEF Queue!Next
<1> QED
  BY <1>8, <1>9

\* RX_READ's first load begins a get.
LEMMA ReadIndexIsBegin ==
  ASSUME TypeInv, RingInv, ContentsInv, ReadIndex
  PROVE  Queue!Next
<1>1. UNCHANGED <<rbuf, rbuf_w, rbuf_r, result>> /\ overrun' = FALSE
  BY DEF ReadIndex, ringVars
<1>2. Contents' = Contents
  BY <1>1 DEF Contents, Dist, At
<1>3. ~Reading /\ Reading' = TRUE
  BY DEF ReadIndex, Reading
<1>4. Contents # << >>
  <2>1. rbuf_r # rbuf_w
    BY DEF ReadIndex, RingInv, GetcNeverStarves
  <2>2. Len(Contents) # 0
    BY <2>1, DistZero DEF ContentsInv, TypeInv, TypeOK
  <2> QED
    BY <2>2, EmptySeq
<1> QED
  BY <1>1, <1>2, <1>3, <1>4 DEF Queue!Next, Queue!GetBegin

\* RX_READ's store ends it: exactly, or torn when the handler dropped meanwhile.
LEMMA ReadStoreIsGet ==
  ASSUME TypeInv, RingInv, ContentsInv, ContentsInv', ReadStore
  PROVE  Queue!Next
<1> DEFINE n == Dist(rbuf_r, rbuf_w)
           m == Dist(Inc(idx), rbuf_w)
<1>1. /\ rbuf_w \in Index /\ rbuf_r \in Index /\ idx \in Index
      /\ rbuf_r # rbuf_w
      /\ c \in Char /\ overrun \in BOOLEAN
  BY DEF TypeInv, TypeOK, IndexLoaded, ReadStore, RingInv, GetcNeverStarves,
         NeverInvents
<1>2. /\ rbuf' = rbuf /\ rbuf_w' = rbuf_w /\ rbuf_r' = Inc(idx)
      /\ pc = "store" /\ overrun' = FALSE /\ result' = c
  BY DEF ReadStore
<1>3. Reading /\ Reading' = FALSE
  BY DEF ReadStore, Reading
<1>4. /\ Contents \in Seq(Char) /\ Len(Contents) = n
      /\ n \in 0 .. RX_BUF_SIZE /\ n # 0
      /\ \A k \in 1 .. n : Contents[k] = rbuf[At(rbuf_r, k - 1)]
  BY <1>1, DistZero DEF ContentsInv
<1>5. /\ Contents' \in Seq(Char) /\ Len(Contents') = m
      /\ m \in 0 .. RX_BUF_SIZE
      /\ \A k \in 1 .. m : Contents'[k] = rbuf[At(Inc(idx), k - 1)]
  BY <1>2 DEF ContentsInv
<1>6. CASE ~overrun
  <2>1. idx = rbuf_r /\ c = rbuf[rbuf_r]
    BY <1>2, <1>6 DEF RingInv, ReadsOldest
  <2>2. m = n - 1
    BY <1>1, <2>1, IncRead
  <2>3. Contents # << >>
    BY <1>4, EmptySeq
  <2>4. /\ Tail(Contents) \in Seq(Char)
        /\ Len(Tail(Contents)) = n - 1
        /\ \A k \in 1 .. n - 1 : Tail(Contents)[k] = Contents[k + 1]
        /\ Head(Contents) = Contents[1]
    BY <1>4, <2>3, HeadTailProperties
  <2>5. Head(Contents) = c
    <3>1. At(rbuf_r, 0) = rbuf_r
      BY <1>1, RingAssumption DEF At, Index
    <3>2. 1 \in 1 .. n /\ 1 - 1 = 0
      BY <1>4, RingAssumption
    <3> QED
      BY <1>4, <2>1, <2>4, <3>1, <3>2
  <2>6. \A k \in 1 .. n - 1 : Contents'[k] = Tail(Contents)[k]
    <3> TAKE k \in 1 .. n - 1
    <3>1. /\ k - 1 \in Index /\ k - 1 < RX_BUF_SIZE /\ k - 1 + 1 = k
          /\ k + 1 \in 1 .. n /\ k + 1 - 1 = k
      BY <1>4, RingAssumption DEF Index
    <3>2. At(Inc(rbuf_r), k - 1) = At(rbuf_r, k)
      BY <1>1, <3>1, AtInc
    <3> QED
      BY <1>4, <1>5, <2>1, <2>2, <2>4, <3>1, <3>2
  <2>7. Contents' = Tail(Contents)
    BY <1>5, <2>2, <2>4, <2>6, SeqEqual
  <2> QED
    BY <1>1, <1>2, <1>3, <1>6, <2>3, <2>5, <2>7
       DEF Queue!Next, Queue!GetExact
<1>7. CASE overrun
  <2>1. Inc(rbuf_w) = rbuf_r
    BY <1>7 DEF RingInv, OverrunIsFull
  <2>2. Inc(idx) \in Index
    BY <1>1, IndexType
  <2>3. /\ n = RX_BUF_SIZE
        /\ \A k \in Index : k < m => At(Inc(idx), k) = At(rbuf_r, n - m + k)
    BY <1>1, <2>1, <2>2, FullSuffix
  <2>4. m \in 0 .. n /\ m \in Int /\ n \in Int
    BY <1>5, <2>3, RingAssumption
  <2> DEFINE s == SubSeq(Contents, n - m + 1, n)
  <2>5. \A i \in n - m + 1 .. n : Contents[i] \in Char
    BY <1>4, <2>4, ElementOfSeq
  <2>6. /\ s \in Seq(Char)
        /\ Len(s) = m
        /\ \A i \in 1 .. m : s[i] = Contents[n - m + i]
    BY <2>4, <2>5, SubSeqProperties
  <2>7. \A k \in 1 .. m : Contents'[k] = s[k]
    <3> TAKE k \in 1 .. m
    <3>1. /\ k - 1 \in Index /\ k - 1 < m
          /\ n - m + k \in 1 .. n
          /\ n - m + k - 1 = n - m + (k - 1)
      BY <2>3, <2>4, RingAssumption DEF Index
    <3>2. Contents'[k] = rbuf[At(Inc(idx), k - 1)]
      <4>1. \A j \in 1 .. m : Contents'[j] = rbuf[At(Inc(idx), j - 1)]
        BY <1>5
      <4> QED
        BY <4>1
    <3>3. At(Inc(idx), k - 1) = At(rbuf_r, n - m + (k - 1))
      BY <2>3, <3>1
    <3>4. Contents[n - m + k] = rbuf[At(rbuf_r, n - m + k - 1)]
      <4>1. \A j \in 1 .. n : Contents[j] = rbuf[At(rbuf_r, j - 1)]
        BY <1>4
      <4>2. n - m + k \in 1 .. n
        BY <3>1
      <4>3. PICK j \in 1 .. n : j = n - m + k
        BY <4>2
      <4>4. Contents[j] = rbuf[At(rbuf_r, j - 1)]
        BY <4>1
      <4> QED
        BY <4>3, <4>4, <2>4
    <3>5. s[k] = Contents[n - m + k]
      BY <2>6
    <3> QED
      BY <3>1, <3>2, <3>3, <3>4, <3>5
  <2>8. Contents' = s
    BY <1>5, <2>6, <2>7, SeqEqual
  <2>9. \E j \in 0 .. Len(Contents) :
          Contents' = SubSeq(Contents, Len(Contents) - j + 1, Len(Contents))
    BY <1>4, <2>4, <2>8
  <2> QED
    BY <1>1, <1>2, <1>3, <1>7, <2>9 DEF Queue!Next, Queue!GetTorn
<1> QED
  BY <1>6, <1>7

\* Every step of the driver is a step of the drop-oldest queue or a stutter.
LEMMA QueueStep ==
  ASSUME TypeInv, RingInv, ContentsInv, ContentsInv', [Next]_vars
  PROVE  [Queue!Next]_(Queue!qvars)
<1> DEFINE Same == /\ UNCHANGED <<rbuf, rbuf_w, rbuf_r, overrun, result>>
                   /\ Reading' = Reading
<1>1. ASSUME Same
      PROVE  UNCHANGED Queue!qvars
  <2>1. Contents' = Contents
    BY <1>1 DEF Contents, Dist, At
  <2> QED
    BY <1>1, <2>1 DEF Queue!qvars
<1>2. CASE UNCHANGED vars
  BY <1>1, <1>2 DEF vars, Reading
<1>3. ASSUME NEW ch \in Char, Arrive(ch)
      PROVE  Same
  BY <1>3 DEF Arrive, ringVars, mainVars, Reading
<1>4. CASE IsrEnter \/ IsrInterruptChar \/ IsrReturn
  BY <1>1, <1>4
     DEF IsrEnter, IsrInterruptChar, IsrReturn, ringVars, mainVars, Reading
<1>5. CASE IsrDataChar
  BY <1>5, WriteIsPut
<1>6. CASE Script
  BY <1>1, <1>6 DEF Script, ToggleIrq, SetInterruptChar, VmRaises, StdinCall,
                    ringVars, mainVars, Reading
<1>7. CASE LoadW \/ LoadR \/ RxState \/ GetcWait \/ HandlePending
  BY <1>1, <1>7
     DEF LoadW, LoadR, RxState, GetcWait, HandlePending, ringVars, Reading
<1>8. CASE ReadByte \/ ReadAdvance
  BY <1>1, <1>8 DEF ReadByte, ReadAdvance, ringVars, Reading
<1>9. CASE ReadIndex
  BY <1>9, ReadIndexIsBegin
<1>10. CASE ReadStore
  BY <1>10, ReadStoreIsGet
<1> QED
  BY <1>1, <1>2, <1>3, <1>4, <1>5, <1>6, <1>7, <1>8, <1>9, <1>10
     DEF Next, Isr, Stdin

\* The driver implements the drop-oldest queue: a read that no drop overlaps
\* returns the oldest character and removes only that one, and one that a drop
\* overlaps leaves a suffix of the queue.
THEOREM DriverImplementsQueue == Spec => ImplementsQueue
<1>1. Init => Queue!Init
  <2> SUFFICES ASSUME Init
               PROVE  Queue!Init
    OBVIOUS
  <2>1. Dist(rbuf_r, rbuf_w) = 0
    BY DEF Init, Dist
  <2>2. Contents = << >>
    BY <2>1 DEF Contents
  <2> QED
    BY <2>2 DEF Init, Queue!Init, Reading, NoChar, Char
<1>2. TypeInv /\ RingInv /\ (TypeInv /\ RingInv)' /\ [Next]_vars
        => [Queue!Next]_(Queue!qvars)
  <2>1. (TypeInv /\ RingInv)' => ContentsInv'
    BY ContentsSeq, PTL
  <2> QED
    BY <2>1, ContentsSeq, QueueStep
<1> QED
  BY <1>1, <1>2, RingInvariant, PTL DEF Spec, ImplementsQueue, Queue!Spec
=============================================================================
