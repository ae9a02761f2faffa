------------------------------- MODULE MiniUart -------------------------------
(***************************************************************************)
(* The mini-UART console input: the interrupt handler isr_irq_mini_uart    *)
(* moves characters from the hardware FIFO to the ring rbuf, and the main  *)
(* thread takes them out in mp_hal_stdin_rx_chr through                    *)
(* mini_uart_rx_state and mini_uart_getc.                                  *)
(*                                                                         *)
(* There is one core.  The handler runs to its end before the main thread  *)
(* continues, so one iteration of its loop is one action; the main thread  *)
(* may be interrupted between any two accesses to a volatile variable, so  *)
(* each of its accesses to the ring is an action of its own.               *)
(***************************************************************************)
EXTENDS Integers, Sequences

CONSTANTS
  RX_BUF_SIZE,  \* the index mask; the ring has RX_BUF_SIZE + 1 slots
  FifoDepth,    \* characters the hardware FIFO holds
  MaxChars      \* bound: characters that arrive on the line

ASSUME RingAssumption == RX_BUF_SIZE \in Nat \ {0}
ASSUME LineAssumption == FifoDepth \in Nat \ {0} /\ MaxChars \in Nat

\* A data character is represented by its ordinal on the line, so that a loss,
\* a copy or a change of order shows; CtrlC is the interrupt character.
CtrlC  == 0
Char   == 0 .. MaxChars
NoChar == -1                      \* a slot or register nothing was put in
Index  == 0 .. RX_BUF_SIZE
NoIndex == -1

VARIABLES
  sent,          \* characters that have arrived on the line
  fifo,          \* hardware receive FIFO
  irqOn,         \* CPSR.I clear: arm_irq_enable
  inIsr,         \* irq_handler is running
  armed,         \* mp_interrupt_char is CtrlC (else -1)
  kbdPending,    \* mp_keyboard_interrupt has been called, not raised yet
  rbuf, rbuf_w, rbuf_r,
  pc,            \* where the main thread is
  ldW, ldR,      \* RX_EMPTY's two loads
  idx,           \* RX_READ's index, as loaded by its last access
  c,             \* the character RX_READ loaded
  overrun,       \* history: a character was dropped since RX_READ began
  result         \* what mp_hal_stdin_rx_chr returned last

hwVars   == <<sent, fifo>>
ringVars == <<rbuf, rbuf_w, rbuf_r>>
cpuVars  == <<irqOn, inIsr>>
excVars  == <<armed, kbdPending>>
mainVars == <<pc, ldW, ldR, idx, c, result>>
vars == <<sent, fifo, irqOn, inIsr, armed, kbdPending, rbuf, rbuf_w, rbuf_r,
          pc, ldW, ldR, idx, c, overrun, result>>

\* Wrong on purpose: the increment without the mask.
Inc_NoMask(i) == i + 1

\* (i + 1) & RX_BUF_SIZE, for an index i
Inc(i) == IF i = RX_BUF_SIZE THEN 0 ELSE i + 1

\* How many characters lie between two indexes, and the slot k places after r
Dist(r, w) == IF r <= w THEN w - r ELSE w - r + RX_BUF_SIZE + 1
At(r, k)   == IF r + k <= RX_BUF_SIZE THEN r + k ELSE r + k - RX_BUF_SIZE - 1

\* The ring's contents, oldest first
Contents == [k \in 1 .. Dist(rbuf_r, rbuf_w) |-> rbuf[At(rbuf_r, k - 1)]]

\* The main thread is inside RX_READ
Reading == pc \in {"byte", "advance", "store"}

-----------------------------------------------------------------------------
\* mini_uart_init runs once, at boot, before interrupts are enabled.
Init ==
  /\ sent = 0 /\ fifo = << >>
  /\ irqOn = TRUE /\ inIsr = FALSE
  /\ armed = FALSE /\ kbdPending = FALSE
  /\ rbuf = [i \in Index |-> NoChar] /\ rbuf_w = 0 /\ rbuf_r = 0
  /\ pc = "idle"
  /\ ldW = NoIndex /\ ldR = NoIndex /\ idx = NoIndex
  /\ c = NoChar /\ result = NoChar
  /\ overrun = FALSE

-----------------------------------------------------------------------------
(* The line.  External: the FIFO drops what arrives while it is full. *)

Arrive(ch) ==
  /\ sent < MaxChars
  /\ ch \in {CtrlC, sent + 1}
  /\ sent' = sent + 1
  /\ fifo' = IF Len(fifo) < FifoDepth THEN Append(fifo, ch) ELSE fifo
  /\ UNCHANGED <<ringVars, cpuVars, excVars, mainVars, overrun>>

-----------------------------------------------------------------------------
(* The interrupt handler. *)

\* irq_handler: IRQ_PEND1 & IRQ_AUX, AUX_IRQ & AUX_FLAG_MU
IsrEnter ==
  /\ irqOn /\ ~inIsr
  /\ fifo # << >>
  /\ inIsr' = TRUE
  /\ UNCHANGED <<hwVars, ringVars, irqOn, excVars, mainVars, overrun>>

\* Wrong on purpose: nothing is dropped when the write closes the ring.
RX_WRITE_NoDrop(ch) ==
  /\ rbuf' = [rbuf EXCEPT ![rbuf_w] = ch]
  /\ rbuf_w' = Inc(rbuf_w)
  /\ UNCHANGED <<rbuf_r, overrun>>

\* Wrong on purpose: rbuf_w is advanced before the character is stored.
RX_WRITE_IndexFirst(ch) ==
  /\ rbuf' = [rbuf EXCEPT ![Inc(rbuf_w)] = ch]
  /\ rbuf_w' = Inc(rbuf_w)
  /\ rbuf_r' = IF Inc(rbuf_w) = rbuf_r THEN Inc(rbuf_r) ELSE rbuf_r
  /\ overrun' = IF Inc(rbuf_w) = rbuf_r THEN Reading ELSE overrun

\* RX_WRITE: store, advance rbuf_w, and drop the oldest if that closed the ring
RX_WRITE(ch) ==
  /\ rbuf' = [rbuf EXCEPT ![rbuf_w] = ch]
  /\ rbuf_w' = Inc(rbuf_w)
  /\ rbuf_r' = IF Inc(rbuf_w) = rbuf_r THEN Inc(rbuf_r) ELSE rbuf_r
  /\ overrun' = IF Inc(rbuf_w) = rbuf_r THEN Reading ELSE overrun

\* One iteration of the loop of isr_irq_mini_uart, the interrupt character
IsrInterruptChar ==
  /\ inIsr
  /\ fifo # << >>
  /\ Head(fifo) = CtrlC /\ armed
  /\ fifo' = Tail(fifo)
  /\ kbdPending' = TRUE
  /\ UNCHANGED <<sent, ringVars, cpuVars, armed, mainVars, overrun>>

\* One iteration of that loop, any other character
IsrDataChar ==
  /\ inIsr
  /\ fifo # << >>
  /\ ~(Head(fifo) = CtrlC /\ armed)
  /\ RX_WRITE(Head(fifo))
  /\ fifo' = Tail(fifo)
  /\ UNCHANGED <<sent, cpuVars, excVars, mainVars>>

\* IRQ_MU_PENDING is false: the handler returns
IsrReturn ==
  /\ inIsr
  /\ fifo = << >>
  /\ inIsr' = FALSE
  /\ UNCHANGED <<hwVars, ringVars, irqOn, excVars, mainVars, overrun>>

-----------------------------------------------------------------------------
(* The main thread, outside mp_hal_stdin_rx_chr. *)

MainRuns == ~inIsr

\* machine.disable_irq() and machine.enable_irq()
ToggleIrq ==
  /\ MainRuns /\ pc = "idle"
  /\ irqOn' = ~irqOn
  /\ UNCHANGED <<hwVars, ringVars, inIsr, excVars, mainVars, overrun>>

\* mp_hal_set_interrupt_char: the REPL arms Ctrl-C only while code is running.
SetInterruptChar ==
  /\ MainRuns /\ pc = "idle"
  /\ armed' = ~armed
  /\ UNCHANGED <<hwVars, ringVars, cpuVars, kbdPending, mainVars, overrun>>

\* The interpreter's own poll raises a pending KeyboardInterrupt.
VmRaises ==
  /\ MainRuns /\ pc = "idle"
  /\ kbdPending
  /\ kbdPending' = FALSE
  /\ UNCHANGED <<hwVars, ringVars, cpuVars, armed, mainVars, overrun>>

StdinCall ==
  /\ MainRuns /\ pc = "idle"
  /\ pc' = "rx_state"
  /\ UNCHANGED <<hwVars, ringVars, cpuVars, excVars, ldW, ldR, idx, c, overrun,
                 result>>

-----------------------------------------------------------------------------
(* mp_hal_stdin_rx_chr with no key from the keyboard. *)

\* RX_EMPTY reads rbuf_w and rbuf_r; C leaves the order of the two reads open.
LoadW ==
  /\ MainRuns /\ pc \in {"rx_state", "getc"}
  /\ ldW = NoIndex
  /\ ldW' = rbuf_w
  /\ UNCHANGED <<hwVars, ringVars, cpuVars, excVars, pc, ldR, idx, c, overrun,
                 result>>

LoadR ==
  /\ MainRuns /\ pc \in {"rx_state", "getc"}
  /\ ldR = NoIndex
  /\ ldR' = rbuf_r
  /\ UNCHANGED <<hwVars, ringVars, cpuVars, excVars, pc, ldW, idx, c, overrun,
                 result>>

Tested == ldW # NoIndex /\ ldR # NoIndex

Forget == ldW' = NoIndex /\ ldR' = NoIndex

\* Wrong on purpose: RX_EMPTY's result is not inverted.
RxState_Inverted ==
  /\ MainRuns /\ pc = "rx_state" /\ Tested
  /\ pc' = IF ldW # ldR THEN "pending" ELSE "getc"
  /\ Forget
  /\ UNCHANGED <<hwVars, ringVars, cpuVars, excVars, idx, c, overrun, result>>

\* mini_uart_rx_state answers: go on to mini_uart_getc or to mp_handle_pending
RxState ==
  /\ MainRuns /\ pc = "rx_state" /\ Tested
  /\ pc' = IF ldW = ldR THEN "pending" ELSE "getc"
  /\ Forget
  /\ UNCHANGED <<hwVars, ringVars, cpuVars, excVars, idx, c, overrun, result>>

\* while (RX_EMPTY) in mini_uart_getc
GetcWait ==
  /\ MainRuns /\ pc = "getc" /\ Tested
  /\ pc' = IF ldW = ldR THEN "getc" ELSE "index"
  /\ Forget
  /\ UNCHANGED <<hwVars, ringVars, cpuVars, excVars, idx, c, overrun, result>>

\* Wrong on purpose: the wait loop does not poll for a pending exception.
HandlePending_NoPoll ==
  /\ MainRuns /\ pc = "pending"
  /\ pc' = "rx_state"
  /\ UNCHANGED <<hwVars, ringVars, cpuVars, excVars, ldW, ldR, idx, c, overrun,
                 result>>

\* mp_handle_pending: raise (which leaves the function) or poll again
HandlePending ==
  /\ MainRuns /\ pc = "pending"
  /\ pc' = IF kbdPending THEN "idle" ELSE "rx_state"
  /\ kbdPending' = FALSE
  /\ UNCHANGED <<hwVars, ringVars, cpuVars, armed, ldW, ldR, idx, c, overrun,
                 result>>

\* RX_READ, access by access: load rbuf_r, load rbuf[.], load rbuf_r, store it.
ReadIndex ==
  /\ MainRuns /\ pc = "index"
  /\ idx' = rbuf_r
  /\ overrun' = FALSE
  /\ pc' = "byte"
  /\ UNCHANGED <<hwVars, ringVars, cpuVars, excVars, ldW, ldR, c, result>>

ReadByte ==
  /\ MainRuns /\ pc = "byte"
  /\ c' = rbuf[idx]
  /\ pc' = "advance"
  /\ UNCHANGED <<hwVars, ringVars, cpuVars, excVars, ldW, ldR, idx, overrun,
                 result>>

ReadAdvance ==
  /\ MainRuns /\ pc = "advance"
  /\ idx' = rbuf_r
  /\ pc' = "store"
  /\ UNCHANGED <<hwVars, ringVars, cpuVars, excVars, ldW, ldR, c, overrun, result>>

\* ... and return the character to the caller
ReadStore ==
  /\ MainRuns /\ pc = "store"
  /\ rbuf_r' = Inc(idx)
  /\ result' = c
  /\ overrun' = FALSE
  /\ pc' = "idle"
  /\ UNCHANGED <<hwVars, rbuf, rbuf_w, cpuVars, excVars, ldW, ldR, idx, c>>

-----------------------------------------------------------------------------
Isr   == IsrEnter \/ IsrInterruptChar \/ IsrDataChar \/ IsrReturn
Stdin == LoadW \/ LoadR \/ RxState \/ GetcWait \/ HandlePending
           \/ ReadIndex \/ ReadByte \/ ReadAdvance \/ ReadStore
Script == ToggleIrq \/ SetInterruptChar \/ VmRaises \/ StdinCall

Next ==
  \/ \E ch \in Char : Arrive(ch)
  \/ Isr
  \/ Script
  \/ Stdin

Spec == Init /\ [][Next]_vars

\* The core executes: the handler once its interrupt is pending, and the main
\* thread otherwise.  The REPL loop of arm_main always asks for input again, and
\* the interpreter always polls for a pending exception.
Fairness ==
  /\ WF_vars(Isr)
  /\ WF_vars(Stdin)
  /\ WF_vars(StdinCall)
  /\ WF_vars(VmRaises)

FairSpec == Spec /\ Fairness

-----------------------------------------------------------------------------
(* Properties. *)

\* Every variable keeps its type.
TypeOK ==
  /\ sent \in 0 .. MaxChars
  /\ fifo \in Seq(Char) /\ Len(fifo) <= FifoDepth
  /\ irqOn \in BOOLEAN /\ inIsr \in BOOLEAN
  /\ armed \in BOOLEAN /\ kbdPending \in BOOLEAN
  /\ rbuf \in [Index -> Char \cup {NoChar}]
  /\ rbuf_w \in Index /\ rbuf_r \in Index
  /\ pc \in {"idle", "rx_state", "getc", "pending", "index", "byte", "advance",
             "store"}
  /\ ldW \in Index \cup {NoIndex} /\ ldR \in Index \cup {NoIndex}
  /\ idx \in Index \cup {NoIndex}
  /\ c \in Char \cup {NoChar} /\ result \in Char \cup {NoChar}
  /\ overrun \in BOOLEAN

\* Once mini_uart_rx_state has said that a character is there, one stays there
\* until RX_READ takes it, whatever the handler writes or drops meanwhile: the
\* wait loop of mini_uart_getc (mini-uart.c:126) never runs on an empty ring.
GetcNeverStarves ==
  pc \in {"getc", "index", "byte", "advance", "store"} => rbuf_w # rbuf_r

\* RX_READ never hands out a slot the handler has not written, not even when
\* the handler overruns the ring between its accesses (mini-uart.c:33-40).
NeverInvents == pc \in {"advance", "store"} => c # NoChar

\* The ring implements the drop-oldest queue, with RX_READ as its only
\* non-atomic operation.
Queue == INSTANCE RxQueue WITH
  Char <- Char, Capacity <- RX_BUF_SIZE,
  q <- Contents, getting <- Reading, torn <- overrun, out <- result
ImplementsQueue == Queue!Spec

\* While interrupts stay enabled, the FIFO and the ring are both drained once
\* the line falls silent: no character is left behind by an overrun, a torn
\* read or a Ctrl-C in the middle of the input.
StdinDrains ==
  <>[]irqOn => <>[](fifo = << >> /\ rbuf_w = rbuf_r)

\* A Ctrl-C that reached mp_keyboard_interrupt is raised in the end, also when
\* it comes while the main thread is inside mp_hal_stdin_rx_chr.
InterruptRaised == kbdPending ~> ~kbdPending
=============================================================================
