--------------------------------- MODULE Spi ---------------------------------
(***************************************************************************)
(* The SPI driver (spi.c) behind machine.SPI (machine_spi.c), the          *)
(* controller it polls, and the pins: scripts frame their transfers with a *)
(* chip-select pin of their own, since the driver's are switched off.      *)
(*                                                                         *)
(* The controller is modelled from what the driver relies on: while TA is  *)
(* set it shifts one byte after another out of the transmit FIFO, and what *)
(* comes in goes to the receive FIFO; it stands still while that is full;  *)
(* DONE says that nothing is left to shift.                                *)
(***************************************************************************)
EXTENDS Gpio, Sequences

CONSTANTS
  SpiPins, SelectPin,   \* MISO, MOSI and SCLK; the script's chip select
  SpiFifo,              \* bytes in either FIFO
  SpiMax                \* bound: the longest buffer

ASSUME SpiAssumption ==
  /\ SpiPins \subseteq Pins /\ SelectPin \in Pins \ SpiPins
  /\ SpiFifo \in Nat \ {0} /\ SpiMax \in Nat

VARIABLES
  TA, TX, RX,        \* CS_TA and the FIFOs
  shift,             \* the byte on the wire, or Nothing
  spc, wlen, rlen, txcnt, rxcnt,   \* spi_transfer's place and locals
  buf_rx,            \* the bytes it has stored
  heard              \* history: what the slave has heard of this transfer

spiRegs   == <<TA, TX, RX, shift>>
spiLocals == <<spc, wlen, rlen, txcnt, rxcnt, buf_rx>>
spiVars   == <<spiRegs, spiLocals, heard>>

Nothing == -1
Padding == 0
Junk    == -2    \* what is read when the pins are not routed

SpiInit ==
  /\ TA = FALSE /\ TX = << >> /\ RX = << >> /\ shift = Nothing
  /\ spc = "script" /\ wlen = 0 /\ rlen = 0 /\ txcnt = 0 /\ rxcnt = 0
  /\ buf_rx = << >> /\ heard = << >>

SpiIdle == spc = "script" /\ PinIdle

DONE   == TA /\ TX = << >> /\ shift = Nothing
Routed == \A p \in SpiPins : GPFSEL[p] = "alt0"
SpiLen == IF wlen > rlen THEN wlen ELSE rlen

-----------------------------------------------------------------------------
(* The controller and the slave, which answers its n-th byte with n. *)

ShiftOut ==
  /\ TA /\ shift = Nothing /\ TX # << >> /\ Len(RX) < SpiFifo
  /\ shift' = Head(TX) /\ TX' = Tail(TX)
  /\ UNCHANGED <<TA, RX, spiLocals, heard, gpioVars>>

ShiftIn ==
  /\ shift # Nothing
  /\ heard' = Append(heard, IF Routed THEN shift ELSE Junk)
  /\ RX' = Append(RX, IF Routed THEN Len(heard) + 1 ELSE Junk)
  /\ shift' = Nothing
  /\ UNCHANGED <<TA, TX, spiLocals, gpioVars>>

-----------------------------------------------------------------------------
(* spi_transfer, one access to CS or FIFO after another.  The n-th byte of *)
(* the buffer is n.                                                        *)

spi_transfer(w, r) ==
  /\ SpiIdle
  /\ wlen' = w /\ rlen' = r /\ txcnt' = 0 /\ rxcnt' = 0 /\ buf_rx' = << >>
  /\ TX' = << >> /\ RX' = << >>
  /\ spc' = "active" /\ heard' = << >>
  /\ UNCHANGED <<TA, shift, gpioVars>>

SetActive ==
  /\ spc = "active"
  /\ TA' = TRUE /\ spc' = "tx"
  /\ UNCHANGED <<TX, RX, shift, wlen, rlen, txcnt, rxcnt, buf_rx, heard,
                 gpioVars>>

Transmit ==
  /\ spc = "tx"
  /\ IF Len(TX) < SpiFifo /\ txcnt < SpiLen
     THEN /\ TX' = Append(TX, IF txcnt < wlen THEN txcnt + 1 ELSE Padding)
          /\ txcnt' = txcnt + 1
     ELSE UNCHANGED <<TX, txcnt>>
  /\ spc' = "rx"
  /\ UNCHANGED <<TA, RX, shift, wlen, rlen, rxcnt, buf_rx, heard, gpioVars>>

Receive ==
  /\ spc = "rx"
  /\ IF RX # << >> /\ rxcnt < SpiLen
     THEN /\ buf_rx' = IF rxcnt < rlen THEN Append(buf_rx, Head(RX)) ELSE buf_rx
          /\ RX' = Tail(RX) /\ rxcnt' = rxcnt + 1
     ELSE UNCHANGED <<buf_rx, RX, rxcnt>>
  /\ spc' = "test"
  /\ UNCHANGED <<TA, TX, shift, wlen, rlen, txcnt, heard, gpioVars>>

\* Wrong on purpose: the loop ends with the last byte sent.
Complete_Sent == txcnt = SpiLen

\* Wrong on purpose: what is still in the receive FIFO is left there.
Complete_Done == txcnt = SpiLen /\ DONE

\* Wrong on purpose: the loop waits for bytes that were not asked for.
Complete_More == txcnt = SpiLen /\ rxcnt > SpiLen /\ DONE

Complete == txcnt = SpiLen /\ rxcnt = SpiLen /\ DONE

TransferDone ==
  /\ spc = "test"
  /\ spc' = IF Complete THEN "script" ELSE "tx"
  /\ TA' = ~Complete
  /\ UNCHANGED <<TX, RX, shift, wlen, rlen, txcnt, rxcnt, buf_rx, heard,
                 gpioVars>>

-----------------------------------------------------------------------------
(* machine.SPI *)

\* The constructor and SPI.init, which raises for other bits or another bit order
\* when the pins are already routed; the constructor raises before that.
machine_spi_init ==
  /\ SpiIdle
  /\ gpio_set_mode(SpiPins, "alt0")
  /\ \/ UNCHANGED <<TX, RX>>
     \/ TX' = << >> /\ RX' = << >>
  /\ UNCHANGED <<TA, shift, spiLocals, heard, GPSET, pull_mode, pin_init>>

machine_spi_deinit ==
  /\ SpiIdle
  /\ TA' = FALSE
  /\ gpio_set_mode(SpiPins, "in")
  /\ UNCHANGED <<TX, RX, shift, spiLocals, heard, GPSET, pull_mode, pin_init>>

machine_spi_write == \E n \in 0 .. SpiMax : spi_transfer(n, 0)

\* Buffers of different lengths raise, empty ones do nothing.
machine_spi_write_readinto == \E n \in 1 .. SpiMax : spi_transfer(n, n)

\* SPI.read and SPI.readinto
machine_spi_read == \E n \in 1 .. SpiMax : spi_transfer(0, n)

SpiScript == machine_spi_init \/ machine_spi_deinit \/ machine_spi_write
               \/ machine_spi_write_readinto \/ machine_spi_read
SpiDriver == SetActive \/ Transmit \/ Receive \/ TransferDone

-----------------------------------------------------------------------------
(* Properties. *)

Sent    == [i \in 1 .. SpiLen |-> IF i <= wlen THEN i ELSE Padding]
Answers == [i \in 1 .. rlen |-> i]

\* When a transfer over routed pins has returned, the slave has heard the buffer and its padding,
\* whole and in order, and the script has the slave's answers, however the
\* driver's loop and the two FIFOs were interleaved (spi.c:40-68).
TransferWhole ==
  SpiIdle /\ heard # << >> /\ (\A i \in DOMAIN heard : heard[i] # Junk)
    => heard = Sent /\ buf_rx = Answers

\* No byte is cut off: when the script releases its chip select, nothing is left
\* in the FIFO or on the wire (spi.c:64-69).
FrameClean ==
  [][Drives(SelectPin, 0) /\ GPSET'[SelectPin] = 1
       => TX = << >> /\ shift = Nothing]_<<gpioVars, spiVars>>

\* Every transfer ends (spi.c:40-68).
TransferEnds == spc # "script" ~> spc = "script"
=============================================================================
