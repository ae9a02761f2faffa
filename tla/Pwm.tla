-------------------------------- MODULE Pwm --------------------------------
(***************************************************************************)
(* The PWM driver (pwm.c) and machine.PWM (machine_pwm.c): two channels    *)
(* with a range and data each, and one FIFO, which fifo_write fills while  *)
(* the controller plays it on the channels that use it, as long as the     *)
(* clock of ClockMgr runs.                                                 *)
(*                                                                         *)
(* Registers wrap at Word; the duties of 16 bits are parts of Unit.        *)
(***************************************************************************)
EXTENDS ClockMgr, Gpio

CONSTANTS
  Word, Unit,                \* 2^32 and 2^16
  DefaultHz, DefaultPeriod,  \* DEFAULT_TICK_HZ, DEFAULT_PERIOD
  Asked,                     \* the numbers scripts give to PWM.init
  Values,                    \* and to the other methods
  Depth,                     \* words the FIFO holds
  PwmMax,                    \* bound: words in a buffer
  Timeouts                   \* of fifo_write, in microseconds

ASSUME PwmAssumption ==
  /\ Unit \in Nat \ {0} /\ Word \in Nat \ {0} /\ Word % Unit = 0
  /\ Values \subseteq 1 .. Word - 1 /\ Depth \in Nat \ {0} /\ PwmMax \in Nat
  /\ Timeouts \subseteq Nat
  /\ DefaultHz \in 1 .. Word - 1 /\ DefaultPeriod \in 1 .. Word - 1
  /\ Asked \subseteq [tick_hz : 0 .. Word - 1, freq : 0 .. Word - 1, period : 0 .. Word - 1,
                     duty_ticks : 0 .. Word - 1, duty_u16 : 0 .. Word - 1]

VARIABLES
  CTL,        \* of each channel, the flags that are set
  RNG, DAT,   \* its range and data
  tick_hz,    \* its object's tick_hz
  fifo,       \* the number of words in the FIFO
  wr,         \* fifo_write's locals
  queued      \* history: the words it has put into the FIFO, <<buffer, index>>

pwmRegs == <<CTL, RNG, DAT, tick_hz>>
pwmVars == <<pwmRegs, fifo, wr, queued>>

Ids   == {0, 1}
Flags == {"PWEN", "USEF", "RPTL"}   \* the other four go the same way

PwmInit ==
  /\ CTL = [id \in Ids |-> {}] /\ RNG = [id \in Ids |-> 0] /\ DAT = [id \in Ids |-> 0]
  /\ tick_hz = [id \in Ids |-> 0]
  /\ fifo = 0 /\ wr = [at |-> "none"] /\ queued = << >>

PwmIdle == wr.at # "turn"

Set(reg, id, v) == [reg EXCEPT ![id] = v]

-----------------------------------------------------------------------------
(* Initialisation. *)

\* pin, channel, function
pwm_alt == {<<12, 0, "alt0">>, <<13, 1, "alt0">>, <<18, 0, "alt5">>, <<19, 1, "alt5">>,
            <<40, 0, "alt0">>, <<41, 1, "alt0">>, <<45, 1, "alt0">>, <<52, 0, "alt1">>,
            <<53, 1, "alt1">>}

\* PWM(pin): a pin that is not in the table raises.
pwm_select_pin(id, p) ==
  \E row \in pwm_alt : row[1] = p /\ row[2] = id /\ gpio_set_mode({p}, row[3])

\* 0 is an argument that is not given, or not positive.
Defaults == [tick_hz |-> 0, freq |-> 0, period |-> 0, duty_ticks |-> 0, duty_u16 |-> 0]

TickHz(a) ==
  IF a.tick_hz > 0 THEN a.tick_hz
  ELSE IF a.freq > 0 /\ a.period > 0 THEN (a.freq * a.period) % Word
  ELSE DefaultHz

Period(a) ==
  IF a.period > 0 THEN a.period
  ELSE IF a.freq > 0 THEN TickHz(a) \div a.freq
  ELSE DefaultPeriod

\* The duty is a part of tick_hz, in 32 bits, and not of the period.
DutyTicks(a) ==
  IF a.duty_ticks > 0 THEN a.duty_ticks
  ELSE IF a.duty_u16 > 0 THEN ((TickHz(a) * a.duty_u16) % Word) \div Unit
  ELSE Period(a) \div 2

\* Flags in on are given as 1 and those in off as 0, the others keep their value;
\* PWEN is in on when active is not given.  pwm_err_clear ends at once: its loops
\* wait for status flags that a store clears.
init_helper(id, on, off, a) ==
  /\ CTL' = Set(CTL, id, (CTL[id] \cup on) \ off)
  /\ tick_hz' = Set(tick_hz, id, TickHz(a))
  /\ RNG' = Set(RNG, id, Period(a))
  /\ DAT' = Set(DAT, id, DutyTicks(a))

machine_pwm_init(id, on, off, a) ==
  /\ PwmIdle /\ on \cap off = {}
  /\ init_helper(id, on, off, a)
  /\ UNCHANGED <<fifo, wr, queued, gpioVars>>

machine_pwm_make_new(id, p, on, off, a) ==
  /\ PwmIdle /\ on \cap off = {}
  /\ pwm_select_pin(id, p)
  /\ init_helper(id, on, off, a)
  /\ UNCHANGED <<fifo, wr, queued, GPSET, pull_mode, pin_init>>

machine_pwm_deinit(id) ==
  /\ PwmIdle
  /\ CTL' = Set(CTL, id, CTL[id] \ {"PWEN"})
  /\ tick_hz' = Set(tick_hz, id, 0)
  /\ UNCHANGED <<RNG, DAT, fifo, wr, queued, gpioVars>>

-----------------------------------------------------------------------------
(* The methods that set a register. *)

machine_pwm_period(id, v) ==
  /\ PwmIdle
  /\ RNG' = Set(RNG, id, v)
  /\ UNCHANGED <<CTL, DAT, tick_hz, fifo, wr, queued, gpioVars>>

machine_pwm_duty_ticks(id, v) ==
  /\ PwmIdle
  /\ DAT' = Set(DAT, id, v)
  /\ UNCHANGED <<CTL, RNG, tick_hz, fifo, wr, queued, gpioVars>>

machine_pwm_duty_u16(id, v) ==
  machine_pwm_duty_ticks(id, ((RNG[id] * v) \div Unit) % Word)

\* Wrong on purpose: the products are computed in 32 bits.
Scaled_Narrow(duty, old, new) == ((duty * new) % Word) \div old

\* The ratio is a fixed-point number with 32 places, in 64 bits.
Scaled(duty, old, new) == ((((duty * Word) \div old) * new) \div Word) % Word

\* A division by zero, by a period of 0, gives 0 or all ones.
machine_pwm_freq(id, f) ==
  LET period == tick_hz[id] \div f
  IN /\ PwmIdle
     /\ RNG' = Set(RNG, id, period)
     /\ \E d \in IF RNG[id] = 0 THEN {0, Word - 1} ELSE {Scaled(DAT[id], RNG[id], period)} :
          DAT' = Set(DAT, id, d)
     /\ UNCHANGED <<CTL, tick_hz, fifo, wr, queued, gpioVars>>

machine_pwm_active(id, on) ==
  /\ PwmIdle
  /\ CTL' = Set(CTL, id, IF on THEN CTL[id] \cup {"PWEN"} ELSE CTL[id] \ {"PWEN"})
  /\ UNCHANGED <<RNG, DAT, tick_hz, fifo, wr, queued, gpioVars>>

machine_pwm_fifo_active(on) ==
  /\ PwmIdle
  /\ CTL' = [id \in Ids |-> IF on THEN CTL[id] \cup {"PWEN"} ELSE CTL[id] \ {"PWEN"}]
  /\ UNCHANGED <<RNG, DAT, tick_hz, fifo, wr, queued, gpioVars>>

-----------------------------------------------------------------------------
(* The FIFO. *)

\* The controller plays a word.
Play ==
  /\ BUSY /\ fifo > 0 /\ \E id \in Ids : {"PWEN", "USEF"} \subseteq CTL[id]
  /\ fifo' = fifo - 1
  /\ UNCHANGED <<pwmRegs, wr, queued, gpioVars>>

pwm_fifo_available == fifo < Depth

\* PWM.fifo_queue(val1[, val2]): what does not fit is dropped.
machine_pwm_fifo_queue(n) ==
  /\ PwmIdle
  /\ fifo' = IF fifo + n > Depth THEN Depth ELSE fifo + n
  /\ UNCHANGED <<pwmRegs, wr, queued, gpioVars>>

machine_pwm_fifo_clear ==
  /\ PwmIdle
  /\ fifo' = 0
  /\ UNCHANGED <<pwmRegs, wr, queued, gpioVars>>

\* PWM.fifo_write with a buffer of max[1] words, or two buffers.
machine_pwm_fifo_write ==
  \E two \in BOOLEAN, max \in [1 .. 2 -> 0 .. PwmMax], timeout \in Timeouts :
    /\ PwmIdle /\ (~two => max[2] = 0)
    /\ wr' = [at |-> "turn", two |-> two, max |-> max, timeout |-> timeout,
              elapsed |-> 0, pos |-> 0, buf |-> 1, val |-> <<0, 0>>]
    /\ queued' = << >>
    /\ UNCHANGED <<pwmRegs, fifo, gpioVars>>

\* A microsecond passes; those beyond the timeout make no difference.
Microsecond ==
  /\ wr.at = "turn" /\ wr.elapsed <= wr.timeout
  /\ wr' = [wr EXCEPT !.elapsed = @ + 1]
  /\ UNCHANGED <<pwmRegs, fifo, queued, gpioVars>>

\* elapsed_from gives ULLONG_MAX when no time has passed.
Late == wr.elapsed = 0 \/ wr.elapsed > wr.timeout

\* Wrong on purpose: the buffer moves on although the FIFO took nothing.
Fetch_Anyway(b) == [wr EXCEPT !.val[b] = @ + 1]

\* The word that is offered: the next of the buffer, or the one before it again
\* when pos is past its end.
Fetch(b) ==
  IF pwm_fifo_available /\ wr.pos < wr.max[b] THEN [wr EXCEPT !.val[b] = @ + 1] ELSE wr

\* One turn of either loop: pos counts turns, whether or not the FIFO took a word.
Turn ==
  LET b == wr.buf
      w == [Fetch(b) EXCEPT !.buf = IF wr.two /\ pwm_fifo_available THEN 3 - b ELSE b,
                            !.pos = @ + 1]
  IN /\ wr.at = "turn" /\ \E k \in 1 .. 2 : wr.pos < wr.max[k]
     /\ wr' = IF Late THEN [w EXCEPT !.at = "EBUSY"] ELSE w
     /\ fifo' = IF pwm_fifo_available THEN fifo + 1 ELSE fifo
     /\ queued' = IF pwm_fifo_available THEN Append(queued, <<b, w.val[b]>>) ELSE queued
     /\ UNCHANGED <<pwmRegs, gpioVars>>

FifoWritten ==
  /\ wr.at = "turn" /\ \A k \in 1 .. 2 : wr.pos >= wr.max[k]
  /\ wr' = [wr EXCEPT !.at = "done"]
  /\ UNCHANGED <<pwmRegs, fifo, queued, gpioVars>>

PwmSteps == Turn \/ FifoWritten

-----------------------------------------------------------------------------
(* Properties. *)

\* PWM.freq keeps the duty cycle, to a tick or two, although the registers'
\* product does not fit into 32 bits (machine_pwm.c:349-352).
FreqKeepsDuty ==
  [][\A id \in Ids, f \in Values :
       machine_pwm_freq(id, f) /\ 0 < RNG[id] /\ DAT[id] <= RNG[id]
         => /\ DAT'[id] * RNG[id] <= DAT[id] * RNG'[id]
            /\ DAT[id] * RNG'[id] < (DAT'[id] + 2) * RNG[id]]_pwmVars

\* Whatever of the buffers reaches the FIFO, while the controller drains it and
\* time runs out, is taken from them in order and without a gap, from the two
\* alternately; a buffer that is at its end repeats a word (machine_pwm.c:387-433).
InOrder ==
  \A i \in DOMAIN queued :
    LET two == wr.two
        b   == IF two /\ i % 2 = 0 THEN 2 ELSE 1
        n   == IF two THEN (i + 1) \div 2 ELSE i
        old == IF ~two \/ i <= 2 THEN 0 ELSE queued[i - 2][2]
    IN /\ queued[i][1] = b /\ queued[i][2] <= wr.max[b]
       /\ queued[i][2] = n \/ (two /\ queued[i][2] = old)

\* "copy buffer(s) to FIFO" (machine_pwm.c:361): a fifo_write that returns has
\* put every word of its buffers into the FIFO.
WritesAll ==
  wr.at = "done" =>
    \A b \in 1 .. 2 : \A n \in 1 .. wr.max[b] : \E i \in DOMAIN queued : queued[i] = <<b, n>>
=============================================================================
