------------------------------- MODULE Board -------------------------------
(***************************************************************************)
(* The peripherals a script drives, together on the board: the mailbox and *)
(* the clock manager, which the start-up uses first (rpi_init), the pins,  *)
(* the PWM and the SPI.  The PWM plays only while its clock runs, and SPI  *)
(* and PWM take pins over that machine.Pin handles too.  A script does one *)
(* job, a bound of this module; all it does comes one call after another,  *)
(* while the GPU and the controllers run beside it.                        *)
(***************************************************************************)
EXTENDS Pwm, Spi, Mailbox

CONSTANTS
  Jobs,         \* bound: the jobs of scripts, of {"clock", "pin", "pwm", "fifo", "spi", "gpu"}
  JobPins,      \* bound: the pins of the job "pin"
  JobChannels   \* bound: the channels of the jobs "pwm" and "fifo"

ASSUME JobAssumption == JobPins \subseteq Pins /\ JobChannels \subseteq Ids

VARIABLE job

boardVars == <<clockVars, gpioVars, pwmVars, spiVars, mailVars, job>>

Init == ClockInit /\ GpioInit /\ PwmInit /\ SpiInit /\ MailInit(get_clock_value) /\ job \in Jobs

\* The script runs when the start-up, and its call before, are over.
Script(j) == job = j /\ UNCHANGED job /\ MailIdle /\ ClockIdle

MailDriver == MailSteps /\ UNCHANGED <<clockVars, gpioVars, pwmVars, spiVars, job>>

Gpu == GpuAnswer /\ UNCHANGED <<clockVars, gpioVars, pwmVars, spiVars, job>>

GpuTalks == job = "gpu" /\ GpuNoise /\ UNCHANGED <<clockVars, gpioVars, pwmVars, spiVars, job>>

GpuScript ==
  /\ Script("gpu") /\ (gpu_vc_property \/ gpu_fb_init)
  /\ UNCHANGED <<clockVars, gpioVars, pwmVars, spiVars>>

ClockManager ==
  /\ MailIdle /\ ClockSteps
  /\ UNCHANGED <<gpioVars, pwmVars, spiVars, mailVars, job>>

ClockRuns == Generator /\ UNCHANGED <<gpioVars, pwmVars, spiVars, mailVars, job>>

ClockScript ==
  /\ Script("clock") /\ machine_clock
  /\ UNCHANGED <<gpioVars, pwmVars, spiVars, mailVars>>

PinScript ==
  /\ Script("pin")
  /\ \/ PinSteps
     \/ \E p \in JobPins, v \in {0, 1, Keep}, f \in Functions \cup {""}, u \in Pulls \cup {""} :
          machine_pin_init(p, v, f, u)
     \/ \E p \in JobPins, v \in {0, 1} : machine_pin_call(p, v)
  /\ UNCHANGED <<clockVars, pwmVars, spiVars, mailVars>>

PwmScript ==
  /\ Script("pwm")
  /\ \E id \in JobChannels, a \in Asked, v \in Values, act \in BOOLEAN, on, off \in SUBSET {"PWEN"} :
       \/ machine_pwm_init(id, on, off, a)
       \/ \E p \in Pins : machine_pwm_make_new(id, p, on, off, a)
       \/ machine_pwm_deinit(id)
       \/ machine_pwm_period(id, v)
       \/ machine_pwm_duty_ticks(id, v)
       \/ machine_pwm_duty_u16(id, v)
       \/ machine_pwm_freq(id, v)
       \/ machine_pwm_active(id, act)
  /\ UNCHANGED <<clockVars, spiVars, mailVars>>

FifoScript ==
  /\ Script("fifo")
  /\ \/ PwmSteps \/ Microsecond \/ Play
     \/ \E on, off \in SUBSET Flags, id \in JobChannels : machine_pwm_init(id, on, off, Defaults)
     \/ \E on \in BOOLEAN : machine_pwm_fifo_active(on)
     \/ \E n \in 1 .. 2 : machine_pwm_fifo_queue(n)
     \/ machine_pwm_fifo_clear
     \/ machine_pwm_fifo_write
  /\ UNCHANGED <<clockVars, spiVars, mailVars>>

SpiDriverStep == job = "spi" /\ SpiDriver /\ UNCHANGED <<clockVars, pwmVars, mailVars, job>>
SpiShiftOut   == ShiftOut /\ UNCHANGED <<clockVars, pwmVars, mailVars, job>>
SpiShiftIn    == ShiftIn /\ UNCHANGED <<clockVars, pwmVars, mailVars, job>>

\* The script frames its transfers with the level of SelectPin.
ChipSelect ==
  /\ Script("spi") /\ SpiIdle
  /\ \E v \in {0, 1} :
       \/ machine_pin_call(SelectPin, v)
       \/ gpio_set_mode({SelectPin}, "out") /\ UNCHANGED <<GPSET, pull_mode, pin_init>>
  /\ UNCHANGED <<clockVars, pwmVars, spiVars, mailVars>>

SpiScripts == Script("spi") /\ SpiScript /\ UNCHANGED <<clockVars, pwmVars, mailVars>>

Next == MailDriver \/ Gpu \/ GpuTalks \/ GpuScript \/ ClockManager \/ ClockRuns \/ ClockScript
          \/ PinScript \/ PwmScript \/ FifoScript
          \/ SpiDriverStep \/ SpiShiftOut \/ SpiShiftIn \/ ChipSelect \/ SpiScripts

\* The drivers' loops run on, the SPI controller shifts what it can, and the GPU
\* answers.
Fairness == /\ WF_boardVars(SpiDriverStep) /\ WF_boardVars(SpiShiftOut) /\ WF_boardVars(SpiShiftIn)
            /\ WF_boardVars(MailDriver) /\ WF_boardVars(Gpu)

Spec == Init /\ [][Next]_boardVars /\ Fairness

-----------------------------------------------------------------------------
\* Every SPI transfer and every call through the mailbox returns, although both
\* wait without a timeout and the GPU sends other words too (spi.c:40-68,
\* bcm283x_mailbox.c:4-17).
CallsReturn == TransferEnds /\ (~MailIdle ~> MailIdle)
=============================================================================
