-------------------------------- MODULE Gpio --------------------------------
(***************************************************************************)
(* The pins: bcm283x_gpio.c and machine.Pin (machine_pin.c).  A pin has a  *)
(* function, which gpio_set_mode selects, an output latch, which reaches   *)
(* the pin when that function is "out", and a pull.  Pin.init stores its   *)
(* arguments one after another, and the outside sees every store.          *)
(***************************************************************************)
EXTENDS Integers

CONSTANTS
  Pins,       \* the pins a script uses
  Functions   \* the pin functions: "in", "out" and the alternates

VARIABLES
  GPFSEL, GPSET,   \* the function and the latch of each pin
  pull_mode,       \* the pull, which the pin's object keeps as well
  pin_init         \* the Pin.init under way, and its arguments

gpioVars == <<GPFSEL, GPSET, pull_mode, pin_init>>

NoInit == [at |-> "none"]
Keep   == -1   \* a value that is not given; for a mode or a pull it is ""
Pulls  == {"none", "up", "down"}

GpioInit ==
  /\ GPFSEL = [p \in Pins |-> "in"] /\ GPSET = [p \in Pins |-> 0]
  /\ pull_mode = [p \in Pins |-> "none"] /\ pin_init = NoInit

PinIdle == pin_init = NoInit

gpio_set_mode(ps, f) == GPFSEL' = [p \in Pins |-> IF p \in ps THEN f ELSE GPFSEL[p]]

gpio_set_level(p, v) == GPSET' = [GPSET EXCEPT ![p] = v]

Drives(p, v) == GPFSEL[p] = "out" /\ GPSET[p] = v

-----------------------------------------------------------------------------
\* Wrong on purpose: the function is set first.
InitOrder_ModeFirst == <<"mode", "value", "pull", "none">>

\* "set initial value (do this before configuring mode/pull)"
InitOrder == <<"value", "mode", "pull", "none">>

\* Pin(id, ...) and Pin.init
machine_pin_init(p, v, f, u) ==
  /\ PinIdle
  /\ pin_init' = [at |-> InitOrder[1], pin |-> p, value |-> v, mode |-> f, pull |-> u]
  /\ UNCHANGED <<GPFSEL, GPSET, pull_mode>>

NextArg ==
  LET i == CHOOSE i \in 1 .. 3 : InitOrder[i] = pin_init.at
  IN pin_init' = IF InitOrder[i + 1] = "none" THEN NoInit
                 ELSE [pin_init EXCEPT !.at = InitOrder[i + 1]]

InitValue ==
  /\ pin_init.at = "value"
  /\ IF pin_init.value = Keep THEN UNCHANGED GPSET
                            ELSE gpio_set_level(pin_init.pin, pin_init.value)
  /\ NextArg
  /\ UNCHANGED <<GPFSEL, pull_mode>>

InitMode ==
  /\ pin_init.at = "mode"
  /\ IF pin_init.mode = "" THEN UNCHANGED GPFSEL
                           ELSE gpio_set_mode({pin_init.pin}, pin_init.mode)
  /\ NextArg
  /\ UNCHANGED <<GPSET, pull_mode>>

\* pin_set_pull_mode
InitPull ==
  /\ pin_init.at = "pull"
  /\ IF pin_init.pull = "" THEN UNCHANGED pull_mode
                           ELSE pull_mode' = [pull_mode EXCEPT ![pin_init.pin] = pin_init.pull]
  /\ NextArg
  /\ UNCHANGED <<GPFSEL, GPSET>>

\* Pin.value(v), the call of a pin, and ioctl(MP_PIN_WRITE)
machine_pin_call(p, v) ==
  /\ PinIdle
  /\ gpio_set_level(p, v)
  /\ UNCHANGED <<GPFSEL, pull_mode, pin_init>>

PinSteps == InitValue \/ InitMode \/ InitPull

-----------------------------------------------------------------------------
\* A pin that Pin.init turns into an output with a value never drives the other
\* level, not even between two of its stores (machine_pin.c:128-141).
NoGlitch ==
  [][\A p \in Pins :
       pin_init # NoInit /\ GPFSEL[p] # "out" /\ GPFSEL'[p] = "out" /\ pin_init.value # Keep
         => GPSET[p] = pin_init.value]_gpioVars
=============================================================================
