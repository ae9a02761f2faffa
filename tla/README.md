# TLA+ specifications of micropython-raspberrypi

This directory holds specifications of the MicroPython port for the Raspberry Pi
under `src/raspberrypi`: the C code that runs on the bare BCM2835/BCM2836 below
the interpreter. The interpreter itself (`src/micropython`), the file system code
it brings and the USB host stack (`csud`) are submodules whose sources are not in
the repository; they appear only as the port's code uses them.

File and line numbers below are relative to `src/raspberrypi`.

## 1. The system

There is one core and one stack of control: the main thread (the interpreter and
the C functions it calls) and one interrupt handler, `irq_handler` (rpi.c:70-79).
The handler runs with interrupts disabled and to its end, so it is atomic for the
main thread, but the main thread may be interrupted between any two of its
accesses to memory or to a device, unless it has disabled interrupts. MicroPython's
own critical sections are switched off in this port (mpconfigport.h:178-179).
Callbacks that the handler schedules, and a pending KeyboardInterrupt, run or are
raised where the main thread calls `mp_handle_pending`: in the interpreter's loop,
in the console's wait loop (mphalport.c:114) and in every `mp_hal_delay_ms`
(mphalport.c:24), hence in every wait of the SD card driver.

| component | code | state | operations | hard because | correct when |
|---|---|---|---|---|---|
| console input | mini-uart.c, mphalport.c | `rbuf`, `rbuf_w`, `rbuf_r`, the hardware FIFO, the pending KeyboardInterrupt | `isr_irq_mini_uart`; `mini_uart_rx_state`, `mini_uart_getc`, `mp_hal_stdin_rx_chr` | the handler changes both indexes between any two accesses of the reader | a drop-oldest queue; the reader never spins on an empty ring; input is drained and Ctrl-C raised |
| timers | machine_timer.c | `machine_timer_obj[]`, `C`, `CS`, the interrupt enables, the scheduler's queue | `isr_irq_timer`; `Timer()`, `init`, `deinit`, `period`, `callback`, `counter`, `compare_register` | methods are interrupted store by store; `CS` is shared by all timers and by the GPU | a match of an enabled timer is counted; a one-shot fires once; only callables are queued |
| clock and delays | rpi.c, mphalport.c, modutime.c | the 64-bit counter, read in two halves | `systime`, `elapsed_from`, `mp_hal_ticks_*`, `mp_hal_delay_*` | a carry between two reads; products of 32 bits | never torn, never backwards; delays are long enough and end |
| SD card | sd.c, machine_sdcard.c | `sd_scr`, `sd_rca`, `sd_err`; the controller's flags; the card's state | `sd_init`, `sd_readblock`, `sd_writeblock` | lost commands and answers, failing blocks, exceptions out of waits, two kinds of addressing | a store of numbered blocks; driver and card agree after a successful `sd_init` |
| SD mount | main.c:62-122 | the mount table, `first_part`, the current directory | `init_sdcard_fs` | four initialisations in a row, of which any may fail, under file systems already mounted | the first partition is /sd; files are read from the right blocks |
| I2C | i2c.c, machine_i2c.c | the controller's FIFO and status | `i2c_write`, `i2c_read`, pseudo stop | the controller's flags move while the driver polls them | every byte goes over once; the loops end |
| PWM | pwm.c, machine_pwm.c | `tick_hz`, range and data of two channels, the FIFO they share | `PWM()`, `init`, `deinit`, `freq`, `period`, `duty_*`, `active`, `fifo_*` | the FIFO drains while it is filled and time runs out; 32-bit products | what is written reaches the FIFO in order; a new frequency keeps the duty |
| SPI | spi.c, machine_spi.c | the controller's two FIFOs, the pins | `SPI()`, `init`, `deinit`, `write`, `read`, `readinto`, `write_readinto` | the driver polls two FIFOs and DONE while the controller shifts | a transfer is whole and over when it returns |
| clock manager | bcm283x_clockmgr.c, machine_clockmgr.c, rpi.c:133-140 | CTL and DIV of each clock | pause, config_ctl, config_div; `Clock()`, `init`, `divisor` | the clock runs on after ENAB is cleared | nothing changes under a running clock; what was asked for holds in the end |
| mailbox, GPU | bcm283x_mailbox.c, rpi.c:101-131, gpu.c, modgpu.c, gpu_vc_property.c | the two mailboxes, a message shared with the GPU | request and answer; `fb_init`, `vc_property` | words of other channels; no timeout; sizes computed in two places | the answer belongs to the request; the message fits; calls return |
| USB keyboard | usbkbd.c | the keys of the last report, the keyboard's address | `usbkbd_init`, `usbkbd_getc` | several keys in one report; overlapping presses; detaching | keys come out in order, none twice |
| USB host | usbhost.c, machine_usb_mode.c | whether it is initialised; its power | init, deinit, power; `machine.usb_mode` | scripts and the soft reboot both use it; Ctrl-C in its delays | the REPL is reached; a keyboard works again after any of it |
| boot, soft reboot | main.c, start.s, arm_exceptions.c | vectors, heap, what survives `mp_deinit` | `arm_main` | timers and interrupts survive a soft reboot, the heap does not | no callback of an old heap runs |
| GC hook | gccollect.c, gchelper.s | the roots | `gc_collect` | what is not a root | whatever is used later is a root |
| GPIO, Pin | bcm283x_gpio.c, machine_pin.c | function, latch and pull of each pin | `Pin()`, `init`, `value`, call | `init` is three stores the outside sees one by one; drivers take pins over | no glitch |
| the rest | moduos.c, modmcu.c, fatfs_port.c, uart.c, fs/ | none of their own | tables, one busy wait each, scripts | - | - |

Interactions. The handler and the main thread share the ring, the timer table, the
scheduler's queue and the pending exception. FatFs calls the SD driver through
`machine.SDCard`'s methods. The SD driver waits in `mp_hal_delay_ms`, which polls
the clock and may run callbacks or raise. The console reader asks the keyboard
first, then the ring. Boot mounts the card before it initialises USB, in every
turn of the soft-reboot loop. The start-up, the USB host's power and the `gpu`
module share the mailboxes. SPI and PWM change the function of pins that
`machine.Pin` also handles, and the PWM plays only while its clock runs.

## 2. The modules

| module | models | checked by |
|---|---|---|
| `RxQueue` | what the receive buffer promises: a bounded queue that drops its oldest character, with a non-atomic get | refined by `MiniUart` |
| `MiniUart` | mini-uart.c with USE_IRQ, `mp_hal_stdin_rx_chr`, the mini-UART part of `irq_handler` | `MCMiniUart` |
| `MiniUartProofs` | the theorems about `MiniUart` | TLAPS |
| `MachineTimer` | machine_timer.c with the timer part of `irq_handler` | `MCTimer`, `MCTimerLost` |
| `MachineTimerProofs` | the theorems about `MachineTimer` | TLAPS |
| `SysTime` | `systime`, the ticks and the delays | `MCSysTime` |
| `SysTimeProofs` | the theorems about `SysTime` | TLAPS |
| `BlockDevice` | what the SD driver promises: a store of numbered blocks | refined by `SdCard` |
| `SdCard` | sd.c behind machine_sdcard.c, with the card and the controller | `MCSdHigh` |
| `SdMount` | `init_sdcard_fs` and the use of what it mounted, on top of `SdCard` | `MCSdMountLow`, `MCSdMountReinit` |
| `SdProofs` | the theorems about `SdCard` and `SdMount` | TLAPS |
| `I2c` | i2c.c behind machine_i2c.c, with the controller | `MCI2c` |
| `I2cProofs` | the theorems about `I2c` | TLAPS |
| `ClockMgr` | bcm283x_clockmgr.c, machine_clockmgr.c, the clock in `rpi_init`, with the generator | `MCBoard` |
| `Gpio` | bcm283x_gpio.c behind machine_pin.c | `MCBoard` |
| `Pwm` | pwm.c behind machine_pwm.c, with the FIFO and the clock | `MCBoard`, `MCPwmWrite` |
| `Spi` | spi.c behind machine_spi.c, with the controller and a slave | `MCBoard` |
| `Mailbox` | bcm283x_mailbox.c and all its callers, with the GPU | `MCBoard`, `MCUsb` |
| `MailboxProofs` | the lemmas about the mailboxes, in whatever they are composed with | TLAPS |
| `Board` | composes the five drivers above behind the start-up | `MCBoard`, `MCPwmWrite` |
| `BoardProofs` | the lemmas about its drivers, the theorems about `Board` | TLAPS |
| `UsbHost` | usbhost.c, machine_usb_mode.c, usbkbd.c, the loop of main.c, on top of `Mailbox` | `MCUsb`, `MCUsbKeys` |
| `UsbHostProofs` | the theorems about `UsbHost` | TLAPS |

`MC...` modules only extend a specification and name values for its constants.
Definitions called `X_Something` under the comment "Wrong on purpose" are faulty
variants of `X`. No specification uses them; putting one in the place of `X` makes
the property it was written for fail, which shows that the property can see it.

### MiniUart

State: `fifo` is the hardware FIFO, `rbuf`, `rbuf_w`, `rbuf_r` the ring, `inIsr`
and `irqOn` the processor, `armed` and `kbdPending` MicroPython's interrupt
character and pending exception. `pc`, `ldW`, `ldR`, `idx`, `c` are the main
thread's place and registers. `RX_EMPTY` is two loads in either order (C leaves it
open), `RX_READ` four accesses; the handler may run between any two of them.
One iteration of the handler's loop is one action, and while `inIsr` holds the
main thread stands still. The line is a generator of characters that are numbered,
so that a lost, doubled or reordered one shows. `overrun` is a history variable: the
handler dropped a character since `RX_READ` began; only `RxQueue`'s torn get
looks at it.

The USB keyboard, which `mp_hal_stdin_rx_chr` asks first, is taken to have no key.

### MachineTimer

State: the registers `CLO`, `CS` (a set of timers with a match), `C` and the
enables, the object table field by field, the scheduler's queue, the handler's
loop (`isr`, `timer_value`) and the method the script is in. `CS |= 1 << i` on a
register in which writing a 1 clears the bit is modelled by what it does: the
handler's clears every bit set at that moment, `timer_enable`'s, which may be
interrupted between load and store, every bit it has loaded. The GPU owns timers 0
and 2: it sets their compare registers, and the handler's loop looks at them too.
`Late` is an assumption about the hardware: an unmasked match is served before the
timer's next period is over and `timer_enable` takes less than a period. Time ends
before the 32-bit counter wraps. `TimersAssumption` keeps scripts from the GPU's
timers; that is an assumption about scripts, machine_timer.c:116 refuses numbers
above 3 only.

### SysTime

The counter moves between any two reads; `began` and `from` are history variables
for the times at which `systime` and the delay were called. `asked` is a third: the
microseconds asked for, while `amount` is the 32-bit word the code makes of them
(mphalport.c:21). A time is a pair of words. The model assumes that one call of `systime` takes less than a turn of the
low word (71 minutes); without that the code's single retry would not be enough.
`mp_hal_delay_ms` may be left by an exception, `mp_hal_delay_us` may not; the model
lets both.

### SdCard

A step is one command with its answer, one wait for data, or one set-up step, and
`pc` is the name of the command. `Refused`, `Answered` and `Unheard` are the ways
`sd_cmd` can end: stale error flag or busy controller; sent; sent and lost, or
answered by an error. The card obeys a command only in the states `Obeyed` gives
it; a command in another state gets no answer. A block that fails on the line sets
`lateErr`, which the controller turns into an error flag at some later moment: the
next wait sees it, or the next command clears it. `MaxFaults` bounds the faults.
`Interrupted` is an exception out of any wait.

Two assumptions about the hardware: words come once `INT_READ_RDY` was seen, and
the controller's reset ends a transfer on its side but not on the card's.

### SdMount

`init_sdcard_fs` drives the driver's steps of `SdCard`; `f_mount` is external: it
initialises the card, reads, and succeeds or not. Afterwards files are read and
written through the same driver without another initialisation.

### I2c

Every look of the driver at the status register is a step, and the controller
moves between them: `Answer`, `NoAnswer`, `Transmit`, `Receive` and `Finish` take
as long as a byte on the bus. `Prompt` says that no interrupt holds the driver up
for so long: they then come only while the driver polls for something that is not
there (`Polling`) or no call is served. `pc` is the driver's place; `cur` the call
it serves, one of the `todo` that a method of `machine.I2C` makes. `owed` is a
history variable: the bytes accepted from scripts that no slave has seen, each with
its slave. `Careful` restricts scripts: they write only to slaves that are there,
and do not leave a transfer open and then call a method that does not restart the
bus.

What the hardware does is taken from what the driver relies on, and the module's
head lists it. In particular the bytes of a transfer that fails stay in the FIFO,
as the `i2c_clear_fifo` after each error in machine_i2c.c supposes, and DONE does
not come with an error: i2c.c tests one after the other and would otherwise now
and then take a slave that is missing for one that answered. A DLEN of 0xffff is
taken to be never used up, and the callbacks that scan's delay may run do not use
the bus. `deinit`, the clock divider and the pins are left out.

### ClockMgr

One clock, that of the PWM; the other four have registers of their own and run the
same code. `BUSY` follows `ENAB` in a step of the generator. `calls` lists the
`clockmgr_*` calls that a method (or `rpi_init`) has still to make, and `clk` is the
place in the first of them, so that the generator moves between any two accesses.
`asked` is a history variable: the setting the last call asked for, with the fields it
did not mention as they were. `asked.except` names the fields in which the code is known
not to obey: the fraction, when `Clock.init` is given one, and ENAB after an `enable=0`
that changes nothing else. The model takes over that `Clock.init` reads the fraction from the argument `divi`
(machine_clockmgr.c:62) and that `Clock.divisor` and `Clock.init` store DIV
without stopping the clock.

### Gpio

`Pin.init` is at most three stores, value, mode and pull, in the order of
`InitOrder`; a step stores one. Levels are only driven, never read.

### Pwm

Registers are functions of the channel, wrapped at `Word`. `CTL` keeps the flags
PWEN, USEF and RPTL; the other four are set by the same code and nothing in the
code reads them. `init` and the constructor set,
clear or keep each of them (`init_helper`). `pwm_err_clear`, which polls error flags that its own stores clear, is left out.
`fifo` is the number of words in the FIFO, which `Play` takes
away while the clock runs and a channel uses it. A turn of either loop of
`fifo_write` is one step (`Turn`): the controller can only make room between the two
looks at FULL1, so that a word that is offered is taken. The n-th word of buffer b is
`<<b, n>>`, and `queued` is the history of those that went into the FIFO. The
microseconds that matter are counted: `elapsed_from` of no time at all is the largest
number, as in rpi.c:46.

### Spi

Each pass of the loop of `spi_transfer` is three steps, one per access to the
controller, which shifts a byte out and in between any two of them. The slave answers
its n-th byte with n, the buffer's n-th byte is n; when the pins are not routed both
sides get `Junk`. A script frames transfers with a pin of its own (`ChipSelect`),
since `SPI.init` and the driver leave the controller's chip selects alone.

### Mailbox

A call is under way from the request to the use of the answer; `call.reply` is empty
until the GPU has filled the message in. `GpuNoise` is a word on a channel nobody
reads. `vc_property_length`, `MessageWords` and `EndTag` compute the numbers
gpu_vc_property.c computes, over tags of every length.

### Board

What the start-up and scripts do comes one call after another; the GPU, the
generator and the controllers run beside it. A script does one `job`, which bounds the
states: jobs store to different variables. What one reads of another's is in its own
job already: the PWM may always be without a clock (`Play` need not happen), and the
pins of the SPI may be taken away (`machine_spi_deinit`).

### UsbHost

`phase` is the place in the loop of `arm_main`, `host` the place in
`rpi_usb_host_init` or `rpi_usb_host_deinit`, which the loop and `machine.usb_mode` call.
The library is modelled from its use: `UsbCheckForChange` finds a keyboard that
is plugged in and notices that one has gone; a poll stores the report of a live keyboard
and fails for any other; without power the library does not start. When it is
off, what a stale `kbd_addr` reads and polls is left open. A report lists the keys
held in the order they went down. `pressed` and `got` are the histories of keys
pressed and returned in the REPL, from `usbkbd_setup` on, until a script has turned
the USB off (`disturbed`). `fresh` is a key pressed alone.
A Ctrl-C ends `machine.usb_mode`; in the boot it may only be one that is still
pending from main.py, since the interrupt character is disarmed there.

## 3. What the runs show

| run | instance | checks |
|---|---|---|
| `MCMiniUart` | 3 slots, FIFO of 2, 5 characters, with fairness | types; `GetcNeverStarves`; `NeverInvents`; refinement of `RxQueue`; `StdinDrains`; `InterruptRaised` |
| `MCTimer` | timer 1 and GPU timer 0, all modes, periods 1 and 2 | types; `EnabledIsActive`; `OneShotOnce`; `TriggerServed` |
| `MCTimerLost` | timers 1 and 3 | `TriggerServed` fails |
| `MCSysTime` | words of 4 values, 1 ms = 3 us | `NotTorn`; `Monotonic`; `DelayNotEarly`; `DelayEnds` |
| `MCSdHigh` | three block-addressed cards of 4 blocks, 1 fault, exceptions | types; `ReadyAfterInit`; `TransferEnded`; refinement of `BlockDevice` |
| `MCSdMountLow` | a byte-addressed card, 4 partitions, 2 faults, writes of 1 and 2 blocks | `FirstIsSd`; `ReadsTheBlocks`; `ErrorsAccounted` |
| `MCSdMountReinit` | a block-addressed card, 4 partitions, 1 fault | `ReadsTheBlocks` fails |
| `MCI2c` | two slaves that answer, one that does not, FIFO of 2, buffers of up to 3 bytes, with fairness | types; `BytesInOrder`; `WriteCompletes`; `ReadWhole`; `ScanFinds`; `CallsEnd` |
| `MCBoard` | all jobs; registers of 128 with parts of 8; FIFOs of 2 and buffers of up to 3; mailboxes of 2, noise of 2; 14 tags | `InitObeyed`, `ClockPaused`; `NoGlitch`; `FreqKeepsDuty`, `InOrder`; `TransferWhole`, `FrameClean`; `OwnAnswer`, `Fits`; `CallsReturn` |
| `MCPwmWrite` | the same, only the job `fifo` | `WritesAll` fails |
| `MCUsb` | 2 keys, reports of 2, 3 presses, 2 addresses, 2 waits, 1 soft reboot | `InPressOrder`; `KeyComesOut`; `ReplReached` |
| `MCUsbKeys` | the same | `NoKeyLost` fails |

Why the bounds are enough. Three slots are the smallest ring in which full,
neither and empty differ, and five characters overrun it within one read. A one
microsecond period makes matches of two timers coincide and follow each other at
once. With words of four values a carry falls between any two of `systime`'s
reads, `MaxHi` lets it happen in several calls, and a delay of 3 ms does not fit a word. A block of two "bytes" is
enough for a block number and a byte address to name different blocks of a card of
four. Two faults are a fault and a fault in what the first one led to. A FIFO of
two and buffers of three make the driver refill the FIFO, and let it be empty, part
full and full; calls follow each other without a bound.

In `MCBoard`, `Word` = 128 and `Unit` = 8 stand for 2^32 and 2^16; the numbers scripts
give are large enough that products pass `Word`, which is what the mutant of
`Scaled` shows. A FIFO of two is full, part full and empty within a buffer of
three, in `Pwm` and in `Spi`. The tags are one of every length and every special case,
with an unknown one; the buffers and lists are empty, odd, shorter and longer. The GPU
sends other words only in the job `gpu`, at most `Noise` in a call, and refuses a frame
buffer at most `Refusals` times: gpu.c:10 asks for ever, so `CallsReturn` needs a
GPU that gives in. Only the pins and the channel named in `JobPins` and
`JobChannels` are used by the jobs; the code treats all alike.

In `MCUsb`, reports of two keys (for six), two waits (for five) and three presses let two
keys overlap, in both orders, and one of them be pressed again. There is one
keyboard, but it may get either address when it is plugged in again. The GPU's other words come
while the boot waits for the answer. `Presses` counts from `usbkbd_setup` on.

`CHECK_DEADLOCK FALSE` is set in the two mount runs: when no partition could be
mounted, or memory ran out, start-up ends and no further step exists.

### Fairness

`MiniUart`: the handler runs once its interrupt is pending and enabled, and the
main thread runs otherwise (weak fairness of `Isr` and `Stdin`: one core that
executes instructions); the REPL loop in `arm_main` (main.c:218-228) asks for
input again and again (`StdinCall`), and the interpreter polls for a pending
exception (`VmRaises`). The line, the script's `disable_irq` and the arming of
Ctrl-C are not fair; `StdinDrains` assumes that interrupts stay enabled from some
moment on. `SysTime`: the counter runs and the core executes. `I2c`: the core
executes and the bus is clocked; scripts need not call anything. `Board`: the drivers'
loops run on (`SpiDriverStep`, `MailDriver`), the SPI controller shifts what it can, and
the GPU answers. No clock is fair, and no script. `UsbHost`: the same for the host's code
and the boot's (`HostSteps`, `MainSteps`, the mailbox, the GPU); and the REPL, which
reads its input in a loop (mphalport.c:102-115), calls `usbkbd_getc` again and again.
Scripts need not end, nobody need press or release a key, and the REPL need not
reboot.

### Disagreements between the code and its comments

`MCTimerLost`, `MCSdMountReinit`, `MCPwmWrite` and `MCUsbKeys` each end in a
counterexample that the code can follow; the entries under "findings" in
PROJECT.json quote the comment and tell the story. More were seen while
modelling and have no run of their own:

- machine_timer.c:75: the objects of the GPU's timers are active from the start with
  callback NULL (lines 33, 35) and pass the test against `mp_const_none`. When a match of
  one of them coincides with a match of the script's timer, NULL is queued as a
  callback. In `MCTimer` states are reached with NULL in `sched`.
- mphalport.c:21: `ms * 1000` is a product of 32 bits. A delay of 2^32 microseconds (71.6
  minutes) or more returns early. TLC finds `DelayNotEarly` violated when its condition
  `asked < Wrap` is dropped.
- sd.c:284: when the second or a later WRITE_SINGLE is refused for the error of the block
  before it, the error flag stays, and `sd_status` (line 172) refuses every command until the
  next `sd_init`. `ErrorsAccounted` says that this is the only such way without
  exceptions; in `MCSdMountLow` it happens.
- sd.c:291: to a byte-addressed card `sd_writeblock` sends one command per block but
  waits for the end of the last one only; a block before it that failed on the line
  is reported as written (seen in `SdCard` with a byte-addressed card and WriteNums = {2}).
- i2c.c:143: `i2c_read` looks at DONE before the FIFO. With an interrupt as long as the
  last byte (`Prompt = FALSE`) it returns fewer bytes than asked for, and `ReadWhole` fails.
- i2c.c:35: `i2c_abort_write` waits for an empty FIFO, which a slave that does not
  answer leaves full. With `Careful = FALSE`, `CallsEnd` fails.
- machine_pwm.c:429: when two-buffer `fifo_write` raises EBUSY, or the longer buffer is
  odd, the words in the FIFO end with a word for channel 0, and what is written next
  goes to the other channel than it is meant for. rpi.c:46: a loop that looks at the
  time within the microsecond of its start raises EBUSY at once.
- machine_pwm.c:171: `duty_u16` of `init` is a part of `tick_hz`, in 32 bits, and not of
  the period. machine_pwm.c:350 divides by a period that is 0 before the first
  `init`.
- machine_clockmgr.c:62: `divf` is read from the argument `divi`: `init(divi=3, divf=0)`
  stores the fraction 3. Without `divi` it raises after CTL has been set. Line 51:
  `enable=0` alone is ignored on a clock that runs. `InitObeyed` excepts both; TLC finds it
  violated when either exception is dropped.
- gpu_vc_property.c:106: the end tag stands inside the message, but not always behind the
  value buffer: for the MAC address (6 bytes) and for lists shorter than the
  buffer it overwrites part of it, and behind the buffer the GPU reads what `m_new` left.
- usbkbd.c:126: when a report lists its keys in another order than the one before, keys
  that the loop has already replaced count as new, and others as seen. In
  `MCUsb` reports keep the order of the presses. A key without a character gives
  character 0 (usbkbd.c:81). A Ctrl-C typed on a USB keyboard is a character and no
  interrupt.
- machine_usb_mode.c:32: `usb_mode(None)` leaves `kbd_addr` as it was, and the REPL goes
  on polling it in a library that is shut down; so does `input()` in main.py after a soft
  reboot, before `usbkbd_setup`. usbhost.c:35 does not look at the result of `UsbInitialise`.
- main.c:213: a Ctrl-C that is still pending when main.py has ended is raised in the
  first delay of `rpi_usb_host_init`, outside any handler, and the machine stops.
- main.c:92 tests `part_num == 2` twice, so that partition 3 is mounted as "/sd4",
  while line 89 says the partitions are numbered by their index. `NameOf` has it.
- machine_timer.c:41-43: when another timer's handler runs between the two lines
  and its compare value equals the old one of the timer being enabled, a one-shot
  is set inactive and then enabled. It is never counted, and a later `init()`
  returns early at line 40. `EnabledIsActive` therefore holds with one timer only.
- sd.c:394 takes a card that is ready at the sixth try for a timeout, and the loop
  at line 418 never counts `cnt` down.
- machine_i2c.c:219 and 310 call `i2c_write` without `i2c_write_start`. After
  `writeto(x, buf, False)` a `readfrom_mem` or `writeto_mem` for another slave y
  continues the open transfer, and the memory address goes to x. TLC finds
  `BytesInOrder` violated when `Careful` is FALSE. A `scan()` then waits at line 189
  for a transfer that nobody ends.
- i2c.c:99 waits for TA without a way out: a transfer that an interrupt let go by
  unseen leaves the driver there.

## 4. What is proved

Eight modules hold the theorems. Each is for every value of the constants that the
assumptions allow, bounds such as `MaxChars`, `MaxTime` or `MaxFaults` included. TLC has checked
the properties they state on the instances of section 3. Every property of the passing
runs that is not a liveness property is the statement of a theorem.

| module | theorems, with the property of the runs they state |
|---|---|
| `MiniUartProofs` | `TypeCorrect` (`TypeOK`), `GetcNeverWaits` (`GetcNeverStarves`), `NothingInvented` (`NeverInvents`), `DriverImplementsQueue` (`ImplementsQueue`) |
| `SysTimeProofs` | `NeverTorn` (`NotTorn`), `NeverBackwards` (`Monotonic`), `DelaysLongEnough` (`DelayNotEarly`) |
| `MachineTimerProofs` | `TimerTypes` (`TypeOK`), `OnceOnly` (`OneShotOnce`), `EnabledTimersCount` (`EnabledIsActive`), `TriggersServed` (`TriggerServed`) |
| `SdProofs`, the driver | `SdInvariant`, `SdTypeOK` (`TypeOK`), `InitAgrees` (`ReadyAfterInit`), `TransfersEnd` (`TransferEnded`), `ReadsDeliver` (`ReadsTheBlocks`), `WritesStore`, `OnlyRequestedBlocks`, `DeviceImplemented` (`ImplementsDevice`), `ErrorsTold` (`ErrorsAccounted`), `ErrorsEnd` |
| `SdProofs`, the mounts | `FirstMountIsSd` (`FirstIsSd`), `MountedReads` (`ReadsTheBlocks`), `MountedWrites`, `MountedStores`, `MountErrorsTold` (`ErrorsAccounted`), `MountedErrors` |
| `I2cProofs` | `I2cTypeOK` (`TypeOK`), `I2cInvariant`, `WritesComplete` (`WriteCompletes`), `ReadsWhole` (`ReadWhole`), `ScansFind` (`ScanFinds`), `BytesSent` (`BytesInOrder`) |
| `MailboxProofs` | the invariant of the mailboxes, as lemmas |
| `BoardProofs` | `BoardInvariant`, `ClocksObeyed` (`InitObeyed`), `ClocksPaused` (`ClockPaused`), `OwnAnswers` (`OwnAnswer`), `MessagesFit` (`Fits`), `NoGlitches` (`NoGlitch`), `DutyKept` (`FreqKeepsDuty`), `WordsInOrder` (`InOrder`), `TransfersWhole` (`TransferWhole`), `FramesClean` (`FrameClean`) |
| `UsbHostProofs` | `UsbInvariant`, `PressesInOrder` (`InPressOrder`), `PowerCallsOwnAnswer` (`OwnAnswer`), `LibraryHasPower` |

### The console input

For every ring size `RX_BUF_SIZE >= 1`, every FIFO depth
and every number of characters (the assumptions `RingAssumption` and
`LineAssumption`). `TypeOK` is not inductive: it does not say that `RX_READ` has loaded
its index before it uses it. `TypeInv` adds that. The two safety properties need
`RingInv`, which adds to them: the indexes loaded for `RX_EMPTY` are those the ring
had, or the ring has characters now (`LoadsFresh`); what `RX_READ` has loaded is the
oldest character unless the handler dropped since (`ReadsOldest`); all slots between
the indexes are written (`SlotsWritten`); and, the heart of it, once the handler has
dropped a character during a read the ring is full and all of its slots are written
(`OverrunIsFull`). That is why the stale index that `RX_READ` stores in the end
leaves a suffix of the queue behind and can neither empty the ring nor reach an
unwritten slot. The arithmetic of the ring (distances and offsets modulo its size)
is in the lemmas at the head of the module. The refinement adds `ContentsInv`: the
mapped queue is a sequence of characters; then each action of the driver is matched
with one of `RxQueue` or a stutter.

### The clock

For every word size, ratio and set of delays. `ClockInv` bounds how long a
call of `systime` has lasted, in carries: the high word is at most one above the one
it began with (the assumption of section 2, in `Tick`). `ReadsInv` says what the reads
have seen so far; the case that matters is the second pair of reads: once the high
word was seen to change it does not change again before `systime` returns, so a
single retry is enough. `DelayInv` relates the end a delay computed to its start,
and the word it waits for to what was asked: they are the same when that fits a word, which
`DelayNotEarly` therefore supposes.

### The timers

`OnceOnly` holds for any timers of the script's, together with the GPU's. The counter
alone is not inductive: what is bounded is the counter plus the matches that may still
be counted (`ToCome`: the timer is active, or `init` is about to enable it).
`StoresInv` says what `init` has stored when it is interrupted, and `ActiveInv` that an
active timer has its interrupt enabled but for the time its methods take.

The other two have hypotheses, and they are needed. `EnabledTimersCount` is for one
timer of the script's: with two, the handler of one may come between two lines of
the other's `timer_enable` (section 3). `TriggersServed` is, too, and
`MCTimerLost` shows it false for two; moreover no timer may come after the
script's in the handler's loop. If one of the GPU's does and has the same compare
value, a match of the script's that comes while the loop is past its timer is
cleared with the other's. The code gives scripts the timers 1 and 3 and the GPU has 0
and 2: the theorem covers timer 3 beside all of the others, and timer 1 beside timer
0, as in `MCTimer`.

### The SD card

The theorems about `Spec` are for callers that read and write only while the last `sd_init`
has succeeded (`MayCall`). machine_sdcard.c does not check that, and main.c does otherwise
once a later mount has failed: those callers are `SdMount`'s, and what is true of them is in
the theorems about `MSpec` below.

`SdInv` is the invariant of sd.c with the controller and the card, for any cards,
numbers of blocks, failures, and exceptions out of any wait. Its parts follow the
driver: while `sd_init` runs the card is in the state its commands have brought it to,
with the exception of a missed GO_IDLE, which the next command shows (`IdentInv`);
what the driver has learnt is what the card has (`LearntInv`); `c` blocks of a
request are done and the card is at the next one (`CountInv`, `PlaceInv`), the
buffer holds the first `c` (`GotInv`); and the card ends its transfer with the
request (`EndInv`). That every step keeps `ReadInv` and `WroteInv` needs only that
driver and card count alike (`Agreed`), which is what lets the theorems about the
mounts use the same lemmas where `SdInv` does not hold.

What a write stores depends on the card. Where one command is enough for it
(`OneCommand`: one block, or a block-addressed card) the first `c` blocks have been stored
or an error is about to be flagged (`StoredInv`). To a byte-addressed card
`sd_writeblock` sends one command per block, and a later command may clear the error
flag of a block before it (sd.c:291, section 3): then a write succeeds that did not
store all of its blocks. But it has stored the last one, whose end it waits for
(`LastInv`). `WritesStore` says both, for every card, and
`OnlyRequestedBlocks` that nothing else is ever stored, whatever fails or is
interrupted. `DeviceImplemented` and `ErrorsEnd` are for the first case: block-addressed
cards, or writes of at most one block (`WholeWrites`). `ErrorsEnd`, that no request leaves
an error flag behind at all, excludes exceptions too, which may leave a wait before the
late error of the transfer is flagged.

`ErrorsTold` has no such condition: `ErrorsAccounted` names the ways in which a flag may come
to stay. Its invariant, `LateInv`, says where an error can be waiting to be flagged: in a write,
from its first block on. From there the driver returns by way of a wait that sees it,
or of a command that clears it or is refused. `MountErrorsTold` says the same of `MSpec`.

`MountedReads`, `MountedWrites` and `MountedStores` are for byte-addressed cards that do not
set the bit which is taken for CCS. For block-addressed ones they are false: `MCSdMountReinit`
reads other blocks than were asked for, and in the same way a write stores to another
block. What makes them true is that such a card is never taken for the other kind,
not even when an initialisation stopped half-way (`LowInv`). `MountedErrors` is for
writes of at most one block, and no run checks it: a second WRITE_SINGLE may be refused by
`sd_cmd`'s status test with the error of the first, and nobody clears it (`ErrorsAccounted`).

### I2C

`I2cTypeOK` holds for any script and however late the driver comes: neither the
FIFO nor a buffer is overrun. The other theorems assume `Prompt` and `Careful`, as the
run does and for the reasons section 3 gives: without the first `ReadWhole` is false,
without the second `BytesInOrder`. The invariant `BusInv` goes through the
places of the driver and says at each what the transfer on the bus, the status, the FIFO
and the bytes owed are like (`Writing`, `Begun`, `Stopped`, `Missed`, ...). Its heart
is `Accepted`: the bytes owed are those of the FIFO, in order, and the ones the
call has still to put in, all for one slave, through pseudo stops and restarts.

### The drivers on the board

Each driver's invariant is kept by its own steps (for the mailboxes in `MailboxProofs`,
for the others at the head of `BoardProofs`), and nothing else on the board touches its
variables except through the job; the conjunction is `BoardInv`.

- Clock manager: the calls still to make are the rest of some method's, the
  generator is still while a call writes, and what is no longer due has been done; a method
  that makes no call was asked for what is there, but for `asked.except`.
- Mailbox: a call leaves nothing behind in the mailboxes, so the next word on its
  channel is the answer to it; the end tag is a matter of the sizes of the message.
- GPIO: an `init` that is about to store its mode has stored the value.
- PWM registers: `FreqKeepsDuty` is arithmetic, of quotients of products that wrap at
  `Word`; it uses that a register is smaller than `Word`, nothing of its size.
- PWM FIFO: how many words of each buffer have been taken is a function of the number
  queued, until one buffer is used up.
- SPI: what has been counted as sent has been heard, is on the wire or in the FIFO,
  in this order; each byte heard has an answer, taken out or still in the FIFO.

### The USB keyboard and its host

For every number of keys, report slots, addresses, waits, presses and soft
reboots. `InPressOrder` says that the keys the REPL was given are, in order, keys
that were pressed. Its invariant, `Order`, names witnesses: the first n presses are
those a report may hold, the first m those `usbkbd_getc` has gone past, and
strictly increasing functions say which press each key that was returned, that is
held, and that stands in the last report was (`GotFrom`, `HeldFrom`,
`ReportFrom`). The heart is the loop of `usbkbd_getc` over a new report: it
compares with `keys`, which it overwrites on its way (usbkbd.c:126-157). Keys only move to
the front of a report when others are released, so that a key that was seen before
stands at its place or later, where the loop has not yet overwritten it; what the loop
returns is therefore later than all that was read before. `ScanLoop` and
`ScanResult` say so of the recursive function `Scan`, by induction over its places: the
library's induction theorems take an operator as a parameter, so the induction is
stated for a set of numbers (`NatSetInduction`, from the well-foundedness of < on them).

`OwnAnswer` is the invariant of the mailboxes once more, by the lemmas the board uses
as well. `LibraryHasPower`, which no run checks, says that the library runs only while
the controller has power and the USB counts as initialised (`PoweredLibrary`): its
invariant follows `rpi_usb_host_init`, `rpi_usb_host_deinit` and the power call through
Ctrl-C and soft reboots.

### What the assumptions on the constants say

They are ASSUMEs of the modules that declare the constants, and TLC evaluates them in
every run. Ring, FIFOs, mailboxes and buffers have room for one element at least;
times, delays, lengths and bounds are natural numbers; the values a script gives to the
PWM fit into its registers and `Word` is a multiple of `Unit`, as 2^32 is of 2^16;
the names of cards, tags, pins and jobs are of the kinds the code has. In `I2c`,
`MaxLen` is positive since `scan` reads a byte and the memory methods write one.

### Only model-checked

Liveness (`StdinDrains`, `InterruptRaised`, `DelayEnds`, `CallsEnd`, `CallsReturn`,
`KeyComesOut`, `ReplReached`) is outside what TLAPS proves. The counterexamples of the four
runs that end in one are TLC's. Nothing else the passing runs check is without a theorem; where
one has a hypothesis, its paragraph above says which and why it is needed.

## 5. Plan

All modules planned so far are there: `RxQueue`, `MiniUart`, `MachineTimer`, `SysTime`,
`BlockDevice`, `SdCard`, `SdMount`, `I2c`, `Mailbox`, `ClockMgr`, `Gpio`, `Pwm`, `Spi`, `Board`
and `UsbHost`, and the theorems of section 4. Open:

1. `SdCard` for byte-addressed cards: an abstract specification weaker than `BlockDevice`,
   of which `WritesStore` and `OnlyRequestedBlocks` are two consequences.
2. `MachineTimer` with two timers of the script's: what remains true of a lost match
   (the compare value is behind the clock, the interrupt enabled).
3. `Console`: `MiniUart` with the keyboard, the scheduler and delays in one loop; timers
   and the collector's roots across a soft reboot; nested calls of the SD driver.

None of the modules uses a RECURSIVE operator; `Scan` in `UsbHost` is a recursive
function, about which there are proofs.

## 6. Not modelled

The polled UART of QEMU (a busy wait in either direction), the tables of functions
(moduos.c, modmcu.c, fatfs_port.c), the utime functions and the Python scripts under
fs/, which keep no state of their own. The heap and the collector's roots
(gccollect.c), start.s and the exception vectors: what they do shows only in memory
that the models abstract. Clock speeds and dividers of SPI and I2C, the key maps,
and the values that go through the mailbox: data that no property here tells apart.
The USB host stack, the interpreter and FatFs, whose sources are not here.
