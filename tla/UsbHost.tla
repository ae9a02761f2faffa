------------------------------ MODULE UsbHost ------------------------------
(***************************************************************************)
(* The USB host and its keyboard through boot and soft reboot: the loop of *)
(* main.c, usbhost.c, machine.usb_mode, usbkbd.c and the keyboard's part   *)
(* of mp_hal_stdin_rx_chr.                                                 *)
(*                                                                         *)
(* The USB library (csud) is modelled from how it is used: it finds the    *)
(* keyboard when it is told to look for a change, keeps the last report it *)
(* polled, and fails a poll when the keyboard is gone.  A report lists the *)
(* keys held, in the order in which they went down.                        *)
(***************************************************************************)
EXTENDS Mailbox, SequencesExt

CONSTANTS
  Keys,        \* the keys, numbers above 0; a key and its character are one here
  Slots,       \* keys in a report: 6
  Addresses,   \* addresses the library gives to a keyboard, above 0
  Delays,      \* times rpi_usb_host_init waits and looks: 5
  Presses,     \* bound: keys pressed since the keyboard was set up
  Boots        \* bound: soft reboots

ASSUME UsbAssumption ==
  /\ Keys \subseteq Nat \ {0} /\ Slots \in Nat \ {0} /\ Addresses \subseteq Nat \ {0}
  /\ Delays \in Nat /\ Presses \in Nat /\ Boots \in Nat

VARIABLES
  phase,            \* of main.c's loop: "script", "init", "repl" or "hang"
  host,             \* where rpi_usb_host_init or deinit is: "idle", "power_on", "delay", "power_off"
  delays,           \* the waits it has left
  usb_initialised,
  boots,            \* the soft reboots so far
  kbd_addr, keys,   \* the fields of usbkbd
  library,          \* the USB library runs
  addr, report,     \* the keyboard it knows, 0 for none, and the report it polled last
  live,             \* whether that keyboard is the one that is plugged in
  plugged, held,    \* the keyboard, and the keys held down on it
  pressed, got,     \* history: the keys pressed and the characters returned in the REPL
  fresh,            \* history: the key that was pressed when no other was down or reported and
                    \* the keyboard code had seen it up, and that has not come out yet, or 0
  disturbed         \* history: the USB has been off while the keyboard was read

hostVars == <<phase, host, delays, usb_initialised, boots>>
kbdVars  == <<kbd_addr, keys>>
libVars  == <<library, addr, report, live>>
deskVars == <<plugged, held>>
history  == <<pressed, got, fresh, disturbed>>
usbVars  == <<hostVars, kbdVars, libVars, deskVars, history, mailVars>>

NoKeys == [i \in 1 .. Slots |-> 0]

Report(ks) == [i \in 1 .. Slots |-> IF i <= Len(ks) THEN ks[i] ELSE 0]

Init ==
  /\ phase = "script" /\ host = "idle" /\ delays = 0 /\ usb_initialised = FALSE /\ boots = 0
  /\ kbd_addr = 0 /\ keys = NoKeys
  /\ library = FALSE /\ addr = 0 /\ report = NoKeys /\ live = FALSE
  /\ plugged \in BOOLEAN /\ held = << >>
  /\ pressed = << >> /\ got = << >> /\ fresh = 0 /\ disturbed = FALSE
  /\ MailInit(NoCall)

HostIdle == host = "idle" /\ MailIdle

-----------------------------------------------------------------------------
(* The keyboard on the desk. *)

Plug ==
  /\ ~plugged
  /\ plugged' = TRUE
  /\ UNCHANGED <<hostVars, kbdVars, libVars, held, history, mailVars>>

Unplug ==
  /\ plugged
  /\ plugged' = FALSE /\ held' = << >> /\ live' = FALSE /\ fresh' = 0
  /\ UNCHANGED <<hostVars, kbdVars, library, addr, report, pressed, got, disturbed, mailVars>>

Press(k) ==
  /\ plugged /\ Len(held) < Slots /\ Len(pressed) < Presses
  /\ \A i \in DOMAIN held : held[i] # k
  /\ held' = Append(held, k)
  /\ pressed' = IF phase = "repl" /\ ~disturbed THEN Append(pressed, k) ELSE pressed
  /\ fresh' = IF held = << >> /\ report = NoKeys /\ (\A i \in 1 .. Slots : keys[i] # k)
              THEN k ELSE 0
  /\ UNCHANGED <<hostVars, kbdVars, libVars, plugged, got, disturbed, mailVars>>

Release(k) ==
  /\ \E i \in DOMAIN held : held[i] = k /\ held' = RemoveAt(held, i)
  /\ fresh' = IF fresh = k THEN 0 ELSE fresh
  /\ UNCHANGED <<hostVars, kbdVars, libVars, plugged, pressed, got, disturbed, mailVars>>

-----------------------------------------------------------------------------
(* The USB library. *)

\* The keyboard it knows after UsbCheckForChange, and that keyboard's report.
UsbCheckForChange(a, r) ==
  IF ~library \/ live THEN a = addr /\ r = report
  ELSE r = NoKeys /\ IF plugged THEN a \in Addresses ELSE a = 0

Check ==
  /\ UsbCheckForChange(addr', report')
  /\ live' = (library /\ plugged)

-----------------------------------------------------------------------------
(* rpi_usb_host_init and rpi_usb_host_deinit, called by the loop of main.c *)
(* and by machine.usb_mode.                                                *)

rpi_usb_host_init ==
  /\ HostIdle /\ phase # "hang" /\ ~usb_initialised
  /\ power_usb(TRUE)
  /\ host' = "power_on"
  /\ UNCHANGED <<phase, delays, usb_initialised, boots, kbdVars, libVars, deskVars, history>>

\* UsbInitialise, whose result nobody looks at: without power there is no library.
UsbInitialise ==
  /\ host = "power_on" /\ MailIdle
  /\ library' = power /\ addr' = 0 /\ report' = NoKeys /\ live' = FALSE
  /\ usb_initialised' = TRUE
  /\ host' = "delay" /\ delays' = Delays
  /\ UNCHANGED <<phase, boots, kbdVars, deskVars, history, mailVars>>

HostDelay ==
  /\ host = "delay" /\ delays > 0
  /\ delays' = delays - 1
  /\ Check
  /\ UNCHANGED <<phase, host, usb_initialised, boots, kbdVars, library, deskVars, history, mailVars>>

HostReady ==
  /\ host = "delay" /\ delays = 0
  /\ host' = "idle"
  /\ UNCHANGED <<phase, delays, usb_initialised, boots, kbdVars, libVars, deskVars, history, mailVars>>

\* A Ctrl-C in a delay raises, and in a script the call ends.  In the boot one may
\* still be pending that came as main.py ended; no handler is set, and
\* nlr_jump_fail stops the machine.
KeyboardInterrupt ==
  /\ host = "delay" /\ delays > 0 /\ (phase = "init" => delays = Delays)
  /\ host' = "idle" /\ delays' = 0
  /\ phase' = IF phase = "init" THEN "hang" ELSE phase
  /\ UNCHANGED <<usb_initialised, boots, kbdVars, libVars, deskVars, history, mailVars>>

\* HcdStop and HcdDeinitialise
Deinitialise == library' = FALSE /\ addr' = 0 /\ report' = NoKeys /\ live' = FALSE

rpi_usb_host_deinit ==
  /\ HostIdle /\ usb_initialised
  /\ Deinitialise
  /\ power_usb(FALSE)
  /\ host' = "power_off"

PoweredOff ==
  /\ host = "power_off" /\ MailIdle
  /\ usb_initialised' = FALSE
  /\ host' = "idle"
  /\ UNCHANGED <<phase, delays, boots, kbdVars, libVars, deskVars, history, mailVars>>

\* machine.usb_mode(None)
UsbModeNone ==
  /\ phase \in {"script", "repl"}
  /\ rpi_usb_host_deinit
  /\ disturbed' = TRUE
  /\ UNCHANGED <<phase, delays, usb_initialised, boots, kbdVars, deskVars, pressed, got, fresh>>

-----------------------------------------------------------------------------
(* The loop of main.c. *)

\* boot.py and main.py are over.
ScriptEnds ==
  /\ phase = "script" /\ HostIdle
  /\ phase' = "init"
  /\ UNCHANGED <<host, delays, usb_initialised, boots, kbdVars, libVars, deskVars, history, mailVars>>

\* usbkbd_setup, once the USB is initialised.  The histories begin here, with the
\* keys of the last report and those that are held.
usbkbd_init ==
  /\ phase = "init" /\ HostIdle /\ usb_initialised
  /\ kbd_addr' = 0 /\ keys' = NoKeys
  /\ phase' = "repl"
  /\ \E n \in 0 .. Slots :
       /\ \A i \in 1 .. Slots : report[i] # 0 <=> i <= n
       /\ pressed' = IF report = Report(held) THEN held ELSE SubSeq(report, 1, n) \o held
  /\ got' = << >> /\ fresh' = 0 /\ disturbed' = FALSE
  /\ UNCHANGED <<host, delays, usb_initialised, boots, libVars, deskVars, mailVars>>

\* The REPL ends: the USB is shut down, if it is on, and everything begins anew.
SoftReboot ==
  /\ phase = "repl" /\ HostIdle /\ boots < Boots
  /\ phase' = "script" /\ boots' = boots + 1
  /\ pressed' = << >> /\ got' = << >> /\ fresh' = 0 /\ disturbed' = FALSE
  /\ \/ rpi_usb_host_deinit
     \/ ~usb_initialised /\ UNCHANGED <<host, libVars, mailVars>>
  /\ UNCHANGED <<delays, usb_initialised, kbdVars, deskVars>>

-----------------------------------------------------------------------------
(* Reading the keyboard. *)

\* Wrong on purpose: the keys that are down are not kept.
Scan_Forget(r) ==
  LET scan[i \in 0 .. Slots] ==
        IF i = 0 THEN [keys |-> keys, result |-> 0]
        ELSE LET s == scan[i - 1]
             IN IF r[i] = 0 THEN s ELSE [s EXCEPT !.result = r[i]]
  IN scan[Slots]

\* The loop over the report, which replaces keys as it goes; the last new key is
\* the one that is returned, 0 for none.
Scan(r) ==
  LET scan[i \in 0 .. Slots] ==
        IF i = 0 THEN [keys |-> keys, result |-> 0]
        ELSE LET s   == scan[i - 1]
                 new == r[i] # 0 /\ \A j \in 1 .. Slots : s.keys[j] # r[i]
             IN [keys |-> [s.keys EXCEPT ![i] = r[i]], result |-> IF new THEN r[i] ELSE s.result]
  IN scan[Slots]

\* Wrong on purpose: a keyboard that fails its poll is kept.
AfterPoll_Keep(a, polled) == a

AfterPoll(a, polled) == IF polled THEN a ELSE 0

\* usbkbd_getc, in every turn of mp_hal_stdin_rx_chr.  A library that is off may
\* still give its last report, and any poll may fail or not.
usbkbd_getc ==
  /\ phase \in {"script", "repl"} /\ HostIdle
  /\ \E known \in {0} \cup Addresses, listed, read \in {report, NoKeys}, polled \in BOOLEAN :
       LET a == IF kbd_addr = 0 THEN known ELSE kbd_addr
           s == Scan(read)
       IN /\ IF kbd_addr = 0
             THEN UsbCheckForChange(known, listed) /\ live' = (library /\ plugged)
             ELSE known = addr /\ listed = report /\ UNCHANGED live
          /\ library => /\ read = IF a = known THEN listed ELSE NoKeys
                        /\ polled = (a = known /\ live')
          /\ addr' = known
          /\ report' = IF polled /\ library THEN Report(held) ELSE listed
          /\ kbd_addr' = AfterPoll(a, polled)
          /\ disturbed' = (disturbed \/ (a # 0 /\ ~library))
          /\ IF a = 0 THEN UNCHANGED <<keys, got, fresh>>
             ELSE /\ keys' = s.keys
                  /\ got' = IF s.result = 0 \/ phase = "script" \/ disturbed' THEN got
                            ELSE Append(got, s.result)
                  /\ fresh' = IF s.result = fresh THEN 0 ELSE fresh
  /\ UNCHANGED <<hostVars, library, deskVars, pressed, mailVars>>

-----------------------------------------------------------------------------
Mail == MailSteps \/ PowerDone

MailDriver == Mail /\ UNCHANGED <<hostVars, kbdVars, libVars, deskVars, history>>
Gpu        == GpuAnswer /\ UNCHANGED <<hostVars, kbdVars, libVars, deskVars, history>>
GpuTalks   == phase = "init" /\ GpuNoise /\ UNCHANGED <<hostVars, kbdVars, libVars, deskVars, history>>

Desk == Plug \/ Unplug \/ \E k \in Keys : Press(k) \/ Release(k)
HostSteps == UsbInitialise \/ HostDelay \/ HostReady \/ PoweredOff
MainSteps == (phase = "init" /\ rpi_usb_host_init) \/ usbkbd_init
ScriptSteps == (phase # "init" /\ rpi_usb_host_init) \/ UsbModeNone \/ ScriptEnds \/ SoftReboot

Next == Desk \/ HostSteps \/ MainSteps \/ ScriptSteps \/ KeyboardInterrupt \/ usbkbd_getc
          \/ MailDriver \/ Gpu \/ GpuTalks

\* The boot's code and the drivers' loops run on, the GPU answers, and the REPL
\* goes on reading while it waits for input.
Spec ==
  /\ Init /\ [][Next]_usbVars
  /\ WF_usbVars(HostSteps) /\ WF_usbVars(MainSteps)
  /\ WF_usbVars(MailDriver) /\ WF_usbVars(Gpu)
  /\ WF_usbVars(phase = "repl" /\ usbkbd_getc)

-----------------------------------------------------------------------------
(* Properties. *)

\* What the keyboard gives to the REPL are keys that were pressed, in that order
\* and none twice, through every overlap of presses and releases, and through
\* unplugging (usbkbd.c:123-158).
InPressOrder ==
  ~disturbed =>
    \E f \in [DOMAIN got -> DOMAIN pressed] :
      \A i \in DOMAIN got : got[i] = pressed[f[i]] /\ \A j \in 1 .. i - 1 : f[j] < f[i]

\* A key that is pressed alone and held comes out, after any unplugging and any
\* soft reboot (usbkbd.c:112-163, main.c:212-214).
KeyComesOut ==
  \A k \in Keys :
    fresh = k /\ phase = "repl" /\ library ~> fresh # k \/ phase # "repl" \/ ~library

\* The start of the USB ends in the REPL, unless a Ctrl-C stops it (main.c:212-228).
ReplReached == phase = "init" ~> phase \in {"repl", "hang"}

\* "Read and print each keycode of pressed keys" (usbkbd.c:124): a key that the
\* keyboard code has seen down has come out.
NoKeyLost ==
  phase = "repl" /\ ~disturbed =>
    \A i \in 1 .. Slots : keys[i] # 0 => \E j \in DOMAIN got : got[j] = keys[i]
=============================================================================
