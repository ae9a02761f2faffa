------------------------------ MODULE ClockMgr ------------------------------
(***************************************************************************)
(* The clock manager: bcm283x_clockmgr.c, machine.Clock (machine_clockmgr  *)
(* .c) and the set-up of the PWM's clock at start-up (rpi_init).  There is *)
(* one clock here, that of the PWM; the others have registers of their own *)
(* and the same code.                                                      *)
(*                                                                         *)
(* The generator follows ENAB with a delay, which BUSY shows.  It must not *)
(* be given another source while it runs, nor, as clockmgr_config_div has  *)
(* it, another divisor.                                                    *)
(***************************************************************************)
EXTENDS Integers, Sequences

CONSTANTS
  Sources, OSC,   \* values of CM_CTL_SRC, and the oscillator's
  Mashes,         \* values of CM_CTL_MASH; 1 is CM_CTL_MASH_1STG
  Parts,          \* numbers a script gives for either part of a divisor
  None,           \* an argument that is not given
  BootDiv         \* the divisor set at start-up: 20

ASSUME ClockAssumption ==
  /\ OSC \in Sources /\ 1 \in Mashes /\ Parts \subseteq Nat /\ BootDiv \in Nat \ {0}
  /\ None \notin BOOLEAN

VARIABLES
  ENAB, SRC, MASH, BUSY,   \* fields of the clock's CTL
  DIV,                     \* its divisor, <<divi, divf>>
  calls,                   \* the clockmgr calls still to make, in order
  clk,                     \* where the first of them is
  save,                    \* config_div's copy of ENAB
  asked                    \* history: the setting the last call asked for

ctlVars   == <<ENAB, SRC, MASH>>
clockVars == <<ctlVars, BUSY, DIV, calls, clk, save, asked>>

Ctl(e, s, m)  == [f |-> "ctl", enab |-> e, src |-> s, mash |-> m]
Div(divi, divf) == [f |-> "div", div |-> <<divi, divf>>]
SetDiv(divi, divf) == [f |-> "set_div", div |-> <<divi, divf>>]

\* What a call asks for, fields it does not mention as they were, and the fields
\* in which the code is known not to obey it
Setting(e, s, m, d, but) == [enab |-> e, src |-> s, mash |-> m, div |-> d, except |-> but]

\* rpi_init: the calls that start the PWM's clock.
rpi_init == <<Ctl(TRUE, OSC, 1), Div(BootDiv, 0)>>

ClockInit ==
  /\ ENAB \in BOOLEAN /\ SRC \in Sources /\ MASH \in Mashes /\ BUSY = ENAB
  /\ DIV = <<1, 0>>
  /\ calls = rpi_init /\ clk = "begin" /\ save = FALSE
  /\ asked = Setting(TRUE, OSC, 1, <<BootDiv, 0>>, {})

Call == Head(calls)
ClockIdle == calls = << >>

-----------------------------------------------------------------------------
\* The generator starts and stops behind ENAB.
Generator ==
  /\ BUSY # ENAB
  /\ BUSY' = ENAB
  /\ UNCHANGED <<ctlVars, DIV, calls, clk, save, asked>>

\* clockmgr_config_div keeps CTL; a plain clockmgr_set_div just stores.
BeginCall ==
  /\ ~ClockIdle /\ clk = "begin"
  /\ save' = IF Call.f = "div" THEN ENAB ELSE save
  /\ IF Call.f = "set_div"
     THEN DIV' = Call.div /\ calls' = Tail(calls) /\ UNCHANGED clk
     ELSE clk' = "pause" /\ UNCHANGED <<DIV, calls>>
  /\ UNCHANGED <<ctlVars, BUSY, asked>>

\* Wrong on purpose: ENAB is cleared and nobody waits for BUSY.
clockmgr_pause_NoWait ==
  /\ ~ClockIdle /\ clk = "pause"
  /\ ENAB' = FALSE
  /\ clk' = "store"
  /\ UNCHANGED <<SRC, MASH, BUSY, DIV, calls, save, asked>>

clockmgr_pause ==
  /\ ~ClockIdle /\ clk = "pause"
  /\ ENAB' = FALSE
  /\ clk' = IF ENAB THEN "busy" ELSE "store"
  /\ UNCHANGED <<SRC, MASH, BUSY, DIV, calls, save, asked>>

\* while (clk->CTL & CM_CTL_BUSY)
Paused ==
  /\ clk = "busy" /\ ~BUSY
  /\ clk' = "store"
  /\ UNCHANGED <<ctlVars, BUSY, DIV, calls, save, asked>>

clockmgr_config_ctl ==
  /\ clk = "store" /\ Call.f = "ctl"
  /\ ENAB' = Call.enab /\ SRC' = Call.src /\ MASH' = Call.mash
  /\ calls' = Tail(calls) /\ clk' = "begin"
  /\ UNCHANGED <<BUSY, DIV, save, asked>>

clockmgr_set_div ==
  /\ clk = "store" /\ Call.f = "div"
  /\ DIV' = Call.div
  /\ clk' = "restore"
  /\ UNCHANGED <<ctlVars, BUSY, calls, save, asked>>

\* Wrong on purpose: the clock is left stopped.
Restore_No ==
  /\ clk = "restore"
  /\ calls' = Tail(calls) /\ clk' = "begin"
  /\ UNCHANGED <<ctlVars, BUSY, DIV, save, asked>>

Restore ==
  /\ clk = "restore"
  /\ ENAB' = (ENAB \/ save)
  /\ calls' = Tail(calls) /\ clk' = "begin"
  /\ UNCHANGED <<SRC, MASH, BUSY, DIV, save, asked>>

-----------------------------------------------------------------------------
Given(arg, old) == IF arg = None THEN old ELSE arg

\* Clock.init and the constructor.  The test that skips config_ctl leaves ENAB
\* out of the old value, and the fraction is taken from the argument divi,
\* which raises when there is none.
machine_clock_init ==
  \E e \in BOOLEAN \cup {None}, s \in Sources \cup {None}, m \in Mashes \cup {None},
     divi, divf \in Parts \cup {None} :
    LET reg  == Ctl(Given(e, ENAB), Given(s, SRC), Given(m, MASH))
        i    == Given(divi, 0)
        f    == IF divf = None THEN 0 ELSE i
        same == ~reg.enab /\ reg.src = SRC /\ reg.mash = MASH
        raises == divf # None /\ divi = None
    IN /\ ClockIdle
       /\ calls' = (IF same THEN << >> ELSE <<reg>>)
                     \o (IF raises \/ (i = 0 /\ f = 0) THEN << >> ELSE <<SetDiv(i, f)>>)
       /\ asked' = Setting(reg.enab, reg.src, reg.mash,
                           IF i = 0 THEN DIV ELSE <<i, Given(divf, 0)>>,
                           (IF same /\ ENAB THEN {"enab"} ELSE {})
                             \cup (IF i # 0 /\ divf # None THEN {"divf"} ELSE {}))
       /\ UNCHANGED <<ctlVars, BUSY, DIV, clk, save>>

machine_clock_divisor ==
  \E divi, divf \in Parts \cup {None} :
    /\ ClockIdle
    /\ calls' = <<SetDiv(Given(divi, 0), Given(divf, 0))>>
    /\ asked' = Setting(ENAB, SRC, MASH, <<Given(divi, 0), Given(divf, 0)>>, {})
    /\ UNCHANGED <<ctlVars, BUSY, DIV, clk, save>>

ClockSteps == BeginCall \/ clockmgr_pause \/ Paused \/ clockmgr_config_ctl
                \/ clockmgr_set_div \/ Restore
machine_clock == machine_clock_init \/ machine_clock_divisor

-----------------------------------------------------------------------------
(* Properties. *)

\* The source and the noise shaping never change under a running generator, and
\* clockmgr_config_div never changes its divisor (bcm283x_clockmgr.c:4-8).
\* Clock.divisor and Clock.init do, which store DIV without a pause.
ClockPaused ==
  [][/\ SRC' # SRC \/ MASH' # MASH => ~BUSY
     /\ DIV' # DIV /\ Call.f = "div" => ~BUSY]_clockVars

\* The start-up, which asks for the oscillator divided by 20, and every Clock
\* call leave what they were asked for, and leave alone what they were not asked
\* for, through all their stops and restarts (rpi.c:136-139, machine_clockmgr.c:
\* 31-69).  Clock.init leaves DIV alone when divi is 0 or not given, and takes a
\* divf that is not given for 0.  Two things it is asked for it does not do, and
\* they are excepted: enable=0 that changes nothing else leaves the clock running
\* (line 51), and in place of a divf given with a divi it stores divi (line 62).
InitObeyed ==
  ClockIdle =>
    /\ SRC = asked.src /\ MASH = asked.mash
    /\ ENAB = asked.enab \/ "enab" \in asked.except
    /\ DIV[1] = asked.div[1]
    /\ DIV[2] = asked.div[2] \/ "divf" \in asked.except
=============================================================================
