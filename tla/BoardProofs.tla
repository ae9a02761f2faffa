----------------------------- MODULE BoardProofs -----------------------------
(***************************************************************************)
(* The properties of the peripherals, for every value of the constants.    *)
(*                                                                         *)
(* The first part is about the drivers by themselves: the clock manager,   *)
(* the SPI, the PWM's registers and its FIFO each have an inductive        *)
(* invariant that every step of theirs keeps; that of the mailboxes is in  *)
(* MailboxProofs.  The second part puts them on the board: each step of it *)
(* is a step of one of them, as far as its variables go.  The pins and the *)
(* registers of the PWM are there as a whole, because what reaches them    *)
(* depends on the job of the script.                                       *)
(***************************************************************************)
EXTENDS Board, MailboxProofs

-----------------------------------------------------------------------------
(* The clock manager.                                                        *)

ClockNext == ClockSteps \/ Generator \/ machine_clock

ClockRequests ==
  [enab : BOOLEAN, src : Sources, mash : Mashes, div : Nat \X Nat,
   except : SUBSET {"enab", "divf"}]

\* What the last call wants CTL to be; Clock.divisor wants it as it is.
Wanted == Ctl(asked.enab, asked.src, asked.mash)

\* A divisor is the one asked for.
Divides(d) ==
  /\ d[1] = asked.div[1]
  /\ d[2] = asked.div[2] \/ "divf" \in asked.except

\* The calls that set it
Divisors == {d \in [f : {"div", "set_div"}, div : Nat \X Nat] : Divides(d.div)}

CtlDue == calls # << >> /\ Call = Wanted
DivDue == \E d \in Divisors : calls = <<d>> \/ calls = <<Wanted, d>>

\* clockmgr_config_div is between its pause and its restore.
DivRuns == calls # << >> /\ Call.f = "div" /\ clk # "begin"

ClockTypeInv ==
  /\ {ENAB, BUSY, save} \subseteq BOOLEAN /\ SRC \in Sources /\ MASH \in Mashes
  /\ DIV \in Nat \X Nat /\ asked \in ClockRequests
  /\ clk \in {"begin", "pause", "busy", "store", "restore"}

\* The calls still to make are what remains of the last method.
CallsInv ==
  /\ calls = << >> \/ calls = <<Wanted>> \/ DivDue
  /\ clk # "begin" => calls # << >> /\ Call.f \in {"ctl", "div"}
  /\ clk = "restore" => Call.f = "div"

\* The generator is still only while ENAB is clear and the wait is over.
StillInv ==
  /\ BUSY => ENAB \/ clk = "busy"
  /\ clk \in {"busy", "store", "restore"} => ~ENAB

\* What config_div keeps in save is what ENAB was and will be.
SaveInv == DivRuns /\ clk = "pause" => save = ENAB

\* What is no longer due has been done.
DoneInv ==
  /\ ~CtlDue =>
       /\ SRC = Wanted.src /\ MASH = Wanted.mash
       /\ (IF DivRuns THEN save ELSE ENAB) = asked.enab \/ "enab" \in asked.except
  /\ ~DivDue \/ clk = "restore" => Divides(DIV)

ClockInv == ClockTypeInv /\ CallsInv /\ StillInv /\ SaveInv /\ DoneInv

\* What sequences of at most one element make when they are joined.
LEMMA ShortConcat ==
  ASSUME NEW x, NEW y
  PROVE  /\ << >> \o << >> = << >> /\ <<x>> \o << >> = <<x>>
         /\ << >> \o <<y>> = <<y>> /\ <<x>> \o <<y>> = <<x, y>>
<1>1. << >> \in Seq({x, y}) /\ <<x>> \in Seq({x, y}) /\ <<y>> \in Seq({x, y}) /\ <<x, y>> \in Seq({x, y})
  OBVIOUS
<1>2. /\ << >> \o << >> = << >> /\ <<x>> \o << >> = <<x>> /\ << >> \o <<y>> = <<y>>
  BY <1>1, ConcatEmptySeq
<1>3. <<x>> \o <<y>> = <<x, y>>
  <2>1. /\ <<x>> \o <<y>> \in Seq({x, y}) /\ Len(<<x>> \o <<y>>) = 2
        /\ \A k \in 1 .. 2 : (<<x>> \o <<y>>)[k] = <<x, y>>[k]
    BY <1>1, ConcatProperties
  <2> QED
    BY <1>1, <2>1, SeqEqual
<1> QED
  BY <1>2, <1>3

\* What Wanted and the calls for the divisor are like.
LEMMA WantedType ==
  ASSUME asked \in ClockRequests
  PROVE  /\ Wanted.f = "ctl" /\ Wanted.enab \in BOOLEAN
         /\ Wanted.src \in Sources /\ Wanted.mash \in Mashes
         /\ Wanted.enab = asked.enab /\ Wanted.src = asked.src /\ Wanted.mash = asked.mash
BY DEF Wanted, Ctl, ClockRequests

\* Which call is first, and what is left after it.
LEMMA CallsShape ==
  ASSUME asked \in ClockRequests, CallsInv, calls # << >>
  PROVE  \/ /\ Call = Wanted /\ Call.f = "ctl"
            /\ Tail(calls) = << >> /\ ~DivDue
         \/ \E d \in Divisors : Call = Wanted /\ Call.f = "ctl" /\ Tail(calls) = <<d>> /\ DivDue
         \/ /\ Call \in Divisors /\ Call # Wanted /\ Call.f \in {"div", "set_div"}
            /\ Call.div \in Nat \X Nat
            /\ Tail(calls) = << >> /\ calls = <<Call>> /\ DivDue
<1>1. Wanted.f = "ctl"
  BY WantedType
<1>2. \A d \in Divisors : d.f \in {"div", "set_div"} /\ d.div \in Nat \X Nat /\ d # Wanted
  BY <1>1 DEF Divisors
<1>3. CASE calls = <<Wanted>>
  <2>1. Call = Wanted /\ Tail(calls) = << >>
    BY <1>3 DEF Call
  <2>2. ~DivDue
    BY <1>2, <1>3 DEF DivDue
  <2> QED
    BY <1>1, <2>1, <2>2
<1>4. ASSUME NEW d \in Divisors, calls = <<d>>
      PROVE  /\ Call \in Divisors /\ Call # Wanted /\ Call.f \in {"div", "set_div"}
             /\ Call.div \in Nat \X Nat
             /\ Tail(calls) = << >> /\ calls = <<Call>> /\ DivDue
  BY <1>2, <1>4 DEF Call, DivDue
<1>5. ASSUME NEW d \in Divisors, calls = <<Wanted, d>>
      PROVE  Call = Wanted /\ Call.f = "ctl" /\ Tail(calls) = <<d>> /\ DivDue
  BY <1>1, <1>5 DEF Call, DivDue
<1> QED
  BY <1>3, <1>4, <1>5 DEF CallsInv, DivDue

\* The steps that make no call and begin none.
LEMMA ClockQuiet ==
  ClockInv /\ (Generator \/ clockmgr_pause \/ Paused) => ClockInv'
<1> SUFFICES ASSUME ClockInv, Generator \/ clockmgr_pause \/ Paused
             PROVE  ClockInv'
  OBVIOUS
<1> USE DEF ClockInv, ctlVars
<1>1. UNCHANGED <<SRC, MASH, DIV, calls, save, asked>>
  BY DEF Generator, clockmgr_pause, Paused
<1>2. UNCHANGED <<Wanted, Divisors, Divides(DIV), Call, DivDue, CtlDue>>
  BY <1>1 DEF Wanted, Divisors, Divides, Call, DivDue, CtlDue
<1>3. /\ clk' \in {"begin", "pause", "busy", "store", "restore"} /\ {ENAB', BUSY'} \subseteq BOOLEAN
      /\ clk = "restore" <=> clk' = "restore"
      /\ clk = "begin" <=> clk' = "begin"
  BY DEF Generator, clockmgr_pause, Paused, ClockTypeInv
<1>4. DivRuns' = DivRuns
  BY <1>1, <1>2, <1>3 DEF DivRuns
<1>5. ClockTypeInv' /\ CallsInv'
  BY <1>1, <1>2, <1>3 DEF ClockTypeInv, CallsInv
<1>6. StillInv' /\ SaveInv'
  BY <1>1, <1>4 DEF Generator, clockmgr_pause, Paused, StillInv, SaveInv, ClockTypeInv
<1>7. DoneInv'
  <2>1. (IF DivRuns THEN save ELSE ENAB)' = (IF DivRuns THEN save ELSE ENAB) \/ CtlDue
    <3>1. CASE Generator \/ Paused
      BY <1>1, <1>4, <3>1 DEF Generator, Paused
    <3>2. CASE clockmgr_pause
      <4>1. DivRuns \/ CtlDue
        BY <3>2, CallsShape DEF clockmgr_pause, ClockIdle, DivRuns, CtlDue, CallsInv, ClockTypeInv
      <4> QED
        BY <1>1, <1>4, <4>1 DEF DivRuns
    <3> QED
      BY <3>1, <3>2
  <2> QED
    BY <1>1, <1>2, <1>3, <2>1 DEF DoneInv
<1> QED
  BY <1>5, <1>6, <1>7

\* The steps that begin a call or end one.
LEMMA ClockCalls ==
  ClockInv /\ (BeginCall \/ clockmgr_config_ctl \/ clockmgr_set_div \/ Restore) => ClockInv'
<1> SUFFICES ASSUME ClockInv, BeginCall \/ clockmgr_config_ctl \/ clockmgr_set_div \/ Restore
             PROVE  ClockInv'
  OBVIOUS
<1> USE DEF ClockInv, ctlVars
<1>1. calls # << >> /\ UNCHANGED <<BUSY, asked, Wanted, Divisors>>
  BY DEF BeginCall, clockmgr_config_ctl, clockmgr_set_div, Restore, ClockIdle, CallsInv,
         Wanted, Divisors, Divides
<1>2. \/ /\ Call = Wanted /\ Call.f = "ctl"
         /\ Tail(calls) = << >> /\ ~DivDue
      \/ \E d \in Divisors : Call = Wanted /\ Call.f = "ctl" /\ Tail(calls) = <<d>> /\ DivDue
      \/ /\ Call \in Divisors /\ Call # Wanted /\ Call.f \in {"div", "set_div"}
         /\ Call.div \in Nat \X Nat
         /\ Tail(calls) = << >> /\ calls = <<Call>> /\ DivDue
  BY <1>1, CallsShape DEF ClockTypeInv
<1>3. /\ Wanted.f = "ctl" /\ Wanted.enab \in BOOLEAN
      /\ Wanted.src \in Sources /\ Wanted.mash \in Mashes
      /\ Wanted.enab = asked.enab
  BY WantedType DEF ClockTypeInv
<1>4. ASSUME calls' = << >>, clk' = "begin"
      PROVE  ~CtlDue' /\ ~DivDue' /\ ~DivRuns' /\ CallsInv' /\ SaveInv'
  BY <1>4 DEF CtlDue, DivDue, DivRuns, CallsInv, SaveInv
<1>5. CASE BeginCall
  <2>1. CASE Call.f = "set_div"
    <3>1. /\ calls' = << >> /\ clk' = "begin" /\ clk = "begin" /\ DIV' = Call.div /\ UNCHANGED ctlVars
          /\ Call # Wanted /\ Call \in Divisors /\ save' = save
      BY <1>2, <1>5, <2>1 DEF BeginCall
    <3>2. StillInv' /\ ClockTypeInv'
      BY <1>1, <1>2, <1>3, <3>1 DEF StillInv, ClockTypeInv
    <3>3. DoneInv'
      BY <1>1, <1>4, <3>1 DEF DoneInv, CtlDue, DivRuns, Divisors, Divides
    <3> QED
      BY <1>4, <3>1, <3>2, <3>3
  <2>2. CASE Call.f # "set_div"
    <3>1. /\ clk' = "pause" /\ clk = "begin" /\ UNCHANGED <<ctlVars, DIV, calls, Call, CtlDue, DivDue>>
          /\ save' = IF Call.f = "div" THEN ENAB ELSE save
          /\ ~DivRuns /\ DivRuns' = (Call.f = "div")
      BY <1>1, <1>5, <2>2 DEF BeginCall, Call, CtlDue, DivDue, DivRuns
    <3>2. StillInv' /\ ClockTypeInv' /\ SaveInv'
      BY <1>1, <3>1 DEF StillInv, ClockTypeInv, SaveInv
    <3>3. DoneInv' /\ CallsInv'
      BY <1>1, <1>2, <1>3, <2>2, <3>1 DEF DoneInv, CallsInv, Divides
    <3> QED
      BY <3>2, <3>3
  <2> QED
    BY <2>1, <2>2
<1>6. CASE clockmgr_config_ctl
  <2>1. /\ Call = Wanted /\ ENAB' = Call.enab /\ SRC' = Call.src /\ MASH' = Call.mash
        /\ calls' = Tail(calls) /\ clk' = "begin" /\ clk = "store" /\ UNCHANGED <<DIV, save>>
    BY <1>2, <1>6 DEF clockmgr_config_ctl
  <2>2. ClockTypeInv' /\ StillInv'
    BY <1>1, <1>3, <2>1 DEF ClockTypeInv, StillInv
  <2>3. ~CtlDue' /\ ~DivRuns' /\ CallsInv' /\ SaveInv' /\ (DivDue' <=> DivDue)
    <3>1. CASE Tail(calls) = << >> /\ ~DivDue
      BY <1>4, <2>1, <3>1
    <3>2. ASSUME NEW d \in Divisors, Tail(calls) = <<d>>, DivDue
          PROVE  ~CtlDue' /\ ~DivRuns' /\ CallsInv' /\ SaveInv' /\ DivDue'
      <4>1. d # Wanted
        BY <1>3 DEF Divisors
      <4>2. d \in Divisors' /\ calls' = <<d>>
        BY <1>1, <2>1, <3>2
      <4>3. Call' = d
        BY <4>2 DEF Call
      <4> QED
        BY <1>1, <2>1, <4>1, <4>2, <4>3 DEF CtlDue, DivDue, DivRuns, CallsInv, SaveInv
    <3> QED
      BY <1>2, <2>1, <3>1, <3>2
  <2>4. DoneInv'
    BY <1>1, <1>3, <2>1, <2>3 DEF DoneInv, Divides
  <2> QED
    BY <2>2, <2>3, <2>4
<1>7. CASE clockmgr_set_div
  <2>1. /\ Call.f = "div" /\ Call \in Divisors /\ clk = "store" /\ clk' = "restore" /\ DIV' = Call.div
        /\ UNCHANGED <<ctlVars, calls, save, Call, CtlDue, DivDue, DivRuns>>
    BY <1>1, <1>2, <1>7 DEF clockmgr_set_div, Call, CtlDue, DivDue, DivRuns
  <2>2. ClockTypeInv' /\ StillInv' /\ SaveInv' /\ CallsInv'
    BY <1>1, <1>2, <2>1 DEF ClockTypeInv, StillInv, SaveInv, CallsInv
  <2>3. DoneInv'
    BY <1>1, <2>1 DEF DoneInv, Divisors, Divides
  <2> QED
    BY <2>2, <2>3
<1>8. CASE Restore
  <2>1. /\ Call.f = "div" /\ Call # Wanted /\ calls' = << >> /\ clk' = "begin" /\ clk = "restore"
        /\ ENAB' = (ENAB \/ save) /\ UNCHANGED <<SRC, MASH, DIV, save>> /\ DivRuns
    BY <1>1, <1>2, <1>8 DEF Restore, CallsInv, DivRuns
  <2>2. ~ENAB /\ ~BUSY /\ ENAB' = save
    BY <2>1 DEF StillInv, ClockTypeInv
  <2>3. ClockTypeInv' /\ StillInv'
    BY <1>1, <2>1, <2>2 DEF ClockTypeInv, StillInv
  <2>4. DoneInv'
    BY <1>1, <1>4, <2>1, <2>2 DEF DoneInv, CtlDue, Divides
  <2> QED
    BY <1>4, <2>1, <2>3, <2>4
<1> QED
  BY <1>5, <1>6, <1>7, <1>8

\* A method of machine.Clock, when it begins, finds no call left and stores nothing.
LEMMA MethodsQuiet ==
  ASSUME machine_clock
  PROVE  calls = << >> /\ UNCHANGED <<ENAB, SRC, MASH, BUSY, DIV, clk, save>>
<1>1. CASE machine_clock_init
  <2>1. ClockIdle /\ UNCHANGED <<ctlVars, BUSY, DIV, clk, save>>
    BY <1>1 DEF machine_clock_init
  <2> QED
    BY <2>1 DEF ClockIdle, ctlVars
<1>2. CASE machine_clock_divisor
  BY <1>2 DEF machine_clock_divisor, ClockIdle, ctlVars
<1> QED
  BY <1>1, <1>2 DEF machine_clock

\* The methods of machine.Clock.
LEMMA ClockMethods == ClockInv /\ machine_clock => ClockInv'
<1> SUFFICES ASSUME ClockInv, machine_clock
             PROVE  ClockInv'
  OBVIOUS
<1> USE DEF ClockInv, ctlVars
<1>1. calls = << >> /\ clk = "begin" /\ UNCHANGED <<ENAB, SRC, MASH, BUSY, DIV, clk, save>>
  BY MethodsQuiet DEF CallsInv
<1>2. StillInv'
  BY <1>1 DEF StillInv
<1>3. ~CtlDue /\ ~DivRuns
  BY <1>1 DEF CtlDue, DivRuns
<1>4. CASE machine_clock_divisor
  <2>1. PICK divi \in Parts \cup {None}, divf \in Parts \cup {None} :
          /\ calls' = <<SetDiv(Given(divi, 0), Given(divf, 0))>>
          /\ asked' = Setting(ENAB, SRC, MASH, <<Given(divi, 0), Given(divf, 0)>>, {})
    BY <1>4 DEF machine_clock_divisor
  <2> DEFINE d == SetDiv(Given(divi, 0), Given(divf, 0))
  <2>2. Given(divi, 0) \in Nat /\ Given(divf, 0) \in Nat
    BY ClockAssumption DEF Given
  <2>3. /\ asked' \in ClockRequests /\ Wanted' = Ctl(ENAB, SRC, MASH)
        /\ asked'.div = <<Given(divi, 0), Given(divf, 0)>> /\ asked'.enab = ENAB
    BY <2>1, <2>2 DEF ClockTypeInv, ClockRequests, Wanted, Setting
  <2>4. d \in Divisors' /\ Call' = d /\ d.f = "set_div"
    BY <2>1, <2>2, <2>3 DEF Divisors, Divides, SetDiv, Call
  <2>5. DivDue' /\ ~CtlDue' /\ ~DivRuns' /\ CallsInv' /\ SaveInv'
    <3>1. Wanted'.f = "ctl"
      BY <2>3 DEF Ctl
    <3> QED
      BY <1>1, <2>1, <2>4, <3>1 DEF DivDue, CtlDue, DivRuns, CallsInv, SaveInv
  <2>6. ClockTypeInv' /\ DoneInv'
    BY <1>1, <2>3, <2>5 DEF ClockTypeInv, DoneInv, Ctl
  <2> QED
    BY <1>2, <2>5, <2>6
<1>5. CASE machine_clock_init
  <2>1. PICK e \in BOOLEAN \cup {None}, s \in Sources \cup {None}, m \in Mashes \cup {None},
             divi \in Parts \cup {None}, divf \in Parts \cup {None} :
          LET reg  == Ctl(Given(e, ENAB), Given(s, SRC), Given(m, MASH))
              i    == Given(divi, 0)
              f    == IF divf = None THEN 0 ELSE i
              same == ~reg.enab /\ reg.src = SRC /\ reg.mash = MASH
              raises == divf # None /\ divi = None
          IN /\ ClockIdle
             /\ calls' = (IF same THEN << >> ELSE <<reg>>)
                           \o (IF raises \/ (i = 0 /\ f = 0) THEN << >> ELSE <<SetDiv(i, f)>>)
             /\ asked' = Setting(reg.enab, reg.src, reg.mash,
                                 IF i = 0 THEN DIV ELSE <<i, Given(divf, 0)>>,
                                 (IF same /\ ENAB THEN {"enab"} ELSE {})
                                   \cup (IF i # 0 /\ divf # None THEN {"divf"} ELSE {}))
             /\ UNCHANGED <<ctlVars, BUSY, DIV, clk, save>>
    BY <1>5, Zenon DEF machine_clock_init
  <2> DEFINE reg  == Ctl(Given(e, ENAB), Given(s, SRC), Given(m, MASH))
             i    == Given(divi, 0)
             f    == IF divf = None THEN 0 ELSE i
             same == ~reg.enab /\ reg.src = SRC /\ reg.mash = MASH
             raises == divf # None /\ divi = None
             d    == SetDiv(i, f)
             div  == IF i = 0 THEN DIV ELSE <<i, Given(divf, 0)>>
             but  == (IF same /\ ENAB THEN {"enab"} ELSE {})
                       \cup (IF i # 0 /\ divf # None THEN {"divf"} ELSE {})
  <2>2. /\ i \in Nat /\ f \in Nat /\ Given(divf, 0) \in Nat
        /\ divi = None => i = 0
        /\ divf = None => f = Given(divf, 0)
    BY ClockAssumption DEF Given
  <2>t. reg.enab \in BOOLEAN /\ reg.src \in Sources /\ reg.mash \in Mashes
    BY ClockAssumption DEF Ctl, Given, ClockTypeInv
  <2>3. /\ asked' \in ClockRequests /\ Wanted' = reg /\ asked'.div = div
        /\ asked'.enab = reg.enab /\ asked'.except = but
    <3>1. asked' = Setting(reg.enab, reg.src, reg.mash, div, but)
      BY <2>1
    <3>2. div \in Nat \X Nat /\ but \in SUBSET {"enab", "divf"}
      BY <2>2 DEF ClockTypeInv
    <3>3. reg = Ctl(reg.enab, reg.src, reg.mash)
      BY DEF Ctl
    <3> HIDE DEF reg, div, but
    <3> QED
      BY <2>t, <3>1, <3>2, <3>3 DEF Setting, ClockRequests, Wanted
  <2>4. i # 0 => d \in Divisors'
    BY <2>2, <2>3 DEF Divisors, Divides, SetDiv
  <2>5. \/ calls' = << >> /\ same /\ i = 0
        \/ calls' = <<reg>> /\ i = 0
        \/ calls' = <<d>> /\ same /\ i # 0
        \/ calls' = <<reg, d>> /\ i # 0
    <3> HIDE DEF d, reg, i, f, same, raises
    <3>2. calls' = (IF same THEN << >> ELSE <<reg>>)
                     \o (IF raises \/ (i = 0 /\ f = 0) THEN << >> ELSE <<d>>)
      BY <2>1 DEF d, reg, i, f, same, raises
    <3>3. raises \/ (i = 0 /\ f = 0) <=> i = 0
      BY <2>2 DEF raises, f
    <3> QED
      BY <3>2, <3>3, ShortConcat
  <2>6. reg.f = "ctl" /\ d.f = "set_div" /\ d # reg
    BY DEF Ctl, SetDiv
  <2>7. CallsInv' /\ SaveInv' /\ ~DivRuns'
    <3>1. calls' # << >> => Call' \in {reg, d}
      BY <2>5 DEF Call
    <3> QED
      BY <1>1, <2>3, <2>4, <2>5, <2>6, <3>1 DEF CallsInv, DivDue, SaveInv, DivRuns
  <2>8. DoneInv'
    <3>1. CtlDue' \/ same
      BY <2>3, <2>5 DEF CtlDue, Call
    <3>2. DivDue' \/ Divides(DIV)'
      BY <1>1, <2>3, <2>4, <2>5 DEF DivDue, Divides
    <3>3. same => /\ SRC' = Wanted'.src /\ MASH' = Wanted'.mash
                  /\ ENAB' = asked'.enab \/ "enab" \in asked'.except
      BY <1>1, <2>t, <2>3 DEF ClockTypeInv
    <3> QED
      BY <1>1, <2>3, <2>7, <3>1, <3>2, <3>3 DEF DoneInv
  <2> QED
    BY <1>1, <1>2, <2>3, <2>7, <2>8 DEF ClockTypeInv
<1> QED
  BY <1>4, <1>5 DEF machine_clock

\* Each step of the generator and of the drivers of the clock keeps ClockInv.
LEMMA ClockStep == ClockInv /\ [ClockNext]_clockVars => ClockInv'
<1>1. ClockInv /\ UNCHANGED clockVars => ClockInv'
  BY DEF clockVars, ctlVars, ClockInv, ClockTypeInv, CallsInv, StillInv, SaveInv, DoneInv,
         DivDue, CtlDue, DivRuns, Divisors, Divides, Wanted, Call
<1> QED
  BY <1>1, ClockQuiet, ClockCalls, ClockMethods DEF ClockNext, ClockSteps

\* rpi_init's calls, which the start-up begins with, satisfy ClockInv.
LEMMA ClockBegin == ClockInit => ClockInv
<1> SUFFICES ASSUME ClockInit
             PROVE  ClockInv
  OBVIOUS
<1> DEFINE d == Div(BootDiv, 0)
<1>1. asked \in ClockRequests /\ Wanted = Ctl(TRUE, OSC, 1) /\ asked.div = <<BootDiv, 0>>
  BY ClockAssumption DEF ClockInit, ClockRequests, Wanted, Setting
<1>2. calls = <<Wanted, d>> /\ Call = Wanted /\ Wanted.f = "ctl"
  BY <1>1 DEF ClockInit, rpi_init, Call, Ctl
<1>3. d \in Divisors
  BY <1>1, ClockAssumption DEF Divisors, Divides, Div
<1>4. DivDue /\ CtlDue
  BY <1>2, <1>3 DEF DivDue, CtlDue
<1>5. ClockTypeInv
  BY <1>1 DEF ClockTypeInv, ClockInit
<1> QED
  BY <1>2, <1>4, <1>5 DEF ClockInit, ClockInv, CallsInv, StillInv, SaveInv, DoneInv, DivRuns

\* With no call left, what was asked for holds.
LEMMA ClockInvObeyed == ClockInv => InitObeyed
<1> SUFFICES ASSUME ClockInv, calls = << >>
             PROVE  InitObeyed
  BY DEF InitObeyed, ClockIdle
<1>1. ~CtlDue /\ ~DivDue /\ ~DivRuns
  BY DEF CtlDue, DivDue, DivRuns
<1> QED
  BY <1>1, WantedType DEF ClockInv, ClockTypeInv, DoneInv, InitObeyed, Divides, Wanted, Ctl

\* A step that changes CTL's source or, in config_div, the divisor, has paused.
LEMMA ClockStill ==
  ASSUME ClockInv, ClockNext
  PROVE  /\ SRC' # SRC \/ MASH' # MASH => ~BUSY
         /\ DIV' # DIV /\ Call.f = "div" => ~BUSY
<1>1. SRC' # SRC \/ MASH' # MASH => clk = "store"
  BY MethodsQuiet DEF ClockNext, ClockSteps, Generator, BeginCall, clockmgr_pause, Paused,
         clockmgr_config_ctl, clockmgr_set_div, Restore, ctlVars
<1>2. DIV' # DIV /\ Call.f = "div" => clk = "store"
  BY MethodsQuiet DEF ClockNext, ClockSteps, Generator, BeginCall, clockmgr_pause, Paused,
         clockmgr_config_ctl, clockmgr_set_div, Restore, ctlVars
<1> QED
  BY <1>1, <1>2 DEF ClockInv, ClockTypeInv, StillInv
-----------------------------------------------------------------------------
(* The SPI.                                                                  *)

SpiNext == SpiDriver \/ ShiftOut \/ ShiftIn \/ SpiScript

\* The i-th byte of a transfer with w bytes to write, and the bytes on the wire.
Byte(w, i) == IF i <= w THEN i ELSE Padding
Wire(s)    == IF s = Nothing THEN 0 ELSE 1

SpiTypeInv ==
  /\ TA \in BOOLEAN /\ TX \in Seq(Int) /\ RX \in Seq(Int) /\ shift \in Int
  /\ spc \in {"script", "active", "tx", "rx", "test"}
  /\ wlen \in Nat /\ rlen \in Nat /\ txcnt \in Nat /\ rxcnt \in Nat
  /\ buf_rx \in Seq(Int) /\ heard \in Seq(Int)

\* Outside the driver's loop TA is clear; when it has returned everything that was to
\* be sent has been heard, and the FIFOs and the wire are empty.
QuietInv ==
  /\ TA => spc \in {"tx", "rx", "test"}
  /\ spc = "script" => TX = << >> /\ RX = << >> /\ shift = Nothing /\ Len(heard) = SpiLen

\* What txcnt counts has been heard, or is on the wire, or waits in the FIFO, in order.
SentInv ==
  /\ txcnt <= SpiLen /\ txcnt = Len(heard) + Wire(shift) + Len(TX)
  /\ \A i \in 1 .. Len(heard) : heard[i] \in {Byte(wlen, i), Junk}
  /\ shift # Nothing => shift = Byte(wlen, Len(heard) + 1)
  /\ \A k \in 1 .. Len(TX) : TX[k] = Byte(wlen, Len(heard) + Wire(shift) + k)

\* To each byte heard there is an answer, taken out or still in the FIFO, in order.
AnsweredInv ==
  /\ Len(heard) = rxcnt + Len(RX)
  /\ \A k \in 1 .. Len(RX) : RX[k] = IF heard[rxcnt + k] = Junk THEN Junk ELSE rxcnt + k
  /\ Len(buf_rx) = IF rxcnt < rlen THEN rxcnt ELSE rlen
  /\ \A i \in 1 .. Len(buf_rx) : buf_rx[i] = IF heard[i] = Junk THEN Junk ELSE i

SpiInv == SpiTypeInv /\ QuietInv /\ SentInv /\ AnsweredInv

\* A byte is none of the marks.
LEMMA ByteShape == ASSUME SpiTypeInv, NEW i \in Nat PROVE Byte(wlen, i) \in Nat /\ Byte(wlen, i) # Nothing /\ Byte(wlen, i) # Junk
BY DEF SpiTypeInv, Byte, Padding, Nothing, Junk

\* What is added to a sequence comes last; what is taken from it was first.
LEMMA SeqAdd ==
  ASSUME NEW s \in Seq(Int), NEW x \in Int, NEW t, t = Append(s, x)
  PROVE  /\ t \in Seq(Int) /\ Len(s) \in Nat /\ Len(t) = Len(s) + 1 /\ t[Len(s) + 1] = x
         /\ \A i \in 1 .. Len(s) : t[i] = s[i]
BY AppendProperties

\* What is left of a sequence when its first element is taken out.
LEMMA SeqTake ==
  ASSUME NEW s \in Seq(Int), s # << >>, NEW t, t = Tail(s)
  PROVE  /\ t \in Seq(Int) /\ Len(s) \in Nat /\ Len(s) > 0 /\ Len(t) = Len(s) - 1
         /\ Head(s) = s[1] /\ s[1] \in Int
         /\ \A i \in 1 .. Len(t) : t[i] = s[i + 1]
BY HeadTailProperties, EmptySeq

\* The empty sequence is the one without elements.
LEMMA SeqNone == << >> \in Seq(Int) /\ Len(<< >>) = 0 /\ \A s \in Seq(Int) : Len(s) = 0 => s = << >>
BY EmptySeq

\* The longer of the two lengths.
LEMMA SpiLenShape == SpiTypeInv => SpiLen \in Nat /\ wlen <= SpiLen /\ rlen <= SpiLen
BY DEF SpiTypeInv, SpiLen

\* The controller sends the next byte.
LEMMA ShiftOutStep == ASSUME SpiInv, ShiftOut PROVE SpiInv'
<1> USE DEF SpiInv
<1>1. /\ TX \in Seq(Int) /\ TX # << >> /\ TX' = Tail(TX) /\ shift' = Head(TX) /\ shift = Nothing /\ TA
      /\ UNCHANGED <<TA, RX, spc, wlen, rlen, txcnt, rxcnt, buf_rx, heard>>
  BY DEF ShiftOut, SpiTypeInv, spiLocals
<1>2. /\ TX' \in Seq(Int) /\ Len(TX) \in Nat /\ Len(TX) > 0 /\ Len(TX') = Len(TX) - 1
      /\ shift' = TX[1] /\ TX[1] \in Int
      /\ \A i \in 1 .. Len(TX') : TX'[i] = TX[i + 1]
  BY <1>1, SeqTake
<1>3. Len(heard) \in Nat /\ Wire(shift) = 0 /\ shift' = Byte(wlen, Len(heard) + 1) /\ shift' # Nothing
  <2>1. Len(heard) \in Nat
    BY DEF SpiTypeInv
  <2>2. Wire(shift) = 0 /\ TX[1] = Byte(wlen, Len(heard) + 0 + 1)
    BY <1>1, <1>2, <2>1 DEF SentInv, Wire
  <2> QED
    BY <1>2, <2>1, <2>2, ByteShape
<1>4. Wire(shift') = 1 /\ SpiLen' = SpiLen
  BY <1>1, <1>3 DEF Wire, SpiLen
<1>5. SentInv'
  <2>1. \A k \in 1 .. Len(TX') : TX'[k] = Byte(wlen', Len(heard) + 1 + k)
    <3>1. \A k \in 1 .. Len(TX') : k + 1 \in 1 .. Len(TX) /\ TX[k + 1] = Byte(wlen, Len(heard) + 0 + (k + 1))
      BY <1>2, <1>3 DEF SentInv
    <3>2. \A k \in 1 .. Len(TX') : Len(heard) + 0 + (k + 1) = Len(heard) + 1 + k /\ Len(heard) + 1 + k \in Nat
      BY <1>2, <1>3
    <3> QED
      BY <1>1, <1>2, <1>4, <3>1, <3>2
  <2>2. txcnt' <= SpiLen' /\ txcnt' = Len(heard') + 1 + Len(TX')
    BY <1>1, <1>2, <1>3, <1>4 DEF SentInv
  <2>3. \A i \in 1 .. Len(heard') : heard'[i] \in {Byte(wlen', i), Junk}
    BY <1>1, <1>4 DEF SentInv
  <2>4. shift' = Byte(wlen', Len(heard) + 1)
    BY <1>1, <1>3 DEF Byte
  <2> QED
    BY <1>1, <1>4, <2>1, <2>2, <2>3, <2>4 DEF SentInv
<1>6. SpiTypeInv' /\ QuietInv'
  BY <1>1, <1>2 DEF SpiTypeInv, QuietInv
<1>7. AnsweredInv'
  BY <1>1 DEF AnsweredInv
<1> QED
  BY <1>5, <1>6, <1>7

\* The slave hears it and answers.
LEMMA ShiftInStep == ASSUME SpiInv, ShiftIn PROVE SpiInv'
<1> USE DEF SpiInv
<1> DEFINE h == IF Routed THEN shift ELSE Junk
           a == IF Routed THEN Len(heard) + 1 ELSE Junk
<1>1. /\ shift # Nothing /\ shift' = Nothing /\ heard' = Append(heard, h) /\ RX' = Append(RX, a)
      /\ UNCHANGED <<TA, TX, spc, wlen, rlen, txcnt, rxcnt, buf_rx>>
  BY DEF ShiftIn, spiLocals
<1>2. /\ heard \in Seq(Int) /\ RX \in Seq(Int) /\ Len(heard) \in Nat /\ rxcnt \in Nat
      /\ shift = Byte(wlen, Len(heard) + 1) /\ shift \in Nat
  <2>1. heard \in Seq(Int) /\ RX \in Seq(Int) /\ rxcnt \in Nat /\ Len(heard) \in Nat
    BY DEF SpiTypeInv
  <2> QED
    BY <1>1, <2>1, ByteShape DEF SentInv
<1>3. h \in {shift, Junk} /\ h \in Int /\ a \in Int /\ (a = IF h = Junk THEN Junk ELSE Len(heard) + 1)
  BY <1>2 DEF Junk
<1> HIDE DEF h, a
<1>4. /\ heard' \in Seq(Int) /\ Len(heard') = Len(heard) + 1 /\ heard'[Len(heard) + 1] = h
      /\ \A i \in 1 .. Len(heard) : heard'[i] = heard[i]
  BY <1>1, <1>2, <1>3, SeqAdd
<1>5. /\ RX' \in Seq(Int) /\ Len(RX) \in Nat /\ Len(RX') = Len(RX) + 1 /\ RX'[Len(RX) + 1] = a
      /\ \A i \in 1 .. Len(RX) : RX'[i] = RX[i]
  BY <1>1, <1>2, <1>3, SeqAdd
<1>6. Wire(shift) = 1 /\ Wire(shift') = 0 /\ SpiLen' = SpiLen
  BY <1>1 DEF Wire, SpiLen
<1>7. SpiTypeInv'
  BY <1>1, <1>4, <1>5 DEF SpiTypeInv, Nothing
<1>8. QuietInv'
  <2>1. spc # "script"
    BY <1>1 DEF QuietInv
  <2> QED
    BY <1>1, <2>1 DEF QuietInv
<1>9. SentInv'
  <2>1. Len(TX) \in Nat /\ txcnt <= SpiLen /\ txcnt = Len(heard) + 1 + Len(TX)
    BY <1>6 DEF SentInv, SpiTypeInv
  <2>2. \A i \in 1 .. Len(heard') : heard'[i] \in {Byte(wlen', i), Junk}
    <3>1. \A i \in 1 .. Len(heard) : heard'[i] \in {Byte(wlen', i), Junk}
      BY <1>1, <1>2, <1>4 DEF SentInv
    <3>2. heard'[Len(heard) + 1] \in {Byte(wlen', Len(heard) + 1), Junk}
      BY <1>1, <1>2, <1>3, <1>4
    <3>3. \A i \in 1 .. Len(heard') : i \in 1 .. Len(heard) \/ i = Len(heard) + 1
      BY <1>2, <1>4
    <3> QED
      BY <3>1, <3>2, <3>3
  <2>3. \A k \in 1 .. Len(TX') : TX'[k] = Byte(wlen', Len(heard') + 0 + k)
    <3>1. \A k \in 1 .. Len(TX) : TX[k] = Byte(wlen, Len(heard) + 1 + k)
      BY <1>6 DEF SentInv
    <3>2. \A k \in 1 .. Len(TX) : Len(heard') + 0 + k = Len(heard) + 1 + k /\ Len(heard) + 1 + k \in Nat
      BY <1>2, <1>4, <2>1
    <3> QED
      BY <1>1, <1>6, <3>1, <3>2
  <2> QED
    BY <1>1, <1>2, <1>4, <1>6, <2>1, <2>2, <2>3 DEF SentInv
<1>10. AnsweredInv'
  <2>1. Len(heard) = rxcnt + Len(RX)
    BY DEF AnsweredInv
  <2>2. \A k \in 1 .. Len(RX') : RX'[k] = IF heard'[rxcnt + k] = Junk THEN Junk ELSE rxcnt + k
    <3>1. \A k \in 1 .. Len(RX) : /\ RX'[k] = IF heard[rxcnt + k] = Junk THEN Junk ELSE rxcnt + k
                                  /\ heard'[rxcnt + k] = heard[rxcnt + k]
      <4>1. \A k \in 1 .. Len(RX) : rxcnt + k \in 1 .. Len(heard)
        BY <1>2, <1>5, <2>1
      <4> QED
        BY <1>4, <1>5, <4>1 DEF AnsweredInv
    <3>2. RX'[Len(RX) + 1] = IF heard'[rxcnt + (Len(RX) + 1)] = Junk THEN Junk ELSE rxcnt + (Len(RX) + 1)
      <4>1. rxcnt + (Len(RX) + 1) = Len(heard) + 1
        BY <1>2, <1>5, <2>1
      <4> QED
        BY <1>3, <1>4, <1>5, <4>1
    <3>3. \A k \in 1 .. Len(RX') : k \in 1 .. Len(RX) \/ k = Len(RX) + 1
      BY <1>5
    <3> QED
      BY <3>1, <3>2, <3>3
  <2>3. \A i \in 1 .. Len(buf_rx) : i \in 1 .. Len(heard) /\ heard'[i] = heard[i]
    <3>1. Len(buf_rx) \in Nat /\ rlen \in Nat
      BY DEF SpiTypeInv
    <3>2. Len(buf_rx) <= Len(heard)
      BY <1>2, <1>5, <2>1, <3>1 DEF AnsweredInv
    <3> QED
      BY <1>2, <1>4, <3>1, <3>2
  <2>4. Len(heard') = rxcnt + Len(RX')
    BY <1>2, <1>4, <1>5, <2>1
  <2>5. \A i \in 1 .. Len(buf_rx) : buf_rx[i] = IF heard'[i] = Junk THEN Junk ELSE i
    BY <2>3 DEF AnsweredInv
  <2>6. UNCHANGED <<rxcnt, rlen, buf_rx>>
    BY <1>1
  <2> QED
    BY <2>2, <2>4, <2>5, <2>6 DEF AnsweredInv
<1> QED
  BY <1>7, <1>8, <1>9, <1>10

\* The driver writes a byte into the FIFO.
LEMMA TransmitStep == ASSUME SpiInv, Transmit PROVE SpiInv'
<1> USE DEF SpiInv
<1> DEFINE b == IF txcnt < wlen THEN txcnt + 1 ELSE Padding
<1>1. /\ spc = "tx" /\ spc' = "rx" /\ UNCHANGED <<TA, RX, shift, wlen, rlen, rxcnt, buf_rx, heard>>
      /\ \/ txcnt < SpiLen /\ TX' = Append(TX, b) /\ txcnt' = txcnt + 1
         \/ UNCHANGED <<TX, txcnt>>
  BY DEF Transmit
<1>2. Wire(shift') = Wire(shift) /\ SpiLen' = SpiLen
  BY <1>1 DEF Wire, SpiLen
<1>3. AnsweredInv'
  BY <1>1 DEF AnsweredInv
<1>4. CASE UNCHANGED <<TX, txcnt>>
  <2>1. SentInv'
    BY <1>1, <1>4 DEF SentInv, SpiLen
  <2> QED
    BY <1>1, <1>3, <1>4, <2>1 DEF SpiTypeInv, QuietInv
<1>5. CASE txcnt < SpiLen /\ TX' = Append(TX, b) /\ txcnt' = txcnt + 1
  <2>1. TX \in Seq(Int) /\ txcnt \in Nat /\ wlen \in Nat /\ Len(heard) \in Nat /\ Wire(shift) \in Nat /\ SpiLen \in Nat
    BY SpiLenShape DEF SpiTypeInv, Wire
  <2>2. b = Byte(wlen, txcnt + 1) /\ b \in Int
    BY <2>1 DEF Byte, Padding
  <2> HIDE DEF b
  <2>3. /\ TX' \in Seq(Int) /\ Len(TX) \in Nat /\ Len(TX') = Len(TX) + 1 /\ TX'[Len(TX) + 1] = b
        /\ \A i \in 1 .. Len(TX) : TX'[i] = TX[i]
    BY <1>5, <2>1, <2>2, SeqAdd
  <2>4. txcnt = Len(heard) + Wire(shift) + Len(TX)
    BY DEF SentInv
  <2>5. \A k \in 1 .. Len(TX') : TX'[k] = Byte(wlen, Len(heard) + Wire(shift) + k)
    <3>1. \A k \in 1 .. Len(TX) : TX'[k] = Byte(wlen, Len(heard) + Wire(shift) + k)
      BY <2>3 DEF SentInv
    <3>2. Len(heard) + Wire(shift) + (Len(TX) + 1) = txcnt + 1
      BY <2>1, <2>3, <2>4
    <3>3. \A k \in 1 .. Len(TX') : k \in 1 .. Len(TX) \/ k = Len(TX) + 1
      BY <2>3
    <3>4. TX'[Len(TX) + 1] = Byte(wlen, Len(heard) + Wire(shift) + (Len(TX) + 1))
      BY <2>2, <2>3, <3>2
    <3> QED
      BY <3>1, <3>3, <3>4
  <2>6. \A k \in 1 .. Len(TX') : Len(heard) + Wire(shift) + k \in Nat
    BY <2>1, <2>3
  <2>7. \A k \in 1 .. Len(TX') : TX'[k] = Byte(wlen', Len(heard') + Wire(shift') + k)
    BY <1>1, <1>2, <2>5, <2>6
  <2>8. txcnt' <= SpiLen' /\ txcnt' = Len(heard') + Wire(shift') + Len(TX')
    <3>1. txcnt < SpiLen /\ txcnt' = txcnt + 1 /\ heard' = heard /\ SpiLen' = SpiLen /\ Wire(shift') = Wire(shift)
      BY <1>1, <1>2, <1>5
    <3> QED
      BY <2>1, <2>3, <2>4, <3>1
  <2>9. /\ \A i \in 1 .. Len(heard') : heard'[i] \in {Byte(wlen', i), Junk}
        /\ shift' # Nothing => shift' = Byte(wlen', Len(heard') + 1)
    BY <1>1, <1>2, <2>1 DEF SentInv
  <2>10. SentInv'
    BY <2>7, <2>8, <2>9 DEF SentInv
  <2> QED
    BY <1>1, <1>3, <1>5, <2>1, <2>3, <2>10 DEF SpiTypeInv, QuietInv
<1> QED
  BY <1>1, <1>4, <1>5

\* It reads one.
LEMMA ReceiveStep == ASSUME SpiInv, Receive PROVE SpiInv'
<1> USE DEF SpiInv
<1>1. /\ spc = "rx" /\ spc' = "test" /\ UNCHANGED <<TA, TX, shift, wlen, rlen, txcnt, heard>>
      /\ \/ /\ RX # << >> /\ RX' = Tail(RX) /\ rxcnt' = rxcnt + 1
            /\ buf_rx' = IF rxcnt < rlen THEN Append(buf_rx, Head(RX)) ELSE buf_rx
         \/ UNCHANGED <<buf_rx, RX, rxcnt>>
  BY DEF Receive
<1>2. SentInv'
  BY <1>1 DEF SentInv, SpiLen
<1>3. CASE UNCHANGED <<buf_rx, RX, rxcnt>>
  <2>1. AnsweredInv'
    BY <1>1, <1>3 DEF AnsweredInv
  <2> QED
    BY <1>1, <1>2, <1>3, <2>1 DEF SpiTypeInv, QuietInv
<1>4. CASE /\ RX # << >> /\ RX' = Tail(RX) /\ rxcnt' = rxcnt + 1
           /\ buf_rx' = IF rxcnt < rlen THEN Append(buf_rx, Head(RX)) ELSE buf_rx
  <2>1. RX \in Seq(Int) /\ buf_rx \in Seq(Int) /\ rxcnt \in Nat /\ rlen \in Nat /\ Len(heard) \in Nat
    BY DEF SpiTypeInv
  <2>2. /\ RX' \in Seq(Int) /\ Len(RX) \in Nat /\ Len(RX) > 0 /\ Len(RX') = Len(RX) - 1
        /\ Head(RX) = RX[1] /\ RX[1] \in Int
        /\ \A i \in 1 .. Len(RX') : RX'[i] = RX[i + 1]
    BY <1>4, <2>1, SeqTake
  <2>3. /\ Len(heard) = rxcnt + Len(RX)
        /\ RX[1] = IF heard[rxcnt + 1] = Junk THEN Junk ELSE rxcnt + 1
    BY <2>2 DEF AnsweredInv
  <2>a. UNCHANGED heard /\ rxcnt' = rxcnt + 1
    BY <1>1, <1>4
  <2>4. Len(heard') = rxcnt' + Len(RX')
    BY <2>a, <2>1, <2>2, <2>3
  <2>5. \A k \in 1 .. Len(RX') : RX'[k] = IF heard'[rxcnt' + k] = Junk THEN Junk ELSE rxcnt' + k
    <3>1. \A k \in 1 .. Len(RX') : /\ k + 1 \in 1 .. Len(RX)
                                   /\ RX[k + 1] = IF heard[rxcnt + (k + 1)] = Junk THEN Junk ELSE rxcnt + (k + 1)
      BY <2>2 DEF AnsweredInv
    <3>2. \A k \in 1 .. Len(RX') : rxcnt + (k + 1) = rxcnt' + k
      BY <1>4, <2>1
    <3> QED
      BY <1>1, <2>2, <3>1, <3>2
  <2>6. CASE rxcnt < rlen
    <3>1. Len(buf_rx) = rxcnt /\ buf_rx' = Append(buf_rx, RX[1])
      BY <1>4, <2>2, <2>6 DEF AnsweredInv
    <3>2. /\ buf_rx' \in Seq(Int) /\ Len(buf_rx') = rxcnt + 1 /\ buf_rx'[rxcnt + 1] = RX[1]
          /\ \A i \in 1 .. rxcnt : buf_rx'[i] = buf_rx[i]
      BY <2>1, <2>2, <3>1, SeqAdd
    <3>3. \A i \in 1 .. Len(buf_rx') : buf_rx'[i] = IF heard'[i] = Junk THEN Junk ELSE i
      <4>1. \A i \in 1 .. rxcnt : buf_rx'[i] = IF heard'[i] = Junk THEN Junk ELSE i
        BY <1>1, <3>1, <3>2 DEF AnsweredInv
      <4>2. buf_rx'[rxcnt + 1] = IF heard'[rxcnt + 1] = Junk THEN Junk ELSE rxcnt + 1
        BY <1>1, <2>3, <3>2
      <4>3. \A i \in 1 .. Len(buf_rx') : i \in 1 .. rxcnt \/ i = rxcnt + 1
        BY <2>1, <3>2
      <4> QED
        BY <4>1, <4>2, <4>3
    <3>4. Len(buf_rx') = IF rxcnt' < rlen' THEN rxcnt' ELSE rlen'
      BY <1>1, <1>4, <2>1, <2>6, <3>2
    <3>5. AnsweredInv'
      BY <2>4, <2>5, <3>3, <3>4 DEF AnsweredInv
    <3> QED
      BY <1>1, <1>2, <2>a, <2>1, <2>2, <3>2, <3>5 DEF SpiTypeInv, QuietInv
  <2>7. CASE ~(rxcnt < rlen)
    <3>1. buf_rx' = buf_rx /\ Len(buf_rx) = rlen
      BY <1>4, <2>7 DEF AnsweredInv
    <3>2. AnsweredInv'
      <4>1. Len(buf_rx') = (IF rxcnt' < rlen' THEN rxcnt' ELSE rlen')
        BY <1>1, <2>a, <2>1, <2>7, <3>1
      <4>2. \A i \in 1 .. Len(buf_rx') : buf_rx'[i] = IF heard'[i] = Junk THEN Junk ELSE i
        BY <2>a, <3>1 DEF AnsweredInv
      <4> QED
        BY <2>4, <2>5, <4>1, <4>2 DEF AnsweredInv
    <3> QED
      BY <1>1, <1>2, <2>a, <2>1, <2>2, <3>1, <3>2 DEF SpiTypeInv, QuietInv
  <2> QED
    BY <2>6, <2>7
<1> QED
  BY <1>1, <1>3, <1>4

\* Every step of the driver, of the controller and of the scripts keeps the invariant.
LEMMA SpiStep == SpiInv /\ [SpiNext]_spiVars => SpiInv'
<1> SUFFICES ASSUME SpiInv, [SpiNext]_spiVars PROVE SpiInv'
  OBVIOUS
<1> USE DEF SpiInv
<1>1. CASE SetActive
  <2>1. UNCHANGED <<TX, RX, shift, wlen, rlen, txcnt, rxcnt, buf_rx, heard>> /\ TA' = TRUE /\ spc' = "tx"
    BY <1>1 DEF SetActive
  <2>2. SentInv' /\ AnsweredInv'
    BY <2>1 DEF SentInv, AnsweredInv, SpiLen
  <2> QED
    BY <2>1, <2>2 DEF SpiTypeInv, QuietInv
<1>2. CASE TransferDone
  <2>1. /\ UNCHANGED <<TX, RX, shift, wlen, rlen, txcnt, rxcnt, buf_rx, heard>>
        /\ spc = "test" /\ spc' = (IF Complete THEN "script" ELSE "tx") /\ TA' = ~Complete
    BY <1>2 DEF TransferDone
  <2>2. SentInv' /\ AnsweredInv'
    BY <2>1 DEF SentInv, AnsweredInv, SpiLen
  <2>3. CASE Complete
    <3>1. TX = << >> /\ shift = Nothing /\ txcnt = SpiLen /\ rxcnt = SpiLen
      BY <2>3 DEF Complete, DONE
    <3>2. Len(heard) \in Nat /\ Len(RX) \in Nat /\ Len(TX) = 0 /\ SpiLen \in Nat /\ RX \in Seq(Int)
      BY <3>1, SpiLenShape, SeqNone DEF SpiTypeInv
    <3>3. Len(heard) = SpiLen /\ Len(RX) = 0
      BY <3>1, <3>2 DEF SentInv, AnsweredInv, Wire
    <3>4. RX = << >>
      BY <3>2, <3>3, SeqNone
    <3>5. SpiLen' = SpiLen
      BY <2>1 DEF SpiLen
    <3> QED
      BY <2>1, <2>2, <2>3, <3>1, <3>3, <3>4, <3>5 DEF SpiTypeInv, QuietInv
  <2>4. CASE ~Complete
    BY <2>1, <2>2, <2>4 DEF SpiTypeInv, QuietInv
  <2> QED
    BY <2>3, <2>4
<1>3. ASSUME NEW w \in Nat, NEW r \in Nat, spi_transfer(w, r) PROVE SpiInv'
  <2>1. /\ spc = "script" /\ wlen' = w /\ rlen' = r /\ txcnt' = 0 /\ rxcnt' = 0 /\ buf_rx' = << >>
        /\ TX' = << >> /\ RX' = << >> /\ spc' = "active" /\ heard' = << >> /\ UNCHANGED <<TA, shift>>
    BY <1>3 DEF spi_transfer, SpiIdle
  <2>2. shift = Nothing /\ TA = FALSE
    BY <2>1 DEF QuietInv, SpiTypeInv
  <2>3. SpiTypeInv'
    BY <2>1, SeqNone DEF SpiTypeInv
  <2>4. SpiLen' \in Nat /\ Wire(shift') = 0
    BY <2>1, <2>2 DEF SpiLen, Wire
  <2>5. \A n \in 1 .. Len(<< >>) : FALSE
    BY SeqNone
  <2>6. SentInv' /\ AnsweredInv'
    BY <2>1, <2>2, <2>4, <2>5, SeqNone DEF SentInv, AnsweredInv
  <2> QED
    BY <2>1, <2>2, <2>3, <2>6 DEF QuietInv
<1>4. CASE machine_spi_init \/ machine_spi_deinit
  <2>1. /\ UNCHANGED <<shift, spc, wlen, rlen, txcnt, rxcnt, buf_rx, heard>> /\ spc = "script"
        /\ TA' \in {TA, FALSE}
        /\ TX' \in {<< >>, TX} /\ RX' \in {<< >>, RX}
    BY <1>4 DEF machine_spi_init, machine_spi_deinit, SpiIdle, spiLocals
  <2>2. TX' = TX /\ RX' = RX
    BY <2>1 DEF QuietInv
  <2>3. SentInv' /\ AnsweredInv'
    BY <2>1, <2>2 DEF SentInv, AnsweredInv, SpiLen
  <2>4. SpiTypeInv'
    BY <2>1, <2>2 DEF SpiTypeInv
  <2>5. SpiLen' = SpiLen
    BY <2>1 DEF SpiLen
  <2>6. QuietInv'
    <3>1. TA' = FALSE
      BY <2>1 DEF QuietInv, SpiTypeInv
    <3> QED
      BY <2>1, <2>2, <2>5, <3>1 DEF QuietInv
  <2> QED
    BY <2>3, <2>4, <2>6
<1>5. CASE UNCHANGED spiVars
  <2>1. UNCHANGED <<TA, TX, RX, shift, spc, wlen, rlen, txcnt, rxcnt, buf_rx, heard>>
    BY <1>5 DEF spiVars, spiRegs, spiLocals
  <2> QED
    BY <2>1 DEF SpiTypeInv, QuietInv, SentInv, AnsweredInv, SpiLen
<1>6. CASE SpiScript
  BY <1>3, <1>4, <1>6, SpiAssumption
     DEF SpiScript, machine_spi_write, machine_spi_write_readinto, machine_spi_read
<1> QED
  BY <1>1, <1>2, <1>5, <1>6, ShiftOutStep, ShiftInStep, TransmitStep, ReceiveStep DEF SpiNext, SpiDriver

\* Before the first transfer the FIFOs and the shift register are empty.
LEMMA SpiBegin == SpiInit => SpiInv
<1> SUFFICES ASSUME SpiInit PROVE SpiInv
  OBVIOUS
<1>1. \A n \in 1 .. Len(<< >>) : FALSE
  BY SeqNone
<1>2. Wire(shift) = 0 /\ SpiLen = 0
  BY DEF SpiInit, Wire, SpiLen
<1>3. SpiTypeInv
  <2>1. TX \in Seq(Int) /\ RX \in Seq(Int) /\ buf_rx \in Seq(Int) /\ heard \in Seq(Int)
    BY SeqNone DEF SpiInit
  <2>2. TA \in BOOLEAN
    BY DEF SpiInit
  <2>3. /\ shift \in Int /\ spc \in {"script", "active", "tx", "rx", "test"}
        /\ wlen \in Nat /\ rlen \in Nat /\ txcnt \in Nat /\ rxcnt \in Nat
    BY DEF SpiInit, Nothing
  <2> QED
    BY <2>1, <2>2, <2>3 DEF SpiTypeInv
<1>4. /\ Len(heard) = 0 /\ Len(TX) = 0 /\ Len(RX) = 0 /\ Len(buf_rx) = 0
      /\ txcnt = 0 /\ rxcnt = 0 /\ rlen = 0 /\ shift = Nothing /\ TA = FALSE /\ TX = << >> /\ RX = << >>
  BY SeqNone DEF SpiInit
<1>5. QuietInv /\ SentInv /\ AnsweredInv
  BY <1>2, <1>4 DEF QuietInv, SentInv, AnsweredInv
<1> QED
  BY <1>3, <1>5 DEF SpiInv

\* The invariant gives the whole transfer.
LEMMA SpiInvWhole == SpiInv => TransferWhole
<1> SUFFICES ASSUME SpiInv, SpiIdle, \A i \in DOMAIN heard : heard[i] # Junk
             PROVE  heard = Sent /\ buf_rx = Answers
  BY DEF TransferWhole
<1>1. /\ heard \in Seq(Int) /\ buf_rx \in Seq(Int) /\ rxcnt \in Nat /\ rlen \in Nat /\ SpiLen \in Nat /\ rlen <= SpiLen
      /\ Len(heard) = SpiLen /\ Len(RX) = 0
  BY SpiLenShape, SeqNone DEF SpiInv, SpiTypeInv, QuietInv, SpiIdle
<1>2. rxcnt = SpiLen /\ Len(buf_rx) = rlen
  BY <1>1 DEF SpiInv, AnsweredInv
<1>3. /\ heard = [i \in 1 .. SpiLen |-> heard[i]] /\ DOMAIN heard = 1 .. SpiLen
      /\ buf_rx = [i \in 1 .. rlen |-> buf_rx[i]]
  BY <1>1, <1>2
<1>4. \A i \in 1 .. SpiLen : heard[i] = Byte(wlen, i)
  BY <1>1, <1>3 DEF SpiInv, SentInv
<1>5. \A i \in 1 .. rlen : buf_rx[i] = i
  <2>1. \A i \in 1 .. rlen : i \in 1 .. SpiLen
    BY <1>1
  <2> QED
    BY <1>1, <1>2, <1>3, <2>1 DEF SpiInv, AnsweredInv
<1> QED
  BY <1>3, <1>4, <1>5 DEF Sent, Answers, Byte

-----------------------------------------------------------------------------
(* The PWM's registers.                                                      *)

Registers == 0 .. Word - 1

RegInv == RNG \in [Ids -> Registers] /\ DAT \in [Ids -> Registers] /\ tick_hz \in [Ids -> Registers]

\* A quotient is no larger than what is divided, and is the largest that fits.
LEMMA Quotient ==
  ASSUME NEW x \in Nat, NEW y \in Nat, y > 0
  PROVE  x \div y \in Nat /\ x \div y <= x /\ y * (x \div y) <= x /\ x < y * ((x \div y) + 1)
OBVIOUS

\* Products of naturals are naturals.
LEMMA Times == ASSUME NEW x \in Nat, NEW y \in Nat PROVE x * y \in Nat
OBVIOUS

\* A product grows with its first factor.
LEMMA TimesMonotone == ASSUME NEW x \in Nat, NEW y \in Nat, NEW z \in Nat, x <= y PROVE x * z <= y * z
OBVIOUS

\* A product grows strictly with its first factor if the second is positive.
LEMMA TimesStrict == ASSUME NEW x \in Nat, NEW y \in Nat, NEW z \in Nat, z > 0, x < y PROVE x * z < y * z
OBVIOUS

\* A positive factor can be taken away from both sides of <=.
LEMMA TimesCancel == ASSUME NEW x \in Nat, NEW y \in Nat, NEW z \in Nat, x * z <= y * z, z > 0 PROVE x <= y
<1>1. ~(y < x)
  BY TimesStrict
<1> QED
  BY <1>1

\* A factor can be taken away from both sides of <.
LEMMA TimesCancelStrict == ASSUME NEW x \in Nat, NEW y \in Nat, NEW z \in Nat, x * z < y * z PROVE x < y
<1>1. ~(y <= x)
  <2>1. ASSUME y <= x PROVE y * z <= x * z
    BY <2>1, TimesMonotone
  <2>2. x * z \in Nat /\ y * z \in Nat
    BY Times
  <2> QED
    BY <2>1, <2>2
<1> QED
  BY <1>1

\* Every value a register is given is wrapped to its width.
LEMMA Remainder == ASSUME NEW x \in Nat PROVE x % Word \in Registers
BY PwmAssumption DEF Registers

\* What init_helper computes fits into the registers.
LEMMA InitFits ==
  ASSUME NEW a \in Asked
  PROVE  TickHz(a) \in Registers /\ Period(a) \in Registers /\ DutyTicks(a) \in Registers
<1>1. /\ a.tick_hz \in Registers /\ a.freq \in Registers /\ a.period \in Registers
      /\ a.duty_ticks \in Registers /\ a.duty_u16 \in Registers
      /\ DefaultHz \in Registers /\ DefaultPeriod \in Registers
      /\ Unit \in Nat /\ Unit > 0 /\ Word \in Nat
  BY PwmAssumption DEF Registers
<1>2. \A x, y \in Registers : y > 0 => x \div y \in Registers
  BY <1>1, Quotient DEF Registers
<1>3. \A x, y \in Registers : (x * y) % Word \in Registers
  <2>1. \A x, y \in Registers : x * y \in Nat
    BY <1>1, Times DEF Registers
  <2> QED
    BY <2>1, Remainder
<1>4. TickHz(a) \in Registers
  BY <1>1, <1>3 DEF TickHz
<1>5. Period(a) \in Registers
  BY <1>1, <1>2, <1>4 DEF Period
<1>6. ((TickHz(a) * a.duty_u16) % Word) \div Unit \in Registers
  <2>1. (TickHz(a) * a.duty_u16) % Word \in Registers
    BY <1>1, <1>3, <1>4
  <2> QED
    BY <1>1, <2>1, Quotient DEF Registers
<1>7. Period(a) \div 2 \in Registers
  BY <1>1, <1>5, Quotient DEF Registers
<1>8. DutyTicks(a) \in Registers
  BY <1>1, <1>6, <1>7 DEF DutyTicks
<1> QED
  BY <1>4, <1>5, <1>8

\* PWM.freq scales the duty down to what the ratio of the periods gives, but for
\* less than two ticks.
LEMMA ScaledKeepsDuty ==
  ASSUME NEW duty \in Registers, NEW old \in Registers, NEW new \in Registers, 0 < old, duty <= old
  PROVE  /\ Scaled(duty, old, new) \in Nat
         /\ Scaled(duty, old, new) * old <= duty * new
         /\ duty * new < (Scaled(duty, old, new) + 2) * old
<1> DEFINE q == (duty * Word) \div old
           r == (q * new) \div Word
<1>1. /\ Word \in Nat /\ Word > 0 /\ duty \in Nat /\ old \in Nat /\ new \in Nat /\ new < Word
  BY PwmAssumption DEF Registers
<1>2. /\ duty * Word \in Nat /\ q \in Nat /\ old * q <= duty * Word /\ duty * Word < old * (q + 1)
  <2>1. duty * Word \in Nat
    BY <1>1, Times
  <2> QED
    BY <1>1, <2>1, Quotient
<1>3. /\ q * new \in Nat /\ r \in Nat /\ Word * r <= q * new /\ q * new < Word * (r + 1)
  <2>1. q * new \in Nat
    BY <1>1, <1>2, Times
  <2> QED
    BY <1>1, <2>1, Quotient
<1>a. Scaled(duty, old, new) = r % Word
  BY DEF Scaled
<1> HIDE DEF q, r
<1>4. q <= Word
  <2>1. duty * Word <= old * Word
    BY <1>1, TimesMonotone
  <2>2. q * old <= Word * old
    BY <1>1, <1>2, <2>1
  <2> QED
    BY <1>1, <1>2, <2>2, TimesCancel
<1>5. r < Word
  <2>1. q * new <= Word * new
    BY <1>1, <1>2, <1>4, TimesMonotone
  <2>2. r * Word <= new * Word
    BY <1>1, <1>2, <1>3, <2>1
  <2> QED
    BY <1>1, <1>3, <2>2, TimesCancel
<1>6. Scaled(duty, old, new) = r
  BY <1>1, <1>3, <1>5, <1>a
<1>7. r * old <= duty * new
  <2>1. (Word * r) * old <= (q * new) * old
    BY <1>1, <1>2, <1>3, Times, TimesMonotone
  <2>2. (old * q) * new <= (duty * Word) * new
    BY <1>1, <1>2, <1>3, Times, TimesMonotone
  <2>3. (r * old) * Word <= (duty * new) * Word
    BY <1>1, <1>2, <1>3, <2>1, <2>2
  <2>4. r * old \in Nat /\ duty * new \in Nat
    BY <1>1, <1>3, Times
  <2> QED
    BY <1>1, <2>3, <2>4, TimesCancel
<1>8. duty * new < (r + 2) * old
  <2>1. CASE new = 0
    <3>1. (r + 2) * old > 0
      BY <1>1, <1>3
    <3> QED
      BY <1>1, <2>1, <3>1
  <2>2. CASE new > 0
    <3>1. (duty * Word) * new < (old * (q + 1)) * new
      <4>1. old * (q + 1) \in Nat
        BY <1>1, <1>2, Times
      <4> QED
        BY <1>1, <1>2, <2>2, <4>1, TimesStrict
    <3>2. (q * new) * old < (Word * (r + 1)) * old
      <4>1. Word * (r + 1) \in Nat
        BY <1>1, <1>3, Times
      <4> QED
        BY <1>1, <1>3, <4>1, TimesStrict
    <3>3. new * old <= Word * old
      BY <1>1, TimesMonotone
    <3>4. (old * (q + 1)) * new = (q * new) * old + new * old
      BY <1>1, <1>2
    <3>5. (Word * (r + 1)) * old + Word * old = ((r + 2) * old) * Word
      BY <1>1, <1>3
    <3>6. (duty * Word) * new = (duty * new) * Word
      BY <1>1
    <3>7. /\ (q * new) * old \in Nat /\ new * old \in Nat /\ Word * old \in Nat /\ (Word * (r + 1)) * old \in Nat
      BY <1>1, <1>2, <1>3, Times
    <3>8. (duty * new) * Word < ((r + 2) * old) * Word
      <4>1. (duty * Word) * new < (q * new) * old + new * old
        BY <3>1, <3>4
      <4>2. (q * new) * old + new * old < (Word * (r + 1)) * old + Word * old
        BY <3>2, <3>3, <3>7
      <4>3. (duty * Word) * new \in Nat
        BY <1>1, <1>2, Times
      <4> QED
        BY <3>5, <3>6, <3>7, <4>1, <4>2, <4>3
    <3>9. duty * new \in Nat /\ (r + 2) * old \in Nat
      BY <1>1, <1>3, Times
    <3> QED
      BY <1>1, <3>8, <3>9, TimesCancelStrict
  <2> QED
    BY <1>1, <2>1, <2>2
<1> QED
  BY <1>3, <1>6, <1>7, <1>8

\* The period that PWM.freq sets fits too.
LEMMA FreqPeriod ==
  ASSUME RegInv, NEW id \in Ids, NEW f \in Values
  PROVE  tick_hz[id] \div f \in Registers
<1>1. f \in Nat /\ f > 0 /\ tick_hz[id] \in Nat /\ tick_hz[id] < Word /\ Word \in Nat
  BY PwmAssumption DEF RegInv, Registers
<1> QED
  BY <1>1, Quotient DEF Registers

\* At power-up both channels have the values of a register.
LEMMA RegBegin == PwmInit => RegInv
<1>1. 0 \in Registers
  BY PwmAssumption DEF Registers
<1> QED
  BY <1>1 DEF PwmInit, RegInv

\* What PWM.freq does to the duty of a channel.
LEMMA FreqStep ==
  ASSUME RegInv, NEW id \in Ids, NEW f \in Values, machine_pwm_freq(id, f), 0 < RNG[id], DAT[id] <= RNG[id]
  PROVE  /\ DAT'[id] * RNG[id] <= DAT[id] * RNG'[id]
         /\ DAT[id] * RNG'[id] < (DAT'[id] + 2) * RNG[id]
<1> DEFINE period == tick_hz[id] \div f
<1>1. period \in Registers /\ DAT[id] \in Registers /\ RNG[id] \in Registers
  BY FreqPeriod DEF RegInv
<1>2. /\ RNG' = Set(RNG, id, period)
      /\ \E d \in IF RNG[id] = 0 THEN {0, Word - 1} ELSE {Scaled(DAT[id], RNG[id], period)} : DAT' = Set(DAT, id, d)
  BY Zenon DEF machine_pwm_freq
<1> HIDE DEF period
<1>3. RNG'[id] = period /\ DAT'[id] = Scaled(DAT[id], RNG[id], period)
  <2>1. RNG[id] # 0
    BY <1>1 DEF Registers
  <2>2. DAT' = Set(DAT, id, Scaled(DAT[id], RNG[id], period))
    BY <1>2, <2>1
  <2> QED
    BY <1>2, <2>2 DEF Set, RegInv
<1> QED
  BY <1>1, <1>3, ScaledKeepsDuty

-----------------------------------------------------------------------------
(* The PWM's FIFO.                                                           *)

Writes ==
  [at : {"turn", "EBUSY", "done"}, two : BOOLEAN, max : [1 .. 2 -> Nat], timeout : Nat,
   elapsed : Nat, pos : Nat, buf : 1 .. 2, val : [1 .. 2 -> Nat]]

\* What buffer b has put into the FIFO when it holds n words of the two in turn, or
\* of the one.
Taken(two, b, n) == IF ~two THEN n ELSE IF b = 1 THEN (n + 1) \div 2 ELSE n \div 2

\* The word before the last that is still to come from the same buffer.
Before(two, q, i) == IF ~two \/ i <= 2 THEN 0 ELSE q[i - 2][2]

InPlace(q, i, two, max) ==
  LET b == IF two /\ i % 2 = 0 THEN 2 ELSE 1
  IN /\ q[i][1] = b /\ q[i][2] <= max[b]
     /\ q[i][2] = Taken(two, b, i) \/ (two /\ q[i][2] = Before(two, q, i))

\* A buffer whose end pos has not passed has all its words so far in the FIFO; one
\* that is at its end is at the word it put there last.
WriteInv(w, q) ==
  /\ Len(q) <= w.pos
  /\ \A i \in 1 .. Len(q) : InPlace(q, i, w.two, w.max)
  /\ \A b \in 1 .. 2 : w.val[b] <= w.max[b]
  /\ \A b \in 1 .. 2 : (w.two \/ b = 1) /\ w.pos <= w.max[b] => w.val[b] = Taken(w.two, b, Len(q))
  /\ ~w.two => w.buf = 1 /\ w.max[2] = 0
  /\ w.two => /\ w.buf = IF Len(q) % 2 = 0 THEN 1 ELSE 2
              /\ w.val[w.buf] = Before(w.two, q, Len(q) + 1)
              /\ w.val[3 - w.buf] = Before(w.two, q, Len(q) + 2)

FifoInv ==
  /\ queued \in Seq(Int \X Int)
  /\ wr.at = "none" => queued = << >>
  /\ wr.at # "none" => wr \in Writes /\ WriteInv(wr, queued)

\* A word more is one more of the buffer whose turn it is, and none of the other.
LEMMA TakenNext ==
  ASSUME NEW n \in Nat, NEW two \in BOOLEAN, NEW b \in 1 .. 2,
         b = IF two THEN IF n % 2 = 0 THEN 1 ELSE 2 ELSE 1
  PROVE  /\ Taken(two, b, n + 1) = Taken(two, b, n) + 1 /\ Taken(two, b, n) \in Nat /\ Taken(two, b, n) <= n
         /\ two => Taken(two, 3 - b, n + 1) = Taken(two, 3 - b, n) /\ 3 - b \in 1 .. 2 /\ 3 - b # b
         /\ two => 3 - b = IF (n + 1) % 2 = 0 THEN 1 ELSE 2
         /\ b = IF two /\ (n + 1) % 2 = 0 THEN 2 ELSE 1
<1>1. CASE ~two
  BY <1>1 DEF Taken
<1>2. CASE two /\ n % 2 = 0
  BY <1>2 DEF Taken
<1>3. CASE two /\ n % 2 # 0
  BY <1>3 DEF Taken
<1> QED
  BY <1>1, <1>2, <1>3

\* What fifo_write's locals are after one of its steps.
LEMMA WritesAt ==
  ASSUME NEW w \in Writes, NEW a \in {"turn", "EBUSY", "done"}, NEW v, v = [w EXCEPT !.at = a]
  PROVE  /\ v \in Writes /\ v.at = a /\ v.two = w.two /\ v.max = w.max /\ v.pos = w.pos /\ v.buf = w.buf
         /\ v.val = w.val
BY DEF Writes

\* A fifo_write that waited is the same but for the time it counted.
LEMMA WritesElapsed ==
  ASSUME NEW w \in Writes, NEW v, v = [w EXCEPT !.elapsed = @ + 1]
  PROVE  /\ v \in Writes /\ v.two = w.two /\ v.max = w.max /\ v.pos = w.pos /\ v.buf = w.buf /\ v.val = w.val
         /\ v.at # "none"
BY DEF Writes

\* A fifo_write that fetches a word of a buffer is the same but for that word's
\* number.
LEMMA WritesFetch ==
  ASSUME NEW w \in Writes, NEW b \in 1 .. 2, NEW n \in Nat, NEW v, v = [w EXCEPT !.val[b] = n]
  PROVE  /\ v \in Writes /\ v.two = w.two /\ v.max = w.max /\ v.pos = w.pos /\ v.buf = w.buf
         /\ v.val[b] = n /\ \A c \in 1 .. 2 : c # b => v.val[c] = w.val[c]
BY DEF Writes

\* The fields of a fifo_write under way.
LEMMA WritesShape ==
  ASSUME NEW w \in Writes
  PROVE  /\ w.at \in {"turn", "EBUSY", "done"} /\ w.two \in BOOLEAN /\ w.buf \in 1 .. 2 /\ w.pos \in Nat
         /\ \A b \in 1 .. 2 : w.max[b] \in Nat /\ w.val[b] \in Nat
BY DEF Writes

\* One turn of fifo_write's loop: which words it moves on to, and in which
\* buffer.
LEMMA TurnFields ==
  ASSUME wr \in Writes, Turn
  PROVE  /\ wr' \in Writes /\ wr'.two = wr.two /\ wr'.max = wr.max /\ wr'.pos = wr.pos + 1
         /\ wr'.buf = IF wr.two /\ pwm_fifo_available THEN 3 - wr.buf ELSE wr.buf
         /\ wr'.val[wr.buf] = IF pwm_fifo_available /\ wr.pos < wr.max[wr.buf]
                              THEN wr.val[wr.buf] + 1 ELSE wr.val[wr.buf]
         /\ \A c \in 1 .. 2 : c # wr.buf => wr'.val[c] = wr.val[c]
         /\ queued' = IF pwm_fifo_available THEN Append(queued, <<wr.buf, wr'.val[wr.buf]>>) ELSE queued
<1> DEFINE b == wr.buf
           to == IF wr.two /\ pwm_fifo_available THEN 3 - b ELSE b
           w == [Fetch(b) EXCEPT !.buf = to, !.pos = @ + 1]
<1>1. b \in 1 .. 2 /\ to \in 1 .. 2
  BY WritesShape
<1>2. /\ wr' = IF Late THEN [w EXCEPT !.at = "EBUSY"] ELSE w
      /\ queued' = IF pwm_fifo_available THEN Append(queued, <<b, w.val[b]>>) ELSE queued
  BY Zenon DEF Turn
<1>3. /\ Fetch(b) \in Writes /\ Fetch(b).two = wr.two /\ Fetch(b).max = wr.max /\ Fetch(b).pos = wr.pos
      /\ Fetch(b).val[b] = IF pwm_fifo_available /\ wr.pos < wr.max[b] THEN wr.val[b] + 1 ELSE wr.val[b]
      /\ \A c \in 1 .. 2 : c # b => Fetch(b).val[c] = wr.val[c]
  <2>1. CASE pwm_fifo_available /\ wr.pos < wr.max[b]
    <3> DEFINE n == wr.val[b] + 1
    <3>1. Fetch(b) = [wr EXCEPT !.val[b] = n]
      BY <2>1 DEF Fetch
    <3>a. n \in Nat /\ b \in 1 .. 2
      BY WritesShape
    <3> HIDE DEF b, n
    <3>2. /\ Fetch(b) \in Writes /\ Fetch(b).two = wr.two /\ Fetch(b).max = wr.max /\ Fetch(b).pos = wr.pos
          /\ Fetch(b).val[b] = n /\ \A c \in 1 .. 2 : c # b => Fetch(b).val[c] = wr.val[c]
      BY <3>a, <3>1, WritesFetch
    <3> QED
      BY <2>1, <3>2 DEF n
  <2>2. CASE ~(pwm_fifo_available /\ wr.pos < wr.max[b])
    BY <2>2 DEF Fetch
  <2> QED
    BY <2>1, <2>2
<1>4. /\ w \in Writes /\ w.two = wr.two /\ w.max = wr.max /\ w.pos = wr.pos + 1 /\ w.buf = to
      /\ w.val = Fetch(b).val
  <2> HIDE DEF b, to
  <2> DEFINE n == Fetch(b).pos + 1
  <2>1. w = [Fetch(b) EXCEPT !.buf = to, !.pos = n]
    OBVIOUS
  <2>2. Fetch(b) \in Writes /\ to \in 1 .. 2 /\ n \in Nat
    BY <1>1, <1>3, WritesShape
  <2> DEFINE f == Fetch(b)
  <2> HIDE DEF w, b, to, n, f
  <2>a. w = [f EXCEPT !.buf = to, !.pos = n] /\ f \in Writes /\ to \in 1 .. 2 /\ n \in Nat
    BY <2>1, <2>2 DEF f
  <2>b. w \in Writes /\ w.two = f.two /\ w.max = f.max /\ w.pos = n /\ w.buf = to /\ w.val = f.val
    BY <2>a DEF Writes
  <2>3. /\ w \in Writes /\ w.two = Fetch(b).two /\ w.max = Fetch(b).max /\ w.pos = n /\ w.buf = to
        /\ w.val = Fetch(b).val
    BY <2>b DEF f
  <2> QED
    BY <1>3, <2>3 DEF n
<1> HIDE DEF w
<1>5. /\ wr' \in Writes /\ wr'.two = w.two /\ wr'.max = w.max /\ wr'.pos = w.pos /\ wr'.buf = w.buf /\ wr'.val = w.val
  <2>1. CASE Late
    BY <1>2, <1>4, <2>1, WritesAt
  <2>2. CASE ~Late
    BY <1>2, <1>4, <2>2
  <2> QED
    BY <2>1, <2>2
<1> QED
  BY <1>2, <1>3, <1>4, <1>5

\* What was in its place stays there when a word is added.
LEMMA InPlaceStays ==
  ASSUME NEW q \in Seq(Int \X Int), NEW t, NEW x, t = Append(q, x), x \in Int \X Int
  PROVE  /\ t \in Seq(Int \X Int) /\ Len(q) \in Nat /\ Len(t) = Len(q) + 1 /\ t[Len(q) + 1] = x
         /\ \A i \in 1 .. Len(q) : t[i] = q[i]
         /\ \A two : \A i \in 1 .. Len(q) + 2 : Before(two, t, i) = Before(two, q, i)
         /\ \A two, max : \A i \in 1 .. Len(q) : InPlace(q, i, two, max) => InPlace(t, i, two, max)
<1>1. /\ t \in Seq(Int \X Int) /\ Len(q) \in Nat /\ Len(t) = Len(q) + 1 /\ t[Len(q) + 1] = x
      /\ \A i \in 1 .. Len(q) : t[i] = q[i]
  BY AppendProperties
<1>2. \A two : \A i \in 1 .. Len(q) + 2 : Before(two, t, i) = Before(two, q, i)
  <2>1. \A i \in 1 .. Len(q) + 2 : i <= 2 \/ i - 2 \in 1 .. Len(q)
    BY <1>1
  <2> QED
    BY <1>1, <2>1 DEF Before
<1>3. \A i \in 1 .. Len(q) : i \in 1 .. Len(q) + 2
  BY <1>1
<1>4. \A two, max : \A i \in 1 .. Len(q) : InPlace(q, i, two, max) => InPlace(t, i, two, max)
  BY <1>1, <1>2, <1>3 DEF InPlace
<1> QED
  BY <1>1, <1>2, <1>4

\* A turn of fifo_write keeps the words in order.
LEMMA TurnStep ==
  ASSUME FifoInv, Turn
  PROVE  FifoInv'
<1> DEFINE n == Len(queued)
           b == wr.buf
           v == wr'.val[b]
<1>1. wr \in Writes /\ WriteInv(wr, queued) /\ queued \in Seq(Int \X Int) /\ n \in Nat
  <2>1. wr.at = "turn"
    BY Zenon DEF Turn
  <2> QED
    BY <2>1 DEF FifoInv
<1>2. /\ wr' \in Writes /\ wr'.two = wr.two /\ wr'.max = wr.max /\ wr'.pos = wr.pos + 1
      /\ wr'.buf = IF wr.two /\ pwm_fifo_available THEN 3 - b ELSE b
      /\ v = IF pwm_fifo_available /\ wr.pos < wr.max[b] THEN wr.val[b] + 1 ELSE wr.val[b]
      /\ \A c \in 1 .. 2 : c # b => wr'.val[c] = wr.val[c]
      /\ queued' = IF pwm_fifo_available THEN Append(queued, <<b, v>>) ELSE queued
  BY <1>1, TurnFields
<1>3. /\ b \in 1 .. 2 /\ wr.two \in BOOLEAN /\ wr.pos \in Nat /\ v \in Nat
      /\ \A c \in 1 .. 2 : wr.max[c] \in Nat /\ wr.val[c] \in Nat /\ wr'.val[c] \in Nat
      /\ wr'.at # "none"
  BY <1>1, <1>2, WritesShape
<1>4. /\ n <= wr.pos
      /\ \A i \in 1 .. n : InPlace(queued, i, wr.two, wr.max)
      /\ \A c \in 1 .. 2 : wr.val[c] <= wr.max[c]
      /\ \A c \in 1 .. 2 : (wr.two \/ c = 1) /\ wr.pos <= wr.max[c] => wr.val[c] = Taken(wr.two, c, n)
      /\ ~wr.two => b = 1 /\ wr.max[2] = 0
      /\ wr.two => /\ b = IF n % 2 = 0 THEN 1 ELSE 2
                   /\ wr.val[b] = Before(wr.two, queued, n + 1)
                   /\ wr.val[3 - b] = Before(wr.two, queued, n + 2)
  BY <1>1 DEF WriteInv
<1> HIDE DEF v, b, n
<1>5. /\ Taken(wr.two, b, n + 1) = Taken(wr.two, b, n) + 1 /\ Taken(wr.two, b, n) \in Nat /\ Taken(wr.two, b, n) <= n
      /\ wr.two => Taken(wr.two, 3 - b, n + 1) = Taken(wr.two, 3 - b, n) /\ 3 - b \in 1 .. 2 /\ 3 - b # b
      /\ wr.two => 3 - b = IF (n + 1) % 2 = 0 THEN 1 ELSE 2
      /\ b = IF wr.two /\ (n + 1) % 2 = 0 THEN 2 ELSE 1
  <2>1. b = IF wr.two THEN IF n % 2 = 0 THEN 1 ELSE 2 ELSE 1
    BY <1>4
  <2>2. n \in Nat /\ wr.two \in BOOLEAN /\ b \in 1 .. 2
    BY <1>1, <1>3
  <2> QED
    BY <2>1, <2>2, TakenNext
<1>6. v <= wr.max[b]
  <2>1. CASE wr.pos < wr.max[b]
    <3>1. wr.two \/ b = 1
      BY <1>4
    <3>2. wr.val[b] = Taken(wr.two, b, n) /\ wr.max[b] \in Nat
      BY <1>3, <1>4, <2>1, <3>1
    <3>3. v = wr.val[b] \/ v = wr.val[b] + 1
      BY <1>2
    <3> QED
      BY <1>1, <1>3, <1>4, <1>5, <2>1, <3>2, <3>3
  <2>2. CASE ~(wr.pos < wr.max[b])
    BY <1>2, <1>3, <1>4, <2>2
  <2> QED
    BY <2>1, <2>2
<1>7. CASE ~pwm_fifo_available
  <2>1. queued' = queued /\ wr'.buf = b /\ v = wr.val[b] /\ \A c \in 1 .. 2 : wr'.val[c] = wr.val[c]
    BY <1>2, <1>7 DEF v
  <2>2. WriteInv(wr', queued')
    <3>1. Len(queued') = n /\ n <= wr'.pos
      BY <1>1, <1>2, <1>3, <1>4, <2>1 DEF n
    <3>2. \A c \in 1 .. 2 : (wr.two \/ c = 1) /\ wr'.pos <= wr.max[c] => wr.val[c] = Taken(wr.two, c, n)
      <4>1. \A c \in 1 .. 2 : wr'.pos <= wr.max[c] => wr.pos <= wr.max[c]
        BY <1>2, <1>3
      <4> QED
        BY <1>4, <4>1
    <3>3. wr.two => 3 - b \in 1 .. 2 /\ b \in 1 .. 2
      BY <1>3
    <3> QED
      BY <1>2, <1>4, <2>1, <3>1, <3>2, <3>3 DEF WriteInv
  <2> QED
    BY <1>1, <1>2, <1>3, <2>1, <2>2 DEF FifoInv
<1>8. CASE pwm_fifo_available
  <2>1. queued' = Append(queued, <<b, v>>) /\ <<b, v>> \in Int \X Int /\ <<b, v>>[1] = b /\ <<b, v>>[2] = v
    BY <1>2, <1>3, <1>8
  <2>2. /\ queued' \in Seq(Int \X Int) /\ Len(queued') = n + 1 /\ queued'[n + 1][1] = b /\ queued'[n + 1][2] = v
        /\ \A i \in 1 .. n + 2 : Before(wr.two, queued', i) = Before(wr.two, queued, i)
        /\ \A i \in 1 .. n : InPlace(queued, i, wr.two, wr.max) => InPlace(queued', i, wr.two, wr.max)
    <3> DEFINE x == <<b, v>>
    <3>1. queued' = Append(queued, x) /\ x \in Int \X Int
      BY <2>1
    <3>2. x[1] = b /\ x[2] = v
      BY <2>1
    <3> HIDE DEF x
    <3> QED
      <4>1. queued \in Seq(Int \X Int)
        BY <1>1
      <4>2. queued' \in Seq(Int \X Int) /\ Len(queued') = Len(queued) + 1 /\ queued'[Len(queued) + 1] = x
        BY <3>1, <4>1, AppendProperties
      <4>3. \A two : \A i \in 1 .. Len(queued) + 2 : Before(two, queued', i) = Before(two, queued, i)
        BY <3>1, <4>1, InPlaceStays
      <4>4. \A i \in 1 .. Len(queued) : InPlace(queued, i, wr.two, wr.max) => InPlace(queued', i, wr.two, wr.max)
        BY <3>1, <4>1, InPlaceStays
      <4> QED
        BY <3>2, <4>2, <4>3, <4>4 DEF n
  <2>3. /\ v = Taken(wr.two, b, n + 1) \/ (wr.two /\ v = Before(wr.two, queued, n + 1))
        /\ wr.pos < wr.max[b] => v = Taken(wr.two, b, n + 1)
    <3>1. CASE wr.pos < wr.max[b]
      BY <1>2, <1>3, <1>4, <1>5, <1>8, <3>1
    <3>2. CASE ~(wr.pos < wr.max[b])
      <4>1. \E k \in 1 .. 2 : wr.pos < wr.max[k]
        BY Zenon DEF Turn
      <4>2. wr.two
        BY <1>3, <1>4, <3>2, <4>1
      <4> QED
        BY <1>2, <1>4, <3>2, <4>2
    <3> QED
      BY <3>1, <3>2
  <2>4. InPlace(queued', n + 1, wr.two, wr.max)
    <3>1. n + 1 \in 1 .. n + 2
      BY <1>1
    <3> QED
      BY <1>5, <1>6, <2>2, <2>3, <3>1 DEF InPlace
  <2>5. \A i \in 1 .. Len(queued') : InPlace(queued', i, wr'.two, wr'.max)
    <3>1. \A i \in 1 .. n + 1 : i \in 1 .. n \/ i = n + 1
      BY <1>1
    <3> QED
      BY <1>2, <1>4, <2>2, <2>4, <3>1
  <2>6. \A c \in 1 .. 2 : wr'.val[c] <= wr'.max[c]
    BY <1>2, <1>4, <1>6 DEF v
  <2>7. ASSUME NEW c \in 1 .. 2, wr'.two \/ c = 1, wr'.pos <= wr'.max[c]
        PROVE  wr'.val[c] = Taken(wr'.two, c, Len(queued'))
    <3>1. wr.pos < wr.max[c] /\ wr.pos <= wr.max[c]
      BY <1>2, <1>3, <2>7
    <3>2. CASE c = b
      BY <1>2, <2>2, <2>3, <3>1, <3>2 DEF v
    <3>3. CASE c # b
      <4>1. wr.two /\ c = 3 - b
        BY <1>2, <1>3, <1>4, <2>7, <3>3
      <4> QED
        BY <1>2, <1>4, <1>5, <2>2, <3>1, <3>3, <4>1
    <3> QED
      BY <3>2, <3>3
  <2>8. ~wr'.two => wr'.buf = 1 /\ wr'.max[2] = 0
    BY <1>2, <1>4
  <2>9. ASSUME wr'.two
        PROVE  /\ wr'.buf = IF Len(queued') % 2 = 0 THEN 1 ELSE 2
               /\ wr'.val[wr'.buf] = Before(wr'.two, queued', Len(queued') + 1)
               /\ wr'.val[3 - wr'.buf] = Before(wr'.two, queued', Len(queued') + 2)
    <3>1. wr.two /\ wr'.buf = 3 - b /\ 3 - (3 - b) = b /\ wr'.two = wr.two
      BY <1>2, <1>3, <1>8, <2>9
    <3>2. wr'.buf = IF Len(queued') % 2 = 0 THEN 1 ELSE 2
      BY <1>5, <2>2, <3>1
    <3>3. wr'.val[3 - b] = Before(wr.two, queued', n + 2)
      <4>1. n + 2 \in 1 .. n + 2
        BY <1>1
      <4> QED
        BY <1>2, <1>4, <1>5, <2>2, <3>1, <4>1
    <3>4. wr'.val[b] = Before(wr.two, queued', n + 3)
      <4>1. ~(n + 3 <= 2) /\ n + 3 - 2 = n + 1
        BY <1>1
      <4> QED
        <5>1. Before(wr.two, queued', n + 3) = queued'[n + 3 - 2][2]
          BY <1>1, <3>1, <4>1 DEF Before
        <5> QED
          BY <2>2, <4>1, <5>1 DEF v
    <3>5. (n + 1) + 1 = n + 2 /\ (n + 1) + 2 = n + 3
      BY <1>1
    <3> QED
      BY <2>2, <3>1, <3>2, <3>3, <3>4, <3>5
  <2>10. Len(queued') <= wr'.pos
    BY <1>1, <1>2, <1>3, <1>4, <2>2
  <2>11. WriteInv(wr', queued')
    BY <2>5, <2>6, <2>7, <2>8, <2>9, <2>10 DEF WriteInv
  <2> QED
    BY <1>2, <1>3, <2>2, <2>11 DEF FifoInv
<1> QED
  BY <1>7, <1>8

\* Before the first fifo_write nothing is queued.
LEMMA FifoBegin == PwmInit => FifoInv
BY EmptySeq DEF PwmInit, FifoInv

\* The invariant says that everything queued is in order.
LEMMA FifoInvOrder == FifoInv => InOrder
<1> SUFFICES ASSUME FifoInv, NEW i \in DOMAIN queued
             PROVE  LET two == wr.two
                        b   == IF two /\ i % 2 = 0 THEN 2 ELSE 1
                        n   == IF two THEN (i + 1) \div 2 ELSE i
                        old == IF ~two \/ i <= 2 THEN 0 ELSE queued[i - 2][2]
                    IN /\ queued[i][1] = b /\ queued[i][2] <= wr.max[b]
                       /\ queued[i][2] = n \/ (two /\ queued[i][2] = old)
  BY Zenon DEF InOrder
<1>1. queued \in Seq(Int \X Int) /\ DOMAIN queued = 1 .. Len(queued) /\ Len(queued) \in Nat /\ i \in 1 .. Len(queued)
  BY DEF FifoInv
<1>2. wr.at # "none"
  <2>1. queued # << >>
    BY <1>1, EmptySeq
  <2> QED
    BY <2>1 DEF FifoInv
<1>3. InPlace(queued, i, wr.two, wr.max) /\ wr.two \in BOOLEAN
  BY <1>1, <1>2, WritesShape DEF FifoInv, WriteInv
<1>4. CASE ~wr.two
  BY <1>3, <1>4 DEF InPlace, Taken, Before
<1>5. CASE wr.two /\ i % 2 = 0
  <2>1. i \in Nat /\ i % 2 = 0
    BY <1>1, <1>5
  <2>2. (i + 1) \div 2 = i \div 2
    BY <2>1
  <2> QED
    BY <1>3, <1>5, <2>2 DEF InPlace, Taken, Before
<1>6. CASE wr.two /\ i % 2 # 0
  BY <1>3, <1>6 DEF InPlace, Taken, Before
<1> QED
  BY <1>3, <1>4, <1>5, <1>6

-----------------------------------------------------------------------------
(* The pins.                                                                 *)

PinInits ==
  [at : {"value", "mode", "pull"}, pin : Pins, value : {0, 1, Keep},
   mode : Functions \cup {""}, pull : Pulls \cup {""}]

\* Only the job "pin" is ever inside Pin.init, and when it comes to the function of
\* its pin the latch has the value that was asked for.
GpioInv ==
  /\ GPSET \in [Pins -> {0, 1}]
  /\ pin_init = NoInit \/ pin_init \in PinInits
  /\ pin_init # NoInit => job = "pin"
  /\ pin_init.at = "mode" /\ pin_init.value # Keep => GPSET[pin_init.pin] = pin_init.value

\* What the other jobs do with the pins.
OtherPinUse ==
  /\ PinIdle /\ UNCHANGED pin_init
  /\ GPSET' \in [Pins -> {0, 1}]

\* The record that stands for no init is none of the inits.
LEMMA PinShape ==
  /\ NoInit.at = "none" /\ NoInit \notin PinInits
  /\ \A c \in PinInits : c.at \in {"value", "mode", "pull"} /\ c.pin \in Pins /\ c.value \in {0, 1, Keep} /\ c # NoInit
<1>1. NoInit.at = "none"
  BY DEF NoInit
<1>2. \A c \in PinInits : c.at \in {"value", "mode", "pull"} /\ c.pin \in Pins /\ c.value \in {0, 1, Keep}
  BY DEF PinInits
<1> QED
  BY <1>1, <1>2

\* Pin.init goes from one argument to the next.
LEMMA NextArgument ==
  ASSUME pin_init \in PinInits, NextArg
  PROVE  /\ pin_init.at = "value" => pin_init' = [pin_init EXCEPT !.at = "mode"]
         /\ pin_init.at = "mode" => pin_init' = [pin_init EXCEPT !.at = "pull"]
         /\ pin_init.at = "pull" => pin_init' = NoInit
<1>1. InitOrder[1] = "value" /\ InitOrder[2] = "mode" /\ InitOrder[3] = "pull" /\ InitOrder[4] = "none"
  BY DEF InitOrder
<1>2. \A n \in 1 .. 3 : pin_init.at = InitOrder[n] => (CHOOSE i \in 1 .. 3 : InitOrder[i] = pin_init.at) = n
  BY <1>1
<1>3. \A n \in 1 .. 3 : pin_init.at = InitOrder[n] =>
        pin_init' = IF InitOrder[n + 1] = "none" THEN NoInit ELSE [pin_init EXCEPT !.at = InitOrder[n + 1]]
  BY <1>2 DEF NextArg
<1> QED
  BY <1>1, <1>3

\* Every job but "pin" leaves Pin.init alone, and keeps the latches.
LEMMA PinsOnBoard ==
  ASSUME GpioInv, [Next]_boardVars
  PROVE  PinScript \/ (UNCHANGED <<gpioVars, job>>) \/ (OtherPinUse /\ UNCHANGED job)
<1> USE DEF OtherPinUse, GpioInv, gpioVars
<1>1. CASE PinScript
  BY <1>1
<1>2. CASE MailDriver \/ Gpu \/ GpuTalks \/ GpuScript \/ ClockManager \/ ClockRuns \/ ClockScript
  BY <1>2 DEF MailDriver, Gpu, GpuTalks, GpuScript, ClockManager, ClockRuns, ClockScript, Script
<1>3. CASE PwmScript
  <2>1. pin_init = NoInit /\ UNCHANGED job
    BY <1>3 DEF PwmScript, Script
  <2>2. UNCHANGED <<GPSET, pin_init>>
    <3>1. PICK id \in JobChannels, a \in Asked, v \in Values, act \in BOOLEAN, on, off \in SUBSET {"PWEN"} :
       \/ machine_pwm_init(id, on, off, a)
       \/ \E p \in Pins : machine_pwm_make_new(id, p, on, off, a)
       \/ machine_pwm_deinit(id)
       \/ machine_pwm_period(id, v)
       \/ machine_pwm_duty_ticks(id, v)
       \/ machine_pwm_duty_u16(id, v)
       \/ machine_pwm_freq(id, v)
       \/ machine_pwm_active(id, act)
      BY <1>3, Zenon DEF PwmScript
    <3>2. CASE machine_pwm_init(id, on, off, a)
      BY <3>2 DEF machine_pwm_init
    <3>3. CASE \E p \in Pins : machine_pwm_make_new(id, p, on, off, a)
      BY <3>3 DEF machine_pwm_make_new
    <3>4. CASE machine_pwm_deinit(id) \/ machine_pwm_period(id, v) \/ machine_pwm_duty_ticks(id, v) \/ machine_pwm_active(id, act)
      BY <3>4 DEF machine_pwm_deinit, machine_pwm_period, machine_pwm_duty_ticks, machine_pwm_active
    <3>5. CASE machine_pwm_duty_u16(id, v)
      BY <3>5 DEF machine_pwm_duty_u16, machine_pwm_duty_ticks
    <3>6. CASE machine_pwm_freq(id, v)
      BY <3>6, Zenon DEF machine_pwm_freq
    <3> QED
      BY <3>1, <3>2, <3>3, <3>4, <3>5, <3>6
  <2> QED
    BY <2>1, <2>2 DEF PinIdle
<1>4. CASE FifoScript
  <2>1. UNCHANGED <<gpioVars, job>>
    BY <1>4 DEF FifoScript, Script, PwmSteps, Turn, FifoWritten, Microsecond, Play, machine_pwm_init,
                machine_pwm_fifo_active, machine_pwm_fifo_queue, machine_pwm_fifo_clear, machine_pwm_fifo_write
  <2> QED
    BY <2>1
<1>5. CASE SpiDriverStep \/ SpiShiftOut \/ SpiShiftIn
  <2>1. UNCHANGED <<gpioVars, job>>
    BY <1>5 DEF SpiDriverStep, SpiShiftOut, SpiShiftIn, SpiDriver, SetActive, Transmit, Receive, TransferDone,
                ShiftOut, ShiftIn
  <2> QED
    BY <2>1
<1>6. CASE ChipSelect
  <2>1. SelectPin \in Pins
    BY SpiAssumption
  <2>2. GPSET' \in [Pins -> {0, 1}]
    BY <1>6, <2>1 DEF ChipSelect, machine_pin_call, gpio_set_level
  <2> QED
    BY <1>6, <2>2 DEF ChipSelect, machine_pin_call, Script, SpiIdle
<1>7. CASE SpiScripts
  BY <1>7 DEF SpiScripts, Script, SpiScript, machine_spi_init, machine_spi_deinit, machine_spi_write,
              machine_spi_write_readinto, machine_spi_read, spi_transfer, SpiIdle, PinIdle
<1>8. CASE UNCHANGED boardVars
  BY <1>8 DEF boardVars
<1> QED
  BY <1>1, <1>2, <1>3, <1>4, <1>5, <1>6, <1>7, <1>8 DEF Next

\* Every step on the board keeps the invariant.
LEMMA GpioStep == GpioInv /\ [Next]_boardVars => GpioInv'
<1> SUFFICES ASSUME GpioInv, [Next]_boardVars PROVE GpioInv'
  OBVIOUS
<1>1. CASE UNCHANGED <<gpioVars, job>>
  BY <1>1 DEF gpioVars, GpioInv
<1>2. CASE OtherPinUse /\ UNCHANGED job
  BY <1>2 DEF OtherPinUse, GpioInv, PinIdle, NoInit
<1>3. CASE PinScript
  <2>1. job = "pin" /\ job' = "pin"
    BY <1>3 DEF PinScript, Script
  <2>2. ASSUME PinSteps PROVE GpioInv'
    <3>1. pin_init \in PinInits /\ NextArg
      BY <2>2, PinShape DEF GpioInv, PinSteps, InitValue, InitMode, InitPull
    <3>2. CASE InitValue
      <4>1. pin_init' = [pin_init EXCEPT !.at = "mode"]
        BY <3>1, <3>2, NextArgument DEF InitValue
      <4>2. pin_init' \in PinInits /\ pin_init'.pin = pin_init.pin /\ pin_init'.value = pin_init.value
        BY <3>1, <4>1 DEF PinInits
      <4>3. /\ GPSET' \in [Pins -> {0, 1}]
            /\ pin_init.value # Keep => GPSET'[pin_init.pin] = pin_init.value
        BY <3>1, <3>2, PinShape DEF InitValue, gpio_set_level, GpioInv
      <4> QED
        BY <2>1, <4>2, <4>3 DEF GpioInv
    <3>3. CASE InitMode
      <4>1. pin_init' = [pin_init EXCEPT !.at = "pull"] /\ GPSET' = GPSET
        BY <3>1, <3>3, NextArgument DEF InitMode
      <4>2. pin_init' \in PinInits /\ pin_init'.at = "pull"
        BY <3>1, <4>1 DEF PinInits
      <4> QED
        BY <2>1, <4>1, <4>2 DEF GpioInv
    <3>4. CASE InitPull
      <4>1. pin_init' = NoInit /\ GPSET' = GPSET
        BY <3>1, <3>4, NextArgument DEF InitPull
      <4> QED
        BY <4>1, PinShape DEF GpioInv
    <3> QED
      BY <2>2, <3>2, <3>3, <3>4 DEF PinSteps
  <2>3. ASSUME NEW p \in JobPins, NEW v \in {0, 1, Keep}, NEW f \in Functions \cup {""}, NEW u \in Pulls \cup {""},
               machine_pin_init(p, v, f, u)
        PROVE  GpioInv'
    <3>1. pin_init' = [at |-> "value", pin |-> p, value |-> v, mode |-> f, pull |-> u] /\ GPSET' = GPSET
      BY <2>3 DEF machine_pin_init, InitOrder
    <3>2. p \in Pins
      BY JobAssumption
    <3>3. pin_init' \in PinInits /\ pin_init'.at = "value"
      BY <3>1, <3>2 DEF PinInits
    <3> QED
      BY <2>1, <3>1, <3>3 DEF GpioInv
  <2>4. ASSUME NEW p \in JobPins, NEW v \in {0, 1}, machine_pin_call(p, v)
        PROVE  GpioInv'
    <3>1. p \in Pins /\ pin_init = NoInit /\ pin_init' = NoInit
      BY <2>4, JobAssumption DEF machine_pin_call, PinIdle
    <3>2. GPSET' \in [Pins -> {0, 1}]
      BY <2>4, <3>1 DEF machine_pin_call, gpio_set_level, GpioInv
    <3> QED
      BY <3>1, <3>2, PinShape DEF GpioInv
  <2> QED
    BY <1>3, <2>2, <2>3, <2>4 DEF PinScript
<1> QED
  BY <1>1, <1>2, <1>3, PinsOnBoard

\* A step that makes a pin an output inside Pin.init is InitMode, and the value is there.
LEMMA PinNotDriven ==
  ASSUME GpioInv, [Next]_boardVars, NEW p \in Pins,
         pin_init # NoInit, GPFSEL[p] # "out", GPFSEL'[p] = "out", pin_init.value # Keep
  PROVE  GPSET[p] = pin_init.value
<1>1. PinScript
  <2>1. ~UNCHANGED gpioVars
    BY DEF gpioVars
  <2>2. ~OtherPinUse
    BY DEF OtherPinUse, PinIdle
  <2> QED
    BY <2>1, <2>2, PinsOnBoard DEF gpioVars
<1>2. PinSteps
  BY <1>1 DEF PinScript, machine_pin_init, machine_pin_call, PinIdle
<1>3. InitMode
  BY <1>2 DEF PinSteps, InitValue, InitPull
<1>4. p = pin_init.pin
  BY <1>3 DEF InitMode, gpio_set_mode
<1> QED
  BY <1>3, <1>4 DEF InitMode, GpioInv

\* At power-up no init of a pin is under way and nothing was written.
LEMMA GpioBegin == Init => GpioInv
BY PinShape DEF Init, GpioInit, GpioInv

-----------------------------------------------------------------------------
(* The PWM.                                                                  *)

\* Every step on the board keeps the registers in range.
LEMMA RegStep == RegInv /\ [Next]_boardVars => RegInv'
<1> SUFFICES ASSUME RegInv, [Next]_boardVars PROVE RegInv'
  OBVIOUS
<1>0. /\ \A v \in Values : v \in Registers
      /\ Word \in Nat /\ Word > 0 /\ Unit \in Nat /\ Unit > 0 /\ 0 \in Registers /\ Word - 1 \in Registers
      /\ \A id \in Ids : RNG[id] \in Registers /\ DAT[id] \in Registers /\ tick_hz[id] \in Registers
  BY PwmAssumption DEF RegInv, Registers
<1>a. ASSUME UNCHANGED pwmRegs PROVE RegInv'
  BY <1>a DEF pwmRegs, RegInv
<1>b. ASSUME NEW id \in Ids, NEW on, NEW off, NEW a \in Asked, init_helper(id, on, off, a)
      PROVE  RegInv'
  BY <1>b, InitFits DEF init_helper, Set, RegInv
<1>c. ASSUME NEW id \in Ids, NEW v \in Registers, machine_pwm_duty_ticks(id, v) PROVE RegInv'
  BY <1>c DEF machine_pwm_duty_ticks, Set, RegInv
<1>1. CASE PwmScript
  <2>1. PICK id \in JobChannels, a \in Asked, v \in Values, act \in BOOLEAN, on, off \in SUBSET {"PWEN"} :
       \/ machine_pwm_init(id, on, off, a)
       \/ \E p \in Pins : machine_pwm_make_new(id, p, on, off, a)
       \/ machine_pwm_deinit(id)
       \/ machine_pwm_period(id, v)
       \/ machine_pwm_duty_ticks(id, v)
       \/ machine_pwm_duty_u16(id, v)
       \/ machine_pwm_freq(id, v)
       \/ machine_pwm_active(id, act)
    BY <1>1, Zenon DEF PwmScript
  <2>2. id \in Ids
    BY JobAssumption
  <2>3. CASE machine_pwm_init(id, on, off, a) \/ \E p \in Pins : machine_pwm_make_new(id, p, on, off, a)
    <3>1. init_helper(id, on, off, a)
      BY <2>3, Zenon DEF machine_pwm_init, machine_pwm_make_new
    <3> QED
      BY <1>b, <2>2, <3>1
  <2>4. CASE machine_pwm_deinit(id)
    BY <1>0, <2>2, <2>4 DEF machine_pwm_deinit, Set, RegInv
  <2>5. CASE machine_pwm_period(id, v)
    BY <1>0, <2>2, <2>5 DEF machine_pwm_period, Set, RegInv
  <2>6. CASE machine_pwm_duty_ticks(id, v)
    BY <1>0, <1>c, <2>2, <2>6
  <2>7. CASE machine_pwm_duty_u16(id, v)
    <3>1. RNG[id] * v \in Nat
      BY <1>0, <2>2, Times DEF Registers
    <3>2. (RNG[id] * v) \div Unit \in Nat
      BY <1>0, <3>1, Quotient
    <3>3. ((RNG[id] * v) \div Unit) % Word \in Registers
      BY <3>2, Remainder
    <3> QED
      BY <1>c, <2>2, <2>7, <3>3, Zenon DEF machine_pwm_duty_u16
  <2>8. CASE machine_pwm_freq(id, v)
    <3> DEFINE period == tick_hz[id] \div v
    <3>1. period \in Registers
      BY <2>2, FreqPeriod
    <3>2. RNG[id] # 0 => Scaled(DAT[id], RNG[id], period) \in Registers
      <4>1. ASSUME RNG[id] # 0 PROVE Scaled(DAT[id], RNG[id], period) \in Registers
        <5>1. DAT[id] * Word \in Nat /\ RNG[id] \in Nat /\ RNG[id] > 0 /\ period \in Nat
          BY <1>0, <2>2, <3>1, <4>1, Times DEF Registers
        <5> DEFINE q == (DAT[id] * Word) \div RNG[id]
        <5>2. q \in Nat
          BY <5>1, Quotient
        <5> HIDE DEF period
        <5>3. (q * period) \div Word \in Nat
          <6> HIDE DEF q
          <6>1. q * period \in Nat
            BY <5>1, <5>2, Times
          <6> QED
            BY <1>0, <6>1, Quotient
        <5> QED
          BY <5>3, Remainder DEF Scaled
      <4> QED
        BY <4>1
    <3>3. /\ RNG' = Set(RNG, id, period) /\ UNCHANGED tick_hz
          /\ \E d \in IF RNG[id] = 0 THEN {0, Word - 1} ELSE {Scaled(DAT[id], RNG[id], period)} : DAT' = Set(DAT, id, d)
      BY <2>8, Zenon DEF machine_pwm_freq
    <3> HIDE DEF period
    <3>4. PICK d \in Registers : DAT' = Set(DAT, id, d)
      BY <1>0, <3>2, <3>3
    <3> QED
      BY <2>2, <3>1, <3>3, <3>4 DEF Set, RegInv
  <2>9. CASE machine_pwm_active(id, act)
    BY <2>9 DEF machine_pwm_active, RegInv
  <2> QED
    BY <2>1, <2>3, <2>4, <2>5, <2>6, <2>7, <2>8, <2>9
<1>2. CASE FifoScript
  <2>1. ASSUME NEW on, NEW off, NEW id \in JobChannels, machine_pwm_init(id, on, off, Defaults) PROVE RegInv'
    <3>1. TickHz(Defaults) \in Registers /\ Period(Defaults) \in Registers /\ DutyTicks(Defaults) \in Registers
      <4>1. Word \in Nat /\ DefaultPeriod \in Nat /\ DefaultPeriod \in Registers /\ DefaultHz \in Registers
        BY PwmAssumption DEF Registers
      <4>2. DefaultPeriod \div 2 \in Registers
        BY <4>1, Quotient DEF Registers
      <4> QED
        BY <4>1, <4>2 DEF Defaults, TickHz, Period, DutyTicks
    <3>2. id \in Ids /\ init_helper(id, on, off, Defaults)
      BY <2>1, JobAssumption DEF machine_pwm_init
    <3> QED
      BY <3>1, <3>2 DEF init_helper, Set, RegInv
  <2>2. CASE \/ PwmSteps \/ Microsecond \/ Play
             \/ \E n \in 1 .. 2 : machine_pwm_fifo_queue(n)
             \/ machine_pwm_fifo_clear
             \/ machine_pwm_fifo_write
    BY <1>a, <2>2 DEF PwmSteps, Turn, FifoWritten, Microsecond, Play, machine_pwm_fifo_queue, machine_pwm_fifo_clear,
                      machine_pwm_fifo_write
  <2>3. CASE \E on \in BOOLEAN : machine_pwm_fifo_active(on)
    BY <2>3 DEF machine_pwm_fifo_active, RegInv
  <2> QED
    BY <1>2, <2>1, <2>2, <2>3, Zenon DEF FifoScript
<1>3. CASE /\ ~PwmScript /\ ~FifoScript
  <2>1. UNCHANGED pwmVars
    BY <1>3 DEF Next, MailDriver, Gpu, GpuTalks, GpuScript, ClockManager, ClockRuns, ClockScript, PinScript,
                SpiDriverStep, SpiShiftOut, SpiShiftIn, ChipSelect, SpiScripts, boardVars
  <2> QED
    BY <1>a, <2>1 DEF pwmVars
<1> QED
  BY <1>1, <1>2, <1>3

\* Nothing on the board but fifo_write touches its locals and what it has queued.
LEMMA WriterOnBoard ==
  ASSUME [Next]_boardVars
  PROVE  Turn \/ FifoWritten \/ Microsecond \/ machine_pwm_fifo_write \/ UNCHANGED <<wr, queued>>
<1>1. CASE PwmScript
  <2>1. PICK id \in JobChannels, a \in Asked, v \in Values, act \in BOOLEAN, on, off \in SUBSET {"PWEN"} :
       \/ machine_pwm_init(id, on, off, a)
       \/ \E p \in Pins : machine_pwm_make_new(id, p, on, off, a)
       \/ machine_pwm_deinit(id)
       \/ machine_pwm_period(id, v)
       \/ machine_pwm_duty_ticks(id, v)
       \/ machine_pwm_duty_u16(id, v)
       \/ machine_pwm_freq(id, v)
       \/ machine_pwm_active(id, act)
    BY <1>1, Zenon DEF PwmScript
  <2>2. CASE machine_pwm_init(id, on, off, a)
    BY <2>2 DEF machine_pwm_init
  <2>3. CASE \E p \in Pins : machine_pwm_make_new(id, p, on, off, a)
    BY <2>3 DEF machine_pwm_make_new
  <2>4. CASE machine_pwm_deinit(id) \/ machine_pwm_period(id, v) \/ machine_pwm_duty_ticks(id, v) \/ machine_pwm_active(id, act)
    BY <2>4 DEF machine_pwm_deinit, machine_pwm_period, machine_pwm_duty_ticks, machine_pwm_active
  <2>5. CASE machine_pwm_duty_u16(id, v)
    BY <2>5 DEF machine_pwm_duty_u16, machine_pwm_duty_ticks
  <2>6. CASE machine_pwm_freq(id, v)
    BY <2>6, Zenon DEF machine_pwm_freq
  <2> QED
    BY <2>1, <2>2, <2>3, <2>4, <2>5, <2>6
<1>2. CASE FifoScript
  BY <1>2 DEF FifoScript, PwmSteps, Play, machine_pwm_init, machine_pwm_fifo_active, machine_pwm_fifo_queue,
              machine_pwm_fifo_clear
<1>3. CASE ~PwmScript /\ ~FifoScript
  BY <1>3 DEF Next, MailDriver, Gpu, GpuTalks, GpuScript, ClockManager, ClockRuns, ClockScript, PinScript,
              SpiDriverStep, SpiShiftOut, SpiShiftIn, ChipSelect, SpiScripts, boardVars, pwmVars
<1> QED
  BY <1>1, <1>2, <1>3

\* No step of the board disturbs the order of the words in the PWM's FIFO.
LEMMA FifoStep == FifoInv /\ [Next]_boardVars => FifoInv'
<1> SUFFICES ASSUME FifoInv, [Next]_boardVars PROVE FifoInv'
  OBVIOUS
<1>1. CASE FifoWritten
  <2>1. wr.at = "turn" /\ wr' = [wr EXCEPT !.at = "done"] /\ queued' = queued
    BY <1>1 DEF FifoWritten
  <2>2. wr \in Writes /\ WriteInv(wr, queued)
    BY <2>1 DEF FifoInv
  <2>3. /\ wr' \in Writes /\ wr'.at = "done" /\ wr'.two = wr.two /\ wr'.max = wr.max /\ wr'.pos = wr.pos
        /\ wr'.buf = wr.buf /\ wr'.val = wr.val
    BY <2>1, <2>2, WritesAt
  <2> QED
    BY <2>1, <2>2, <2>3 DEF FifoInv, WriteInv
<1>2. CASE Microsecond
  <2>1. wr.at = "turn" /\ wr' = [wr EXCEPT !.elapsed = @ + 1] /\ queued' = queued
    BY <1>2 DEF Microsecond
  <2>2. wr \in Writes /\ WriteInv(wr, queued)
    BY <2>1 DEF FifoInv
  <2>3. /\ wr' \in Writes /\ wr'.at # "none" /\ wr'.two = wr.two /\ wr'.max = wr.max /\ wr'.pos = wr.pos
        /\ wr'.buf = wr.buf /\ wr'.val = wr.val
    BY <2>1, <2>2, WritesElapsed
  <2> QED
    BY <2>1, <2>2, <2>3 DEF FifoInv, WriteInv
<1>3. CASE machine_pwm_fifo_write
  <2>1. PICK two \in BOOLEAN, max \in [1 .. 2 -> 0 .. PwmMax], timeout \in Timeouts :
          /\ ~two => max[2] = 0
          /\ wr' = [at |-> "turn", two |-> two, max |-> max, timeout |-> timeout,
                    elapsed |-> 0, pos |-> 0, buf |-> 1, val |-> <<0, 0>>]
          /\ queued' = << >>
    BY <1>3, Zenon DEF machine_pwm_fifo_write
  <2>2. max \in [1 .. 2 -> Nat] /\ timeout \in Nat /\ <<0, 0>> \in [1 .. 2 -> Nat] /\ <<0, 0>>[1] = 0 /\ <<0, 0>>[2] = 0
    BY PwmAssumption
  <2>3. wr' \in Writes
    BY <2>1, <2>2 DEF Writes
  <2>4. Len(queued') = 0 /\ queued' \in Seq(Int \X Int)
    BY <2>1, EmptySeq
  <2>5. /\ wr'.two = two /\ wr'.max = max /\ wr'.pos = 0 /\ wr'.buf = 1 /\ wr'.at = "turn"
        /\ wr'.val[1] = 0 /\ wr'.val[2] = 0
    BY <2>1, <2>2
  <2>6. WriteInv(wr', queued')
    <3>1. Len(queued') <= wr'.pos /\ \A i \in 1 .. Len(queued') : FALSE
      BY <2>4, <2>5
    <3>2. \A b \in 1 .. 2 : wr'.val[b] = 0 /\ wr'.val[b] <= wr'.max[b] /\ Taken(two, b, 0) = 0
      BY <2>2, <2>5 DEF Taken
    <3>3. Before(two, queued', 1) = 0 /\ Before(two, queued', 2) = 0
      BY DEF Before
    <3> QED
      BY <2>1, <2>4, <2>5, <3>1, <3>2, <3>3 DEF WriteInv
  <2> QED
    BY <2>3, <2>4, <2>5, <2>6 DEF FifoInv
<1>4. CASE UNCHANGED <<wr, queued>>
  BY <1>4 DEF FifoInv
<1> QED
  BY <1>1, <1>2, <1>3, <1>4, TurnStep, WriterOnBoard

-----------------------------------------------------------------------------
(* The board.  Each step of it is a step of one component, as far as that    *)
(* component's variables go, so that each invariant above holds on the       *)
(* board; the SPI and the pins need to know besides which job uses them.     *)

JobInv == spc # "script" => job = "spi"

BoardInv == ClockInv /\ MailInv /\ GpioInv /\ RegInv /\ FifoInv /\ SpiInv /\ JobInv

\* The clock manager's steps on the board are its own.
LEMMA ClockOnBoard == [Next]_boardVars => [ClockNext]_clockVars
<1> SUFFICES ASSUME [Next]_boardVars PROVE ClockNext \/ UNCHANGED clockVars
  OBVIOUS
<1>1. CASE PwmScript
  BY <1>1 DEF PwmScript
<1>2. CASE FifoScript
  BY <1>2 DEF FifoScript
<1>3. CASE PinScript \/ ChipSelect \/ SpiScripts \/ SpiDriverStep \/ SpiShiftOut \/ SpiShiftIn
  BY <1>3 DEF PinScript, ChipSelect, SpiScripts, SpiDriverStep, SpiShiftOut, SpiShiftIn
<1>4. CASE MailDriver \/ Gpu \/ GpuTalks \/ GpuScript
  BY <1>4 DEF MailDriver, Gpu, GpuTalks, GpuScript
<1>5. CASE ClockManager \/ ClockRuns \/ ClockScript
  BY <1>5 DEF ClockManager, ClockRuns, ClockScript, ClockNext
<1>6. CASE UNCHANGED boardVars
  BY <1>6 DEF boardVars
<1> QED
  BY <1>1, <1>2, <1>3, <1>4, <1>5, <1>6 DEF Next

\* So are those of the mailboxes.
LEMMA MailOnBoard == [Next]_boardVars => [MailNext]_mailVars
<1> SUFFICES ASSUME [Next]_boardVars PROVE MailNext \/ UNCHANGED mailVars
  OBVIOUS
<1>1. CASE PwmScript
  BY <1>1 DEF PwmScript
<1>2. CASE FifoScript
  BY <1>2 DEF FifoScript
<1>3. CASE PinScript \/ ChipSelect \/ SpiScripts \/ SpiDriverStep \/ SpiShiftOut \/ SpiShiftIn
  BY <1>3 DEF PinScript, ChipSelect, SpiScripts, SpiDriverStep, SpiShiftOut, SpiShiftIn
<1>4. CASE MailDriver \/ Gpu \/ GpuTalks \/ GpuScript
  BY <1>4 DEF MailDriver, Gpu, GpuTalks, GpuScript, MailNext
<1>5. CASE ClockManager \/ ClockRuns \/ ClockScript
  BY <1>5 DEF ClockManager, ClockRuns, ClockScript
<1>6. CASE UNCHANGED boardVars
  BY <1>6 DEF boardVars
<1> QED
  BY <1>1, <1>2, <1>3, <1>4, <1>5, <1>6 DEF Next

\* And those of the SPI, whose transfers the job "spi" alone begins.
LEMMA SpiOnBoard ==
  ASSUME JobInv, [Next]_boardVars
  PROVE  [SpiNext]_spiVars /\ JobInv'
<1>1. CASE PwmScript
  BY <1>1 DEF PwmScript, Script, spiVars, spiLocals, JobInv
<1>2. CASE FifoScript
  BY <1>2 DEF FifoScript, Script, spiVars, spiLocals, JobInv
<1>3. CASE PinScript \/ ChipSelect
  BY <1>3 DEF PinScript, ChipSelect, Script, spiVars, spiLocals, JobInv
<1>4. CASE MailDriver \/ Gpu \/ GpuTalks \/ GpuScript
  BY <1>4 DEF MailDriver, Gpu, GpuTalks, GpuScript, Script, spiVars, spiLocals, JobInv
<1>5. CASE ClockManager \/ ClockRuns \/ ClockScript
  BY <1>5 DEF ClockManager, ClockRuns, ClockScript, Script, spiVars, spiLocals, JobInv
<1>6. CASE UNCHANGED boardVars
  BY <1>6 DEF boardVars, spiVars, spiLocals, JobInv
<1>7. CASE SpiDriverStep
  BY <1>7 DEF SpiDriverStep, SpiNext, JobInv
<1>8. CASE SpiShiftOut \/ SpiShiftIn
  BY <1>8 DEF SpiShiftOut, SpiShiftIn, ShiftOut, ShiftIn, spiLocals, SpiNext, JobInv
<1>9. CASE SpiScripts
  BY <1>9 DEF SpiScripts, Script, SpiNext, JobInv
<1> QED
  BY <1>1, <1>2, <1>3, <1>4, <1>5, <1>6, <1>7, <1>8, <1>9 DEF Next

\* The board's inductive invariant.
THEOREM BoardInvariant == Spec => []BoardInv
<1>1. Init => BoardInv
  BY ClockBegin, MailBegin, GpioBegin, RegBegin, FifoBegin, SpiBegin DEF Init, BoardInv, JobInv, SpiInit
<1>2. BoardInv /\ [Next]_boardVars => BoardInv'
  BY ClockOnBoard, ClockStep, MailOnBoard, MailStep, GpioStep, RegStep, FifoStep, SpiOnBoard, SpiStep DEF BoardInv
<1> QED
  BY <1>1, <1>2, PTL DEF Spec

\* Every call of machine.Clock leaves what it was asked for, and the start-up too,
\* however its pauses, the generator and the rest of the board take turns; but for
\* a fraction given to Clock.init, in whose place divi is stored
\* (machine_clockmgr.c:62), and for enable=0 that changes nothing else (line 51).
THEOREM ClocksObeyed == Spec => []InitObeyed
<1>1. BoardInv => InitObeyed
  BY ClockInvObeyed DEF BoardInv
<1> QED
  BY <1>1, BoardInvariant, PTL

\* The source and the noise shaping never change under a running generator, nor
\* does the divisor while clockmgr_config_div sets it.
THEOREM ClocksPaused == Spec => ClockPaused
<1> DEFINE Still == /\ SRC' # SRC \/ MASH' # MASH => ~BUSY
                    /\ DIV' # DIV /\ Call.f = "div" => ~BUSY
<1>1. BoardInv /\ [Next]_boardVars => [Still]_clockVars
  BY ClockOnBoard, ClockStill DEF BoardInv
<1> QED
  BY <1>1, BoardInvariant, PTL DEF Spec, ClockPaused

\* No call through the mailbox looks into its message before the GPU has filled it in.
THEOREM OwnAnswers == Spec => []OwnAnswer
<1>1. BoardInv => OwnAnswer
  BY DEF BoardInv, MailInv
<1> QED
  BY <1>1, BoardInvariant, PTL

\* The end tag of every message of vc_property lies inside it.
THEOREM MessagesFit == Spec => []Fits
<1>1. BoardInv => Fits
  BY DEF BoardInv, MailInv
<1> QED
  BY <1>1, BoardInvariant, PTL

\* A pin that Pin.init makes an output has its value before.
THEOREM NoGlitches == Spec => NoGlitch
<1> DEFINE Clean == \A p \in Pins :
       pin_init # NoInit /\ GPFSEL[p] # "out" /\ GPFSEL'[p] = "out" /\ pin_init.value # Keep
         => GPSET[p] = pin_init.value
<1>1. BoardInv /\ [Next]_boardVars => [Clean]_gpioVars
  BY PinNotDriven DEF BoardInv
<1> QED
  BY <1>1, BoardInvariant, PTL DEF Spec, NoGlitch

\* PWM.freq keeps the duty cycle but for less than two ticks, in the width of the registers.
THEOREM DutyKept == Spec => FreqKeepsDuty
<1> DEFINE Kept == \A id \in Ids, f \in Values :
       machine_pwm_freq(id, f) /\ 0 < RNG[id] /\ DAT[id] <= RNG[id]
         => /\ DAT'[id] * RNG[id] <= DAT[id] * RNG'[id]
            /\ DAT[id] * RNG'[id] < (DAT'[id] + 2) * RNG[id]
<1>1. BoardInv /\ [Next]_boardVars => [Kept]_pwmVars
  <2>1. BoardInv => Kept
    BY FreqStep DEF BoardInv
  <2> QED
    BY <2>1
<1> QED
  BY <1>1, BoardInvariant, PTL DEF Spec, FreqKeepsDuty

\* What fifo_write puts into the FIFO comes from its buffers in order.
THEOREM WordsInOrder == Spec => []InOrder
<1>1. BoardInv => InOrder
  BY FifoInvOrder DEF BoardInv
<1> QED
  BY <1>1, BoardInvariant, PTL

\* A transfer that has returned is whole on both sides.
THEOREM TransfersWhole == Spec => []TransferWhole
<1>1. BoardInv => TransferWhole
  BY SpiInvWhole DEF BoardInv
<1> QED
  BY <1>1, BoardInvariant, PTL

\* The chip select is released on an empty FIFO and an idle wire.
THEOREM FramesClean == Spec => FrameClean
<1> DEFINE Framed == Drives(SelectPin, 0) /\ GPSET'[SelectPin] = 1 => TX = << >> /\ shift = Nothing
<1>1. BoardInv /\ [Next]_boardVars => [Framed]_<<gpioVars, spiVars>>
  <2> SUFFICES ASSUME BoardInv, [Next]_boardVars, GPSET[SelectPin] = 0, GPSET'[SelectPin] = 1
               PROVE  TX = << >> /\ shift = Nothing
    BY DEF Drives
  <2>1. spc = "script"
    <3>1. ~(spc # "script")
      <4>1. ASSUME spc # "script" PROVE UNCHANGED GPSET
        <5>1. job = "spi"
          BY <4>1 DEF BoardInv, JobInv
        <5>2. ~PinScript /\ ~PwmScript /\ ~FifoScript /\ ~ChipSelect /\ ~SpiScripts
          BY <4>1, <5>1 DEF PinScript, PwmScript, FifoScript, ChipSelect, SpiScripts, Script, SpiIdle, SpiScript,
                     machine_spi_init, machine_spi_deinit, machine_spi_write, machine_spi_write_readinto,
                     machine_spi_read, spi_transfer
        <5> QED
          BY <5>2 DEF Next, MailDriver, Gpu, GpuTalks, GpuScript, ClockManager, ClockRuns, ClockScript,
                      SpiDriverStep, SpiShiftOut, SpiShiftIn, SpiDriver, SetActive, Transmit, Receive,
                      TransferDone, ShiftOut, ShiftIn, gpioVars, boardVars
      <4> QED
        BY <4>1
    <3> QED
      BY <3>1
  <2> QED
    BY <2>1 DEF BoardInv, SpiInv, QuietInv
<1> QED
  BY <1>1, BoardInvariant, PTL DEF Spec, FrameClean
=============================================================================
