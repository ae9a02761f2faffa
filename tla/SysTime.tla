------------------------------- MODULE SysTime -------------------------------
(***************************************************************************)
(* The 64-bit clock (rpi.c) and the delays built on it (mphalport.c).      *)
(* systime() assembles the time from two 32-bit registers of a running     *)
(* counter: it reads the high word, the low word and the high word again,  *)
(* and when that has changed it reads both words once more.  Every read is *)
(* an action; the counter moves between any two of them.                   *)
(*                                                                         *)
(* A time is a pair <<high word, low word>>, ordered as the 64-bit number  *)
(* it stands for.                                                          *)
(***************************************************************************)
EXTENDS Integers

CONSTANTS
  Wrap,     \* values of a 32-bit word: 2^32
  Ratio,    \* microseconds in a millisecond: 1000
  MaxHi,    \* bound: the high word stops here
  Delays    \* arguments given to the delays, 32-bit words

ASSUME WrapAssumption == Wrap \in Nat \ {0}
ASSUME RatioAssumption == Ratio \in Nat \ {0} /\ MaxHi \in Nat
ASSUME DelaysAssumption == Delays \subseteq 0 .. Wrap - 1

Word == 0 .. Wrap - 1

VARIABLES
  hi, lo,       \* systimer->CHI, systimer->CLO
  pc,           \* where systime() is
  chi, clo,     \* its locals
  began,        \* history: the time at which this systime() was called
  t,            \* what systime() returned last
  caller,       \* who called it
  amount,       \* what the driver adds to the time: a 32-bit word
  asked,        \* history: the delay asked for, in microseconds
  from,         \* history: the time at which the delay was called
  end_time      \* the delay's local, as a number of microseconds

callVars == <<caller, amount, asked, from, end_time>>
vars == <<hi, lo, pc, chi, clo, began, t, caller, amount, asked, from, end_time>>

Now == <<hi, lo>>

\* Earlier(a, b): a is not later than b
Earlier(a, b) == a[1] < b[1] \/ (a[1] = b[1] /\ a[2] <= b[2])

\* The number of microseconds a time stands for
Micros(a) == a[1] * Wrap + a[2]

Init ==
  /\ hi = 0 /\ lo = 0
  /\ pc = "idle" /\ chi = 0 /\ clo = 0
  /\ began = <<0, 0>> /\ t = <<0, 0>>
  /\ caller = "none" /\ amount = 0 /\ asked = 0 /\ from = <<0, 0>> /\ end_time = 0

-----------------------------------------------------------------------------
\* The counter.  A call of systime() takes less than one turn of the low word
\* (71 minutes), so that the high word moves at most once during the call.
Tick ==
  /\ IF lo = Wrap - 1
     THEN /\ hi < MaxHi
          /\ pc # "idle" => hi = began[1]
          /\ hi' = hi + 1 /\ lo' = 0
     ELSE hi' = hi /\ lo' = lo + 1
  /\ UNCHANGED <<pc, chi, clo, began, t, callVars>>

-----------------------------------------------------------------------------
(* systime *)

Enter == pc' = "chi" /\ began' = Now

ReadHi ==
  /\ pc = "chi"
  /\ chi' = hi
  /\ pc' = "clo"
  /\ UNCHANGED <<hi, lo, clo, began, t, callVars>>

ReadLo ==
  /\ pc = "clo"
  /\ clo' = lo
  /\ pc' = "check"
  /\ UNCHANGED <<hi, lo, chi, began, t, callVars>>

\* Wrong on purpose: the high word is not checked.
CheckHi_Skip ==
  /\ pc = "check"
  /\ pc' = "return"
  /\ UNCHANGED <<hi, lo, chi, clo, began, t, callVars>>

CheckHi ==
  /\ pc = "check"
  /\ pc' = IF chi # hi THEN "chi2" ELSE "return"
  /\ UNCHANGED <<hi, lo, chi, clo, began, t, callVars>>

RereadHi ==
  /\ pc = "chi2"
  /\ chi' = hi
  /\ pc' = "clo2"
  /\ UNCHANGED <<hi, lo, clo, began, t, callVars>>

RereadLo ==
  /\ pc = "clo2"
  /\ clo' = lo
  /\ pc' = "return"
  /\ UNCHANGED <<hi, lo, chi, began, t, callVars>>

Return ==
  /\ pc = "return"
  /\ t' = <<chi, clo>>
  /\ pc' = IF caller = "ticks" THEN "idle" ELSE caller
  /\ caller' = IF caller = "ticks" THEN "none" ELSE caller
  /\ UNCHANGED <<hi, lo, chi, clo, began, amount, asked, from, end_time>>

-----------------------------------------------------------------------------
(* Its callers *)

\* mp_hal_ticks_us and the others: the time as it is
Ticks ==
  /\ pc = "idle"
  /\ caller' = "ticks"
  /\ Enter
  /\ UNCHANGED <<hi, lo, chi, clo, t, amount, asked, from, end_time>>

\* A delay of n microseconds, of which the driver keeps a 32-bit word
Delay(n) ==
  /\ pc = "idle"
  /\ asked' = n /\ amount' = n % Wrap
  /\ from' = Now
  /\ caller' = "start"
  /\ Enter
  /\ UNCHANGED <<hi, lo, chi, clo, t, end_time>>

\* mp_hal_delay_us(us)
DelayUs == \E us \in Delays : Delay(us)

\* mp_hal_delay_ms(ms): ms * 1000 is a 32-bit product, which loses the top of a
\* long delay.
DelayMs == \E ms \in Delays : Delay(ms * Ratio)

\* Wrong on purpose: the sum is kept in a 32-bit word.
DelayStart_Narrow ==
  /\ pc = "start"
  /\ end_time' = (Micros(t) + amount) % Wrap
  /\ caller' = "wait"
  /\ Enter
  /\ UNCHANGED <<hi, lo, chi, clo, t, amount, asked, from>>

\* end_time = systime() + ..., a 64-bit sum
DelayStart ==
  /\ pc = "start"
  /\ end_time' = Micros(t) + amount
  /\ caller' = "wait"
  /\ Enter
  /\ UNCHANGED <<hi, lo, chi, clo, t, amount, asked, from>>

\* while (systime() < end_time): go round, in delay_ms after mp_handle_pending
DelayAgain ==
  /\ pc = "wait"
  /\ Micros(t) < end_time
  /\ Enter
  /\ UNCHANGED <<hi, lo, chi, clo, t, callVars>>

\* Wrong on purpose: the loop waits for the very microsecond.
DelayDone_Exact ==
  /\ pc = "wait"
  /\ Micros(t) = end_time
  /\ pc' = "idle" /\ caller' = "none"
  /\ UNCHANGED <<hi, lo, chi, clo, began, t, amount, asked, from, end_time>>

DelayDone ==
  /\ pc = "wait"
  /\ Micros(t) >= end_time
  /\ pc' = "idle" /\ caller' = "none"
  /\ UNCHANGED <<hi, lo, chi, clo, began, t, amount, asked, from, end_time>>

\* mp_handle_pending raises in the middle of mp_hal_delay_ms
DelayAbort ==
  /\ pc = "wait"
  /\ Micros(t) < end_time
  /\ pc' = "idle" /\ caller' = "aborted"
  /\ UNCHANGED <<hi, lo, chi, clo, began, t, amount, asked, from, end_time>>

-----------------------------------------------------------------------------
Systime == ReadHi \/ ReadLo \/ CheckHi \/ RereadHi \/ RereadLo \/ Return
Caller  == Ticks \/ DelayUs \/ DelayMs \/ DelayStart \/ DelayAgain \/ DelayDone
             \/ DelayAbort
Next == Tick \/ Systime \/ Caller

Spec == Init /\ [][Next]_vars

\* The counter runs and the core executes.
Fairness ==
  WF_vars(Tick) /\ WF_vars(Systime) /\ WF_vars(DelayStart \/ DelayAgain \/ DelayDone)

FairSpec == Spec /\ Fairness

-----------------------------------------------------------------------------
(* Properties. *)

\* What systime() is about to return is a time between its call and now: the
\* two halves are never torn by a carry between the reads (rpi.c:27-32).
NotTorn ==
  pc = "return" => Earlier(began, <<chi, clo>>) /\ Earlier(<<chi, clo>>, Now)

\* Two calls in a row never see the time go backwards.
Monotonic == [][Earlier(t, t')]_vars

\* A delay whose microseconds fit a 32-bit word does not return before the time
\* asked for is over, also when the low word wraps while it waits
\* (mphalport.c:21-22, 33-34).  A longer mp_hal_delay_ms, of 71.6 minutes and
\* more, does return early: ms * 1000 wraps (line 21).
DelayNotEarly ==
  [][pc = "wait" /\ caller' = "none" /\ asked < Wrap
       => Micros(Now) >= Micros(from) + asked]_vars

\* A delay whose end, as the driver computes it, the clock reaches does return
\* or is aborted.
DelayEnds ==
  caller \in {"start", "wait"} /\ Micros(from) + amount + Wrap <= MaxHi * Wrap
    ~> caller \in {"none", "aborted"}
=============================================================================
