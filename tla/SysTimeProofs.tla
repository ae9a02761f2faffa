--------------------------- MODULE SysTimeProofs ---------------------------
(***************************************************************************)
(* Proofs about SysTime, for every word size, every ratio and every set of *)
(* delays: what systime() returns is never torn, it never goes backwards,  *)
(* and no delay of less than a turn of the low word ends early.            *)
(***************************************************************************)
EXTENDS SysTime, TLAPS

-----------------------------------------------------------------------------
(* Times. *)

Time == Nat \X Word

\* Times are ordered, and the order is that of the numbers they stand for.
LEMMA EarlierReflexive == \A a \in Time : Earlier(a, a)
BY WrapAssumption DEF Time, Word, Earlier

\* The order of times is transitive.
LEMMA EarlierTransitive ==
  \A a, b, d \in Time : Earlier(a, b) /\ Earlier(b, d) => Earlier(a, d)
BY WrapAssumption DEF Time, Word, Earlier

\* A time is a natural number of microseconds.
LEMMA MicrosType == \A a \in Time : Micros(a) \in Nat
BY WrapAssumption DEF Time, Word, Micros

\* An earlier time is no more microseconds than a later one.
LEMMA EarlierMicros ==
  ASSUME NEW a \in Time, NEW b \in Time, Earlier(a, b)
  PROVE  Micros(a) <= Micros(b)
<1> DEFINE d == b[1] - a[1]
<1>0. a[1] \in Nat /\ b[1] \in Nat /\ a[2] \in 0 .. Wrap - 1 /\ b[2] \in 0 .. Wrap - 1 /\ Wrap \in Nat
  BY WrapAssumption DEF Time, Word
<1>1. CASE a[1] = b[1] /\ a[2] <= b[2]
  BY <1>0, <1>1 DEF Micros
<1>2. CASE a[1] < b[1]
  <2>1. b[1] = a[1] + d /\ d \in Nat /\ d >= 1
    BY <1>0, <1>2
  <2>2. d * Wrap >= Wrap
    BY <1>0, <2>1
  <2>3. b[1] * Wrap = a[1] * Wrap + d * Wrap
    BY <1>0, <2>1
  <2> QED
    BY <1>0, <2>2, <2>3 DEF Micros
<1> QED
  BY <1>1, <1>2 DEF Earlier

-----------------------------------------------------------------------------
(* The inductive invariant. *)

Reading == {"chi", "clo", "check", "chi2", "clo2", "return"}

TypeInv ==
  /\ hi \in Nat /\ lo \in Word
  /\ chi \in Nat /\ clo \in Word
  /\ began \in Time /\ t \in Time /\ from \in Time
  /\ amount \in Word /\ asked \in Nat /\ end_time \in Nat
  /\ pc \in Reading \cup {"idle", "start", "wait"}
  /\ caller \in {"none", "ticks", "start", "wait", "aborted"}

\* systime() returns to whoever called it.
CallerKnown ==
  /\ pc \in Reading => caller \in {"ticks", "start", "wait"}
  /\ pc \in {"start", "wait"} => caller = pc

\* The last call of systime() began before now, and less than a turn of the low
\* word ago while it runs; what it returned before is no later than that.
ClockInv ==
  /\ Earlier(began, Now)
  /\ pc # "idle" => hi <= began[1] + 1
  /\ pc \in Reading => Earlier(t, began)
  /\ Earlier(t, Now)

\* What the reads so far have seen.  The high word, once it is found to have
\* changed, does not change again, so that the second pair of reads is whole.
ReadsInv ==
  /\ pc \in {"clo", "check"} => chi \in began[1] .. hi
  /\ pc = "check" /\ chi = hi
       => clo <= lo /\ (chi = began[1] => began[2] <= clo)
  /\ pc \in {"chi2", "clo2"} => hi = began[1] + 1
  /\ pc = "clo2" => chi = hi
  /\ NotTorn

\* What the driver adds is what was asked for, when that fits a word; the delay's
\* end is far enough from its call.
DelayInv ==
  /\ asked < Wrap => amount = asked
  /\ caller = "start" /\ pc \in Reading => Earlier(from, began)
  /\ pc = "start" => Earlier(from, t)
  /\ caller = "wait" => Micros(from) + amount <= end_time

SysTimeInv == TypeInv /\ CallerKnown /\ ClockInv /\ ReadsInv /\ DelayInv

-----------------------------------------------------------------------------
\* A turn of the counter leaves the time no earlier.
LEMMA TickForward ==
  TypeInv /\ Tick => Now' \in Time /\ Earlier(Now, Now') /\ UNCHANGED <<pc, chi, clo, began, t, callVars>>
BY WrapAssumption DEF TypeInv, Tick, Now, Time, Word, Earlier

\* The counter moving on keeps every part of the invariant: a carry between two
\* reads is the case that matters.
LEMMA TickStep == SysTimeInv /\ Tick => SysTimeInv'
<1> SUFFICES ASSUME SysTimeInv, Tick
             PROVE  SysTimeInv'
  OBVIOUS
<1> USE DEF SysTimeInv, callVars
<1>1. /\ Earlier(Now, Now') /\ Now \in Time /\ Now' \in Time
      /\ UNCHANGED <<pc, chi, clo, began, t, callVars>>
  BY TickForward DEF TypeInv, Now, Time
<1>2. /\ hi' \in Nat /\ lo' \in Word
      /\ \/ hi' = hi /\ lo' = lo + 1
         \/ hi' = hi + 1 /\ lo' = 0 /\ (pc # "idle" => hi = began[1])
  BY WrapAssumption DEF Tick, TypeInv, Word
<1>3. TypeInv'
  BY <1>1, <1>2 DEF TypeInv
<1>4. CallerKnown'
  BY <1>1 DEF CallerKnown
<1>5. ClockInv'
  <2>1. Earlier(began, Now') /\ Earlier(t, Now')
    BY <1>1, EarlierTransitive DEF ClockInv, TypeInv
  <2>2. pc # "idle" => hi' <= began[1] + 1
    BY <1>2 DEF ClockInv, TypeInv, Time
  <2> QED
    BY <1>1, <2>1, <2>2 DEF ClockInv
<1>6. ReadsInv'
  <2>0. began[1] \in Nat /\ began[2] \in Nat /\ lo \in Nat /\ lo' \in Nat
    BY <1>2, WrapAssumption DEF TypeInv, Time, Word
  <2>1. (pc \in {"clo", "check"} => chi \in began[1] .. hi)'
    BY <1>1, <1>2, <2>0 DEF ReadsInv, TypeInv
  <2>2. (pc = "check" /\ chi = hi => clo <= lo /\ (chi = began[1] => began[2] <= clo))'
    BY <1>1, <1>2, <2>0 DEF ReadsInv, TypeInv, Word
  <2>3. (pc \in {"chi2", "clo2"} => hi = began[1] + 1)' /\ (pc = "clo2" => chi = hi)'
    BY <1>1, <1>2, <2>0 DEF ReadsInv, TypeInv
  <2>4. NotTorn'
    <3>1. <<chi, clo>> \in Time
      BY DEF TypeInv, Time
    <3> QED
      BY <1>1, <3>1, EarlierTransitive DEF ReadsInv, NotTorn
  <2> QED
    BY <2>1, <2>2, <2>3, <2>4 DEF ReadsInv
<1>7. DelayInv'
  BY <1>1 DEF DelayInv, Micros
<1> QED
  BY <1>3, <1>4, <1>5, <1>6, <1>7

\* The reads of systime(), one after another.
LEMMA ReadStep ==
  SysTimeInv /\ (ReadHi \/ ReadLo \/ CheckHi \/ RereadHi \/ RereadLo) => SysTimeInv'
<1> SUFFICES ASSUME SysTimeInv, ReadHi \/ ReadLo \/ CheckHi \/ RereadHi \/ RereadLo
             PROVE  SysTimeInv'
  OBVIOUS
<1> USE DEF SysTimeInv, callVars
<1>0. /\ UNCHANGED <<hi, lo, began, t, caller, amount, asked, from, end_time>>
      /\ pc \in Reading /\ pc' \in Reading
      /\ chi' \in {chi, hi} /\ clo' \in {clo, lo}
  BY DEF ReadHi, ReadLo, CheckHi, RereadHi, RereadLo, Reading
<1>1. TypeInv' /\ CallerKnown'
  BY <1>0 DEF TypeInv, CallerKnown, Reading
<1>2. ClockInv'
  BY <1>0 DEF ClockInv, Now, Reading
<1>3. DelayInv'
  BY <1>0 DEF DelayInv, Micros, Reading
<1>4. ReadsInv'
  <2> USE WrapAssumption
      DEF ReadsInv, ClockInv, TypeInv, NotTorn, Earlier, Now, Time, Word, Reading
  <2>1. CASE ReadHi
    BY <2>1 DEF ReadHi
  <2>2. CASE ReadLo
    BY <2>2 DEF ReadLo
  <2>3. CASE CheckHi
    BY <2>3 DEF CheckHi
  <2>4. CASE RereadHi
    BY <2>4 DEF RereadHi
  <2>5. CASE RereadLo
    BY <2>5 DEF RereadLo
  <2> QED
    BY <2>1, <2>2, <2>3, <2>4, <2>5
<1> QED
  BY <1>1, <1>2, <1>3, <1>4

\* A call that returns: the time it returns is one between its call and now.
LEMMA ReturnStep == SysTimeInv /\ Return => SysTimeInv' /\ Earlier(t, t')
<1> SUFFICES ASSUME SysTimeInv, Return
             PROVE  SysTimeInv' /\ Earlier(t, t')
  OBVIOUS
<1> USE DEF SysTimeInv
<1>1. /\ pc = "return" /\ pc \in Reading /\ t' = <<chi, clo>> /\ t' \in Time
      /\ Earlier(began, t') /\ Earlier(t', Now) /\ Now \in Time
  BY DEF Return, ReadsInv, NotTorn, TypeInv, Time, Reading, Now
<1>2. /\ UNCHANGED <<hi, lo, chi, clo, began, amount, asked, from, end_time>>
      /\ \/ caller = "ticks" /\ pc' = "idle" /\ caller' = "none"
         \/ caller \in {"start", "wait"} /\ pc' = caller /\ caller' = caller
  BY <1>1 DEF Return, CallerKnown
<1>3. Earlier(t, t')
  BY <1>1, EarlierTransitive DEF ClockInv, TypeInv
<1>4. TypeInv' /\ CallerKnown'
  BY <1>1, <1>2 DEF TypeInv, CallerKnown, Reading
<1>5. ClockInv'
  BY <1>1, <1>2 DEF ClockInv, Reading, Now
<1>6. ReadsInv'
  BY <1>2 DEF ReadsInv, NotTorn
<1>7. DelayInv'
  <2>1. caller = "start" => Earlier(from, t')
    BY <1>1, EarlierTransitive DEF DelayInv, TypeInv
  <2> QED
    BY <1>2, <2>1 DEF DelayInv, Reading, Micros
<1> QED
  BY <1>3, <1>4, <1>5, <1>6, <1>7

\* The callers.
LEMMA CallerStep == SysTimeInv /\ Caller => SysTimeInv' /\ UNCHANGED t
<1> SUFFICES ASSUME SysTimeInv, Caller
             PROVE  SysTimeInv' /\ UNCHANGED t
  OBVIOUS
<1> USE DEF SysTimeInv
<1>0. Now \in Time /\ Earlier(Now, Now)
  BY EarlierReflexive DEF TypeInv, Now, Time
<1>1. ASSUME UNCHANGED <<hi, lo, chi, clo, t>>, Enter, amount' \in Word, asked' \in Nat,
             from' \in Time, end_time' \in Nat, caller' \in {"ticks", "start", "wait"}, DelayInv'
      PROVE  SysTimeInv' /\ UNCHANGED t
  <2>1. pc' = "chi" /\ began' = Now /\ Now' = Now
    BY <1>1 DEF Enter, Now
  <2>2. TypeInv' /\ CallerKnown'
    BY <1>0, <1>1, <2>1 DEF TypeInv, CallerKnown, Reading
  <2>3. ClockInv'
    BY <1>0, <1>1, <2>1 DEF ClockInv, Now, TypeInv
  <2>4. ReadsInv'
    BY <2>1 DEF ReadsInv, NotTorn
  <2> QED
    BY <1>1, <2>2, <2>3, <2>4
<1>2. CASE Ticks
  <2>1. DelayInv'
    BY <1>2 DEF Ticks, DelayInv, Enter
  <2> QED
    BY <1>1, <1>2, <2>1 DEF Ticks, TypeInv
<1>3. ASSUME NEW n \in Nat, Delay(n)
      PROVE  SysTimeInv' /\ UNCHANGED t
  <2>1. n % Wrap \in Word /\ (n < Wrap => n % Wrap = n)
    BY WrapAssumption DEF Word
  <2>2. DelayInv'
    BY <1>0, <1>3, <2>1 DEF Delay, DelayInv, Enter
  <2> QED
    BY <1>0, <1>1, <1>3, <2>1, <2>2 DEF Delay, TypeInv
<1>4. CASE DelayUs
  BY <1>3, <1>4, DelaysAssumption, WrapAssumption DEF DelayUs
<1>5. CASE DelayMs
  <2>1. PICK ms \in Delays : Delay(ms * Ratio)
    BY <1>5 DEF DelayMs
  <2>2. (ms * Ratio) \in Nat
    BY DelaysAssumption, RatioAssumption, WrapAssumption
  <2> QED
    BY <1>3, <2>1, <2>2
<1>6. CASE DelayStart
  <2>1. /\ end_time' = Micros(t) + amount /\ UNCHANGED <<from, amount, asked>>
        /\ Earlier(from, t) /\ from \in Time /\ t \in Time /\ amount \in Nat
    BY <1>6, WrapAssumption DEF DelayStart, DelayInv, TypeInv, Word
  <2>2. Micros(from) <= Micros(t) /\ Micros(from) \in Nat /\ Micros(t) \in Nat
    BY <2>1, EarlierMicros, MicrosType
  <2>3. end_time' \in Nat /\ Micros(from) + amount <= end_time'
    BY <2>1, <2>2
  <2>4. DelayInv'
    BY <1>6, <2>1, <2>3 DEF DelayStart, DelayInv, Enter, Micros
  <2> QED
    BY <1>1, <1>6, <2>3, <2>4 DEF DelayStart, TypeInv
<1>7. CASE DelayAgain
  <2>1. DelayInv'
    BY <1>7 DEF DelayAgain, DelayInv, Enter, callVars, CallerKnown, Micros
  <2> QED
    BY <1>1, <1>7, <2>1 DEF DelayAgain, TypeInv, callVars, CallerKnown
<1>8. CASE DelayDone \/ DelayAbort
  <2>1. /\ UNCHANGED <<hi, lo, chi, clo, began, t, amount, asked, from, end_time>>
        /\ pc' = "idle" /\ caller' \in {"none", "aborted"}
    BY <1>8 DEF DelayDone, DelayAbort
  <2>2. TypeInv' /\ CallerKnown' /\ ReadsInv' /\ DelayInv'
    BY <2>1 DEF TypeInv, CallerKnown, ReadsInv, NotTorn, DelayInv, Reading
  <2>3. ClockInv'
    BY <2>1 DEF ClockInv, Reading, Now
  <2> QED
    BY <2>1, <2>2, <2>3
<1> QED
  BY <1>2, <1>4, <1>5, <1>6, <1>7, <1>8 DEF Caller

\* Every step keeps the invariant, and no time returned is earlier than the last.
LEMMA SysTimeStep == SysTimeInv /\ [Next]_vars => SysTimeInv' /\ Earlier(t, t')
<1> SUFFICES ASSUME SysTimeInv, [Next]_vars
             PROVE  SysTimeInv' /\ Earlier(t, t')
  OBVIOUS
<1>0. Earlier(t, t)
  BY EarlierReflexive DEF SysTimeInv, TypeInv
<1>1. CASE UNCHANGED vars
  BY <1>0, <1>1 DEF vars, SysTimeInv, TypeInv, CallerKnown, ClockInv, ReadsInv, DelayInv,
                    NotTorn, Now, Micros
<1>2. CASE Tick
  BY <1>0, <1>2, TickStep DEF Tick
<1>3. CASE ReadHi \/ ReadLo \/ CheckHi \/ RereadHi \/ RereadLo
  BY <1>0, <1>3, ReadStep DEF ReadHi, ReadLo, CheckHi, RereadHi, RereadLo
<1>4. CASE Return
  BY <1>4, ReturnStep
<1>5. CASE Caller
  BY <1>0, <1>5, CallerStep
<1> QED
  BY <1>1, <1>2, <1>3, <1>4, <1>5 DEF Next, Systime

\* Every reachable state satisfies SysTimeInv, whatever carries fall between the
\* reads.
LEMMA SysTimeInvariant == Spec => []SysTimeInv
<1>1. Init => SysTimeInv
  BY WrapAssumption
     DEF Init, SysTimeInv, TypeInv, CallerKnown, ClockInv, ReadsInv, DelayInv, NotTorn,
         Earlier, Now, Time, Word, Reading
<1> QED
  BY <1>1, SysTimeStep, PTL DEF Spec

-----------------------------------------------------------------------------
\* What systime() is about to return lies between its call and now, wherever a
\* carry falls between its reads.
THEOREM NeverTorn == Spec => []NotTorn
<1>1. SysTimeInv => NotTorn
  BY DEF SysTimeInv, ReadsInv
<1> QED
  BY <1>1, SysTimeInvariant, PTL

\* No call of systime() returns an earlier time than the one before.
THEOREM NeverBackwards == Spec => Monotonic
<1>1. SysTimeInv /\ [Next]_vars => [Earlier(t, t')]_vars
  BY SysTimeStep
<1> QED
  BY <1>1, SysTimeInvariant, PTL DEF Spec, Monotonic

\* A delay of less than 2^32 microseconds that returns has lasted as long as it
\* was asked to, also when the low word has wrapped in it.
THEOREM DelaysLongEnough == Spec => DelayNotEarly
<1> DEFINE NotEarly ==
      pc = "wait" /\ caller' = "none" /\ asked < Wrap
        => Micros(Now) >= Micros(from) + asked
<1>1. SysTimeInv /\ [Next]_vars => [NotEarly]_vars
  <2> SUFFICES ASSUME SysTimeInv, Next, pc = "wait", caller' = "none", asked < Wrap
               PROVE  Micros(Now) >= Micros(from) + asked
    OBVIOUS
  <2>1. caller = "wait"
    BY DEF SysTimeInv, CallerKnown
  <2>2. DelayDone
    BY <2>1 DEF Next, Tick, Systime, ReadHi, ReadLo, CheckHi, RereadHi, RereadLo, Return,
                Caller, Ticks, DelayUs, DelayMs, Delay, DelayStart, DelayAgain, DelayAbort,
                callVars
  <2>3. amount = asked /\ Micros(from) + amount <= end_time /\ end_time <= Micros(t)
    BY <2>1, <2>2 DEF DelayDone, SysTimeInv, DelayInv
  <2>4. Micros(t) <= Micros(Now)
    BY EarlierMicros DEF SysTimeInv, ClockInv, TypeInv, Now, Time
  <2>5. /\ Micros(from) \in Nat /\ Micros(t) \in Nat /\ Micros(Now) \in Nat
        /\ amount \in Nat /\ end_time \in Nat
    BY MicrosType, WrapAssumption DEF SysTimeInv, TypeInv, Now, Time, Word
  <2> QED
    BY <2>3, <2>4, <2>5
<1> QED
  BY <1>1, SysTimeInvariant, PTL DEF Spec, DelayNotEarly
=============================================================================
