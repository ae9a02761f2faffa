-------------------------- MODULE MachineTimerProofs --------------------------
(***************************************************************************)
(* What is proved about machine.Timer, for any timers, periods, modes and  *)
(* callbacks, and at any speed of the clock.                               *)
(*                                                                         *)
(* TypesInv, ActiveInv and OnceInv hold whatever timers a script uses.  A  *)
(* script with one timer gets more, by AloneInv: its interrupt is the only *)
(* one, so that the handler does not run between the stores of             *)
(* timer_enable.                                                           *)
(***************************************************************************)
EXTENDS MachineTimer, SequenceTheorems, TLAPS

Arguments == [id : Int, period : Int, mode : Modes, callback : {None, Fun},
              enable : BOOLEAN]
Entries   == Timers \X {NULL, None, Fun}

\* The locals of a method are what its caller passed.
ArgsInv ==
  /\ args \in Arguments
  /\ pc # "idle" => args.id \in ScriptTimers

TypesInv == TypeOK /\ ArgsInv

\* CHOOSE finds the least timer of a set that has any.
LEMMA LeastTimer ==
  ASSUME NEW T, T \subseteq Timers, T # {}
  PROVE  Least(T) \in T /\ \A j \in T : Least(T) <= j
<1>. DEFINE IsLeast(i) == i \in T /\ \A j \in T : i <= j
<1>1. T \subseteq {0, 1, 2, 3}
  BY TimersAssumption
<1>2. \E i : IsLeast(i)
  <2>1. CASE 0 \in T
    BY <1>1, <2>1
  <2>2. CASE 0 \notin T /\ 1 \in T
    <3>1. \A j \in T : 1 <= j
      BY <1>1, <2>2
    <3>. QED  BY <2>2, <3>1
  <2>3. CASE 0 \notin T /\ 1 \notin T /\ 2 \in T
    <3>1. \A j \in T : 2 <= j
      BY <1>1, <2>3
    <3>. QED  BY <2>3, <3>1
  <2>4. CASE 0 \notin T /\ 1 \notin T /\ 2 \notin T
    <3>1. T = {3}
      BY <1>1, <2>4
    <3>. QED  BY <3>1
  <2>. QED  BY <2>1, <2>2, <2>3, <2>4
<1>. QED  BY <1>2 DEF Least

\* The names the constants stand for
LEMMA Names ==
  /\ Modes = {0, 1, 2} /\ ScriptModes \subseteq Modes /\ Callbacks \subseteq {None, Fun}
  /\ None # NULL /\ Fun # NULL /\ None # Fun
  /\ ScriptTimers \subseteq Timers /\ Timers \subseteq Nat /\ IsrIdle \notin Timers
  /\ GpuTimers \subseteq Timers /\ ScriptTimers \cap GpuTimers = {}
  /\ Periods \subseteq Int
  /\ NoArgs \in Arguments
<1>1. Modes = {0, 1, 2} /\ ScriptModes \subseteq Modes
  BY ScriptAssumption DEF Modes, ONE_SHOT, PERIODIC, FREE
<1>2. /\ Callbacks \subseteq {None, Fun} /\ None # NULL /\ Fun # NULL /\ None # Fun
  BY ScriptAssumption DEF None, Fun, NULL
<1>3. /\ ScriptTimers \subseteq Timers /\ Timers \subseteq Nat /\ IsrIdle \notin Timers
      /\ GpuTimers \subseteq Timers /\ ScriptTimers \cap GpuTimers = {}
  BY TimersAssumption DEF IsrIdle, GpuTimers
<1>4. Periods \subseteq Int
  BY PeriodsAssumption
<1>5. NoArgs \in Arguments
  BY <1>1 DEF NoArgs, Arguments, DefaultPeriod, PERIODIC
<1>. QED  BY <1>1, <1>2, <1>3, <1>4, <1>5

-----------------------------------------------------------------------------
(***************************************************************************)
(* Types.                                                                  *)
(***************************************************************************)
\* A callback is queued while there is room.
LEMMA ScheduleType ==
  ASSUME TypeOK, NEW i \in Timers, Schedule(i)
  PROVE  sched' \in Seq(Entries) /\ Len(sched') <= SchedDepth
<1>1. sched \in Seq(Entries) /\ Len(sched) <= SchedDepth /\ <<i, callback[i]>> \in Entries
  BY DEF TypeOK, Entries
<1>2. CASE callback[i] # None /\ Len(sched) < SchedDepth
  <2>1. sched' = Append(sched, <<i, callback[i]>>)
    BY <1>2 DEF Schedule
  <2>2. Len(sched) \in Nat /\ SchedDepth \in Nat
    BY <1>1, LenProperties, BoundsAssumption
  <2>3. sched' \in Seq(Entries) /\ Len(sched') = Len(sched) + 1
    BY <1>1, <2>1, AppendProperties
  <2>. QED  BY <1>2, <2>2, <2>3
<1>3. CASE ~(callback[i] # None /\ Len(sched) < SchedDepth)
  BY <1>1, <1>3 DEF Schedule
<1>. QED  BY <1>2, <1>3

\* What serving a match changes, mode by mode
LEMMA RearmCases ==
  ASSUME TypeOK, NEW i \in Timers, Rearm(i)
  PROVE  /\ C' \in [Timers -> Int] /\ period' \in [Timers -> Int]
         /\ irqEnabled' \in {irqEnabled, irqEnabled \ {i}}
         /\ mode[i] = ONE_SHOT => irqEnabled' = irqEnabled \ {i} /\ active' = active \ {i}
         /\ mode[i] # ONE_SHOT => UNCHANGED <<irqEnabled, active>>
         /\ \A j \in Timers \ {i} : C'[j] = C[j]
<1>. /\ mode[i] \in {ONE_SHOT, PERIODIC, FREE} /\ C \in [Timers -> Int]
     /\ period \in [Timers -> Int]
  BY DEF TypeOK, Modes
<1>. ONE_SHOT # PERIODIC /\ ONE_SHOT # FREE /\ PERIODIC # FREE
  BY DEF ONE_SHOT, PERIODIC, FREE
<1>1. CASE mode[i] = PERIODIC
  <2>1. C' = [C EXCEPT ![i] = @ + period[i]] /\ UNCHANGED <<irqEnabled, active, period>>
    BY <1>1 DEF Rearm
  <2>. QED  BY <1>1, <2>1
<1>2. CASE mode[i] = ONE_SHOT
  <2>1. /\ irqEnabled' = irqEnabled \ {i} /\ active' = active \ {i}
        /\ UNCHANGED <<C, period>>
    BY <1>2 DEF Rearm
  <2>. QED  BY <1>2, <2>1
<1>3. CASE mode[i] = FREE
  <2>1. period' = [period EXCEPT ![i] = C[i]] /\ UNCHANGED <<C, irqEnabled, active>>
    BY <1>3 DEF Rearm
  <2>. QED  BY <1>3, <2>1
<1>. QED  BY <1>1, <1>2, <1>3

\* One turn of the handler's loop
LEMMA IsrTimerTypes ==
  ASSUME TypeOK, IsrTimer
  PROVE  /\ isr \in Timers /\ isr' \in Timers \cup {IsrIdle} /\ timer_value' \in Int
         /\ C' \in [Timers -> Int] /\ period' \in [Timers -> Int]
         /\ counter' \in [Timers -> Nat]
         /\ irqEnabled' \subseteq irqEnabled /\ active' \subseteq active
         /\ CS' \subseteq CS
         /\ sched' \in Seq(Entries) /\ Len(sched') <= SchedDepth
         /\ UNCHANGED <<CLO, irqOn, mode, callback, pc, args, ldCS, rerun>>
<1>. /\ isr \in Timers /\ C \in [Timers -> Int] /\ period \in [Timers -> Int]
     /\ counter \in [Timers -> Nat] /\ sched \in Seq(Entries) /\ Len(sched) <= SchedDepth
     /\ timer_value \in Int
  BY DEF TypeOK, IsrTimer, Entries
<1>1. isr' \in Timers \cup {IsrIdle} /\ timer_value' \in Int
  <2>1. CASE After(isr) = {}
    BY <2>1 DEF IsrTimer
  <2>2. CASE After(isr) # {}
    <3>1. Least(After(isr)) \in After(isr) /\ After(isr) \subseteq Timers
      BY <2>2, LeastTimer DEF After
    <3>. QED  BY <2>2, <3>1 DEF IsrTimer
  <2>. QED  BY <2>1, <2>2
<1>2. UNCHANGED <<CLO, irqOn, mode, callback, pc, args, ldCS, rerun>>
  BY DEF IsrTimer, mainVars
<1>3. CASE timer_value = C[isr] /\ isr \in active
  <2>1. /\ counter' = [counter EXCEPT ![isr] = @ + 1] /\ Schedule(isr) /\ Rearm(isr) /\ CS' = {}
    BY <1>3 DEF IsrTimer, ClearMatch
  <2>2. active' \subseteq active /\ irqEnabled' \subseteq irqEnabled
    BY <2>1, RearmCases
  <2>. QED  BY <1>1, <1>2, <2>1, <2>2, ScheduleType, RearmCases
<1>4. CASE ~(timer_value = C[isr] /\ isr \in active)
  <2>1. UNCHANGED <<C, irqEnabled, active, counter, period, sched>> /\ (CS' = {} \/ CS' = CS)
    BY <1>4 DEF IsrTimer, ClearMatch
  <2>. QED  BY <1>1, <1>2, <2>1
<1>. QED  BY <1>3, <1>4

\* Every step keeps every variable's type and the locals of the method.
LEMMA TypesStep ==
  ASSUME TypesInv, [Next]_vars
  PROVE  TypesInv'
<1>. TypeOK /\ ArgsInv
  BY DEF TypesInv
<1>c. CLO \in Int /\ CLO >= 1 /\ \A p \in Periods : CLO + p \in Int
  BY Names, BoundsAssumption DEF TypeOK
<1>1. CASE Tick
  <2>1. CLO' \in 1 .. MaxTime /\ CS' \subseteq Timers
    BY <1>1, BoundsAssumption DEF Tick, TypeOK
  <2>. QED  BY <1>1, <2>1 DEF Tick, objVars, isrVars, mainVars, TypesInv, TypeOK, ArgsInv
<1>2. CASE \E i \in GpuTimers : GpuCompare(i)
  <2>1. C' \in [Timers -> Int]
    BY <1>2, <1>c DEF GpuCompare, TypeOK
  <2>. QED  BY <1>2, <2>1 DEF GpuCompare, objVars, isrVars, mainVars, TypesInv, TypeOK, ArgsInv
<1>3. CASE IsrEnter
  <2>1. Pending \subseteq Timers /\ Pending # {} /\ Timers # {}
    BY <1>3 DEF IsrEnter, Pending, TypeOK
  <2>2. Least(Pending) \in Timers /\ Least(Timers) \in Timers
    BY <2>1, LeastTimer
  <2>3. timer_value' \in Int /\ isr' \in Timers
    BY <1>3, <2>2 DEF IsrEnter, TypeOK
  <2>. QED  BY <1>3, <2>3 DEF IsrEnter, objVars, mainVars, TypesInv, TypeOK, ArgsInv
<1>4. CASE IsrTimer
  BY <1>4, IsrTimerTypes DEF TypesInv, TypeOK, ArgsInv, Entries
<1>5. CASE ToggleIrq
  <2>1. irqOn' \in BOOLEAN
    BY <1>5, Zenon DEF ToggleIrq
  <2>. QED  BY <1>5, <2>1 DEF ToggleIrq, objVars, isrVars, mainVars, TypesInv, TypeOK, ArgsInv
<1>6. CASE RunCallback
  <2>1. sched' \in Seq(Entries) /\ Len(sched') <= SchedDepth
    <3>1. sched \in Seq(Entries) /\ sched # << >> /\ sched' = Tail(sched)
      BY <1>6 DEF RunCallback, TypeOK, Entries
    <3>2. sched' \in Seq(Entries) /\ Len(sched') = Len(sched) - 1 /\ Len(sched) \in Nat
      BY <3>1, HeadTailProperties, LenProperties
    <3>. QED  BY <3>2, BoundsAssumption DEF TypeOK
  <2>. QED  BY <1>6, <2>1 DEF RunCallback, objVars, isrVars, mainVars, TypesInv, TypeOK, ArgsInv, Entries
<1>7. CASE Call
  <2>1. CASE \E i \in ScriptTimers, p \in Periods, m \in ScriptModes, f \in Callbacks :
               CallInit(i, p, m, f)
    <3>1. PICK i \in ScriptTimers, p \in Periods, m \in ScriptModes, f \in Callbacks :
             CallInit(i, p, m, f)
      BY <2>1
    <3>2. args' \in Arguments /\ args'.id \in ScriptTimers
      BY <3>1, Names DEF CallInit, Arguments
    <3>3. rerun' \subseteq Timers /\ pc' = "period"
      BY <3>1, Names DEF CallInit, TypeOK
    <3>. QED
      BY <3>1, <3>2, <3>3, Names DEF CallInit, objVars, isrVars, TypesInv, TypeOK, ArgsInv, Pcs
  <2>2. ASSUME NEW i \in ScriptTimers, CallPlain(i) \/ CallDeinit(i)
        PROVE  TypesInv'
    <3>1. args' \in Arguments /\ args'.id = i
      BY <2>2, Names DEF CallPlain, CallDeinit, Arguments
    <3>2. irqEnabled' \subseteq Timers /\ pc' \in {"period", "deactivate"}
      BY <2>2 DEF CallPlain, CallDeinit, TypeOK
    <3>3. UNCHANGED <<CLO, CS, C, irqOn, objVars, sched, isrVars, ldCS, rerun>>
      BY <2>2 DEF CallPlain, CallDeinit
    <3>. QED
      BY <3>1, <3>2, <3>3, Names DEF objVars, isrVars, TypesInv, TypeOK, ArgsInv, Pcs
  <2>3. ASSUME NEW i \in ScriptTimers, ResetCounter(i)
        PROVE  TypesInv'
    <3>1. counter' \in [Timers -> Nat]
      BY <2>3 DEF ResetCounter, TypeOK
    <3>. QED  BY <2>3, <3>1 DEF ResetCounter, isrVars, mainVars, TypesInv, TypeOK, ArgsInv
  <2>4. ASSUME NEW i \in ScriptTimers, SetCompare(i)
        PROVE  TypesInv'
    <3>1. C' \in [Timers -> Int]
      BY <2>4, <1>c DEF SetCompare, TypeOK
    <3>. QED  BY <2>4, <3>1 DEF SetCompare, objVars, isrVars, mainVars, TypesInv, TypeOK, ArgsInv
  <2>5. ASSUME NEW i \in ScriptTimers, NEW p \in Periods, SetPeriod(i, p)
        PROVE  TypesInv'
    <3>1. period' \in [Timers -> Int]
      BY <2>5, Names DEF SetPeriod, TypeOK
    <3>. QED  BY <2>5, <3>1 DEF SetPeriod, isrVars, mainVars, TypesInv, TypeOK, ArgsInv
  <2>6. ASSUME NEW i \in ScriptTimers, NEW f \in Callbacks, SetCallback(i, f)
        PROVE  TypesInv'
    <3>1. callback' \in [Timers -> {NULL, None, Fun}]
      BY <2>6, Names DEF SetCallback, TypeOK
    <3>. QED  BY <2>6, <3>1 DEF SetCallback, isrVars, mainVars, TypesInv, TypeOK, ArgsInv
  <2>. QED  BY <1>7, <2>1, <2>2, <2>3, <2>4, <2>5, <2>6 DEF Call
<1>8. CASE Method
  <2>. args.period \in Int /\ args.mode \in Modes /\ args.callback \in {None, Fun}
    BY DEF ArgsInv, Arguments
  <2>1. args.id \in ScriptTimers /\ args.id \in Timers
    BY <1>8, Names DEF Method, InitPeriod, InitMode, InitCallback, InitCounter, EnableTest,
       EnableCompare, EnableLoadCS, EnableStoreCS, EnableIrq, Deactivate, ArgsInv
  <2>2. /\ ldCS' \subseteq Timers /\ UNCHANGED rerun
        /\ \/ UNCHANGED args /\ pc' \in Pcs
           \/ args' = NoArgs /\ pc' = "idle"
    BY <1>8 DEF Method, InitPeriod, InitMode, InitCallback, InitCounter, EnableTest,
       EnableCompare, EnableLoadCS, EnableStoreCS, EnableIrq, Deactivate, Goto, Return, Pcs,
       TypeOK
  <2>3. ArgsInv'
    BY <2>1, <2>2, Names DEF ArgsInv
  <2>4. pc' \in Pcs /\ (pc' # "idle" => args'.id \in Timers)
    BY <2>2, <2>3, Names DEF ArgsInv, Pcs
  <2>5. CASE InitPeriod
    <3>1. period' \in [Timers -> Int]
      BY <2>5 DEF InitPeriod, TypeOK
    <3>. QED  BY <2>2, <2>3, <2>4, <2>5, <3>1 DEF InitPeriod, isrVars, TypesInv, TypeOK
  <2>6. CASE InitMode
    <3>1. mode' \in [Timers -> Modes]
      BY <2>6 DEF InitMode, TypeOK
    <3>. QED  BY <2>2, <2>3, <2>4, <2>6, <3>1 DEF InitMode, isrVars, TypesInv, TypeOK
  <2>7. CASE InitCallback
    <3>1. callback' \in [Timers -> {NULL, None, Fun}]
      BY <2>7 DEF InitCallback, TypeOK
    <3>. QED  BY <2>2, <2>3, <2>4, <2>7, <3>1 DEF InitCallback, isrVars, TypesInv, TypeOK
  <2>8. CASE InitCounter
    <3>1. counter' \in [Timers -> Nat]
      BY <2>8 DEF InitCounter, TypeOK
    <3>. QED  BY <2>2, <2>3, <2>4, <2>8, <3>1 DEF InitCounter, isrVars, TypesInv, TypeOK
  <2>9. CASE EnableTest \/ Deactivate
    <3>1. active' \subseteq Timers
      BY <2>1, <2>9 DEF EnableTest, Deactivate, TypeOK
    <3>. QED
      BY <2>2, <2>3, <2>4, <2>9, <3>1 DEF EnableTest, Deactivate, isrVars, TypesInv, TypeOK
  <2>10. CASE EnableCompare
    <3>1. C' \in [Timers -> Int]
      BY <1>c, <2>1, <2>10 DEF EnableCompare, TypeOK
    <3>. QED
      BY <2>2, <2>3, <2>4, <2>10, <3>1 DEF EnableCompare, objVars, isrVars, TypesInv, TypeOK
  <2>11. CASE EnableLoadCS \/ EnableStoreCS
    <3>1. CS' \subseteq Timers
      BY <2>11 DEF EnableLoadCS, EnableStoreCS, TypeOK
    <3>2. UNCHANGED <<CLO, C, irqEnabled, irqOn, objVars, sched, isrVars>>
      BY <2>11 DEF EnableLoadCS, EnableStoreCS
    <3>. QED  BY <2>2, <2>3, <2>4, <3>1, <3>2 DEF objVars, isrVars, TypesInv, TypeOK
  <2>12. CASE EnableIrq
    <3>1. irqEnabled' \subseteq Timers
      BY <2>1, <2>12 DEF EnableIrq, TypeOK
    <3>. QED
      BY <2>2, <2>3, <2>4, <2>12, <3>1 DEF EnableIrq, objVars, isrVars, TypesInv, TypeOK
  <2>. QED
    BY <1>8, <2>5, <2>6, <2>7, <2>8, <2>9, <2>10, <2>11, <2>12 DEF Method
<1>9. CASE UNCHANGED vars
  BY <1>9 DEF vars, TypesInv, TypeOK, ArgsInv
<1>. QED
  BY <1>1, <1>2, <1>3, <1>4, <1>5, <1>6, <1>7, <1>8, <1>9 DEF Next, Isr

\* The types hold at the start.
LEMMA TypesBegin == Init => TypesInv
<1>. SUFFICES ASSUME Init PROVE TypesInv
  OBVIOUS
<1>1. CLO \in 1 .. MaxTime /\ timer_value \in Int /\ isr \in Timers \cup {IsrIdle}
  BY BoundsAssumption DEF Init
<1>2. /\ C \in [Timers -> Int] /\ counter \in [Timers -> Nat] /\ period \in [Timers -> Int]
  BY DEF Init
<1>3. mode \in [Timers -> Modes]
  BY DEF Init, Modes
<1>4. callback \in [Timers -> {NULL, None, Fun}]
  BY DEF Init
<1>5. sched \in Seq(Timers \X {NULL, None, Fun}) /\ Len(sched) <= SchedDepth
  BY EmptySeq, BoundsAssumption DEF Init
<1>6. irqOn \in BOOLEAN /\ CS = {} /\ irqEnabled = {} /\ ldCS = {} /\ rerun = {}
      /\ active \subseteq Timers
  BY Names, Zenon DEF Init
<1>7. pc = "idle" /\ args = NoArgs
  BY DEF Init
<1>. QED
  BY <1>1, <1>2, <1>3, <1>4, <1>5, <1>6, <1>7, Names DEF TypesInv, TypeOK, ArgsInv, Pcs

\* Every variable keeps its type; in particular the queue of callbacks does not
\* outgrow MICROPY_SCHEDULER_DEPTH.
THEOREM TimerTypes == Spec => []TypeOK
<1>1. Spec => []TypesInv
  BY TypesBegin, TypesStep, PTL DEF Spec
<1>2. TypesInv => TypeOK
  BY DEF TypesInv
<1>. QED  BY <1>1, <1>2, PTL
-----------------------------------------------------------------------------
(***************************************************************************)
(* What holds whatever timers a script uses.                               *)
(***************************************************************************)
InitPcs   == {"period", "mode", "callback", "counter"}
EnablePcs == {"compare", "loadCS", "storeCS", "irq"}

\* The methods have left timer i alone since the interrupt was last enabled or
\* disabled.
Settled(i) == ~(pc \in EnablePcs \cup {"deactivate"} /\ args.id = i)

\* An active timer of the script's has its interrupt enabled, but for the time
\* that timer_enable and timer_disable take.
ActiveInv ==
  \A i \in ScriptTimers : i \in active /\ Settled(i) => i \in irqEnabled

\* While init() stores its arguments, an active timer is one that was running
\* when init() was called; Timer(id) makes the timer a periodic one.
StoresInv ==
  /\ pc \in InitPcs /\ args.enable /\ args.id \in active => args.id \in rerun
  /\ pc \in InitPcs /\ ~args.enable => args.mode = PERIODIC
  /\ pc \in {"callback", "counter"} => mode[args.id] = args.mode
  /\ pc = "enable" => args.enable

\* Matches timer i can still count before it is armed by another init()
ToCome(i) ==
  (IF i \in active THEN 1 ELSE 0) + (IF pc = "enable" /\ args.id = i THEN 1 ELSE 0)

\* What a one-shot timer has counted and what it may still count
OnceInv ==
  \A i \in Timers :
    mode[i] = ONE_SHOT
      => /\ i \in ScriptTimers
         /\ \/ pc \in InitPcs /\ args.id = i
            \/ counter[i] + ToCome(i) <= IF i \in rerun THEN 2 ELSE 1

\* The invariant for any timers
AnyInv == TypesInv /\ ActiveInv /\ StoresInv /\ OnceInv

\* What a step leaves alone that is neither a turn of the handler, a call nor a
\* step of a method; a counter is at most reset.
Quiet ==
  /\ UNCHANGED <<irqEnabled, active, mode, pc, args, rerun>>
  /\ \A i \in Timers : counter'[i] \in Nat /\ counter'[i] <= counter[i]

\* The steps by what they do to the timers
LEMMA StepCases ==
  ASSUME TypesInv, [Next]_vars
  PROVE  \/ Quiet
         \/ IsrTimer
         \/ \E i \in ScriptTimers, p \in Periods, m \in ScriptModes, f \in Callbacks :
              CallInit(i, p, m, f)
         \/ \E i \in ScriptTimers : CallPlain(i) \/ CallDeinit(i)
         \/ Method
<1>. counter \in [Timers -> Nat]
  BY DEF TypesInv, TypeOK
<1>1. ASSUME UNCHANGED <<irqEnabled, active, mode, pc, args, rerun, counter>>
      PROVE  Quiet
  <2>1. \A i \in Timers : counter'[i] \in Nat /\ counter'[i] <= counter[i]
    BY <1>1
  <2>. QED  BY <1>1, <2>1 DEF Quiet
<1>2. CASE Tick \/ IsrEnter \/ ToggleIrq \/ RunCallback \/ UNCHANGED vars
  <2>1. UNCHANGED <<irqEnabled, active, mode, pc, args, rerun, counter>>
    BY <1>2 DEF Tick, IsrEnter, ToggleIrq, RunCallback, vars, objVars, isrVars, mainVars
  <2>. QED  BY <1>1, <2>1
<1>3. CASE \E i \in GpuTimers : GpuCompare(i)
  <2>1. UNCHANGED <<irqEnabled, active, mode, pc, args, rerun, counter>>
    BY <1>3 DEF GpuCompare, objVars, isrVars, mainVars
  <2>. QED  BY <1>1, <2>1
<1>4. ASSUME NEW i \in ScriptTimers, ResetCounter(i)
      PROVE  Quiet
  <2>1. \A j \in Timers : counter'[j] \in Nat /\ counter'[j] <= counter[j]
    BY <1>4 DEF ResetCounter
  <2>2. UNCHANGED <<irqEnabled, active, mode, pc, args, rerun>>
    BY <1>4 DEF ResetCounter, mainVars
  <2>. QED  BY <2>1, <2>2 DEF Quiet
<1>5. ASSUME NEW i \in ScriptTimers,
             \/ SetCompare(i)
             \/ \E p \in Periods : SetPeriod(i, p)
             \/ \E f \in Callbacks : SetCallback(i, f)
      PROVE  Quiet
  <2>1. UNCHANGED <<irqEnabled, active, mode, pc, args, rerun, counter>>
    BY <1>5 DEF SetCompare, SetPeriod, SetCallback, objVars, isrVars, mainVars
  <2>. QED  BY <1>1, <2>1
<1>6. \/ Tick \/ \E i \in GpuTimers : GpuCompare(i)
      \/ IsrEnter \/ IsrTimer \/ ToggleIrq \/ RunCallback \/ Call \/ Method
      \/ UNCHANGED vars
  BY DEF Next, Isr
<1>7. CASE Call
  BY <1>4, <1>5, <1>7 DEF Call
<1>. QED  BY <1>2, <1>3, <1>6, <1>7

\* What one turn of the handler's loop does to the timer it looks at
LEMMA IsrTimerCases ==
  ASSUME TypesInv, IsrTimer
  PROVE  /\ isr \in Timers /\ UNCHANGED <<mode, pc, args, rerun>>
         /\ \/ UNCHANGED <<C, irqEnabled, active, counter>>
            \/ /\ isr \in active /\ counter' = [counter EXCEPT ![isr] = @ + 1]
               /\ mode[isr] = ONE_SHOT
                    => irqEnabled' = irqEnabled \ {isr} /\ active' = active \ {isr}
               /\ mode[isr] # ONE_SHOT => UNCHANGED <<irqEnabled, active>>
               /\ \A j \in Timers \ {isr} : C'[j] = C[j]
<1>. TypeOK /\ isr \in Timers
  BY DEF IsrTimer, TypesInv
<1>1. UNCHANGED <<mode, pc, args, rerun>>
  BY DEF IsrTimer, mainVars
<1>2. CASE timer_value = C[isr] /\ isr \in active
  <2>1. counter' = [counter EXCEPT ![isr] = @ + 1] /\ Rearm(isr)
    BY <1>2 DEF IsrTimer
  <2>. QED  BY <1>1, <1>2, <2>1, RearmCases
<1>3. CASE ~(timer_value = C[isr] /\ isr \in active)
  BY <1>1, <1>3 DEF IsrTimer
<1>. QED  BY <1>2, <1>3

\* What the stores of init() leave alone
LEMMA InitCases ==
  ASSUME TypesInv, InitPeriod \/ InitMode \/ InitCallback \/ InitCounter
  PROVE  /\ pc \in InitPcs /\ args.id \in ScriptTimers /\ args.mode \in Modes
         /\ UNCHANGED <<C, irqEnabled, active, rerun, isr, CS, timer_value>>
         /\ \A j \in Timers \ {args.id} : mode'[j] = mode[j] /\ counter'[j] = counter[j]
         /\ \/ /\ pc # "counter" /\ pc' \in InitPcs \ {"period"}
               /\ UNCHANGED <<args, counter>>
            \/ /\ pc = "counter" /\ UNCHANGED mode /\ counter' = [counter EXCEPT ![args.id] = 0]
               /\ \/ args.enable /\ pc' = "enable" /\ UNCHANGED args
                  \/ ~args.enable /\ pc' = "idle" /\ args' = NoArgs
         /\ pc' = "mode" => pc = "period" /\ UNCHANGED mode
         /\ pc' = "callback" => mode'[args.id] = args.mode
         /\ pc' = "counter" => pc = "callback" /\ UNCHANGED mode
<1>. /\ mode \in [Timers -> Modes] /\ counter \in [Timers -> Nat]
     /\ args \in Arguments /\ (pc # "idle" => args.id \in ScriptTimers)
  BY DEF TypesInv, TypeOK, ArgsInv
<1>0. args.mode \in Modes /\ ScriptTimers \subseteq Timers
  BY Names DEF Arguments
<1>1. CASE InitPeriod
  BY <1>0, <1>1 DEF InitPeriod, Goto, isrVars, InitPcs
<1>2. CASE InitMode
  BY <1>0, <1>2 DEF InitMode, Goto, isrVars, InitPcs
<1>3. CASE InitCallback
  BY <1>0, <1>3 DEF InitCallback, Goto, isrVars, InitPcs
<1>4. CASE InitCounter
  BY <1>0, <1>4 DEF InitCounter, Goto, Return, isrVars, InitPcs
<1>. QED  BY <1>1, <1>2, <1>3, <1>4

\* What timer_enable and timer_disable do
LEMMA EnableCases ==
  ASSUME TypesInv, Method, ~(InitPeriod \/ InitMode \/ InitCallback \/ InitCounter)
  PROVE  /\ pc \in EnablePcs \cup {"enable", "deactivate"} /\ args.id \in ScriptTimers
         /\ UNCHANGED <<counter, mode, rerun, isr, timer_value>>
         /\ isr = IsrIdle
         /\ \/ EnableTest /\ UNCHANGED <<C, CS, irqEnabled>>
            \/ /\ pc \in EnablePcs \ {"irq"} /\ pc' \in EnablePcs
               /\ UNCHANGED <<irqEnabled, active, args>>
               /\ \A j \in Timers \ {args.id} : C'[j] = C[j]
            \/ /\ pc = "irq" /\ irqEnabled' = irqEnabled \cup {args.id}
               /\ pc' = "idle" /\ args' = NoArgs /\ UNCHANGED <<C, CS, active>>
            \/ /\ pc = "deactivate" /\ active' = active \ {args.id}
               /\ pc' = "idle" /\ args' = NoArgs /\ UNCHANGED <<C, CS, irqEnabled>>
<1>. C \in [Timers -> Int] /\ (pc # "idle" => args.id \in ScriptTimers)
  BY DEF TypesInv, TypeOK, ArgsInv
<1>1. CASE EnableTest
  BY <1>1 DEF EnableTest, MainRuns, isrVars, Goto, Return, mainVars
<1>2. CASE EnableCompare
  BY <1>2 DEF EnableCompare, MainRuns, objVars, isrVars, Goto, EnablePcs
<1>3. CASE EnableLoadCS
  BY <1>3 DEF EnableLoadCS, MainRuns, objVars, isrVars, EnablePcs
<1>4. CASE EnableStoreCS
  BY <1>4 DEF EnableStoreCS, MainRuns, objVars, isrVars, Goto, EnablePcs
<1>5. CASE EnableIrq
  BY <1>5 DEF EnableIrq, MainRuns, objVars, isrVars, Return, EnablePcs
<1>6. CASE Deactivate
  BY <1>6 DEF Deactivate, MainRuns, isrVars, Return
<1>. QED  BY <1>1, <1>2, <1>3, <1>4, <1>5, <1>6 DEF Method

\* Every step keeps the script's active timers enabled.
LEMMA ActiveStep ==
  ASSUME AnyInv, [Next]_vars
  PROVE  ActiveInv'
<1>. TypesInv /\ ActiveInv
  BY DEF AnyInv
<1>. ScriptTimers \subseteq Timers /\ NoArgs.id \notin ScriptTimers
  BY Names DEF NoArgs
<1>. SUFFICES ASSUME NEW i \in ScriptTimers, i \in active', Settled(i)'
              PROVE  i \in irqEnabled'
  BY DEF ActiveInv
<1>1. CASE Quiet
  BY <1>1 DEF Quiet, ActiveInv, Settled
<1>2. CASE IsrTimer
  <2>1. i \in active /\ Settled(i)
    BY <1>2, IsrTimerCases DEF Settled
  <2>2. i \in irqEnabled
    BY <2>1 DEF ActiveInv
  <2>. QED  BY <1>2, <2>2, IsrTimerCases
<1>3. CASE \E j \in ScriptTimers, p \in Periods, m \in ScriptModes, f \in Callbacks :
             CallInit(j, p, m, f)
  <2>1. pc = "idle" /\ UNCHANGED <<active, irqEnabled>>
    BY <1>3 DEF CallInit, objVars
  <2>. QED  BY <2>1 DEF ActiveInv, Settled, EnablePcs
<1>4. CASE \E j \in ScriptTimers : CallPlain(j) \/ CallDeinit(j)
  <2>1. PICK j \in ScriptTimers : CallPlain(j) \/ CallDeinit(j)
    BY <1>4
  <2>2. pc = "idle" /\ UNCHANGED active
    BY <2>1 DEF CallPlain, CallDeinit, objVars
  <2>3. i \in irqEnabled
    BY <2>2 DEF ActiveInv, Settled, EnablePcs
  <2>4. CASE CallPlain(j)
    BY <2>3, <2>4 DEF CallPlain
  <2>5. CASE CallDeinit(j)
    <3>1. pc' = "deactivate" /\ args'.id = j /\ irqEnabled' = irqEnabled \ {j}
      BY <2>5 DEF CallDeinit, NoArgs
    <3>2. i # j
      BY <3>1 DEF Settled
    <3>. QED  BY <2>3, <3>1, <3>2
  <2>. QED  BY <2>1, <2>4, <2>5
<1>5. CASE InitPeriod \/ InitMode \/ InitCallback \/ InitCounter
  <2>1. pc \notin EnablePcs \cup {"deactivate"} /\ UNCHANGED <<active, irqEnabled>>
    BY <1>5, InitCases DEF InitPcs, EnablePcs
  <2>. QED  BY <2>1 DEF ActiveInv, Settled
<1>6. CASE Method /\ ~(InitPeriod \/ InitMode \/ InitCallback \/ InitCounter)
  <2>1. CASE EnableTest
    <3>1. pc = "enable" /\ UNCHANGED irqEnabled
      BY <2>1 DEF EnableTest
    <3>2. CASE args.id \in irqEnabled
      <4>1. UNCHANGED active
        BY <2>1, <3>2 DEF EnableTest
      <4>. QED  BY <3>1, <4>1 DEF ActiveInv, Settled, EnablePcs
    <3>3. CASE args.id \notin irqEnabled
      <4>1. pc' = "compare" /\ UNCHANGED args /\ active' = active \cup {args.id}
        BY <2>1, <3>3 DEF EnableTest, Goto
      <4>. QED  BY <3>1, <4>1 DEF ActiveInv, Settled, EnablePcs
    <3>. QED  BY <3>2, <3>3
  <2>2. CASE /\ pc \in EnablePcs \ {"irq"} /\ pc' \in EnablePcs
             /\ UNCHANGED <<irqEnabled, active, args>>
    BY <2>2 DEF ActiveInv, Settled
  <2>3. CASE /\ pc = "irq" /\ irqEnabled' = irqEnabled \cup {args.id}
             /\ UNCHANGED active
    BY <2>3 DEF ActiveInv, Settled
  <2>4. CASE /\ pc = "deactivate" /\ active' = active \ {args.id}
             /\ UNCHANGED irqEnabled
    BY <2>4 DEF ActiveInv, Settled
  <2>. QED  BY <1>6, <2>1, <2>2, <2>3, <2>4, EnableCases
<1>. QED  BY <1>1, <1>2, <1>3, <1>4, <1>5, <1>6, StepCases

\* Every step keeps what is known while init() stores its arguments.
LEMMA StoresStep ==
  ASSUME AnyInv, [Next]_vars
  PROVE  StoresInv'
<1>. TypesInv /\ ActiveInv /\ StoresInv
  BY DEF AnyInv
<1>1. CASE Quiet
  BY <1>1 DEF Quiet, StoresInv
<1>2. CASE IsrTimer
  <2>1. UNCHANGED <<mode, pc, args, rerun>> /\ active' \subseteq active
    BY <1>2, IsrTimerCases
  <2>. QED  BY <2>1 DEF StoresInv
<1>3. CASE \E j \in ScriptTimers, p \in Periods, m \in ScriptModes, f \in Callbacks :
             CallInit(j, p, m, f)
  <2>1. PICK j \in ScriptTimers, p \in Periods, m \in ScriptModes, f \in Callbacks :
           CallInit(j, p, m, f)
    BY <1>3
  <2>2. /\ pc = "idle" /\ pc' = "period" /\ args'.id = j /\ args'.enable = TRUE
        /\ UNCHANGED active
        /\ rerun' = IF j \in irqEnabled THEN rerun \cup {j} ELSE rerun \ {j}
    BY <2>1 DEF CallInit, objVars
  <2>3. j \in active => j \in irqEnabled
    BY <2>2 DEF ActiveInv, Settled, EnablePcs
  <2>. QED  BY <2>2, <2>3 DEF StoresInv
<1>4. CASE \E j \in ScriptTimers : CallPlain(j) \/ CallDeinit(j)
  <2>1. pc' \in {"period", "deactivate"} /\ args'.mode = PERIODIC /\ args'.enable = FALSE
    BY <1>4 DEF CallPlain, CallDeinit, NoArgs
  <2>. QED  BY <2>1 DEF StoresInv, InitPcs
<1>5. CASE InitPeriod \/ InitMode \/ InitCallback \/ InitCounter
  <2>1. /\ pc \in InitPcs
        /\ UNCHANGED <<active, rerun>>
        /\ \/ pc # "counter" /\ pc' \in InitPcs \ {"period"} /\ UNCHANGED args
           \/ pc = "counter" /\ args.enable /\ pc' = "enable" /\ UNCHANGED args
           \/ pc' = "idle"
    BY <1>5, InitCases
  <2>2. /\ pc' = "callback" => mode'[args.id] = args.mode
        /\ pc' = "counter" => pc = "callback" /\ UNCHANGED mode
    BY <1>5, InitCases
  <2>. QED  BY <2>1, <2>2 DEF StoresInv, InitPcs
<1>6. CASE Method /\ ~(InitPeriod \/ InitMode \/ InitCallback \/ InitCounter)
  <2>1. pc' \in EnablePcs \cup {"idle"}
    BY <1>6, EnableCases DEF EnableTest, Goto, Return, EnablePcs
  <2>. QED  BY <2>1 DEF StoresInv, InitPcs, EnablePcs
<1>. QED  BY <1>1, <1>2, <1>3, <1>4, <1>5, <1>6, StepCases

\* Every step keeps the count of a one-shot timer within what its init() allows.
LEMMA OnceStep ==
  ASSUME AnyInv, [Next]_vars
  PROVE  OnceInv'
<1>. TypesInv /\ ActiveInv /\ StoresInv /\ OnceInv
  BY DEF AnyInv
<1>. ScriptTimers \subseteq Timers /\ NoArgs.id \notin Timers
  BY Names, TimersAssumption DEF NoArgs
<1>. counter \in [Timers -> Nat] /\ mode \in [Timers -> Modes]
  BY DEF TypesInv, TypeOK
<1>. DEFINE Bound(i) == IF i \in rerun THEN 2 ELSE 1
            Kept(i)  == \/ pc \in InitPcs /\ args.id = i
                        \/ counter[i] + ToCome(i) <= Bound(i)
<1>. SUFFICES ASSUME NEW i \in Timers, mode'[i] = ONE_SHOT
              PROVE  i \in ScriptTimers /\ Kept(i)'
  BY DEF OnceInv
<1>0. ASSUME mode[i] = ONE_SHOT
      PROVE  i \in ScriptTimers /\ Kept(i)
  BY <1>0 DEF OnceInv
<1>1. CASE Quiet
  <2>1. counter'[i] \in Nat /\ counter'[i] <= counter[i] /\ counter[i] \in Nat
    BY <1>1 DEF Quiet
  <2>2. UNCHANGED <<pc, args>> /\ ToCome(i)' = ToCome(i) /\ ToCome(i) \in Int /\ UNCHANGED rerun
    BY <1>1 DEF Quiet, ToCome
  <2>3. i \in ScriptTimers /\ Kept(i)
    BY <1>0, <1>1 DEF Quiet
  <2>. QED  BY <2>1, <2>2, <2>3
<1>2. CASE IsrTimer
  <2>1. i \in ScriptTimers /\ Kept(i) /\ UNCHANGED <<pc, args, rerun>>
    BY <1>0, <1>2, IsrTimerCases
  <2>2. counter[i] \in Nat
    OBVIOUS
  <2>3. CASE UNCHANGED <<active, counter>>
    BY <2>1, <2>3 DEF ToCome
  <2>4. CASE /\ isr \in active /\ counter' = [counter EXCEPT ![isr] = @ + 1]
             /\ mode[isr] = ONE_SHOT => active' = active \ {isr}
             /\ mode[isr] # ONE_SHOT => UNCHANGED active
    <3>1. CASE i = isr
      <4>1. mode[i] = ONE_SHOT /\ i \in active /\ i \notin active' /\ counter'[i] = counter[i] + 1
        BY <1>2, <2>4, <3>1, IsrTimerCases
      <4>. QED  BY <2>1, <2>2, <4>1 DEF ToCome
    <3>2. CASE i # isr
      <4>1. counter'[i] = counter[i] /\ (i \in active' <=> i \in active)
        BY <2>4, <3>2
      <4>. QED  BY <2>1, <4>1 DEF ToCome
    <3>. QED  BY <3>1, <3>2
  <2>. QED  BY <1>2, <2>3, <2>4, IsrTimerCases
<1>3. CASE \E j \in ScriptTimers, p \in Periods, m \in ScriptModes, f \in Callbacks :
             CallInit(j, p, m, f)
  <2>1. PICK j \in ScriptTimers, p \in Periods, m \in ScriptModes, f \in Callbacks :
           CallInit(j, p, m, f)
    BY <1>3
  <2>2. /\ pc = "idle" /\ pc' = "period" /\ args'.id = j
        /\ UNCHANGED <<active, mode, counter>>
        /\ i # j => (i \in rerun' <=> i \in rerun)
    BY <2>1 DEF CallInit, objVars
  <2>3. i \in ScriptTimers /\ Kept(i)
    BY <1>0, <2>2
  <2>. QED  BY <2>2, <2>3 DEF ToCome, InitPcs
<1>4. CASE \E j \in ScriptTimers : CallPlain(j) \/ CallDeinit(j)
  <2>1. /\ pc = "idle" /\ pc' \in {"period", "deactivate"}
        /\ UNCHANGED <<active, mode, counter, rerun>>
    BY <1>4 DEF CallPlain, CallDeinit, objVars
  <2>2. i \in ScriptTimers /\ Kept(i)
    BY <1>0, <2>1
  <2>. QED  BY <2>1, <2>2 DEF ToCome, InitPcs
<1>5. CASE InitPeriod \/ InitMode \/ InitCallback \/ InitCounter
  <2>1. pc \in InitPcs /\ args.id \in ScriptTimers /\ UNCHANGED <<active, rerun>>
    BY <1>5, InitCases
  <2>2. CASE i # args.id
    <3>1. mode'[i] = mode[i] /\ counter'[i] = counter[i]
      BY <1>5, <2>2, InitCases
    <3>2. i \in ScriptTimers /\ Kept(i) /\ (UNCHANGED args \/ args' = NoArgs)
      BY <1>0, <1>5, <3>1, InitCases
    <3>3. args'.id # i
      BY <2>2, <3>2
    <3>. QED  BY <2>1, <2>2, <3>1, <3>2, <3>3 DEF ToCome, InitPcs
  <2>3. CASE i = args.id /\ pc # "counter"
    <3>1. pc' \in InitPcs /\ UNCHANGED args
      BY <1>5, <2>3, InitCases
    <3>. QED  BY <2>1, <2>3, <3>1
  <2>4. CASE i = args.id /\ pc = "counter"
    <3>1. /\ UNCHANGED mode /\ counter'[i] = 0
          /\ \/ args.enable /\ pc' = "enable" /\ UNCHANGED args
             \/ ~args.enable /\ pc' = "idle" /\ args' = NoArgs
      BY <1>5, <2>4, InitCases
    <3>2. args.mode = ONE_SHOT
      BY <2>4, <3>1 DEF StoresInv
    <3>3. args.enable /\ pc' = "enable" /\ UNCHANGED args
      BY <2>1, <3>1, <3>2 DEF StoresInv, PERIODIC, ONE_SHOT
    <3>4. i \in active => i \in rerun
      BY <2>1, <2>4, <3>3 DEF StoresInv
    <3>. QED  BY <2>1, <2>4, <3>1, <3>3, <3>4 DEF ToCome
  <2>. QED  BY <2>2, <2>3, <2>4
<1>6. CASE Method /\ ~(InitPeriod \/ InitMode \/ InitCallback \/ InitCounter)
  <2>1. UNCHANGED <<counter, mode, rerun>> /\ pc \notin InitPcs
    BY <1>6, EnableCases DEF InitPcs, EnablePcs
  <2>2. i \in ScriptTimers /\ counter[i] + ToCome(i) <= Bound(i) /\ counter[i] \in Nat
    BY <1>0, <2>1
  <2>3. ToCome(i)' <= ToCome(i) /\ ToCome(i)' \in Int /\ ToCome(i) \in Int
    <3>1. CASE EnableTest
      <4>1. pc = "enable" /\ pc' # "enable"
        BY <3>1 DEF EnableTest, Goto, Return
      <4>2. CASE args.id \in irqEnabled
        <5>1. UNCHANGED active
          BY <3>1, <4>2 DEF EnableTest
        <5>. QED  BY <4>1, <5>1 DEF ToCome
      <4>3. CASE args.id \notin irqEnabled
        <5>1. active' = active \cup {args.id}
          BY <3>1, <4>3 DEF EnableTest
        <5>2. i = args.id => i \notin active
          BY <2>2, <4>1, <4>3 DEF ActiveInv, Settled, EnablePcs
        <5>. QED  BY <4>1, <5>1, <5>2 DEF ToCome
      <4>. QED  BY <4>2, <4>3
    <3>2. CASE /\ pc \in EnablePcs \cup {"deactivate"} /\ pc' # "enable"
               /\ active' \subseteq active
      BY <3>2 DEF ToCome, EnablePcs
    <3>. QED  BY <1>6, <3>1, <3>2, EnableCases DEF EnablePcs
  <2>. QED  BY <2>1, <2>2, <2>3
<1>. QED  BY <1>1, <1>2, <1>3, <1>4, <1>5, <1>6, StepCases

\* Every step keeps what holds for any timers.
LEMMA AnyStep ==
  ASSUME AnyInv, [Next]_vars
  PROVE  AnyInv'
BY TypesStep, ActiveStep, StoresStep, OnceStep DEF AnyInv

\* Only the GPU's timers are active at the start.
LEMMA AnyBegin == Init => AnyInv
<1>. SUFFICES ASSUME Init PROVE AnyInv
  OBVIOUS
<1>1. pc = "idle" /\ active = GpuTimers
  BY DEF Init
<1>2. ActiveInv
  BY <1>1, Names DEF ActiveInv
<1>3. StoresInv
  BY <1>1 DEF StoresInv, InitPcs
<1>4. OnceInv
  <2>1. ASSUME NEW i \in Timers
        PROVE  mode[i] = FREE \/ mode[i] = PERIODIC
    BY DEF Init
  <2>2. ONE_SHOT # PERIODIC /\ ONE_SHOT # FREE
    BY DEF ONE_SHOT, PERIODIC, FREE
  <2>. QED  BY <2>1, <2>2 DEF OnceInv
<1>. QED  BY <1>2, <1>3, <1>4, TypesBegin DEF AnyInv

\* Since its last init() a one-shot timer has fired at most once, and once more
\* when it was running at the call: whatever timers a script uses, and wherever
\* the handler comes between the stores of init() and timer_enable.
THEOREM OnceOnly == Spec => []OneShotOnce
<1>1. Spec => []AnyInv
  BY AnyBegin, AnyStep, PTL DEF Spec
<1>2. AnyInv => OneShotOnce
  <2>. SUFFICES ASSUME AnyInv, NEW i \in Timers, mode[i] = ONE_SHOT,
                       ~(pc \in InitPcs /\ args.id = i)
                PROVE  counter[i] <= IF i \in rerun THEN 2 ELSE 1
    BY DEF OneShotOnce, InitPcs
  <2>1. counter[i] + ToCome(i) <= IF i \in rerun THEN 2 ELSE 1
    BY DEF AnyInv, OnceInv
  <2>2. counter[i] \in Nat /\ ToCome(i) \in Nat
    BY DEF AnyInv, TypesInv, TypeOK, ToCome
  <2>. QED  BY <2>1, <2>2
<1>. QED  BY <1>1, <1>2, PTL

-----------------------------------------------------------------------------
(***************************************************************************)
(* What holds when the script uses one timer, s.                           *)
(***************************************************************************)
\* The only interrupt enabled is the one of an active s; timer_enable runs with
\* none enabled, so the handler does not come between its stores.  The value
\* the handler looks for is the one of s until it has come to s.
AloneInv(s) ==
  /\ irqEnabled \subseteq {s} /\ irqEnabled \subseteq active
  /\ pc \in EnablePcs => irqEnabled = {} /\ isr = IsrIdle /\ args.id \in active
  /\ pc = "deactivate" => irqEnabled = {}
  /\ isr # IsrIdle /\ isr <= s => C[s] = timer_value

\* The handler's next turn looks at a later timer.
LEMMA IsrTimerNext ==
  ASSUME TypesInv, IsrTimer
  PROVE  isr' # IsrIdle => isr' \in Timers /\ isr' > isr /\ UNCHANGED timer_value
<1>1. CASE After(isr) = {}
  BY <1>1 DEF IsrTimer
<1>2. CASE After(isr) # {}
  <2>1. Least(After(isr)) \in After(isr)
    BY <1>2, LeastTimer DEF After
  <2>. QED  BY <1>2, <2>1 DEF IsrTimer, After
<1>. QED  BY <1>1, <1>2

\* The steps that change no interrupt enable and no timer's state, by what they
\* do to the handler and to the compare register of s
LEMMA QuietCases ==
  ASSUME TypesInv, [Next]_vars, NEW s \in ScriptTimers, ScriptTimers = {s},
         irqEnabled \subseteq {s}, Quiet, ~IsrTimer, ~Method
  PROVE  \/ UNCHANGED <<isr, timer_value>> /\ C'[s] = C[s]
         \/ isr = IsrIdle /\ UNCHANGED <<isr, timer_value>>
         \/ /\ irqEnabled # {} /\ isr = IsrIdle /\ UNCHANGED C /\ timer_value' = C[s]
<1>. C \in [Timers -> Int] /\ s \in Timers /\ s \notin GpuTimers
  BY Names DEF TypesInv, TypeOK
<1>1. CASE Tick \/ ToggleIrq \/ RunCallback \/ UNCHANGED vars
  BY <1>1 DEF Tick, ToggleIrq, RunCallback, vars, isrVars
<1>2. CASE \E i \in GpuTimers : GpuCompare(i)
  <2>1. PICK i \in GpuTimers : GpuCompare(i)
    BY <1>2
  <2>2. i # s /\ UNCHANGED <<isr, timer_value>>
    BY <2>1 DEF GpuCompare, isrVars
  <2>3. PICK p \in Periods : C' = [C EXCEPT ![i] = CLO + p]
    BY <2>1 DEF GpuCompare
  <2>. QED  BY <2>2, <2>3
<1>3. CASE IsrEnter
  <2>1. Pending = {s} /\ irqEnabled # {}
    BY <1>3 DEF IsrEnter, Pending
  <2>2. Least(Pending) = s
    BY <2>1, LeastTimer
  <2>. QED  BY <1>3, <2>1, <2>2 DEF IsrEnter
<1>4. CASE Call
  <2>1. UNCHANGED <<isr, timer_value>> /\ isr = IsrIdle
    BY <1>4 DEF Call, CallInit, CallPlain, CallDeinit, ResetCounter, SetCompare, SetPeriod,
       SetCallback, MainRuns, isrVars
  <2>. QED  BY <2>1
<1>. QED  BY <1>1, <1>2, <1>3, <1>4 DEF Next, Isr

\* Every step keeps what holds for a script with one timer.
LEMMA AloneStep ==
  ASSUME TypesInv, [Next]_vars, NEW s \in ScriptTimers, ScriptTimers = {s}, AloneInv(s)
  PROVE  AloneInv(s)'
<1>. /\ irqEnabled \subseteq {s} /\ irqEnabled \subseteq active
     /\ pc \in EnablePcs => irqEnabled = {} /\ isr = IsrIdle /\ args.id \in active
     /\ pc = "deactivate" => irqEnabled = {}
     /\ isr # IsrIdle /\ isr <= s => C[s] = timer_value
  BY DEF AloneInv
<1>. s \in Timers /\ s \in Int /\ Timers \subseteq Int /\ C \in [Timers -> Int]
  BY Names DEF TypesInv, TypeOK
<1>2. CASE IsrTimer
  <2>1. /\ isr \in Timers /\ isr # IsrIdle /\ UNCHANGED <<pc, args>> /\ pc \notin EnablePcs
    BY <1>2, IsrTimerCases, Names
  <2>2. irqEnabled' \subseteq irqEnabled /\ irqEnabled' \subseteq active'
    BY <1>2, IsrTimerCases
  <2>3. ASSUME isr' # IsrIdle, isr' <= s
        PROVE  C'[s] = timer_value'
    <3>1. isr' \in Timers /\ isr' > isr /\ UNCHANGED timer_value
      BY <1>2, <2>3, IsrTimerNext
    <3>2. isr < s
      BY <2>1, <2>3, <3>1
    <3>3. C'[s] = C[s]
      BY <1>2, <3>2, IsrTimerCases
    <3>. QED  BY <2>1, <3>1, <3>2, <3>3
  <2>. QED  BY <2>1, <2>2, <2>3 DEF AloneInv
<1>1. CASE Quiet /\ ~IsrTimer /\ ~Method
  <2>1. UNCHANGED <<irqEnabled, active, pc, args>>
    BY <1>1 DEF Quiet
  <2>2. \/ UNCHANGED <<isr, timer_value>> /\ C'[s] = C[s]
        \/ isr = IsrIdle /\ UNCHANGED <<isr, timer_value>>
        \/ irqEnabled # {} /\ isr = IsrIdle /\ UNCHANGED C /\ timer_value' = C[s]
    BY <1>1, QuietCases
  <2>. QED  BY <2>1, <2>2 DEF AloneInv
<1>3. CASE \E j \in ScriptTimers, p \in Periods, m \in ScriptModes, f \in Callbacks :
             CallInit(j, p, m, f)
  <2>1. /\ isr = IsrIdle /\ pc' = "period"
        /\ UNCHANGED <<irqEnabled, active, isr>>
    BY <1>3 DEF CallInit, MainRuns, objVars, isrVars
  <2>. QED  BY <2>1 DEF AloneInv, EnablePcs
<1>4. CASE \E j \in ScriptTimers : CallPlain(j) \/ CallDeinit(j)
  <2>1. PICK j \in ScriptTimers : CallPlain(j) \/ CallDeinit(j)
    BY <1>4
  <2>2. /\ isr = IsrIdle /\ UNCHANGED <<active, isr>> /\ irqEnabled' \subseteq irqEnabled
        /\ \/ pc' = "period"
           \/ pc' = "deactivate" /\ irqEnabled' = irqEnabled \ {j}
    BY <2>1 DEF CallPlain, CallDeinit, MainRuns, objVars, isrVars
  <2>3. j = s
    OBVIOUS
  <2>. QED  BY <2>2, <2>3 DEF AloneInv, EnablePcs
<1>5. CASE InitPeriod \/ InitMode \/ InitCallback \/ InitCounter
  <2>1. pc' \notin EnablePcs \cup {"deactivate"}
    BY <1>5, InitCases DEF InitPcs, EnablePcs
  <2>2. UNCHANGED <<C, irqEnabled, active, isr, timer_value>>
    BY <1>5, InitCases
  <2>. QED  BY <2>1, <2>2 DEF AloneInv
<1>6. CASE Method /\ ~(InitPeriod \/ InitMode \/ InitCallback \/ InitCounter)
  <2>1. isr = IsrIdle /\ UNCHANGED isr /\ args.id = s
    BY <1>6, EnableCases
  <2>2. CASE EnableTest
    <3>1. CASE args.id \in irqEnabled
      <4>1. pc' = "idle" /\ UNCHANGED <<active, irqEnabled>>
        BY <2>2, <3>1 DEF EnableTest, Return
      <4>. QED  BY <2>1, <4>1 DEF AloneInv, EnablePcs
    <3>2. CASE args.id \notin irqEnabled
      <4>1. /\ pc' = "compare" /\ UNCHANGED <<args, irqEnabled>>
            /\ active' = active \cup {args.id}
        BY <2>2, <3>2 DEF EnableTest, Goto
      <4>2. irqEnabled = {}
        BY <2>1, <3>2
      <4>. QED  BY <2>1, <4>1, <4>2 DEF AloneInv, EnablePcs
    <3>. QED  BY <3>1, <3>2
  <2>3. CASE /\ pc \in EnablePcs \ {"irq"} /\ pc' \in EnablePcs
             /\ UNCHANGED <<irqEnabled, active, args>>
    BY <2>1, <2>3 DEF AloneInv, EnablePcs
  <2>4. CASE /\ pc = "irq" /\ irqEnabled' = irqEnabled \cup {args.id}
             /\ pc' = "idle" /\ UNCHANGED active
    BY <2>1, <2>4 DEF AloneInv, EnablePcs
  <2>5. CASE /\ pc = "deactivate" /\ active' = active \ {args.id}
             /\ pc' = "idle" /\ UNCHANGED irqEnabled
    BY <2>1, <2>5 DEF AloneInv, EnablePcs
  <2>. QED  BY <1>6, <2>2, <2>3, <2>4, <2>5, EnableCases
<1>. QED  BY <1>1, <1>2, <1>3, <1>4, <1>5, <1>6, StepCases

\* With one timer of the script's, a timer whose interrupt is enabled is active,
\* whatever timers the GPU uses.
THEOREM EnabledTimersCount ==
  ASSUME NEW s, ScriptTimers = {s}
  PROVE  Spec => []EnabledIsActive
<1>1. Init => TypesInv /\ AloneInv(s)
  <2>1. Init => irqEnabled = {} /\ pc = "idle" /\ isr = IsrIdle
    BY DEF Init
  <2>. QED  BY <2>1, TypesBegin DEF AloneInv, EnablePcs
<1>2. TypesInv /\ AloneInv(s) /\ [Next]_vars => (TypesInv /\ AloneInv(s))'
  BY TypesStep, AloneStep
<1>3. AloneInv(s) => EnabledIsActive
  BY DEF AloneInv, EnabledIsActive
<1>. QED  BY <1>1, <1>2, <1>3, PTL DEF Spec

\* What clears a match: the handler, at a timer with the value it looks for, or
\* timer_enable.
LEMMA ClearCases ==
  ASSUME TypesInv, [Next]_vars, NEW i \in CS, i \notin CS'
  PROVE  (IsrTimer /\ timer_value = C[isr]) \/ pc = "storeCS"
<1>1. CASE Tick
  BY <1>1 DEF Tick
<1>2. CASE \E j \in GpuTimers : GpuCompare(j)
  BY <1>2 DEF GpuCompare
<1>3. CASE IsrEnter \/ ToggleIrq \/ RunCallback \/ UNCHANGED vars
  BY <1>3 DEF IsrEnter, ToggleIrq, RunCallback, vars
<1>4. CASE IsrTimer
  BY <1>4 DEF IsrTimer
<1>5. CASE Call
  BY <1>5 DEF Call, CallInit, CallPlain, CallDeinit, ResetCounter, SetCompare, SetPeriod,
     SetCallback
<1>6. CASE Method
  <2>1. CASE EnableStoreCS
    BY <2>1 DEF EnableStoreCS
  <2>2. CASE EnableTest \/ EnableCompare \/ EnableLoadCS \/ EnableIrq \/ Deactivate
    BY <2>2 DEF EnableTest, EnableCompare, EnableLoadCS, EnableIrq, Deactivate
  <2>3. CASE InitPeriod \/ InitMode \/ InitCallback \/ InitCounter
    BY <2>3 DEF InitPeriod, InitMode, InitCallback, InitCounter
  <2>. QED  BY <1>6, <2>1, <2>2, <2>3 DEF Method
<1>. QED  BY <1>1, <1>2, <1>3, <1>4, <1>5, <1>6 DEF Next, Isr

\* No match of the script's only timer is lost, when no timer comes after it in
\* the handler's loop: it is counted as it is cleared, or the loop has still to
\* come to the timer.  Behind s, a timer of the GPU's with the same compare value
\* would clear a match of s that came since its turn.
THEOREM TriggersServed ==
  ASSUME NEW s, ScriptTimers = {s}, \A j \in Timers : j <= s
  PROVE  Spec => TriggerServed
<1>. DEFINE Served ==
       \A i \in Timers :
         i \in irqEnabled /\ i \in CS /\ i \notin CS'
           => \/ counter'[i] = counter[i] + 1
              \/ isr # IsrIdle /\ isr < i /\ C[i] = timer_value
<1>1. Init => TypesInv /\ AloneInv(s)
  <2>1. Init => irqEnabled = {} /\ pc = "idle" /\ isr = IsrIdle
    BY DEF Init
  <2>. QED  BY <2>1, TypesBegin DEF AloneInv, EnablePcs
<1>2. TypesInv /\ AloneInv(s) /\ [Next]_vars => (TypesInv /\ AloneInv(s))'
  BY TypesStep, AloneStep
<1>3. TypesInv /\ AloneInv(s) /\ [Next]_vars => Served
  <2>. SUFFICES ASSUME TypesInv, AloneInv(s), [Next]_vars, NEW i \in Timers,
                       i \in irqEnabled, i \in CS, i \notin CS'
                PROVE  \/ counter'[i] = counter[i] + 1
                       \/ isr # IsrIdle /\ isr < i /\ C[i] = timer_value
    OBVIOUS
  <2>1. i = s /\ s \in active /\ pc \notin EnablePcs
    BY DEF AloneInv
  <2>2. IsrTimer /\ timer_value = C[isr]
    BY <2>1, ClearCases DEF EnablePcs
  <2>3. isr \in Timers /\ isr # IsrIdle /\ isr <= s /\ Timers \subseteq Int
    BY <2>2, Names DEF IsrTimer
  <2>4. C[s] = timer_value
    BY <2>3 DEF AloneInv
  <2>5. CASE isr = s
    <3>1. counter' = [counter EXCEPT ![s] = @ + 1]
      BY <2>1, <2>2, <2>5 DEF IsrTimer
    <3>. QED  BY <2>1, <3>1 DEF TypesInv, TypeOK
  <2>6. CASE isr # s
    BY <2>1, <2>3, <2>4, <2>6
  <2>. QED  BY <2>5, <2>6
<1>4. TypesInv /\ AloneInv(s) /\ [Next]_vars => [Served]_vars
  BY <1>3
<1>. QED  BY <1>1, <1>2, <1>4, PTL DEF Spec, TriggerServed
=============================================================================
