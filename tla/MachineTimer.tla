----------------------------- MODULE MachineTimer -----------------------------
(***************************************************************************)
(* machine.Timer (machine_timer.c): the timer objects, the system timer's  *)
(* compare and status registers, the interrupt handler isr_irq_timer and   *)
(* the methods a script calls, which run with interrupts enabled.          *)
(*                                                                         *)
(* The clock and the match bits are hardware: they move at any time.  The  *)
(* handler is split where it touches CS, the methods at every store the    *)
(* handler could come between.  Time starts at 1 and ends before the       *)
(* 32-bit counter wraps, so a compare value that is behind the clock is    *)
(* not reached again.                                                      *)
(*                                                                         *)
(* Scripts are supposed to leave timers 0 and 2, the GPU's, alone; the     *)
(* code does not enforce it (machine_timer.c:116 refuses numbers above 3). *)
(***************************************************************************)
EXTENDS Integers, Sequences

CONSTANTS
  Timers,      \* the timers whose compare registers are in use
  ScriptTimers,  \* those a script uses; 0 and 2 belong to the GPU
  Periods,     \* periods a script gives, in ticks
  ScriptModes, \* the modes it asks for
  Callbacks,   \* the callbacks it passes: None, Fun or both
  SchedDepth,  \* MICROPY_SCHEDULER_DEPTH
  MaxTime      \* bound: the last value of CLO

ASSUME TimersAssumption ==
  /\ Timers \subseteq 0 .. 3
  /\ ScriptTimers \subseteq Timers \ {0, 2} /\ ScriptTimers # {}
ASSUME PeriodsAssumption == Periods \subseteq Nat \ {0}
ASSUME ScriptAssumption ==
  ScriptModes \subseteq 0 .. 2 /\ Callbacks \subseteq {"None", "fun"}
ASSUME BoundsAssumption == SchedDepth \in Nat \ {0} /\ MaxTime \in Nat \ {0}

ONE_SHOT == 0
PERIODIC == 1
FREE     == 2
Modes    == {ONE_SHOT, PERIODIC, FREE}

GpuTimers == Timers \cap {0, 2}

\* callback is NULL in the object table, mp_const_none or a callable
NULL == "NULL"
None == "None"
Fun  == "fun"

\* The default period 0xffffffff, which 32-bit addition takes for -1
DefaultPeriod == -1

VARIABLES
  CLO, CS, C,                 \* systimer: counter, matches, compare registers
  irqEnabled,                 \* IRQ_ENABLE1, the system timer bits
  irqOn,                      \* CPSR.I is clear
  active, counter, period, mode, callback,  \* machine_timer_obj
  sched,                      \* callbacks queued by mp_sched_schedule
  isr,                        \* timer isr_irq_timer looks at, or IsrIdle
  timer_value,                \* isr_irq_timer's local
  pc, args,                   \* the method the script is in, its arguments
  ldCS,                       \* CS as loaded by timer_enable's |=
  rerun                       \* history: timers that ran when init() was called

objVars  == <<active, counter, period, mode, callback>>
isrVars  == <<isr, timer_value>>
mainVars == <<pc, args, ldCS, rerun>>
vars == <<CLO, CS, C, irqEnabled, irqOn, active, counter, period, mode,
          callback, sched, isr, timer_value, pc, args, ldCS, rerun>>

IsrIdle == -1
NoArgs  == [id |-> -1, period |-> DefaultPeriod, mode |-> PERIODIC,
            callback |-> None, enable |-> FALSE]
Init ==
  /\ CLO = 1 /\ CS = {} /\ C = [i \in Timers |-> 0]
  /\ irqEnabled = {} /\ irqOn = TRUE
  /\ active = GpuTimers
  /\ counter = [i \in Timers |-> 0]
  /\ period = [i \in Timers |-> 0]
  /\ mode = [i \in Timers |-> IF i \in GpuTimers THEN FREE ELSE PERIODIC]
  /\ callback = [i \in Timers |-> NULL]
  /\ sched = << >>
  /\ isr = IsrIdle /\ timer_value = 0
  /\ pc = "idle" /\ args = NoArgs /\ ldCS = {} /\ rerun = {}

-----------------------------------------------------------------------------
(* Hardware. *)

\* Latency the model assumes: an unmasked match is served before the timer's
\* next period is over, and timer_enable takes less than the period it sets.
Late(i) ==
  \/ i \in CS \cap irqEnabled /\ irqOn /\ CLO + 1 >= C[i] + period[i]
  \/ pc \in {"loadCS", "storeCS", "irq"} /\ args.id = i /\ CLO + 1 = C[i]

Tick ==
  /\ CLO < MaxTime
  /\ \A i \in Timers : period[i] > 0 => ~Late(i)
  /\ CLO' = CLO + 1
  /\ CS' = CS \cup {i \in Timers : C[i] = CLO + 1}
  /\ UNCHANGED <<C, irqEnabled, irqOn, objVars, sched, isrVars, mainVars>>

\* The GPU sets the compare register of a timer of its own.
GpuCompare(i) ==
  /\ \E p \in Periods : C' = [C EXCEPT ![i] = CLO + p]
  /\ UNCHANGED <<CLO, CS, irqEnabled, irqOn, objVars, sched, isrVars, mainVars>>

-----------------------------------------------------------------------------
(* isr_irq_timer. *)

Pending == CS \cap irqEnabled
Least(S) == CHOOSE i \in S : \A j \in S : i <= j
After(i) == {j \in Timers : j > i}

\* irq_handler; the value of the first pending timer is the one to serve.
IsrEnter ==
  /\ irqOn /\ isr = IsrIdle
  /\ Pending # {}
  /\ timer_value' = C[Least(Pending)]
  /\ isr' = Least(Timers)
  /\ UNCHANGED <<CLO, CS, C, irqEnabled, irqOn, objVars, sched, mainVars>>

\* Wrong on purpose: the queue has no limit.
Schedule_NoLimit(i) ==
  sched' = IF callback[i] # None
           THEN Append(sched, <<i, callback[i]>>) ELSE sched

\* mp_sched_schedule fails when the queue is full; the handler does not look.
Schedule(i) ==
  sched' = IF callback[i] # None /\ Len(sched) < SchedDepth
           THEN Append(sched, <<i, callback[i]>>) ELSE sched

\* Wrong on purpose: a one-shot timer keeps its interrupt.
Rearm_KeepsIrq(i) ==
  CASE mode[i] = PERIODIC ->
         /\ C' = [C EXCEPT ![i] = @ + period[i]]
         /\ UNCHANGED <<irqEnabled, active, period>>
    [] mode[i] = ONE_SHOT ->
         /\ active' = active \ {i}
         /\ UNCHANGED <<C, period, irqEnabled>>
    [] mode[i] = FREE ->
         /\ period' = [period EXCEPT ![i] = C[i]]
         /\ UNCHANGED <<C, irqEnabled, active>>

\* What a match does to an active timer, by mode
Rearm(i) ==
  CASE mode[i] = PERIODIC ->
         /\ C' = [C EXCEPT ![i] = @ + period[i]]
         /\ UNCHANGED <<irqEnabled, active, period>>
    [] mode[i] = ONE_SHOT ->
         /\ irqEnabled' = irqEnabled \ {i}
         /\ active' = active \ {i}
         /\ UNCHANGED <<C, period>>
    [] mode[i] = FREE ->
         /\ period' = [period EXCEPT ![i] = C[i]]
         /\ UNCHANGED <<C, irqEnabled, active>>

\* CS |= 1 << i: every bit that reads 1 is written back, and cleared by that.
ClearMatch(i) == CS' = {}

\* One iteration of the handler's loop
IsrTimer ==
  /\ isr \in Timers
  /\ IF timer_value = C[isr]
     THEN /\ IF isr \in active
             THEN /\ counter' = [counter EXCEPT ![isr] = @ + 1]
                  /\ Schedule(isr)
                  /\ Rearm(isr)
             ELSE UNCHANGED <<C, irqEnabled, active, counter, period, sched>>
          /\ ClearMatch(isr)
     ELSE UNCHANGED <<CS, C, irqEnabled, active, counter, period, sched>>
  /\ IF After(isr) = {}
     THEN isr' = IsrIdle /\ timer_value' = 0
     ELSE isr' = Least(After(isr)) /\ UNCHANGED timer_value
  /\ UNCHANGED <<CLO, irqOn, mode, callback, mainVars>>

-----------------------------------------------------------------------------
(* The script. *)

\* An unmasked interrupt is taken before the script's next instruction.
MainRuns == isr = IsrIdle /\ ~(irqOn /\ Pending # {})

\* The method returns: its locals are gone.
Return == pc' = "idle" /\ args' = NoArgs /\ ldCS' = {} /\ UNCHANGED rerun
Goto(l) == pc' = l /\ UNCHANGED <<args, ldCS, rerun>>

\* machine.disable_irq(), machine.enable_irq()
ToggleIrq ==
  /\ MainRuns /\ pc = "idle"
  /\ irqOn' = ~irqOn
  /\ UNCHANGED <<CLO, CS, C, irqEnabled, objVars, sched, isrVars, mainVars>>

\* mp_handle_pending runs the callback queued first
RunCallback ==
  /\ MainRuns /\ pc = "idle"
  /\ sched # << >>
  /\ sched' = Tail(sched)
  /\ UNCHANGED <<CLO, CS, C, irqEnabled, irqOn, objVars, isrVars, mainVars>>

\* Timer(id, period=, mode=, callback=) and init(): keyword arguments present
CallInit(i, p, m, f) ==
  /\ MainRuns /\ pc = "idle"
  /\ args' = [id |-> i, period |-> p, mode |-> m, callback |-> f,
              enable |-> TRUE]
  /\ rerun' = IF i \in irqEnabled THEN rerun \cup {i} ELSE rerun \ {i}
  /\ pc' = "period"
  /\ UNCHANGED <<CLO, CS, C, irqEnabled, irqOn, objVars, sched, isrVars, ldCS>>

\* Timer(id): the object is reset to the defaults and not enabled
CallPlain(i) ==
  /\ MainRuns /\ pc = "idle"
  /\ args' = [NoArgs EXCEPT !.id = i]
  /\ pc' = "period"
  /\ UNCHANGED <<CLO, CS, C, irqEnabled, irqOn, objVars, sched, isrVars, ldCS,
                 rerun>>

\* machine_timer_init_helper, store by store
InitPeriod ==
  /\ MainRuns /\ pc = "period"
  /\ period' = [period EXCEPT ![args.id] = args.period]
  /\ Goto("mode")
  /\ UNCHANGED <<CLO, CS, C, irqEnabled, irqOn, active, counter, mode, callback,
                 sched, isrVars>>

InitMode ==
  /\ MainRuns /\ pc = "mode"
  /\ mode' = [mode EXCEPT ![args.id] = args.mode]
  /\ Goto("callback")
  /\ UNCHANGED <<CLO, CS, C, irqEnabled, irqOn, active, counter, period,
                 callback, sched, isrVars>>

InitCallback ==
  /\ MainRuns /\ pc = "callback"
  /\ callback' = [callback EXCEPT ![args.id] = args.callback]
  /\ Goto("counter")
  /\ UNCHANGED <<CLO, CS, C, irqEnabled, irqOn, active, counter, period, mode,
                 sched, isrVars>>

\* Wrong on purpose: the counter is not reset.
InitCounter_Keep ==
  /\ MainRuns /\ pc = "counter"
  /\ IF args.enable THEN Goto("enable") ELSE Return
  /\ UNCHANGED <<CLO, CS, C, irqEnabled, irqOn, objVars, sched, isrVars>>

InitCounter ==
  /\ MainRuns /\ pc = "counter"
  /\ counter' = [counter EXCEPT ![args.id] = 0]
  /\ IF args.enable THEN Goto("enable") ELSE Return
  /\ UNCHANGED <<CLO, CS, C, irqEnabled, irqOn, active, period, mode, callback,
                 sched, isrVars>>

\* Wrong on purpose: an enabled timer is enabled once more.
EnableTest_Again ==
  /\ MainRuns /\ pc = "enable"
  /\ Goto("compare") /\ active' = active \cup {args.id}
  /\ UNCHANGED <<CLO, CS, C, irqEnabled, irqOn, counter, period, mode, callback,
                 sched, isrVars>>

\* timer_enable: nothing to do when the interrupt is already enabled
EnableTest ==
  /\ MainRuns /\ pc = "enable"
  /\ IF args.id \in irqEnabled
     THEN Return /\ UNCHANGED active
     ELSE Goto("compare") /\ active' = active \cup {args.id}
  /\ UNCHANGED <<CLO, CS, C, irqEnabled, irqOn, counter, period, mode, callback,
                 sched, isrVars>>

EnableCompare ==
  /\ MainRuns /\ pc = "compare"
  /\ C' = IF mode[args.id] # FREE
          THEN [C EXCEPT ![args.id] = CLO + period[args.id]] ELSE C
  /\ Goto("loadCS")
  /\ UNCHANGED <<CLO, CS, irqEnabled, irqOn, objVars, sched, isrVars>>

EnableLoadCS ==
  /\ MainRuns /\ pc = "loadCS"
  /\ ldCS' = CS
  /\ pc' = "storeCS"
  /\ UNCHANGED <<CLO, CS, C, irqEnabled, irqOn, objVars, sched, isrVars, args,
                 rerun>>

\* ... |= 1 << num: every match it has read is written back and so cleared
EnableStoreCS ==
  /\ MainRuns /\ pc = "storeCS"
  /\ CS' = CS \ (ldCS \cup {args.id})
  /\ Goto("irq")
  /\ UNCHANGED <<CLO, C, irqEnabled, irqOn, objVars, sched, isrVars>>

EnableIrq ==
  /\ MainRuns /\ pc = "irq"
  /\ irqEnabled' = irqEnabled \cup {args.id}
  /\ Return
  /\ UNCHANGED <<CLO, CS, C, irqOn, objVars, sched, isrVars>>

\* The script has the object of timer i: Timer(i) has returned once.
Constructed(i) == callback[i] # NULL

\* deinit(): timer_disable
CallDeinit(i) ==
  /\ MainRuns /\ pc = "idle" /\ Constructed(i)
  /\ irqEnabled' = irqEnabled \ {i}
  /\ args' = [NoArgs EXCEPT !.id = i]
  /\ pc' = "deactivate"
  /\ UNCHANGED <<CLO, CS, C, irqOn, objVars, sched, isrVars, ldCS, rerun>>

Deactivate ==
  /\ MainRuns /\ pc = "deactivate"
  /\ active' = active \ {args.id}
  /\ Return
  /\ UNCHANGED <<CLO, CS, C, irqEnabled, irqOn, counter, period, mode, callback,
                 sched, isrVars>>

\* period(value), callback(fun) and callback(None)
SetPeriod(i, p) ==
  /\ MainRuns /\ pc = "idle" /\ Constructed(i)
  /\ period' = [period EXCEPT ![i] = p]
  /\ UNCHANGED <<CLO, CS, C, irqEnabled, irqOn, active, counter, mode, callback,
                 sched, isrVars, mainVars>>

SetCallback(i, f) ==
  /\ MainRuns /\ pc = "idle" /\ Constructed(i)
  /\ callback' = [callback EXCEPT ![i] = f]
  /\ UNCHANGED <<CLO, CS, C, irqEnabled, irqOn, active, counter, period, mode,
                 sched, isrVars, mainVars>>

\* counter(0) and compare_register(value), a value ahead of the clock
ResetCounter(i) ==
  /\ MainRuns /\ pc = "idle" /\ Constructed(i)
  /\ counter' = [counter EXCEPT ![i] = 0]
  /\ UNCHANGED <<CLO, CS, C, irqEnabled, irqOn, active, period, mode, callback,
                 sched, isrVars, mainVars>>

SetCompare(i) ==
  /\ MainRuns /\ pc = "idle" /\ Constructed(i)
  /\ \E p \in Periods : C' = [C EXCEPT ![i] = CLO + p]
  /\ UNCHANGED <<CLO, CS, irqEnabled, irqOn, objVars, sched, isrVars, mainVars>>

-----------------------------------------------------------------------------
Isr == IsrEnter \/ IsrTimer
Method ==
  \/ InitPeriod \/ InitMode \/ InitCallback \/ InitCounter
  \/ EnableTest \/ EnableCompare \/ EnableLoadCS \/ EnableStoreCS \/ EnableIrq
  \/ Deactivate
Call ==
  \/ \E i \in ScriptTimers, p \in Periods, m \in ScriptModes, f \in Callbacks :
       CallInit(i, p, m, f)
  \/ \E i \in ScriptTimers :
       \/ CallPlain(i)
       \/ CallDeinit(i)
       \/ ResetCounter(i)
       \/ SetCompare(i)
       \/ \E p \in Periods : SetPeriod(i, p)
       \/ \E f \in Callbacks : SetCallback(i, f)

Next ==
  \/ Tick
  \/ \E i \in GpuTimers : GpuCompare(i)
  \/ Isr \/ ToggleIrq \/ RunCallback \/ Call \/ Method

Spec == Init /\ [][Next]_vars

-----------------------------------------------------------------------------
(* Properties. *)

Pcs == {"idle", "period", "mode", "callback", "counter", "enable", "compare",
        "loadCS", "storeCS", "irq", "deactivate"}

\* Every variable keeps its type.
TypeOK ==
  /\ CLO \in 1 .. MaxTime /\ CS \subseteq Timers
  /\ C \in [Timers -> Int]
  /\ irqEnabled \subseteq Timers /\ irqOn \in BOOLEAN
  /\ active \subseteq Timers
  /\ counter \in [Timers -> Nat]
  /\ period \in [Timers -> Int]
  /\ mode \in [Timers -> Modes]
  /\ callback \in [Timers -> {NULL, None, Fun}]
  /\ sched \in Seq(Timers \X {NULL, None, Fun}) /\ Len(sched) <= SchedDepth
  /\ isr \in Timers \cup {IsrIdle} /\ timer_value \in Int
  /\ pc \in Pcs /\ (pc # "idle" => args.id \in Timers)
  /\ ldCS \subseteq Timers /\ rerun \subseteq Timers

\* Since its last init() a one-shot timer has fired at most once, whatever the
\* handler does between the stores of machine_timer_init_helper
\* (machine_timer.c:103-106) and of timer_enable.  When the timer was running
\* at the call it may have fired once more: a match of the old setting that
\* comes before timer_enable's test (line 40) already counts as a one-shot, and
\* timer_enable then arms the timer again.
OneShotOnce ==
  \A i \in Timers :
    mode[i] = ONE_SHOT
        /\ ~(pc \in {"period", "mode", "callback", "counter"} /\ args.id = i)
      => counter[i] <= IF i \in rerun THEN 2 ELSE 1

\* With one timer of the script's, a timer whose interrupt is enabled is active:
\* its matches are counted, and a later init() may rely on timer_enable's early
\* return (machine_timer.c:40).
EnabledIsActive == irqEnabled \subseteq active

\* A match of an enabled timer is not cleared without being served: it is
\* counted in the same step, or the handler's loop has still to come to the
\* timer and will find the value it looks for (machine_timer.c:45 and 87; line
\* 196 has the callback called when the timer triggers).
TriggerServed ==
  [][\A i \in Timers :
       i \in irqEnabled /\ i \in CS /\ i \notin CS'
         => \/ counter'[i] = counter[i] + 1
            \/ isr # IsrIdle /\ isr < i /\ C[i] = timer_value]_vars
=============================================================================
