------------------------------- MODULE Sleep --------------------------------
(***************************************************************************)
(* The sleep calls of Kernel/lib/time_rtc.c on top of the kernel.  The     *)
(* queue of sleepers holds pids with the ticks they have left to wait; it  *)
(* is timer_handler (module Scheduler) that wakes them.  Every int 20h     *)
(* counts as a tick, the ones raised by yield and block too.               *)
(***************************************************************************)
EXTENDS Kernel

CONSTANT SleepTicks  \* how long the programs sleep, in ticks

ASSUME SleepAssumption == SleepTicks \subseteq Nat

-----------------------------------------------------------------------------
sleep_helper(s, ticks) ==
  block_current([s EXCEPT !.sleepers = enqueue(@, [pid |-> s.current, left |-> ticks])],
                "SLEEP", "resource")

\* usleep returns at once for less than a tick; sleep, in whole seconds, does not.
usleep(s, ticks) == IF ticks = 0 THEN s ELSE sleep_helper(s, ticks)

\* Tick, in the two steps of the handler.
TimerTick == UserMode /\ \E woken \in {timer_handler(k)} : k' = schedule(woken)

SleepCall ==
  /\ Program("sleep") /\ k.current # NULL
  /\ \E ticks \in SleepTicks : k' = usleep(k, ticks)

-----------------------------------------------------------------------------
Sleeping(p) == k.status[p] = "BLOCKED" /\ k.block_reason[p] = "SLEEP"
=============================================================================
