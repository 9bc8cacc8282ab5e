-------------------------------- MODULE Timer --------------------------------
(***************************************************************************)
(* timer.c on top of the interrupts: timer_tick counts, and a caller in    *)
(* the rest of the kernel sleeps until the count has passed its target.    *)
(* (kernel_main itself does not call sleep today.)                         *)
(***************************************************************************)
EXTENDS Interrupts

CONSTANTS
  TICKS,               \* values of an unsigned int
  CLOCKS_PER_SECOND,
  MS,                  \* milliseconds in a second
  SleepBytes           \* bound: bytes by the end of a sleep

ASSUME ClockAssumption ==
  /\ {TICKS, CLOCKS_PER_SECOND, MS} \subseteq Nat \ {0}
  /\ TICKS > 2

VARIABLES
  ticks,
  sleeping    \* the call of sleep: where it is (at) and its target_ticks;
              \* history: fits, whether its numbers fit their type; asked,
              \* how many periods it was asked for if they do; elapsed, the
              \* timer's ticks since then (bound: TICKS); stepped, whether
              \* it has got on since the last of these

timer == <<ticks, sleeping>>

InSleep == sleeping.at \in {"test", "hlt", "halted"}

TimerInit ==
  /\ Init
  /\ ticks = 0
  /\ sleeping = [at |-> "not called", target |-> 0, fits |-> TRUE, asked |-> 0,
                 elapsed |-> 0, stepped |-> TRUE]

\* kernel code, which goes on when no tick is waiting to be served
Going == pc = "work" /\ Timer \notin request

Sleep(ms) ==
  /\ Going
  /\ sleeping.at = "not called"
  /\ data <= SleepBytes
  /\ LET periods == (ms * CLOCKS_PER_SECOND) \div MS
         fits    == ms * CLOCKS_PER_SECOND < TICKS /\ ticks + periods + 2 < TICKS
     IN sleeping' =
          [sleeping EXCEPT
             !.at = "test", !.fits = fits, !.asked = IF fits THEN periods ELSE 0,
             !.target = (ticks + ((ms * CLOCKS_PER_SECOND) % TICKS) \div MS) % TICKS]
  /\ UNCHANGED <<vars, ticks>>

\* Mutant: < instead of <=.
TestTicks_Less ==
  /\ Going
  /\ sleeping.at = "test"
  /\ sleeping' = [sleeping EXCEPT !.stepped = TRUE,
                    !.at = IF ticks < sleeping.target THEN "hlt" ELSE "woken"]
  /\ UNCHANGED <<vars, ticks>>

TestTicks ==
  /\ Going
  /\ sleeping.at = "test"
  /\ sleeping' = [sleeping EXCEPT !.stepped = TRUE,
                    !.at = IF ticks <= sleeping.target THEN "hlt" ELSE "woken"]
  /\ UNCHANGED <<vars, ticks>>

\* The instruction after the test: an interrupt in between does not end it.
Halt ==
  /\ Going
  /\ sleeping.at = "hlt"
  /\ sleeping' = [sleeping EXCEPT !.at = "halted", !.stepped = TRUE]
  /\ UNCHANGED <<vars, ticks>>

\* Any interrupt ends hlt; after iret the loop tests again.
Wake ==
  /\ \/ \E l \in {Timer, Keyboard} : Interrupt(l)
     \/ SpuriousInterrupt
  /\ sleeping' = [sleeping EXCEPT !.at = IF @ = "halted" THEN "test" ELSE @]
  /\ UNCHANGED ticks

\* Mutant: the count is not kept.
CountTick_Not == timer_tick /\ UNCHANGED timer

CountTick ==
  /\ timer_tick
  /\ ticks' = (ticks + 1) % TICKS
  /\ UNCHANGED sleeping

\* Two ticks are 20 ms apart: if the first one comes in a call of sleep, it
\* has been served by the second, and the call has got a step further.
TickInTime ==
  /\ Tick
  /\ InSleep => Timer \notin request /\ (sleeping.stepped \/ sleeping.at = "halted")
  /\ sleeping' = IF InSleep
                 THEN [sleeping EXCEPT !.stepped = FALSE,
                         !.elapsed = IF sleeping.fits /\ @ < TICKS THEN @ + 1 ELSE @]
                 ELSE sleeping
  /\ UNCHANGED ticks

SleepCode == TestTicks \/ Halt

TimerHandling ==
  \/ (isr_handler \/ irq_handler \/ keyboard_handler \/ sendEOI \/ irq_stub)
       /\ UNCHANGED timer
  \/ CountTick

TimerNext ==
  \/ Setup /\ UNCHANGED timer
  \/ /\ SendByte
     /\ sleeping.at # "not called" => data < SleepBytes
     /\ UNCHANGED timer
  \/ page_fault /\ ~InSleep /\ UNCHANGED timer
  \/ TimerHandling
  \/ TickInTime
  \/ Wake
  \/ SleepCode
  \/ \E ms \in 0 .. (TICKS - 1) : Sleep(ms)

-----------------------------------------------------------------------------

(***************************************************************************)
(* sleep lasts at least as many whole periods as it was asked for, and     *)
(* beyond these at most one more than it needs to be sure of that: a tick  *)
(* served between the test and hlt is noticed at the next one (timer.c).   *)
(* This is while the numbers fit their type.                               *)
(***************************************************************************)
SleptEnough ==
  sleeping.at = "woken" /\ sleeping.fits =>
    sleeping.elapsed \in (sleeping.asked + 1) .. (sleeping.asked + 2)

(***************************************************************************)
(* sleep returns, whatever interrupts do, unless its target is one of the  *)
(* last two values of the counter: the largest is never passed, and the    *)
(* one below may be passed unseen, between the test and hlt.               *)
(***************************************************************************)
SleepReturns ==
  (InSleep /\ sleeping.target + 2 < TICKS) ~> (sleeping.at = "woken")

=============================================================================
