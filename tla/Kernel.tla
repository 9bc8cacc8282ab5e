-------------------------------- MODULE Kernel --------------------------------
(***************************************************************************)
(* The machine from _start on: boot.S and gdt_init, then interrupts, the   *)
(* timer and the keyboard's line.  What the devices do before idt_init is  *)
(* in Interrupts!Init: any state they may be in by then.                   *)
(***************************************************************************)
EXTENDS Timer, Boot

kvars == <<boot, vars, timer>>

KernelInit == BootInit /\ TimerInit

KernelNext ==
  \/ BootNext /\ UNCHANGED <<vars, timer>>
  \/ at = "idt_init" /\ TimerNext /\ UNCHANGED boot

KernelSpec == KernelInit /\ [][KernelNext]_kvars

Booted(A) == at = "idt_init" /\ A /\ UNCHANGED boot

(***************************************************************************)
(* A handler runs to its end, and an interrupt the processor can take is   *)
(* taken; the timer goes on ticking where a halted processor waits for it. *)
(* Ticks are 20 ms or more apart, and between two of them the processor    *)
(* executes millions of instructions: again and again it is back in kernel *)
(* code with no tick waiting, and ticks do not hold up that code or the    *)
(* keyboard's interrupts for ever.  Nothing is assumed of how long the     *)
(* rest of kernel_main takes, nor that a key is ever pressed.              *)
(***************************************************************************)
Fairness ==
  /\ WF_kvars(BootNext /\ ~Remember /\ UNCHANGED <<vars, timer>>)
  /\ WF_kvars(Booted(TimerHandling))
  /\ WF_kvars(Booted(sleeping.at = "halted" /\ TickInTime))
  /\ WF_kvars(Booted(Wake))
  /\ SF_kvars(Booted(Setup /\ UNCHANGED timer))
  /\ SF_kvars(Booted(SleepCode))
  /\ SF_kvars(Booted(Wake /\ Keyboard \notin request'))
  /\ []<>(pc \in Stopped \/ (pc \in KernelCode /\ Timer \notin request))

KernelFairSpec == KernelSpec /\ Fairness

=============================================================================
