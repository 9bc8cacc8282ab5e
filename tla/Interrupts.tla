----------------------------- MODULE Interrupts -----------------------------
(***************************************************************************)
(* How LumOS comes to serve interrupts: the order in which kernel_main,    *)
(* idt_init, load_idt, init_timer and init_keyboard set up the interrupt   *)
(* controller (PIC), the interrupt flag, the table of handlers and the     *)
(* keyboard controller, and the path of an interrupt from the PIC through  *)
(* irq_stub (interrupts.S), irq_handler and sendEOI (isr.c) to iret.       *)
(*                                                                         *)
(* One processor executes at pc; an interrupt pushes where it was on the   *)
(* stack.  Lines 0 (timer) and 1 (keyboard) of the master PIC are in use.  *)
(* The slave stays masked.  What comes of a tick is in module Timer, what  *)
(* comes of a byte in module Keyboard; module Kernel has the next-state    *)
(* relation.                                                               *)
(***************************************************************************)
EXTENDS Integers, Sequences, FiniteSetsExt

CONSTANT
  MaxBytes     \* bound: how many bytes the keyboard sends

ASSUME BytesAssumption == MaxBytes \in Nat

VARIABLES
  pc,         \* where the processor is
  flag,       \* the interrupt flag of the processor
  stack,      \* what interrupts have pushed, the top first
  base,       \* PIC: the vector of line 0
  mask,       \* PIC: the masked lines
  request,    \* PIC: the lines with a latched edge
  service,    \* PIC: the lines in service
  handlers,   \* handlers[] of isr.c
  full,       \* 8042: there is a byte nobody has read
  data,       \* 8042: the last byte that came from the keyboard, numbered
  handled     \* history: the bytes keyboard_handler has read

vars == <<pc, flag, stack, base, mask, request, service, handlers,
          full, data, handled>>
pic == <<base, mask, request, service>>
keyboard == <<full, data, handled>>

Lines == 0 .. 7
Timer == 0
Keyboard == 1
Spurious == 7

Vectors == 32 .. 47
NoHandler == "none"

-----------------------------------------------------------------------------
(***************************************************************************)
(* The processor's part: an interrupt through an entry of the IDT          *)
(***************************************************************************)

\* Mutant: trap gates, which leave the flag set.
EntryType_Trap == 143

\* The type of every entry, 0x8E: an interrupt gate.
EntryType == 142

\* What is on the stack when irq_handler is called for a vector of the PIC,
\* or isr_handler for a page fault: pushal, what the entry in interrupts.S
\* and the processor pushed, and what iret will take.
PushedByIRQ(vector) ==
  <<<<"registers", 0>>, <<"IRQ_num", vector - 32>>, <<"IDT_num", vector>>,
    <<"return", pc>>>>
PushedByFault(error) ==
  <<<<"registers", 0>>, <<"ISR_num", 14>>, <<"errorCode", error>>,
    <<"return", pc>>>>

\* Through the entry of the IDT and the stub to the handler.
Enter(pushed, handler) ==
  /\ stack' = pushed \o stack
  /\ flag' = (EntryType % 16 = 15)
  /\ pc' = handler

-----------------------------------------------------------------------------
(***************************************************************************)
(* kernel_main                                                             *)
(***************************************************************************)

\* The boot loader leaves interrupts disabled, the PIC as the BIOS set it
\* up, and perhaps a byte unread whose edge has come and gone.
Init ==
  /\ pc = "idt_init"
  /\ flag = FALSE
  /\ stack = <<>>
  /\ base = 8
  /\ mask \in SUBSET {Timer, Keyboard}
  /\ request \in SUBSET {Timer, Keyboard}
  /\ service = {}
  /\ handlers = [v \in Vectors |-> NoHandler]
  /\ full \in BOOLEAN
  /\ Keyboard \in request => full
  /\ data = 0
  /\ handled = <<>>

\* The PIC starts afresh, which forgets the edges it has latched; its lines
\* get vectors from 32 and are all masked; then load_idt enables interrupts.
\* An edge in the course of this is one right after it.
idt_init ==
  /\ pc = "idt_init"
  /\ base' = 32
  /\ mask' = Lines
  /\ request' = {}
  /\ service' = {}
  /\ flag' = TRUE
  /\ pc' = "unmask timer"
  /\ UNCHANGED <<stack, handlers, keyboard>>

\* Mutant: 0xFC instead of 0xFE.
init_timer_Both ==
  /\ pc = "unmask timer"
  /\ mask' = Lines \ {Timer, Keyboard}
  /\ pc' = "register timer"
  /\ UNCHANGED <<flag, stack, base, request, service, handlers, keyboard>>

\* init_timer unmasks its line first, with the timer running as the BIOS
\* left it: a tick that comes now finds no handler.
init_timer ==
  /\ pc = "unmask timer"
  /\ mask' = Lines \ {Timer}
  /\ pc' = "register timer"
  /\ UNCHANGED <<flag, stack, base, request, service, handlers, keyboard>>

\* Then it registers timer_tick and sets the frequency.
register_timer ==
  /\ pc = "register timer"
  /\ handlers' = [handlers EXCEPT ![32] = "timer_tick"]
  /\ pc' = "register keyboard"
  /\ UNCHANGED <<flag, stack, pic, keyboard>>

\* Mutant: the line is unmasked before the leftovers are read.
register_keyboard_Unmask ==
  /\ pc = "register keyboard"
  /\ handlers' = [handlers EXCEPT ![33] = "keyboard_handler"]
  /\ mask' = Lines \ {Timer, Keyboard}
  /\ pc' = "test buffer"
  /\ UNCHANGED <<flag, stack, base, request, service, keyboard>>

register_keyboard ==
  /\ pc = "register keyboard"
  /\ handlers' = [handlers EXCEPT ![33] = "keyboard_handler"]
  /\ pc' = "test buffer"
  /\ UNCHANGED <<flag, stack, pic, keyboard>>

\* Mutant: the leftovers are not read.
test_buffer_Skip ==
  /\ pc = "test buffer"
  /\ pc' = "unmask keyboard"
  /\ UNCHANGED <<flag, stack, pic, handlers, keyboard>>

test_buffer ==
  /\ pc = "test buffer"
  /\ pc' = IF full THEN "read buffer" ELSE "unmask keyboard"
  /\ UNCHANGED <<flag, stack, pic, handlers, keyboard>>

\* Mutant: the loop tests again without reading.
read_buffer_Not ==
  /\ pc = "read buffer"
  /\ pc' = "test buffer"
  /\ UNCHANGED <<flag, stack, pic, handlers, keyboard>>

\* Reading lowers the keyboard's line: a PIC may keep the edge it has
\* latched and masked, or drop it.
read_buffer ==
  /\ pc = "read buffer"
  /\ full' = FALSE
  /\ request' \in {request, request \ {Keyboard}}
  /\ pc' = "test buffer"
  /\ UNCHANGED <<flag, stack, base, mask, service, handlers, data, handled>>

unmask_keyboard ==
  /\ pc = "unmask keyboard"
  /\ mask' = Lines \ {Timer, Keyboard}
  /\ pc' = "work"
  /\ UNCHANGED <<flag, stack, base, request, service, handlers, keyboard>>

\* The rest of kernel_main ends with a store to a physical address, where
\* nothing is mapped: a page fault (14), not present and by a write (2).
page_fault ==
  /\ pc = "work"
  /\ Enter(PushedByFault(2), "isr_handler")
  /\ UNCHANGED <<pic, handlers, keyboard>>

-----------------------------------------------------------------------------
(***************************************************************************)
(* Interrupt handlers                                                      *)
(***************************************************************************)

\* It reports the exception and halts with the flag clear.  So does abort.
isr_handler ==
  /\ pc = "isr_handler"
  /\ pc' = "halted"
  /\ UNCHANGED <<flag, stack, pic, handlers, keyboard>>

\* irq_handler calls the handler of IDT_num, or reports that there is none.
irq_handler ==
  /\ pc = "irq_handler"
  /\ LET IDT_num == stack[3][2]
     IN pc' = IF handlers[IDT_num] = NoHandler THEN "sendEOI"
              ELSE handlers[IDT_num]
  /\ UNCHANGED <<flag, stack, pic, handlers, keyboard>>

timer_tick ==
  /\ pc = "timer_tick"
  /\ pc' = "sendEOI"
  /\ UNCHANGED <<flag, stack, pic, handlers, keyboard>>

keyboard_handler ==
  /\ pc = "keyboard_handler"
  /\ handled' = Append(handled, data)
  /\ full' = FALSE
  /\ request' \in {request, request \ {Keyboard}}
  /\ pc' = "sendEOI"
  /\ UNCHANGED <<flag, stack, base, mask, service, handlers, data>>

\* Mutant: the master is told only of interrupts of the slave.
sendEOI_Slave ==
  /\ pc = "sendEOI"
  /\ service' = IF stack[2][2] >= 8 THEN service \ {Min(service)} ELSE service
  /\ pc' = "return"
  /\ UNCHANGED <<flag, stack, base, mask, request, handlers, keyboard>>

\* The command ends the service of the first line in service, if any.
sendEOI ==
  /\ pc = "sendEOI"
  /\ service' = {l \in service : l # Min(service)}
  /\ pc' = "return"
  /\ UNCHANGED <<flag, stack, base, mask, request, handlers, keyboard>>

\* Mutant: add $4, as in isr_stub_errCode: iret goes to IDT_num.
irq_stub_Four ==
  /\ pc = "return"
  /\ pc' = stack[3][1]
  /\ stack' = SubSeq(stack, 4, Len(stack))
  /\ flag' = TRUE
  /\ UNCHANGED <<pic, handlers, keyboard>>

\* popal, add $8, iret.  Only code with the flag set is ever interrupted.
irq_stub ==
  /\ pc = "return"
  /\ pc' = stack[4][2]
  /\ stack' = SubSeq(stack, 5, Len(stack))
  /\ flag' = TRUE
  /\ UNCHANGED <<pic, handlers, keyboard>>

-----------------------------------------------------------------------------
(***************************************************************************)
(* The devices and the PIC                                                 *)
(***************************************************************************)

Tick ==
  /\ request' = request \cup {Timer}
  /\ UNCHANGED <<pc, flag, stack, base, mask, service, handlers, keyboard>>

\* The controller sends the next byte when the last one has been read.
SendByte ==
  /\ ~full
  /\ data < MaxBytes
  /\ full' = TRUE
  /\ data' = data + 1
  /\ request' = request \cup {Keyboard}
  /\ UNCHANGED <<pc, flag, stack, base, mask, service, handlers, handled>>

\* The line the PIC presents: the first one with a request that is not
\* masked, unless that line or one before it is in service.
Presented(l) ==
  /\ l \in request \ mask
  /\ \A m \in request \ mask : l <= m
  /\ \A m \in service : l < m

Interrupt(l) ==
  /\ flag
  /\ Presented(l)
  /\ request' = request \ {l}
  /\ service' = service \cup {l}
  /\ Enter(PushedByIRQ(base + l), "irq_handler")
  /\ UNCHANGED <<base, mask, handlers, keyboard>>

\* The keyboard's line has dropped meanwhile: a PIC may present line 7
\* instead, and has no line in service then.
SpuriousInterrupt ==
  /\ flag
  /\ Presented(Keyboard)
  /\ ~full
  /\ request' = request \ {Keyboard}
  /\ Enter(PushedByIRQ(base + Spurious), "irq_handler")
  /\ UNCHANGED <<base, mask, service, handlers, keyboard>>

-----------------------------------------------------------------------------

Setup ==
  \/ idt_init
  \/ init_timer \/ register_timer
  \/ register_keyboard \/ test_buffer \/ read_buffer \/ unmask_keyboard

SetupCode ==
  {"idt_init", "unmask timer", "register timer", "register keyboard",
   "test buffer", "read buffer", "unmask keyboard"}
KernelCode == SetupCode \cup {"work"}
InterruptCode ==
  {"irq_handler", "timer_tick", "keyboard_handler", "sendEOI", "return"}
Stopped == {"isr_handler", "halted"}

-----------------------------------------------------------------------------
(***************************************************************************)
(* Properties                                                              *)
(***************************************************************************)

TypeOK ==
  /\ pc \in KernelCode \cup InterruptCode \cup Stopped
  /\ flag \in BOOLEAN
  /\ \A n \in DOMAIN stack :
       stack[n][1] \in {"registers", "IRQ_num", "IDT_num", "ISR_num",
                        "errorCode", "return"}
  /\ base \in {8, 32}
  /\ mask \subseteq Lines
  /\ request \subseteq {Timer, Keyboard}
  /\ service \subseteq {Timer, Keyboard}
  /\ handlers \in [Vectors -> {NoHandler, "timer_tick", "keyboard_handler"}]
  /\ full \in BOOLEAN
  /\ data \in 0 .. MaxBytes
  /\ handled \in Seq(0 .. MaxBytes)

(***************************************************************************)
(* At most one interrupt is in the course of being handled: its handler    *)
(* interrupts kernel_main and nothing else, finds on the stack exactly     *)
(* what irq_stub pushed, and by the time kernel_main goes on no line is    *)
(* in service any more (0x8E gates, sendEOI, the stub's add $8).           *)
(***************************************************************************)
OneAtATime ==
  /\ pc \in KernelCode => stack = <<>> /\ service = {}
  /\ pc \in InterruptCode =>
       /\ ~flag
       /\ Len(stack) = 4
       /\ stack[4] \in {"return"} \X KernelCode
       /\ Cardinality(service) <= 1

(***************************************************************************)
(* A handler serves its own line, and the keyboard's line always finds     *)
(* keyboard_handler registered (the timer's may not).                      *)
(***************************************************************************)
OwnHandler ==
  /\ pc = "timer_tick" => service = {Timer}
  /\ pc = "keyboard_handler" => service = {Keyboard}
  /\ pc = "irq_handler" /\ service = {Keyboard} =>
       handlers[stack[3][2]] = "keyboard_handler"

(***************************************************************************)
(* Once the keyboard's line is unmasked an unread byte always has its      *)
(* interrupt still to come: the PIC sees edges only, so one byte missed    *)
(* would silence the keyboard for good.  This is what reading the buffer   *)
(* between idt_init and the unmasking is for.                              *)
(***************************************************************************)
KeyboardAlive ==
  full /\ Keyboard \notin mask /\ pc # "idt_init" =>
    \/ Keyboard \in request
    \/ Keyboard \in service /\ pc \in {"irq_handler", "keyboard_handler"}

Repeats == {n \in 2 .. Len(handled) : handled[n] = handled[n - 1]}

(***************************************************************************)
(* From the first byte keyboard_handler reads it reads every byte and in   *)
(* order: init_keyboard's own reading takes none away from it.  The edge   *)
(* of a byte that init_keyboard read, kept by the PIC, may call the        *)
(* handler once too often; it does not look whether there is a byte, so    *)
(* that one byte may be handled twice, but never more.                     *)
(***************************************************************************)
InOrder ==
  /\ \A n \in 2 .. Len(handled) :
       n \in Repeats \/ handled[n] = handled[n - 1] + 1
  /\ Cardinality(Repeats) <= 1

(***************************************************************************)
(* The reading of leftovers comes to an end and kernel_main goes on.       *)
(***************************************************************************)
SetupEnds == <>(pc \notin SetupCode /\ Keyboard \notin mask)

(***************************************************************************)
(* A byte that waits while the keyboard's line is unmasked is read, unless *)
(* kernel_main reaches its page fault first.                               *)
(***************************************************************************)
BytesAreRead ==
  (full /\ Keyboard \notin mask) ~> (~full \/ pc = "halted")

=============================================================================
