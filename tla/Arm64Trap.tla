------------------------------ MODULE Arm64Trap -----------------------------
(***************************************************************************)
(* Exceptions on the arm64 build: the vectors of arch/arm64/core/vector.S, *)
(* the handlers of exceptions.c, irq_lock and irq_unlock of                *)
(* include/kernel/irq.h, and the way of k_panic into arch_halt.            *)
(*                                                                         *)
(* The kernel runs at EL1 on SP_EL1, so only the vectors of group 2 are    *)
(* taken; FIQ, SError and debug exceptions are masked by startup.S and     *)
(* nothing unmasks them.  Interrupts arrive whenever PSTATE.I is clear,    *)
(* between any two steps.  A context is the kernel's code or a handler;    *)
(* code may hold interrupts off with irq_lock, and may panic.              *)
(***************************************************************************)
EXTENDS Naturals, Sequences, SequencesExt

CONSTANTS
  Data,         \* what the kernel keeps in its registers
  MaxSections,  \* how deep it nests critical sections
  MaxContexts,  \* bound on the contexts that are interrupted at a time
  HandlerLocks  \* may an interrupt handler use irq_lock and irq_unlock?

ASSUME TrapAssumption ==
  /\ MaxSections \in Nat
  /\ MaxContexts \in Nat
  /\ HandlerLocks \in BOOLEAN

(***************************************************************************)
(* x1 stands for the caller-saved x1 to x18, x19 for the callee-saved x19, *)
(* x20 and x23 to x28.  The vectors treat x0, x21, x22 and x30 specially.  *)
(***************************************************************************)
Regs        == {"x0", "x1", "x19", "x21", "x22", "x30"}
CallerSaved == {"x0", "x1", "x30"}
Frame       == Regs \cup {"elr", "spsr"}

Masks  == {"masked", "open"}
Places == {"main", "irq_entry", "irq", "exit_sys", "exit_regs", "eret",
           "sync_entry", "sync", "halt"}
Words  == Data \cup Masks \cup Places \cup {"sp"}

VARIABLES
  pc,     \* where the processor is
  regs,   \* its registers
  I,      \* PSTATE.I
  elr,    \* ELR_EL1
  spsr,   \* SPSR_EL1, its I bit
  stack,  \* the frames below _stack_top
  open,   \* for each context, the irq_locks it has not undone
  saved   \* history: the contexts interrupted, and by what

vars == <<pc, regs, I, elr, spsr, stack, open, saved>>

\* main as startup.S enters it: every interrupt is masked.
Init ==
  /\ pc = "main"
  /\ regs \in [Regs -> Data]
  /\ I = "masked"
  /\ elr \in Data
  /\ spsr = "masked"
  /\ stack = << >>
  /\ open = <<0>>
  /\ saved = << >>

-----------------------------------------------------------------------------
(* The kernel's code *)

Running == pc = "main" \/ (pc = "irq" /\ HandlerLocks)

Work ==
  /\ pc = "main"
  /\ \E r \in Regs, v \in Data : regs' = [regs EXCEPT ![r] = v]
  /\ UNCHANGED <<pc, I, elr, spsr, stack, open, saved>>

Sections == open[Len(open)]

\* Seeded fault: the lock does not mask.
LockNothing ==
  /\ Running
  /\ Sections < MaxSections
  /\ open' = [open EXCEPT ![Len(open)] = @ + 1]
  /\ UNCHANGED <<pc, regs, I, elr, spsr, stack, saved>>

\* arch_irq_lock: daifset.  The key it returns is never written.
arch_irq_lock ==
  /\ Running
  /\ Sections < MaxSections
  /\ I' = "masked"
  /\ open' = [open EXCEPT ![Len(open)] = @ + 1]
  /\ UNCHANGED <<pc, regs, elr, spsr, stack, saved>>

\* Seeded fault: a lock that was not taken is undone.
UnlockTwice ==
  /\ Running
  /\ I' = "open"
  /\ open' = [open EXCEPT ![Len(open)] = @ - 1]
  /\ UNCHANGED <<pc, regs, elr, spsr, stack, saved>>

\* arch_irq_unlock: daifclr, whatever the key says.
arch_irq_unlock ==
  /\ Running
  /\ Sections > 0
  /\ I' = "open"
  /\ open' = [open EXCEPT ![Len(open)] = @ - 1]
  /\ UNCHANGED <<pc, regs, elr, spsr, stack, saved>>

-----------------------------------------------------------------------------
(* Taking an exception *)

\* The processor: the return address and PSTATE are kept, I is set.
Vector(kind, place) ==
  /\ Len(saved) < MaxContexts
  /\ saved' = Append(saved, [by |-> kind, pc |-> pc, regs |-> regs, I |-> I])
  /\ elr' = pc
  /\ spsr' = I
  /\ I' = "masked"
  /\ pc' = place
  /\ open' = Append(open, 0)
  /\ UNCHANGED <<regs, stack>>

Interrupt == I = "open" /\ pc # "halt" /\ Vector("irq", "irq_entry")

\* ARCH_EXCEPT of k_panic and __ASSERT: svc #0 from the kernel or a handler.
k_panic == pc \in {"main", "irq"} /\ Vector("sync", "sync_entry")

Body == [irq_entry |-> "irq", sync_entry |-> "sync"]

\* Seeded fault: x21 and x22 are stored after they have been overwritten.
EntryStoresLate ==
  /\ pc \in DOMAIN Body
  /\ stack' = Append(stack, [r \in Frame |-> CASE r = "x21" -> elr
                                              [] r = "x22" -> spsr
                                              [] r = "elr" -> elr
                                              [] r = "spsr" -> spsr
                                              [] OTHER -> regs[r]])
  /\ regs' = [regs EXCEPT !["x21"] = elr, !["x22"] = spsr, !["x0"] = "sp", !["x30"] = pc]
  /\ pc' = Body[pc]
  /\ UNCHANGED <<I, elr, spsr, open, saved>>

\* kernel_entry, then the call of the handler with sp as its argument.
kernel_entry ==
  /\ pc \in DOMAIN Body
  /\ stack' = Append(stack, [r \in Frame |-> CASE r = "elr" -> elr
                                              [] r = "spsr" -> spsr
                                              [] OTHER -> regs[r]])
  /\ regs' = [regs EXCEPT !["x21"] = elr, !["x22"] = spsr, !["x0"] = "sp", !["x30"] = pc]
  /\ pc' = Body[pc]
  /\ UNCHANGED <<I, elr, spsr, open, saved>>

-----------------------------------------------------------------------------
(* The handlers and the way back *)

\* Seeded fault: the handler spins, as the FIQ handlers do.
IrqSpins == pc = "irq" /\ UNCHANGED vars

\* do_irq_el1_spx returns, with what the ABI lets it leave in registers.
do_irq_el1_spx ==
  /\ pc = "irq"
  /\ Sections = 0
  /\ \E v \in Data : regs' = [r \in Regs |-> IF r \in CallerSaved THEN v ELSE regs[r]]
  /\ pc' = "exit_sys"
  /\ UNCHANGED <<I, elr, spsr, stack, open, saved>>

\* Seeded fault: the fatal handler comes back.
SyncReturns ==
  /\ pc = "sync"
  /\ pc' = "exit_sys"
  /\ UNCHANGED <<regs, I, elr, spsr, stack, open, saved>>

\* do_sync_el1_spx: kernel_fatal_error masks interrupts and calls arch_halt.
do_sync_el1_spx ==
  /\ pc = "sync"
  /\ I' = "masked"
  /\ pc' = "halt"
  /\ UNCHANGED <<regs, elr, spsr, stack, open, saved>>

Top == stack[Len(stack)]

\* kernel_exit, first part: ELR_EL1 and SPSR_EL1 are loaded from the frame.
ExitSys ==
  /\ pc = "exit_sys"
  /\ elr' = Top["elr"]
  /\ spsr' = Top["spsr"]
  /\ regs' = [regs EXCEPT !["x21"] = Top["elr"], !["x22"] = Top["spsr"], !["x30"] = Top["x30"]]
  /\ pc' = "exit_regs"
  /\ UNCHANGED <<I, stack, open, saved>>

\* Seeded fault: the frame is not given back.
ExitKeepsFrame ==
  /\ pc = "exit_regs"
  /\ regs' = [r \in Regs |-> IF r = "x30" THEN regs[r] ELSE Top[r]]
  /\ pc' = "eret"
  /\ UNCHANGED <<I, elr, spsr, stack, open, saved>>

\* kernel_exit, second part: the other registers, and the frame is popped.
ExitRegs ==
  /\ pc = "exit_regs"
  /\ regs' = [r \in Regs |-> IF r = "x30" THEN regs[r] ELSE Top[r]]
  /\ stack' = Front(stack)
  /\ pc' = "eret"
  /\ UNCHANGED <<I, elr, spsr, open, saved>>

Eret ==
  /\ pc = "eret"
  /\ pc' = elr
  /\ I' = spsr
  /\ open' = Front(open)
  /\ saved' = Front(saved)
  /\ UNCHANGED <<regs, elr, spsr, stack>>

\* arch_halt waits for ever.
arch_halt == pc = "halt" /\ UNCHANGED vars

TrapStep ==
  kernel_entry \/ do_irq_el1_spx \/ do_sync_el1_spx \/ ExitSys \/ ExitRegs \/ Eret

Next ==
  \/ Work \/ arch_irq_lock \/ arch_irq_unlock \/ k_panic
  \/ Interrupt
  \/ TrapStep
  \/ arch_halt

\* The processor does not stop in the vectors or in a handler.
Spec == Init /\ [][Next]_vars /\ WF_vars(TrapStep)

-----------------------------------------------------------------------------
(* Properties *)

\* The type of every variable.
TypeOK ==
  /\ pc \in Places
  /\ regs \in [Regs -> Words]
  /\ I \in Masks
  /\ elr \in Words
  /\ spsr \in Masks
  /\ \A i \in DOMAIN stack : stack[i] \in [Frame -> Words]
  /\ \A i \in DOMAIN open : open[i] \in 0 .. MaxSections
  /\ Len(open) = Len(saved) + 1

(***************************************************************************)
(* An interrupt is invisible to the code it interrupts: eret goes back to  *)
(* where it was, with the registers and the mask it had, whatever steps of *)
(* the vectors and of the handler lie between.                             *)
(***************************************************************************)
Transparent ==
  [][Eret => LET was == saved[Len(saved)]
             IN  pc' = was.pc /\ regs' = was.regs /\ I' = was.I]_vars

(***************************************************************************)
(* include/kernel/irq.h:37: irq_unlock goes back to "the previously saved  *)
(* state", so no interrupt is taken between an irq_lock and the irq_unlock *)
(* that belongs to it.                                                     *)
(***************************************************************************)
SectionsAtomic ==
  \A i \in DOMAIN saved : saved[i].by = "irq" => open[i] = 0

(***************************************************************************)
(* The stack holds one frame for every exception between its kernel_entry  *)
(* and the end of its kernel_exit, and none while main runs: however many  *)
(* interrupts there are, the stack does not grow.                          *)
(***************************************************************************)
StackBalanced ==
  Len(stack) = Len(saved) - (IF pc \in DOMAIN Body \cup {"eret"} THEN 1 ELSE 0)

(***************************************************************************)
(* arch_halt is "the end-of-the-line function called by k_panic": a panic, *)
(* in the kernel or in a handler, ends there with interrupts masked.       *)
(***************************************************************************)
PanicHalts == pc = "sync_entry" ~> [](pc = "halt" /\ I = "masked")

\* The code that an interrupt stops goes on, unless the handler panics.
InterruptsEnd == pc = "irq_entry" ~> pc \in {"main", "halt"}
-----------------------------------------------------------------------------
(***************************************************************************)
(* The inductive invariant, for handlers that leave the mask alone.  An    *)
(* interrupt is then taken only from main with the mask open, and a panic  *)
(* from main or from the one handler that may be running, so at most two   *)
(* contexts are interrupted; and what Transparent promises is kept, on the *)
(* way in and out of the handler, in ELR_EL1, SPSR_EL1, the registers or   *)
(* the frame, wherever each of them is at that place.                      *)
(***************************************************************************)
IrqPlaces  == {"irq_entry", "irq", "exit_sys", "exit_regs", "eret"}
SyncPlaces == {"sync_entry", "sync", "halt"}

Contexts == [by : {"irq", "sync"}, pc : Places, regs : [Regs -> Words], I : Masks]

\* Who is interrupted.
Nesting ==
  /\ pc = "main" => saved = << >>
  /\ pc \in IrqPlaces => Len(saved) = 1 /\ saved[1].by = "irq"
  /\ pc \in SyncPlaces =>
       \/ Len(saved) = 1 /\ saved[1].by = "sync"
       \/ Len(saved) = 2 /\ saved[1].by = "irq" /\ saved[2].by = "sync"
  /\ pc # "main" => I = "masked"

\* Where the context of the interrupted code is kept.
InSysRegs(c)  == elr = c.pc /\ spsr = c.I
InFrame(f, c) == f["elr"] = c.pc /\ f["spsr"] = c.I /\ \A r \in Regs : f[r] = c.regs[r]

ContextKept ==
  /\ pc = "irq_entry" => InSysRegs(saved[1]) /\ regs = saved[1].regs
  /\ pc \in {"irq", "exit_sys", "exit_regs"} => InFrame(stack[1], saved[1])
  /\ pc = "exit_regs" => InSysRegs(saved[1]) /\ regs["x30"] = saved[1].regs["x30"]
  /\ pc = "eret" => InSysRegs(saved[1]) /\ regs = saved[1].regs

TrapInv ==
  /\ TypeOK
  /\ stack \in Seq([Frame -> Words])
  /\ open \in Seq(0 .. MaxSections)
  /\ saved \in Seq(Contexts)
  /\ StackBalanced
  /\ Nesting
  /\ ContextKept
  /\ \A i \in DOMAIN saved : saved[i].by = "irq" => saved[i].pc = "main" /\ saved[i].I = "open"

\* A section that is open keeps interrupts masked, when sections do not nest.
SectionMasks == pc = "main" /\ open[1] > 0 => I = "masked"
=============================================================================
