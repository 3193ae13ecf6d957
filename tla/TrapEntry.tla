----------------------------- MODULE TrapEntry -----------------------------
(***************************************************************************)
(* Entering and leaving the kernel on the boot processor, instruction by   *)
(* instruction where it matters: syscall_entry (kernel/src/arch/x86_64/    *)
(* syscall.rs), the interrupt vectors and interrupt_handler (interrupts.rs)*)
(* and without_interrupts (processor.rs).  The kernel finds ProcessorInfo  *)
(* through gs, so gs has to be the kernel's in all kernel code and the     *)
(* program's outside.                                                      *)
(*                                                                         *)
(* Switching threads on the timer follows the block of interrupt_handler   *)
(* that is commented out at this commit (see Scheduler).                   *)
(***************************************************************************)
EXTENDS Integers

CONSTANTS UserThreads, KernelThreads, NoThread

ASSUME ThreadsAssumption ==
    UserThreads \cap KernelThreads = {} /\ NoThread \notin UserThreads \cup KernelThreads

Threads == UserThreads \cup KernelThreads

VARIABLES thread,          \* whose code the processor executes
          pc,              \* where: see Places
          cs,              \* the privilege in CS
          intr,            \* RFLAGS.IF
          gs,              \* whose gs base is active; swapgs exchanges the two
          frame,           \* InterruptFrame on the interrupt stack (IST 2)
          number,          \* the argument of interrupt_handler: see Vectors
          need_swap,       \* the local of interrupt_handler
          saved,           \* Thread.registers: the frame a thread resumes with
          slot,            \* gs:[0x10]: whose stack pointer syscall_entry saved
          wild,            \* core!() has been read through the program's gs
          halted           \* the kernel has panicked

vars == <<thread, pc, cs, intr, gs, frame, number, need_swap, saved, slot, wild, halted>>

\* user: a program.  kernel: the function of a kernel thread.  entry:
\* syscall_entry before its cli.  masked: after it.  syscall: on the syscall
\* stack.  leaving: between the last swapgs and sysretq.  vector: a vector
\* before interrupt_handler looks at the frame.  handler: after that.
\* iret: after interrupt_handler.
Places == {"user", "kernel", "entry", "masked", "syscall", "leaving",
           "vector", "handler", "iret"}
Vectors == {"fault", "timer", "device"}
Frames == [pc : Places, cs : {"user", "kernel"}, intr : BOOLEAN]

\* replace_image gives a program rflags 0x202, Thread::create a kernel thread.
FirstFrame(t) ==
    IF t \in UserThreads THEN [pc |-> "user", cs |-> "user", intr |-> TRUE]
                         ELSE [pc |-> "kernel", cs |-> "kernel", intr |-> TRUE]

Init ==
    /\ thread \in KernelThreads
    /\ pc = "kernel" /\ cs = "kernel" /\ intr = TRUE
    /\ gs = "kernel"
    /\ frame = FirstFrame(thread)
    /\ number = "device"
    /\ need_swap = FALSE
    /\ saved = [t \in Threads |-> FirstFrame(t)]
    /\ slot = NoThread
    /\ wild = FALSE
    /\ halted = FALSE

Alive == ~wild /\ ~halted
Swapgs == gs' = IF gs = "kernel" THEN "user" ELSE "kernel"

\* The flags initialize writes to MSR_FMASK, which the syscall instruction
\* clears: 0x002, a reserved bit.  IF is 0x200.
FMASK == {}

\* The syscall instruction.
Syscall ==
    /\ Alive /\ pc = "user"
    /\ pc' = "entry"
    /\ cs' = "kernel"
    /\ intr' = (intr /\ "IF" \notin FMASK)
    /\ UNCHANGED <<thread, gs, frame, number, need_swap, saved, slot, wild, halted>>

\* Mutant of Cli: interrupts stay enabled in a system call.
CliMissing ==
    /\ Alive /\ pc = "entry"
    /\ pc' = "masked"
    /\ UNCHANGED <<thread, cs, intr, gs, frame, number, need_swap, saved, slot, wild, halted>>

\* syscall_entry: cli ...
Cli ==
    /\ Alive /\ pc = "entry"
    /\ pc' = "masked"
    /\ intr' = FALSE
    /\ UNCHANGED <<thread, cs, gs, frame, number, need_swap, saved, slot, wild, halted>>

\* ... swapgs, save the program's stack pointer, take the syscall stack ...
EnterSyscall ==
    /\ Alive /\ pc = "masked"
    /\ pc' = "syscall"
    /\ Swapgs
    /\ slot' = thread
    /\ UNCHANGED <<thread, cs, intr, frame, number, need_swap, saved, wild, halted>>

\* ... syscall_handler, restore the stack pointer, swapgs ...
LeaveSyscall ==
    /\ Alive /\ pc = "syscall"
    /\ pc' = "leaving"
    /\ Swapgs
    /\ UNCHANGED <<thread, cs, intr, frame, number, need_swap, saved, slot, wild, halted>>

\* ... sysretq, which takes the flags from r11.
Sysret ==
    /\ Alive /\ pc = "leaving"
    /\ pc' = "user" /\ cs' = "user" /\ intr' = TRUE
    /\ UNCHANGED <<thread, gs, frame, number, need_swap, saved, slot, wild, halted>>

\* disable_interrupts and enable_interrupts around without_interrupts.
WithoutInterrupts ==
    /\ Alive /\ pc = "kernel"
    /\ intr' = ~intr
    /\ UNCHANGED <<thread, pc, cs, gs, frame, number, need_swap, saved, slot, wild, halted>>

\* What the processor does for every vector: all of them are interrupt gates.
Vector(n) ==
    /\ number' = n
    /\ frame' = [pc |-> pc, cs |-> cs, intr |-> intr]
    /\ pc' = "vector" /\ cs' = "kernel" /\ intr' = FALSE
    /\ UNCHANGED <<thread, gs, need_swap, saved, slot, wild, halted>>

Interrupt == Alive /\ intr /\ \E n \in {"timer", "device"} : Vector(n)

\* A program faults, or kernel code touches the vmalloc area, or user_write
\* writes where the program has no page.
PageFault == Alive /\ pc \in {"user", "kernel", "syscall"} /\ Vector("fault")

\* interrupt_handler up to enter_interrupt, its first use of core!().
InterruptHandlerEntry ==
    /\ Alive /\ pc = "vector"
    /\ pc' = "handler"
    /\ need_swap' = (frame.cs = "user")
    /\ IF need_swap' THEN Swapgs ELSE UNCHANGED gs
    /\ wild' = (gs' # "kernel")
    /\ UNCHANGED <<thread, cs, intr, frame, number, saved, slot, halted>>

\* The rest of interrupt_handler: a resolved page fault, the keyboard, the
\* timer before the scheduler is ready.
InterruptHandlerReturn ==
    /\ Alive /\ pc = "handler"
    /\ pc' = "iret"
    /\ IF need_swap THEN Swapgs ELSE UNCHANGED gs
    /\ UNCHANGED <<thread, cs, intr, frame, number, need_swap, saved, slot, wild, halted>>

\* Mutant of SwitchThread: need_swap is not computed for the new thread.
SwitchThreadStaleSwap(t) ==
    /\ Alive /\ pc = "handler"
    /\ number = "timer"
    /\ pc' = "iret"
    /\ saved' = [saved EXCEPT ![thread] = frame]
    /\ thread' = t
    /\ frame' = saved'[t]
    /\ IF need_swap THEN Swapgs ELSE UNCHANGED gs
    /\ UNCHANGED <<cs, intr, number, need_swap, slot, wild, halted>>

\* The rest of interrupt_handler for the timer: schedule has picked t, whose
\* registers replace the frame and decide about swapgs.
SwitchThread(t) ==
    /\ Alive /\ pc = "handler"
    /\ number = "timer"
    /\ pc' = "iret"
    /\ saved' = [saved EXCEPT ![thread] = frame]
    /\ thread' = t
    /\ frame' = saved'[t]
    /\ need_swap' = (frame'.cs = "user")
    /\ IF need_swap' THEN Swapgs ELSE UNCHANGED gs
    /\ UNCHANGED <<cs, intr, number, slot, wild, halted>>

\* page_fault answers false.
InterruptHandlerPanic ==
    /\ Alive /\ pc = "handler"
    /\ number = "fault"
    /\ halted' = TRUE
    /\ intr' = FALSE
    /\ UNCHANGED <<thread, pc, cs, gs, frame, number, need_swap, saved, slot, wild>>

Iret ==
    /\ Alive /\ pc = "iret"
    /\ pc' = frame.pc /\ cs' = frame.cs /\ intr' = frame.intr
    /\ UNCHANGED <<thread, gs, frame, number, need_swap, saved, slot, wild, halted>>

Next ==
    \/ Syscall \/ Cli \/ EnterSyscall \/ LeaveSyscall \/ Sysret
    \/ WithoutInterrupts
    \/ Interrupt \/ PageFault
    \/ InterruptHandlerEntry \/ InterruptHandlerReturn \/ InterruptHandlerPanic \/ Iret
    \/ \E t \in Threads : SwitchThread(t)

Spec == Init /\ [][Next]_vars
-----------------------------------------------------------------------------
TypeOK ==
    /\ thread \in Threads
    /\ pc \in Places
    /\ cs \in {"user", "kernel"}
    /\ intr \in BOOLEAN
    /\ gs \in {"user", "kernel"}
    /\ frame \in Frames
    /\ number \in Vectors
    /\ need_swap \in BOOLEAN
    /\ saved \in [Threads -> Frames]
    /\ slot \in Threads \cup {NoThread}
    /\ wild \in BOOLEAN
    /\ halted \in BOOLEAN

\* Wherever an interrupt, a fault or a switch of threads falls, programs run
\* with their own gs and kernel code that uses core!() with the kernel's, up
\* to the point where core!() itself has gone wrong (see NeverWild).
GsRight ==
    ~wild =>
        /\ pc = "user" => gs = "user" /\ cs = "user"
        /\ pc \in {"kernel", "syscall", "handler"} => gs = "kernel" /\ cs = "kernel"

\* A system call returns to the stack it came from: nobody else enters the
\* kernel through syscall_entry before the stack pointer in gs:[0x10] has
\* been restored, and the one syscall stack has one user.
SysretOwnStack ==
    ~wild =>
        /\ pc \in {"syscall", "leaving"} => slot = thread
        /\ pc \in {"vector", "handler", "iret"} /\ frame.pc = "syscall" => slot = thread
        /\ \A t \in Threads \ {thread} : saved[t].pc \notin {"masked", "syscall", "leaving"}

\* "Check if we came from userspace if so swap the gs base": interrupt_handler
\* always has the kernel's gs when it first uses core!().
NeverWild == ~wild
=============================================================================
