---------------------------- MODULE KernelLocks ----------------------------
(***************************************************************************)
(* The spin locks of the kernel and the interrupts that arrive while they  *)
(* are held, on the boot processor.  TrapEntry gives entering and leaving  *)
(* the kernel; this module adds what runs in between: every routine is the *)
(* sequence of its lock operations, of the interrupt masking around them   *)
(* and of its effects on the scheduler and the interrupt controllers.      *)
(* There is one processor, so whoever finds a lock taken with interrupts   *)
(* disabled spins for ever.                                                *)
(*                                                                         *)
(* Two threads exist, those of kernel_init_thread and kernel_test_thread.  *)
(* The first becomes a program: Program is the same thread with the        *)
(* registers and the memory space that replace_image gave it.              *)
(***************************************************************************)
EXTENDS TrapEntry, Sequences

CONSTANTS InitThread, TestThread, Program,
          Handler          \* interrupt_handler, as the holder of a lock

ASSUME CastAssumption ==
    /\ KernelThreads = {InitThread, TestThread} /\ InitThread # TestThread
    /\ UserThreads = {Program}
    /\ Handler \notin Threads \cup {NoThread}

VARIABLES scheduling,      \* whether the block of interrupt_handler that calls schedule is compiled in
          ready,           \* Scheduler.ready
          replaced,        \* replace_image has run
          todo,            \* what each thread and the handler still execute
          were,            \* were_enabled of the without_interrupts calls they are in
          held,            \* who holds each lock
          in_service       \* the controllers that wait for an end of interrupt

lockVars == <<scheduling, ready, replaced, todo, were, held, in_service>>
allVars == <<vars, lockVars>>
-----------------------------------------------------------------------------
\* Every thread and every process of the kernel is behind an RwLock, and so
\* is a device; no two readers of one ever meet, so all locks are exclusive.
ThreadLock(t) == IF t = TestThread THEN "test thread" ELSE "init thread"
ProcessLock(t) == IF t = TestThread THEN "test process" ELSE "init process"
Locks == {"SERIAL_PORT", "ALLOCATOR", "DEVICES", "CONSOLE", "CPIO", "MM", "THREAD_QUEUE",
          "init thread", "test thread", "init process", "test process"}

\* The steps a routine is made of.
Do(what) == <<[do |-> what, on |-> "nothing"]>>
Eoi(controller) == <<[do |-> "eoi", on |-> controller]>>
Holding(lock, code) ==
    <<[do |-> "lock", on |-> lock]>> \o code \o <<[do |-> "unlock", on |-> lock]>>

\* ProcessorInfo::without_interrupts.
Masked(code) == Do("disable") \o code \o Do("restore")

\* serial::print_fmt, once the port is initialised.
PrintFmt == Masked(Holding("SERIAL_PORT", << >>))

\* arch::debug_print_fmt.
DebugPrintFmt == Masked(PrintFmt)

\* print::_print_fmt without and with the time in front; println and print
\* are the latter.
Tprint == DebugPrintFmt
Println == DebugPrintFmt \o DebugPrintFmt

\* GlobalAlloc of Locked<Allocator>, for an allocation or its release.
Allocate == Holding("ALLOCATOR", << >>)

\* find_device clones an Arc, which allocates nothing.
FindDevice == Holding("DEVICES", << >>)

\* read_initrd_file; read_file owns the path and releases it.
ReadInitrdFile == Holding("CPIO", Allocate)

\* mm::map_in_userspace adds the region to a vector of the memory space.
MapInUserspace == Holding("MM", Allocate)

\* Process::replace_image: verify_interrupts_disabled, the current thread, a
\* new page table, a segment and the stack.
ReplaceImage ==
    Do("verify") \o
    Holding(ThreadLock(InitThread),
            Println \o Holding("MM", << >>) \o Println
                \o MapInUserspace \o MapInUserspace \o Do("replace"))

\* Mutant of ReplaceImageExec: not inside without_interrupts.
ReplaceImageExecUnmasked ==
    ReadInitrdFile
        \o Holding(ThreadLock(InitThread), << >>)
        \o Holding(ProcessLock(InitThread), ReplaceImage)

\* Mutant of ReplaceImageExec: the thread stays locked when the process has
\* been found.
ReplaceImageExecKeepsThread ==
    ReadInitrdFile
        \o Masked(Holding(ThreadLock(InitThread),
                          Holding(ProcessLock(InitThread), ReplaceImage)))

\* replace_image_exec; core!().process() reads the current thread.
ReplaceImageExec ==
    ReadInitrdFile
        \o Masked(Holding(ThreadLock(InitThread), << >>)
                      \o Holding(ProcessLock(InitThread), ReplaceImage))

\* kernel_init_thread up to its loop; String::from allocates the path.
KernelInitThread ==
    Println \o FindDevice \o Println \o Holding("CONSOLE", Tprint)
        \o Do("set_ready") \o Allocate \o ReplaceImageExec

\* One round of kernel_test_thread.
KernelTestThread == Println

\* syscall_handler: 0x10 prints a character, 0x11 writes to the program, any
\* other number does nothing.
SyscallHandler == {Holding("SERIAL_PORT", << >>), Do("user_write"), << >>}
-----------------------------------------------------------------------------
\* The thread at the front of THREAD_QUEUE once the current one is at its end.
NextThread ==
    IF thread # TestThread THEN TestThread
    ELSE IF replaced THEN Program ELSE InitThread

\* Scheduler::schedule, and the lock of the new thread in interrupt_handler.
\* push_back allocates a node of the list and pop_front releases one.
Schedule ==
    Holding("THREAD_QUEUE",
            Holding(ThreadLock(thread), << >>) \o Allocate \o Allocate
                \o Holding(ThreadLock(NextThread), << >>)
                \o Holding(ProcessLock(NextThread),
                           Println \o (IF NextThread = Program THEN << >>
                                       ELSE Holding("MM", << >>))))
        \o Holding(ThreadLock(NextThread), << >>)

\* The tick finds the scheduler ready: schedule goes on after its first line.
Switches == number = "timer" /\ scheduling /\ ready

\* page_fault for an address in the vmalloc area, and for any other, which
\* ends in a panic that prints.  The handler and the panic print several
\* times; once is enough to meet the lock.
PageFaultHandler ==
    {Holding("MM", Holding(ThreadLock(thread), << >>)
                       \o Holding(ProcessLock(thread), << >>)),
     Holding("MM", << >>) \o Println \o Do("panic")}

\* Mutant of DeviceHandler: the keyboard has no end of interrupt.
DeviceHandlerNoEoi == {Tprint \o Eoi("apic"), Println}

\* Vectors 0xe0, the APIC timer, and 222, the keyboard.
DeviceHandler == {Tprint \o Eoi("apic"), Println \o Eoi("apic")}

\* Vector 32; pic::send_eoi answers for it alone.
TimerHandler ==
    {Println \o (IF Switches THEN Schedule ELSE << >>) \o Eoi("pic")}

InterruptHandler ==
    CASE number = "fault" -> PageFaultHandler
      [] number = "timer" -> TimerHandler
      [] number = "device" -> DeviceHandler

Controller(n) == IF n = "timer" THEN "pic" ELSE "apic"
-----------------------------------------------------------------------------
\* start enters the first process, with whatever build of the handler.
LocksInit ==
    /\ Init
    /\ thread = InitThread
    /\ scheduling \in BOOLEAN
    /\ ready = FALSE
    /\ replaced = FALSE
    /\ todo = [o \in Threads \cup {Handler} |-> IF o = InitThread THEN KernelInitThread ELSE << >>]
    /\ were = [o \in Threads \cup {Handler} |-> << >>]
    /\ held = [l \in Locks |-> NoThread]
    /\ in_service = {}

\* Whose code runs, and what it does next.
Running == IF pc = "handler" THEN Handler ELSE thread
InKernel == pc \in {"kernel", "syscall", "handler"}
Does(what) ==
    /\ InKernel
    /\ todo[Running] # << >>
    /\ Head(todo[Running]).do = what
Operand == Head(todo[Running]).on

Finish == todo' = [todo EXCEPT ![Running] = Tail(@)]

\* spin::Mutex::lock, as soon as the lock is free, and the drop of its guard.
TakeLock ==
    /\ Alive /\ Does("lock")
    /\ held[Operand] = NoThread
    /\ held' = [held EXCEPT ![Operand] = Running]
    /\ Finish
    /\ UNCHANGED <<vars, scheduling, ready, replaced, were, in_service>>

DropLock ==
    /\ Alive /\ Does("unlock")
    /\ held' = [held EXCEPT ![Operand] = NoThread]
    /\ Finish
    /\ UNCHANGED <<vars, scheduling, ready, replaced, were, in_service>>

trapVarsButIntr ==
    <<thread, pc, cs, gs, frame, number, need_swap, saved, slot, wild, halted>>

\* The start of without_interrupts ...
DisableInterrupts ==
    /\ Alive /\ Does("disable")
    /\ were' = [were EXCEPT ![Running] = <<intr>> \o @]
    /\ intr' = FALSE
    /\ Finish
    /\ UNCHANGED <<trapVarsButIntr, scheduling, ready, replaced, held, in_service>>

\* Mutant of RestoreInterrupts: were_enabled is ignored.
RestoreInterruptsAlways ==
    /\ Alive /\ Does("restore")
    /\ were' = [were EXCEPT ![Running] = Tail(@)]
    /\ intr' = TRUE
    /\ Finish
    /\ UNCHANGED <<trapVarsButIntr, scheduling, ready, replaced, held, in_service>>

\* ... and its end.
RestoreInterrupts ==
    /\ Alive /\ Does("restore")
    /\ were' = [were EXCEPT ![Running] = Tail(@)]
    /\ intr' = (intr \/ Head(were[Running]))
    /\ Finish
    /\ UNCHANGED <<trapVarsButIntr, scheduling, ready, replaced, held, in_service>>

\* Apic::eoi and pic::send_eoi.
SendEoi ==
    /\ Alive /\ Does("eoi")
    /\ in_service' = in_service \ {Operand}
    /\ Finish
    /\ UNCHANGED <<vars, scheduling, ready, replaced, were, held>>

SetReady ==
    /\ Alive /\ Does("set_ready")
    /\ ready' = TRUE
    /\ Finish
    /\ UNCHANGED <<vars, scheduling, replaced, were, held, in_service>>

\* verify_interrupts_disabled, which panics when they are not.
VerifyInterruptsDisabled ==
    /\ Alive /\ Does("verify")
    /\ halted' = intr
    /\ intr' = FALSE
    /\ Finish
    /\ UNCHANGED <<thread, pc, cs, gs, frame, number, need_swap, saved, slot, wild>>
    /\ UNCHANGED <<scheduling, ready, replaced, were, held, in_service>>

\* The process gets its memory space and the thread its new registers.
Replace ==
    /\ Alive /\ Does("replace")
    /\ replaced' = TRUE
    /\ Finish
    /\ UNCHANGED <<vars, scheduling, ready, were, held, in_service>>

\* user_write, where the program has a page.
UserWrite ==
    /\ Alive /\ Does("user_write")
    /\ Finish
    /\ UNCHANGED <<vars, scheduling, ready, replaced, were, held, in_service>>

\* kernel_test_thread starts over.
TestThreadLoops ==
    /\ Alive /\ pc = "kernel" /\ thread = TestThread
    /\ todo[TestThread] = << >>
    /\ todo' = [todo EXCEPT ![TestThread] = KernelTestThread]
    /\ UNCHANGED <<vars, scheduling, ready, replaced, were, held, in_service>>

Execute ==
    \/ TakeLock \/ DropLock \/ DisableInterrupts \/ RestoreInterrupts
    \/ SendEoi \/ SetReady \/ VerifyInterruptsDisabled \/ Replace \/ UserWrite
-----------------------------------------------------------------------------
\* The program makes a system call and returns from it.
ProgramCalls ==
    /\ Syscall \/ Cli \/ Sysret \/ (todo[thread] = << >> /\ LeaveSyscall)
    /\ UNCHANGED lockVars

SyscallHandlerStarts ==
    /\ EnterSyscall
    /\ \E code \in SyscallHandler : todo' = [todo EXCEPT ![thread] = code]
    /\ UNCHANGED <<scheduling, ready, replaced, were, held, in_service>>

\* A controller holds interrupts back until the last one has ended.  The PIC
\* is masked completely at this commit, so vector 32 only comes in a build
\* that schedules.
InterruptArrives ==
    /\ Interrupt
    /\ number' = "timer" => scheduling
    /\ Controller(number') \notin in_service
    /\ in_service' = in_service \cup {Controller(number')}
    /\ UNCHANGED <<scheduling, ready, replaced, todo, were, held>>

\* The program, or the kernel on its behalf, touches a page it does not have.
\* Kernel threads run on the reference table, where all of vmalloc is mapped,
\* and replace_image on a fresh copy of it.
FaultArrives ==
    /\ PageFault
    /\ pc = "user" \/ Does("user_write")
    /\ UNCHANGED lockVars

HandlerStarts ==
    /\ InterruptHandlerEntry
    /\ \E code \in InterruptHandler : todo' = [todo EXCEPT ![Handler] = code]
    /\ UNCHANGED <<scheduling, ready, replaced, were, held, in_service>>

HandlerEnds ==
    /\ todo[Handler] = << >>
    /\ IF Switches THEN SwitchThread(NextThread) ELSE InterruptHandlerReturn
    /\ UNCHANGED lockVars

HandlerPanics ==
    /\ Does("panic")
    /\ InterruptHandlerPanic
    /\ UNCHANGED lockVars

HandlerReturns == Iret /\ UNCHANGED lockVars

LocksNext ==
    \/ Execute \/ TestThreadLoops
    \/ ProgramCalls \/ SyscallHandlerStarts
    \/ InterruptArrives \/ FaultArrives
    \/ HandlerStarts \/ HandlerEnds \/ HandlerPanics \/ HandlerReturns

\* A handler runs to its end, and a thread executes again and again, since
\* the timer's period is longer than its handler.
Fairness ==
    /\ WF_allVars(HandlerStarts \/ (pc = "handler" /\ Execute) \/ HandlerEnds \/ HandlerReturns)
    /\ SF_allVars(pc = "kernel" /\ Execute)

LocksSpec == LocksInit /\ [][LocksNext]_allVars /\ Fairness
-----------------------------------------------------------------------------
\* The heap lock is taken with interrupts enabled, in kernel_init_thread, and
\* by schedule in the handler: the one lock that does not behave "like they
\* should with interrupts" (lib.rs 16) once the timer schedules.
HeapInterrupted ==
    Running = Handler /\ Switches /\ Operand = "ALLOCATOR" /\ held["ALLOCATOR"] = InitThread

\* Nobody ever spins: whoever takes a lock finds it free, in threads, system
\* calls, faults and interrupts, whatever they interrupted.  MM, thread and
\* process locks are taken in different orders by page_fault and by
\* replace_image; the only lock found taken is the heap's, by schedule.
LocksFree ==
    Alive /\ Does("lock") => held[Operand] = NoThread \/ HeapInterrupted

\* Every path through interrupt_handler ends its interrupt at the controller
\* it came from, which would otherwise stay silent from then on.
ControllersFree ==
    Alive /\ pc \notin {"vector", "handler", "iret"} => in_service = {}

\* All vectors but three share one interrupt stack: nothing arrives before
\* interrupt_handler has returned, or it would overwrite the frame of the
\* interrupted code.
FrameKept ==
    Alive /\ pc \in {"vector", "handler", "iret"} =>
        frame.pc \notin {"vector", "handler", "iret"}

\* At this commit kernel_init_thread loads its image however often it is
\* interrupted.
InitThreadEnds ==
    ~scheduling => <>(todo[InitThread] = << >> /\ replaced)
=============================================================================
