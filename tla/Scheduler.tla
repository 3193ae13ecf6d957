----------------------------- MODULE Scheduler -----------------------------
(***************************************************************************)
(* The round-robin scheduler of the boot processor, kernel/src/            *)
(* scheduler.rs, with the parts of thread.rs, process.rs and of the timer  *)
(* interrupt that it works with.  Every process has exactly one thread     *)
(* (create_kernel adds it, nothing adds another), so a thread stands for   *)
(* its process too.                                                        *)
(*                                                                         *)
(* A register context is the image it executes and a program point in it.  *)
(* The call of schedule in interrupt_handler is commented out at this      *)
(* commit; Tick follows that block (interrupts.rs 139-198), which is the   *)
(* only way schedule is meant to be used.                                  *)
(***************************************************************************)
EXTENDS Integers, Sequences, FiniteSets

CONSTANTS Threads,         \* the threads of the processes kernel_init creates
          InitThread,      \* the thread that runs kernel_init_thread
          NoThread,        \* current_thread is None
          LastPoint        \* the last program point of every image

ASSUME ThreadsAssumption ==
    IsFiniteSet(Threads) /\ InitThread \in Threads /\ NoThread \notin Threads
ASSUME PointsAssumption == LastPoint \in Nat /\ LastPoint >= 2

VARIABLES queue,           \* THREAD_QUEUE
          current,         \* Scheduler.current_thread
          ready,           \* Scheduler.ready
          registers,       \* Thread.registers
          update,          \* Thread.update
          memory_space,    \* whether the thread's process has a MemorySpace
          live,            \* the registers of the processor
          cr3,             \* whose page table is loaded: a thread's, or NoThread's: the kernel's
          last,            \* history: the context a thread executed last
          image,           \* history: the image last given to a thread
          passed           \* history: the threads schedule picked since t lost the processor

vars == <<queue, current, ready, registers, update, memory_space, live, cr3, last, image, passed>>

Kernel == "kernel function"
User == "user program"
Context == [img : {Kernel, User}, point : 0 .. LastPoint]
Entry(img) == [img |-> img, point |-> 0]

\* Thread::create: the registers point at the thread's function.
Init ==
    /\ queue = << >>
    /\ current = NoThread
    /\ ready = FALSE
    /\ registers = [t \in Threads |-> Entry(Kernel)]
    /\ update = [t \in Threads |-> TRUE]
    /\ memory_space = [t \in Threads |-> FALSE]
    /\ live = Entry(Kernel)
    /\ cr3 = NoThread
    /\ last = registers
    /\ image = [t \in Threads |-> Kernel]
    /\ passed = [t \in Threads |-> 0]

InQueue(t) == \E i \in DOMAIN queue : queue[i] = t

\* Scheduler::add_process, called by kernel_init before the scheduler runs;
\* the init process comes first.
AddProcess(t) ==
    /\ current = NoThread
    /\ ~InQueue(t)
    /\ queue = << >> => t = InitThread
    /\ queue' = Append(queue, t)
    /\ UNCHANGED <<current, ready, registers, update, memory_space, live, cr3, last, image, passed>>

\* Scheduler::start, once kernel_init has added all processes.
Start ==
    /\ current = NoThread
    /\ \A t \in Threads : InQueue(t)
    /\ current' = Head(queue)
    /\ queue' = Tail(queue)
    /\ live' = registers[Head(queue)]
    /\ cr3' = NoThread
    /\ UNCHANGED <<ready, registers, update, memory_space, last, image, passed>>

\* The running thread moves to another program point.
GoTo(point) ==
    /\ live' = [live EXCEPT !.point = point]
    /\ last' = [last EXCEPT ![current] = live']

\* kernel_init_thread at its first point calls set_ready ...
SetReady ==
    /\ current = InitThread /\ live = Entry(Kernel)
    /\ ready' = TRUE
    /\ GoTo(1)
    /\ UNCHANGED <<queue, current, registers, update, memory_space, cr3, image, passed>>

\* ... then replace_image_exec, which changes the saved registers of its own
\* thread under without_interrupts and returns to the kernel function; cr3
\* is switched and restored in between.
ReplaceImage ==
    /\ current = InitThread /\ live.img = Kernel /\ live.point = 1
    /\ memory_space' = [memory_space EXCEPT ![current] = TRUE]
    /\ registers' = [registers EXCEPT ![current] = Entry(User)]
    /\ update' = [update EXCEPT ![current] = FALSE]
    /\ image' = [image EXCEPT ![current] = User]
    /\ GoTo(2)
    /\ UNCHANGED <<queue, current, ready, cr3, passed>>

\* Every other instruction.  Threads never return: their last points are a
\* loop.
Execute ==
    /\ current # NoThread
    /\ ~(current = InitThread /\ live.img = Kernel /\ live.point < 2)
    /\ GoTo(IF live.point < LastPoint THEN live.point + 1 ELSE 2)
    /\ UNCHANGED <<queue, current, ready, registers, update, memory_space, cr3, image, passed>>

\* Mutant of SavedRegisters: update is not looked at.
SavedRegistersAlways == [registers EXCEPT ![current] = live]

\* The registers schedule saves for the thread it takes off the processor:
\* none if they were replaced since the thread was last scheduled.
SavedRegisters ==
    IF update[current] THEN [registers EXCEPT ![current] = live] ELSE registers

\* Mutant of TableOf: the kernel's table for every thread.
TableOfKernel(t) == NoThread

\* The page table of the thread schedule picks.
TableOf(t) == IF memory_space[t] THEN t ELSE NoThread

\* Counting what schedule does: every thread but the one it picks is passed
\* over once more.
PassOver(picked) == [t \in Threads |-> IF t = picked THEN 0 ELSE passed[t] + 1]

\* Mutant of Tick: the thread taken off the processor is not queued.
TickForgets ==
    /\ current # NoThread
    /\ ready
    /\ queue # << >>
    /\ queue' = Tail(queue)
    /\ current' = Head(queue)
    /\ registers' = SavedRegisters
    /\ update' = [update EXCEPT ![current] = TRUE]
    /\ live' = registers'[current']
    /\ cr3' = TableOf(current')
    /\ passed' = PassOver(current')
    /\ UNCHANGED <<ready, memory_space, last, image>>

\* Mutant of Tick: push_front in place of push_back.
TickPushFront ==
    /\ current # NoThread
    /\ ready
    /\ registers' = SavedRegisters
    /\ update' = [update EXCEPT ![current] = TRUE]
    /\ live' = registers'[current]
    /\ cr3' = TableOf(current)
    /\ passed' = PassOver(current)
    /\ UNCHANGED <<queue, current, ready, memory_space, last, image>>

\* The timer interrupt with Scheduler::schedule.  Before set_ready it
\* answers None and the interrupted thread continues.
Tick ==
    /\ current # NoThread
    /\ ready
    /\ LET q == Append(queue, current)
       IN  /\ queue' = Tail(q)
           /\ current' = Head(q)
    /\ registers' = SavedRegisters
    /\ update' = [update EXCEPT ![current] = TRUE]
    /\ live' = registers'[current']
    /\ cr3' = TableOf(current')
    /\ passed' = PassOver(current')
    /\ UNCHANGED <<ready, memory_space, last, image>>

Next ==
    \/ \E t \in Threads : AddProcess(t)
    \/ Start
    \/ SetReady
    \/ ReplaceImage
    \/ Execute
    \/ Tick

Spec == Init /\ [][Next]_vars
-----------------------------------------------------------------------------
TypeOK ==
    /\ queue \in Seq(Threads)
    /\ current \in Threads \cup {NoThread}
    /\ ready \in BOOLEAN
    /\ registers \in [Threads -> Context]
    /\ update \in [Threads -> BOOLEAN]
    /\ memory_space \in [Threads -> BOOLEAN]
    /\ live \in Context
    /\ cr3 \in Threads \cup {NoThread}
    /\ last \in [Threads -> Context]
    /\ image \in [Threads -> {Kernel, User}]
    /\ passed \in [Threads -> Nat]

\* No thread is queued twice, and the running thread is not queued.
QueuedOnce ==
    \A i, j \in DOMAIN queue :
        queue[i] # current /\ (queue[i] = queue[j] => i = j)

\* Once the scheduler runs, no thread is ever lost.
NoThreadLost ==
    current # NoThread => \A t \in Threads : t = current \/ InQueue(t)

\* However ticks fall, a thread that start or schedule took from the queue is
\* in exactly one place: nothing ever executes a thread's stack from two
\* places, and none is dropped.
EachThreadOnce == QueuedOnce /\ NoThreadLost

\* A thread that waits will resume exactly where it was interrupted, or at
\* the entry point of the image it was given meanwhile: neither does the
\* timer overwrite the new image's registers with those of the old one, nor
\* is the progress of a thread lost.
ResumesRight ==
    \A t \in Threads : t # current =>
        registers[t] = (IF last[t].img = image[t] THEN last[t] ELSE Entry(image[t]))

\* A user program only runs on the page table of its own process, and kernel
\* functions only on the kernel's: also between replace_image, which creates
\* the memory space, and the tick that first enters it.
RightPageTable ==
    current # NoThread => cr3 = (IF live.img = User THEN current ELSE NoThread)

\* Round robin: between two turns of a thread schedule picks every other
\* thread at most once, so a thread that waits has the processor again after
\* at most as many calls of schedule as there are threads, wherever ticks
\* fall.  (That calls of schedule keep coming is not claimed: KernelLocks has
\* the tick that stops in the middle of one.)
BoundedWait == \A t \in Threads : passed[t] < Cardinality(Threads)
=============================================================================
