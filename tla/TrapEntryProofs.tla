-------------------------- MODULE TrapEntryProofs --------------------------
(***************************************************************************)
(* That gs and the syscall stack are right for any number of threads, and  *)
(* that the kernel's own threads never wait for a lock, except schedule for*)
(* the heap's.                                                             *)
(***************************************************************************)
EXTENDS KernelLocks, TLAPS

\* Where gs is the program's although CS may already be the kernel's.
OnUserGs == {"user", "entry", "masked", "leaving"}

\* The frames a thread may resume with: an interrupt that was taken in the
\* window before cli never gets as far as saving one.
Resumable(f, p) == f.pc \in p /\ (f.cs = "user" <=> f.pc = "user")

InTrap == pc \in {"vector", "handler", "iret"}

\* gs is decided by where the processor is, and in a handler by whom it
\* interrupted; the frame says whom.  A system call is left alone once its
\* interrupts are masked: only a page fault interrupts it, and that never
\* switches threads.
GsInv ==
    /\ cs = "user" <=> pc = "user"
    /\ ~InTrap => (gs = "user" <=> pc \in OnUserGs)
    /\ pc \in {"masked", "syscall", "leaving", "vector", "handler", "iret"} => ~intr
    /\ pc = "vector" =>
         /\ Resumable(frame, {"user", "kernel", "entry", "syscall"})
         /\ gs = "user" <=> frame.pc \in OnUserGs
    /\ pc = "handler" =>
         /\ Resumable(frame, {"user", "kernel", "syscall"})
         /\ gs = "kernel"
         /\ need_swap <=> frame.pc = "user"
    /\ pc = "iret" =>
         /\ Resumable(frame, {"user", "kernel", "syscall"})
         /\ gs = "user" <=> frame.pc = "user"
    /\ InTrap /\ number = "timer" /\ pc # "iret" => frame.pc # "syscall"
    /\ InTrap /\ frame.pc = "syscall" => ~frame.intr
    /\ \A t \in Threads : Resumable(saved[t], {"user", "kernel"})

SlotInv ==
    /\ pc \in {"syscall", "leaving"} => slot = thread
    /\ InTrap /\ frame.pc = "syscall" => slot = thread

IInv == TypeOK /\ (~wild => GsInv /\ SlotInv)

LEMMA FirstFrameType ==
  ASSUME NEW t \in Threads
  PROVE  FirstFrame(t) \in Frames /\ Resumable(FirstFrame(t), {"user", "kernel"})
  BY DEF FirstFrame, Frames, Places, Resumable

LEMMA InitIInv == Init => IInv
<1> SUFFICES ASSUME Init PROVE IInv
  OBVIOUS
<1>1. thread \in Threads /\ slot \in Threads \cup {NoThread}
  BY DEF Init, Threads
<1>2. \A t \in Threads : saved[t] = FirstFrame(t)
  BY DEF Init
<1>3. TypeOK
  <2>1. saved \in [Threads -> Frames]
    BY FirstFrameType DEF Init
  <2>2. frame \in Frames
    BY <1>1, FirstFrameType DEF Init
  <2>3. QED
    BY <1>1, <2>1, <2>2 DEF Init, TypeOK, Places, Vectors
<1>4. GsInv
  BY <1>2, FirstFrameType DEF Init, GsInv, OnUserGs, InTrap
<1>5. SlotInv
  BY DEF Init, SlotInv, InTrap
<1>6. QED
  BY <1>3, <1>4, <1>5 DEF IInv

\* The steps of syscall_entry and of kernel threads.
LEMMA CallIInv ==
  ASSUME IInv,
         Syscall \/ Cli \/ EnterSyscall \/ LeaveSyscall \/ Sysret \/ WithoutInterrupts
  PROVE  IInv'
<1>0. TypeOK /\ GsInv /\ SlotInv /\ ~wild /\ ~wild'
  BY DEF IInv, Alive, Syscall, Cli, EnterSyscall, LeaveSyscall, Sysret, WithoutInterrupts
<1> USE DEF GsInv, SlotInv, OnUserGs, InTrap, Resumable, Alive, TypeOK, Places
<1>1. TypeOK'
  BY <1>0 DEF Syscall, Cli, EnterSyscall, LeaveSyscall, Sysret, WithoutInterrupts, Swapgs
<1>2. GsInv'
  <2>1. CASE Syscall
    BY <1>0, <2>1 DEF Syscall
  <2>2. CASE Cli
    BY <1>0, <2>2 DEF Cli
  <2>3. CASE EnterSyscall
    BY <1>0, <2>3 DEF EnterSyscall, Swapgs
  <2>4. CASE LeaveSyscall
    BY <1>0, <2>4 DEF LeaveSyscall, Swapgs
  <2>5. CASE Sysret
    BY <1>0, <2>5 DEF Sysret
  <2>6. CASE WithoutInterrupts
    BY <1>0, <2>6 DEF WithoutInterrupts
  <2>7. QED
    BY <2>1, <2>2, <2>3, <2>4, <2>5, <2>6
<1>3. SlotInv'
  BY <1>0 DEF Syscall, Cli, EnterSyscall, LeaveSyscall, Sysret, WithoutInterrupts, Swapgs
<1>4. QED
  BY <1>1, <1>2, <1>3 DEF IInv

\* The processor enters a vector.
LEMMA VectorIInv ==
  ASSUME IInv, Interrupt \/ PageFault
  PROVE  IInv'
<1>0. TypeOK /\ GsInv /\ SlotInv /\ ~wild /\ ~wild'
  BY DEF IInv, Alive, Interrupt, PageFault, Vector
<1>1. PICK n \in Vectors : Vector(n) /\ (n = "fault" => pc \in {"user", "kernel", "syscall"})
                                    /\ (n # "fault" => intr)
  BY DEF Interrupt, PageFault, Vectors
<1> USE DEF GsInv, SlotInv, OnUserGs, InTrap, Resumable, Alive, TypeOK, Places
<1>2. pc \in {"user", "kernel", "entry", "syscall"}
  BY <1>0, <1>1
<1>3. frame' \in Frames /\ frame'.pc = pc /\ frame'.cs = cs /\ frame'.intr = intr
  BY <1>0, <1>1 DEF Vector, Frames
<1>4. TypeOK'
  BY <1>0, <1>1, <1>3 DEF Vector
<1>5. GsInv'
  BY <1>0, <1>1, <1>2, <1>3 DEF Vector
<1>6. SlotInv'
  BY <1>0, <1>1, <1>2, <1>3 DEF Vector
<1>7. QED
  BY <1>4, <1>5, <1>6 DEF IInv

\* interrupt_handler and iretq.
LEMMA HandlerIInv ==
  ASSUME IInv,
         InterruptHandlerEntry \/ InterruptHandlerReturn \/ InterruptHandlerPanic \/ Iret
  PROVE  IInv'
<1>0. TypeOK /\ GsInv /\ SlotInv
  BY DEF IInv, Alive, InterruptHandlerEntry, InterruptHandlerReturn, InterruptHandlerPanic, Iret
<1> USE DEF GsInv, SlotInv, OnUserGs, InTrap, Resumable, Alive, TypeOK, Places
<1>1. CASE InterruptHandlerEntry
  <2>1. TypeOK'
    BY <1>0, <1>1 DEF InterruptHandlerEntry, Swapgs
  <2>2. ~wild' => GsInv'
    BY <1>0, <1>1 DEF InterruptHandlerEntry, Swapgs
  <2>3. SlotInv'
    BY <1>0, <1>1 DEF InterruptHandlerEntry
  <2>4. QED
    BY <2>1, <2>2, <2>3 DEF IInv
<1>2. CASE InterruptHandlerReturn
  <2>1. TypeOK'
    BY <1>0, <1>2 DEF InterruptHandlerReturn, Swapgs
  <2>2. GsInv'
    BY <1>0, <1>2 DEF InterruptHandlerReturn, Swapgs
  <2>3. SlotInv'
    BY <1>0, <1>2 DEF InterruptHandlerReturn
  <2>4. QED
    BY <2>1, <2>2, <2>3 DEF IInv
<1>3. CASE InterruptHandlerPanic
  BY <1>0, <1>3 DEF IInv, InterruptHandlerPanic
<1>4. CASE Iret
  <2>1. TypeOK'
    BY <1>0, <1>4 DEF Iret, Frames
  <2>2. GsInv'
    BY <1>0, <1>4 DEF Iret, Frames
  <2>3. SlotInv'
    BY <1>0, <1>4 DEF Iret
  <2>4. QED
    BY <2>1, <2>2, <2>3 DEF IInv
<1>5. QED
  BY <1>1, <1>2, <1>3, <1>4

\* The timer replaces the frame by another thread's.
LEMMA SwitchIInv ==
  ASSUME IInv, NEW t \in Threads, SwitchThread(t)
  PROVE  IInv'
<1>0. TypeOK /\ GsInv /\ SlotInv /\ ~wild /\ ~wild'
  BY DEF IInv, Alive, SwitchThread
<1> USE DEF GsInv, SlotInv, OnUserGs, InTrap, Resumable, Alive, TypeOK, Places
<1>1. Resumable(frame, {"user", "kernel"})
  BY <1>0 DEF SwitchThread
<1>2. \A u \in Threads : Resumable(saved'[u], {"user", "kernel"}) /\ saved'[u] \in Frames
  BY <1>0, <1>1 DEF SwitchThread
<1>3. frame' \in Frames /\ Resumable(frame', {"user", "kernel"})
  BY <1>2 DEF SwitchThread
<1>4. TypeOK'
  BY <1>0, <1>3 DEF SwitchThread, Swapgs
<1>5. GsInv'
  BY <1>0, <1>2, <1>3 DEF SwitchThread, Swapgs
<1>6. SlotInv'
  BY <1>0, <1>3 DEF SwitchThread
<1>7. QED
  BY <1>4, <1>5, <1>6 DEF IInv

LEMMA NextIInv == IInv /\ [Next]_vars => IInv'
<1> SUFFICES ASSUME IInv, [Next]_vars PROVE IInv'
  OBVIOUS
<1>1. CASE UNCHANGED vars
  BY <1>1 DEF vars, IInv, TypeOK, GsInv, SlotInv, InTrap, Resumable
<1>2. CASE Next
  BY <1>2, CallIInv, VectorIInv, HandlerIInv, SwitchIInv DEF Next
<1>3. QED
  BY <1>1, <1>2

\* No instruction of entry, exit or handler breaks the invariant.
THEOREM Invariance == Spec => []IInv
  BY InitIInv, NextIInv, PTL DEF Spec

\* For any number of programs and kernel threads, and wherever interrupts,
\* faults and switches fall, gs is right in programs and in kernel code.
THEOREM GsCorrect == Spec => []GsRight
<1>1. IInv => GsRight
  BY DEF IInv, GsRight, GsInv, OnUserGs, InTrap, TypeOK
<1>2. QED
  BY <1>1, Invariance, PTL

\* For any number of threads, no system call returns on a stack that is not
\* its own.
THEOREM StackCorrect == Spec => []SysretOwnStack
<1>1. IInv => SysretOwnStack
  BY DEF IInv, SysretOwnStack, GsInv, SlotInv, InTrap, Resumable
<1>2. QED
  BY <1>1, Invariance, PTL

-----------------------------------------------------------------------------
(***************************************************************************)
(* Locks.  A routine is followed as a run: how deep its owner is in        *)
(* without_interrupts, which locks it holds and which controllers it has   *)
(* still to answer, step by step.                                          *)
(***************************************************************************)
Controllers == {"pic", "apic"}
Doings == {"lock", "unlock", "disable", "restore", "eoi", "set_ready", "verify", "replace",
           "user_write", "panic"}
Steps == [do : Doings, on : Locks \cup Controllers \cup {"nothing"}]
Op(what, on) == [do |-> what, on |-> on]

States == [depth : Nat, held : SUBSET Locks, serving : SUBSET Controllers]
At(d, h, e) == [depth |-> d, held |-> h, serving |-> e]
Idle == At(0, {}, {})

After(op, x) ==
    At(IF op.do = "disable" THEN x.depth + 1
       ELSE IF op.do = "restore" THEN x.depth - 1 ELSE x.depth,
       IF op.do = "lock" THEN x.held \cup {op.on}
       ELSE IF op.do = "unlock" THEN x.held \ {op.on} ELSE x.held,
       IF op.do = "eoi" THEN x.serving \ {op.on} ELSE x.serving)

\* s leads from x to y by steps that G allows, a set of states with the next
\* step.
Trace(t, s, x, y, G) ==
    /\ t \in [1 .. Len(s) + 1 -> States]
    /\ t[1] = x /\ t[Len(s) + 1] = y
    /\ \A i \in 1 .. Len(s) : <<t[i], s[i]>> \in G /\ t[i + 1] = After(s[i], t[i])
Runs(s, x, y, G) == s \in Seq(Steps) /\ \E t : Trace(t, s, x, y, G)

\* Code that is at its end has got where it was to lead.
LEMMA RunsEmpty ==
    ASSUME NEW x, NEW y, NEW G, Runs(<< >>, x, y, G)
    PROVE  x = y
  BY DEF Runs, Trace

\* No code leads nowhere.
LEMMA RunsNothing ==
    ASSUME NEW x \in States, NEW G
    PROVE  Runs(<< >>, x, x, G)
<1>1. Trace([i \in 1 .. 1 |-> x], << >>, x, x, G)
  BY DEF Trace
<1> QED
  BY <1>1 DEF Runs

\* One step.
LEMMA RunsStep ==
    ASSUME NEW x \in States, NEW y \in States, NEW op \in Steps, NEW G,
           <<x, op>> \in G, y = After(op, x)
    PROVE  Runs(<<op>>, x, y, G)
<1> DEFINE t == [i \in 1 .. 2 |-> IF i = 1 THEN x ELSE y]
<1>1. Len(<<op>>) = 1 /\ <<op>>[1] = op /\ <<op>> \in Seq(Steps)
  OBVIOUS
<1>2. t \in [1 .. 2 -> States] /\ t[1] = x /\ t[2] = y
  OBVIOUS
<1> HIDE DEF t
<1>3. Trace(t, <<op>>, x, y, G)
  BY <1>1, <1>2 DEF Trace
<1> QED
  BY <1>1, <1>3 DEF Runs

\* One routine after another.
LEMMA RunsJoin ==
    ASSUME NEW s, NEW u, NEW x, NEW y, NEW z, NEW G, Runs(s, x, y, G), Runs(u, y, z, G)
    PROVE  Runs(s \o u, x, z, G)
<1>1. s \in Seq(Steps) /\ u \in Seq(Steps)
  BY DEF Runs
<1>2. PICK t : Trace(t, s, x, y, G)
  BY DEF Runs
<1>3. PICK v : Trace(v, u, y, z, G)
  BY DEF Runs
<1>4. PICK m \in Nat : m = Len(s)
  BY <1>1
<1>5. PICK n \in Nat : n = Len(u)
  BY <1>1
<1> DEFINE w == [i \in 1 .. m + n + 1 |-> IF i <= m THEN t[i] ELSE v[i - m]]
<1>6. s \o u \in Seq(Steps) /\ Len(s \o u) = m + n
  BY <1>1, <1>4, <1>5
<1>a. PICK q : q = s \o u
  OBVIOUS
<1>7. \A i \in 1 .. m + n : q[i] = IF i <= m THEN s[i] ELSE u[i - m]
  BY <1>1, <1>4, <1>5, <1>a
<1>8. /\ t \in [1 .. m + 1 -> States] /\ t[1] = x /\ t[m + 1] = y
      /\ \A i \in 1 .. m : <<t[i], s[i]>> \in G /\ t[i + 1] = After(s[i], t[i])
  BY <1>2, <1>4 DEF Trace
<1>9. /\ v \in [1 .. n + 1 -> States] /\ v[1] = y /\ v[n + 1] = z
      /\ \A i \in 1 .. n : <<v[i], u[i]>> \in G /\ v[i + 1] = After(u[i], v[i])
  BY <1>3, <1>5 DEF Trace
<1>10. w \in [1 .. m + n + 1 -> States] /\ w[1] = x /\ w[m + n + 1] = z
  <2>1. ASSUME NEW i \in 1 .. m + n + 1 PROVE (IF i <= m THEN t[i] ELSE v[i - m]) \in States
    BY <1>8, <1>9
  <2>2. w[1] = x
    BY <1>8, <1>9
  <2>3. w[m + n + 1] = z
    BY <1>9
  <2> QED
    BY <2>1, <2>2, <2>3
<1>11. ASSUME NEW i \in 1 .. m + n
       PROVE  <<w[i], q[i]>> \in G /\ w[i + 1] = After(q[i], w[i])
  <2>a. i \in Nat /\ i \in 1 .. m + n + 1 /\ i + 1 \in 1 .. m + n + 1
    OBVIOUS
  <2>1. CASE i < m
    <3>1. w[i] = t[i] /\ w[i + 1] = t[i + 1] /\ q[i] = s[i]
      BY <1>7, <2>a, <2>1
    <3> HIDE DEF w
    <3> QED
      BY <1>8, <2>1, <3>1
  <2>2. CASE i = m
    <3>1. w[i] = t[i] /\ w[i + 1] = v[1] /\ q[i] = s[i]
      BY <1>7, <2>a, <2>2
    <3> HIDE DEF w
    <3> QED
      BY <1>8, <1>9, <2>2, <3>1
  <2>3. CASE i > m
    <3>1. w[i] = v[i - m] /\ w[i + 1] = v[(i - m) + 1] /\ q[i] = u[i - m]
      BY <1>7, <2>a, <2>3
    <3>2. i - m \in 1 .. n
      BY <2>3
    <3> HIDE DEF w
    <3> QED
      BY <1>9, <3>1, <3>2
  <2> QED
    BY <2>1, <2>2, <2>3
<1> HIDE DEF w
<1>12. Trace(w, q, x, z, G)
  BY <1>6, <1>a, <1>10, <1>11 DEF Trace
<1> QED
  BY <1>6, <1>a, <1>12 DEF Runs

\* What the next step of a run does.
LEMMA RunsNext ==
    ASSUME NEW s, NEW x, NEW y, NEW G, Runs(s, x, y, G), s # << >>
    PROVE  /\ x \in States /\ Head(s) \in Steps /\ <<x, Head(s)>> \in G
           /\ After(Head(s), x) \in States
           /\ Runs(Tail(s), After(Head(s), x), y, G)
<1>1. s \in Seq(Steps)
  BY DEF Runs
<1>2. PICK t : Trace(t, s, x, y, G)
  BY DEF Runs
<1>3. PICK n \in Nat : n + 1 = Len(s)
  BY <1>1
<1>4. /\ t \in [1 .. n + 2 -> States] /\ t[1] = x /\ t[n + 2] = y
      /\ \A i \in 1 .. n + 1 : <<t[i], s[i]>> \in G /\ t[i + 1] = After(s[i], t[i])
  BY <1>2, <1>3 DEF Trace
<1>5. Head(s) = s[1] /\ s[1] \in Steps
  BY <1>1, <1>3
<1>6. Tail(s) \in Seq(Steps) /\ Len(Tail(s)) = n /\ \A i \in 1 .. n : Tail(s)[i] = s[i + 1]
  BY <1>1, <1>3
<1>7. t[1 + 1] = After(s[1], t[1]) /\ <<t[1], s[1]>> \in G
  BY <1>4
<1> DEFINE w == [i \in 1 .. n + 1 |-> t[i + 1]]
<1>8. w \in [1 .. n + 1 -> States] /\ w[1] = t[2] /\ w[n + 1] = t[n + 2]
  BY <1>4
<1>9. ASSUME NEW i \in 1 .. n
      PROVE  <<w[i], Tail(s)[i]>> \in G /\ w[i + 1] = After(Tail(s)[i], w[i])
  <2>1. w[i] = t[i + 1] /\ w[i + 1] = t[(i + 1) + 1] /\ Tail(s)[i] = s[i + 1]
    BY <1>6
  <2>2. i + 1 \in 1 .. n + 1
    OBVIOUS
  <2> HIDE DEF w
  <2> QED
    BY <1>4, <2>1, <2>2
<1> HIDE DEF w
<1>10. Trace(w, Tail(s), t[2], y, G)
  BY <1>4, <1>6, <1>8, <1>9 DEF Trace
<1>11. t[2] = After(Head(s), x)
  BY <1>4, <1>5, <1>7
<1>12. Runs(Tail(s), t[2], y, G)
  BY <1>6, <1>10 DEF Runs
<1>13. t[1] \in States /\ t[2] \in States
  BY <1>4
<1> QED
  BY <1>4, <1>5, <1>7, <1>11, <1>12, <1>13

\* A lock is free of its owner when taken and its owner's when dropped, and
\* without_interrupts is left as often as it was entered.
Legal(x, op) ==
    /\ op.do = "lock" => op.on \in Locks \ x.held
    /\ op.do = "unlock" => op.on \in x.held
    /\ op.do = "restore" => x.depth > 0

\* The locks that kernel_init_thread takes with interrupts enabled.
Early == {"DEVICES", "CONSOLE", "CPIO", "ALLOCATOR"}
Printing == {"disable", "restore", "lock", "unlock"}

\* What kernel_init_thread may do.
InitSteps ==
    {p \in States \X Steps :
        /\ Legal(p[1], p[2])
        /\ p[2].do \notin {"eoi", "user_write", "panic"}
        /\ p[1].depth = 0 => p[1].held \subseteq Early}

\* What kernel_test_thread may do: it only prints.
TestSteps ==
    {p \in States \X Steps :
        /\ Legal(p[1], p[2])
        /\ p[2].do \in Printing
        /\ p[2].do = "lock" => p[2].on = "SERIAL_PORT"
        /\ p[1].depth = 0 => p[1].held = {}}

\* What syscall_handler may do.
CallSteps ==
    {p \in States \X Steps :
        /\ Legal(p[1], p[2])
        /\ p[2].do \in {"lock", "unlock", "user_write"}
        /\ p[2].do = "lock" => p[2].on = "SERIAL_PORT"
        /\ p[2].do = "user_write" => p[1].held = {}}

\* What interrupt_handler may do; switches: as schedule goes on.
HandlerSteps(switches) ==
    {p \in States \X Steps :
        /\ Legal(p[1], p[2])
        /\ p[2].do \in Printing \cup {"eoi", "panic"}
        /\ p[2].do = "lock" => p[2].on \notin {"DEVICES", "CONSOLE", "CPIO"}
        /\ p[2].do = "lock" /\ p[2].on = "ALLOCATOR" => switches}

LEMMA AtState ==
    ASSUME NEW d \in Nat, NEW h \in SUBSET Locks, NEW e \in SUBSET Controllers
    PROVE  /\ At(d, h, e) \in States
           /\ At(d, h, e).depth = d /\ At(d, h, e).held = h /\ At(d, h, e).serving = e
  BY DEF At, States

LEMMA OpStep ==
    ASSUME NEW what \in Doings, NEW on \in Locks \cup Controllers \cup {"nothing"}
    PROVE  Op(what, on) \in Steps /\ Op(what, on).do = what /\ Op(what, on).on = on
  BY DEF Op, Steps

\* A routine between lock and unlock.
LEMMA HoldingRuns ==
    ASSUME NEW G, NEW d \in Nat, NEW h \in SUBSET Locks, NEW e \in SUBSET Controllers,
           NEW l \in Locks, l \notin h, NEW code,
           <<At(d, h, e), Op("lock", l)>> \in G,
           <<At(d, h \cup {l}, e), Op("unlock", l)>> \in G,
           Runs(code, At(d, h \cup {l}, e), At(d, h \cup {l}, e), G)
    PROVE  Runs(Holding(l, code), At(d, h, e), At(d, h, e), G)
<1>1. At(d, h, e) \in States /\ At(d, h \cup {l}, e) \in States
  BY AtState
<1>2. Op("lock", l) \in Steps /\ Op("unlock", l) \in Steps
  BY OpStep DEF Doings
<1>3. After(Op("lock", l), At(d, h, e)) = At(d, h \cup {l}, e)
  BY DEF After, Op, At
<1>4. After(Op("unlock", l), At(d, h \cup {l}, e)) = At(d, h, e)
  <2>1. (h \cup {l}) \ {l} = h
    OBVIOUS
  <2> QED
    BY <2>1 DEF After, Op, At
<1>5. Runs(<<Op("lock", l)>>, At(d, h, e), At(d, h \cup {l}, e), G)
  BY <1>1, <1>2, <1>3, RunsStep
<1>6. Runs(<<Op("unlock", l)>>, At(d, h \cup {l}, e), At(d, h, e), G)
  BY <1>1, <1>2, <1>4, RunsStep
<1>7. Runs(<<Op("lock", l)>> \o code, At(d, h, e), At(d, h \cup {l}, e), G)
  BY <1>5, RunsJoin
<1>8. Runs((<<Op("lock", l)>> \o code) \o <<Op("unlock", l)>>, At(d, h, e), At(d, h, e), G)
  BY <1>6, <1>7, RunsJoin
<1> QED
  BY <1>8 DEF Holding, Op

\* A lock that is taken and dropped.
LEMMA TouchRuns ==
    ASSUME NEW G, NEW d \in Nat, NEW h \in SUBSET Locks, NEW e \in SUBSET Controllers,
           NEW l \in Locks, l \notin h,
           <<At(d, h, e), Op("lock", l)>> \in G,
           <<At(d, h \cup {l}, e), Op("unlock", l)>> \in G
    PROVE  Runs(Holding(l, << >>), At(d, h, e), At(d, h, e), G)
<1>1. Runs(<< >>, At(d, h \cup {l}, e), At(d, h \cup {l}, e), G)
  BY AtState, RunsNothing
<1> QED
  BY <1>1, HoldingRuns

\* A routine inside without_interrupts.
LEMMA MaskedRuns ==
    ASSUME NEW G, NEW d \in Nat, NEW h \in SUBSET Locks, NEW e \in SUBSET Controllers, NEW code,
           <<At(d, h, e), Op("disable", "nothing")>> \in G,
           <<At(d + 1, h, e), Op("restore", "nothing")>> \in G,
           Runs(code, At(d + 1, h, e), At(d + 1, h, e), G)
    PROVE  Runs(Masked(code), At(d, h, e), At(d, h, e), G)
<1>1. At(d, h, e) \in States /\ At(d + 1, h, e) \in States
  <2>1. d + 1 \in Nat
    OBVIOUS
  <2> QED
    BY <2>1, AtState
<1>2. Op("disable", "nothing") \in Steps /\ Op("restore", "nothing") \in Steps
  BY OpStep DEF Doings
<1>3. After(Op("disable", "nothing"), At(d, h, e)) = At(d + 1, h, e)
  BY DEF After, Op, At
<1>4. After(Op("restore", "nothing"), At(d + 1, h, e)) = At(d, h, e)
  <2>1. (d + 1) - 1 = d
    OBVIOUS
  <2> QED
    BY <2>1 DEF After, Op, At
<1>5. Runs(<<Op("disable", "nothing")>>, At(d, h, e), At(d + 1, h, e), G)
  BY <1>1, <1>2, <1>3, RunsStep
<1>6. Runs(<<Op("restore", "nothing")>>, At(d + 1, h, e), At(d, h, e), G)
  BY <1>1, <1>2, <1>4, RunsStep
<1>7. Runs(<<Op("disable", "nothing")>> \o code, At(d, h, e), At(d + 1, h, e), G)
  BY <1>5, RunsJoin
<1>8. Runs((<<Op("disable", "nothing")>> \o code) \o <<Op("restore", "nothing")>>,
           At(d, h, e), At(d, h, e), G)
  BY <1>6, <1>7, RunsJoin
<1> QED
  BY <1>8 DEF Masked, Do, Op

\* The other steps change nothing a run follows.
LEMMA DoRuns ==
    ASSUME NEW G, NEW x \in States, NEW what \in Doings \ (Printing \cup {"eoi"}),
           <<x, Op(what, "nothing")>> \in G
    PROVE  Runs(Do(what), x, x, G)
<1>1. Op(what, "nothing") \in Steps /\ Op(what, "nothing").do = what
  BY OpStep
<1>2. After(Op(what, "nothing"), x) = x
  BY <1>1 DEF After, At, States, Printing
<1>3. Runs(<<Op(what, "nothing")>>, x, x, G)
  BY <1>1, <1>2, RunsStep
<1> QED
  BY <1>3 DEF Do, Op

\* The steps of one line that is printed.
Prints(d, h, e, G) ==
    /\ "SERIAL_PORT" \notin h
    /\ <<At(d, h, e), Op("disable", "nothing")>> \in G
    /\ <<At(d + 1, h, e), Op("disable", "nothing")>> \in G
    /\ <<At(d + 1, h, e), Op("restore", "nothing")>> \in G
    /\ <<At(d + 2, h, e), Op("restore", "nothing")>> \in G
    /\ <<At(d + 2, h, e), Op("lock", "SERIAL_PORT")>> \in G
    /\ <<At(d + 2, h \cup {"SERIAL_PORT"}, e), Op("unlock", "SERIAL_PORT")>> \in G

\* print and println.
LEMMA PrintRuns ==
    ASSUME NEW G, NEW d \in Nat, NEW h \in SUBSET Locks, NEW e \in SUBSET Controllers,
           Prints(d, h, e, G)
    PROVE  Runs(Tprint, At(d, h, e), At(d, h, e), G) /\ Runs(Println, At(d, h, e), At(d, h, e), G)
<1>1. Runs(Holding("SERIAL_PORT", << >>), At(d + 2, h, e), At(d + 2, h, e), G)
  <2>1. "SERIAL_PORT" \in Locks
    BY DEF Locks
  <2>2. PICK k \in Nat : k = d + 2
    OBVIOUS
  <2> QED
    BY <2>1, <2>2, TouchRuns DEF Prints
<1>2. d + 1 \in Nat /\ (d + 1) + 1 = d + 2
  OBVIOUS
<1>3. Runs(PrintFmt, At(d + 1, h, e), At(d + 1, h, e), G)
  BY <1>1, <1>2, MaskedRuns DEF Prints, PrintFmt
<1>4. Runs(DebugPrintFmt, At(d, h, e), At(d, h, e), G)
  BY <1>3, MaskedRuns DEF Prints, DebugPrintFmt
<1>5. Runs(DebugPrintFmt \o DebugPrintFmt, At(d, h, e), At(d, h, e), G)
  BY <1>4, RunsJoin
<1> QED
  BY <1>4, <1>5 DEF Tprint, Println

LEMMA InitAllowed ==
    ASSUME NEW d \in Nat, NEW h \in SUBSET Locks,
           NEW what \in Doings \ {"eoi", "user_write", "panic"},
           NEW on \in Locks \cup Controllers \cup {"nothing"},
           what = "lock" => on \in Locks \ h, what = "unlock" => on \in h,
           what = "restore" => d > 0, d = 0 => h \subseteq Early
    PROVE  <<At(d, h, {}), Op(what, on)>> \in InitSteps
<1>1. Op(what, on) \in Steps /\ Op(what, on).do = what /\ Op(what, on).on = on
  BY OpStep
<1>2. /\ At(d, h, {}) \in States
      /\ At(d, h, {}).depth = d /\ At(d, h, {}).held = h
  BY AtState
<1> QED
  BY <1>1, <1>2 DEF InitSteps, Legal

\* kernel_init_thread around a lock: with interrupts enabled it is an early one.
LEMMA InitHolding ==
    ASSUME NEW d \in Nat, NEW h \in SUBSET Locks, NEW l \in Locks, l \notin h,
           d = 0 => h \cup {l} \subseteq Early, NEW code,
           Runs(code, At(d, h \cup {l}, {}), At(d, h \cup {l}, {}), InitSteps)
    PROVE  Runs(Holding(l, code), At(d, h, {}), At(d, h, {}), InitSteps)
<1>1. <<At(d, h, {}), Op("lock", l)>> \in InitSteps
  BY InitAllowed DEF Doings
<1>2. <<At(d, h \cup {l}, {}), Op("unlock", l)>> \in InitSteps
  <2>1. PICK g \in SUBSET Locks : g = h \cup {l}
    OBVIOUS
  <2>2. "unlock" \in Doings \ {"eoi", "user_write", "panic"}
    BY DEF Doings
  <2> QED
    BY <2>1, <2>2, InitAllowed
<1> QED
  BY <1>1, <1>2, HoldingRuns

LEMMA InitTouching ==
    ASSUME NEW d \in Nat, NEW h \in SUBSET Locks, NEW l \in Locks, l \notin h,
           d = 0 => h \cup {l} \subseteq Early
    PROVE  Runs(Holding(l, << >>), At(d, h, {}), At(d, h, {}), InitSteps)
<1>1. Runs(<< >>, At(d, h \cup {l}, {}), At(d, h \cup {l}, {}), InitSteps)
  BY AtState, RunsNothing
<1> QED
  BY <1>1, InitHolding

\* It prints whatever it holds but the serial port.
LEMMA InitPrinting ==
    ASSUME NEW d \in Nat, NEW h \in SUBSET Locks, "SERIAL_PORT" \notin h,
           d = 0 => h \subseteq Early
    PROVE  /\ Runs(Tprint, At(d, h, {}), At(d, h, {}), InitSteps)
           /\ Runs(Println, At(d, h, {}), At(d, h, {}), InitSteps)
<1>1. "SERIAL_PORT" \in Locks /\ {"disable", "restore", "lock", "unlock"}
          \subseteq Doings \ {"eoi", "user_write", "panic"}
  BY DEF Locks, Doings
<1>2. <<At(d, h, {}), Op("disable", "nothing")>> \in InitSteps
  BY <1>1, InitAllowed
<1>3. ASSUME NEW k \in {d + 1, d + 2}
      PROVE  /\ <<At(k, h, {}), Op("disable", "nothing")>> \in InitSteps
             /\ <<At(k, h, {}), Op("restore", "nothing")>> \in InitSteps
             /\ <<At(k, h, {}), Op("lock", "SERIAL_PORT")>> \in InitSteps
  <2>1. k \in Nat /\ k > 0 /\ k # 0
    OBVIOUS
  <2> QED
    BY <1>1, <2>1, InitAllowed
<1>4. <<At(d + 2, h \cup {"SERIAL_PORT"}, {}), Op("unlock", "SERIAL_PORT")>> \in InitSteps
  <2>1. PICK k \in Nat : k = d + 2 /\ k # 0
    OBVIOUS
  <2>2. PICK g \in SUBSET Locks : g = h \cup {"SERIAL_PORT"}
    BY <1>1
  <2>3. <<At(k, g, {}), Op("unlock", "SERIAL_PORT")>> \in InitSteps
    BY <1>1, <2>1, <2>2, InitAllowed
  <2> QED
    BY <2>1, <2>2, <2>3
<1>5. Prints(d, h, {}, InitSteps)
  BY <1>2, <1>3, <1>4 DEF Prints
<1> QED
  BY <1>5, PrintRuns

\* The other steps of kernel_init_thread.
LEMMA InitDoing ==
    ASSUME NEW d \in Nat, NEW h \in SUBSET Locks, NEW what \in {"set_ready", "verify", "replace"},
           d = 0 => h \subseteq Early
    PROVE  Runs(Do(what), At(d, h, {}), At(d, h, {}), InitSteps)
<1>1. /\ what \in Doings \ {"eoi", "user_write", "panic"}
      /\ what \in Doings \ (Printing \cup {"eoi"}) /\ what \notin Printing
  BY DEF Doings, Printing
<1>2. <<At(d, h, {}), Op(what, "nothing")>> \in InitSteps
  BY <1>1, InitAllowed DEF Printing
<1> QED
  BY <1>1, <1>2, DoRuns, AtState

LEMMA InitMasking ==
    ASSUME NEW code, Runs(code, At(1, {}, {}), At(1, {}, {}), InitSteps)
    PROVE  Runs(Masked(code), Idle, Idle, InitSteps)
<1>1. {"disable", "restore"} \subseteq Doings \ {"eoi", "user_write", "panic"}
  BY DEF Doings
<1>2. <<At(0, {}, {}), Op("disable", "nothing")>> \in InitSteps
  BY <1>1, InitAllowed
<1>3. <<At(1, {}, {}), Op("restore", "nothing")>> \in InitSteps
  BY <1>1, InitAllowed
<1>4. 0 + 1 = 1 /\ 0 \in Nat
  OBVIOUS
<1> QED
  BY <1>2, <1>3, <1>4, MaskedRuns DEF Idle

\* replace_image, inside without_interrupts with the process locked.
LEMMA ReplaceImageRuns ==
    Runs(ReplaceImage, At(1, {"init process"}, {}), At(1, {"init process"}, {}), InitSteps)
<1>1. PICK p : p = {"init process"}
  OBVIOUS
<1>2. PICK q : q = p \cup {"init thread"}
  OBVIOUS
<1>3. PICK r : r = q \cup {"MM"}
  OBVIOUS
<1>a. /\ p \in SUBSET Locks /\ q \in SUBSET Locks /\ r \in SUBSET Locks
      /\ "init thread" \notin p /\ "SERIAL_PORT" \notin q /\ "MM" \notin q
      /\ "ALLOCATOR" \notin r
  BY <1>1, <1>2, <1>3 DEF Locks
<1>b. "MM" \in Locks /\ "ALLOCATOR" \in Locks /\ "init thread" \in Locks
  BY DEF Locks
<1>c. PICK d \in Nat : d = 1 /\ d # 0
  OBVIOUS
<1>d. PICK x : x = At(d, q, {})
  OBVIOUS
<1>e. Runs(Println, x, x, InitSteps)
  BY <1>a, <1>c, <1>d, InitPrinting
<1>4. Runs(Holding("MM", << >>), x, x, InitSteps)
  BY <1>a, <1>b, <1>c, <1>d, InitTouching
<1>5. Runs(MapInUserspace, x, x, InitSteps)
  <2>1. Runs(Allocate, At(d, r, {}), At(d, r, {}), InitSteps)
    BY <1>a, <1>b, <1>c, InitTouching DEF Allocate
  <2> QED
    BY <1>3, <1>a, <1>b, <1>c, <1>d, <2>1, InitHolding DEF MapInUserspace
<1>6. Runs(Do("replace"), x, x, InitSteps)
  BY <1>a, <1>c, <1>d, InitDoing
<1>7. Runs(Println \o Holding("MM", << >>), x, x, InitSteps)
  BY <1>e, <1>4, RunsJoin
<1>8. Runs((Println \o Holding("MM", << >>)) \o Println, x, x, InitSteps)
  BY <1>e, <1>7, RunsJoin
<1>9. Runs(((Println \o Holding("MM", << >>)) \o Println) \o MapInUserspace, x, x, InitSteps)
  BY <1>5, <1>8, RunsJoin
<1>10. Runs((((Println \o Holding("MM", << >>)) \o Println) \o MapInUserspace) \o MapInUserspace,
            x, x, InitSteps)
  BY <1>5, <1>9, RunsJoin
<1>11. Runs(((((Println \o Holding("MM", << >>)) \o Println) \o MapInUserspace) \o MapInUserspace)
                \o Do("replace"), x, x, InitSteps)
  BY <1>6, <1>10, RunsJoin
<1>12. PICK code : code = ((((Println \o Holding("MM", << >>)) \o Println) \o MapInUserspace)
                              \o MapInUserspace) \o Do("replace")
  OBVIOUS
<1>13. Runs(Holding("init thread", code), At(d, p, {}), At(d, p, {}), InitSteps)
  BY <1>2, <1>a, <1>b, <1>c, <1>d, <1>11, <1>12, InitHolding
<1>14. Runs(Do("verify"), At(d, p, {}), At(d, p, {}), InitSteps)
  BY <1>a, <1>c, InitDoing
<1>15. ThreadLock(InitThread) = "init thread"
  BY CastAssumption DEF ThreadLock
<1>16. ReplaceImage = Do("verify") \o Holding("init thread", code)
  BY <1>12, <1>15 DEF ReplaceImage
<1> QED
  BY <1>1, <1>c, <1>13, <1>14, <1>16, RunsJoin

\* kernel_init_thread
LEMMA InitThreadRuns == Runs(KernelInitThread, Idle, Idle, InitSteps)
<1>1. {"DEVICES", "CONSOLE", "CPIO", "ALLOCATOR", "init thread", "init process"} \subseteq Locks
  BY DEF Locks
<1>2. Idle = At(0, {}, {})
  BY DEF Idle
<1>3. Runs(Println, Idle, Idle, InitSteps)
  BY <1>2, InitPrinting
<1>4. Runs(FindDevice, Idle, Idle, InitSteps)
  BY <1>1, <1>2, InitTouching DEF FindDevice, Early
<1>5. Runs(Holding("CONSOLE", Tprint), Idle, Idle, InitSteps)
  <2>1. {} \cup {"CONSOLE"} \in SUBSET Locks /\ {} \cup {"CONSOLE"} \subseteq Early
        /\ "SERIAL_PORT" \notin {} \cup {"CONSOLE"}
    BY <1>1 DEF Early
  <2>2. Runs(Tprint, At(0, {} \cup {"CONSOLE"}, {}), At(0, {} \cup {"CONSOLE"}, {}), InitSteps)
    BY <2>1, InitPrinting
  <2> QED
    BY <1>1, <1>2, <2>1, <2>2, InitHolding
<1>6. Runs(Do("set_ready"), Idle, Idle, InitSteps)
  BY <1>2, InitDoing
<1>7. Runs(Allocate, Idle, Idle, InitSteps)
  BY <1>1, <1>2, InitTouching DEF Allocate, Early
<1>8. Runs(ReadInitrdFile, Idle, Idle, InitSteps)
  <2>1. {} \cup {"CPIO"} \in SUBSET Locks /\ ({} \cup {"CPIO"}) \cup {"ALLOCATOR"} \subseteq Early
        /\ {} \cup {"CPIO"} \subseteq Early /\ "ALLOCATOR" \notin {} \cup {"CPIO"}
    BY <1>1 DEF Early
  <2>2. Runs(Allocate, At(0, {} \cup {"CPIO"}, {}), At(0, {} \cup {"CPIO"}, {}), InitSteps)
    BY <1>1, <2>1, InitTouching DEF Allocate
  <2> QED
    BY <1>1, <1>2, <2>1, <2>2, InitHolding DEF ReadInitrdFile
<1>9. Runs(ReplaceImageExec, Idle, Idle, InitSteps)
  <2>a. PICK d \in Nat : d = 1 /\ d # 0
    OBVIOUS
  <2>1. Runs(Holding("init thread", << >>), At(d, {}, {}), At(d, {}, {}), InitSteps)
    BY <1>1, <2>a, InitTouching
  <2>2. Runs(Holding("init process", ReplaceImage), At(d, {}, {}), At(d, {}, {}), InitSteps)
    <3>1. {} \cup {"init process"} = {"init process"}
      OBVIOUS
    <3> QED
      BY <1>1, <2>a, <3>1, ReplaceImageRuns, InitHolding
  <2>3. Runs(Holding("init thread", << >>) \o Holding("init process", ReplaceImage),
             At(d, {}, {}), At(d, {}, {}), InitSteps)
    BY <2>1, <2>2, RunsJoin
  <2>4. ThreadLock(InitThread) = "init thread" /\ ProcessLock(InitThread) = "init process"
    BY CastAssumption DEF ThreadLock, ProcessLock
  <2>5. PICK code : code = Masked(Holding("init thread", << >>)
                                      \o Holding("init process", ReplaceImage))
    OBVIOUS
  <2>6. Runs(code, Idle, Idle, InitSteps)
    BY <2>a, <2>3, <2>5, InitMasking
  <2>7. ReplaceImageExec = ReadInitrdFile \o code
    BY <2>4, <2>5 DEF ReplaceImageExec
  <2> QED
    BY <1>8, <2>6, <2>7, RunsJoin
<1>10. Runs(Println \o FindDevice, Idle, Idle, InitSteps)
  BY <1>3, <1>4, RunsJoin
<1>11. Runs((Println \o FindDevice) \o Println, Idle, Idle, InitSteps)
  BY <1>3, <1>10, RunsJoin
<1>12. Runs(((Println \o FindDevice) \o Println) \o Holding("CONSOLE", Tprint), Idle, Idle, InitSteps)
  BY <1>5, <1>11, RunsJoin
<1>13. PICK first : first = ((Println \o FindDevice) \o Println) \o Holding("CONSOLE", Tprint)
  OBVIOUS
<1>14. Runs(first \o Do("set_ready"), Idle, Idle, InitSteps)
  BY <1>6, <1>12, <1>13, RunsJoin
<1>15. Runs((first \o Do("set_ready")) \o Allocate, Idle, Idle, InitSteps)
  BY <1>7, <1>14, RunsJoin
<1>16. Runs(((first \o Do("set_ready")) \o Allocate) \o ReplaceImageExec, Idle, Idle, InitSteps)
  BY <1>9, <1>15, RunsJoin
<1> QED
  BY <1>13, <1>16 DEF KernelInitThread

LEMMA TestAllowed ==
    ASSUME NEW d \in Nat, NEW h \in SUBSET Locks, NEW what \in Printing,
           NEW on \in {"SERIAL_PORT", "nothing"},
           what = "lock" => on = "SERIAL_PORT" /\ on \notin h, what = "unlock" => on \in h,
           what = "restore" => d > 0, d = 0 => h = {}
    PROVE  <<At(d, h, {}), Op(what, on)>> \in TestSteps
<1>1. what \in Doings /\ on \in Locks \cup Controllers \cup {"nothing"}
      /\ (what = "lock" => on \in Locks)
  BY DEF Printing, Doings, Locks
<1>2. Op(what, on) \in Steps /\ Op(what, on).do = what /\ Op(what, on).on = on
  BY <1>1, OpStep
<1>3. /\ At(d, h, {}) \in States
      /\ At(d, h, {}).depth = d /\ At(d, h, {}).held = h
  BY AtState
<1> QED
  BY <1>1, <1>2, <1>3 DEF TestSteps, Legal

\* kernel_test_thread
LEMMA TestThreadRuns == Runs(KernelTestThread, Idle, Idle, TestSteps)
<1>1. "SERIAL_PORT" \in Locks /\ {"disable", "restore", "lock", "unlock"} \subseteq Printing
  BY DEF Locks, Printing
<1>2. <<At(0, {}, {}), Op("disable", "nothing")>> \in TestSteps
  BY <1>1, TestAllowed
<1>3. ASSUME NEW k \in {1, 2}
      PROVE  /\ <<At(k, {}, {}), Op("disable", "nothing")>> \in TestSteps
             /\ <<At(k, {}, {}), Op("restore", "nothing")>> \in TestSteps
             /\ <<At(k, {}, {}), Op("lock", "SERIAL_PORT")>> \in TestSteps
  <2>1. k \in Nat /\ k > 0 /\ k # 0 /\ {} \in SUBSET Locks /\ "SERIAL_PORT" \notin {}
    OBVIOUS
  <2> QED
    BY <1>1, <2>1, TestAllowed
<1>4. <<At(2, {} \cup {"SERIAL_PORT"}, {}), Op("unlock", "SERIAL_PORT")>> \in TestSteps
  <2>1. PICK g \in SUBSET Locks : g = {} \cup {"SERIAL_PORT"}
    BY <1>1
  <2>2. PICK k \in Nat : k = 2 /\ k # 0
    OBVIOUS
  <2>3. <<At(k, g, {}), Op("unlock", "SERIAL_PORT")>> \in TestSteps
    BY <1>1, <2>1, <2>2, TestAllowed
  <2> QED
    BY <2>1, <2>2, <2>3
<1>5. 0 + 1 = 1 /\ 0 + 2 = 2 /\ 0 \in Nat
  OBVIOUS
<1>6. Prints(0, {}, {}, TestSteps)
  BY <1>2, <1>3, <1>4, <1>5 DEF Prints
<1> QED
  BY <1>5, <1>6, PrintRuns DEF Idle, KernelTestThread

\* syscall_handler
LEMMA SyscallRuns ==
    ASSUME NEW code \in SyscallHandler
    PROVE  Runs(code, Idle, Idle, CallSteps)
<1>1. "SERIAL_PORT" \in Locks /\ "lock" \in Doings /\ "unlock" \in Doings
      /\ "user_write" \in Doings /\ "user_write" \notin Printing
  BY DEF Locks, Doings, Printing
<1>2. CASE code = Holding("SERIAL_PORT", << >>)
  <2>1. <<At(0, {}, {}), Op("lock", "SERIAL_PORT")>> \in CallSteps
    BY <1>1, AtState, OpStep DEF CallSteps, Legal
  <2>2. PICK g \in SUBSET Locks : g = {} \cup {"SERIAL_PORT"}
    BY <1>1
  <2>3. <<At(0, g, {}), Op("unlock", "SERIAL_PORT")>> \in CallSteps
    BY <1>1, <2>2, AtState, OpStep DEF CallSteps, Legal
  <2> QED
    BY <1>1, <1>2, <2>1, <2>2, <2>3, TouchRuns DEF Idle
<1>3. CASE code = Do("user_write")
  <2>1. At(0, {}, {}) \in States /\ At(0, {}, {}).held = {}
    BY AtState
  <2>2. Op("user_write", "nothing") \in Steps /\ Op("user_write", "nothing").do = "user_write"
    BY <1>1, OpStep
  <2>3. <<At(0, {}, {}), Op("user_write", "nothing")>> \in CallSteps
    BY <2>1, <2>2 DEF CallSteps, Legal
  <2> QED
    BY <1>1, <1>3, <2>1, <2>3, DoRuns DEF Idle
<1>4. CASE code = << >>
  BY <1>4, AtState, RunsNothing DEF Idle
<1> QED
  BY <1>2, <1>3, <1>4 DEF SyscallHandler

LEMMA HandlerAllowed ==
    ASSUME NEW b \in BOOLEAN, NEW d \in Nat, NEW h \in SUBSET Locks, NEW e \in SUBSET Controllers,
           NEW what \in Printing \cup {"eoi", "panic"},
           NEW on \in Locks \cup Controllers \cup {"nothing"},
           what = "lock" => on \in Locks \ h /\ on \notin {"DEVICES", "CONSOLE", "CPIO"}
                                /\ (on = "ALLOCATOR" => b),
           what = "unlock" => on \in h, what = "restore" => d > 0
    PROVE  <<At(d, h, e), Op(what, on)>> \in HandlerSteps(b)
<1>1. what \in Doings
  BY DEF Printing, Doings
<1>2. Op(what, on) \in Steps /\ Op(what, on).do = what /\ Op(what, on).on = on
  BY <1>1, OpStep
<1>3. At(d, h, e) \in States /\ At(d, h, e).depth = d /\ At(d, h, e).held = h
  BY AtState
<1> QED
  BY <1>2, <1>3 DEF HandlerSteps, Legal

\* interrupt_handler around a lock: only schedule takes the heap's.
LEMMA HandlerHolding ==
    ASSUME NEW b \in BOOLEAN, NEW h \in SUBSET Locks, NEW e \in SUBSET Controllers,
           NEW l \in Locks \ {"DEVICES", "CONSOLE", "CPIO"}, l \notin h, l = "ALLOCATOR" => b,
           NEW code, Runs(code, At(0, h \cup {l}, e), At(0, h \cup {l}, e), HandlerSteps(b))
    PROVE  Runs(Holding(l, code), At(0, h, e), At(0, h, e), HandlerSteps(b))
<1>1. {"lock", "unlock"} \subseteq Printing \cup {"eoi", "panic"}
  BY DEF Printing
<1>2. <<At(0, h, e), Op("lock", l)>> \in HandlerSteps(b)
  BY <1>1, HandlerAllowed
<1>3. <<At(0, h \cup {l}, e), Op("unlock", l)>> \in HandlerSteps(b)
  <2>1. PICK g \in SUBSET Locks : g = h \cup {l}
    OBVIOUS
  <2> QED
    BY <1>1, <2>1, HandlerAllowed
<1> QED
  BY <1>2, <1>3, HoldingRuns

LEMMA HandlerTouching ==
    ASSUME NEW b \in BOOLEAN, NEW h \in SUBSET Locks, NEW e \in SUBSET Controllers,
           NEW l \in Locks \ {"DEVICES", "CONSOLE", "CPIO"}, l \notin h, l = "ALLOCATOR" => b
    PROVE  Runs(Holding(l, << >>), At(0, h, e), At(0, h, e), HandlerSteps(b))
<1>1. Runs(<< >>, At(0, h \cup {l}, e), At(0, h \cup {l}, e), HandlerSteps(b))
  BY AtState, RunsNothing
<1> QED
  BY <1>1, HandlerHolding

LEMMA HandlerPrinting ==
    ASSUME NEW b \in BOOLEAN, NEW h \in SUBSET Locks, NEW e \in SUBSET Controllers,
           "SERIAL_PORT" \notin h
    PROVE  /\ Runs(Tprint, At(0, h, e), At(0, h, e), HandlerSteps(b))
           /\ Runs(Println, At(0, h, e), At(0, h, e), HandlerSteps(b))
<1>1. "SERIAL_PORT" \in Locks /\ {"disable", "restore", "lock", "unlock"}
          \subseteq Printing \cup {"eoi", "panic"}
  BY DEF Locks, Printing
<1>2. <<At(0, h, e), Op("disable", "nothing")>> \in HandlerSteps(b)
  BY <1>1, HandlerAllowed
<1>3. ASSUME NEW k \in {1, 2}
      PROVE  /\ <<At(k, h, e), Op("disable", "nothing")>> \in HandlerSteps(b)
             /\ <<At(k, h, e), Op("restore", "nothing")>> \in HandlerSteps(b)
             /\ <<At(k, h, e), Op("lock", "SERIAL_PORT")>> \in HandlerSteps(b)
  <2>1. k \in Nat /\ k > 0
    OBVIOUS
  <2> QED
    BY <1>1, <2>1, HandlerAllowed
<1>4. <<At(2, h \cup {"SERIAL_PORT"}, e), Op("unlock", "SERIAL_PORT")>> \in HandlerSteps(b)
  <2>1. PICK g \in SUBSET Locks : g = h \cup {"SERIAL_PORT"}
    BY <1>1
  <2>2. <<At(2, g, e), Op("unlock", "SERIAL_PORT")>> \in HandlerSteps(b)
    BY <1>1, <2>1, HandlerAllowed
  <2> QED
    BY <2>1, <2>2
<1>5. 0 + 1 = 1 /\ 0 + 2 = 2 /\ 0 \in Nat
  OBVIOUS
<1>6. Prints(0, h, e, HandlerSteps(b))
  BY <1>2, <1>3, <1>4, <1>5 DEF Prints
<1> QED
  BY <1>5, <1>6, PrintRuns

\* The end of interrupt answers the controller the interrupt came from.
LEMMA EoiRuns ==
    ASSUME NEW b \in BOOLEAN, NEW c \in Controllers
    PROVE  Runs(Eoi(c), At(0, {}, {c}), Idle, HandlerSteps(b))
<1>1. "eoi" \in Doings /\ "eoi" \in Printing \cup {"eoi", "panic"}
  BY DEF Doings
<1>2. Op("eoi", c) \in Steps /\ Op("eoi", c).do = "eoi" /\ Op("eoi", c).on = c
  BY <1>1, OpStep
<1>3. At(0, {}, {c}) \in States /\ Idle \in States
  BY AtState DEF Idle
<1>4. <<At(0, {}, {c}), Op("eoi", c)>> \in HandlerSteps(b)
  BY <1>1, HandlerAllowed
<1>5. After(Op("eoi", c), At(0, {}, {c})) = Idle
  <2>1. {c} \ {c} = {}
    OBVIOUS
  <2> QED
    BY <1>2, <2>1 DEF After, At, Idle
<1>6. Runs(<<Op("eoi", c)>>, At(0, {}, {c}), Idle, HandlerSteps(b))
  BY <1>2, <1>3, <1>4, <1>5, RunsStep
<1> QED
  BY <1>6 DEF Eoi, Op

LEMMA LockNames ==
    ASSUME NEW t
    PROVE  /\ ThreadLock(t) \in Locks \ {"DEVICES", "CONSOLE", "CPIO"}
           /\ ProcessLock(t) \in Locks \ {"DEVICES", "CONSOLE", "CPIO"}
           /\ ThreadLock(t) \notin {"MM", "THREAD_QUEUE", "ALLOCATOR", "SERIAL_PORT"}
           /\ ProcessLock(t) \notin {"MM", "THREAD_QUEUE", "ALLOCATOR", "SERIAL_PORT"}
  BY DEF ThreadLock, ProcessLock, Locks

\* page_fault, resolved or not.
LEMMA PageFaultRuns ==
    ASSUME NEW b \in BOOLEAN, NEW code \in PageFaultHandler
    PROVE  Runs(code, Idle, Idle, HandlerSteps(b))
<1>1. Idle = At(0, {}, {}) /\ Idle \in States
  BY AtState DEF Idle
<1>2. PICK t : t = thread
  OBVIOUS
<1>3. PICK m \in SUBSET Locks : m = {} \cup {"MM"}
  BY DEF Locks
<1>4. "MM" \in Locks \ {"DEVICES", "CONSOLE", "CPIO"} /\ {} \in SUBSET Locks
      /\ {} \in SUBSET Controllers
  BY DEF Locks
<1>5. CASE code = Holding("MM", Holding(ThreadLock(t), << >>) \o Holding(ProcessLock(t), << >>))
  <2>1. ThreadLock(t) \notin m /\ ProcessLock(t) \notin m
    BY <1>3, LockNames
  <2>2. Runs(Holding(ThreadLock(t), << >>), At(0, m, {}), At(0, m, {}), HandlerSteps(b))
    BY <1>4, <2>1, LockNames, HandlerTouching
  <2>3. Runs(Holding(ProcessLock(t), << >>), At(0, m, {}), At(0, m, {}), HandlerSteps(b))
    BY <1>4, <2>1, LockNames, HandlerTouching
  <2>4. Runs(Holding(ThreadLock(t), << >>) \o Holding(ProcessLock(t), << >>),
             At(0, m, {}), At(0, m, {}), HandlerSteps(b))
    BY <2>2, <2>3, RunsJoin
  <2> QED
    BY <1>1, <1>3, <1>4, <1>5, <2>4, HandlerHolding
<1>6. CASE code = Holding("MM", << >>) \o Println \o Do("panic")
  <2>1. Runs(Holding("MM", << >>), Idle, Idle, HandlerSteps(b))
    BY <1>1, <1>4, HandlerTouching
  <2>2. Runs(Println, Idle, Idle, HandlerSteps(b))
    BY <1>1, <1>4, HandlerPrinting
  <2>3. Runs(Do("panic"), Idle, Idle, HandlerSteps(b))
    <3>1. <<At(0, {}, {}), Op("panic", "nothing")>> \in HandlerSteps(b)
      BY <1>4, HandlerAllowed DEF Printing
    <3>2. "panic" \in Doings \ (Printing \cup {"eoi"})
      BY DEF Doings, Printing
    <3> QED
      BY <1>1, <3>1, <3>2, DoRuns
  <2>4. Runs(Holding("MM", << >>) \o Println, Idle, Idle, HandlerSteps(b))
    BY <2>1, <2>2, RunsJoin
  <2>5. Runs((Holding("MM", << >>) \o Println) \o Do("panic"), Idle, Idle, HandlerSteps(b))
    BY <2>3, <2>4, RunsJoin
  <2> QED
    BY <1>6, <2>5
<1> QED
  BY <1>2, <1>5, <1>6 DEF PageFaultHandler

\* The APIC timer and the keyboard.
LEMMA DeviceRuns ==
    ASSUME NEW b \in BOOLEAN, NEW code \in DeviceHandler
    PROVE  Runs(code, At(0, {}, {"apic"}), Idle, HandlerSteps(b))
<1>1. "apic" \in Controllers /\ {"apic"} \in SUBSET Controllers /\ {} \in SUBSET Locks
  BY DEF Controllers
<1>2. /\ Runs(Tprint, At(0, {}, {"apic"}), At(0, {}, {"apic"}), HandlerSteps(b))
      /\ Runs(Println, At(0, {}, {"apic"}), At(0, {}, {"apic"}), HandlerSteps(b))
  BY <1>1, HandlerPrinting
<1>3. Runs(Eoi("apic"), At(0, {}, {"apic"}), Idle, HandlerSteps(b))
  BY <1>1, EoiRuns
<1>4. /\ Runs(Tprint \o Eoi("apic"), At(0, {}, {"apic"}), Idle, HandlerSteps(b))
      /\ Runs(Println \o Eoi("apic"), At(0, {}, {"apic"}), Idle, HandlerSteps(b))
  BY <1>2, <1>3, RunsJoin
<1> QED
  BY <1>4 DEF DeviceHandler

\* schedule, which the timer's handler runs before its end of interrupt.
LEMMA ScheduleRuns ==
    Runs(Schedule, At(0, {}, {"pic"}), At(0, {}, {"pic"}), HandlerSteps(TRUE))
<1>1. PICK G : G = HandlerSteps(TRUE)
  OBVIOUS
<1>2. PICK e \in SUBSET Controllers : e = {"pic"}
  BY DEF Controllers
<1>3. PICK t : t = thread
  OBVIOUS
<1>4. PICK u : u = NextThread
  OBVIOUS
<1>5. PICK a : a = IF NextThread = Program THEN << >> ELSE Holding("MM", << >>)
  OBVIOUS
<1>6. PICK q \in SUBSET Locks : q = {} \cup {"THREAD_QUEUE"}
  BY DEF Locks
<1>7. PICK r \in SUBSET Locks : r = q \cup {ProcessLock(u)}
  BY <1>6, LockNames
<1>8. /\ {"THREAD_QUEUE", "ALLOCATOR", "MM"} \subseteq Locks \ {"DEVICES", "CONSOLE", "CPIO"}
      /\ {} \in SUBSET Locks /\ TRUE \in BOOLEAN
  BY DEF Locks
<1>9. /\ ThreadLock(t) \notin q /\ ThreadLock(u) \notin q /\ ProcessLock(u) \notin q
      /\ "ALLOCATOR" \notin q /\ "MM" \notin r /\ "SERIAL_PORT" \notin r
      /\ ThreadLock(u) # "ALLOCATOR" /\ ThreadLock(t) # "ALLOCATOR"
  BY <1>6, <1>7, LockNames
<1>10. Runs(Holding(ThreadLock(t), << >>), At(0, q, e), At(0, q, e), G)
  BY <1>1, <1>8, <1>9, LockNames, HandlerTouching
<1>11. Runs(Holding(ThreadLock(u), << >>), At(0, q, e), At(0, q, e), G)
  BY <1>1, <1>8, <1>9, LockNames, HandlerTouching
<1>12. Runs(Allocate, At(0, q, e), At(0, q, e), G)
  BY <1>1, <1>8, <1>9, HandlerTouching DEF Allocate
<1>13. Runs(Holding(ProcessLock(u), Println \o a), At(0, q, e), At(0, q, e), G)
  <2>1. Runs(Println, At(0, r, e), At(0, r, e), G)
    BY <1>1, <1>8, <1>9, HandlerPrinting
  <2>2. Runs(Holding("MM", << >>), At(0, r, e), At(0, r, e), G)
    BY <1>1, <1>8, <1>9, HandlerTouching
  <2>3. Runs(<< >>, At(0, r, e), At(0, r, e), G)
    BY AtState, RunsNothing
  <2>4. Runs(a, At(0, r, e), At(0, r, e), G)
    BY <1>5, <2>2, <2>3
  <2>5. Runs(Println \o a, At(0, r, e), At(0, r, e), G)
    BY <2>1, <2>4, RunsJoin
  <2> QED
    BY <1>1, <1>7, <1>8, <1>9, <2>5, LockNames, HandlerHolding
<1>14. PICK first : first = Holding(ThreadLock(t), << >>)
  OBVIOUS
<1>15. Runs(first \o Allocate, At(0, q, e), At(0, q, e), G)
  BY <1>10, <1>12, <1>14, RunsJoin
<1>16. Runs((first \o Allocate) \o Allocate, At(0, q, e), At(0, q, e), G)
  BY <1>12, <1>15, RunsJoin
<1>17. PICK second : second = Holding(ThreadLock(u), << >>)
  OBVIOUS
<1>18. PICK third : third = Holding(ProcessLock(u), Println \o a)
  OBVIOUS
<1>19. Runs(((first \o Allocate) \o Allocate) \o second, At(0, q, e), At(0, q, e), G)
  BY <1>11, <1>16, <1>17, RunsJoin
<1>20. PICK code : code = (((first \o Allocate) \o Allocate) \o second) \o third
  OBVIOUS
<1>21. Runs(code, At(0, q, e), At(0, q, e), G)
  BY <1>13, <1>18, <1>19, <1>20, RunsJoin
<1>22. Runs(Holding("THREAD_QUEUE", code), At(0, {}, e), At(0, {}, e), G)
  BY <1>1, <1>6, <1>8, <1>21, HandlerHolding
<1>23. Runs(second, At(0, {}, e), At(0, {}, e), G)
  BY <1>1, <1>8, <1>9, <1>17, LockNames, HandlerTouching
<1>24. Schedule = Holding("THREAD_QUEUE", code) \o second
  BY <1>3, <1>4, <1>5, <1>14, <1>17, <1>18, <1>20 DEF Schedule
<1> QED
  BY <1>1, <1>2, <1>22, <1>23, <1>24, RunsJoin

\* Vector 32.
LEMMA TimerRuns ==
    ASSUME NEW code \in TimerHandler, Switches \in BOOLEAN
    PROVE  Runs(code, At(0, {}, {"pic"}), Idle, HandlerSteps(Switches))
<1>1. "pic" \in Controllers /\ {"pic"} \in SUBSET Controllers /\ {} \in SUBSET Locks
  BY DEF Controllers
<1>2. PICK b \in BOOLEAN : b = Switches
  OBVIOUS
<1>3. PICK a : a = IF Switches THEN Schedule ELSE << >>
  OBVIOUS
<1>4. Runs(Println, At(0, {}, {"pic"}), At(0, {}, {"pic"}), HandlerSteps(b))
  BY <1>1, HandlerPrinting
<1>5. Runs(a, At(0, {}, {"pic"}), At(0, {}, {"pic"}), HandlerSteps(b))
  <2>1. CASE b
    <3>1. b = TRUE /\ a = Schedule
      BY <1>2, <1>3, <2>1
    <3> QED
      BY <3>1, ScheduleRuns
  <2>2. CASE ~b
    <3>1. a = << >>
      BY <1>2, <1>3, <2>2
    <3>2. At(0, {}, {"pic"}) \in States
      BY <1>1, AtState
    <3> QED
      BY <3>1, <3>2, RunsNothing
  <2> QED
    BY <2>1, <2>2
<1>6. Runs(Eoi("pic"), At(0, {}, {"pic"}), Idle, HandlerSteps(b))
  BY <1>1, EoiRuns
<1>7. Runs(Println \o a, At(0, {}, {"pic"}), At(0, {}, {"pic"}), HandlerSteps(b))
  BY <1>4, <1>5, RunsJoin
<1>8. Runs((Println \o a) \o Eoi("pic"), At(0, {}, {"pic"}), Idle, HandlerSteps(b))
  BY <1>6, <1>7, RunsJoin
<1>9. code = (Println \o a) \o Eoi("pic")
  BY <1>3 DEF TimerHandler
<1> QED
  BY <1>2, <1>8, <1>9

\* Every path through interrupt_handler answers the controller.
Waiting(n) == IF n = "fault" THEN {} ELSE {Controller(n)}
LEMMA HandlerRuns ==
    ASSUME NEW code \in InterruptHandler, number \in Vectors, Switches \in BOOLEAN
    PROVE  Runs(code, At(0, {}, Waiting(number)), Idle, HandlerSteps(Switches))
<1>1. PICK b \in BOOLEAN : b = Switches
  OBVIOUS
<1>2. CASE number = "fault"
  <2>1. code \in PageFaultHandler /\ At(0, {}, Waiting(number)) = Idle
    BY <1>2 DEF InterruptHandler, Waiting, Idle
  <2> QED
    BY <1>1, <2>1, PageFaultRuns
<1>3. CASE number = "timer"
  <2>1. code \in TimerHandler /\ Waiting(number) = {"pic"}
    BY <1>3 DEF InterruptHandler, Waiting, Controller
  <2> QED
    BY <2>1, TimerRuns
<1>4. CASE number = "device"
  <2>1. code \in DeviceHandler /\ Waiting(number) = {"apic"}
    BY <1>4 DEF InterruptHandler, Waiting, Controller
  <2> QED
    BY <1>1, <2>1, DeviceRuns
<1> QED
  BY <1>2, <1>3, <1>4 DEF Vectors

Owners == Threads \cup {Handler}
HeldBy(o) == {l \in Locks : held[l] = o}
StateOf(o) == At(Len(were[o]), HeldBy(o), IF o = Handler THEN in_service ELSE {})
AllowedTo(o) ==
    IF o = InitThread THEN InitSteps
    ELSE IF o = TestThread THEN TestSteps
    ELSE IF o = Program THEN CallSteps ELSE HandlerSteps(Switches)

\* Whose code is under way: a program has some during a system call.
InCall == pc = "syscall" \/ (InTrap /\ frame.pc = "syscall")
Active(o) == o \in KernelThreads \/ (o = Program /\ InCall) \/ (o = Handler /\ pc = "handler")

LockTypes ==
    /\ scheduling \in BOOLEAN /\ ready \in BOOLEAN /\ replaced \in BOOLEAN
    /\ todo \in [Owners -> Seq(Steps)]
    /\ were \in [Owners -> Seq(BOOLEAN)]
    /\ held \in [Locks -> Owners \cup {NoThread}]
    /\ in_service \in SUBSET Controllers

\* What is under way comes to its end with nothing held, masked or waiting.
CodeRuns == \A o \in Owners : Active(o) => Runs(todo[o], StateOf(o), Idle, AllowedTo(o))

\* Between two interrupts the handler holds nothing.
Resting == pc # "handler" => were[Handler] = << >> /\ HeldBy(Handler) = {}

\* A thread that does not execute kernel code has its interrupts enabled and
\* holds what kernel_init_thread may hold then.
Quiet(t) ==
    were[t] = << >> /\ (IF t = InitThread THEN HeldBy(t) \subseteq Early ELSE HeldBy(t) = {})
QuietThreads == \A t \in Threads : t # thread \/ pc \notin {"kernel", "syscall"} => Quiet(t)

\* Only the outermost without_interrupts found interrupts enabled; the
\* handler's never does.
Nesting ==
    /\ were[Program] = << >>
    /\ \A t \in KernelThreads : \A i \in 1 .. Len(were[t]) : were[t][i] = (i = Len(were[t]))
    /\ \A i \in 1 .. Len(were[Handler]) : were[Handler][i] = FALSE

Serving ==
    /\ pc \notin {"vector", "handler"} => in_service = {}
    /\ pc = "vector" => in_service = Waiting(number)

\* Kernel threads are interrupted with interrupts enabled only, and the
\* program alone makes system calls.
Whereabouts ==
    /\ pc = "kernel" => thread \in KernelThreads /\ (intr <=> were[thread] = << >>)
    /\ pc \in {"user", "entry", "masked", "syscall", "leaving"} => thread = Program
    /\ InTrap /\ frame.pc = "kernel" => thread \in KernelThreads /\ frame.intr = TRUE
    /\ InTrap /\ frame.pc # "kernel" => thread = Program
    /\ \A t \in KernelThreads : saved[t].pc = "kernel" /\ saved[t].intr = TRUE
    /\ saved[Program].pc = "user"

\* The inductive invariant of the locks, on top of that of the entries.
Ordered == CodeRuns /\ Resting /\ QuietThreads /\ Nesting /\ Serving /\ Whereabouts
LocksInv == IInv /\ LockTypes /\ (Alive => Ordered)

LEMMA Cast ==
    /\ Threads = {InitThread, TestThread, Program}
    /\ InitThread # TestThread /\ InitThread # Program /\ TestThread # Program
    /\ Handler \notin Threads /\ Handler # NoThread /\ NoThread \notin Owners
    /\ KernelThreads = {InitThread, TestThread}
    /\ Owners = {InitThread, TestThread, Program, Handler}
  BY CastAssumption, ThreadsAssumption DEF Threads, Owners

LEMMA InitLocks == LocksInit => LocksInv
<1> SUFFICES ASSUME LocksInit PROVE LocksInv
  OBVIOUS
<1>1. IInv /\ pc = "kernel" /\ thread = InitThread /\ intr = TRUE /\ in_service = {}
      /\ saved = [t \in Threads |-> FirstFrame(t)]
  BY InitIInv DEF LocksInit, Init
<1>2. Runs(KernelInitThread, Idle, Idle, InitSteps)
  BY InitThreadRuns
<1>3. KernelInitThread \in Seq(Steps) /\ << >> \in Seq(Steps) /\ << >> \in Seq(BOOLEAN)
  BY <1>2 DEF Runs
<1>4. \A o \in Owners : todo[o] = IF o = InitThread THEN KernelInitThread ELSE << >>
  BY DEF LocksInit, Owners
<1>5. \A o \in Owners : were[o] = << >>
  BY DEF LocksInit, Owners
<1>6. \A l \in Locks : held[l] = NoThread
  BY DEF LocksInit
<1>7. LockTypes
  BY <1>3 DEF LocksInit, LockTypes, Owners
<1>8. ASSUME NEW o \in Owners PROVE HeldBy(o) = {}
  BY <1>6, Cast DEF HeldBy
<1>9. ASSUME NEW o \in Owners PROVE StateOf(o) = Idle
  BY <1>1, <1>5, <1>8 DEF StateOf, Idle
<1>10. CodeRuns
  <2> SUFFICES ASSUME NEW o \in Owners, Active(o)
               PROVE  Runs(todo[o], StateOf(o), Idle, AllowedTo(o))
    BY DEF CodeRuns
  <2>1. CASE o = InitThread
    BY <1>2, <1>4, <1>9, <2>1 DEF AllowedTo
  <2>2. CASE o # InitThread
    <3>1. todo[o] = << >> /\ StateOf(o) = Idle /\ Idle \in States
      BY <1>4, <1>9, <2>2, AtState DEF Idle
    <3> QED
      BY <3>1, RunsNothing
  <2> QED
    BY <2>1, <2>2
<1>11. Resting /\ QuietThreads
  BY <1>5, <1>8, Cast DEF Resting, QuietThreads, Quiet, Owners
<1>12. Nesting
  BY <1>5, Cast DEF Nesting
<1>13. Serving
  BY <1>1 DEF Serving
<1>14. Whereabouts
  <2>1. /\ saved[InitThread] = FirstFrame(InitThread) /\ saved[TestThread] = FirstFrame(TestThread)
        /\ saved[Program] = FirstFrame(Program)
    BY <1>1, Cast
  <2>2. UserThreads = {Program}
    BY CastAssumption
  <2> QED
    BY <1>1, <1>5, <2>1, <2>2, Cast DEF Whereabouts, FirstFrame, InTrap
<1> QED
  BY <1>1, <1>7, <1>10, <1>11, <1>12, <1>13, <1>14 DEF LocksInv, Ordered

\* The code that executes, and what it may do next.
LEMMA RunningRuns ==
    ASSUME LocksInv, Alive, InKernel, todo[Running] # << >>
    PROVE  /\ Running \in Owners /\ Active(Running) /\ todo[Running] \in Seq(Steps)
           /\ StateOf(Running) \in States /\ Head(todo[Running]) \in Steps
           /\ <<StateOf(Running), Head(todo[Running])>> \in AllowedTo(Running)
           /\ Runs(Tail(todo[Running]), After(Head(todo[Running]), StateOf(Running)), Idle,
                   AllowedTo(Running))
           /\ pc = "handler" => Running = Handler
           /\ pc = "kernel" => Running = thread /\ thread \in KernelThreads
           /\ pc = "syscall" => Running = Program /\ thread = Program
<1>1. Ordered /\ TypeOK
  BY DEF LocksInv, IInv
<1>2. /\ Running \in Owners /\ Active(Running)
      /\ pc = "handler" => Running = Handler
      /\ pc = "kernel" => Running = thread /\ thread \in KernelThreads
      /\ pc = "syscall" => Running = Program /\ thread = Program
  BY <1>1, Cast DEF Ordered, Whereabouts, Running, InKernel, Owners, Active, InCall
<1>3. Runs(todo[Running], StateOf(Running), Idle, AllowedTo(Running))
  BY <1>1, <1>2 DEF Ordered, CodeRuns
<1>4. todo[Running] \in Seq(Steps)
  BY <1>2 DEF LocksInv, LockTypes
<1>5. PICK s : s = todo[Running]
  OBVIOUS
<1>6. PICK x : x = StateOf(Running)
  OBVIOUS
<1>7. PICK G : G = AllowedTo(Running)
  OBVIOUS
<1>8. Runs(s, x, Idle, G) /\ s # << >>
  BY <1>3, <1>5, <1>6, <1>7
<1>9. /\ x \in States /\ Head(s) \in Steps /\ <<x, Head(s)>> \in G
      /\ Runs(Tail(s), After(Head(s), x), Idle, G)
  BY <1>8, RunsNext
<1> QED
  BY <1>2, <1>4, <1>5, <1>6, <1>7, <1>9

\* What a step may do is what its owner is allowed to.
LEMMA Legality ==
    ASSUME LocksInv, Alive, NEW what, Does(what), NEW r, r = Running, NEW l, l = Operand
    PROVE  /\ r \in Owners /\ todo[r] # << >> /\ InKernel
           /\ Head(todo[r]).do = what /\ Head(todo[r]).on = l
           /\ what = "lock" => l \in Locks /\ held[l] # r
           /\ what = "lock" /\ r = Handler =>
                l \notin {"DEVICES", "CONSOLE", "CPIO"} /\ (l = "ALLOCATOR" => Switches)
           /\ what = "lock" /\ r \in {TestThread, Program} => l = "SERIAL_PORT"
           /\ what = "unlock" => l \in Locks /\ held[l] = r
           /\ what = "restore" => were[r] # << >>
           /\ what \in {"disable", "restore"} => r # Program
           /\ what \in {"eoi", "panic"} => r = Handler
           /\ what \in {"set_ready", "verify", "replace"} => r = InitThread
           /\ what = "user_write" => r = Program /\ HeldBy(r) = {}
<1>1. InKernel /\ todo[r] # << >> /\ Head(todo[r]).do = what /\ Head(todo[r]).on = l
  BY DEF Does, Operand
<1>2. PICK op : op = Head(todo[r])
  OBVIOUS
<1>3. PICK x : x = StateOf(r)
  OBVIOUS
<1>4. r \in Owners /\ op \in Steps /\ x \in States /\ <<x, op>> \in AllowedTo(r)
  BY <1>1, <1>2, <1>3, RunningRuns
<1>5. x.depth = Len(were[r]) /\ x.held = HeldBy(r)
  BY <1>3 DEF StateOf, At
<1>6. were[r] \in Seq(BOOLEAN)
  BY <1>4 DEF LocksInv, LockTypes
<1>7. /\ Legal(x, op)
      /\ r = InitThread => op.do \notin {"eoi", "user_write", "panic"}
      /\ r = TestThread => op.do \in Printing /\ (op.do = "lock" => op.on = "SERIAL_PORT")
      /\ r = Program => /\ op.do \in {"lock", "unlock", "user_write"}
                        /\ op.do = "lock" => op.on = "SERIAL_PORT"
                        /\ op.do = "user_write" => x.held = {}
      /\ r = Handler => /\ op.do \in Printing \cup {"eoi", "panic"}
                        /\ op.do = "lock" => op.on \notin {"DEVICES", "CONSOLE", "CPIO"}
                        /\ op.do = "lock" /\ op.on = "ALLOCATOR" => Switches
  <2>1. CASE r = InitThread
    <3>1. <<x, op>> \in InitSteps
      BY <1>4, <2>1 DEF AllowedTo
    <3> QED
      BY <2>1, <3>1, Cast DEF InitSteps, Threads, Owners
  <2>2. CASE r = TestThread
    <3>1. <<x, op>> \in TestSteps
      BY <1>4, <2>2, Cast DEF AllowedTo
    <3> QED
      BY <2>2, <3>1, Cast DEF TestSteps, Threads, Owners
  <2>3. CASE r = Program
    <3>1. <<x, op>> \in CallSteps
      BY <1>4, <2>3, Cast DEF AllowedTo
    <3> QED
      BY <2>3, <3>1, Cast DEF CallSteps, Threads, Owners
  <2>4. CASE r = Handler
    <3>1. <<x, op>> \in HandlerSteps(Switches)
      BY <1>4, <2>4, Cast DEF AllowedTo
    <3> QED
      BY <2>4, <3>1, Cast DEF HandlerSteps, Threads, Owners
  <2> QED
    BY <1>4, <2>1, <2>2, <2>3, <2>4, Cast
<1>8. /\ what = "lock" => l \in Locks /\ held[l] # r
      /\ what = "unlock" => l \in Locks /\ held[l] = r
  BY <1>1, <1>2, <1>5, <1>7 DEF Legal, HeldBy
<1>9. what = "restore" => were[r] # << >>
  BY <1>1, <1>2, <1>5, <1>6, <1>7 DEF Legal
<1>10. r \in {InitThread, TestThread, Program, Handler}
  BY <1>4, Cast
<1> QED
  BY <1>1, <1>2, <1>4, <1>5, <1>7, <1>8, <1>9, <1>10 DEF Printing

\* A step of the code that executes moves its owner along its run and leaves
\* the others where they are.
LEMMA ExecuteRuns ==
    ASSUME LocksInv, Alive, InKernel, NEW r, r = Running, todo[r] # << >>, Finish,
           thread' = thread, pc' = pc, frame' = frame, number' = number,
           scheduling' = scheduling, pc = "handler" => ready' = ready,
           \A o \in Owners \ {r} : were'[o] = were[o] /\ HeldBy(o)' = HeldBy(o),
           StateOf(r)' = After(Head(todo[r]), StateOf(r))
    PROVE  CodeRuns' /\ Resting' /\ QuietThreads'
<1>1. /\ r \in Owners /\ Active(r) /\ todo[r] \in Seq(Steps)
      /\ Runs(Tail(todo[r]), After(Head(todo[r]), StateOf(r)), Idle, AllowedTo(r))
      /\ pc = "handler" => r = Handler
      /\ pc = "kernel" => r = thread /\ thread \in KernelThreads
      /\ pc = "syscall" => r = Program /\ thread = Program
  BY RunningRuns
<1>2. Ordered /\ todo \in [Owners -> Seq(Steps)]
  BY DEF LocksInv, LockTypes
<1>3. todo'[r] = Tail(todo[r]) /\ \A o \in Owners \ {r} : todo'[o] = todo[o]
  BY <1>1, <1>2 DEF Finish
<1>4. \A o : Active(o)' <=> Active(o)
  BY DEF Active, InCall, InTrap
<1>5. ASSUME NEW o \in Owners, Active(o) PROVE AllowedTo(o)' = AllowedTo(o)
  <2>1. CASE o = Handler
    <3>1. pc = "handler"
      BY <1>5, <2>1, Cast DEF Active, Threads
    <3>2. Switches' = Switches
      BY <3>1 DEF Switches
    <3> QED
      BY <3>2 DEF AllowedTo
  <2>2. CASE o # Handler
    BY <1>5, <2>2, Cast DEF AllowedTo
  <2> QED
    BY <2>1, <2>2
<1>6. ASSUME NEW o \in Owners \ {r}, Active(o) PROVE StateOf(o)' = StateOf(o)
  <2>1. o # Handler
    BY <1>1, <1>6, Cast DEF Active, Threads
  <2> QED
    BY <2>1 DEF StateOf
<1>7. CodeRuns'
  <2> SUFFICES ASSUME NEW o \in Owners, Active(o)'
               PROVE  Runs(todo'[o], StateOf(o)', Idle, AllowedTo(o)')
    BY DEF CodeRuns, Runs, Trace, States, Steps, After, Idle, At
  <2>1. Active(o)
    BY <1>4
  <2>2. CASE o = r
    BY <1>1, <1>3, <1>5, <2>1, <2>2
  <2>3. CASE o # r
    <3>1. Runs(todo[o], StateOf(o), Idle, AllowedTo(o))
      BY <1>2, <2>1 DEF Ordered, CodeRuns
    <3> QED
      BY <1>3, <1>5, <1>6, <2>1, <2>3, <3>1
  <2> QED
    BY <2>2, <2>3
<1>8. Resting'
  <2> SUFFICES ASSUME pc # "handler" PROVE were'[Handler] = << >> /\ HeldBy(Handler)' = {}
    BY DEF Resting
  <2>1. r # Handler /\ Handler \in Owners
    BY <1>1, Cast DEF InKernel, Threads, Owners
  <2>2. were[Handler] = << >> /\ HeldBy(Handler) = {}
    BY <1>2 DEF Ordered, Resting
  <2> QED
    BY <2>1, <2>2
<1>9. QuietThreads'
  <2> SUFFICES ASSUME NEW t \in Threads, t # thread \/ pc \notin {"kernel", "syscall"}
               PROVE  Quiet(t)'
    BY DEF QuietThreads
  <2>1. t # r /\ t \in Owners
    BY <1>1, Cast DEF InKernel, Threads, Owners
  <2>2. Quiet(t)
    BY <1>2 DEF Ordered, QuietThreads
  <2>3. were'[t] = were[t] /\ HeldBy(t)' = HeldBy(t)
    BY <2>1
  <2> QED
    BY <2>2, <2>3 DEF Quiet
<1> QED
  BY <1>7, <1>8, <1>9

LEMMA TodoType ==
    ASSUME LockTypes, Finish, Running \in Owners, todo[Running] # << >>
    PROVE  todo' \in [Owners -> Seq(Steps)]
<1>1. todo[Running] \in Seq(Steps) /\ Tail(todo[Running]) \in Seq(Steps)
  BY DEF LockTypes
<1> QED
  BY <1>1 DEF LockTypes, Finish

\* What depends only on where the processor is.
LEMMA SamePlace ==
    ASSUME LocksInv, Alive, UNCHANGED vars, were' = were
    PROVE  IInv' /\ Nesting' /\ Whereabouts' /\ Alive'
<1>1. Nesting /\ Whereabouts
  BY DEF LocksInv, Ordered
<1>2. IInv'
  BY NextIInv DEF LocksInv
<1> QED
  BY <1>1, <1>2 DEF vars, Nesting, Whereabouts, InTrap, Alive

\* lock
LEMMA TakeLockInv ==
    ASSUME LocksInv, TakeLock
    PROVE  LocksInv'
<1>1. Alive /\ Does("lock") /\ Finish /\ UNCHANGED <<vars, scheduling, ready, replaced, were, in_service>>
  BY DEF TakeLock
<1>2. PICK r : r = Running
  OBVIOUS
<1>3. PICK l : l = Operand
  OBVIOUS
<1>4. /\ r \in Owners /\ todo[r] # << >> /\ InKernel /\ Head(todo[r]).do = "lock"
      /\ Head(todo[r]).on = l /\ l \in Locks
  BY <1>1, <1>2, <1>3, Legality
<1>5. held[l] = NoThread /\ held' = [held EXCEPT ![l] = r] /\ held \in [Locks -> Owners \cup {NoThread}]
  BY <1>2, <1>3 DEF TakeLock, LocksInv, LockTypes
<1>6. HeldBy(r)' = HeldBy(r) \cup {l}
  BY <1>4, <1>5 DEF HeldBy
<1>7. \A o \in Owners \ {r} : were'[o] = were[o] /\ HeldBy(o)' = HeldBy(o)
  BY <1>1, <1>4, <1>5, Cast DEF HeldBy
<1>8. StateOf(r)' = After(Head(todo[r]), StateOf(r))
  BY <1>1, <1>4, <1>6 DEF StateOf, After, At
<1>9. CodeRuns' /\ Resting' /\ QuietThreads'
  BY <1>1, <1>2, <1>4, <1>7, <1>8, ExecuteRuns DEF vars
<1>10. IInv' /\ Nesting' /\ Whereabouts' /\ Alive'
  BY <1>1, SamePlace
<1>11. LockTypes'
  BY <1>1, <1>2, <1>4, <1>5, TodoType DEF LocksInv, LockTypes
<1>12. Serving'
  BY <1>1 DEF LocksInv, Ordered, Serving, vars, Waiting
<1> QED
  BY <1>9, <1>10, <1>11, <1>12 DEF LocksInv, Ordered

\* unlock
LEMMA DropLockInv ==
    ASSUME LocksInv, DropLock
    PROVE  LocksInv'
<1>1. Alive /\ Does("unlock") /\ Finish /\ UNCHANGED <<vars, scheduling, ready, replaced, were, in_service>>
  BY DEF DropLock
<1>2. PICK r : r = Running
  OBVIOUS
<1>3. PICK l : l = Operand
  OBVIOUS
<1>4. /\ r \in Owners /\ todo[r] # << >> /\ InKernel /\ Head(todo[r]).do = "unlock"
      /\ Head(todo[r]).on = l /\ l \in Locks /\ held[l] = r
  BY <1>1, <1>2, <1>3, Legality
<1>5. held' = [held EXCEPT ![l] = NoThread] /\ held \in [Locks -> Owners \cup {NoThread}]
  BY <1>2, <1>3 DEF DropLock, LocksInv, LockTypes
<1>6. HeldBy(r)' = HeldBy(r) \ {l}
  BY <1>4, <1>5, Cast DEF HeldBy
<1>7. \A o \in Owners \ {r} : were'[o] = were[o] /\ HeldBy(o)' = HeldBy(o)
  BY <1>1, <1>4, <1>5, Cast DEF HeldBy
<1>8. StateOf(r)' = After(Head(todo[r]), StateOf(r))
  BY <1>1, <1>4, <1>6 DEF StateOf, After, At
<1>9. CodeRuns' /\ Resting' /\ QuietThreads'
  BY <1>1, <1>2, <1>4, <1>7, <1>8, ExecuteRuns DEF vars
<1>10. IInv' /\ Nesting' /\ Whereabouts' /\ Alive'
  BY <1>1, SamePlace
<1>11. LockTypes'
  BY <1>1, <1>2, <1>4, <1>5, TodoType DEF LocksInv, LockTypes
<1>12. Serving'
  BY <1>1 DEF LocksInv, Ordered, Serving, vars, Waiting
<1> QED
  BY <1>9, <1>10, <1>11, <1>12 DEF LocksInv, Ordered

\* The end of interrupt.
LEMMA SendEoiInv ==
    ASSUME LocksInv, SendEoi
    PROVE  LocksInv'
<1>1. Alive /\ Does("eoi") /\ Finish /\ UNCHANGED <<vars, scheduling, ready, replaced, were, held>>
  BY DEF SendEoi
<1>2. PICK r : r = Running
  OBVIOUS
<1>3. PICK l : l = Operand
  OBVIOUS
<1>4. /\ r \in Owners /\ todo[r] # << >> /\ InKernel /\ Head(todo[r]).do = "eoi"
      /\ Head(todo[r]).on = l /\ r = Handler
  BY <1>1, <1>2, <1>3, Legality
<1>5. in_service' = in_service \ {l} /\ in_service \in SUBSET Controllers
  BY <1>3 DEF SendEoi, LocksInv, LockTypes
<1>6. \A o \in Owners : were'[o] = were[o] /\ HeldBy(o)' = HeldBy(o)
  BY <1>1 DEF HeldBy
<1>7. StateOf(r)' = After(Head(todo[r]), StateOf(r))
  BY <1>4, <1>5, <1>6 DEF StateOf, After, At
<1>8. CodeRuns' /\ Resting' /\ QuietThreads'
  BY <1>1, <1>2, <1>4, <1>6, <1>7, ExecuteRuns DEF vars
<1>9. IInv' /\ Nesting' /\ Whereabouts' /\ Alive'
  BY <1>1, SamePlace
<1>10. LockTypes'
  BY <1>1, <1>2, <1>4, <1>5, TodoType DEF LocksInv, LockTypes
<1>11. pc = "handler"
  BY <1>2, <1>4, Cast DEF Running, LocksInv, IInv, TypeOK
<1>12. Serving'
  BY <1>1, <1>11 DEF Serving, vars
<1> QED
  BY <1>8, <1>9, <1>10, <1>12 DEF LocksInv, Ordered

\* set_ready, the end of replace_image and user_write.
LEMMA EffectInv ==
    ASSUME LocksInv, SetReady \/ Replace \/ UserWrite
    PROVE  LocksInv'
<1>1. PICK what \in {"set_ready", "replace", "user_write"} :
         Alive /\ Does(what) /\ Finish /\ UNCHANGED <<vars, scheduling, were, held, in_service>>
             /\ (what = "user_write" => ready' = ready)
             /\ ready' \in {ready, TRUE} /\ replaced' \in {replaced, TRUE}
  BY DEF SetReady, Replace, UserWrite
<1>2. PICK r : r = Running
  OBVIOUS
<1>3. PICK l : l = Operand
  OBVIOUS
<1>4. /\ r \in Owners /\ todo[r] # << >> /\ InKernel /\ Head(todo[r]).do = what
      /\ r \in {InitThread, Program}
  BY <1>1, <1>2, <1>3, Legality
<1>5. \A o \in Owners : were'[o] = were[o] /\ HeldBy(o)' = HeldBy(o)
  BY <1>1 DEF HeldBy
<1>6. StateOf(r)' = After(Head(todo[r]), StateOf(r))
  BY <1>1, <1>4, <1>5 DEF StateOf, After, At
<1>7. pc # "handler"
  BY <1>2, <1>4, Cast DEF Running, Threads
<1>8. CodeRuns' /\ Resting' /\ QuietThreads'
  BY <1>1, <1>2, <1>4, <1>5, <1>6, <1>7, ExecuteRuns DEF vars
<1>9. IInv' /\ Nesting' /\ Whereabouts' /\ Alive'
  BY <1>1, SamePlace
<1>10. LockTypes'
  BY <1>1, <1>2, <1>4, TodoType DEF LocksInv, LockTypes
<1>11. Serving'
  BY <1>1 DEF LocksInv, Ordered, Serving, vars, Waiting
<1> QED
  BY <1>8, <1>9, <1>10, <1>11 DEF LocksInv, Ordered

\* Kernel code may mask interrupts, and only a kernel thread may enable them.
LEMMA MaskIInv ==
    ASSUME IInv, UNCHANGED trapVarsButIntr, intr' \in BOOLEAN, intr' = FALSE \/ pc = "kernel"
    PROVE  IInv'
<1> USE DEF GsInv, SlotInv, OnUserGs, InTrap, Resumable, TypeOK, trapVarsButIntr
<1>1. TypeOK'
  BY DEF IInv
<1>2. ~wild => GsInv'
  BY DEF IInv
<1>3. ~wild => SlotInv'
  BY DEF IInv
<1> QED
  BY <1>1, <1>2, <1>3 DEF IInv

\* Who may mask interrupts, and whether they are masked.
LEMMA Masking ==
    ASSUME LocksInv, Alive, NEW what \in {"disable", "restore"}, Does(what), NEW r, r = Running
    PROVE  /\ \/ r = Handler /\ pc = "handler" /\ intr = FALSE
              \/ r \in KernelThreads /\ r = thread /\ pc = "kernel" /\ (intr <=> were[r] = << >>)
           /\ intr \in BOOLEAN /\ were[r] \in Seq(BOOLEAN)
<1>1. PICK l : l = Operand
  OBVIOUS
<1>2. r \in Owners /\ r # Program /\ InKernel /\ todo[r] # << >>
  BY <1>1, Legality
<1>3. TypeOK /\ GsInv /\ Whereabouts /\ were \in [Owners -> Seq(BOOLEAN)]
  BY DEF LocksInv, IInv, Ordered, Alive, LockTypes
<1>4. CASE pc = "handler"
  BY <1>2, <1>3, <1>4 DEF Running, GsInv, TypeOK
<1>5. CASE pc # "handler"
  BY <1>2, <1>3, <1>5, Cast DEF Running, InKernel, Whereabouts, TypeOK
<1> QED
  BY <1>4, <1>5

\* without_interrupts begins.
LEMMA DisableInv ==
    ASSUME LocksInv, DisableInterrupts
    PROVE  LocksInv'
<1>1. /\ Alive /\ Does("disable") /\ Finish /\ intr' = FALSE
      /\ UNCHANGED <<trapVarsButIntr, scheduling, ready, replaced, held, in_service>>
  BY DEF DisableInterrupts
<1>2. PICK r : r = Running
  OBVIOUS
<1>3. PICK l : l = Operand
  OBVIOUS
<1>4. r \in Owners /\ todo[r] # << >> /\ InKernel /\ Head(todo[r]).do = "disable"
  BY <1>1, <1>2, <1>3, Legality
<1>5. /\ \/ r = Handler /\ pc = "handler" /\ intr = FALSE
         \/ r \in KernelThreads /\ r = thread /\ pc = "kernel" /\ (intr <=> were[r] = << >>)
      /\ intr \in BOOLEAN /\ were[r] \in Seq(BOOLEAN)
  BY <1>1, <1>2, Masking
<1>6. were' = [were EXCEPT ![r] = <<intr>> \o were[r]] /\ were \in [Owners -> Seq(BOOLEAN)]
  BY <1>2 DEF DisableInterrupts, LocksInv, LockTypes
<1>7. PICK w : w = were[r]
  OBVIOUS
<1>8. PICK v : v = <<intr>> \o w
  OBVIOUS
<1>9. /\ v \in Seq(BOOLEAN) /\ Len(v) = Len(w) + 1 /\ v[1] = intr /\ v # << >>
      /\ \A i \in 2 .. Len(v) : v[i] = w[i - 1]
  BY <1>5, <1>7, <1>8
<1>10. were'[r] = v /\ \A o \in Owners \ {r} : were'[o] = were[o]
  BY <1>4, <1>6, <1>7, <1>8
<1>11. \A o : HeldBy(o)' = HeldBy(o)
  BY <1>1 DEF HeldBy
<1>12. StateOf(r)' = After(Head(todo[r]), StateOf(r))
  BY <1>1, <1>4, <1>7, <1>9, <1>10, <1>11 DEF StateOf, After, At
<1>13. CodeRuns' /\ Resting' /\ QuietThreads'
  BY <1>1, <1>2, <1>4, <1>10, <1>11, <1>12, ExecuteRuns DEF trapVarsButIntr
<1>14. IInv' /\ Alive'
  BY <1>1, MaskIInv DEF LocksInv, Alive, trapVarsButIntr
<1>15. LockTypes'
  <2>1. were' \in [Owners -> Seq(BOOLEAN)]
    BY <1>6, <1>7, <1>8, <1>9
  <2> QED
    BY <1>1, <1>2, <1>4, <2>1, TodoType DEF LocksInv, LockTypes
<1>16. Serving'
  BY <1>1 DEF LocksInv, Ordered, Serving, trapVarsButIntr, Waiting
<1>17. Nesting /\ Whereabouts
  BY <1>1 DEF LocksInv, Ordered
<1>18. Nesting'
  <2>1. were'[Program] = << >>
    BY <1>5, <1>10, <1>17, Cast DEF Nesting
  <2>2. ASSUME NEW t \in KernelThreads, NEW i \in 1 .. Len(were'[t])
        PROVE  were'[t][i] = (i = Len(were'[t]))
    <3>1. CASE t # r
      BY <1>10, <1>17, <2>2, <3>1, Cast DEF Nesting
    <3>2. CASE t = r
      <4>1. (intr <=> w = << >>) /\ t = r /\ Len(w) \in Nat /\ w \in Seq(BOOLEAN)
        BY <1>5, <1>7, <3>2, Cast DEF Threads
      <4>2. \A j \in 1 .. Len(w) : w[j] = (j = Len(w))
        BY <1>7, <1>17, <4>1 DEF Nesting
      <4>3. i \in 1 .. Len(v) /\ were'[t] = v
        BY <1>10, <2>2, <4>1
      <4>4. CASE i = 1
        <5>1. (Len(w) = 0) <=> (w = << >>)
          BY <4>1
        <5>2. (1 = Len(v)) <=> (Len(w) = 0)
          BY <1>9, <4>1
        <5> QED
          BY <1>5, <1>9, <4>1, <4>3, <4>4, <5>1, <5>2
      <4>5. CASE i # 1
        <5>1. i - 1 \in 1 .. Len(w) /\ v[i] = w[i - 1] /\ ((i - 1 = Len(w)) <=> (i = Len(v)))
          BY <1>9, <4>1, <4>3, <4>5
        <5> QED
          BY <4>2, <4>3, <5>1
      <4> QED
        BY <4>4, <4>5
    <3> QED
      BY <3>1, <3>2
  <2>3. ASSUME NEW i \in 1 .. Len(were'[Handler]) PROVE were'[Handler][i] = FALSE
    <3>1. CASE r # Handler
      BY <1>10, <1>17, <2>3, <3>1, Cast DEF Nesting
    <3>2. CASE r = Handler
      <4>1. intr = FALSE /\ were'[Handler] = v /\ w = were[Handler]
        BY <1>5, <1>7, <1>10, <3>2, Cast DEF Threads
      <4>2. i = 1 \/ (i # 1 /\ i - 1 \in 1 .. Len(w))
        BY <1>5, <1>7, <1>9, <2>3, <4>1
      <4> QED
        BY <1>9, <1>17, <2>3, <4>1, <4>2 DEF Nesting
    <3> QED
      BY <3>1, <3>2
  <2> QED
    BY <2>1, <2>2, <2>3 DEF Nesting
<1>19. Whereabouts'
  <2>1. pc = "kernel" => (intr' <=> were'[thread] = << >>)
    BY <1>1, <1>5, <1>9, <1>10
  <2> QED
    BY <1>1, <1>17, <2>1 DEF Whereabouts, InTrap, trapVarsButIntr
<1> QED
  BY <1>13, <1>14, <1>15, <1>16, <1>18, <1>19 DEF LocksInv, Ordered

\* without_interrupts ends.
LEMMA RestoreInv ==
    ASSUME LocksInv, RestoreInterrupts
    PROVE  LocksInv'
<1>1. /\ Alive /\ Does("restore") /\ Finish
      /\ UNCHANGED <<trapVarsButIntr, scheduling, ready, replaced, held, in_service>>
  BY DEF RestoreInterrupts
<1>2. PICK r : r = Running
  OBVIOUS
<1>3. PICK l : l = Operand
  OBVIOUS
<1>4. /\ r \in Owners /\ todo[r] # << >> /\ InKernel /\ Head(todo[r]).do = "restore"
      /\ were[r] # << >>
  BY <1>1, <1>2, <1>3, Legality
<1>5. /\ \/ r = Handler /\ pc = "handler" /\ intr = FALSE
         \/ r \in KernelThreads /\ r = thread /\ pc = "kernel" /\ (intr <=> were[r] = << >>)
      /\ intr \in BOOLEAN /\ were[r] \in Seq(BOOLEAN)
  BY <1>1, <1>2, Masking
<1>6. were' = [were EXCEPT ![r] = Tail(were[r])] /\ were \in [Owners -> Seq(BOOLEAN)]
  BY <1>2 DEF RestoreInterrupts, LocksInv, LockTypes
<1>7. PICK w : w = were[r]
  OBVIOUS
<1>8. PICK v : v = Tail(w)
  OBVIOUS
<1>9. /\ v \in Seq(BOOLEAN) /\ Len(v) = Len(w) - 1 /\ Head(w) = w[1] /\ Len(w) \in Nat \ {0}
      /\ \A i \in 1 .. Len(v) : v[i] = w[i + 1]
  <2>1. w \in Seq(BOOLEAN) /\ w # << >>
    BY <1>4, <1>5, <1>7
  <2>2. Len(w) \in Nat \ {0} /\ Head(w) = w[1]
    BY <2>1
  <2>3. v \in Seq(BOOLEAN) /\ Len(v) = Len(w) - 1
    BY <1>8, <2>1
  <2>4. \A i \in 1 .. Len(v) : v[i] = w[i + 1]
    BY <1>8, <2>1, <2>2, <2>3
  <2> QED
    BY <2>2, <2>3, <2>4
<1>10. were'[r] = v /\ \A o \in Owners \ {r} : were'[o] = were[o]
  BY <1>4, <1>6, <1>7, <1>8
<1>11. \A o : HeldBy(o)' = HeldBy(o)
  BY <1>1 DEF HeldBy
<1>12. StateOf(r)' = After(Head(todo[r]), StateOf(r))
  BY <1>1, <1>4, <1>7, <1>9, <1>10, <1>11 DEF StateOf, After, At
<1>13. CodeRuns' /\ Resting' /\ QuietThreads'
  BY <1>1, <1>2, <1>4, <1>10, <1>11, <1>12, ExecuteRuns DEF trapVarsButIntr
<1>14. Nesting /\ Whereabouts
  BY <1>1 DEF LocksInv, Ordered
<1>15. intr = FALSE /\ intr' = Head(w)
  <2>1. intr = FALSE
    BY <1>4, <1>5
  <2>2. intr' = (intr \/ Head(w))
    BY <1>2, <1>7 DEF RestoreInterrupts
  <2>3. Head(w) \in BOOLEAN
    <3>1. w \in Seq(BOOLEAN) /\ 1 \in 1 .. Len(w)
      BY <1>5, <1>7, <1>9
    <3> QED
      BY <1>9, <3>1
  <2> QED
    BY <2>1, <2>2, <2>3
<1>16. /\ r = Handler => intr' = FALSE
       /\ r \in KernelThreads => intr' = (1 = Len(w))
  <2>1. 1 \in 1 .. Len(w)
    BY <1>9
  <2>2. r = Handler => w[1] = FALSE
    BY <1>7, <1>14, <2>1 DEF Nesting
  <2>3. r \in KernelThreads => w[1] = (1 = Len(w))
    BY <1>7, <1>14, <2>1 DEF Nesting
  <2> QED
    BY <1>9, <1>15, <2>2, <2>3
<1>17. IInv' /\ Alive'
  <2>1. intr' \in BOOLEAN /\ (intr' = FALSE \/ pc = "kernel")
    BY <1>5, <1>9, <1>15, <1>16, <1>7
  <2> QED
    BY <1>1, <2>1, MaskIInv DEF LocksInv, Alive, trapVarsButIntr
<1>18. LockTypes'
  <2>1. were' \in [Owners -> Seq(BOOLEAN)]
    BY <1>6, <1>7, <1>8, <1>9
  <2> QED
    BY <1>1, <1>2, <1>4, <2>1, TodoType DEF LocksInv, LockTypes
<1>19. Serving'
  BY <1>1 DEF LocksInv, Ordered, Serving, trapVarsButIntr, Waiting
<1>20. Nesting'
  <2>1. were'[Program] = << >>
    BY <1>5, <1>10, <1>14, Cast DEF Nesting
  <2>2. ASSUME NEW t \in KernelThreads, NEW i \in 1 .. Len(were'[t])
        PROVE  were'[t][i] = (i = Len(were'[t]))
    <3>1. CASE t # r
      BY <1>10, <1>14, <2>2, <3>1, Cast DEF Nesting
    <3>2. CASE t = r
      <4>1. \A j \in 1 .. Len(w) : w[j] = (j = Len(w))
        BY <1>7, <1>14, <3>2 DEF Nesting
      <4>2. i \in 1 .. Len(v) /\ were'[t] = v
        BY <1>10, <2>2, <3>2
      <4>3. i + 1 \in 1 .. Len(w) /\ v[i] = w[i + 1] /\ ((i + 1 = Len(w)) <=> (i = Len(v)))
        BY <1>9, <4>2
      <4> QED
        BY <4>1, <4>2, <4>3
    <3> QED
      BY <3>1, <3>2
  <2>3. ASSUME NEW i \in 1 .. Len(were'[Handler]) PROVE were'[Handler][i] = FALSE
    <3>1. CASE r # Handler
      BY <1>10, <1>14, <2>3, <3>1, Cast DEF Nesting
    <3>2. CASE r = Handler
      <4>1. were'[Handler] = v /\ w = were[Handler]
        BY <1>7, <1>10, <3>2
      <4>2. i + 1 \in 1 .. Len(w) /\ v[i] = w[i + 1]
        BY <1>9, <2>3, <4>1
      <4> QED
        BY <1>14, <4>1, <4>2 DEF Nesting
    <3> QED
      BY <3>1, <3>2
  <2> QED
    BY <2>1, <2>2, <2>3 DEF Nesting
<1>21. Whereabouts'
  <2>1. (1 = Len(w)) <=> v = << >>
    BY <1>9
  <2>2. pc = "kernel" => (intr' <=> were'[thread] = << >>)
    BY <1>5, <1>10, <1>16, <2>1
  <2> QED
    BY <1>1, <1>14, <2>2 DEF Whereabouts, InTrap, trapVarsButIntr
<1> QED
  BY <1>13, <1>17, <1>18, <1>19, <1>20, <1>21 DEF LocksInv, Ordered

\* verify_interrupts_disabled panics or does nothing.
LEMMA VerifyInv ==
    ASSUME LocksInv, VerifyInterruptsDisabled
    PROVE  LocksInv'
<1>1. /\ Alive /\ Does("verify") /\ Finish /\ halted' = intr /\ intr' = FALSE
      /\ UNCHANGED <<thread, pc, cs, gs, frame, number, need_swap, saved, slot, wild>>
      /\ UNCHANGED <<scheduling, ready, replaced, were, held, in_service>>
  BY DEF VerifyInterruptsDisabled
<1>2. PICK r : r = Running
  OBVIOUS
<1>3. PICK l : l = Operand
  OBVIOUS
<1>4. /\ r \in Owners /\ todo[r] # << >> /\ InKernel /\ Head(todo[r]).do = "verify"
      /\ r = InitThread
  BY <1>1, <1>2, <1>3, Legality
<1>5. LockTypes'
  BY <1>1, <1>2, <1>4, TodoType DEF LocksInv, LockTypes
<1>6. TypeOK /\ GsInv /\ SlotInv
  BY <1>1 DEF LocksInv, IInv, Alive
<1>7. CASE intr
  <2>1. halted' = TRUE
    BY <1>1, <1>6, <1>7 DEF TypeOK
  <2>2. TypeOK'
    BY <1>1, <1>6, <2>1 DEF TypeOK
  <2>3. GsInv' /\ SlotInv'
    BY <1>1, <1>6 DEF GsInv, SlotInv, OnUserGs, InTrap, Resumable
  <2> QED
    BY <1>5, <2>1, <2>2, <2>3 DEF LocksInv, IInv, Alive
<1>8. CASE ~intr
  <2>1. UNCHANGED vars
    BY <1>1, <1>6, <1>8 DEF vars, Alive, TypeOK
  <2>2. \A o \in Owners : were'[o] = were[o] /\ HeldBy(o)' = HeldBy(o)
    BY <1>1 DEF HeldBy
  <2>3. StateOf(r)' = After(Head(todo[r]), StateOf(r))
    BY <1>1, <1>4, <2>2 DEF StateOf, After, At
  <2>4. CodeRuns' /\ Resting' /\ QuietThreads'
    BY <1>1, <1>2, <1>4, <2>2, <2>3, ExecuteRuns
  <2>5. IInv' /\ Nesting' /\ Whereabouts' /\ Alive'
    BY <1>1, <2>1, SamePlace
  <2>6. Serving'
    BY <1>1 DEF LocksInv, Ordered, Serving, Waiting
  <2> QED
    BY <1>5, <2>4, <2>5, <2>6 DEF LocksInv, Ordered
<1> QED
  BY <1>7, <1>8

\* Code at its end holds nothing and has answered the controllers.
LEMMA Ended ==
    ASSUME LocksInv, Alive, NEW o \in Owners, Active(o), todo[o] = << >>
    PROVE  were[o] = << >> /\ HeldBy(o) = {} /\ (o = Handler => in_service = {})
<1>1. Runs(<< >>, StateOf(o), Idle, AllowedTo(o)) /\ were[o] \in Seq(BOOLEAN)
  BY DEF LocksInv, LockTypes, Ordered, CodeRuns
<1>2. StateOf(o) = Idle
  BY <1>1, RunsEmpty
<1>3. Len(were[o]) = 0 /\ HeldBy(o) = {} /\ (o = Handler => in_service = {})
  BY <1>2 DEF StateOf, Idle, At
<1> QED
  BY <1>1, <1>3

\* A kernel thread that can be interrupted is quiet.
LEMMA Interruptible ==
    ASSUME LocksInv, Alive, NEW t \in KernelThreads, were[t] = << >>
    PROVE  Quiet(t)
<1>1. t \in Owners /\ Active(t) /\ t \in {InitThread, TestThread}
  BY Cast DEF Active
<1>2. CASE todo[t] = << >>
  BY <1>1, <1>2, Ended DEF Quiet
<1>3. CASE todo[t] # << >>
  <2>1. PICK s : s = todo[t]
    OBVIOUS
  <2>2. PICK x : x = StateOf(t)
    OBVIOUS
  <2>3. PICK G : G = AllowedTo(t)
    OBVIOUS
  <2>4. Runs(s, x, Idle, G) /\ s # << >>
    BY <1>1, <1>3, <2>1, <2>2, <2>3 DEF LocksInv, Ordered, CodeRuns
  <2>5. x \in States /\ <<x, Head(s)>> \in G
    BY <2>4, RunsNext
  <2>6. x.depth = 0 /\ x.held = HeldBy(t)
    BY <2>2 DEF StateOf, At
  <2>7. IF t = InitThread THEN x.held \subseteq Early ELSE x.held = {}
    BY <1>1, <2>3, <2>5, <2>6, Cast DEF AllowedTo, InitSteps, TestSteps
  <2> QED
    BY <2>6, <2>7 DEF Quiet
<1> QED
  BY <1>2, <1>3

\* Steps that start no routine leave all runs as they are.
LEMMA KeepRuns ==
    ASSUME LocksInv, Alive, todo' = todo, were' = were, held' = held, pc' # "handler",
           InCall' => InCall
    PROVE  CodeRuns' /\ \A t : Quiet(t) => Quiet(t)'
<1>1. \A o : HeldBy(o)' = HeldBy(o)
  BY DEF HeldBy
<1>2. CodeRuns'
  <2> SUFFICES ASSUME NEW o \in Owners, Active(o)'
               PROVE  Runs(todo'[o], StateOf(o)', Idle, AllowedTo(o)')
    BY DEF CodeRuns, Runs, Trace, States, Steps, After, Idle, At
  <2>1. Active(o) /\ o # Handler
    BY Cast DEF Active, Threads
  <2>2. StateOf(o)' = StateOf(o)
    BY <1>1, <2>1 DEF StateOf
  <2>3. AllowedTo(o)' = AllowedTo(o)
    BY <2>1, Cast DEF AllowedTo
  <2>4. Runs(todo[o], StateOf(o), Idle, AllowedTo(o))
    BY <2>1 DEF LocksInv, Ordered, CodeRuns
  <2> QED
    BY <2>2, <2>3, <2>4
<1>3. \A t : Quiet(t) => Quiet(t)'
  BY <1>1 DEF Quiet
<1> QED
  BY <1>2, <1>3

\* kernel_test_thread begins another round.
LEMMA TestThreadLoopsInv ==
    ASSUME LocksInv, TestThreadLoops
    PROVE  LocksInv'
<1>1. /\ Alive /\ pc = "kernel" /\ thread = TestThread /\ todo[TestThread] = << >>
      /\ todo' = [todo EXCEPT ![TestThread] = KernelTestThread]
      /\ UNCHANGED <<vars, scheduling, ready, replaced, were, held, in_service>>
  BY DEF TestThreadLoops
<1>2. TestThread \in Owners /\ Active(TestThread) /\ TestThread # Handler
  BY Cast DEF Active, Owners
<1>3. were[TestThread] = << >> /\ HeldBy(TestThread) = {}
  BY <1>1, <1>2, Ended
<1>4. Runs(KernelTestThread, Idle, Idle, TestSteps)
  BY TestThreadRuns
<1>5. IInv' /\ Nesting' /\ Whereabouts' /\ Alive'
  BY <1>1, SamePlace
<1>6. LockTypes'
  <2>1. KernelTestThread \in Seq(Steps)
    BY <1>4 DEF Runs
  <2> QED
    BY <1>1, <2>1 DEF LocksInv, LockTypes
<1>7. Ordered /\ todo \in [Owners -> Seq(Steps)]
  BY <1>1 DEF LocksInv, LockTypes
<1>8. \A o : HeldBy(o)' = HeldBy(o)
  BY <1>1 DEF HeldBy
<1>9. CodeRuns'
  <2> SUFFICES ASSUME NEW o \in Owners, Active(o)'
               PROVE  Runs(todo'[o], StateOf(o)', Idle, AllowedTo(o)')
    BY DEF CodeRuns, Runs, Trace, States, Steps, After, Idle, At
  <2>1. Active(o) /\ StateOf(o)' = StateOf(o) /\ AllowedTo(o)' = AllowedTo(o)
    BY <1>1, <1>8 DEF Active, InCall, InTrap, vars, StateOf, AllowedTo, Switches
  <2>2. CASE o = TestThread
    <3>1. StateOf(o) = Idle
      BY <1>2, <1>3, <2>2 DEF StateOf, Idle
    <3>2. AllowedTo(o) = TestSteps
      BY <2>2, Cast DEF AllowedTo
    <3>3. todo'[o] = KernelTestThread
      BY <1>1, <1>7, <2>2
    <3> QED
      BY <1>4, <2>1, <3>1, <3>2, <3>3
  <2>3. CASE o # TestThread
    <3>1. todo'[o] = todo[o]
      BY <1>1, <1>7, <2>3
    <3>2. Runs(todo[o], StateOf(o), Idle, AllowedTo(o))
      BY <1>7, <2>1 DEF Ordered, CodeRuns
    <3> QED
      BY <2>1, <3>1, <3>2
  <2> QED
    BY <2>2, <2>3
<1>10. Resting' /\ QuietThreads' /\ Serving'
  BY <1>1, <1>7, <1>8 DEF Ordered, Resting, QuietThreads, Quiet, Serving, Waiting, vars
<1> QED
  BY <1>5, <1>6, <1>9, <1>10 DEF LocksInv, Ordered

\* The program's side of a system call.
LEMMA ProgramCallsInv ==
    ASSUME LocksInv, ProgramCalls
    PROVE  LocksInv'
<1>1. /\ Alive /\ UNCHANGED <<thread, frame, number, saved, wild, halted>> /\ UNCHANGED lockVars
      /\ pc \in {"user", "entry", "leaving", "syscall"}
      /\ pc' \in {"user", "entry", "masked", "leaving"}
      /\ pc = "syscall" => todo[thread] = << >>
  BY DEF ProgramCalls, Syscall, Cli, Sysret, LeaveSyscall
<1>2. IInv'
  BY CallIInv DEF LocksInv, ProgramCalls
<1>3. Ordered /\ LockTypes
  BY <1>1 DEF LocksInv
<1>4. thread = Program /\ Program \in Owners /\ Program \in Threads /\ Program # InitThread
  BY <1>1, <1>3, Cast DEF Ordered, Whereabouts
<1>5. LockTypes'
  BY <1>1, <1>3 DEF LockTypes, lockVars
<1>6. CodeRuns' /\ \A t : Quiet(t) => Quiet(t)'
  BY <1>1, KeepRuns DEF lockVars, InCall, InTrap
<1>7. Quiet(Program)
  <2>1. CASE pc = "syscall"
    <3>1. Active(Program) /\ todo[Program] = << >>
      BY <1>1, <1>4, <2>1 DEF Active, InCall
    <3> QED
      BY <1>1, <1>4, <3>1, Ended DEF Quiet
  <2>2. CASE pc # "syscall"
    BY <1>1, <1>3, <1>4, <2>2 DEF Ordered, QuietThreads
  <2> QED
    BY <2>1, <2>2
<1>8. QuietThreads'
  BY <1>1, <1>3, <1>4, <1>6, <1>7 DEF Ordered, QuietThreads
<1>9. Resting' /\ Nesting' /\ Serving'
  BY <1>1, <1>3 DEF Ordered, Resting, Nesting, Serving, HeldBy, lockVars
<1>10. Whereabouts'
  BY <1>1, <1>3, <1>4 DEF Ordered, Whereabouts, InTrap, lockVars
<1> QED
  BY <1>2, <1>5, <1>6, <1>8, <1>9, <1>10 DEF LocksInv, Ordered

\* syscall_handler begins.
LEMMA SyscallHandlerStartsInv ==
    ASSUME LocksInv, SyscallHandlerStarts
    PROVE  LocksInv'
<1>1. /\ Alive /\ pc = "masked" /\ pc' = "syscall" /\ UNCHANGED <<thread, frame, number, saved, wild, halted>>
      /\ UNCHANGED <<scheduling, ready, replaced, were, held, in_service>>
  BY DEF SyscallHandlerStarts, EnterSyscall
<1>2. IInv'
  BY CallIInv DEF LocksInv, SyscallHandlerStarts
<1>3. Ordered /\ LockTypes
  BY <1>1 DEF LocksInv
<1>4. thread = Program /\ Program \in Owners /\ Program \in Threads /\ Program # Handler
      /\ Program # InitThread /\ Program \notin KernelThreads /\ Handler \notin KernelThreads
  BY <1>1, <1>3, Cast DEF Ordered, Whereabouts
<1>5. PICK code \in SyscallHandler : todo' = [todo EXCEPT ![Program] = code]
  BY <1>4 DEF SyscallHandlerStarts
<1>6. Runs(code, Idle, Idle, CallSteps) /\ code \in Seq(Steps)
  BY SyscallRuns DEF Runs
<1>7. LockTypes'
  BY <1>1, <1>3, <1>4, <1>5, <1>6 DEF LockTypes
<1>8. \A o : HeldBy(o)' = HeldBy(o)
  BY <1>1 DEF HeldBy
<1>9. \A t \in Threads : Quiet(t)
  BY <1>1, <1>3 DEF Ordered, QuietThreads
<1>10. CodeRuns'
  <2> SUFFICES ASSUME NEW o \in Owners, Active(o)'
               PROVE  Runs(todo'[o], StateOf(o)', Idle, AllowedTo(o)')
    BY DEF CodeRuns, Runs, Trace, States, Steps, After, Idle, At
  <2>1. CASE o = Program
    <3>1. StateOf(o)' = Idle
      <4>1. were[Program] = << >> /\ HeldBy(Program) = {}
        BY <1>4, <1>9 DEF Quiet
      <4>2. were'[Program] = << >> /\ HeldBy(Program)' = {} /\ Len(<< >>) = 0
        BY <1>1, <1>8, <4>1
      <4> QED
        BY <1>4, <2>1, <4>2 DEF StateOf, Idle
    <3>2. AllowedTo(o)' = CallSteps
      BY <2>1, Cast DEF AllowedTo
    <3>3. todo'[o] = code
      BY <1>3, <1>4, <1>5, <2>1 DEF LockTypes
    <3> QED
      BY <1>6, <3>1, <3>2, <3>3
  <2>2. CASE o # Program
    <3>1. o \in KernelThreads /\ o # Handler
      BY <1>1, <1>4, <2>2 DEF Active
    <3>2. StateOf(o)' = StateOf(o) /\ AllowedTo(o)' = AllowedTo(o) /\ Active(o)
      BY <1>1, <1>8, <3>1, Cast DEF StateOf, AllowedTo, Active
    <3>3. todo'[o] = todo[o]
      BY <1>3, <1>5, <2>2 DEF LockTypes
    <3>4. Runs(todo[o], StateOf(o), Idle, AllowedTo(o))
      BY <1>3, <3>2 DEF Ordered, CodeRuns
    <3> QED
      BY <3>2, <3>3, <3>4
  <2> QED
    BY <2>1, <2>2
<1>11. QuietThreads'
  BY <1>1, <1>8, <1>9 DEF QuietThreads, Quiet
<1>12. Resting' /\ Nesting' /\ Serving'
  BY <1>1, <1>3, <1>8 DEF Ordered, Resting, Nesting, Serving
<1>13. Whereabouts'
  BY <1>1, <1>3, <1>4 DEF Ordered, Whereabouts, InTrap
<1> QED
  BY <1>2, <1>7, <1>10, <1>11, <1>12, <1>13 DEF LocksInv, Ordered

\* An interrupt or a fault: it finds its thread quiet.
LEMMA ArrivesInv ==
    ASSUME LocksInv, InterruptArrives \/ FaultArrives
    PROVE  LocksInv'
<1>1. /\ Alive /\ pc' = "vector" /\ frame' = [pc |-> pc, cs |-> cs, intr |-> intr]
      /\ UNCHANGED <<thread, saved, wild, halted, scheduling, ready, replaced, todo, were, held>>
  BY DEF InterruptArrives, FaultArrives, Interrupt, PageFault, Vector, lockVars
<1>2. IInv'
  BY VectorIInv DEF LocksInv, InterruptArrives, FaultArrives
<1>3. Ordered /\ LockTypes /\ TypeOK /\ GsInv
  BY <1>1 DEF LocksInv, IInv, Alive
<1>4. /\ pc \in {"user", "kernel", "entry", "syscall"}
      /\ pc = "kernel" => intr
      /\ pc = "syscall" => HeldBy(Program) = {}
  <2>1. CASE InterruptArrives
    BY <1>3, <2>1 DEF InterruptArrives, Interrupt, GsInv, TypeOK, Places
  <2>2. CASE FaultArrives
    <3>1. pc \in {"user", "kernel", "syscall"} /\ (pc = "user" \/ Does("user_write"))
      BY <2>2 DEF FaultArrives, PageFault
    <3>2. ASSUME pc # "user" PROVE Running = Program /\ HeldBy(Program) = {} /\ pc = "syscall"
      <4>1. PICK r : r = Running
        OBVIOUS
      <4>2. PICK l : l = Operand
        OBVIOUS
      <4>3. r = Program /\ HeldBy(r) = {}
        BY <1>1, <3>1, <3>2, <4>1, <4>2, Legality
      <4>4. thread = Program
        BY <3>1, <4>1, <4>3 DEF Running
      <4> QED
        BY <1>3, <3>1, <3>2, <4>1, <4>3, <4>4, Cast DEF Ordered, Whereabouts
    <3> QED
      BY <3>1, <3>2
  <2> QED
    BY <2>1, <2>2
<1>5. in_service = {}
  BY <1>3, <1>4 DEF Ordered, Serving
<1>6. in_service' = Waiting(number') /\ in_service' \in SUBSET Controllers
  <2>1. CASE InterruptArrives
    BY <1>5, <2>1 DEF InterruptArrives, Interrupt, Vector, Waiting, Controller, Controllers
  <2>2. CASE FaultArrives
    BY <1>5, <2>2 DEF FaultArrives, PageFault, Vector, Waiting, lockVars
  <2> QED
    BY <2>1, <2>2
<1>7. frame'.pc = pc /\ frame'.intr = intr
  BY <1>1
<1>8. LockTypes'
  BY <1>1, <1>3, <1>6 DEF LockTypes
<1>9. CodeRuns' /\ \A t : Quiet(t) => Quiet(t)'
  BY <1>1, <1>7, KeepRuns DEF InCall, InTrap
<1>10. Quiet(thread)
  <2>1. CASE pc = "kernel"
    <3>1. thread \in KernelThreads /\ were[thread] = << >>
      BY <1>3, <1>4, <2>1 DEF Ordered, Whereabouts
    <3> QED
      BY <1>1, <3>1, Interruptible
  <2>2. CASE pc = "syscall"
    BY <1>3, <1>4, <2>2, Cast DEF Ordered, Whereabouts, Nesting, Quiet
  <2>3. CASE pc \in {"user", "entry"}
    BY <1>3, <2>3 DEF Ordered, QuietThreads, TypeOK
  <2> QED
    BY <1>4, <2>1, <2>2, <2>3
<1>11. QuietThreads'
  BY <1>1, <1>3, <1>9, <1>10 DEF Ordered, QuietThreads
<1>12. Resting' /\ Nesting' /\ Serving'
  BY <1>1, <1>3, <1>4, <1>6 DEF Ordered, Resting, Nesting, Serving, HeldBy
<1>13. Whereabouts'
  BY <1>1, <1>3, <1>4, <1>7 DEF Ordered, Whereabouts, InTrap, TypeOK
<1> QED
  BY <1>2, <1>8, <1>9, <1>11, <1>12, <1>13 DEF LocksInv, Ordered

\* interrupt_handler begins.
LEMMA HandlerStartsInv ==
    ASSUME LocksInv, HandlerStarts
    PROVE  LocksInv'
<1>1. /\ Alive /\ pc = "vector" /\ pc' = "handler" /\ UNCHANGED <<thread, frame, number, saved, halted>>
      /\ UNCHANGED <<scheduling, ready, replaced, were, held, in_service>>
  BY DEF HandlerStarts, InterruptHandlerEntry
<1>2. IInv'
  BY HandlerIInv DEF LocksInv, HandlerStarts
<1>3. Ordered /\ LockTypes /\ TypeOK
  BY <1>1 DEF LocksInv, IInv
<1>4. Handler \in Owners /\ Handler \notin KernelThreads /\ Handler # Program
      /\ Handler # InitThread /\ Handler # TestThread
  BY Cast
<1>5. PICK code \in InterruptHandler : todo' = [todo EXCEPT ![Handler] = code]
  BY DEF HandlerStarts
<1>6. Switches \in BOOLEAN /\ Switches' = Switches /\ number \in Vectors
  BY <1>1, <1>3 DEF Switches, LockTypes, TypeOK
<1>7. Runs(code, At(0, {}, Waiting(number)), Idle, HandlerSteps(Switches)) /\ code \in Seq(Steps)
  BY <1>6, HandlerRuns DEF Runs
<1>8. LockTypes'
  BY <1>1, <1>3, <1>4, <1>5, <1>7 DEF LockTypes
<1>9. \A o : HeldBy(o)' = HeldBy(o)
  BY <1>1 DEF HeldBy
<1>10. CodeRuns'
  <2> SUFFICES ASSUME NEW o \in Owners, Active(o)'
               PROVE  Runs(todo'[o], StateOf(o)', Idle, AllowedTo(o)')
    BY DEF CodeRuns, Runs, Trace, States, Steps, After, Idle, At
  <2>1. CASE o = Handler
    <3>1. were[Handler] = << >> /\ HeldBy(Handler) = {} /\ in_service = Waiting(number)
      BY <1>1, <1>3 DEF Ordered, Resting, Serving
    <3>2. were'[Handler] = << >> /\ HeldBy(Handler)' = {} /\ in_service' = Waiting(number)
          /\ Len(<< >>) = 0
      BY <1>1, <1>9, <3>1
    <3>3. StateOf(o)' = At(0, {}, Waiting(number))
      BY <2>1, <3>2 DEF StateOf
    <3>4. AllowedTo(o)' = HandlerSteps(Switches)
      BY <1>4, <1>6, <2>1 DEF AllowedTo
    <3>5. todo'[o] = code
      BY <1>3, <1>4, <1>5, <2>1 DEF LockTypes
    <3> QED
      BY <1>7, <3>3, <3>4, <3>5
  <2>2. CASE o # Handler
    <3>1. Active(o)
      BY <1>1, <2>2 DEF Active, InCall, InTrap
    <3>2. StateOf(o)' = StateOf(o) /\ AllowedTo(o)' = AllowedTo(o)
      BY <1>1, <1>6, <1>9, <2>2, Cast DEF StateOf, AllowedTo
    <3>3. todo'[o] = todo[o]
      BY <1>3, <1>5, <2>2 DEF LockTypes
    <3>4. Runs(todo[o], StateOf(o), Idle, AllowedTo(o))
      BY <1>3, <3>1 DEF Ordered, CodeRuns
    <3> QED
      BY <3>2, <3>3, <3>4
  <2> QED
    BY <2>1, <2>2
<1>11. QuietThreads'
  BY <1>1, <1>3, <1>9 DEF Ordered, QuietThreads, Quiet
<1>12. Resting' /\ Nesting' /\ Serving'
  BY <1>1, <1>3 DEF Ordered, Resting, Nesting, Serving
<1>13. Whereabouts'
  BY <1>1, <1>3 DEF Ordered, Whereabouts, InTrap
<1> QED
  BY <1>2, <1>8, <1>10, <1>11, <1>12, <1>13 DEF LocksInv, Ordered

\* interrupt_handler ends, in the interrupted thread or in the next.
LEMMA HandlerEndsInv ==
    ASSUME LocksInv, HandlerEnds
    PROVE  LocksInv'
<1>1. /\ Alive /\ pc = "handler" /\ pc' = "iret" /\ todo[Handler] = << >>
      /\ UNCHANGED <<wild, halted>> /\ UNCHANGED lockVars
  BY DEF HandlerEnds, InterruptHandlerReturn, SwitchThread
<1>2. NextThread \in Threads
  BY Cast DEF NextThread
<1>3. IInv'
  BY <1>2, HandlerIInv, SwitchIInv DEF LocksInv, HandlerEnds
<1>4. Ordered /\ LockTypes /\ TypeOK /\ GsInv
  BY <1>1 DEF LocksInv, IInv, Alive
<1>5. were[Handler] = << >> /\ HeldBy(Handler) = {} /\ in_service = {}
  <2>1. Handler \in Owners /\ Active(Handler)
    BY <1>1 DEF Owners, Active
  <2> QED
    BY <1>1, <2>1, Ended
<1>6. /\ thread' \in Threads
      /\ thread' \in KernelThreads => frame'.pc = "kernel" /\ frame'.intr = TRUE
      /\ frame'.pc = "kernel" => thread' \in KernelThreads
      /\ frame'.pc # "kernel" => thread' = Program
      /\ frame'.pc = "syscall" => frame.pc = "syscall"
      /\ \A t \in KernelThreads : saved'[t].pc = "kernel" /\ saved'[t].intr = TRUE
      /\ saved'[Program].pc = "user"
  <2>1. /\ thread \in Threads /\ saved \in [Threads -> Frames]
        /\ frame.pc = "kernel" => thread \in KernelThreads /\ frame.intr = TRUE
        /\ frame.pc # "kernel" => thread = Program
        /\ \A t \in KernelThreads : saved[t].pc = "kernel" /\ saved[t].intr = TRUE
        /\ saved[Program].pc = "user"
    BY <1>1, <1>4 DEF Ordered, Whereabouts, InTrap, TypeOK
  <2>2. CASE Switches
    <3>1. /\ number = "timer" /\ thread' = NextThread /\ frame' = saved'[NextThread]
          /\ saved' = [saved EXCEPT ![thread] = frame]
      BY <2>2 DEF HandlerEnds, SwitchThread
    <3>2. frame.pc \in {"user", "kernel"}
      BY <1>1, <1>4, <3>1 DEF GsInv, InTrap, Resumable
    <3>3. /\ \A t \in KernelThreads : saved'[t].pc = "kernel" /\ saved'[t].intr = TRUE
          /\ saved'[Program].pc = "user"
      BY <2>1, <3>1, <3>2, Cast
    <3> QED
      BY <1>2, <3>1, <3>3, Cast
  <2>3. CASE ~Switches
    <3>1. UNCHANGED <<thread, frame, saved>>
      BY <2>3 DEF HandlerEnds, InterruptHandlerReturn
    <3> QED
      BY <2>1, <3>1, Cast
  <2> QED
    BY <2>2, <2>3
<1>7. LockTypes'
  BY <1>1, <1>4 DEF LockTypes, lockVars
<1>8. CodeRuns' /\ \A t : Quiet(t) => Quiet(t)'
  BY <1>1, <1>6, KeepRuns DEF lockVars, InCall, InTrap
<1>9. QuietThreads'
  BY <1>1, <1>4, <1>8 DEF Ordered, QuietThreads
<1>10. Resting' /\ Nesting' /\ Serving'
  BY <1>1, <1>4, <1>5 DEF Ordered, Resting, Nesting, Serving, HeldBy, lockVars
<1>11. Whereabouts'
  BY <1>1, <1>6 DEF Whereabouts, InTrap
<1> QED
  BY <1>3, <1>7, <1>8, <1>9, <1>10, <1>11 DEF LocksInv, Ordered

\* iretq
LEMMA HandlerReturnsInv ==
    ASSUME LocksInv, HandlerReturns
    PROVE  LocksInv'
<1>1. /\ Alive /\ pc = "iret" /\ pc' = frame.pc /\ intr' = frame.intr
      /\ UNCHANGED <<thread, frame, number, saved, wild, halted>> /\ UNCHANGED lockVars
  BY DEF HandlerReturns, Iret
<1>2. IInv'
  BY HandlerIInv DEF LocksInv, HandlerReturns
<1>3. Ordered /\ LockTypes /\ TypeOK /\ GsInv
  BY <1>1 DEF LocksInv, IInv, Alive
<1>4. pc' \in {"user", "kernel", "syscall"}
  BY <1>1, <1>3 DEF GsInv, Resumable
<1>5. LockTypes'
  BY <1>1, <1>3 DEF LockTypes, lockVars
<1>6. CodeRuns' /\ \A t : Quiet(t) => Quiet(t)'
  BY <1>1, <1>4, KeepRuns DEF lockVars, InCall, InTrap
<1>7. \A t \in Threads : Quiet(t)
  BY <1>1, <1>3 DEF Ordered, QuietThreads
<1>8. QuietThreads'
  BY <1>6, <1>7 DEF QuietThreads
<1>9. Resting' /\ Nesting' /\ Serving'
  BY <1>1, <1>3, <1>4 DEF Ordered, Resting, Nesting, Serving, HeldBy, lockVars
<1>10. Whereabouts'
  <2>1. were'[thread] = << >>
    BY <1>1, <1>3, <1>7 DEF Quiet, TypeOK, lockVars
  <2> QED
    BY <1>1, <1>3, <1>4, <2>1 DEF Ordered, Whereabouts, InTrap
<1> QED
  BY <1>2, <1>5, <1>6, <1>8, <1>9, <1>10 DEF LocksInv, Ordered

LEMMA NextLocks == LocksInv /\ [LocksNext]_allVars => LocksInv'
<1> SUFFICES ASSUME LocksInv, [LocksNext]_allVars PROVE LocksInv'
  OBVIOUS
<1>1. CASE UNCHANGED allVars
  <2>1. UNCHANGED vars /\ UNCHANGED lockVars
    BY <1>1 DEF allVars
  <2>2. IInv' /\ LockTypes'
    BY <2>1, NextIInv DEF LocksInv, LockTypes, lockVars
  <2>3. ASSUME Alive PROVE Ordered'
    <3>1. Ordered
      BY <2>3 DEF LocksInv
    <3>2. /\ \A o : HeldBy(o)' = HeldBy(o) /\ StateOf(o)' = StateOf(o)
                    /\ AllowedTo(o)' = AllowedTo(o) /\ (Active(o)' <=> Active(o))
      BY <2>1 DEF lockVars, vars, HeldBy, StateOf, AllowedTo, Switches, Active, InCall, InTrap
    <3>3. CodeRuns'
      <4> SUFFICES ASSUME NEW o \in Owners, Active(o)'
                   PROVE  Runs(todo'[o], StateOf(o)', Idle, AllowedTo(o)')
        BY DEF CodeRuns, Runs, Trace, States, Steps, After, Idle, At
      <4>1. Runs(todo[o], StateOf(o), Idle, AllowedTo(o))
        BY <3>1, <3>2 DEF Ordered, CodeRuns
      <4> QED
        BY <2>1, <3>2, <4>1 DEF lockVars
    <3>4. Resting' /\ QuietThreads' /\ Nesting' /\ Serving' /\ Whereabouts'
      BY <2>1, <2>3, <3>1, <3>2, SamePlace
         DEF Ordered, lockVars, vars, Resting, QuietThreads, Quiet, Serving, Waiting
    <3> QED
      BY <3>3, <3>4 DEF Ordered
  <2>4. Alive' <=> Alive
    BY <2>1 DEF vars, Alive
  <2> QED
    BY <2>2, <2>3, <2>4 DEF LocksInv
<1>2. CASE Execute
  BY <1>2, TakeLockInv, DropLockInv, DisableInv, RestoreInv, SendEoiInv, EffectInv, VerifyInv
     DEF Execute
<1>3. CASE HandlerPanics
  <2>1. halted' = TRUE /\ UNCHANGED lockVars /\ IInv'
    BY <1>3, HandlerIInv DEF HandlerPanics, InterruptHandlerPanic, LocksInv
  <2>2. LockTypes'
    BY <2>1 DEF LocksInv, LockTypes, lockVars
  <2> QED
    BY <2>1, <2>2 DEF LocksInv, Alive
<1>4. CASE LocksNext
  BY <1>2, <1>3, <1>4, TestThreadLoopsInv, ProgramCallsInv, SyscallHandlerStartsInv, ArrivesInv,
     HandlerStartsInv, HandlerEndsInv, HandlerReturnsInv DEF LocksNext
<1> QED
  BY <1>1, <1>4

\* No step of a thread, a system call or a handler breaks the invariant.
THEOREM LocksInvariance == LocksSpec => []LocksInv
  BY InitLocks, NextLocks, PTL DEF LocksSpec

\* Whatever the kernel's threads, system calls and handlers interrupt, nobody
\* finds a lock taken, but schedule the heap's lock of kernel_init_thread.
THEOREM NobodySpins == LocksSpec => []LocksFree
<1>1. LocksInv => LocksFree
  <2> SUFFICES ASSUME LocksInv, Alive, Does("lock"), held[Operand] # NoThread
               PROVE  HeapInterrupted
    BY DEF LocksFree
  <2>1. PICK r : r = Running
    OBVIOUS
  <2>2. PICK l : l = Operand
    OBVIOUS
  <2>3. /\ r \in Owners /\ todo[r] # << >> /\ InKernel /\ l \in Locks /\ held[l] # r
        /\ r = Handler => l \notin {"DEVICES", "CONSOLE", "CPIO"} /\ (l = "ALLOCATOR" => Switches)
        /\ r \in {TestThread, Program} => l = "SERIAL_PORT"
    BY <2>1, <2>2, Legality
  <2>4. Ordered /\ held[l] \in Owners
    BY <2>2, <2>3 DEF LocksInv, LockTypes
  <2>5. PICK o \in Owners : o = held[l] /\ l \in HeldBy(o) /\ o # r
    BY <2>3, <2>4 DEF HeldBy
  <2>6. o # Handler
    BY <2>1, <2>4, <2>5 DEF Ordered, Resting, Running
  <2>7. /\ pc = "handler" => r = Handler
        /\ pc # "handler" => r = thread
    BY <2>1 DEF Running
  <2>8. Quiet(o)
    BY <2>4, <2>5, <2>6, <2>7 DEF Ordered, QuietThreads, Owners
  <2>9. o = InitThread /\ l \in Early
    BY <2>5, <2>8 DEF Quiet
  <2>10. r = Handler
    BY <2>3, <2>5, <2>9, Cast DEF Early
  <2>11. l = "ALLOCATOR"
    BY <2>3, <2>9, <2>10 DEF Early
  <2> QED
    BY <2>1, <2>2, <2>3, <2>5, <2>9, <2>10, <2>11 DEF HeapInterrupted
<1> QED
  BY <1>1, LocksInvariance, PTL

\* Every interrupt is ended at the controller it came from before the code it
\* interrupted goes on.
THEOREM InterruptsEnded == LocksSpec => []ControllersFree
<1>1. LocksInv => ControllersFree
  BY DEF LocksInv, Ordered, Serving, ControllersFree
<1> QED
  BY <1>1, LocksInvariance, PTL

\* No interrupt overwrites the frame of another.
THEOREM FrameSafe == LocksSpec => []FrameKept
<1>1. LocksInv => FrameKept
  BY DEF LocksInv, IInv, GsInv, Resumable, FrameKept, Alive
<1> QED
  BY <1>1, LocksInvariance, PTL

\* With the masking that the kernel's routines really do, gs and the syscall
\* stack stay right.
THEOREM EntriesCorrect == LocksSpec => []GsRight /\ []SysretOwnStack
<1>1. LocksInv => IInv
  BY DEF LocksInv
<1>2. IInv => GsRight
  BY DEF IInv, GsRight, GsInv, OnUserGs, InTrap, TypeOK
<1>3. IInv => SysretOwnStack
  BY DEF IInv, SysretOwnStack, GsInv, SlotInv, InTrap, Resumable
<1> QED
  BY <1>1, <1>2, <1>3, LocksInvariance, PTL
=============================================================================
