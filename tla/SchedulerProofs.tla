-------------------------- MODULE SchedulerProofs --------------------------
(***************************************************************************)
(* Proofs about Scheduler for every set of threads: no thread is lost or   *)
(* run twice, every thread resumes where it should, on the page table of   *)
(* its own process, and after at most one turn of every other thread.      *)
(***************************************************************************)
EXTENDS Scheduler, SequenceTheorems, FiniteSetTheorems, TLAPS

\* The context thread t has to resume in.
Resume(t) == IF last[t].img = image[t] THEN last[t] ELSE Entry(image[t])

\* A thread that waits has its context saved, and saving is enabled again.
WaitingSaved == \A t \in Threads : t # current => update[t] /\ registers[t] = Resume(t)

\* The processor executes the context of the running thread; unless that
\* thread was given an image since it was scheduled, and is still in the
\* kernel function that asked for it: then its next context is already saved.
RunningRight ==
    current # NoThread =>
        IF update[current]
        THEN live = Resume(current)
        ELSE /\ live = last[current]
             /\ live.img = Kernel
             /\ image[current] = User
             /\ registers[current] = Entry(User)

\* Exactly the processes with a user image have a memory space.
SpaceOfUser == \A t \in Threads : memory_space[t] = (image[t] = User)

\* Nothing has been given an image before the scheduler starts.
KernelAtStart == current = NoThread => \A t \in Threads : image[t] = Kernel

\* The thread at place i of the queue has been passed over at most as often
\* as there are places from i to the end: schedule moves it one place to the
\* front each time.
Turns ==
    IF current = NoThread
    THEN \A t \in Threads : passed[t] = 0
    ELSE /\ passed[current] = 0
         /\ \A i \in DOMAIN queue : passed[queue[i]] <= Len(queue) - i + 1

\* The inductive invariant.  ResumesRight alone is not inductive: it says
\* nothing of the thread that runs, whose context the next tick saves, or
\* does not save.
IInv ==
    /\ TypeOK
    /\ EachThreadOnce
    /\ WaitingSaved
    /\ RunningRight
    /\ SpaceOfUser
    /\ KernelAtStart
    /\ RightPageTable
    /\ Turns
-----------------------------------------------------------------------------
\* VecDeque::pop_front on a queue without duplicates: the rest of the queue
\* holds every other element, once.
LEMMA TakeFront ==
    ASSUME NEW q \in Seq(Threads), q # << >>,
           \A i, j \in DOMAIN q : q[i] = q[j] => i = j
    PROVE  /\ Head(q) \in Threads
           /\ Tail(q) \in Seq(Threads)
           /\ \A i, j \in DOMAIN Tail(q) :
                Tail(q)[i] # Head(q) /\ (Tail(q)[i] = Tail(q)[j] => i = j)
           /\ \A i \in DOMAIN q :
                q[i] = Head(q) \/ \E j \in DOMAIN Tail(q) : Tail(q)[j] = q[i]
<1>1. /\ Len(q) \in Nat
      /\ DOMAIN q = 1 .. Len(q)
      /\ Len(q) # 0
      /\ Head(q) = q[1]
      /\ Head(q) \in Threads
      /\ Tail(q) \in Seq(Threads)
      /\ DOMAIN Tail(q) = 1 .. Len(q) - 1
      /\ \A i \in 1 .. Len(q) - 1 : Tail(q)[i] = q[i + 1]
  BY HeadTailProperties, EmptySeq, LenProperties
<1>2. ASSUME NEW i \in DOMAIN q, i # 1
      PROVE  i - 1 \in DOMAIN Tail(q) /\ Tail(q)[i - 1] = q[i]
  BY <1>1, <1>2
<1>3. ASSUME NEW i \in DOMAIN Tail(q)
      PROVE  i + 1 \in DOMAIN q /\ i + 1 # 1 /\ Tail(q)[i] = q[i + 1]
  BY <1>1
<1>4. 1 \in DOMAIN q
  BY <1>1
<1>5. ASSUME NEW i \in DOMAIN Tail(q), NEW j \in DOMAIN Tail(q)
      PROVE  Tail(q)[i] # Head(q) /\ (Tail(q)[i] = Tail(q)[j] => i = j)
  <2>1. Tail(q)[i] # Head(q)
    BY <1>1, <1>3, <1>4
  <2>2. Tail(q)[i] = Tail(q)[j] => i + 1 = j + 1
    BY <1>3
  <2> QED
    BY <1>1, <2>1, <2>2
<1> QED
  BY <1>1, <1>2, <1>5

\* VecDeque::push_back of an element that is not queued.
LEMMA PushBack ==
    ASSUME NEW q \in Seq(Threads), NEW t \in Threads,
           \A i, j \in DOMAIN q : q[i] # t /\ (q[i] = q[j] => i = j)
    PROVE  /\ Append(q, t) \in Seq(Threads)
           /\ Append(q, t) # << >>
           /\ \A i, j \in DOMAIN Append(q, t) :
                Append(q, t)[i] = Append(q, t)[j] => i = j
           /\ \A i \in DOMAIN Append(q, t) :
                Append(q, t)[i] = t \/ \E j \in DOMAIN q : q[j] = Append(q, t)[i]
           /\ \E i \in DOMAIN Append(q, t) : Append(q, t)[i] = t
           /\ \A j \in DOMAIN q : \E i \in DOMAIN Append(q, t) : Append(q, t)[i] = q[j]
<1> DEFINE a == Append(q, t)
<1>1. /\ Len(q) \in Nat
      /\ DOMAIN q = 1 .. Len(q)
      /\ a \in Seq(Threads)
      /\ Len(a) = Len(q) + 1
      /\ DOMAIN a = 1 .. Len(q) + 1
      /\ \A i \in 1 .. Len(q) : a[i] = q[i]
      /\ a[Len(q) + 1] = t
  BY AppendProperties, LenProperties
<1>2. a # << >>
  BY <1>1, EmptySeq
<1>3. \A i \in DOMAIN a : i \in DOMAIN q \/ i = Len(q) + 1
  BY <1>1
<1> HIDE DEF a
<1>4. \A i, j \in DOMAIN a : a[i] = a[j] => i = j
  BY <1>1, <1>3
<1>5. \A i \in DOMAIN a : a[i] = t \/ \E j \in DOMAIN q : q[j] = a[i]
  BY <1>1, <1>3
<1>6. \E i \in DOMAIN a : a[i] = t
  BY <1>1
<1>7. \A j \in DOMAIN q : j \in DOMAIN a /\ a[j] = q[j]
  BY <1>1
<1>8. \A j \in DOMAIN q : \E i \in DOMAIN a : a[i] = q[j]
  BY <1>7
<1> QED
  BY <1>1, <1>2, <1>4, <1>5, <1>6, <1>8 DEF a
-----------------------------------------------------------------------------
\* GoTo keeps the contexts typed, and the image of the running thread.
LEMMA GoToShape ==
    ASSUME TypeOK, current \in Threads, NEW point \in 0 .. LastPoint, GoTo(point)
    PROVE  /\ live' \in Context
           /\ live'.img = live.img
           /\ live'.point = point
           /\ last' \in [Threads -> Context]
           /\ last'[current] = live'
           /\ \A t \in Threads : t # current => last'[t] = last[t]
BY DEF TypeOK, GoTo, Context

\* Init establishes the invariant.
LEMMA InitIInv == Init => IInv
<1> SUFFICES ASSUME Init PROVE IInv
  OBVIOUS
<1>1. \A img \in {Kernel, User} : Entry(img) \in Context
  BY PointsAssumption DEF Entry, Context
<1>2. TypeOK
  BY <1>1, EmptySeq DEF Init, TypeOK
<1>3. EachThreadOnce
  BY EmptySeq DEF Init, EachThreadOnce, QueuedOnce, NoThreadLost
<1>4. WaitingSaved
  BY DEF Init, WaitingSaved, Resume
<1> QED
  BY <1>2, <1>3, <1>4
     DEF Init, IInv, RunningRight, SpaceOfUser, KernelAtStart, RightPageTable, Turns, Kernel, User

\* add_process queues a thread that is not queued yet.
LEMMA AddProcessIInv ==
    ASSUME IInv, NEW t \in Threads, AddProcess(t)
    PROVE  IInv'
<1>1. /\ queue \in Seq(Threads) /\ current = NoThread /\ queue' = Append(queue, t)
      /\ \A i, j \in DOMAIN queue : queue[i] # t /\ (queue[i] = queue[j] => i = j)
  BY DEF AddProcess, InQueue, IInv, TypeOK, EachThreadOnce, QueuedOnce
<1>2. /\ queue' \in Seq(Threads)
      /\ \A i, j \in DOMAIN queue' : queue'[i] = queue'[j] => i = j
  BY <1>1, PushBack
<1>3. \A i \in DOMAIN queue' : queue'[i] # NoThread
  BY <1>2, ElementOfSeq, LenProperties, ThreadsAssumption
<1>4. EachThreadOnce'
  BY <1>1, <1>2, <1>3 DEF AddProcess, EachThreadOnce, QueuedOnce, NoThreadLost
<1> QED
  BY <1>2, <1>4
     DEF AddProcess, IInv, TypeOK, WaitingSaved, RunningRight, SpaceOfUser, KernelAtStart,
         RightPageTable, Turns, Resume

\* Scheduler::start takes the first thread; all run kernel functions still.
LEMMA StartIInv ==
    ASSUME IInv, Start
    PROVE  IInv'
<1>1. /\ queue \in Seq(Threads) /\ current = NoThread
      /\ \A i, j \in DOMAIN queue : queue[i] = queue[j] => i = j
  BY DEF Start, IInv, TypeOK, EachThreadOnce, QueuedOnce
<1>2. queue # << >>
  BY ThreadsAssumption, EmptySeq DEF Start, InQueue
<1>3. PICK h : h = Head(queue) /\ current' = h /\ queue' = Tail(queue)
  BY DEF Start
<1>4. /\ h \in Threads
      /\ queue' \in Seq(Threads)
      /\ \A i, j \in DOMAIN queue' :
           queue'[i] # h /\ (queue'[i] = queue'[j] => i = j)
      /\ \A i \in DOMAIN queue :
           queue[i] = h \/ \E j \in DOMAIN queue' : queue'[j] = queue[i]
  BY <1>1, <1>2, <1>3, TakeFront
<1>5. EachThreadOnce'
  BY <1>3, <1>4 DEF Start, EachThreadOnce, QueuedOnce, NoThreadLost, InQueue
<1>6. /\ live' = registers[h] /\ cr3' = NoThread
      /\ UNCHANGED <<registers, update, memory_space, last, image>>
  BY <1>3 DEF Start
<1>7. h # NoThread
  BY <1>4, ThreadsAssumption
<1>8. update[h] /\ registers[h] = Resume(h) /\ image[h] = Kernel
  BY <1>1, <1>4, <1>7 DEF IInv, WaitingSaved, KernelAtStart
<1>9. Resume(h).img = Kernel
  BY <1>8 DEF Resume, Entry
<1>10. TypeOK'
  BY <1>3, <1>4, <1>6 DEF Start, IInv, TypeOK
<1>11. WaitingSaved'
  BY <1>1, <1>6, ThreadsAssumption DEF IInv, WaitingSaved, Resume
<1>12. RunningRight'
  BY <1>3, <1>6, <1>8 DEF RunningRight, Resume
<1>13. SpaceOfUser' /\ KernelAtStart'
  BY <1>3, <1>6, <1>7 DEF IInv, SpaceOfUser, KernelAtStart
<1>14. RightPageTable'
  BY <1>6, <1>8, <1>9 DEF RightPageTable, Kernel, User
<1>15. Turns'
  <2>1. \A t \in Threads : passed'[t] = 0
    BY <1>1 DEF Start, IInv, Turns
  <2>2. \A i \in DOMAIN queue' : queue'[i] \in Threads /\ i <= Len(queue') /\ i \in Nat
    BY <1>4, ElementOfSeq, LenProperties
  <2>3. Len(queue') \in Nat
    BY <1>4, LenProperties
  <2> QED
    BY <1>3, <1>4, <1>7, <2>1, <2>2, <2>3 DEF Turns
<1> QED
  BY <1>5, <1>10, <1>11, <1>12, <1>13, <1>14, <1>15 DEF IInv

\* A step of the running thread that leaves its image alone.
LEMMA RunIInv ==
    ASSUME IInv, current \in Threads, NEW point \in 0 .. LastPoint, GoTo(point),
           ready' \in BOOLEAN,
           UNCHANGED <<queue, current, registers, update, memory_space, cr3, image, passed>>
    PROVE  IInv'
<1>1. /\ live' \in Context
      /\ live'.img = live.img
      /\ last' \in [Threads -> Context]
      /\ last'[current] = live'
      /\ \A t \in Threads : t # current => last'[t] = last[t]
  BY GoToShape DEF IInv
<1>2. current # NoThread
  BY ThreadsAssumption
<1>3. TypeOK'
  BY <1>1 DEF IInv, TypeOK
<1>4. EachThreadOnce'
  BY DEF IInv, EachThreadOnce, QueuedOnce, NoThreadLost, InQueue
<1>5. WaitingSaved'
  BY <1>1 DEF IInv, WaitingSaved, Resume
<1>6. RunningRight'
  <2>1. CASE update[current]
    <3>1. live.img = image[current]
      BY <1>2, <2>1 DEF IInv, RunningRight, Resume, Entry
    <3> QED
      BY <1>1, <2>1, <3>1 DEF RunningRight, Resume
  <2>2. CASE ~update[current]
    BY <1>1, <1>2, <2>2 DEF IInv, RunningRight
  <2> QED
    BY <2>1, <2>2
<1>7. SpaceOfUser' /\ KernelAtStart' /\ RightPageTable' /\ Turns'
  BY <1>1, <1>2 DEF IInv, SpaceOfUser, KernelAtStart, RightPageTable, Turns
<1> QED
  BY <1>3, <1>4, <1>5, <1>6, <1>7 DEF IInv

\* replace_image_exec, executed by the thread it is for.
LEMMA ReplaceImageIInv ==
    ASSUME IInv, ReplaceImage
    PROVE  IInv'
<1>1. /\ current \in Threads /\ current # NoThread /\ 2 \in 0 .. LastPoint
      /\ live.img = Kernel
      /\ GoTo(2)
  BY ThreadsAssumption, PointsAssumption DEF ReplaceImage
<1>2. /\ live' \in Context
      /\ live'.img = Kernel
      /\ last' \in [Threads -> Context]
      /\ last'[current] = live'
      /\ \A t \in Threads : t # current => last'[t] = last[t]
  BY <1>1, GoToShape DEF IInv
<1>3. /\ UNCHANGED <<queue, current, ready, cr3, passed>>
      /\ memory_space' = [memory_space EXCEPT ![current] = TRUE]
      /\ registers' = [registers EXCEPT ![current] = Entry(User)]
      /\ update' = [update EXCEPT ![current] = FALSE]
      /\ image' = [image EXCEPT ![current] = User]
  BY DEF ReplaceImage
<1>4. Entry(User) \in Context
  BY PointsAssumption DEF Entry, Context
<1>5. TypeOK'
  BY <1>2, <1>3, <1>4 DEF IInv, TypeOK
<1>6. EachThreadOnce'
  BY <1>3 DEF IInv, EachThreadOnce, QueuedOnce, NoThreadLost, InQueue
<1>7. \A t \in Threads : t # current =>
          /\ update'[t] = update[t]
          /\ registers'[t] = registers[t]
          /\ memory_space'[t] = memory_space[t]
          /\ image'[t] = image[t]
  BY <1>3 DEF IInv, TypeOK
<1>8. /\ ~update'[current]
      /\ registers'[current] = Entry(User)
      /\ memory_space'[current] = TRUE
      /\ image'[current] = User
  BY <1>1, <1>3 DEF IInv, TypeOK
<1>9. WaitingSaved'
  BY <1>2, <1>3, <1>7 DEF IInv, WaitingSaved, Resume
<1>10. RunningRight'
  BY <1>2, <1>3, <1>8 DEF RunningRight
<1>11. SpaceOfUser'
  BY <1>7, <1>8 DEF IInv, SpaceOfUser
<1>12. KernelAtStart' /\ RightPageTable' /\ Turns'
  BY <1>1, <1>2, <1>3 DEF IInv, KernelAtStart, RightPageTable, Turns
<1> QED
  BY <1>5, <1>6, <1>9, <1>10, <1>11, <1>12 DEF IInv

\* schedule rotates the queue: the thread it takes off the processor goes to
\* the back, and the one it picks may be the same.
LEMMA TickQueue ==
    ASSUME IInv, Tick
    PROVE  /\ current \in Threads
           /\ current' \in Threads
           /\ queue' \in Seq(Threads)
           /\ EachThreadOnce'
<1> DEFINE q == Append(queue, current)
<1>1. /\ queue \in Seq(Threads) /\ current \in Threads
      /\ \A i, j \in DOMAIN queue : queue[i] # current /\ (queue[i] = queue[j] => i = j)
      /\ \A t \in Threads : t = current \/ InQueue(t)
  BY DEF Tick, IInv, TypeOK, EachThreadOnce, QueuedOnce, NoThreadLost
<1>2. /\ q \in Seq(Threads)
      /\ q # << >>
      /\ \A i, j \in DOMAIN q : q[i] = q[j] => i = j
      /\ \E i \in DOMAIN q : q[i] = current
      /\ \A j \in DOMAIN queue : \E i \in DOMAIN q : q[i] = queue[j]
  BY <1>1, PushBack
<1>3. current' = Head(q) /\ queue' = Tail(q)
  BY DEF Tick
<1> HIDE DEF q
<1>4. /\ current' \in Threads
      /\ queue' \in Seq(Threads)
      /\ \A i, j \in DOMAIN queue' :
           queue'[i] # current' /\ (queue'[i] = queue'[j] => i = j)
      /\ \A i \in DOMAIN q :
           q[i] = current' \/ \E j \in DOMAIN queue' : queue'[j] = q[i]
  BY <1>2, <1>3, TakeFront, SMTT(20)
<1>5. \A t \in Threads : t = current' \/ \E j \in DOMAIN queue' : queue'[j] = t
  BY <1>1, <1>2, <1>4 DEF InQueue
<1> QED
  BY <1>1, <1>4, <1>5 DEF EachThreadOnce, QueuedOnce, NoThreadLost, InQueue

\* The rotation moves every waiting thread one place to the front, and the
\* one taken off the processor to the last.
LEMMA TickTurns ==
    ASSUME IInv, Tick
    PROVE  passed' \in [Threads -> Nat] /\ Turns'
<1> DEFINE q == Append(queue, current)
<1>1. /\ queue \in Seq(Threads) /\ current \in Threads /\ current # NoThread
      /\ current' \in Threads /\ current' # NoThread
      /\ passed \in [Threads -> Nat]
  BY TickQueue, ThreadsAssumption DEF IInv, TypeOK
<1>2. /\ passed[current] = 0
      /\ \A i \in DOMAIN queue : passed[queue[i]] <= Len(queue) - i + 1
  BY <1>1 DEF IInv, Turns
<1>3. /\ queue' = Tail(q)
      /\ passed' = [t \in Threads |-> IF t = current' THEN 0 ELSE passed[t] + 1]
  BY DEF Tick, PassOver
<1>4. /\ Len(queue) \in Nat
      /\ DOMAIN queue = 1 .. Len(queue)
      /\ q \in Seq(Threads)
      /\ Len(q) = Len(queue) + 1
      /\ \A i \in 1 .. Len(queue) : q[i] = queue[i]
      /\ q[Len(queue) + 1] = current
  BY <1>1, AppendProperties, LenProperties
<1> HIDE DEF q
<1>5. /\ Len(queue') = Len(queue)
      /\ DOMAIN queue' = 1 .. Len(queue)
      /\ \A i \in 1 .. Len(queue) : queue'[i] = q[i + 1]
  BY <1>3, <1>4, HeadTailProperties, EmptySeq, LenProperties
<1>6. passed' \in [Threads -> Nat]
  BY <1>1, <1>3
<1>7. ASSUME NEW i \in 1 .. Len(queue)
      PROVE  passed'[queue'[i]] <= Len(queue) - i + 1
  <2>1. CASE i = Len(queue)
    <3>1. queue'[i] = current
      BY <1>4, <1>5, <2>1
    <3>2. passed'[current] <= 1
      BY <1>1, <1>2, <1>3
    <3> QED
      BY <1>4, <2>1, <3>1, <3>2
  <2>2. CASE i # Len(queue)
    <3>1. i + 1 \in 1 .. Len(queue)
      <4>1. Len(queue) \in Nat
        BY <1>4
      <4> QED
        BY <2>2, <4>1
    <3>2. queue'[i] = queue[i + 1]
      BY <1>4, <1>5, <3>1
    <3>3. queue[i + 1] \in Threads
      BY <1>1, <1>4, <3>1, ElementOfSeq
    <3>4. passed[queue[i + 1]] \in Nat /\ passed[queue[i + 1]] <= Len(queue) - (i + 1) + 1
      BY <1>1, <1>2, <1>4, <3>1, <3>3
    <3>5. passed'[queue[i + 1]] \in {0, passed[queue[i + 1]] + 1}
      BY <1>3, <3>3
    <3> QED
      BY <1>4, <3>2, <3>4, <3>5
  <2> QED
    BY <2>1, <2>2
<1>8. passed'[current'] = 0
  BY <1>1, <1>3
<1> QED
  BY <1>1, <1>5, <1>6, <1>7, <1>8 DEF Turns

\* After schedule every thread's saved registers are the context it has to
\* resume in: live was saved if it had to be, and only then.
LEMMA TickSaves ==
    ASSUME IInv, Tick
    PROVE  \A t \in Threads : registers'[t] = Resume(t)
<1>1. current \in Threads /\ current # NoThread /\ TypeOK
  BY TickQueue, ThreadsAssumption DEF IInv
<1>2. registers' = SavedRegisters
  BY DEF Tick
<1>3. ASSUME NEW t \in Threads, t # current PROVE registers'[t] = Resume(t)
  <2>1. registers'[t] = registers[t]
    BY <1>1, <1>2, <1>3 DEF SavedRegisters, TypeOK
  <2> QED
    BY <1>3, <2>1 DEF IInv, WaitingSaved
<1>4. registers'[current] = Resume(current)
  <2>1. CASE update[current]
    BY <1>1, <1>2, <2>1 DEF SavedRegisters, TypeOK, IInv, RunningRight
  <2>2. CASE ~update[current]
    <3>1. registers'[current] = registers[current]
      BY <1>2, <2>2 DEF SavedRegisters
    <3>2. /\ live = last[current]
          /\ live.img = Kernel
          /\ image[current] = User
          /\ registers[current] = Entry(User)
      BY <1>1, <2>2 DEF IInv, RunningRight
    <3>3. Resume(current) = Entry(User)
      BY <3>2 DEF Resume, Kernel, User
    <3> QED
      BY <3>1, <3>2, <3>3
  <2> QED
    BY <2>1, <2>2
<1> QED
  BY <1>3, <1>4

LEMMA TickIInv ==
    ASSUME IInv, Tick
    PROVE  IInv'
<1>1. /\ current \in Threads /\ current' \in Threads /\ queue' \in Seq(Threads)
      /\ EachThreadOnce'
      /\ \A t \in Threads : registers'[t] = Resume(t)
  BY TickQueue, TickSaves
<1>2. /\ update' = [update EXCEPT ![current] = TRUE]
      /\ live' = registers'[current']
      /\ cr3' = TableOf(current')
      /\ UNCHANGED <<ready, memory_space, last, image>>
      /\ registers' = SavedRegisters
  BY DEF Tick
<1>3. \A t \in Threads : Resume(t) = Resume(t)' /\ Resume(t).img = image[t]
  BY <1>2 DEF Resume, Entry
<1>4. registers' \in [Threads -> Context]
  BY <1>1, <1>2 DEF SavedRegisters, IInv, TypeOK
<1>5. \A t \in Threads : update'[t]
  BY <1>1, <1>2 DEF IInv, TypeOK, WaitingSaved
<1>6. TypeOK'
  <2>1. live' \in Context
    BY <1>1, <1>2, <1>4
  <2>2. cr3' \in Threads \cup {NoThread}
    BY <1>1, <1>2 DEF TableOf
  <2>3. update' \in [Threads -> BOOLEAN]
    BY <1>2 DEF IInv, TypeOK
  <2> QED
    BY <1>1, <1>2, <1>4, <2>1, <2>2, <2>3, TickTurns DEF IInv, TypeOK
<1>7. WaitingSaved'
  BY <1>1, <1>3, <1>5 DEF WaitingSaved
<1>8. RunningRight'
  BY <1>1, <1>2, <1>3, <1>5 DEF RunningRight
<1>9. SpaceOfUser' /\ KernelAtStart'
  BY <1>1, <1>2, ThreadsAssumption DEF IInv, SpaceOfUser, KernelAtStart
<1>10. RightPageTable'
  <2>1. live'.img = image[current']
    BY <1>1, <1>2, <1>3
  <2>2. memory_space[current'] = (image[current'] = User)
    BY <1>1 DEF IInv, SpaceOfUser
  <2> QED
    BY <1>2, <2>1, <2>2 DEF RightPageTable, TableOf
<1> QED
  BY <1>1, <1>6, <1>7, <1>8, <1>9, <1>10, TickTurns DEF IInv

\* Every step preserves the invariant.
LEMMA NextIInv == IInv /\ [Next]_vars => IInv'
<1> SUFFICES ASSUME IInv, [Next]_vars PROVE IInv'
  OBVIOUS
<1>1. ASSUME NEW t \in Threads, AddProcess(t) PROVE IInv'
  BY <1>1, AddProcessIInv
<1>2. CASE Start
  BY <1>2, StartIInv
<1>3. CASE SetReady
  <2>1. current \in Threads /\ 1 \in 0 .. LastPoint
    BY <1>3, ThreadsAssumption, PointsAssumption DEF SetReady
  <2> QED
    BY <1>3, <2>1, RunIInv DEF SetReady
<1>4. CASE ReplaceImage
  BY <1>4, ReplaceImageIInv
<1>5. CASE Execute
  <2>1. current \in Threads
    BY <1>5 DEF Execute, IInv, TypeOK
  <2>2. live.point \in 0 .. LastPoint
    BY DEF IInv, TypeOK, Context
  <2>3. (IF live.point < LastPoint THEN live.point + 1 ELSE 2) \in 0 .. LastPoint
    BY <2>2, PointsAssumption
  <2>4. ready' \in BOOLEAN
    BY <1>5 DEF Execute, IInv, TypeOK
  <2> QED
    BY <1>5, <2>1, <2>3, <2>4, RunIInv DEF Execute
<1>6. CASE Tick
  BY <1>6, TickIInv
<1>7. CASE UNCHANGED vars
  BY <1>7
     DEF vars, IInv, TypeOK, EachThreadOnce, QueuedOnce, NoThreadLost, InQueue, WaitingSaved,
         RunningRight, SpaceOfUser, KernelAtStart, RightPageTable, Turns, Resume
<1> QED
  BY <1>1, <1>2, <1>3, <1>4, <1>5, <1>6, <1>7 DEF Next

\* The invariant holds in every state, whatever the interleaving of thread
\* steps and timer interrupts.
THEOREM Invariance == Spec => []IInv
BY InitIInv, NextIInv, PTL DEF Spec
-----------------------------------------------------------------------------
\* Neither start nor schedule loses a thread or queues one twice, for every
\* set of threads and every number of ticks.
THEOREM ThreadsKept == Spec => []EachThreadOnce
<1>1. IInv => EachThreadOnce
  BY DEF IInv
<1> QED
  BY <1>1, Invariance, PTL

\* A waiting thread resumes where it was interrupted, or at the entry point
\* of the image it was given: the update flag that replace_image clears
\* keeps schedule from overwriting the new registers.
THEOREM ResumeCorrect == Spec => []ResumesRight
<1>1. IInv => ResumesRight
  BY DEF IInv, WaitingSaved, Resume, ResumesRight
<1> QED
  BY <1>1, Invariance, PTL

\* User programs run on their own process's page table, kernel functions on
\* the kernel's.
THEOREM PageTableCorrect == Spec => []RightPageTable
<1>1. IInv => RightPageTable
  BY DEF IInv
<1> QED
  BY <1>1, Invariance, PTL

\* The queue and the running thread are different threads, all of Threads.
LEMMA QueueBounded ==
    ASSUME IInv, current # NoThread
    PROVE  Len(queue) \in Nat /\ Len(queue) + 1 <= Cardinality(Threads)
           /\ Cardinality(Threads) \in Nat
<1> DEFINE q == Append(queue, current)
           n == Len(queue) + 1
<1>1. /\ queue \in Seq(Threads) /\ current \in Threads
      /\ \A i, j \in DOMAIN queue : queue[i] # current /\ (queue[i] = queue[j] => i = j)
  BY DEF IInv, TypeOK, EachThreadOnce, QueuedOnce
<1>2. /\ q \in Seq(Threads)
      /\ \A i, j \in DOMAIN q : q[i] = q[j] => i = j
  BY <1>1, PushBack
<1>3. Len(queue) \in Nat /\ DOMAIN q = 1 .. n /\ Len(q) = n
  BY <1>1, AppendProperties, LenProperties
<1> HIDE DEF q
<1>4. q \in [1 .. n -> Threads]
  BY <1>2, <1>3, LenProperties
<1>5. q \in Injection(1 .. n, Threads)
  BY <1>2, <1>3, <1>4 DEF Injection, IsInjective
<1> HIDE DEF n
<1>6. Cardinality(1 .. n) <= Cardinality(Threads)
  BY <1>5, FS_Injection, ThreadsAssumption
<1>7. Cardinality(1 .. n) = n
  BY <1>3, FS_Interval DEF n
<1> QED
  BY <1>3, <1>6, <1>7, FS_CardinalityType, ThreadsAssumption DEF n

\* Between two turns of a thread no other thread gets two, for every set of
\* threads: schedule's push_back and pop_front are fair to the queue.
THEOREM WaitBounded == Spec => []BoundedWait
<1>1. ASSUME IInv PROVE BoundedWait
  <2>1. CASE current = NoThread
    <3>1. Cardinality(Threads) \in Nat /\ Cardinality(Threads) # 0
      BY ThreadsAssumption, FS_CardinalityType, FS_EmptySet
    <3>2. \A t \in Threads : passed[t] = 0
      BY <1>1, <2>1 DEF IInv, Turns
    <3> QED
      BY <3>1, <3>2 DEF BoundedWait
  <2>2. CASE current # NoThread
    <3>1. /\ Len(queue) \in Nat /\ Len(queue) + 1 <= Cardinality(Threads)
          /\ Cardinality(Threads) \in Nat
      BY <1>1, <2>2, QueueBounded
    <3> SUFFICES ASSUME NEW t \in Threads PROVE passed[t] < Cardinality(Threads)
      BY DEF BoundedWait
    <3>2. CASE t = current
      BY <1>1, <2>2, <3>1, <3>2 DEF IInv, Turns
    <3>3. CASE t # current
      <4>1. PICK i \in DOMAIN queue : queue[i] = t
        BY <1>1, <2>2, <3>3 DEF IInv, EachThreadOnce, NoThreadLost, InQueue
      <4>2. i \in Nat /\ i >= 1
        BY <1>1, LenProperties DEF IInv, TypeOK
      <4>3. passed[t] <= Len(queue) - i + 1 /\ passed[t] \in Nat
        BY <1>1, <2>2, <4>1 DEF IInv, Turns, TypeOK
      <4> QED
        BY <3>1, <4>2, <4>3
    <3> QED
      BY <3>2, <3>3
  <2> QED
    BY <2>1, <2>2
<1> QED
  BY <1>1, Invariance, PTL
=============================================================================
