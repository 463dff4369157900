--------------------------- MODULE CsSchedulerProofs ---------------------------
(*****************************************************************************)
(* Proofs about the scheduler of module CsScheduler for any nodes, slots,    *)
(* fields, policies and burst limit: its state is well typed, no task is     *)
(* lost or queued twice, the burst limit is kept, and the periodic tasks are *)
(* those of the policy of the tick.                                          *)
(*                                                                           *)
(* The inductive invariant IInv adds to these what ties them together: the   *)
(* queues as sequences without repetition (so that a removal and an append   *)
(* can be followed by sets), the node of every used slot, the burst as a     *)
(* bound of the tasks that passed, and an active task whenever the bus is    *)
(* busy.  PolicyInv follows the steps of the nodes through a tick: a full    *)
(* table is excused only by the slots that nodes switched off have freed     *)
(* since.                                                                    *)
(*****************************************************************************)
EXTENDS CsScheduler, SequenceTheorems, FiniteSetTheorems, WellFoundedInduction, TLAPS

-------------------------------------------------------------------------------
(* Queues: sequences of slots in which no slot occurs twice *)

Distinct(q) == \A i, j \in 1 .. Len(q) : q[i] = q[j] => i = j
IsQueue(q)  == q \in Seq(Slots) /\ Distinct(q)

\* The elements of a queue are slots, each at some position.
LEMMA Members ==
    ASSUME NEW q \in Seq(Slots)
    PROVE  /\ ToSet(q) \subseteq Slots
           /\ \A s : s \in ToSet(q) <=> \E i \in 1 .. Len(q) : q[i] = s
  BY DEF ToSet

\* The empty queue.
LEMMA EmptyQueue == IsQueue(<<>>) /\ ToSet(<<>>) = {}
  BY DEF IsQueue, Distinct, ToSet

\* queue_task_slot: a slot that does not wait yet goes to the end.
LEMMA AppendQueue ==
    ASSUME NEW q, IsQueue(q), NEW s \in Slots, s \notin ToSet(q)
    PROVE  IsQueue(Append(q, s)) /\ ToSet(Append(q, s)) = ToSet(q) \cup {s}
<1>. DEFINE r == Append(q, s)
<1>1. /\ r \in Seq(Slots) /\ Len(r) = Len(q) + 1 /\ Len(q) \in Nat
      /\ \A i \in 1 .. Len(q) : r[i] = q[i]
      /\ r[Len(q) + 1] = s
  BY DEF IsQueue
<1>2. \A i \in 1 .. Len(q) : q[i] # s
  BY Members DEF IsQueue
<1>3. Distinct(r)
  BY <1>1, <1>2 DEF IsQueue, Distinct
<1>4. ASSUME NEW e PROVE e \in ToSet(r) <=> e \in ToSet(q) \cup {s}
  <2>. HIDE DEF r
  <2>. QED
    BY <1>1, Members DEF IsQueue
<1>. QED
  BY <1>1, <1>3, <1>4 DEF IsQueue

\* pop_valid: the first slot leaves the queue.
LEMMA TailQueue ==
    ASSUME NEW q, IsQueue(q), q # <<>>
    PROVE  /\ Head(q) \in Slots /\ Head(q) \in ToSet(q)
           /\ IsQueue(Tail(q)) /\ ToSet(Tail(q)) = ToSet(q) \ {Head(q)}
<1>. DEFINE r == Tail(q)
<1>1. /\ r \in Seq(Slots) /\ Len(r) = Len(q) - 1 /\ Len(q) \in Nat \ {0}
      /\ \A i \in 1 .. Len(r) : r[i] = q[i + 1]
      /\ Head(q) = q[1] /\ q[1] \in Slots
  BY DEF IsQueue
<1>. HIDE DEF r
<1>2. Head(q) \in ToSet(q)
  BY <1>1, Members DEF IsQueue
<1>3. Distinct(r)
  BY <1>1 DEF IsQueue, Distinct
<1>4. ASSUME NEW e PROVE e \in ToSet(r) <=> e \in ToSet(q) \ {Head(q)}
  <2>1. ASSUME NEW i \in 1 .. Len(r), r[i] = e
        PROVE  e \in ToSet(q) /\ e # Head(q)
    BY <1>1, <2>1, Members DEF IsQueue, Distinct
  <2>2. ASSUME NEW i \in 1 .. Len(q), q[i] = e, e # Head(q)
        PROVE  i - 1 \in 1 .. Len(r) /\ r[i - 1] = e
    BY <1>1, <2>2
  <2>. QED
    BY <1>1, <2>1, <2>2, Members DEF IsQueue
<1>. QED
  BY <1>1, <1>2, <1>3, <1>4 DEF IsQueue, r

\* remove_slot_from_queues by position: what stood behind the slot moves up.
LEMMA RemoveShape ==
    ASSUME NEW q, IsQueue(q), NEW s \in Slots, s \in ToSet(q)
    PROVE  LET r == RemoveFirst(q, s)
           IN  /\ r \in Seq(Slots) /\ Len(r) = Len(q) - 1 /\ Len(q) \in Nat
               /\ \E k \in 1 .. Len(q) :
                     /\ q[k] = s
                     /\ \A i \in 1 .. Len(r) : r[i] = IF i < k THEN q[i] ELSE q[i + 1]
<1>1. PICK k \in 1 .. Len(q) : q[k] = s
  BY Members DEF IsQueue
<1>2. {i \in 1 .. Len(q) : q[i] = s} = {k}
  BY <1>1 DEF IsQueue, Distinct
<1>3. SelectInSeq(q, LAMBDA v : v = s) = k
  BY <1>2 DEF SelectInSeq, Min
<1>. DEFINE a == SubSeq(q, 1, k - 1)
            b == SubSeq(q, k + 1, Len(q))
            r == a \o b
<1>4. RemoveFirst(q, s) = r
  BY <1>1, <1>3 DEF RemoveFirst, RemoveAt
<1>5. /\ a \in Seq(Slots) /\ Len(a) = k - 1
      /\ \A i \in 1 .. k - 1 : a[i] = q[i]
  BY <1>1 DEF IsQueue
<1>6. /\ b \in Seq(Slots) /\ Len(b) = Len(q) - k
      /\ \A i \in 1 .. Len(q) - k : b[i] = q[k + i]
  BY <1>1 DEF IsQueue
<1>7. Len(q) \in Nat /\ k \in 1 .. Len(q)
  BY <1>1 DEF IsQueue
<1>. HIDE DEF a, b
<1>8. /\ r \in Seq(Slots) /\ Len(r) = Len(a) + Len(b)
      /\ \A i \in 1 .. Len(a) + Len(b) :
             r[i] = IF i <= Len(a) THEN a[i] ELSE b[i - Len(a)]
  BY <1>5, <1>6, ConcatProperties
<1>. HIDE DEF r
<1>9. Len(r) = Len(q) - 1
  BY <1>5, <1>6, <1>7, <1>8
<1>10. ASSUME NEW i \in 1 .. Len(r)
       PROVE  r[i] = IF i < k THEN q[i] ELSE q[i + 1]
  <2>1. CASE i < k
    <3>1. i \in 1 .. k - 1 /\ i <= Len(a) /\ i \in 1 .. Len(a) + Len(b)
      BY <1>5, <1>6, <1>7, <1>9, <2>1
    <3>2. r[i] = a[i]
      BY <1>8, <3>1
    <3>. QED
      BY <1>5, <2>1, <3>1, <3>2
  <2>2. CASE i >= k
    <3>1. i - Len(a) \in 1 .. Len(q) - k /\ k + (i - Len(a)) = i + 1
      BY <1>5, <1>7, <1>9, <2>2
    <3>2. r[i] = b[i - Len(a)]
      BY <1>5, <1>6, <1>7, <1>8, <1>9, <2>2
    <3>3. b[i - Len(a)] = q[i + 1]
      BY <1>6, <3>1
    <3>. QED
      BY <1>7, <1>9, <2>2, <3>2, <3>3
  <2>. QED
    BY <1>7, <1>9, <2>1, <2>2
<1>. QED
  BY <1>1, <1>4, <1>7, <1>8, <1>9, <1>10

\* remove_slot_from_queues: one slot leaves, the others keep waiting.
LEMMA RemoveQueue ==
    ASSUME NEW q, IsQueue(q), NEW s \in Slots
    PROVE  /\ IsQueue(RemoveFirst(q, s))
           /\ ToSet(RemoveFirst(q, s)) = ToSet(q) \ {s}
<1>1. CASE s \notin ToSet(q)
  BY <1>1, Members DEF RemoveFirst, IsQueue
<1>2. CASE s \in ToSet(q)
  <2>. DEFINE r == RemoveFirst(q, s)
  <2>1. /\ r \in Seq(Slots) /\ Len(r) = Len(q) - 1 /\ Len(q) \in Nat
        /\ \E k \in 1 .. Len(q) :
              /\ q[k] = s
              /\ \A i \in 1 .. Len(r) : r[i] = IF i < k THEN q[i] ELSE q[i + 1]
    BY <1>2, RemoveShape
  <2>. HIDE DEF r
  <2>2. PICK k \in 1 .. Len(q) :
          /\ q[k] = s
          /\ \A i \in 1 .. Len(r) : r[i] = IF i < k THEN q[i] ELSE q[i + 1]
    BY <2>1
  <2>3. Distinct(r)
    BY <2>1, <2>2 DEF IsQueue, Distinct
  <2>4. ASSUME NEW e PROVE e \in ToSet(r) <=> e \in ToSet(q) \ {s}
    <3>1. ASSUME NEW i \in 1 .. Len(r), r[i] = e
          PROVE  e \in ToSet(q) /\ e # s
      <4>1. PICK j \in 1 .. Len(q) : e = q[j] /\ j # k
        BY <2>1, <2>2, <3>1
      <4>. QED
        BY <2>2, <4>1, Members DEF IsQueue, Distinct
    <3>2. ASSUME NEW i \in 1 .. Len(q), q[i] = e, e # s
          PROVE  \E j \in 1 .. Len(r) : r[j] = e
      <4>1. CASE i < k
        BY <2>1, <2>2, <3>2, <4>1
      <4>2. CASE i > k
        <5>1. i - 1 \in 1 .. Len(r) /\ r[i - 1] = q[i]
          BY <2>1, <2>2, <4>2
        <5>. QED
          BY <3>2, <5>1
      <4>. QED
        BY <2>2, <3>2, <4>1, <4>2
    <3>. QED
      BY <2>1, <3>1, <3>2, Members DEF IsQueue
  <2>. QED
    BY <2>1, <2>3, <2>4 DEF IsQueue, r
<1>. QED
  BY <1>1, <1>2

-------------------------------------------------------------------------------
(* The invariant *)

\* A slot waits in a queue.
Waits(s) == s \in ToSet(normalQ) \cup ToSet(priorityQ)

\* QueuesSound by slot instead of by position, and the types of the tasks.
TablesSound ==
    /\ task \in [Slots -> TaskStates]
    /\ active \in Slots \cup {NoSlot}
    /\ IsQueue(normalQ)
    /\ IsQueue(priorityQ)
    /\ \A s \in ToSet(normalQ) : task[s].class = "normal"
    /\ \A s \in ToSet(priorityQ) : task[s].class = "priority"
    /\ \A s \in Slots :
         /\ task[s].queued <=> Waits(s)
         /\ task[s].queued => task[s].enabled
         /\ task[s].used <=> task[s].queued \/ s = active
         /\ s = active => ~task[s].queued
         /\ task[s].used => task[s].node \in Nodes

\* What passes a normal task is counted by the burst.
BurstSound ==
    /\ burst \in 0 .. BurstLimit
    /\ bypassed \in 0 .. burst

\* The tick, and whom the bus works for.
TickSound ==
    /\ policy \in [Nodes -> Policies]
    /\ phase \in {"control", "nodes", "schedule", "exchange"}
    /\ at \in 1 .. Len(NodeOrder)
    /\ busy \in BOOLEAN
    /\ result \in Results \cup {"none"}
    /\ busy => active # NoSlot

\* The command windows.
WindowsSound ==
    /\ msgCmd \in [Nodes -> Windows]
    /\ buf \in Windows
    /\ saved \in [Nodes -> Windows]
    /\ last \in [Nodes -> Windows]
    /\ lastStaged \in [Nodes -> Windows]
    /\ open \in [Nodes -> SUBSET (Fields \X Values)]

\* The inductive invariant.
IInv == TablesSound /\ BurstSound /\ TickSound /\ WindowsSound

\* The invariant implies what the runs check.
LEMMA Invariants == IInv => TypeOK /\ QueuesSound /\ NormalNotBypassed
<1>. SUFFICES ASSUME IInv PROVE TypeOK /\ QueuesSound /\ NormalNotBypassed
  OBVIOUS
<1>. USE DEF IInv
<1>1. BurstLimit \in Nat
  BY SchedulerAssumption
<1>2. TypeOK
  BY <1>1 DEF TypeOK, TablesSound, BurstSound, TickSound, WindowsSound, IsQueue
<1>3. /\ \A i \in 1 .. Len(normalQ) : normalQ[i] \in ToSet(normalQ)
      /\ \A i \in 1 .. Len(priorityQ) : priorityQ[i] \in ToSet(priorityQ)
  BY Members DEF TablesSound, IsQueue
<1>4. QueuesSound
  BY <1>3 DEF QueuesSound, TablesSound, IsQueue, Distinct, Waits
<1>5. NormalNotBypassed
  BY <1>1 DEF NormalNotBypassed, BurstSound
<1>. QED
  BY <1>2, <1>4, <1>5

\* A free slot and a new task are well typed.
LEMMA NewTaskType ==
    /\ FreeTask \in TaskStates /\ NewTask \in TaskStates
    /\ ~FreeTask.used /\ ~FreeTask.queued /\ ~FreeTask.enabled
    /\ NewTask.used /\ NewTask.queued /\ NewTask.enabled
    /\ NewTask.class = "normal"
<1>1. 0 \in Values
  BY SchedulerAssumption DEF Values
<1>2. FreeTask \in TaskStates /\ ~FreeTask.used /\ ~FreeTask.queued /\ ~FreeTask.enabled
  BY <1>1 DEF FreeTask, TaskStates, Classes
<1>3. FreeTask.class = "normal"
  BY DEF FreeTask
<1>. HIDE DEF FreeTask
<1>4. /\ NewTask \in TaskStates
      /\ NewTask.used /\ NewTask.queued /\ NewTask.enabled
      /\ NewTask.class = FreeTask.class
  BY <1>2 DEF NewTask, TaskStates
<1>. QED
  BY <1>2, <1>3, <1>4

\* An empty window is well typed.
LEMMA EmptyWindow == 0 \in Values /\ Empty \in Windows
<1>1. 0 \in Values
  BY SchedulerAssumption DEF Values
<1>. QED
  BY <1>1 DEF Empty, Windows

\* The scheduler starts with free slots and empty queues.
LEMMA InitInvariant == Init => IInv
<1>. SUFFICES ASSUME Init PROVE IInv
  OBVIOUS
<1>1. TablesSound
  BY NewTaskType, EmptyQueue DEF Init, TablesSound, Waits, NoSlot, Slots
<1>2. BurstSound
  BY SchedulerAssumption DEF Init, BurstSound
<1>3. TickSound
  <2>1. 1 \in 1 .. Len(NodeOrder)
    BY SchedulerAssumption
  <2>2. policy \in [Nodes -> Policies]
    BY SchedulerAssumption DEF Init
  <2>. QED
    BY <2>1, <2>2 DEF Init, TickSound
<1>5. WindowsSound
  BY EmptyWindow DEF Init, WindowsSound
<1>. QED
  BY <1>1, <1>2, <1>3, <1>5 DEF IInv

-------------------------------------------------------------------------------
(* Slots and queues *)

\* alloc_task_slot finds a free slot when there is one.
LEMMA FirstFreeIsFree == FreeSlots # {} => FirstFree \in FreeSlots
<1>. SUFFICES ASSUME FreeSlots # {} PROVE FirstFree \in FreeSlots
  OBVIOUS
<1>1. FreeSlots \subseteq Nat
  BY SchedulerAssumption DEF FreeSlots, Slots
<1>. DEFINE less == {p \in Nat \X Nat : p[1] < p[2]}
<1>2. IsWellFoundedOn(less, Nat)
  BY NatLessThanWellFounded DEF OpToRel
<1>3. \E x \in FreeSlots : \A y \in FreeSlots : <<y, x>> \notin less
  BY <1>1, <1>2, WFMin
<1>4. PICK x \in FreeSlots : \A y \in FreeSlots : <<y, x>> \notin less
  BY <1>3
<1>5. ASSUME NEW y \in FreeSlots PROVE x <= y
  <2>1. x \in Nat /\ y \in Nat
    BY <1>1
  <2>2. y < x => <<y, x>> \in less
    BY <2>1
  <2>. QED
    BY <1>4, <2>1, <2>2
<1>. QED
  BY <1>5 DEF FirstFree

\* A task that fits the table goes to a free slot and to the end of a queue.
LEMMA AddTaskSound ==
    ASSUME TablesSound, NEW t \in TaskStates, AddTask(t), UNCHANGED active,
           t.used, t.queued, t.enabled, t.node \in Nodes
    PROVE  TablesSound'
<1>1. CASE FreeSlots = {}
  BY <1>1 DEF AddTask, TablesSound, Waits
<1>2. CASE FreeSlots # {}
  <2>. DEFINE s == FirstFree
  <2>1. s \in Slots /\ ~task[s].used
    BY <1>2, FirstFreeIsFree DEF FreeSlots
  <2>2. ~Waits(s) /\ s # active
    BY <2>1 DEF TablesSound
  <2>3. task' = [task EXCEPT ![s] = t] /\ Enqueue(s, t.class)
    BY <1>2 DEF AddTask
  <2>. HIDE DEF s
  <2>4. task' \in [Slots -> TaskStates] /\ task'[s] = t
        /\ \A r \in Slots : r # s => task'[r] = task[r]
    BY <2>1, <2>3 DEF TablesSound
  <2>5. t.class \in {"normal", "priority"}
    BY DEF TaskStates, Classes
  <2>6. CASE t.class = "normal"
    <3>1. /\ IsQueue(normalQ') /\ ToSet(normalQ') = ToSet(normalQ) \cup {s}
          /\ priorityQ' = priorityQ
      BY <2>1, <2>2, <2>3, <2>6, AppendQueue DEF Enqueue, TablesSound, Waits
    <3>. QED
      BY <2>1, <2>2, <2>4, <2>6, <3>1, Members DEF TablesSound, Waits, IsQueue
  <2>7. CASE t.class = "priority"
    <3>1. /\ IsQueue(priorityQ') /\ ToSet(priorityQ') = ToSet(priorityQ) \cup {s}
          /\ normalQ' = normalQ
      BY <2>1, <2>2, <2>3, <2>7, AppendQueue DEF Enqueue, TablesSound, Waits
    <3>. QED
      BY <2>1, <2>2, <2>4, <2>7, <3>1, Members DEF TablesSound, Waits, IsQueue
  <2>. QED
    BY <2>5, <2>6, <2>7
<1>. QED
  BY <1>1, <1>2

\* One slot changes and everything else stays where it is.
LEMMA MovedSound ==
    ASSUME TablesSound, NEW s \in Slots, NEW u \in TaskStates,
           task' \in [Slots -> TaskStates], task'[s] = u,
           \A r \in Slots : r # s => task'[r] = task[r],
           active' \in Slots \cup {NoSlot},
           \A r \in Slots : r # s => (r = active <=> r = active'),
           IsQueue(normalQ'), IsQueue(priorityQ'),
           ToSet(normalQ') \ {s} = ToSet(normalQ) \ {s},
           ToSet(priorityQ') \ {s} = ToSet(priorityQ) \ {s},
           s \in ToSet(normalQ') => u.class = "normal",
           s \in ToSet(priorityQ') => u.class = "priority",
           u.queued <=> s \in ToSet(normalQ') \cup ToSet(priorityQ'),
           u.queued => u.enabled,
           u.used <=> u.queued \/ s = active',
           s = active' => ~u.queued,
           u.used => u.node \in Nodes
    PROVE  TablesSound'
<1>1. ASSUME NEW r \in ToSet(normalQ') PROVE task'[r].class = "normal"
  <2>1. r \in Slots
    BY Members DEF IsQueue
  <2>2. r # s => r \in ToSet(normalQ)
    OBVIOUS
  <2>. QED
    BY <2>1, <2>2 DEF TablesSound
<1>2. ASSUME NEW r \in ToSet(priorityQ') PROVE task'[r].class = "priority"
  <2>1. r \in Slots
    BY Members DEF IsQueue
  <2>2. r # s => r \in ToSet(priorityQ)
    OBVIOUS
  <2>. QED
    BY <2>1, <2>2 DEF TablesSound
<1>3. ASSUME NEW r \in Slots
      PROVE  /\ task'[r].queued <=> Waits(r)'
             /\ task'[r].queued => task'[r].enabled
             /\ task'[r].used <=> task'[r].queued \/ r = active'
             /\ r = active' => ~task'[r].queued
             /\ task'[r].used => task'[r].node \in Nodes
  <2>1. CASE r = s
    BY <2>1 DEF Waits
  <2>2. CASE r # s
    <3>1. Waits(r)' <=> Waits(r)
      BY <2>2 DEF Waits
    <3>. QED
      BY <2>2, <3>1 DEF TablesSound
  <2>. QED
    BY <2>1, <2>2
<1>. QED
  BY <1>1, <1>2, <1>3 DEF TablesSound

\* ensure_periodic_exchange moves the task between the queues; the active
\* task waits in neither.
LEMMA KeepPeriodicSound ==
    ASSUME IInv, NEW x \in Nodes, KeepPeriodic(x)
    PROVE  TablesSound'
<1>1. PICK s \in PeriodicOf(x) :
         /\ task' = [task EXCEPT ![s].enabled = TRUE, ![s].class = policy[x],
                                 ![s].queued = IF task[s].class = policy[x]
                                               THEN @ ELSE s # active]
         /\ IF task[s].class = policy[x]
            THEN UNCHANGED <<normalQ, priorityQ>>
            ELSE LET without(q) == IF task[s].queued THEN RemoveFirst(q, s) ELSE q
                     with(q)    == IF s # active THEN Append(without(q), s)
                                   ELSE without(q)
                 IN  IF policy[x] = "priority"
                     THEN /\ normalQ' = without(normalQ)
                          /\ priorityQ' = with(priorityQ)
                     ELSE /\ normalQ' = with(normalQ)
                          /\ priorityQ' = without(priorityQ)
  BY DEF KeepPeriodic
<1>2. s \in Slots /\ task[s].used /\ task[s] \in TaskStates
  BY DEF PeriodicOf, IInv, TablesSound
<1>3. policy[x] \in Classes /\ UNCHANGED active
  BY DEF KeepPeriodic, NodeStep, IInv, TickSound, Policies
<1>. DEFINE u == [task[s] EXCEPT !.enabled = TRUE, !.class = policy[x],
                                 !.queued = IF task[s].class = policy[x]
                                            THEN @ ELSE s # active]
<1>4. /\ u \in TaskStates /\ u.enabled /\ u.class = policy[x]
      /\ u.used /\ u.node = task[s].node
      /\ u.queued = IF task[s].class = policy[x] THEN task[s].queued ELSE s # active
  BY <1>2, <1>3 DEF TaskStates
<1>5. task' = [task EXCEPT ![s] = u]
  BY <1>1, <1>2 DEF TaskStates, IInv, TablesSound
<1>. HIDE DEF u
<1>6. /\ task' \in [Slots -> TaskStates] /\ task'[s] = u
      /\ \A r \in Slots : r # s => task'[r] = task[r]
  BY <1>2, <1>4, <1>5 DEF IInv, TablesSound
<1>7. CASE task[s].class = policy[x]
  BY <1>1, <1>2, <1>3, <1>4, <1>6, <1>7, Members DEF IInv, TablesSound, Waits, IsQueue
<1>8. CASE task[s].class # policy[x]
  <2>0. /\ u.queued <=> s # active
        /\ policy[x] = "priority" => s \notin ToSet(priorityQ)
        /\ policy[x] = "normal" => s \notin ToSet(normalQ)
        /\ u.node \in Nodes
        /\ active' = active /\ active' \in Slots \cup {NoSlot}
    BY <1>2, <1>3, <1>4, <1>8 DEF IInv, TablesSound
  <2>. DEFINE without(q) == IF task[s].queued THEN RemoveFirst(q, s) ELSE q
              with(q)    == IF s # active THEN Append(without(q), s) ELSE without(q)
  <2>1. ASSUME NEW q, IsQueue(q), s \in ToSet(q) => task[s].queued
        PROVE  IsQueue(without(q)) /\ ToSet(without(q)) = ToSet(q) \ {s}
    BY <1>2, <2>1, RemoveQueue
  <2>. HIDE DEF without
  <2>2. ASSUME NEW q, IsQueue(q), s \in ToSet(q) => task[s].queued
        PROVE  /\ IsQueue(with(q))
               /\ ToSet(with(q)) = IF s # active THEN ToSet(q) \cup {s} ELSE ToSet(q) \ {s}
    <3>1. IsQueue(without(q)) /\ ToSet(without(q)) = ToSet(q) \ {s}
      BY <2>1, <2>2
    <3>2. s \notin ToSet(without(q))
      BY <3>1
    <3>3. /\ IsQueue(Append(without(q), s))
          /\ ToSet(Append(without(q), s)) = ToSet(without(q)) \cup {s}
      BY <1>2, <3>1, <3>2, AppendQueue
    <3>4. ToSet(without(q)) \cup {s} = ToSet(q) \cup {s}
      BY <3>1
    <3>. QED
      BY <3>1, <3>3, <3>4
  <2>. HIDE DEF with
  <2>3. /\ IsQueue(normalQ) /\ IsQueue(priorityQ)
        /\ s \in ToSet(normalQ) => task[s].queued
        /\ s \in ToSet(priorityQ) => task[s].queued
    BY <1>2 DEF IInv, TablesSound, Waits
  <2>4. CASE policy[x] = "priority"
    <3>1. normalQ' = without(normalQ) /\ priorityQ' = with(priorityQ)
      BY <1>1, <1>8, <2>4 DEF with, without
    <3>2. /\ IsQueue(normalQ') /\ ToSet(normalQ') = ToSet(normalQ) \ {s}
          /\ IsQueue(priorityQ')
          /\ ToSet(priorityQ') = IF s # active THEN ToSet(priorityQ) \cup {s}
                                 ELSE ToSet(priorityQ) \ {s}
      BY <2>1, <2>2, <2>3, <3>1
    <3>. QED
      BY <1>2, <1>3, <1>4, <1>6, <2>0, <2>4, <3>2, MovedSound DEF IInv
  <2>5. CASE policy[x] = "normal"
    <3>1. normalQ' = with(normalQ) /\ priorityQ' = without(priorityQ)
      BY <1>1, <1>8, <2>5 DEF with, without
    <3>2. /\ IsQueue(priorityQ') /\ ToSet(priorityQ') = ToSet(priorityQ) \ {s}
          /\ IsQueue(normalQ')
          /\ ToSet(normalQ') = IF s # active THEN ToSet(normalQ) \cup {s}
                               ELSE ToSet(normalQ) \ {s}
      BY <2>1, <2>2, <2>3, <3>1
    <3>. QED
      BY <1>2, <1>3, <1>4, <1>6, <2>0, <2>5, <3>2, MovedSound DEF IInv
  <2>. QED
    BY <1>3, <2>4, <2>5 DEF Classes
<1>. QED
  BY <1>7, <1>8

\* cancel_periodic_exchange frees a waiting slot and leaves an active one.
LEMMA CancelPeriodicSound ==
    ASSUME IInv, NEW x \in Nodes, CancelPeriodic(x)
    PROVE  TablesSound'
<1>. USE DEF IInv
<1>1. PICK s \in PeriodicOf(x) :
         IF s = active
         THEN /\ task' = [task EXCEPT ![s] = Cancelled(task[s])]
              /\ UNCHANGED <<normalQ, priorityQ>>
         ELSE /\ task' = [task EXCEPT ![s] = FreeTask]
              /\ Dequeue(s)
  BY DEF CancelPeriodic
<1>2. /\ s \in Slots /\ task[s].used /\ task[s] \in TaskStates
      /\ active' = active /\ active' \in Slots \cup {NoSlot}
      /\ IsQueue(normalQ) /\ IsQueue(priorityQ)
  BY DEF PeriodicOf, TablesSound, CancelPeriodic, NodeStep
<1>3. CASE s = active
  <2>. DEFINE u == Cancelled(task[s])
  <2>1. /\ u \in TaskStates /\ u.used /\ ~u.queued
        /\ u.node = task[s].node /\ u.class = task[s].class
    BY <1>2, <1>3 DEF Cancelled, TaskStates, TablesSound
  <2>2. ~Waits(s) /\ task[s].node \in Nodes
    BY <1>2, <1>3 DEF TablesSound
  <2>. HIDE DEF u
  <2>3. /\ task' \in [Slots -> TaskStates] /\ task'[s] = u
        /\ \A r \in Slots : r # s => task'[r] = task[r]
    BY <1>1, <1>2, <1>3, <2>1 DEF TablesSound, u
  <2>4. UNCHANGED <<normalQ, priorityQ>>
    BY <1>1, <1>3
  <2>. QED
    BY <1>2, <1>3, <2>1, <2>2, <2>3, <2>4, MovedSound DEF Waits
<1>4. CASE s # active
  <2>1. /\ IsQueue(normalQ') /\ ToSet(normalQ') = ToSet(normalQ) \ {s}
        /\ IsQueue(priorityQ') /\ ToSet(priorityQ') = ToSet(priorityQ) \ {s}
    BY <1>1, <1>2, <1>4, RemoveQueue DEF Dequeue
  <2>2. /\ task' \in [Slots -> TaskStates] /\ task'[s] = FreeTask
        /\ \A r \in Slots : r # s => task'[r] = task[r]
    BY <1>1, <1>2, <1>4, NewTaskType DEF TablesSound
  <2>. QED
    BY <1>2, <1>4, <2>1, <2>2, NewTaskType, MovedSound
<1>. QED
  BY <1>3, <1>4

\* finalize_active_task queues a periodic task again and frees any other.
LEMMA FinalizeSound ==
    ASSUME IInv, Finalize
    PROVE  TablesSound'
<1>. USE DEF IInv
<1>. DEFINE s == active
<1>1. /\ s \in Slots /\ active' = NoSlot /\ NoSlot \notin Slots
      /\ IsQueue(normalQ) /\ IsQueue(priorityQ)
      /\ IF task[s].enabled /\ task[s].periodic
         THEN /\ task' = [task EXCEPT ![s].queued = TRUE]
              /\ Enqueue(s, task[s].class)
         ELSE /\ task' = [task EXCEPT ![s] = FreeTask]
              /\ UNCHANGED <<normalQ, priorityQ>>
  BY DEF Finalize, TablesSound, NoSlot, Slots
<1>2. /\ task[s] \in TaskStates /\ task[s].used /\ ~task[s].queued
      /\ ~Waits(s) /\ task[s].node \in Nodes
  BY <1>1 DEF TablesSound
<1>. HIDE DEF s
<1>3. CASE task[s].enabled /\ task[s].periodic
  <2>. DEFINE u == [task[s] EXCEPT !.queued = TRUE]
  <2>1. /\ u \in TaskStates /\ u.used /\ u.queued /\ u.enabled
        /\ u.node = task[s].node /\ u.class = task[s].class
        /\ u.class \in {"normal", "priority"}
    BY <1>2, <1>3 DEF TaskStates, Classes
  <2>2. task' = [task EXCEPT ![s] = u]
    BY <1>1, <1>3
  <2>. HIDE DEF u
  <2>3. /\ task' \in [Slots -> TaskStates] /\ task'[s] = u
        /\ \A r \in Slots : r # s => task'[r] = task[r]
    BY <1>1, <2>1, <2>2 DEF TablesSound
  <2>4. CASE u.class = "normal"
    <3>0. normalQ' = Append(normalQ, s) /\ priorityQ' = priorityQ /\ s \notin ToSet(normalQ)
      BY <1>1, <1>2, <1>3, <2>1, <2>4 DEF Enqueue, Waits
    <3>1. /\ IsQueue(normalQ') /\ ToSet(normalQ') = ToSet(normalQ) \cup {s}
          /\ priorityQ' = priorityQ
      BY <1>1, <3>0, AppendQueue
    <3>. QED
      BY <1>1, <1>2, <2>1, <2>3, <2>4, <3>1, MovedSound DEF Waits, s
  <2>5. CASE u.class = "priority"
    <3>0. priorityQ' = Append(priorityQ, s) /\ normalQ' = normalQ /\ s \notin ToSet(priorityQ)
      BY <1>1, <1>2, <1>3, <2>1, <2>5 DEF Enqueue, Waits
    <3>1. /\ IsQueue(priorityQ') /\ ToSet(priorityQ') = ToSet(priorityQ) \cup {s}
          /\ normalQ' = normalQ
      BY <1>1, <3>0, AppendQueue
    <3>. QED
      BY <1>1, <1>2, <2>1, <2>3, <2>5, <3>1, MovedSound DEF Waits, s
  <2>. QED
    BY <2>1, <2>4, <2>5
<1>4. CASE ~(task[s].enabled /\ task[s].periodic)
  <2>1. /\ task' \in [Slots -> TaskStates] /\ task'[s] = FreeTask
        /\ \A r \in Slots : r # s => task'[r] = task[r]
    BY <1>1, <1>4, NewTaskType DEF TablesSound
  <2>2. UNCHANGED <<normalQ, priorityQ>>
    BY <1>1, <1>4
  <2>. QED
    BY <1>1, <1>2, <2>1, <2>2, NewTaskType, MovedSound DEF Waits, s
<1>. QED
  BY <1>3, <1>4

\* The head of a queue leaves it and becomes the active task.
LEMMA StartSound ==
    ASSUME IInv, StartPriority \/ StartNormal
    PROVE  TablesSound'
<1>. USE DEF IInv
<1>1. PICK s : /\ Start(s)
               /\ \/ /\ priorityQ # <<>> /\ s = Head(priorityQ)
                     /\ priorityQ' = Tail(priorityQ) /\ normalQ' = normalQ
                  \/ /\ normalQ # <<>> /\ s = Head(normalQ)
                     /\ normalQ' = Tail(normalQ) /\ priorityQ' = priorityQ
  BY DEF StartPriority, StartNormal, PriorityTurn
<1>2. /\ IsQueue(normalQ) /\ IsQueue(priorityQ)
      /\ active = NoSlot /\ active' = s /\ NoSlot \notin Slots
      /\ task' = [task EXCEPT ![s].queued = FALSE]
  BY <1>1 DEF Start, Idle, Arm, TablesSound, NoSlot, Slots
<1>3. /\ s \in Slots /\ Waits(s)
      /\ IsQueue(normalQ') /\ IsQueue(priorityQ')
      /\ ToSet(normalQ') \ {s} = ToSet(normalQ) \ {s}
      /\ ToSet(priorityQ') \ {s} = ToSet(priorityQ) \ {s}
  BY <1>1, <1>2, TailQueue DEF Waits
<1>4. s \notin ToSet(normalQ') \cup ToSet(priorityQ')
  <2>1. ~(s \in ToSet(normalQ) /\ s \in ToSet(priorityQ))
    BY DEF TablesSound
  <2>. QED
    BY <1>1, <1>2, <2>1, TailQueue
<1>. DEFINE u == [task[s] EXCEPT !.queued = FALSE]
<1>5. /\ u \in TaskStates /\ ~u.queued /\ u.used /\ u.node \in Nodes
  <2>1. /\ task[s] \in TaskStates /\ task[s].used /\ task[s].node \in Nodes
    BY <1>3 DEF TablesSound
  <2>. QED
    BY <2>1 DEF TaskStates
<1>6. task' = [task EXCEPT ![s] = u]
  BY <1>2
<1>. HIDE DEF u
<1>7. /\ task' \in [Slots -> TaskStates] /\ task'[s] = u
      /\ \A r \in Slots : r # s => task'[r] = task[r]
  BY <1>3, <1>5, <1>6 DEF TablesSound
<1>. QED
  BY <1>2, <1>3, <1>4, <1>5, <1>7, MovedSound

\* The tasks the commands and the policy add fit the table.
LEMMA QueuedTaskTypes ==
    ASSUME NEW x \in Nodes
    PROVE  /\ \A c \in Classes, b \in BOOLEAN :
                LET t == DataTask(x, c, b)
                IN  t \in TaskStates /\ t.used /\ t.queued /\ t.enabled /\ t.node = x
           /\ \A f \in Fields, v \in Values :
                LET t == CommandTask(x, f, v)
                IN  t \in TaskStates /\ t.used /\ t.queued /\ t.enabled /\ t.node = x
           /\ LET t == StagedTask(x)
              IN  t \in TaskStates /\ t.used /\ t.queued /\ t.enabled /\ t.node = x
<1>1. NewTask \in TaskStates /\ NewTask.used /\ NewTask.queued /\ NewTask.enabled
  BY NewTaskType
<1>. QED
  BY <1>1 DEF DataTask, CommandTask, StagedTask, TaskStates

\* Every step keeps slots and queues in order.
LEMMA NextTables ==
    ASSUME IInv, [Next]_vars
    PROVE  TablesSound'
<1>. USE DEF IInv
<1>1. ASSUME NEW x \in Nodes, OperatorExchange(x) PROVE TablesSound'
  BY <1>1, AddTaskSound, QueuedTaskTypes DEF OperatorExchange, Control, Classes
<1>2. ASSUME NEW x \in Nodes, NEW f \in Fields, NEW v \in Values, OperatorCmd(x, f, v)
      PROVE  TablesSound'
  BY <1>2, AddTaskSound, QueuedTaskTypes DEF OperatorCmd, Control
<1>3. ASSUME NEW x \in Nodes, OperatorSend(x) PROVE TablesSound'
  BY <1>3, AddTaskSound, QueuedTaskTypes DEF OperatorSend, Control
<1>4. ASSUME NEW x \in Nodes, AddPeriodic(x) PROVE TablesSound'
  <2>1. policy[x] \in Classes
    BY <1>4 DEF AddPeriodic, TickSound, Policies
  <2>. QED
    BY <1>4, <2>1, AddTaskSound, QueuedTaskTypes DEF AddPeriodic, NodeStep
<1>5. ASSUME UNCHANGED <<task, normalQ, priorityQ, active>> PROVE TablesSound'
  BY <1>5 DEF TablesSound, Waits
<1>6. ASSUME NEW x \in Nodes, NEW f \in Fields, NEW v \in Values, OperatorStage(x, f, v)
      PROVE  TablesSound'
  BY <1>5, <1>6 DEF OperatorStage, Control
<1>7. ASSUME NEW x \in Nodes, StayOff(x) PROVE TablesSound'
  BY <1>5, <1>7 DEF StayOff, NodeStep
<1>8. CASE \/ PolicyChange \/ EndControl \/ ScheduleNothing \/ ExchangeContinues
           \/ UNCHANGED vars
  BY <1>5, <1>8 DEF PolicyChange, EndControl, ScheduleNothing, ExchangeContinues,
                    Exchange, vars, queueVars
<1>9. CASE StartNothing
  BY <1>5, <1>9 DEF StartNothing
<1>10. ASSUME NEW r \in Results, ExchangeDone(r) PROVE TablesSound'
  BY <1>5, <1>10 DEF ExchangeDone, Exchange, queueVars
<1>. QED
  BY <1>1, <1>2, <1>3, <1>4, <1>6, <1>7, <1>8, <1>9, <1>10,
     KeepPeriodicSound, CancelPeriodicSound, FinalizeSound, StartSound DEF Next

-------------------------------------------------------------------------------
(* The burst, the tick and the windows *)

\* Every step counts what passes a normal task in the burst.
LEMMA NextBurst ==
    ASSUME IInv, [Next]_vars
    PROVE  BurstSound'
<1>1. /\ BurstLimit \in Nat \ {0}
      /\ burst \in 0 .. BurstLimit /\ bypassed \in 0 .. burst
  BY SchedulerAssumption DEF IInv, BurstSound
<1>2. CASE StartPriority
  <2>1. /\ normalQ = <<>> \/ burst < BurstLimit
        /\ burst' = IF burst < BurstLimit THEN burst + 1 ELSE burst
        /\ bypassed' = IF normalQ = <<>> THEN 0
                       ELSE IF bypassed > BurstLimit THEN bypassed ELSE bypassed + 1
    BY <1>2 DEF StartPriority, PriorityTurn
  <2>. QED
    BY <1>1, <2>1 DEF BurstSound
<1>3. CASE StartNormal \/ StartNothing
  BY <1>1, <1>3 DEF StartNormal, StartNothing, BurstSound
<1>4. ASSUME UNCHANGED <<burst, bypassed>> PROVE BurstSound'
  BY <1>1, <1>4 DEF BurstSound
<1>5. ASSUME NEW x \in Nodes,
             \/ OperatorExchange(x) \/ OperatorSend(x) \/ AddPeriodic(x)
             \/ KeepPeriodic(x) \/ CancelPeriodic(x) \/ StayOff(x)
             \/ \E f \in Fields, v \in Values : OperatorCmd(x, f, v) \/ OperatorStage(x, f, v)
      PROVE  BurstSound'
  BY <1>4, <1>5 DEF OperatorExchange, OperatorSend, OperatorCmd, OperatorStage, Control,
                    AddPeriodic, KeepPeriodic, CancelPeriodic, StayOff, NodeStep, history
<1>6. CASE \/ PolicyChange \/ EndControl \/ ScheduleNothing \/ Finalize
           \/ ExchangeContinues \/ UNCHANGED vars
  BY <1>4, <1>6 DEF PolicyChange, EndControl, ScheduleNothing, Finalize,
                    ExchangeContinues, Exchange, vars, queueVars, history
<1>7. ASSUME NEW r \in Results, ExchangeDone(r) PROVE BurstSound'
  BY <1>4, <1>7 DEF ExchangeDone, Exchange, queueVars
<1>. QED
  BY <1>2, <1>3, <1>5, <1>6, <1>7 DEF Next

\* Every step keeps the tick in order; the bus is busy only for a task.
LEMMA NextTick ==
    ASSUME IInv, [Next]_vars
    PROVE  TickSound'
<1>. USE DEF IInv
<1>1. /\ at \in 1 .. Len(NodeOrder) /\ Len(NodeOrder) \in Nat \ {0}
      /\ PolicySet \subseteq Policies
  BY SchedulerAssumption DEF TickSound
<1>2. ASSUME NEW x \in Nodes,
             \/ OperatorExchange(x) \/ OperatorSend(x)
             \/ \E f \in Fields, v \in Values : OperatorCmd(x, f, v) \/ OperatorStage(x, f, v)
      PROVE  TickSound'
  <2>1. Control(x)
    BY <1>2 DEF OperatorExchange, OperatorSend, OperatorCmd, OperatorStage
  <2>2. UNCHANGED policy
    BY <1>2 DEF OperatorExchange, OperatorSend, OperatorCmd, OperatorStage
  <2>. QED
    BY <2>1, <2>2 DEF Control, TickSound, busVars, tickVars
<1>3. ASSUME NEW x \in Nodes, NodeStep(x) PROVE TickSound'
  <2>1. at' \in 1 .. Len(NodeOrder)
    BY <1>1, <1>3 DEF NodeStep, LastNode
  <2>. QED
    BY <1>3, <2>1 DEF NodeStep, TickSound, busVars
<1>4. ASSUME NEW x \in Nodes,
             AddPeriodic(x) \/ KeepPeriodic(x) \/ CancelPeriodic(x) \/ StayOff(x)
      PROVE  TickSound'
  BY <1>3, <1>4 DEF AddPeriodic, KeepPeriodic, CancelPeriodic, StayOff
<1>5. CASE PolicyChange
  <2>1. policy' \in [Nodes -> Policies]
    BY <1>1, <1>5 DEF PolicyChange
  <2>. QED
    BY <1>5, <2>1 DEF PolicyChange, TickSound, queueVars, busVars, tickVars
<1>6. CASE EndControl
  <2>1. 1 \in 1 .. Len(NodeOrder)
    BY <1>1
  <2>. QED
    BY <1>6, <2>1 DEF EndControl, TickSound, queueVars, busVars
<1>7. ASSUME ScheduleNothing \/ Finalize \/ StartNothing PROVE TickSound'
  <2>1. CASE ScheduleNothing
    BY <2>1 DEF ScheduleNothing, Schedule, TickSound, queueVars, busVars
  <2>2. CASE Finalize
    BY <2>2 DEF Finalize, Schedule, TickSound
  <2>3. CASE StartNothing
    BY <2>3 DEF StartNothing, Idle, Schedule, TickSound, busVars
  <2>. QED
    BY <1>7, <2>1, <2>2, <2>3
<1>8. CASE StartPriority \/ StartNormal
  <2>1. PICK s \in Slots : Start(s)
    BY <1>8, TailQueue DEF StartPriority, StartNormal, PriorityTurn, TablesSound
  <2>. QED
    BY <2>1 DEF Start, Idle, Schedule, Arm, TickSound, NoSlot, Slots
<1>9. CASE ExchangeContinues
  BY <1>9 DEF ExchangeContinues, Exchange, TickSound, queueVars, busVars
<1>10. ASSUME NEW r \in Results, ExchangeDone(r) PROVE TickSound'
  BY <1>10 DEF ExchangeDone, Exchange, TickSound, queueVars
<1>11. CASE UNCHANGED vars
  BY <1>11 DEF TickSound, vars, queueVars, busVars, tickVars
<1>. QED
  BY <1>2, <1>4, <1>5, <1>6, <1>7, <1>8, <1>9, <1>10, <1>11 DEF Next

\* prepare_command_exchange writes the buffer and clears one window.
LEMMA ArmWindows ==
    ASSUME IInv, NEW s \in Slots, task[s].used, Arm(s)
    PROVE  WindowsSound'
<1>. DEFINE t == task[s]
            x == t.node
            wanted == IF t.staged THEN msgCmd[x]
                      ELSE [msgCmd[x] EXCEPT ![t.field] = t.value]
<1>1. t \in TaskStates /\ x \in Nodes /\ t.value \in Values
  BY DEF IInv, TablesSound, TaskStates
<1>2. /\ msgCmd \in [Nodes -> Windows] /\ buf \in Windows
      /\ saved \in [Nodes -> Windows] /\ Empty \in Windows
  BY EmptyWindow DEF IInv, WindowsSound
<1>3. wanted \in Windows
  BY <1>1, <1>2 DEF Windows
<1>4. /\ IF t.kind = "command"
         THEN /\ buf' = [f \in Fields |->
                           IF ~Within(x, f) THEN buf[f]
                           ELSE IF wanted[f] # 0 THEN wanted[f]
                           ELSE Loaded(x, f)]
              /\ msgCmd' = [msgCmd EXCEPT ![x] = Empty]
         ELSE UNCHANGED <<buf, msgCmd>>
      /\ UNCHANGED <<saved, last, lastStaged, open>>
  BY DEF Arm
<1>. HIDE DEF t, wanted
<1>5. buf' \in Windows
  BY <1>1, <1>2, <1>3, <1>4 DEF Windows, Loaded
<1>6. msgCmd' \in [Nodes -> Windows]
  BY <1>1, <1>2, <1>4
<1>. QED
  BY <1>4, <1>5, <1>6 DEF IInv, WindowsSound

\* cmd and stagecmd write one field.
LEMMA CommandWindows ==
    ASSUME IInv, NEW x \in Nodes, NEW f \in Fields, NEW v \in Values
    PROVE  /\ OperatorCmd(x, f, v) => WindowsSound'
           /\ OperatorStage(x, f, v) => WindowsSound'
<1>1. 0 \in Values
  BY EmptyWindow
<1>2. ASSUME NEW w \in [Nodes -> Windows], NEW u \in Values
      PROVE  [w EXCEPT ![x][f] = u] \in [Nodes -> Windows]
  BY DEF Windows
<1>3. [open EXCEPT ![x] = @ \cup {<<f, v>>}] \in [Nodes -> SUBSET (Fields \X Values)]
  BY DEF IInv, WindowsSound
<1>4. ASSUME OperatorCmd(x, f, v) PROVE WindowsSound'
  <2>1. /\ UNCHANGED <<buf, saved, msgCmd>>
        /\ last' \in {last, [last EXCEPT ![x][f] = v]}
        /\ lastStaged' \in {lastStaged, [lastStaged EXCEPT ![x][f] = 0]}
        /\ open' \in {open, [open EXCEPT ![x] = @ \cup {<<f, v>>}]}
    BY <1>4 DEF OperatorCmd, Control
  <2>2. /\ msgCmd' \in [Nodes -> Windows]
        /\ last' \in [Nodes -> Windows]
        /\ lastStaged' \in [Nodes -> Windows]
    BY <1>1, <1>2, <2>1 DEF IInv, WindowsSound
  <2>. QED
    BY <1>3, <2>1, <2>2 DEF IInv, WindowsSound
<1>5. ASSUME OperatorStage(x, f, v) PROVE WindowsSound'
  <2>1. /\ UNCHANGED <<buf, saved>>
        /\ msgCmd' = [msgCmd EXCEPT ![x][f] = v]
        /\ last' \in {last, [last EXCEPT ![x][f] = 0]}
        /\ lastStaged' \in {[lastStaged EXCEPT ![x][f] = 0], [lastStaged EXCEPT ![x][f] = v]}
        /\ open' \in {open, [open EXCEPT ![x] = @ \cup {<<f, v>>}]}
    BY <1>5 DEF OperatorStage, Control
  <2>2. /\ msgCmd' \in [Nodes -> Windows]
        /\ last' \in [Nodes -> Windows]
        /\ lastStaged' \in [Nodes -> Windows]
    <3>1. msgCmd \in [Nodes -> Windows] /\ last \in [Nodes -> Windows]
          /\ lastStaged \in [Nodes -> Windows]
      BY DEF IInv, WindowsSound
    <3>2. msgCmd' \in [Nodes -> Windows]
      BY <1>2, <2>1, <3>1
    <3>3. last' \in [Nodes -> Windows]
      BY <1>1, <1>2, <2>1, <3>1
    <3>4. lastStaged' \in [Nodes -> Windows]
      BY <1>1, <1>2, <2>1, <3>1
    <3>. QED
      BY <3>2, <3>3, <3>4
  <2>. QED
    BY <1>3, <2>1, <2>2 DEF IInv, WindowsSound
<1>. QED
  BY <1>4, <1>5

\* finalize_active_task clears or saves the window of the task's node.
LEMMA FinalizeWindows ==
    ASSUME IInv, Finalize
    PROVE  WindowsSound'
<1>. DEFINE x == task[active].node
<1>1. x \in Nodes
  BY DEF Finalize, IInv, TablesSound
<1>2. /\ msgCmd \in [Nodes -> Windows] /\ buf \in Windows
      /\ saved \in [Nodes -> Windows] /\ Empty \in Windows /\ 0 \in Values
  BY EmptyWindow DEF IInv, WindowsSound
<1>. DEFINE cleared == [f \in Fields |-> IF Within(x, f) THEN 0 ELSE buf[f]]
            kept == [f \in Fields |-> IF Within(x, f) THEN buf[f] ELSE saved[x][f]]
<1>3. cleared \in Windows /\ kept \in Windows
  BY <1>1, <1>2 DEF Windows
<1>4. /\ msgCmd' \in {msgCmd, [msgCmd EXCEPT ![x] = Empty]}
      /\ buf' \in {buf, cleared}
      /\ saved' \in {saved, [saved EXCEPT ![x] = Empty], [saved EXCEPT ![x] = kept]}
      /\ UNCHANGED <<last, lastStaged, open>>
  BY <1>1, <1>2 DEF Finalize, cmdVars, history
<1>. HIDE DEF x, cleared, kept
<1>. QED
  BY <1>1, <1>2, <1>3, <1>4 DEF IInv, WindowsSound

\* A result settles commands of the task's node only.
LEMMA DoneWindows ==
    ASSUME IInv, NEW r \in Results, ExchangeDone(r)
    PROVE  WindowsSound'
<1>. DEFINE x == task[active].node
            settled(w) == [f \in Fields |-> IF <<f, w[x][f]>> \in Delivered(x) THEN 0 ELSE w[x][f]]
<1>1. x \in Nodes
  BY DEF ExchangeDone, IInv, TablesSound, TickSound
<1>2. /\ last \in [Nodes -> Windows] /\ lastStaged \in [Nodes -> Windows]
      /\ open \in [Nodes -> SUBSET (Fields \X Values)] /\ 0 \in Values
  BY EmptyWindow DEF IInv, WindowsSound
<1>3. /\ last' \in {last, [last EXCEPT ![x] = settled(last)]}
      /\ lastStaged' \in {lastStaged, [lastStaged EXCEPT ![x] = settled(lastStaged)]}
      /\ open' \in {open, [open EXCEPT ![x] = @ \ (Delivered(x) \cup Settled(x))]}
      /\ UNCHANGED <<msgCmd, buf, saved>>
  BY <1>1, <1>2 DEF ExchangeDone, Exchange, cmdVars
<1>4. ASSUME NEW w \in [Nodes -> Windows] PROVE settled(w) \in Windows
  BY <1>1, <1>2 DEF Windows
<1>. HIDE DEF x, settled
<1>5. last' \in [Nodes -> Windows] /\ lastStaged' \in [Nodes -> Windows]
  BY <1>1, <1>2, <1>3, <1>4
<1>6. open' \in [Nodes -> SUBSET (Fields \X Values)]
  BY <1>1, <1>2, <1>3
<1>. QED
  BY <1>3, <1>5, <1>6 DEF IInv, WindowsSound

\* Every step keeps the windows of all nodes well typed.
LEMMA NextWindows ==
    ASSUME IInv, [Next]_vars
    PROVE  WindowsSound'
<1>1. ASSUME UNCHANGED <<msgCmd, buf, saved, last, lastStaged, open>>
      PROVE  WindowsSound'
  BY <1>1 DEF IInv, WindowsSound
<1>2. ASSUME NEW x \in Nodes, OperatorExchange(x) \/ OperatorSend(x)
      PROVE  WindowsSound'
  BY <1>1, <1>2 DEF OperatorExchange, OperatorSend, Control
<1>3. ASSUME NEW x \in Nodes,
             AddPeriodic(x) \/ KeepPeriodic(x) \/ CancelPeriodic(x) \/ StayOff(x)
      PROVE  WindowsSound'
  <2>1. NodeStep(x)
    BY <1>3 DEF AddPeriodic, KeepPeriodic, CancelPeriodic, StayOff
  <2>. QED
    BY <1>1, <2>1 DEF NodeStep, cmdVars, history
<1>4. CASE PolicyChange \/ EndControl \/ ScheduleNothing \/ UNCHANGED vars
  BY <1>1, <1>4 DEF PolicyChange, EndControl, ScheduleNothing, vars, cmdVars, history
<1>5. CASE StartNothing \/ ExchangeContinues
  BY <1>1, <1>5 DEF StartNothing, ExchangeContinues, Exchange, cmdVars
<1>6. CASE StartPriority \/ StartNormal
  <2>1. PICK s \in Slots : task[s].used /\ Arm(s)
    BY <1>6, TailQueue DEF StartPriority, StartNormal, PriorityTurn, Start, MayRun,
                           IInv, TablesSound
  <2>. QED
    BY <2>1, ArmWindows
<1>. QED
  BY <1>2, <1>3, <1>4, <1>5, <1>6, CommandWindows, FinalizeWindows, DoneWindows DEF Next

\* The invariant is inductive.
LEMMA NextInvariant == IInv /\ [Next]_vars => IInv'
  BY NextTables, NextBurst, NextTick, NextWindows DEF IInv

-------------------------------------------------------------------------------
(* The policy of the tick *)

\* The node has had its step in this tick.
Stepped(x) ==
    \/ phase = "schedule"
    \/ phase = "nodes" /\ \E i \in 1 .. Len(NodeOrder) : i < at /\ NodeOrder[i] = x

\* The nodes whose step found them switched off: all that can have freed a
\* slot since the step of another node.
OffStepped == {x \in Nodes : Stepped(x) /\ policy[x] = "off"}

\* At most one periodic task per node; behind the step of a node, that of its
\* policy, or none when the table was full.
OnePeriodic == \A x \in Nodes : \A s, r \in PeriodicOf(x) : s = r

SteppedSound ==
    \A x \in Nodes : Stepped(x) =>
        /\ policy[x] = "off" => PeriodicOf(x) = {}
        /\ \A s \in PeriodicOf(x) : task[s].class = policy[x]
        /\ policy[x] # "off" /\ PeriodicOf(x) = {} =>
               Cardinality(FreeSlots) <= Cardinality(OffStepped)

PolicyInv == OnePeriodic /\ SteppedSound

\* The nodes and the slots can be counted: the order of a tick names every
\* node.
LEMMA Countable ==
    /\ IsFiniteSet(Nodes)
    /\ IsFiniteSet(FreeSlots) /\ Cardinality(FreeSlots) \in Nat
    /\ IsFiniteSet(OffStepped) /\ Cardinality(OffStepped) \in Nat
<1>1. IsFiniteSet(Nodes)
  <2>1. NodeOrder \in Surjection(1 .. Len(NodeOrder), Nodes)
    BY SchedulerAssumption DEF Surjection
  <2>2. IsFiniteSet(1 .. Len(NodeOrder))
    BY SchedulerAssumption, FS_Interval
  <2>. QED
    BY <2>1, <2>2, FS_Surjection
<1>2. IsFiniteSet(Slots)
  BY SchedulerAssumption, FS_Interval DEF Slots
<1>3. FreeSlots \subseteq Slots /\ OffStepped \subseteq Nodes
  BY DEF FreeSlots, OffStepped
<1>. QED
  BY <1>1, <1>2, <1>3, FS_Subset, FS_CardinalityType

\* The invariant implies what the runs check: of the nodes, at least the one
\* without its task was not switched off.
LEMMA PolicyHolds == IInv /\ PolicyInv => PolicyFollowed
<1>. SUFFICES ASSUME IInv, PolicyInv, phase = "schedule", NEW x \in Nodes
              PROVE  /\ policy[x] = "off" => PeriodicOf(x) = {}
                     /\ \A s, r \in PeriodicOf(x) : s = r /\ task[s].class = policy[x]
                     /\ policy[x] # "off" /\ PeriodicOf(x) = {} =>
                            Cardinality(FreeSlots) < Cardinality(Nodes)
  BY DEF PolicyFollowed
<1>1. Stepped(x)
  BY DEF Stepped
<1>2. ASSUME policy[x] # "off", PeriodicOf(x) = {}
      PROVE  Cardinality(FreeSlots) < Cardinality(Nodes)
  <2>1. Cardinality(FreeSlots) <= Cardinality(OffStepped)
    BY <1>1, <1>2 DEF PolicyInv, SteppedSound
  <2>2. OffStepped \in SUBSET Nodes /\ OffStepped # Nodes
    BY <1>2 DEF OffStepped
  <2>3. /\ Cardinality(OffStepped) <= Cardinality(Nodes)
        /\ Cardinality(OffStepped) # Cardinality(Nodes)
    BY <2>2, Countable, FS_Subset
  <2>4. Cardinality(Nodes) \in Nat
    BY Countable, FS_CardinalityType
  <2>. QED
    BY <2>1, <2>3, <2>4, Countable
<1>. QED
  BY <1>1, <1>2 DEF PolicyInv, OnePeriodic, SteppedSound

\* Nothing runs at the start.
LEMMA InitPolicy == Init => PolicyInv
  BY NewTaskType DEF Init, PolicyInv, OnePeriodic, SteppedSound, Stepped, PeriodicOf

\* A step that adds no periodic task and leaves the nodes' part of the tick.
LEMMA NoneAdded ==
    ASSUME PolicyInv, \A x \in Nodes : PeriodicOf(x)' \subseteq PeriodicOf(x),
           \A x \in Nodes : ~Stepped(x)'
    PROVE  PolicyInv'
  BY DEF PolicyInv, OnePeriodic, SteppedSound

\* A task is added that is not periodic.
LEMMA AddNotPeriodic ==
    ASSUME IInv, NEW t \in TaskStates, ~t.periodic, AddTask(t)
    PROVE  \A x \in Nodes : PeriodicOf(x)' \subseteq PeriodicOf(x)
<1>1. CASE FreeSlots = {}
  BY <1>1 DEF AddTask, PeriodicOf
<1>2. CASE FreeSlots # {}
  <2>1. PICK s \in Slots : task' = [task EXCEPT ![s] = t]
    BY <1>2, FirstFreeIsFree DEF AddTask, FreeSlots
  <2>2. task'[s] = t /\ \A r \in Slots : r # s => task'[r] = task[r]
    BY <2>1 DEF IInv, TablesSound
  <2>. QED
    BY <2>2 DEF PeriodicOf
<1>. QED
  BY <1>1, <1>2

\* The step of a node adds the node to those that had theirs.
LEMMA StepCounts ==
    ASSUME IInv, NEW x \in Nodes, NodeStep(x)
    PROVE  /\ \A y \in Nodes : Stepped(y)' <=> Stepped(y) \/ y = x
           /\ UNCHANGED policy
<1>1. /\ phase = "nodes" /\ x = NodeOrder[at] /\ UNCHANGED policy
      /\ phase' = IF at = Len(NodeOrder) THEN "schedule" ELSE "nodes"
      /\ at' = IF at = Len(NodeOrder) THEN 1 ELSE at + 1
      /\ at \in 1 .. Len(NodeOrder) /\ Len(NodeOrder) \in Nat
  BY SchedulerAssumption DEF NodeStep, LastNode, IInv, TickSound
<1>2. CASE at = Len(NodeOrder)
  <2>1. ASSUME NEW y \in Nodes PROVE Stepped(y) \/ y = x
    <3>1. PICK i \in 1 .. Len(NodeOrder) : NodeOrder[i] = y
      BY SchedulerAssumption
    <3>. QED
      BY <1>1, <1>2, <3>1 DEF Stepped
  <2>2. phase' = "schedule"
    BY <1>1, <1>2
  <2>. QED
    BY <1>1, <2>1, <2>2 DEF Stepped
<1>3. CASE at # Len(NodeOrder)
  <2>1. ASSUME NEW i \in 1 .. Len(NodeOrder) PROVE i < at' <=> i < at \/ i = at
    BY <1>1, <1>3
  <2>. QED
    BY <1>1, <1>3, <2>1 DEF Stepped
<1>. QED
  BY <1>1, <1>2, <1>3

\* What the step of a node owes the others: their tasks as they were, and no
\* free slot that is not counted.
LEMMA StepKeepsPolicy ==
    ASSUME IInv, PolicyInv, NEW x \in Nodes, NodeStep(x),
           \A y \in Nodes \ {x} : /\ PeriodicOf(y)' = PeriodicOf(y)
                                  /\ \A s \in PeriodicOf(y) : task'[s].class = task[s].class,
           \A s, r \in PeriodicOf(x)' : s = r /\ task'[s].class = policy[x],
           policy[x] = "off" => PeriodicOf(x)' = {},
           policy[x] # "off" /\ PeriodicOf(x)' = {} => FreeSlots' = {},
           \/ FreeSlots' \subseteq FreeSlots
           \/ /\ policy[x] = "off" /\ PeriodicOf(x) # {}
              /\ \E s : FreeSlots' = FreeSlots \cup {s}
    PROVE  PolicyInv'
<1>1. /\ \A y \in Nodes : Stepped(y)' <=> Stepped(y) \/ y = x
      /\ UNCHANGED policy
  BY StepCounts
<1>2. OffStepped' = IF policy[x] = "off" THEN OffStepped \cup {x} ELSE OffStepped
  BY <1>1 DEF OffStepped
<1>3. /\ Cardinality(OffStepped) \in Nat /\ Cardinality(OffStepped') \in Nat
      /\ Cardinality(FreeSlots) \in Nat /\ Cardinality(FreeSlots') \in Nat
      /\ Cardinality(OffStepped) <= Cardinality(OffStepped')
      /\ policy[x] = "off" /\ x \notin OffStepped =>
            Cardinality(OffStepped') = Cardinality(OffStepped) + 1
  <2>1. IsFiniteSet(OffStepped) /\ IsFiniteSet(FreeSlots)
    BY Countable
  <2>2. IsFiniteSet(OffStepped \cup {x}) /\ Cardinality(OffStepped \cup {x}) =
            IF x \in OffStepped THEN Cardinality(OffStepped) ELSE Cardinality(OffStepped) + 1
    BY <2>1, FS_AddElement
  <2>3. Cardinality(OffStepped) \in Nat /\ Cardinality(FreeSlots) \in Nat
    BY Countable
  <2>4. IsFiniteSet(FreeSlots')
    <3>1. ASSUME NEW s PROVE IsFiniteSet(FreeSlots \cup {s})
      BY <2>1, FS_AddElement
    <3>. QED
      BY <2>1, <3>1, FS_Subset
  <2>. QED
    BY <1>2, <2>2, <2>3, <2>4, FS_CardinalityType
<1>4. \/ Cardinality(FreeSlots') <= Cardinality(FreeSlots)
      \/ /\ policy[x] = "off" /\ x \notin OffStepped
         /\ Cardinality(FreeSlots') <= Cardinality(FreeSlots) + 1
  <2>1. CASE FreeSlots' \subseteq FreeSlots
    BY <2>1, Countable, FS_Subset
  <2>2. CASE policy[x] = "off" /\ PeriodicOf(x) # {} /\ \E s : FreeSlots' = FreeSlots \cup {s}
    <3>1. x \notin OffStepped
      BY <2>2 DEF OffStepped, PolicyInv, SteppedSound
    <3>2. PICK s : FreeSlots' = FreeSlots \cup {s}
      BY <2>2
    <3>3. Cardinality(FreeSlots \cup {s}) \in {Cardinality(FreeSlots), Cardinality(FreeSlots) + 1}
      BY Countable, FS_AddElement
    <3>4. Cardinality(FreeSlots') \in {Cardinality(FreeSlots), Cardinality(FreeSlots) + 1}
      BY <3>2, <3>3
    <3>5. Cardinality(FreeSlots) \in Nat
      BY Countable
    <3>6. Cardinality(FreeSlots') <= Cardinality(FreeSlots) + 1
      BY <3>4, <3>5
    <3>. QED
      BY <2>2, <3>1, <3>6
  <2>. QED
    BY <2>1, <2>2
<1>5. OnePeriodic'
  <2>1. ASSUME NEW y \in Nodes \ {x} PROVE \A s, r \in PeriodicOf(y)' : s = r
    BY DEF PolicyInv, OnePeriodic
  <2>. QED
    BY <2>1 DEF OnePeriodic
<1>6. ASSUME NEW y \in Nodes, Stepped(y)'
      PROVE  /\ policy'[y] = "off" => PeriodicOf(y)' = {}
             /\ \A s \in PeriodicOf(y)' : task'[s].class = policy'[y]
             /\ policy'[y] # "off" /\ PeriodicOf(y)' = {} =>
                    Cardinality(FreeSlots') <= Cardinality(OffStepped')
  <2>1. CASE y = x
    <3>1. Cardinality({}) = 0
      BY FS_EmptySet
    <3>. QED
      BY <1>1, <1>3, <2>1, <3>1
  <2>2. CASE y # x
    <3>1. /\ Stepped(y) /\ PeriodicOf(y)' = PeriodicOf(y)
          /\ \A s \in PeriodicOf(y) : task'[s].class = task[s].class
      BY <1>1, <1>6, <2>2
    <3>2. /\ policy[y] = "off" => PeriodicOf(y) = {}
          /\ \A s \in PeriodicOf(y) : task[s].class = policy[y]
          /\ policy[y] # "off" /\ PeriodicOf(y) = {} =>
                 Cardinality(FreeSlots) <= Cardinality(OffStepped)
      BY <3>1 DEF PolicyInv, SteppedSound
    <3>3. policy[y] # "off" /\ PeriodicOf(y) = {} =>
                 Cardinality(FreeSlots') <= Cardinality(OffStepped')
      BY <1>3, <1>4, <3>2
    <3>. QED
      BY <1>1, <3>1, <3>2, <3>3
  <2>. QED
    BY <2>1, <2>2
<1>7. SteppedSound'
  BY <1>6 DEF SteppedSound
<1>. QED
  BY <1>5, <1>7 DEF PolicyInv


\* ensure_periodic_exchange adds the task a node lacks, if there is room.
LEMMA AddKeepsPolicy ==
    ASSUME IInv, PolicyInv, NEW x \in Nodes, AddPeriodic(x)
    PROVE  PolicyInv'
<1>. DEFINE t == DataTask(x, policy[x], TRUE)
<1>1. /\ NodeStep(x) /\ policy[x] # "off" /\ PeriodicOf(x) = {} /\ AddTask(t)
      /\ policy[x] \in Classes
  BY DEF AddPeriodic, IInv, TickSound, Policies
<1>2. t \in TaskStates /\ t.node = x /\ t.used
  BY <1>1, QueuedTaskTypes
<1>3. t.class = policy[x]
  BY DEF DataTask, NewTask, FreeTask
<1>. HIDE DEF t
<1>4. CASE FreeSlots = {}
  <2>1. UNCHANGED task
    BY <1>1, <1>4 DEF AddTask
  <2>2. FreeSlots' = FreeSlots /\ \A y \in Nodes : PeriodicOf(y)' = PeriodicOf(y)
    BY <2>1 DEF FreeSlots, PeriodicOf
  <2>. QED
    BY <1>1, <1>4, <2>1, <2>2, StepKeepsPolicy
<1>5. CASE FreeSlots # {}
  <2>1. PICK s \in Slots : ~task[s].used /\ task' = [task EXCEPT ![s] = t]
    BY <1>1, <1>5, FirstFreeIsFree DEF AddTask, FreeSlots
  <2>2. task'[s] = t /\ \A r \in Slots : r # s => task'[r] = task[r]
    BY <2>1 DEF IInv, TablesSound
  <2>3. /\ FreeSlots' \subseteq FreeSlots
        /\ \A y \in Nodes \ {x} : PeriodicOf(y)' = PeriodicOf(y) /\ s \notin PeriodicOf(y)
        /\ PeriodicOf(x)' \subseteq {s}
    BY <1>1, <1>2, <2>1, <2>2 DEF FreeSlots, PeriodicOf
  <2>4. \A y \in Nodes \ {x} : \A r \in PeriodicOf(y) : task'[r].class = task[r].class
    BY <2>2, <2>3 DEF PeriodicOf
  <2>5. s \in PeriodicOf(x)'
    <3>1. t.periodic /\ t.kind = "data"
      BY DEF t, DataTask, NewTask, FreeTask
    <3>. QED
      BY <1>2, <2>2, <3>1 DEF PeriodicOf
  <2>6. \A r, u \in PeriodicOf(x)' : r = u /\ task'[r].class = policy[x]
    BY <1>3, <2>2, <2>3
  <2>. QED
    BY <1>1, <2>3, <2>4, <2>5, <2>6, StepKeepsPolicy
<1>. QED
  BY <1>4, <1>5

\* ensure_periodic_exchange moves the task a node has to the queue wanted.
LEMMA KeepKeepsPolicy ==
    ASSUME IInv, PolicyInv, NEW x \in Nodes, KeepPeriodic(x)
    PROVE  PolicyInv'
<1>1. PICK s \in PeriodicOf(x) :
        task' = [task EXCEPT ![s].enabled = TRUE, ![s].class = policy[x],
                             ![s].queued = IF task[s].class = policy[x]
                                           THEN @ ELSE s # active]
  BY DEF KeepPeriodic
<1>2. NodeStep(x) /\ policy[x] # "off" /\ s \in Slots /\ task[s] \in TaskStates
  BY DEF KeepPeriodic, PeriodicOf, IInv, TablesSound
<1>3. /\ task'[s].used = task[s].used /\ task'[s].kind = task[s].kind
      /\ task'[s].periodic = task[s].periodic /\ task'[s].node = task[s].node
      /\ task'[s].class = policy[x]
      /\ \A r \in Slots : r # s => task'[r] = task[r]
  BY <1>1, <1>2 DEF TaskStates, IInv, TablesSound
<1>4. FreeSlots' = FreeSlots /\ \A y \in Nodes : PeriodicOf(y)' = PeriodicOf(y)
  BY <1>2, <1>3 DEF FreeSlots, PeriodicOf
<1>5. \A y \in Nodes \ {x} : \A r \in PeriodicOf(y) : task'[r].class = task[r].class
  BY <1>1, <1>3 DEF PeriodicOf
<1>6. \A r, u \in PeriodicOf(x)' : r = u /\ task'[r].class = policy[x]
  BY <1>3, <1>4 DEF PolicyInv, OnePeriodic
<1>. QED
  BY <1>2, <1>4, <1>5, <1>6, StepKeepsPolicy

\* cancel_periodic_exchange: whether the task waits or runs, it is no longer
\* the periodic task of its node.
LEMMA CancelKeepsPolicy ==
    ASSUME IInv, PolicyInv, NEW x \in Nodes, CancelPeriodic(x)
    PROVE  PolicyInv'
<1>1. PICK s \in PeriodicOf(x) :
        task' = [task EXCEPT ![s] = IF s = active THEN Cancelled(task[s]) ELSE FreeTask]
  BY DEF CancelPeriodic
<1>2. /\ NodeStep(x) /\ policy[x] = "off" /\ s \in Slots /\ task[s] \in TaskStates
      /\ task[s].used /\ task[s].node = x
  BY DEF CancelPeriodic, PeriodicOf, IInv, TablesSound
<1>3. /\ ~(task'[s].used /\ task'[s].periodic)
      /\ \A r \in Slots : r # s => task'[r] = task[r]
  <2>1. ~Cancelled(task[s]).periodic /\ ~FreeTask.used
    BY <1>2, NewTaskType DEF Cancelled, TaskStates
  <2>. QED
    BY <1>1, <1>2, <2>1 DEF IInv, TablesSound
<1>4. \A y \in Nodes \ {x} : /\ PeriodicOf(y)' = PeriodicOf(y)
                            /\ \A r \in PeriodicOf(y) : task'[r].class = task[r].class
  BY <1>2, <1>3 DEF PeriodicOf
<1>5. PeriodicOf(x)' = {}
  <2>1. ASSUME NEW r \in PeriodicOf(x)' PROVE FALSE
    <3>1. r \in Slots /\ r # s /\ r \in PeriodicOf(x)
      BY <1>3 DEF PeriodicOf
    <3>. QED
      BY <3>1 DEF PolicyInv, OnePeriodic
  <2>. QED
    BY <2>1
<1>6. FreeSlots' \subseteq FreeSlots \/ \E r : FreeSlots' = FreeSlots \cup {r}
  <2>1. FreeSlots' \in {FreeSlots, FreeSlots \cup {s}}
    BY <1>2, <1>3 DEF FreeSlots
  <2>. QED
    BY <2>1
<1>7. PeriodicOf(x) # {}
  OBVIOUS
<1>. QED
  BY <1>2, <1>4, <1>5, <1>6, <1>7, StepKeepsPolicy

\* A node without policy and task is left alone.
LEMMA StayKeepsPolicy ==
    ASSUME IInv, PolicyInv, NEW x \in Nodes, StayOff(x)
    PROVE  PolicyInv'
<1>1. NodeStep(x) /\ policy[x] = "off" /\ PeriodicOf(x) = {} /\ UNCHANGED task
  BY DEF StayOff
<1>2. FreeSlots' = FreeSlots /\ \A y \in Nodes : PeriodicOf(y)' = PeriodicOf(y)
  BY <1>1 DEF FreeSlots, PeriodicOf
<1>. QED
  BY <1>1, <1>2, StepKeepsPolicy

\* Every step keeps to the policy.
LEMMA NextPolicy ==
    ASSUME IInv, PolicyInv, [Next]_vars
    PROVE  PolicyInv'
<1>1. ASSUME NEW x \in Nodes, OperatorExchange(x) \/ OperatorSend(x)
                \/ \E f \in Fields, v \in Values : OperatorCmd(x, f, v)
      PROVE  PolicyInv'
  <2>1. PICK t \in TaskStates : ~t.periodic /\ AddTask(t)
    <3>1. CASE OperatorExchange(x)
      <4>1. ~DataTask(x, "normal", FALSE).periodic
        BY DEF DataTask, NewTask, FreeTask
      <4>. QED
        BY <3>1, <4>1, QueuedTaskTypes DEF OperatorExchange, Classes
    <3>2. CASE OperatorSend(x)
      <4>1. ~StagedTask(x).periodic
        BY DEF StagedTask, NewTask, FreeTask
      <4>. QED
        BY <3>2, <4>1, QueuedTaskTypes DEF OperatorSend
    <3>3. CASE \E f \in Fields, v \in Values : OperatorCmd(x, f, v)
      <4>1. PICK f \in Fields, v \in Values : OperatorCmd(x, f, v)
        BY <3>3
      <4>2. ~CommandTask(x, f, v).periodic
        BY DEF CommandTask, NewTask, FreeTask
      <4>. QED
        BY <4>1, <4>2, QueuedTaskTypes DEF OperatorCmd
    <3>. QED
      BY <1>1, <3>1, <3>2, <3>3
  <2>2. phase = "control" /\ UNCHANGED phase
    BY <1>1 DEF OperatorExchange, OperatorSend, OperatorCmd, Control, tickVars
  <2>. QED
    BY <2>1, <2>2, AddNotPeriodic, NoneAdded DEF Stepped
<1>2. ASSUME UNCHANGED task,
             phase' = "control" \/ phase' = "exchange" \/ (phase' = "nodes" /\ at' = 1)
      PROVE  PolicyInv'
  <2>1. \A x \in Nodes : ~Stepped(x)'
    BY <1>2, SchedulerAssumption DEF Stepped
  <2>2. \A x \in Nodes : PeriodicOf(x)' = PeriodicOf(x)
    BY <1>2 DEF PeriodicOf
  <2>. QED
    BY <2>1, <2>2, NoneAdded
<1>3. ASSUME NEW x \in Nodes, NEW f \in Fields, NEW v \in Values, OperatorStage(x, f, v)
      PROVE  PolicyInv'
  <2>1. UNCHANGED task /\ phase' = "control"
    BY <1>3 DEF OperatorStage, Control, tickVars
  <2>. QED
    BY <1>2, <2>1
<1>4. CASE PolicyChange \/ EndControl \/ ScheduleNothing \/ StartNothing \/ ExchangeContinues
  <2>1. /\ UNCHANGED task
        /\ phase' = "control" \/ phase' = "exchange" \/ (phase' = "nodes" /\ at' = 1)
    BY <1>4 DEF PolicyChange, EndControl, ScheduleNothing, StartNothing, Idle, Schedule,
                ExchangeContinues, Exchange, queueVars, tickVars
  <2>. QED
    BY <1>2, <2>1
<1>5. ASSUME NEW r \in Results, ExchangeDone(r) PROVE PolicyInv'
  <2>1. UNCHANGED task /\ phase' = "control"
    BY <1>5 DEF ExchangeDone, Exchange, queueVars
  <2>. QED
    BY <1>2, <2>1
<1>6. CASE Finalize \/ StartPriority \/ StartNormal
  <2>1. phase' = "exchange"
    BY <1>6 DEF Finalize, StartPriority, StartNormal, Start, Idle, Schedule
  <2>2. PICK s \in Slots :
          \/ task' = [task EXCEPT ![s] = FreeTask]
          \/ \E b \in BOOLEAN : task' = [task EXCEPT ![s].queued = b]
    <3>1. CASE Finalize
      BY <3>1 DEF Finalize, IInv, TablesSound
    <3>2. CASE StartPriority \/ StartNormal
      BY <3>2, TailQueue DEF StartPriority, StartNormal, PriorityTurn, Start, IInv, TablesSound
    <3>. QED
      BY <1>6, <3>1, <3>2
  <2>3. /\ \A r \in Slots : r # s => task'[r] = task[r]
        /\ \/ task'[s] = FreeTask
           \/ /\ task'[s].used = task[s].used /\ task'[s].kind = task[s].kind
              /\ task'[s].periodic = task[s].periodic /\ task'[s].node = task[s].node
    BY <2>2 DEF IInv, TablesSound, TaskStates
  <2>4. \A x \in Nodes : PeriodicOf(x)' \subseteq PeriodicOf(x)
    BY <2>3, NewTaskType DEF PeriodicOf
  <2>. QED
    BY <2>1, <2>4, NoneAdded DEF Stepped
<1>7. CASE UNCHANGED vars
  <2>1. UNCHANGED <<task, policy, phase, at>>
    BY <1>7 DEF vars, queueVars, tickVars
  <2>2. /\ FreeSlots' = FreeSlots /\ OffStepped' = OffStepped
        /\ \A x \in Nodes : PeriodicOf(x)' = PeriodicOf(x) /\ (Stepped(x)' <=> Stepped(x))
    BY <2>1 DEF FreeSlots, OffStepped, Stepped, PeriodicOf
  <2>. QED
    BY <2>1, <2>2 DEF PolicyInv, OnePeriodic, SteppedSound
<1>. QED
  BY <1>1, <1>3, <1>4, <1>5, <1>6, <1>7, AddKeepsPolicy, KeepKeepsPolicy, CancelKeepsPolicy,
     StayKeepsPolicy DEF Next

-------------------------------------------------------------------------------
(* The theorems *)

\* Every state of the scheduler is well typed, for any number of nodes, slots
\* and fields: a window is indexed only for a node that exists (finalize_active
\* and the end of an exchange use the node of the active task).
THEOREM SchedTypeCorrect == Spec => []TypeOK
  BY InitInvariant, NextInvariant, Invariants, PTL DEF Spec

\* No task is lost and none is queued twice, whatever the operator orders, the
\* policies move between the queues, and the exchanges end with: the slots in
\* use are those that wait once, in the queue of their class, and the active
\* one (queue_task_slot, remove_slot_from_queues, finalize_active_task).
THEOREM QueuesCorrect == Spec => []QueuesSound
  BY InitInvariant, NextInvariant, Invariants, PTL DEF Spec

\* At most BurstLimit priority tasks in a row pass a normal task that waits,
\* for any limit and any number of nodes in focus.
THEOREM BurstCorrect == Spec => []NormalNotBypassed
  BY InitInvariant, NextInvariant, Invariants, PTL DEF Spec

\* When the scheduler runs, the periodic tasks are those of the policy of this
\* very tick, for any number of nodes, slots and policies: none for a node
\* that is switched off, one in the queue of its class for any other, and none
\* only if the table was full (apply_periodic_policy, ensure_periodic_exchange,
\* cancel_periodic_exchange).
THEOREM PolicyCorrect == Spec => []PolicyFollowed
<1>1. Init => IInv /\ PolicyInv
  BY InitInvariant, InitPolicy
<1>2. (IInv /\ PolicyInv) /\ [Next]_vars => (IInv /\ PolicyInv)'
  BY NextInvariant, NextPolicy
<1>3. IInv /\ PolicyInv => PolicyFollowed
  BY PolicyHolds
<1>. QED
  BY <1>1, <1>2, <1>3, PTL DEF Spec

================================================================================
