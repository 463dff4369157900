---------------------------- MODULE CsCommandProofs ----------------------------
(*****************************************************************************)
(* Proofs about the way of a command through CsScheduler, for any nodes,     *)
(* windows, slots and values: the last command given for a field is kept     *)
(* until a target has accepted it, and nothing is sent but commands that are *)
(* issued for the node and not accepted yet.                                 *)
(*****************************************************************************)
EXTENDS CsSchedulerProofs

-------------------------------------------------------------------------------
(* The order in a queue *)

\* One slot is ahead of another in a queue.
Ahead(q, r, s) ==
    \E i, j \in 1 .. Len(q) : i < j /\ q[i] = r /\ q[j] = s

\* A slot that is appended stands behind all others.
LEMMA AppendAhead ==
    ASSUME NEW q, IsQueue(q), NEW s \in Slots
    PROVE  /\ \A r, u \in Slots : Ahead(q, r, u) => Ahead(Append(q, s), r, u)
           /\ \A r \in ToSet(q) : Ahead(Append(q, s), r, s)
<1>. DEFINE p == Append(q, s)
<1>1. /\ Len(p) = Len(q) + 1 /\ Len(q) \in Nat /\ p[Len(q) + 1] = s
      /\ \A i \in 1 .. Len(q) : p[i] = q[i]
  BY DEF IsQueue
<1>. HIDE DEF p
<1>2. \A r, u \in Slots : Ahead(q, r, u) => Ahead(p, r, u)
  BY <1>1 DEF Ahead
<1>3. ASSUME NEW r \in ToSet(q) PROVE Ahead(p, r, s)
  <2>1. PICK i \in 1 .. Len(q) : q[i] = r
    BY Members DEF IsQueue
  <2>. QED
    BY <1>1, <2>1 DEF Ahead
<1>. QED
  BY <1>2, <1>3 DEF p

\* Nothing is ahead of the first slot, and the others keep their order when it
\* leaves.
LEMMA TailAhead ==
    ASSUME NEW q, IsQueue(q), q # <<>>
    PROVE  /\ \A r, u \in Slots : Ahead(q, r, u) /\ r # Head(q) => Ahead(Tail(q), r, u)
           /\ \A r \in Slots : ~Ahead(q, r, Head(q))
<1>. DEFINE p == Tail(q)
<1>1. /\ Len(p) = Len(q) - 1 /\ Len(q) \in Nat \ {0} /\ Head(q) = q[1]
      /\ \A i \in 1 .. Len(p) : p[i] = q[i + 1]
  BY DEF IsQueue
<1>. HIDE DEF p
<1>2. ASSUME NEW r \in Slots, NEW u \in Slots, Ahead(q, r, u), r # Head(q)
      PROVE  Ahead(p, r, u)
  <2>1. PICK i, j \in 1 .. Len(q) : i < j /\ q[i] = r /\ q[j] = u
    BY <1>2 DEF Ahead
  <2>2. /\ i - 1 \in 1 .. Len(p) /\ j - 1 \in 1 .. Len(p) /\ i - 1 < j - 1
        /\ p[i - 1] = r /\ p[j - 1] = u
    BY <1>1, <1>2, <2>1
  <2>. QED
    BY <2>2 DEF Ahead
<1>3. \A r \in Slots : ~Ahead(q, r, Head(q))
  BY <1>1 DEF Ahead, IsQueue, Distinct
<1>. QED
  BY <1>2, <1>3 DEF p

\* The others keep their order when a slot is removed.
LEMMA RemoveAhead ==
    ASSUME NEW q, IsQueue(q), NEW s \in Slots,
           NEW r \in Slots, NEW u \in Slots, r # s, u # s, Ahead(q, r, u)
    PROVE  Ahead(RemoveFirst(q, s), r, u)
<1>. DEFINE p == RemoveFirst(q, s)
<1>1. CASE s \notin ToSet(q)
  <2>1. p = q
    BY <1>1, Members DEF RemoveFirst, IsQueue
  <2>. QED
    BY <2>1
<1>2. CASE s \in ToSet(q)
  <2>1. /\ Len(p) = Len(q) - 1 /\ Len(q) \in Nat
        /\ \E k \in 1 .. Len(q) :
              /\ q[k] = s
              /\ \A i \in 1 .. Len(p) : p[i] = IF i < k THEN q[i] ELSE q[i + 1]
    BY <1>2, RemoveShape
  <2>. HIDE DEF p
  <2>2. PICK k \in 1 .. Len(q) :
          /\ q[k] = s
          /\ \A i \in 1 .. Len(p) : p[i] = IF i < k THEN q[i] ELSE q[i + 1]
    BY <2>1
  <2>3. PICK i, j \in 1 .. Len(q) : i < j /\ q[i] = r /\ q[j] = u
    BY DEF Ahead
  <2>4. i # k /\ j # k
    BY <2>2, <2>3
  <2>. DEFINE To(n) == IF n < k THEN n ELSE n - 1
  <2>5. /\ To(i) \in 1 .. Len(p) /\ To(j) \in 1 .. Len(p) /\ To(i) < To(j)
        /\ p[To(i)] = r /\ p[To(j)] = u
    BY <2>1, <2>2, <2>3, <2>4
  <2>. HIDE DEF To
  <2>6. Ahead(p, r, u)
    BY <2>5 DEF Ahead
  <2>. QED
    BY <2>6 DEF p
<1>. QED
  BY <1>1, <1>2

-------------------------------------------------------------------------------
(* The invariant *)

\* A queued task brings a command for a field of a node.
Brings(s, x, f) ==
    /\ task[s].queued /\ task[s].kind = "command" /\ ~task[s].staged
    /\ task[s].node = x /\ task[s].field = f /\ task[s].value # 0

\* The window of the node is in the shared buffer; the node has accepted it.
Sending(x) == active # NoSlot /\ task[active].kind = "command" /\ task[active].node = x
Acked(x)   == Sending(x) /\ result = "success"

\* Commands are normal tasks that are never cancelled.
TasksSound ==
    /\ \A s \in Slots : task[s].used /\ task[s].kind = "command" =>
          /\ task[s].class = "normal" /\ task[s].enabled /\ ~task[s].periodic
          /\ task[s].staged => task[s].value = 0
          /\ task[s].value # 0 => Within(task[s].node, task[s].field)
    /\ busy => result = "none"

\* Where the last command of a field is: in the queue, behind all others for
\* the same field; or in the buffer; or in the saved window.
HeldAt(x, f) ==
    /\ Within(x, f)
    /\ \/ \E s \in Slots :
            /\ Brings(s, x, f) /\ task[s].value = last[x][f]
            /\ \A r \in Slots \ {s} : Brings(r, x, f) => Ahead(normalQ, r, s)
       \/ /\ \A s \in Slots : ~Brings(s, x, f)
          /\ msgCmd[x][f] = 0 /\ ~Acked(x)
          /\ IF Sending(x) THEN buf[f] = last[x][f] ELSE saved[x][f] = last[x][f]

LastHeld ==
    \A x \in Nodes, f \in Fields : last[x][f] # 0 => HeldAt(x, f)

\* A value is in one place only (the buffer may repeat the saved window), and
\* is open for its node there.
InHand(x, f) ==
    IF Acked(x) THEN {}
    ELSE {saved[x][f]} \cup IF Sending(x) /\ Within(x, f) THEN {buf[f]} ELSE {}

OpenAt(x, f) ==
    /\ \A s \in Slots : Brings(s, x, f) =>
          /\ <<f, task[s].value>> \in open[x]
          /\ task[s].value # msgCmd[x][f]
          /\ task[s].value \notin InHand(x, f)
          /\ \A r \in Slots : Brings(r, x, f) /\ task[r].value = task[s].value => r = s
    /\ msgCmd[x][f] # 0 =>
          /\ <<f, msgCmd[x][f]>> \in open[x]
          /\ msgCmd[x][f] \notin InHand(x, f)
    /\ \A v \in InHand(x, f) : v # 0 => <<f, v>> \in open[x]

OpenSound == \A x \in Nodes, f \in Fields : OpenAt(x, f)

\* The inductive invariant, beside that of CsSchedulerProofs.
CmdInv == TasksSound /\ LastHeld /\ OpenSound

\* The invariant implies what the runs check.
LEMMA CommandInvariants == IInv /\ CmdInv => CmdKept /\ NoStaleCommand
<1>. SUFFICES ASSUME IInv, CmdInv PROVE CmdKept /\ NoStaleCommand
  OBVIOUS
<1>1. CmdKept
  <2>1. SUFFICES ASSUME NEW x \in Nodes, NEW f \in Fields, last[x][f] # 0
                 PROVE  \/ saved[x][f] = last[x][f]
                        \/ \E s \in Slots :
                             /\ task[s].kind = "command"
                             /\ task[s].node = x
                             /\ \/ task[s].queued /\ ~task[s].staged
                                     /\ task[s].field = f /\ task[s].value = last[x][f]
                                \/ s = active /\ buf[f] = last[x][f]
    BY DEF CmdKept
  <2>2. Sending(x) => active \in Slots
    BY DEF Sending, IInv, TablesSound
  <2>. QED
    BY <2>1, <2>2 DEF CmdInv, LastHeld, HeldAt, Brings, Sending
<1>2. NoStaleCommand
  <2>1. SUFFICES ASSUME busy, task[active].kind = "command", NEW f \in Fields,
                        Within(task[active].node, f), buf[f] # 0
                 PROVE  <<f, buf[f]>> \in open[task[active].node]
    BY DEF NoStaleCommand
  <2>. DEFINE x == task[active].node
  <2>2. active # NoSlot /\ x \in Nodes
    BY <2>1 DEF IInv, TickSound, TablesSound
  <2>3. Sending(x) /\ ~Acked(x)
    BY <2>1, <2>2 DEF Sending, Acked, CmdInv, TasksSound
  <2>4. buf[f] \in InHand(x, f)
    BY <2>1, <2>3 DEF InHand
  <2>. HIDE DEF x
  <2>5. <<f, buf[f]>> \in open[x]
    BY <2>1, <2>2, <2>4 DEF CmdInv, OpenSound, OpenAt
  <2>. QED
    BY <2>5 DEF x
<1>. QED
  BY <1>1, <1>2

\* Nothing is ordered at the start.
LEMMA InitCommands == Init => CmdInv
<1>. SUFFICES ASSUME Init PROVE CmdInv
  OBVIOUS
<1>1. /\ \A s \in Slots : ~task[s].used /\ ~task[s].queued
      /\ active = NoSlot /\ ~busy
      /\ \A x \in Nodes, f \in Fields :
            last[x][f] = 0 /\ msgCmd[x][f] = 0 /\ saved[x][f] = 0
  BY NewTaskType DEF Init, Empty
<1>. QED
  BY <1>1 DEF CmdInv, TasksSound, LastHeld, OpenSound, OpenAt, Brings, Sending, Acked, InHand

-------------------------------------------------------------------------------
(* Steps that leave commands alone *)

\* The invariant rests on what the tasks bring, on their order and on the
\* windows, and on nothing else.
LEMMA SameCommands ==
    ASSUME IInv, CmdInv,
           UNCHANGED <<msgCmd, buf, saved, last, open>>,
           \A x \in Nodes : (Sending(x)' <=> Sending(x)) /\ (Acked(x)' <=> Acked(x)),
           \A s \in Slots, x \in Nodes, f \in Fields :
               /\ Brings(s, x, f)' <=> Brings(s, x, f)
               /\ Brings(s, x, f) => task'[s].value = task[s].value,
           \A r, s \in Slots, x \in Nodes, f \in Fields :
               Brings(r, x, f) /\ Brings(s, x, f) /\ Ahead(normalQ, r, s) => Ahead(normalQ', r, s)
    PROVE  LastHeld' /\ OpenSound'
<1>1. LastHeld'
  BY DEF CmdInv, LastHeld, HeldAt
<1>2. OpenSound'
  BY DEF CmdInv, OpenSound, OpenAt, InHand
<1>. QED
  BY <1>1, <1>2

\* One slot changes that brings no command, neither before nor after.
LEMMA OtherSlot ==
    ASSUME IInv, CmdInv, NEW s \in Slots,
           task' \in [Slots -> TaskStates],
           \A r \in Slots : r # s => task'[r] = task[r],
           ~(task[s].queued /\ task[s].kind = "command"),
           task'[s].kind = "command" =>
               /\ s # active
               /\ task'[s].class = "normal" /\ task'[s].enabled /\ ~task'[s].periodic
               /\ task'[s].staged /\ task'[s].value = 0,
           s = active => task[s].kind = "data",
           \A r, u \in Slots : r # s /\ u # s /\ Ahead(normalQ, r, u) => Ahead(normalQ', r, u),
           UNCHANGED <<active, busy, result, msgCmd, buf, saved, last, open>>
    PROVE  CmdInv'
<1>1. TasksSound'
  BY DEF CmdInv, TasksSound, Within
<1>2. \A x \in Nodes : (Sending(x)' <=> Sending(x)) /\ (Acked(x)' <=> Acked(x))
  <2>1. active \in Slots \cup {NoSlot}
    BY DEF IInv, TablesSound
  <2>2. task'[s].kind \in {"command", "data"}
    BY DEF TaskStates
  <2>. QED
    BY <2>1, <2>2 DEF Sending, Acked
<1>3. ASSUME NEW r \in Slots, NEW x \in Nodes, NEW f \in Fields
      PROVE  /\ Brings(r, x, f)' <=> Brings(r, x, f)
             /\ Brings(r, x, f) => task'[r].value = task[r].value /\ r # s
  <2>1. CASE r = s
    BY <2>1 DEF Brings
  <2>2. CASE r # s
    BY <2>2 DEF Brings
  <2>. QED
    BY <2>1, <2>2
<1>4. LastHeld' /\ OpenSound'
  BY <1>2, <1>3, SameCommands
<1>. QED
  BY <1>1, <1>4 DEF CmdInv

\* Steps that touch neither tasks, windows nor the bus.
LEMMA SameState ==
    ASSUME IInv, CmdInv,
           UNCHANGED <<task, normalQ, active, busy, result, msgCmd, buf, saved, last, open>>
    PROVE  CmdInv'
<1>1. TasksSound'
  BY DEF CmdInv, TasksSound, Within
<1>2. LastHeld' /\ OpenSound'
  BY SameCommands DEF Sending, Acked, Brings
<1>. QED
  BY <1>1, <1>2 DEF CmdInv

\* What add_task does where there is room.
LEMMA AddTaskEffect ==
    ASSUME IInv, NEW t \in TaskStates, AddTask(t), FreeSlots # {}
    PROVE  /\ FirstFree \in Slots /\ ~task[FirstFree].used /\ ~task[FirstFree].queued
           /\ FirstFree # active /\ FirstFree \notin ToSet(normalQ)
           /\ task' \in [Slots -> TaskStates] /\ task'[FirstFree] = t
           /\ \A r \in Slots : r # FirstFree => task'[r] = task[r]
           /\ normalQ' = IF t.class = "normal" THEN Append(normalQ, FirstFree) ELSE normalQ
<1>. DEFINE s == FirstFree
<1>1. s \in Slots /\ ~task[s].used
  BY FirstFreeIsFree DEF FreeSlots
<1>2. task' = [task EXCEPT ![s] = t] /\ Enqueue(s, t.class)
  BY DEF AddTask
<1>. HIDE DEF s
<1>3. ~task[s].queued /\ s # active /\ s \notin ToSet(normalQ)
  BY <1>1 DEF IInv, TablesSound, Waits
<1>4. task' \in [Slots -> TaskStates] /\ task'[s] = t /\ \A r \in Slots : r # s => task'[r] = task[r]
  BY <1>1, <1>2 DEF IInv, TablesSound
<1>. QED
  BY <1>1, <1>2, <1>3, <1>4 DEF Enqueue, s

\* A task is added that brings no command of its own.
LEMMA AddOther ==
    ASSUME IInv, CmdInv, NEW t \in TaskStates, AddTask(t),
           t.kind = "command" => /\ t.class = "normal" /\ t.enabled /\ ~t.periodic
                                 /\ t.staged /\ t.value = 0,
           UNCHANGED <<active, busy, result, msgCmd, buf, saved, last, open>>
    PROVE  CmdInv'
<1>1. CASE FreeSlots = {}
  BY <1>1, SameState DEF AddTask
<1>2. CASE FreeSlots # {}
  <2>. DEFINE s == FirstFree
  <2>1. /\ s \in Slots /\ ~task[s].used /\ ~task[s].queued
        /\ s # active /\ s \notin ToSet(normalQ)
        /\ task' \in [Slots -> TaskStates] /\ task'[s] = t
        /\ \A r \in Slots : r # s => task'[r] = task[r]
        /\ normalQ' = IF t.class = "normal" THEN Append(normalQ, s) ELSE normalQ
    BY <1>2, AddTaskEffect
  <2>. HIDE DEF s
  <2>2. \A r, u \in Slots : Ahead(normalQ, r, u) => Ahead(normalQ', r, u)
    BY <2>1, AppendAhead DEF IInv, TablesSound
  <2>. QED
    BY <2>1, <2>2, OtherSlot
<1>. QED
  BY <1>1, <1>2

\* exchange, sendcmd and the periodic task of a node.
LEMMA AddKeepsCommands ==
    ASSUME IInv, CmdInv, NEW x \in Nodes,
           OperatorExchange(x) \/ OperatorSend(x) \/ AddPeriodic(x)
    PROVE  CmdInv'
<1>1. CASE OperatorExchange(x)
  <2>. DEFINE t == DataTask(x, "normal", FALSE)
  <2>1. t \in TaskStates
    BY QueuedTaskTypes DEF Classes
  <2>2. t.kind = "data"
    BY DEF DataTask, NewTask, FreeTask
  <2>3. /\ AddTask(t)
        /\ UNCHANGED <<active, busy, result, msgCmd, buf, saved, last, open>>
    BY <1>1 DEF OperatorExchange, Control, busVars
  <2>. HIDE DEF t
  <2>. QED
    BY <2>1, <2>2, <2>3, AddOther
<1>2. CASE OperatorSend(x)
  <2>. DEFINE t == StagedTask(x)
  <2>1. t \in TaskStates
    BY QueuedTaskTypes
  <2>2. t.class = "normal" /\ t.enabled /\ ~t.periodic /\ t.staged /\ t.value = 0
    BY DEF StagedTask, NewTask, FreeTask
  <2>3. /\ AddTask(t)
        /\ UNCHANGED <<active, busy, result, msgCmd, buf, saved, last, open>>
    BY <1>2 DEF OperatorSend, Control, busVars
  <2>. HIDE DEF t
  <2>. QED
    BY <2>1, <2>2, <2>3, AddOther
<1>3. CASE AddPeriodic(x)
  <2>. DEFINE t == DataTask(x, policy[x], TRUE)
  <2>0. policy[x] \in Classes
    BY <1>3 DEF AddPeriodic, IInv, TickSound, Policies
  <2>1. t \in TaskStates
    BY <2>0, QueuedTaskTypes
  <2>2. t.kind = "data"
    BY DEF DataTask, NewTask, FreeTask
  <2>3. /\ AddTask(t)
        /\ UNCHANGED <<active, busy, result, msgCmd, buf, saved, last, open>>
    BY <1>3 DEF AddPeriodic, NodeStep, busVars, cmdVars, history
  <2>. HIDE DEF t
  <2>. QED
    BY <2>1, <2>2, <2>3, AddOther
<1>. QED
  BY <1>1, <1>2, <1>3

\* ensure_periodic_exchange moves a data task.
LEMMA KeepKeepsCommands ==
    ASSUME IInv, CmdInv, NEW x \in Nodes, KeepPeriodic(x)
    PROVE  CmdInv'
<1>1. PICK s \in PeriodicOf(x) :
         /\ task' = [task EXCEPT ![s].enabled = TRUE, ![s].class = policy[x],
                                 ![s].queued = IF task[s].class = policy[x]
                                               THEN @ ELSE s # active]
         /\ IF task[s].class = policy[x]
            THEN UNCHANGED <<normalQ, priorityQ>>
            ELSE LET without(q) == IF task[s].queued THEN RemoveFirst(q, s) ELSE q
                     with(q)    == IF s # active THEN Append(without(q), s)
                                   ELSE without(q)
                 IN  IF policy[x] = "priority"
                     THEN /\ normalQ' = without(normalQ)
                          /\ priorityQ' = with(priorityQ)
                     ELSE /\ normalQ' = with(normalQ)
                          /\ priorityQ' = without(priorityQ)
  BY DEF KeepPeriodic
<1>2. s \in Slots /\ task[s] \in TaskStates /\ task[s].kind = "data" /\ IsQueue(normalQ)
  BY DEF PeriodicOf, IInv, TablesSound
<1>3. /\ task' \in [Slots -> TaskStates]
      /\ \A r \in Slots : r # s => task'[r] = task[r]
      /\ task'[s].kind = "data"
  <2>1. TablesSound'
    BY KeepPeriodicSound
  <2>. QED
    BY <1>1, <1>2, <2>1 DEF TablesSound, IInv, TaskStates
<1>4. ASSUME NEW r \in Slots, NEW u \in Slots, r # s, u # s, Ahead(normalQ, r, u)
      PROVE  Ahead(normalQ', r, u)
  <2>1. /\ IsQueue(RemoveFirst(normalQ, s)) /\ Ahead(RemoveFirst(normalQ, s), r, u)
    BY <1>2, <1>4, RemoveQueue, RemoveAhead
  <2>2. /\ Ahead(Append(normalQ, s), r, u)
        /\ Ahead(Append(RemoveFirst(normalQ, s), s), r, u)
    BY <1>2, <1>4, <2>1, AppendAhead
  <2>3. normalQ' \in {normalQ, RemoveFirst(normalQ, s), Append(normalQ, s),
                      Append(RemoveFirst(normalQ, s), s)}
    BY <1>1
  <2>. QED
    BY <1>4, <2>1, <2>2, <2>3
<1>5. UNCHANGED <<active, busy, result, msgCmd, buf, saved, last, open>>
  BY DEF KeepPeriodic, NodeStep, busVars, cmdVars, history
<1>. QED
  BY <1>2, <1>3, <1>4, <1>5, OtherSlot

\* cancel_periodic_exchange ends a data task.
LEMMA CancelKeepsCommands ==
    ASSUME IInv, CmdInv, NEW x \in Nodes, CancelPeriodic(x)
    PROVE  CmdInv'
<1>1. PICK s \in PeriodicOf(x) :
         IF s = active
         THEN /\ task' = [task EXCEPT ![s] = Cancelled(task[s])]
              /\ UNCHANGED <<normalQ, priorityQ>>
         ELSE /\ task' = [task EXCEPT ![s] = FreeTask]
              /\ Dequeue(s)
  BY DEF CancelPeriodic
<1>2. s \in Slots /\ task[s] \in TaskStates /\ task[s].kind = "data" /\ IsQueue(normalQ)
  BY DEF PeriodicOf, IInv, TablesSound
<1>3. /\ task' \in [Slots -> TaskStates]
      /\ \A r \in Slots : r # s => task'[r] = task[r]
      /\ task'[s].kind = "data"
  <2>1. Cancelled(task[s]).kind = "data" /\ FreeTask.kind = "data"
    BY <1>2 DEF Cancelled, TaskStates, FreeTask
  <2>2. TablesSound'
    BY CancelPeriodicSound
  <2>. QED
    BY <1>1, <1>2, <2>1, <2>2 DEF TablesSound, IInv
<1>4. ASSUME NEW r \in Slots, NEW u \in Slots, r # s, u # s, Ahead(normalQ, r, u)
      PROVE  Ahead(normalQ', r, u)
  BY <1>1, <1>2, <1>4, RemoveAhead DEF Dequeue
<1>5. UNCHANGED <<active, busy, result, msgCmd, buf, saved, last, open>>
  BY DEF CancelPeriodic, NodeStep, busVars, cmdVars, history
<1>. QED
  BY <1>2, <1>3, <1>4, <1>5, OtherSlot

-------------------------------------------------------------------------------
(* New commands *)

\* Commands wait in the normal queue.
LEMMA BringsNormal ==
    ASSUME IInv, CmdInv, NEW s \in Slots, NEW x, NEW f, Brings(s, x, f)
    PROVE  s \in ToSet(normalQ)
<1>1. task[s].queued /\ task[s].used /\ task[s].class = "normal" /\ Waits(s)
  BY DEF Brings, IInv, TablesSound, CmdInv, TasksSound
<1>. QED
  BY <1>1 DEF IInv, TablesSound, Waits

\* cmd: the new task stands behind all others and has a value nothing else has.
LEMMA CmdKeepsCommands ==
    ASSUME IInv, CmdInv, NEW x \in Nodes, NEW f \in Fields, NEW v \in Values,
           Within(x, f), OperatorCmd(x, f, v)
    PROVE  CmdInv'
<1>. DEFINE t == CommandTask(x, f, v)
<1>1. /\ AddTask(t) /\ <<f, v>> \notin open[x]
      /\ UNCHANGED <<active, busy, result, msgCmd, buf, saved>>
      /\ IF FreeSlots # {} /\ v # 0
         THEN /\ last' = [last EXCEPT ![x][f] = v]
              /\ open' = [open EXCEPT ![x] = @ \cup {<<f, v>>}]
         ELSE UNCHANGED <<last, open>>
  BY DEF OperatorCmd, Control, busVars, Accepted
<1>2. CASE FreeSlots = {}
  BY <1>1, <1>2, SameState DEF AddTask
<1>3. CASE FreeSlots # {}
  <2>1. t \in TaskStates
    BY QueuedTaskTypes
  <2>2. /\ t.queued /\ t.used /\ t.kind = "command" /\ ~t.staged /\ t.node = x
        /\ t.field = f /\ t.value = v /\ t.class = "normal" /\ t.enabled /\ ~t.periodic
    BY DEF CommandTask, NewTask, FreeTask
  <2>. HIDE DEF t
  <2>3. PICK s \in Slots :
          /\ ~task[s].used /\ ~task[s].queued
          /\ s # active /\ s \notin ToSet(normalQ)
          /\ task' \in [Slots -> TaskStates] /\ task'[s] = t
          /\ \A r \in Slots : r # s => task'[r] = task[r]
          /\ normalQ' = Append(normalQ, s)
    BY <1>1, <1>3, <2>1, <2>2, AddTaskEffect
  <2>4. /\ \A r, u \in Slots : Ahead(normalQ, r, u) => Ahead(normalQ', r, u)
        /\ \A r \in ToSet(normalQ) : Ahead(normalQ', r, s)
    BY <2>3, AppendAhead DEF IInv, TablesSound
  <2>5. TasksSound'
    BY <1>1, <2>2, <2>3 DEF CmdInv, TasksSound, Within
  <2>6. \A y \in Nodes : (Sending(y)' <=> Sending(y)) /\ (Acked(y)' <=> Acked(y))
    <3>1. active \in Slots \cup {NoSlot}
      BY DEF IInv, TablesSound
    <3>. QED
      BY <1>1, <2>3, <3>1 DEF Sending, Acked
  <2>7. \A r \in Slots, y \in Nodes, g \in Fields :
          /\ r # s => /\ Brings(r, y, g)' <=> Brings(r, y, g)
                      /\ task'[r] = task[r]
          /\ ~Brings(s, y, g)
          /\ Brings(s, y, g)' <=> y = x /\ g = f /\ v # 0
          /\ task'[s].value = v
    <3>1. ASSUME NEW y \in Nodes, NEW g \in Fields
          PROVE  ~Brings(s, y, g) /\ (Brings(s, y, g)' <=> y = x /\ g = f /\ v # 0)
      BY <2>2, <2>3 DEF Brings
    <3>2. ASSUME NEW r \in Slots, NEW y \in Nodes, NEW g \in Fields, r # s
          PROVE  (Brings(r, y, g)' <=> Brings(r, y, g)) /\ task'[r] = task[r]
      BY <2>3, <3>2 DEF Brings
    <3>. QED
      BY <2>2, <2>3, <3>1, <3>2 DEF OpenAt
  <2>8. \A r \in Slots, y \in Nodes, g \in Fields : Brings(r, y, g) => r \in ToSet(normalQ)
    BY BringsNormal
  <2>9. CASE v = 0
    <3>1. LastHeld' /\ OpenSound'
      <4>1. UNCHANGED <<msgCmd, buf, saved, last, open>>
        BY <1>1, <2>9
      <4>2. ASSUME NEW r \in Slots, NEW y \in Nodes, NEW g \in Fields
            PROVE  /\ Brings(r, y, g)' <=> Brings(r, y, g)
                   /\ Brings(r, y, g) => task'[r].value = task[r].value
        BY <2>7, <2>9
      <4>. QED
        BY <2>4, <2>6, <4>1, <4>2, SameCommands
    <3>. QED
      BY <2>5, <3>1 DEF CmdInv
  <2>10. CASE v # 0
    <3>1. /\ last' \in [Nodes -> Windows] /\ last'[x][f] = v
          /\ \A y \in Nodes, g \in Fields : ~(y = x /\ g = f) => last'[y][g] = last[y][g]
          /\ \A y \in Nodes : open[y] \subseteq open'[y]
          /\ <<f, v>> \in open'[x]
      <4>1. /\ last' = [last EXCEPT ![x][f] = v]
            /\ open' = [open EXCEPT ![x] = @ \cup {<<f, v>>}]
        BY <1>1, <1>3, <2>10
      <4>2. last \in [Nodes -> Windows] /\ open \in [Nodes -> SUBSET (Fields \X Values)]
        BY DEF IInv, WindowsSound
      <4>. QED
        BY <4>1, <4>2 DEF Windows
    <3>2. LastHeld'
      <4>1. SUFFICES ASSUME NEW y \in Nodes, NEW g \in Fields, last'[y][g] # 0
                     PROVE  HeldAt(y, g)'
        BY DEF LastHeld
      <4>2. CASE y = x /\ g = f
        <5>1. Brings(s, y, g)' /\ task'[s].value = last'[y][g]
          BY <2>7, <2>10, <3>1, <4>2
        <5>2. \A u \in Slots \ {s} : Brings(u, y, g)' => Ahead(normalQ', u, s)
          BY <2>4, <2>7, <2>8
        <5>. QED
          BY <4>2, <5>1, <5>2 DEF HeldAt, Within
      <4>3. CASE ~(y = x /\ g = f)
        <5>1. last'[y][g] = last[y][g]
          BY <3>1, <4>3
        <5>2. ASSUME NEW r \in Slots
              PROVE  /\ Brings(r, y, g)' <=> Brings(r, y, g)
                     /\ Brings(r, y, g) => r # s /\ task'[r] = task[r]
          BY <2>7, <4>3
        <5>3. HeldAt(y, g)
          BY <4>1, <5>1 DEF CmdInv, LastHeld
        <5>4. CASE \E r \in Slots :
                     /\ Brings(r, y, g) /\ task[r].value = last[y][g]
                     /\ \A u \in Slots \ {r} : Brings(u, y, g) => Ahead(normalQ, u, r)
          BY <2>4, <5>1, <5>2, <5>3, <5>4 DEF HeldAt, Within
        <5>5. CASE /\ \A r \in Slots : ~Brings(r, y, g)
                   /\ msgCmd[y][g] = 0 /\ ~Acked(y)
                   /\ IF Sending(y) THEN buf[g] = last[y][g] ELSE saved[y][g] = last[y][g]
          BY <1>1, <2>6, <5>1, <5>2, <5>3, <5>5 DEF HeldAt, Within
        <5>. QED
          BY <5>3, <5>4, <5>5 DEF HeldAt
      <4>. QED
        BY <4>2, <4>3
    <3>3. \A y \in Nodes, g \in Fields : InHand(y, g)' = InHand(y, g)
      BY <1>1, <2>6 DEF InHand, Within
    <3>4. OpenSound'
      <4>1. SUFFICES ASSUME NEW y \in Nodes, NEW g \in Fields PROVE OpenAt(y, g)'
        BY DEF OpenSound
      <4>2. OpenAt(y, g)
        BY DEF CmdInv, OpenSound
      <4>3. /\ msgCmd' = msgCmd /\ open[y] \subseteq open'[y]
            /\ InHand(y, g)' = InHand(y, g)
        BY <1>1, <3>1, <3>3
      <4>4. CASE y = x /\ g = f
        <5>1. /\ v # msgCmd[y][g] /\ v \notin InHand(y, g)
              /\ \A u \in Slots : Brings(u, y, g) => task[u].value # v
          BY <1>1, <2>10, <4>2, <4>4 DEF OpenAt
        <5>2. \A r \in Slots : Brings(r, y, g)' =>
                 \/ r = s /\ task'[r].value = v
                 \/ r # s /\ Brings(r, y, g) /\ task'[r] = task[r]
          BY <2>7
        <5>. QED
          BY <3>1, <4>2, <4>3, <4>4, <5>1, <5>2 DEF OpenAt
      <4>5. CASE ~(y = x /\ g = f)
        <5>1. \A r \in Slots : Brings(r, y, g)' => Brings(r, y, g) /\ task'[r] = task[r]
          BY <2>7, <4>5
        <5>. QED
          BY <4>2, <4>3, <5>1 DEF OpenAt
      <4>. QED
        BY <4>4, <4>5
    <3>. QED
      BY <2>5, <3>2, <3>4 DEF CmdInv
  <2>. QED
    BY <2>9, <2>10
<1>. QED
  BY <1>2, <1>3

\* stagecmd: the last command of the field, if there was one, is superseded.
LEMMA StageKeepsCommands ==
    ASSUME IInv, CmdInv, NEW x \in Nodes, NEW f \in Fields, NEW v \in Values,
           Within(x, f), OperatorStage(x, f, v)
    PROVE  CmdInv'
<1>1. /\ <<f, v>> \notin open[x]
      /\ UNCHANGED <<task, normalQ, active, busy, result, buf, saved>>
      /\ msgCmd' = [msgCmd EXCEPT ![x][f] = v]
      /\ last' = IF v # 0 THEN [last EXCEPT ![x][f] = 0] ELSE last
      /\ open' = IF v # 0 THEN [open EXCEPT ![x] = @ \cup {<<f, v>>}] ELSE open
  BY DEF OperatorStage, Control, busVars
<1>2. /\ msgCmd'[x][f] = v
      /\ v # 0 => last'[x][f] = 0
      /\ v # 0 => <<f, v>> \in open'[x]
      /\ \A y \in Nodes, g \in Fields : ~(y = x /\ g = f) =>
            last'[y][g] = last[y][g] /\ msgCmd'[y][g] = msgCmd[y][g]
      /\ v = 0 => last' = last
      /\ \A y \in Nodes : open[y] \subseteq open'[y]
  BY <1>1 DEF IInv, WindowsSound, Windows
<1>3. \A y \in Nodes, g \in Fields :
        /\ Sending(y)' <=> Sending(y)
        /\ Acked(y)' <=> Acked(y)
        /\ InHand(y, g)' = InHand(y, g)
        /\ \A r \in Slots : Brings(r, y, g)' <=> Brings(r, y, g)
  BY <1>1 DEF Sending, Acked, InHand, Within, Brings
<1>4. TasksSound'
  BY <1>1 DEF CmdInv, TasksSound, Within
<1>5. LastHeld'
  BY <1>1, <1>2, <1>3 DEF CmdInv, LastHeld, HeldAt, Within
<1>6. OpenSound'
  <2>1. SUFFICES ASSUME NEW y \in Nodes, NEW g \in Fields PROVE OpenAt(y, g)'
    BY DEF OpenSound
  <2>2. OpenAt(y, g)
    BY DEF CmdInv, OpenSound
  <2>3. /\ task' = task /\ open[y] \subseteq open'[y] /\ InHand(y, g)' = InHand(y, g)
        /\ \A r \in Slots : Brings(r, y, g)' <=> Brings(r, y, g)
    BY <1>1, <1>2, <1>3
  <2>4. CASE y = x /\ g = f
    <3>1. /\ \A r \in Slots : Brings(r, y, g) => task[r].value # v
          /\ v # 0 => v \notin InHand(y, g)
      <4>1. \A r \in Slots : Brings(r, y, g) => <<f, task[r].value>> \in open[x]
        BY <2>2, <2>4 DEF OpenAt
      <4>2. \A w \in InHand(y, g) : w # 0 => <<f, w>> \in open[x]
        BY <2>2, <2>4 DEF OpenAt
      <4>. QED
        BY <1>1, <4>1, <4>2
    <3>2. msgCmd'[y][g] = v /\ (v # 0 => <<g, v>> \in open'[y])
      BY <1>2, <2>4
    <3>. QED
      BY <2>2, <2>3, <3>1, <3>2 DEF OpenAt
  <2>5. CASE ~(y = x /\ g = f)
    BY <1>2, <2>2, <2>3, <2>5 DEF OpenAt
  <2>. QED
    BY <2>4, <2>5
<1>. QED
  BY <1>4, <1>5, <1>6 DEF CmdInv

-------------------------------------------------------------------------------
(* A command is started *)

\* prepare_command_exchange: what the task brings replaces what is staged, and
\* that replaces what was saved, field by field.
LEMMA ArmEffect ==
    ASSUME IInv, NEW s \in Slots, task[s].used, task[s].kind = "command", Arm(s)
    PROVE  LET x == task[s].node
               wanted(f) == IF ~task[s].staged /\ task[s].field = f
                            THEN task[s].value ELSE msgCmd[x][f]
           IN  /\ x \in Nodes
               /\ \A f \in Fields :
                    /\ Within(x, f) => buf'[f] = IF wanted(f) # 0 THEN wanted(f) ELSE saved[x][f]
                    /\ msgCmd'[x][f] = 0
               /\ \A y \in Nodes \ {x} : msgCmd'[y] = msgCmd[y]
<1>. DEFINE t == task[s]
            x == t.node
            wanted == IF t.staged THEN msgCmd[x]
                      ELSE [msgCmd[x] EXCEPT ![t.field] = t.value]
<1>1. x \in Nodes /\ msgCmd \in [Nodes -> Windows]
  BY DEF IInv, TablesSound, WindowsSound
<1>2. /\ buf' = [f \in Fields |-> IF ~Within(x, f) THEN buf[f]
                                 ELSE IF wanted[f] # 0 THEN wanted[f]
                                 ELSE Loaded(x, f)]
      /\ msgCmd' = [msgCmd EXCEPT ![x] = Empty]
  BY DEF Arm
<1>3. ASSUME NEW f \in Fields
      PROVE  wanted[f] = IF ~t.staged /\ t.field = f THEN t.value ELSE msgCmd[x][f]
  BY <1>1 DEF Windows
<1>. HIDE DEF x, wanted
<1>4. \A f \in Fields : msgCmd'[x][f] = 0
  BY <1>1, <1>2 DEF Empty
<1>5. \A y \in Nodes \ {x} : msgCmd'[y] = msgCmd[y]
  BY <1>1, <1>2
<1>6. ASSUME NEW f \in Fields, Within(x, f)
      PROVE  buf'[f] = IF wanted[f] # 0 THEN wanted[f] ELSE saved[x][f]
  BY <1>2, <1>6 DEF Loaded
<1>. QED
  BY <1>1, <1>3, <1>4, <1>5, <1>6 DEF x

\* The task at the head of its queue is started.
LEMMA StartKeeps ==
    ASSUME IInv, CmdInv, NEW s \in Slots, Start(s),
           \A r, u \in Slots : r # s /\ Ahead(normalQ, r, u) => Ahead(normalQ', r, u),
           task[s].kind = "command" => \A r \in Slots : ~Ahead(normalQ, r, s)
    PROVE  CmdInv'
<1>1. /\ ~busy /\ active = NoSlot /\ active' = s /\ s # NoSlot
      /\ result' = "none" /\ task[s].used /\ Arm(s)
      /\ task' = [task EXCEPT ![s].queued = FALSE]
      /\ UNCHANGED <<saved, last, open>>
  BY DEF Start, Idle, Arm, MayRun, NoSlot, Slots
<1>2. /\ task' \in [Slots -> TaskStates]
      /\ \A r \in Slots : r # s => task'[r] = task[r]
      /\ task'[s] = [task[s] EXCEPT !.queued = FALSE]
      /\ task[s] \in TaskStates
  <2>. DEFINE u == [task[s] EXCEPT !.queued = FALSE]
  <2>1. task[s] \in TaskStates
    BY DEF IInv, TablesSound
  <2>2. u \in TaskStates
    BY <2>1 DEF TaskStates
  <2>3. task' = [task EXCEPT ![s] = u]
    BY <1>1
  <2>. HIDE DEF u
  <2>4. /\ task' \in [Slots -> TaskStates] /\ task'[s] = u
        /\ \A r \in Slots : r # s => task'[r] = task[r]
    BY <2>2, <2>3 DEF IInv, TablesSound
  <2>. QED
    BY <2>1, <2>4 DEF u
<1>3. /\ ~task'[s].queued /\ task'[s].used = task[s].used
      /\ task'[s].kind = task[s].kind /\ task'[s].node = task[s].node
      /\ task'[s].field = task[s].field /\ task'[s].value = task[s].value
      /\ task'[s].staged = task[s].staged /\ task'[s].enabled = task[s].enabled
      /\ task'[s].class = task[s].class /\ task'[s].periodic = task[s].periodic
  BY <1>2 DEF TaskStates
<1>4. ASSUME NEW r \in Slots, NEW y \in Nodes, NEW g \in Fields
      PROVE  /\ Brings(r, y, g)' <=> Brings(r, y, g) /\ r # s
             /\ task'[r].value = task[r].value
  BY <1>2, <1>3 DEF Brings
<1>5. \A y \in Nodes :
        /\ ~Sending(y) /\ ~Acked(y) /\ ~Acked(y)'
        /\ Sending(y)' <=> task[s].kind = "command" /\ task[s].node = y
  BY <1>1, <1>3 DEF Sending, Acked
<1>6. TasksSound'
  BY <1>1, <1>2, <1>3 DEF CmdInv, TasksSound, Within
<1>7. CASE task[s].kind # "command"
  <2>1. UNCHANGED <<msgCmd, buf, saved, last, open>>
    BY <1>1, <1>7 DEF Arm
  <2>2. \A y \in Nodes, g \in Fields : ~Brings(s, y, g)
    BY <1>7 DEF Brings
  <2>3. LastHeld' /\ OpenSound'
    BY <1>4, <1>5, <1>7, <2>1, <2>2, SameCommands
  <2>. QED
    BY <1>6, <2>3 DEF CmdInv
<1>8. CASE task[s].kind = "command"
  <2>. DEFINE x == task[s].node
  <2>1. /\ x \in Nodes
        /\ \A f \in Fields :
             /\ Within(x, f) => buf'[f] = IF ~task[s].staged /\ task[s].field = f /\ task[s].value # 0
                                          THEN task[s].value
                                          ELSE IF ~(~task[s].staged /\ task[s].field = f) /\ msgCmd[x][f] # 0
                                          THEN msgCmd[x][f]
                                          ELSE saved[x][f]
             /\ msgCmd'[x][f] = 0
        /\ \A y \in Nodes \ {x} : msgCmd'[y] = msgCmd[y]
    BY <1>1, <1>8, ArmEffect
  <2>2. \A f \in Fields : Brings(s, x, f) <=> ~task[s].staged /\ task[s].field = f /\ task[s].value # 0
                                                /\ task[s].queued
    BY <1>8 DEF Brings
  <2>3. task[s].queued
    BY <1>1 DEF IInv, TablesSound
  <2>4. \A y \in Nodes, g \in Fields : Brings(s, y, g) => y = x
    BY DEF Brings
  <2>5. \A y \in Nodes : Sending(y)' <=> y = x
    BY <1>5, <1>8
  <2>. HIDE DEF x
  <2>6. ASSUME NEW y \in Nodes, NEW g \in Fields, last'[y][g] # 0
        PROVE  HeldAt(y, g)'
    <3>1. HeldAt(y, g) /\ last'[y][g] = last[y][g] /\ last[y][g] # 0
      BY <1>1, <2>6 DEF CmdInv, LastHeld
    <3>2. CASE \E r \in Slots : /\ Brings(r, y, g) /\ task[r].value = last[y][g]
                                /\ \A u \in Slots \ {r} : Brings(u, y, g) => Ahead(normalQ, u, r)
      <4>1. PICK r \in Slots : /\ Brings(r, y, g) /\ task[r].value = last[y][g]
                               /\ \A u \in Slots \ {r} : Brings(u, y, g) => Ahead(normalQ, u, r)
        BY <3>2
      <4>2. CASE r # s
        <5>1. /\ Brings(r, y, g)' /\ task'[r].value = last'[y][g]
              /\ \A u \in Slots \ {r} : Brings(u, y, g)' => Ahead(normalQ', u, r)
          BY <1>4, <3>1, <4>1, <4>2
        <5>. QED
          BY <3>1, <5>1 DEF HeldAt, Within
      <4>3. CASE r = s
        <5>1. y = x
          BY <2>4, <4>1, <4>3
        <5>2. \A u \in Slots : ~Brings(u, y, g)'
          BY <1>4, <1>8, <4>1, <4>3
        <5>3. Within(y, g) /\ msgCmd'[y][g] = 0 /\ buf'[g] = last'[y][g]
          BY <2>1, <2>2, <3>1, <4>1, <4>3, <5>1 DEF HeldAt
        <5>. QED
          BY <1>5, <2>5, <5>1, <5>2, <5>3 DEF HeldAt, Within
      <4>. QED
        BY <4>2, <4>3
    <3>3. CASE /\ \A r \in Slots : ~Brings(r, y, g)
               /\ msgCmd[y][g] = 0
               /\ saved[y][g] = last[y][g]
      <4>1. \A r \in Slots : ~Brings(r, y, g)'
        BY <1>4, <3>3
      <4>2. msgCmd'[y][g] = 0
        BY <2>1, <3>3
      <4>3. y = x => buf'[g] = last'[y][g]
        BY <2>1, <2>2, <2>3, <3>1, <3>3 DEF HeldAt
      <4>. QED
        BY <1>1, <1>5, <2>5, <3>1, <3>3, <4>1, <4>2, <4>3 DEF HeldAt, Within
    <3>. QED
      BY <1>5, <3>1, <3>2, <3>3 DEF HeldAt
  <2>7. ASSUME NEW y \in Nodes, NEW g \in Fields
        PROVE  OpenAt(y, g)'
    <3>1. OpenAt(y, g) /\ InHand(y, g) = {saved[y][g]}
      BY <1>5 DEF CmdInv, OpenSound, InHand
    <3>2. CASE y # x
      <4>1. InHand(y, g)' = {saved[y][g]} /\ msgCmd'[y] = msgCmd[y] /\ open'[y] = open[y]
        BY <1>1, <1>5, <2>1, <2>5, <3>2 DEF InHand
      <4>. QED
        BY <1>4, <3>1, <4>1 DEF OpenAt
    <3>3. CASE y = x
      <4>1. /\ InHand(y, g)' = {saved[y][g]} \cup IF Within(y, g) THEN {buf'[g]} ELSE {}
            /\ msgCmd'[y][g] = 0 /\ open'[y] = open[y]
        BY <1>1, <1>5, <2>1, <2>5, <3>3 DEF InHand, Within
      <4>2. Within(y, g) =>
              \/ buf'[g] = saved[y][g]
              \/ buf'[g] = msgCmd[y][g] /\ msgCmd[y][g] # 0
              \/ Brings(s, y, g) /\ buf'[g] = task[s].value
        BY <2>1, <2>2, <2>3, <3>3
      <4>3. \A w \in InHand(y, g)' : w # 0 => <<g, w>> \in open'[y]
        BY <3>1, <4>1, <4>2 DEF OpenAt
      <4>4. ASSUME NEW r \in Slots, Brings(r, y, g)'
            PROVE  /\ <<g, task'[r].value>> \in open'[y]
                   /\ task'[r].value # msgCmd'[y][g]
                   /\ task'[r].value \notin InHand(y, g)'
                   /\ \A u \in Slots : Brings(u, y, g)' /\ task'[u].value = task'[r].value => u = r
        <5>1. Brings(r, y, g) /\ r # s /\ task'[r].value = task[r].value /\ task[r].value # 0
          BY <1>4, <4>4 DEF Brings
        <5>2. \A u \in Slots : Brings(u, y, g)' => Brings(u, y, g) /\ task'[u].value = task[u].value
          BY <1>4
        <5>. QED
          BY <3>1, <4>1, <4>2, <5>1, <5>2 DEF OpenAt
      <4>. QED
        BY <4>1, <4>3, <4>4 DEF OpenAt
    <3>. QED
      BY <3>2, <3>3
  <2>. QED
    BY <1>6, <2>6, <2>7 DEF CmdInv, LastHeld, OpenSound
<1>. QED
  BY <1>7, <1>8

\* A priority task brings no command; a normal one starts when all that stood
\* ahead of it have been started.
LEMMA StartKeepsCommands ==
    ASSUME IInv, CmdInv, StartPriority \/ StartNormal
    PROVE  CmdInv'
<1>1. CASE StartPriority
  <2>. DEFINE s == Head(priorityQ)
  <2>1. /\ Start(s) /\ normalQ' = normalQ
        /\ s \in ToSet(priorityQ) /\ s \in Slots
    BY <1>1, TailQueue DEF StartPriority, PriorityTurn, IInv, TablesSound
  <2>2. s \in Slots /\ task[s].class = "priority" /\ task[s].used
    BY <2>1 DEF IInv, TablesSound, IsQueue, Start, MayRun
  <2>3. task[s].kind # "command"
    BY <2>2 DEF CmdInv, TasksSound
  <2>. HIDE DEF s
  <2>. QED
    BY <2>1, <2>2, <2>3, StartKeeps
<1>2. CASE StartNormal
  <2>. DEFINE s == Head(normalQ)
  <2>1. /\ Start(s) /\ normalQ' = Tail(normalQ) /\ normalQ # <<>> /\ IsQueue(normalQ)
        /\ s \in Slots
    BY <1>2, TailQueue DEF StartNormal, IInv, TablesSound
  <2>2. /\ \A r, u \in Slots : r # s /\ Ahead(normalQ, r, u) => Ahead(normalQ', r, u)
        /\ \A r \in Slots : ~Ahead(normalQ, r, s)
    BY <2>1, TailAhead
  <2>. HIDE DEF s
  <2>. QED
    BY <2>1, <2>2, StartKeeps
<1>. QED
  BY <1>1, <1>2

-------------------------------------------------------------------------------
(* A command has been answered *)

\* finalize_active_task: after a success nothing of the command is left, after
\* a failure the window is saved.
LEMMA FinalizeKeepsCommands ==
    ASSUME IInv, CmdInv, Finalize
    PROVE  CmdInv'
<1>1. PICK s \in Slots :
        /\ s = active /\ s # NoSlot /\ ~busy /\ active' = NoSlot /\ result' = "none"
        /\ UNCHANGED <<busy, last, open>>
        /\ task[s] \in TaskStates /\ task[s].used /\ ~task[s].queued /\ task[s].node \in Nodes
  BY DEF Finalize, history, IInv, TablesSound
<1>. DEFINE t == task[s]
            x == t.node
            u == IF t.enabled /\ t.periodic THEN [t EXCEPT !.queued = TRUE] ELSE FreeTask
<1>2. /\ task' = [task EXCEPT ![s] = u]
      /\ \/ UNCHANGED normalQ
         \/ normalQ' = Append(normalQ, s)
  <2>1. CASE t.enabled /\ t.periodic
    BY <1>1, <2>1 DEF Finalize, Enqueue
  <2>2. CASE ~(t.enabled /\ t.periodic)
    BY <1>1, <2>2 DEF Finalize
  <2>. QED
    BY <2>1, <2>2
<1>3. /\ u \in TaskStates
      /\ u.kind = "command" => t.kind = "command" /\ t.periodic
  BY <1>1, NewTaskType DEF TaskStates, FreeTask
<1>4. /\ t.kind = "command" => t.enabled /\ ~t.periodic
      /\ u.kind # "command"
  BY <1>1, <1>3 DEF CmdInv, TasksSound, TaskStates
<1>. HIDE DEF u
<1>5. /\ task' \in [Slots -> TaskStates] /\ task'[s] = u
      /\ \A r \in Slots : r # s => task'[r] = task[r]
  BY <1>2, <1>3 DEF IInv, TablesSound
<1>6. ASSUME NEW r \in Slots, NEW y \in Nodes, NEW g \in Fields
      PROVE  /\ Brings(r, y, g)' <=> Brings(r, y, g)
             /\ Brings(r, y, g) => task'[r].value = task[r].value
  <2>1. CASE r = s
    BY <1>1, <1>4, <1>5, <2>1 DEF Brings
  <2>2. CASE r # s
    BY <1>5, <2>2 DEF Brings
  <2>. QED
    BY <2>1, <2>2
<1>7. ASSUME NEW q \in Slots, NEW r \in Slots, Ahead(normalQ, q, r)
      PROVE  Ahead(normalQ', q, r)
  BY <1>1, <1>2, <1>7, AppendAhead DEF IInv, TablesSound
<1>8. TasksSound'
  BY <1>1, <1>4, <1>5 DEF CmdInv, TasksSound, Within
<1>9. \A y \in Nodes :
        /\ ~Sending(y)' /\ ~Acked(y)'
        /\ Sending(y) <=> t.kind = "command" /\ y = x
        /\ Acked(y) <=> t.kind = "command" /\ y = x /\ result = "success"
  BY <1>1 DEF Sending, Acked
<1>10. CASE t.kind # "command"
  <2>1. UNCHANGED <<msgCmd, buf, saved, last, open>>
    BY <1>1, <1>10 DEF Finalize, cmdVars
  <2>2. LastHeld' /\ OpenSound'
    BY <1>6, <1>7, <1>9, <1>10, <2>1, SameCommands
  <2>. QED
    BY <1>8, <2>2 DEF CmdInv
<1>11. CASE t.kind = "command"
  <2>1. /\ msgCmd' = [msgCmd EXCEPT ![x] = Empty]
        /\ IF result = "success"
           THEN saved' = [saved EXCEPT ![x] = Empty]
           ELSE saved' = [saved EXCEPT ![x] = [f \in Fields |->
                             IF Within(x, f) THEN buf[f] ELSE @[f]]]
    BY <1>1, <1>4, <1>11 DEF Finalize, SettledBy
  <2>2. /\ \A y \in Nodes \ {x} : msgCmd'[y] = msgCmd[y] /\ saved'[y] = saved[y]
        /\ \A f \in Fields :
             /\ msgCmd'[x][f] = 0
             /\ result = "success" => saved'[x][f] = 0
             /\ result # "success" => saved'[x][f] = IF Within(x, f) THEN buf[f] ELSE saved[x][f]
    BY <1>1, <2>1 DEF Empty, IInv, WindowsSound
  <2>3. x \in Nodes
    BY <1>1
  <2>. HIDE DEF x
  <2>4. ASSUME NEW y \in Nodes, NEW g \in Fields, last'[y][g] # 0
        PROVE  HeldAt(y, g)'
    <3>1. HeldAt(y, g) /\ last'[y][g] = last[y][g]
      BY <1>1, <2>4 DEF CmdInv, LastHeld
    <3>2. CASE \E r \in Slots : /\ Brings(r, y, g) /\ task[r].value = last[y][g]
                                /\ \A q \in Slots \ {r} : Brings(q, y, g) => Ahead(normalQ, q, r)
      BY <1>6, <1>7, <3>1, <3>2 DEF HeldAt, Within
    <3>3. CASE /\ \A r \in Slots : ~Brings(r, y, g)
               /\ msgCmd[y][g] = 0 /\ ~Acked(y)
               /\ IF Sending(y) THEN buf[g] = last[y][g] ELSE saved[y][g] = last[y][g]
      <4>1. Within(y, g)
        BY <3>1 DEF HeldAt
      <4>2. msgCmd'[y][g] = 0 /\ saved'[y][g] = last[y][g]
        BY <1>9, <1>11, <2>2, <2>3, <3>3, <4>1
      <4>. QED
        BY <1>6, <1>9, <3>1, <3>3, <4>1, <4>2 DEF HeldAt, Within
    <3>. QED
      BY <3>1, <3>2, <3>3 DEF HeldAt
  <2>5. ASSUME NEW y \in Nodes, NEW g \in Fields
        PROVE  OpenAt(y, g)'
    <3>1. OpenAt(y, g) /\ open'[y] = open[y]
      BY <1>1 DEF CmdInv, OpenSound
    <3>2. InHand(y, g)' = {saved'[y][g]} /\ msgCmd'[y][g] \in {0, msgCmd[y][g]}
      BY <1>9, <2>2, <2>3 DEF InHand
    <3>3. saved'[y][g] = 0 \/ saved'[y][g] \in InHand(y, g)
      BY <1>9, <1>11, <2>2, <2>3 DEF InHand
    <3>4. \A r \in Slots : Brings(r, y, g)' =>
             Brings(r, y, g) /\ task'[r].value = task[r].value /\ task[r].value # 0
      BY <1>6 DEF Brings
    <3>. QED
      BY <3>1, <3>2, <3>3, <3>4 DEF OpenAt
  <2>. QED
    BY <1>8, <2>4, <2>5 DEF CmdInv, LastHeld, OpenSound
<1>. QED
  BY <1>10, <1>11

\* A positive answer settles what was sent, and nothing that still waits.
LEMMA DoneKeepsCommands ==
    ASSUME IInv, CmdInv, NEW r \in Results, ExchangeDone(r)
    PROVE  CmdInv'
<1>. DEFINE x == task[active].node
<1>1. /\ busy /\ ~busy' /\ result = "none" /\ result' = r
      /\ active \in Slots /\ active # NoSlot /\ x \in Nodes
      /\ UNCHANGED <<task, normalQ, active, msgCmd, buf, saved>>
      /\ IF r = "success" /\ task[active].kind = "command"
         THEN /\ last' = [last EXCEPT ![x] = [f \in Fields |->
                            IF <<f, @[f]>> \in Delivered(x) THEN 0 ELSE @[f]]]
              /\ open' = [open EXCEPT ![x] = @ \ (Delivered(x) \cup Settled(x))]
         ELSE UNCHANGED <<last, open>>
  BY DEF ExchangeDone, Exchange, queueVars, cmdVars, IInv, TablesSound, TickSound,
         CmdInv, TasksSound
<1>2. \A y \in Nodes :
        /\ Sending(y)' <=> Sending(y)
        /\ Sending(y) <=> task[active].kind = "command" /\ y = x
        /\ ~Acked(y)
        /\ Acked(y)' <=> Sending(y) /\ r = "success"
  BY <1>1 DEF Sending, Acked
<1>3. \A s \in Slots, y \in Nodes, g \in Fields : Brings(s, y, g)' <=> Brings(s, y, g)
  BY <1>1 DEF Brings
<1>4. TasksSound'
  BY <1>1 DEF CmdInv, TasksSound, Within
<1>5. CASE ~(r = "success" /\ task[active].kind = "command")
  <2>1. UNCHANGED <<msgCmd, buf, saved, last, open>>
    BY <1>1, <1>5
  <2>2. LastHeld' /\ OpenSound'
    BY <1>1, <1>2, <1>3, <1>5, <2>1, SameCommands
  <2>. QED
    BY <1>4, <2>2 DEF CmdInv
<1>6. CASE r = "success" /\ task[active].kind = "command"
  <2>. HIDE DEF x
  <2>1. \A y \in Nodes : (Acked(y)' <=> y = x) /\ (Sending(y) <=> y = x)
    BY <1>2, <1>6
  <2>2. /\ \A y \in Nodes \ {x} : last'[y] = last[y] /\ open'[y] = open[y]
        /\ \A f \in Fields :
             last'[x][f] = IF <<f, last[x][f]>> \in Delivered(x) THEN 0 ELSE last[x][f]
        /\ open'[x] = open[x] \ (Delivered(x) \cup Settled(x))
    BY <1>1, <1>6 DEF IInv, WindowsSound
  <2>3. ASSUME NEW y \in Nodes, NEW g \in Fields, last'[y][g] # 0
        PROVE  HeldAt(y, g)'
    <3>1. last'[y][g] = last[y][g]
      BY <2>2, <2>3
    <3>2. HeldAt(y, g) /\ last[y][g] # 0
      BY <2>3, <3>1 DEF CmdInv, LastHeld
    <3>3. CASE y # x
      BY <1>1, <1>2, <1>3, <2>1, <3>1, <3>2, <3>3 DEF HeldAt, Within
    <3>4. CASE y = x
      <4>1. buf[g] # last[y][g]
        BY <2>2, <2>3, <3>1, <3>2, <3>4 DEF Delivered, HeldAt
      <4>2. \E s \in Slots : /\ Brings(s, y, g) /\ task[s].value = last[y][g]
                             /\ \A q \in Slots \ {s} : Brings(q, y, g) => Ahead(normalQ, q, s)
        BY <2>1, <3>2, <3>4, <4>1 DEF HeldAt
      <4>. QED
        BY <1>1, <1>3, <3>1, <3>2, <4>2 DEF HeldAt, Within
    <3>. QED
      BY <3>3, <3>4
  <2>4. ASSUME NEW y \in Nodes, NEW g \in Fields
        PROVE  OpenAt(y, g)'
    <3>1. OpenAt(y, g)
      BY DEF CmdInv, OpenSound
    <3>2. CASE y # x
      <4>1. InHand(y, g)' = InHand(y, g)
        BY <1>1, <1>2, <2>1, <3>2 DEF InHand
      <4>. QED
        BY <1>1, <1>3, <2>2, <3>1, <3>2, <4>1 DEF OpenAt
    <3>3. CASE y = x
      <4>1. InHand(y, g)' = {}
        BY <2>1, <3>3 DEF InHand
      <4>2. \A v : <<g, v>> \in Delivered(y) => v \in InHand(y, g)
        BY <1>2, <2>1, <3>3 DEF InHand, Delivered
      <4>3. ASSUME NEW v, <<g, v>> \in open[y], v \notin InHand(y, g), <<g, v>> \in Waiting(y)
            PROVE  <<g, v>> \in open'[y]
        BY <2>2, <3>3, <4>2, <4>3 DEF Settled
      <4>4. msgCmd[y][g] # 0 => <<g, msgCmd[y][g]>> \in open'[y]
        <5>1. <<g, msgCmd[y][g]>> \in Waiting(y)
          BY DEF Waiting
        <5>. QED
          BY <3>1, <4>3, <5>1 DEF OpenAt
      <4>5. ASSUME NEW s \in Slots, Brings(s, y, g)
            PROVE  <<g, task[s].value>> \in open'[y]
        <5>1. <<g, task[s].value>> \in Waiting(y)
          BY <4>5 DEF Waiting, Brings
        <5>. QED
          BY <3>1, <4>3, <4>5, <5>1 DEF OpenAt
      <4>. QED
        BY <1>1, <1>3, <3>1, <4>1, <4>4, <4>5 DEF OpenAt
    <3>. QED
      BY <3>2, <3>3
  <2>. QED
    BY <1>4, <2>3, <2>4 DEF CmdInv, LastHeld, OpenSound
<1>. QED
  BY <1>5, <1>6

\* The invariant is inductive.
LEMMA NextCommands ==
    ASSUME IInv, CmdInv, [Next]_vars
    PROVE  CmdInv'
<1>1. ASSUME NEW x \in Nodes, StayOff(x) PROVE CmdInv'
  BY <1>1, SameState DEF StayOff, NodeStep, busVars, cmdVars, history
<1>2. CASE PolicyChange \/ EndControl \/ ScheduleNothing \/ UNCHANGED vars
  BY <1>2, SameState DEF PolicyChange, EndControl, ScheduleNothing, vars, queueVars,
                         busVars, cmdVars, history
<1>3. CASE StartNothing \/ ExchangeContinues
  BY <1>3, SameState DEF StartNothing, ExchangeContinues, Exchange, queueVars, busVars, cmdVars
<1>. QED
  BY <1>1, <1>2, <1>3, AddKeepsCommands, CmdKeepsCommands, StageKeepsCommands,
     KeepKeepsCommands, CancelKeepsCommands, FinalizeKeepsCommands, StartKeepsCommands,
     DoneKeepsCommands DEF Next

-------------------------------------------------------------------------------
(* The theorems *)

\* The last command given for a field of a node is kept until a target has
\* accepted it, for any number of nodes that share the transmit buffer, of
\* task slots and of failures in a row (finalize_active_task saves the window,
\* prepare_command_exchange loads it again and lets a later command win).
THEOREM CommandsKept == Spec => []CmdKept
<1>1. Init => IInv /\ CmdInv
  BY InitInvariant, InitCommands
<1>2. (IInv /\ CmdInv) /\ [Next]_vars => (IInv /\ CmdInv)'
  BY NextInvariant, NextCommands
<1>3. IInv /\ CmdInv => CmdKept
  BY CommandInvariants
<1>. QED
  BY <1>1, <1>2, <1>3, PTL DEF Spec

\* Nothing is sent to a node but commands that were issued for this node and
\* that no target has accepted, although all windows pass through one buffer
\* and a failed window is merged with what is queued and staged since.
THEOREM NothingStale == Spec => []NoStaleCommand
<1>1. Init => IInv /\ CmdInv
  BY InitInvariant, InitCommands
<1>2. (IInv /\ CmdInv) /\ [Next]_vars => (IInv /\ CmdInv)'
  BY NextInvariant, NextCommands
<1>3. IInv /\ CmdInv => NoStaleCommand
  BY CommandInvariants
<1>. QED
  BY <1>1, <1>2, <1>3, PTL DEF Spec

================================================================================
