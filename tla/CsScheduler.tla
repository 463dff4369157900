------------------------------ MODULE CsScheduler ------------------------------
(*****************************************************************************)
(* The exchange scheduler of CS (cs_scheduler*.cpp) and the way a command    *)
(* takes from the operator to the bus: task slots, the normal and the        *)
(* priority queue, the working window MSG_CMD of every node, the transmit    *)
(* buffer MSG_CMD_BUF all nodes share, and the window saved after a failure. *)
(*                                                                           *)
(* CS is one thread.  A tick is a sequence of steps: the operator's commands *)
(* (ICSCONTROL), the periodic policy of every node in a fixed order          *)
(* (ICSNODES), the scheduler with the arming of an exchange (ICSSCHEDULER,   *)
(* IBUSEXCHANGE), and the exchange itself.  The exchange is abstract: it     *)
(* takes some ticks and always ends with a result, which is what             *)
(* ExchangeEnds and NoOrphan of module BusExchange say of it.                *)
(*****************************************************************************)
EXTENDS Integers, SequencesExt

CONSTANTS
    Nodes,       \* the systems CS exchanges with
    NodeOrder,   \* the order of their steps in a tick (G_NODE_STEP_ORDER)
    Width,       \* [Nodes -> number of command fields in the window]
    MaxTasks,    \* k_max_tasks
    BurstLimit,  \* k_priority_burst_limit
    MaxValue,    \* command values are 0 .. MaxValue; a zero is no command
    MaxWidth,    \* bound on the fields of a window
    PolicySet    \* the policies the environment chooses from

VARIABLES
    task,      \* G_TASKS
    normalQ,   \* G_NORMAL_QUEUE
    priorityQ, \* G_PRIORITY_QUEUE
    active,    \* G_ACTIVE_TASK_SLOT
    burst,     \* G_PRIORITY_BURST, counted up to BurstLimit
    msgCmd,    \* MSG_CMD, one window per node
    buf,       \* MSG_CMD_BUF
    saved,     \* G_PENDING_CMD
    policy,    \* what operating_mode::policy_for says of every node
    busy,      \* exchange_busy
    result,    \* last_result, "none" when there is none to take
    phase,     \* the part of the tick CS is in
    at,        \* the next node of NodeOrder to step
    bypassed,  \* history: priority tasks started in a row while a normal one
               \* waited, counted up to BurstLimit + 1
    last,      \* history: the last command CS accepted for a field and has
               \* not delivered yet
    lastStaged,\* history: the same of the commands that were only staged
    open       \* history: commands issued for a node and not acknowledged

queueVars == <<task, normalQ, priorityQ, active, burst>>
cmdVars   == <<msgCmd, buf, saved>>
busVars   == <<busy, result>>
tickVars  == <<phase, at>>
history   == <<bypassed, last, lastStaged, open>>
vars      == <<queueVars, cmdVars, policy, busVars, tickVars, history>>

Slots    == 1 .. MaxTasks
NoSlot   == 0
Fields   == 1 .. MaxWidth
Values   == 0 .. MaxValue
Classes  == {"normal", "priority"}
Policies == Classes \cup {"off"}
Results  == {"success", "timeout", "invalid_eof"}
Windows  == [Fields -> Values]
Empty    == [f \in Fields |-> 0]
NoNode   == "none"

ASSUME SchedulerAssumption ==
    /\ NoNode \notin Nodes
    /\ NodeOrder \in Seq(Nodes) /\ NodeOrder # <<>>
    /\ \A x \in Nodes : \E i \in 1 .. Len(NodeOrder) : NodeOrder[i] = x
    /\ Width \in [Nodes -> Fields]
    /\ MaxTasks \in Nat \ {0}
    /\ BurstLimit \in Nat \ {0}
    /\ MaxValue \in Nat
    /\ MaxWidth \in Nat \ {0}
    /\ PolicySet \subseteq Policies

\* task_t.  A task that is active is armed in the step that activates it, so
\* active and exchange_armed are both slot = active.
FreeTask ==
    [used |-> FALSE, queued |-> FALSE, periodic |-> FALSE, enabled |-> FALSE,
     staged |-> FALSE, kind |-> "data", class |-> "normal", node |-> NoNode,
     field |-> 0, value |-> 0]

NewTask == [FreeTask EXCEPT !.used = TRUE, !.queued = TRUE, !.enabled = TRUE]

DataTask(x, class, periodic) ==
    [NewTask EXCEPT !.node = x, !.class = class, !.periodic = periodic]

CommandTask(x, f, v) ==
    [NewTask EXCEPT !.kind = "command", !.node = x, !.field = f, !.value = v]

StagedTask(x) ==
    [NewTask EXCEPT !.kind = "command", !.node = x, !.staged = TRUE]

Init ==
    /\ task = [s \in Slots |-> FreeTask]
    /\ normalQ = <<>>
    /\ priorityQ = <<>>
    /\ active = NoSlot
    /\ burst = 0
    /\ msgCmd = [x \in Nodes |-> Empty]
    /\ buf = Empty
    /\ saved = [x \in Nodes |-> Empty]
    /\ policy \in [Nodes -> PolicySet]
    /\ busy = FALSE
    /\ result = "none"
    /\ phase = "control"
    /\ at = 1
    /\ bypassed = 0
    /\ last = [x \in Nodes |-> Empty]
    /\ lastStaged = [x \in Nodes |-> Empty]
    /\ open = [x \in Nodes |-> {}]

-------------------------------------------------------------------------------
(* Task slots and queues *)

FreeSlots == {s \in Slots : ~task[s].used}

\* alloc_task_slot: the first free slot.
FirstFree == CHOOSE s \in FreeSlots : \A r \in FreeSlots : s <= r

\* queue_task_slot
Enqueue(s, class) ==
    /\ normalQ'   = IF class = "normal" THEN Append(normalQ, s) ELSE normalQ
    /\ priorityQ' = IF class = "priority" THEN Append(priorityQ, s) ELSE priorityQ

\* remove_slot_from_queues.  Mutant: the priority queue keeps the slot.
DequeueNormal(s) ==
    normalQ' = RemoveFirst(normalQ, s) /\ UNCHANGED priorityQ
Dequeue(s) ==
    /\ normalQ'   = RemoveFirst(normalQ, s)
    /\ priorityQ' = RemoveFirst(priorityQ, s)

\* add_task; when every slot is taken the task is refused with a warning.
AddTask(t) ==
    IF FreeSlots = {}
    THEN UNCHANGED <<task, normalQ, priorityQ>>
    ELSE /\ task' = [task EXCEPT ![FirstFree] = t]
         /\ Enqueue(FirstFree, t.class)

Accepted == FreeSlots # {}

\* find_periodic_data_task_slot
PeriodicOf(x) ==
    {s \in Slots : /\ task[s].used /\ task[s].periodic
                   /\ task[s].kind = "data" /\ task[s].node = x}

\* What pop_valid takes from the front of a queue.  It skips a slot whose task
\* may not run; the model stops there instead, and the deadlock check with
\* QueuesSound shows that no such slot is ever queued.
MayRun(s) == task[s].used /\ task[s].enabled

-------------------------------------------------------------------------------
(* ICSCONTROL: the operator's commands, any number of them in a tick *)

Control(x) ==
    /\ phase = "control"
    /\ UNCHANGED <<active, burst, buf, saved, busVars, tickVars, bypassed>>

\* exchange <target>
OperatorExchange(x) ==
    /\ Control(x)
    /\ AddTask(DataTask(x, "normal", FALSE))
    /\ UNCHANGED <<msgCmd, policy, last, lastStaged, open>>

\* cmd <target> <KEY> [value]: the value is kept in the task, not in MSG_CMD.
\* The operator gives a command in flight a new value (an input bound that
\* lets a value identify a command).
OperatorCmd(x, f, v) ==
    /\ Control(x)
    /\ <<f, v>> \notin open[x]
    /\ AddTask(CommandTask(x, f, v))
    /\ IF Accepted /\ v # 0
       THEN /\ last' = [last EXCEPT ![x][f] = v]
            /\ lastStaged' = [lastStaged EXCEPT ![x][f] = 0]
            /\ open' = [open EXCEPT ![x] = @ \cup {<<f, v>>}]
       ELSE IF Accepted
       THEN /\ lastStaged' = [lastStaged EXCEPT ![x][f] = 0]
            /\ UNCHANGED <<last, open>>
       ELSE UNCHANGED <<last, lastStaged, open>>
    /\ UNCHANGED <<msgCmd, policy>>

\* A queued command of the same field will be written over the staged value.
Overwrites(x, f) ==
    \E s \in Slots : /\ task[s].queued /\ task[s].kind = "command"
                     /\ task[s].node = x /\ task[s].field = f

\* stagecmd <target> <KEY> [value]: straight into MSG_CMD.
OperatorStage(x, f, v) ==
    /\ Control(x)
    /\ <<f, v>> \notin open[x]
    /\ msgCmd' = [msgCmd EXCEPT ![x][f] = v]
    /\ last' = IF v # 0 THEN [last EXCEPT ![x][f] = 0] ELSE last
    /\ lastStaged' = [lastStaged EXCEPT ![x][f] =
                        IF Overwrites(x, f) THEN 0 ELSE v]
    /\ open' = IF v # 0 THEN [open EXCEPT ![x] = @ \cup {<<f, v>>}] ELSE open
    /\ UNCHANGED <<task, normalQ, priorityQ, policy>>

\* sendcmd <target>: send what is staged.
OperatorSend(x) ==
    /\ Control(x)
    /\ AddTask(StagedTask(x))
    /\ UNCHANGED <<msgCmd, policy, last, lastStaged, open>>

\* enable, disable, focus, nominal, and the cooldown of a node that fails:
\* all change what policy_for answers (modules CsOperatingMode and CsMaster).
PolicyChange ==
    /\ phase = "control"
    /\ policy' \in [Nodes -> PolicySet]
    /\ policy' # policy
    /\ UNCHANGED <<queueVars, cmdVars, busVars, tickVars, history>>

EndControl ==
    /\ phase = "control"
    /\ phase' = "nodes"
    /\ at' = 1
    /\ UNCHANGED <<queueVars, cmdVars, policy, busVars, history>>

-------------------------------------------------------------------------------
(* ICSNODES: apply_periodic_policy of one node after the other *)

\* Mutant: one step more than there are nodes.
PastLastNode == at > Len(NodeOrder)
LastNode == at = Len(NodeOrder)

NodeStep(x) ==
    /\ phase = "nodes"
    /\ x = NodeOrder[at]
    /\ phase' = IF LastNode THEN "schedule" ELSE "nodes"
    /\ at' = IF LastNode THEN 1 ELSE at + 1
    /\ UNCHANGED <<active, burst, cmdVars, policy, busVars, history>>

\* ensure_periodic_exchange without a periodic task: add one.
AddPeriodic(x) ==
    /\ NodeStep(x)
    /\ policy[x] # "off"
    /\ PeriodicOf(x) = {}
    /\ AddTask(DataTask(x, policy[x], TRUE))

\* ... with one: enable it and move it to the queue of the wanted class
\* (update_task_queue_class).
KeepPeriodic(x) ==
    /\ NodeStep(x)
    /\ policy[x] # "off"
    /\ \E s \in PeriodicOf(x) :
         /\ \A r \in PeriodicOf(x) : s <= r
         /\ task' = [task EXCEPT ![s].enabled = TRUE, ![s].class = policy[x],
                                 ![s].queued = IF task[s].class = policy[x]
                                               THEN @ ELSE s # active]
         /\ IF task[s].class = policy[x]
            THEN UNCHANGED <<normalQ, priorityQ>>
            ELSE LET without(q) == IF task[s].queued THEN RemoveFirst(q, s) ELSE q
                     with(q)    == IF s # active THEN Append(without(q), s)
                                   ELSE without(q)
                 IN  IF policy[x] = "priority"
                     THEN /\ normalQ' = without(normalQ)
                          /\ priorityQ' = with(priorityQ)
                     ELSE /\ normalQ' = with(normalQ)
                          /\ priorityQ' = without(priorityQ)

\* cancel_periodic_exchange: the task under way is finished, not renewed.
\* Mutant: it stays the periodic task of its node.
DisabledOnly(t) == [t EXCEPT !.enabled = FALSE]
Cancelled(t) == [t EXCEPT !.enabled = FALSE, !.periodic = FALSE]

CancelPeriodic(x) ==
    /\ NodeStep(x)
    /\ policy[x] = "off"
    /\ \E s \in PeriodicOf(x) :
         /\ \A r \in PeriodicOf(x) : s <= r
         /\ IF s = active
            THEN /\ task' = [task EXCEPT ![s] = Cancelled(task[s])]
                 /\ UNCHANGED <<normalQ, priorityQ>>
            ELSE /\ task' = [task EXCEPT ![s] = FreeTask]
                 /\ Dequeue(s)

StayOff(x) ==
    /\ NodeStep(x)
    /\ policy[x] = "off"
    /\ PeriodicOf(x) = {}
    /\ UNCHANGED <<task, normalQ, priorityQ>>

-------------------------------------------------------------------------------
(* ICSSCHEDULER and the arming of the exchange in IBUSEXCHANGE *)

Schedule ==
    /\ phase = "schedule"
    /\ phase' = "exchange"
    /\ UNCHANGED <<at, policy>>

\* The bus is busy, or the exchange under way has no result: nothing to do.
ScheduleNothing ==
    /\ Schedule
    /\ busy \/ (active # NoSlot /\ result = "none")
    /\ UNCHANGED <<queueVars, cmdVars, busVars, history>>

\* The window of node x in a buffer all nodes share.
Within(x, f) == f <= Width[x]

\* Whether the commands just sent are done with.
\* Mutants: a timeout counts as sent; an acknowledgement does not.
SettledByTimeout(t) == result # "invalid_eof" \/ ~t.enabled
SettledByCancel(t) == ~t.enabled
SettledBy(t) == result = "success" \/ ~t.enabled

\* finalize_active_task
Finalize ==
    LET t == task[active]
        x == t.node
    IN  /\ Schedule
        /\ ~busy
        /\ active # NoSlot
        /\ result # "none"
        /\ result' = "none"
        /\ active' = NoSlot
        /\ IF t.kind = "command"
           THEN /\ msgCmd' = [msgCmd EXCEPT ![x] = Empty]
                /\ IF SettledBy(t)
                   THEN /\ buf' = [f \in Fields |-> IF Within(x, f) THEN 0 ELSE buf[f]]
                        /\ saved' = [saved EXCEPT ![x] = Empty]
                   ELSE /\ saved' = [saved EXCEPT ![x] = [f \in Fields |->
                                        IF Within(x, f) THEN buf[f] ELSE @[f]]]
                        /\ UNCHANGED buf
           ELSE UNCHANGED cmdVars
        /\ IF t.enabled /\ t.periodic
           THEN /\ task' = [task EXCEPT ![active].queued = TRUE]
                /\ Enqueue(active, t.class)
           ELSE /\ task' = [task EXCEPT ![active] = FreeTask]
                /\ UNCHANGED <<normalQ, priorityQ>>
        /\ UNCHANGED <<burst, busy, history>>

\* The buffer is cleared, then loaded with the saved window.
Loaded(x, f) == saved[x][f]

\* activate_task, then arm_active_exchange: prepare_command_exchange loads
\* the window saved after a failure, writes the task's own command into
\* MSG_CMD, lets the nonzero commands of MSG_CMD replace those in the buffer
\* and clears MSG_CMD.
Arm(s) ==
    LET t == task[s]
        x == t.node
        wanted == IF t.staged THEN msgCmd[x]
                  ELSE [msgCmd[x] EXCEPT ![t.field] = t.value]
    IN  /\ active' = s
        /\ busy' = TRUE
        /\ result' = "none"
        /\ IF t.kind = "command"
           THEN /\ buf' = [f \in Fields |->
                             IF ~Within(x, f) THEN buf[f]
                             ELSE IF wanted[f] # 0 THEN wanted[f]
                             ELSE Loaded(x, f)]
                /\ msgCmd' = [msgCmd EXCEPT ![x] = Empty]
           ELSE UNCHANGED <<buf, msgCmd>>
        /\ UNCHANGED <<saved, last, lastStaged, open>>

\* The scheduler looks for a task.
Idle ==
    /\ Schedule
    /\ ~busy
    /\ active = NoSlot

\* Mutant: no limit on the priority tasks in a row.
PriorityAlways == priorityQ # <<>>
PriorityTurn == priorityQ # <<>> /\ (normalQ = <<>> \/ burst < BurstLimit)

Start(s) ==
    /\ Idle
    /\ MayRun(s)
    /\ task' = [task EXCEPT ![s].queued = FALSE]
    /\ Arm(s)

StartPriority ==
    /\ PriorityTurn
    /\ Start(Head(priorityQ))
    /\ priorityQ' = Tail(priorityQ)
    /\ burst' = IF burst < BurstLimit THEN burst + 1 ELSE burst
    /\ bypassed' = IF normalQ = <<>> THEN 0
                   ELSE IF bypassed > BurstLimit THEN bypassed ELSE bypassed + 1
    /\ UNCHANGED normalQ

StartNormal ==
    /\ ~PriorityTurn
    /\ normalQ # <<>>
    /\ Start(Head(normalQ))
    /\ normalQ' = Tail(normalQ)
    /\ burst' = 0
    /\ bypassed' = 0
    /\ UNCHANGED priorityQ

StartNothing ==
    /\ Idle
    /\ normalQ = <<>>
    /\ priorityQ = <<>>
    /\ burst' = 0
    /\ bypassed' = 0
    /\ UNCHANGED <<task, normalQ, priorityQ, active, cmdVars, busVars,
                   last, lastStaged, open>>

-------------------------------------------------------------------------------
(* The exchange of one tick *)

Exchange ==
    /\ phase = "exchange"
    /\ phase' = "control"
    /\ UNCHANGED <<queueVars, cmdVars, policy, at, bypassed>>

ExchangeContinues ==
    /\ Exchange
    /\ UNCHANGED <<busVars, last, lastStaged, open>>

\* What the target has accepted, and what is still to be sent to it.
Delivered(x) == {<<f, buf[f]>> : f \in {g \in Fields : Within(x, g) /\ buf[g] # 0}}
Waiting(x)   ==
    {<<f, msgCmd[x][f]>> : f \in Fields}
      \cup {<<task[s].field, task[s].value>> :
              s \in {r \in Slots : task[r].queued /\ task[r].node = x}}

\* An acknowledged field settles every command issued for it that does not
\* wait to be sent.
Settled(x) == {c \in open[x] : buf[c[1]] # 0 /\ c \notin Waiting(x)}

ExchangeDone(r) ==
    LET x == task[active].node
    IN  /\ Exchange
        /\ busy
        /\ busy' = FALSE
        /\ result' = r
        /\ IF r = "success" /\ task[active].kind = "command"
           THEN /\ last' = [last EXCEPT ![x] = [f \in Fields |->
                              IF <<f, @[f]>> \in Delivered(x) THEN 0 ELSE @[f]]]
                /\ lastStaged' = [lastStaged EXCEPT ![x] = [f \in Fields |->
                              IF <<f, @[f]>> \in Delivered(x) THEN 0 ELSE @[f]]]
                /\ open' = [open EXCEPT ![x] = @ \ (Delivered(x) \cup Settled(x))]
           ELSE UNCHANGED <<last, lastStaged, open>>

Next ==
    \/ \E x \in Nodes :
         \/ OperatorExchange(x)
         \/ \E f \in Fields, v \in Values :
              Within(x, f) /\ (OperatorCmd(x, f, v) \/ OperatorStage(x, f, v))
         \/ OperatorSend(x)
         \/ AddPeriodic(x)
         \/ KeepPeriodic(x)
         \/ CancelPeriodic(x)
         \/ StayOff(x)
    \/ PolicyChange
    \/ EndControl
    \/ ScheduleNothing
    \/ Finalize
    \/ StartPriority
    \/ StartNormal
    \/ StartNothing
    \/ ExchangeContinues
    \/ \E r \in Results : ExchangeDone(r)

\* CS is one thread that never blocks; the exchange ends with a result
\* (ExchangeEnds and NoOrphan of BusExchange).
Fairness ==
    /\ WF_vars(EndControl)
    /\ WF_vars(\E x \in Nodes : AddPeriodic(x) \/ KeepPeriodic(x)
                                  \/ CancelPeriodic(x) \/ StayOff(x))
    /\ WF_vars(ScheduleNothing \/ Finalize \/ StartPriority \/ StartNormal
                 \/ StartNothing)
    /\ WF_vars(ExchangeContinues)
    /\ SF_vars(\E r \in Results : ExchangeDone(r))

Spec     == Init /\ [][Next]_vars
FairSpec == Spec /\ Fairness

-------------------------------------------------------------------------------
(* Properties *)

TaskStates ==
    [used : BOOLEAN, queued : BOOLEAN, periodic : BOOLEAN, enabled : BOOLEAN,
     staged : BOOLEAN, kind : {"command", "data"}, class : Classes,
     node : Nodes \cup {NoNode}, field : Fields \cup {0}, value : Values]

\* The type invariant.
TypeOK ==
    /\ task \in [Slots -> TaskStates]
    /\ normalQ \in Seq(Slots)
    /\ priorityQ \in Seq(Slots)
    /\ active \in Slots \cup {NoSlot}
    /\ burst \in 0 .. BurstLimit
    /\ msgCmd \in [Nodes -> Windows]
    /\ buf \in Windows
    /\ saved \in [Nodes -> Windows]
    /\ policy \in [Nodes -> Policies]
    /\ busy \in BOOLEAN
    /\ result \in Results \cup {"none"}
    /\ phase \in {"control", "nodes", "schedule", "exchange"}
    /\ at \in 1 .. Len(NodeOrder)
    /\ bypassed \in 0 .. BurstLimit + 1
    /\ last \in [Nodes -> Windows]
    /\ lastStaged \in [Nodes -> Windows]
    /\ open \in [Nodes -> SUBSET (Fields \X Values)]

\* No task is lost and none runs twice: a used slot is either the active one
\* or waits exactly once, in the queue of its class, and may run; a free slot
\* waits nowhere.  (A slot is reused as soon as its task ends, so a stale
\* queue entry would start a task of somebody else.)
QueuesSound ==
    /\ \A s \in Slots :
         /\ task[s].queued <=> s \in ToSet(normalQ) \cup ToSet(priorityQ)
         /\ task[s].queued => task[s].enabled
         /\ task[s].used <=> task[s].queued \/ s = active
         /\ s = active => ~task[s].queued
    /\ \A i, j \in 1 .. Len(normalQ) : normalQ[i] = normalQ[j] => i = j
    /\ \A i, j \in 1 .. Len(priorityQ) : priorityQ[i] = priorityQ[j] => i = j
    /\ \A i \in 1 .. Len(normalQ) : task[normalQ[i]].class = "normal"
    /\ \A i \in 1 .. Len(priorityQ) : task[priorityQ[i]].class = "priority"

\* When the scheduler runs, the periodic tasks are those of the policy of
\* this very tick: none for a node that is switched off or cools down, else
\* exactly one, in the queue of its class.  Only a full table may cost a node
\* its task (a node that steps later may have freed a slot since).
PolicyFollowed ==
    phase = "schedule" =>
        \A x \in Nodes :
            /\ policy[x] = "off" => PeriodicOf(x) = {}
            /\ \A s, r \in PeriodicOf(x) : s = r /\ task[s].class = policy[x]
            /\ policy[x] # "off" /\ PeriodicOf(x) = {} =>
                   Cardinality(FreeSlots) < Cardinality(Nodes)

\* A normal task is never passed by more than BurstLimit priority tasks in a
\* row, whatever the policy moves between the queues.
NormalNotBypassed == bypassed <= BurstLimit

\* The last command given for a field is kept until a target has accepted it:
\* it waits in its task, is under way, or was saved after a failure, though
\* all nodes share one transmit buffer.
CmdKept ==
    \A x \in Nodes, f \in Fields : last[x][f] # 0 =>
        \/ saved[x][f] = last[x][f]
        \/ \E s \in Slots :
             /\ task[s].kind = "command"
             /\ task[s].node = x
             /\ \/ task[s].queued /\ ~task[s].staged
                     /\ task[s].field = f /\ task[s].value = last[x][f]
                \/ s = active /\ buf[f] = last[x][f]

\* Nothing is sent to a node but commands issued for that node that no target
\* has accepted yet: no command of another node left in the shared buffer, and
\* none a second time after it was acknowledged or superseded.
NoStaleCommand ==
    busy /\ task[active].kind = "command" =>
        \A f \in Fields :
            LET x == task[active].node
            IN  Within(x, f) /\ buf[f] # 0 => <<f, buf[f]>> \in open[x]

\* Every command the scheduler accepts is started: neither a focus, which refills
\* the priority queue after every exchange, nor the periodic exchanges that take
\* turns with it in a full table can hold it up for ever.
CommandStarted ==
    \A s \in Slots :
        task[s].queued /\ task[s].kind = "command" ~> ~task[s].queued

\* A staged command is kept until a target has accepted it: "не пропустить
\* новые команды, добавленные в MSG_CMD" (DATA_EXCHANGE_RU.md, 20.3).
StagedKept ==
    \A x \in Nodes, f \in Fields : lastStaged[x][f] # 0 =>
        \/ msgCmd[x][f] = lastStaged[x][f]
        \/ saved[x][f] = lastStaged[x][f]
        \/ active # NoSlot /\ task[active].node = x /\ buf[f] = lastStaged[x][f]

================================================================================
