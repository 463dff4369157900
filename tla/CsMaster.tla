-------------------------------- MODULE CsMaster --------------------------------
(*****************************************************************************)
(* CS as a whole above the bus: the scheduler and the operating mode, which  *)
(* feed each other.  In a tick the operator's commands come first, then the  *)
(* operating mode takes the completion the scheduler left in an earlier      *)
(* tick, then the nodes apply the new policy, then the scheduler runs        *)
(* (ICSALG).                                                                 *)
(*****************************************************************************)
EXTENDS CsOperatingMode, Sequences

CONSTANTS
    NodeOrder, Width, MaxTasks, BurstLimit, MaxValue, MaxWidth,  \* CsScheduler
    Answering,      \* the nodes that always answer
    OperatorNodes   \* the nodes the operator sends exchanges and commands to

VARIABLES
    task, normalQ, priorityQ, active, burst, msgCmd, buf, saved, busy, result,
    phase, at, bypassed, last, lastStaged, open,     \* CsScheduler
    completions,  \* G_COMPLETIONS, never more than one
    modeDone,     \* the operating mode has stepped in this tick
    polls         \* history: periodic exchanges of a node since it answered,
                  \* was enabled or focused, or ended a cooldown

Scheduler == INSTANCE CsScheduler WITH
                 policy    <- [x \in Nodes |-> PolicyFor(x)],
                 PolicySet <- {"off", "normal", "priority"}

schedVars  == <<task, normalQ, priorityQ, active, burst, msgCmd, buf, saved,
                busy, result, phase, at, bypassed, last, lastStaged, open>>
masterVars == <<schedVars, modeVars, completions, modeDone, polls>>

\* A cooldown of one tick would be over in the tick it starts in and leave
\* nobody alone; the program's last 96 and 160 ticks.
ASSUME MasterAssumption ==
    /\ Answering \subseteq Nodes /\ OperatorNodes \subseteq Nodes
    /\ \A r \in Failures : CooldownTicks[r] > 1
    /\ Scheduler!SchedulerAssumption

Init ==
    /\ ModeInit
    /\ Scheduler!Init
    /\ completions = {}
    /\ modeDone = FALSE
    /\ polls = [x \in Nodes |-> 0]

-------------------------------------------------------------------------------
(* Control and operating mode *)

\* Commands are taken before the operating mode steps.
Commands ==
    /\ phase = "control"
    /\ ~modeDone
    /\ UNCHANGED <<completions, modeDone>>

TaskCommand ==
    /\ Commands
    /\ UNCHANGED <<modeVars, polls>>
    /\ \E x \in OperatorNodes :
         \/ Scheduler!OperatorExchange(x)
         \/ Scheduler!OperatorSend(x)
         \/ \E f \in 1 .. Width[x], v \in 0 .. MaxValue :
              Scheduler!OperatorCmd(x, f, v) \/ Scheduler!OperatorStage(x, f, v)

OperatorMode ==
    /\ Commands
    /\ UNCHANGED schedVars
    /\ \/ /\ \E x \in Nodes :
               /\ SetFocus(x) \/ Enable(x)
               /\ polls' = [polls EXCEPT ![x] = 0]
       \/ /\ ClearFocus \/ \E x \in Nodes : Disable(x)
          /\ UNCHANGED polls

\* ICSHIALG runs once in a tick, between the commands and the nodes.
\* Mutant: at any moment of the tick.
ModeTurnAny == ~modeDone
ModeTurn == phase = "control" /\ ~modeDone

StepMode ==
    /\ ModeTurn
    /\ modeDone' = TRUE
    /\ completions' = {}
    /\ ModeStep(completions)
    /\ polls' = [x \in Nodes |->
                   IF \/ \E c \in completions : c.node = x /\ Answered(c)
                      \/ cooldown[x] # 0 /\ cooldown'[x] = 0
                   THEN 0 ELSE polls[x]]
    /\ UNCHANGED schedVars

EndControl ==
    /\ modeDone
    /\ modeDone' = FALSE
    /\ UNCHANGED <<modeVars, completions, polls>>
    /\ Scheduler!EndControl

-------------------------------------------------------------------------------
(* The rest of the tick *)

Untouched == UNCHANGED <<modeVars, modeDone>>

StepNode ==
    /\ Untouched
    /\ UNCHANGED <<completions, polls>>
    /\ \E x \in Nodes : \/ Scheduler!AddPeriodic(x)
                        \/ Scheduler!KeepPeriodic(x)
                        \/ Scheduler!CancelPeriodic(x)
                        \/ Scheduler!StayOff(x)

\* exchange_control leaves the completion of the exchange it finishes.
Finish ==
    /\ Untouched
    /\ UNCHANGED polls
    /\ Scheduler!Finalize
    /\ completions' = completions \cup
         {[node |-> task[active].node, result |-> result,
           counts |-> task[active].periodic /\ task[active].kind = "data"]}

Polls(s) == task[s].periodic /\ task[s].kind = "data"

Start ==
    /\ Untouched
    /\ UNCHANGED completions
    /\ Scheduler!StartPriority \/ Scheduler!StartNormal
    /\ polls' = IF Polls(active') THEN [polls EXCEPT ![task[active'].node] = @ + 1]
                ELSE polls

Rest ==
    /\ Untouched
    /\ UNCHANGED <<completions, polls>>
    /\ \/ Scheduler!ScheduleNothing
       \/ Scheduler!StartNothing
       \/ Scheduler!ExchangeContinues

\* What the bus makes of the exchange: a node that always answers does.
Exchange ==
    /\ Untouched
    /\ UNCHANGED <<completions, polls>>
    /\ \E r \in Scheduler!Results :
         /\ active # 0 /\ task[active].node \in Answering => r = "success"
         /\ Scheduler!ExchangeDone(r)

Next ==
    \/ TaskCommand
    \/ OperatorMode
    \/ StepMode
    \/ EndControl
    \/ StepNode
    \/ Finish
    \/ Start
    \/ Rest
    \/ Exchange

\* One thread that never blocks, and a bus that ends every exchange.
Fairness ==
    /\ WF_masterVars(StepMode \/ EndControl \/ StepNode \/ Finish \/ Start \/ Rest)
    /\ SF_masterVars(Exchange)

Spec     == Init /\ [][Next]_masterVars
FairSpec == Spec /\ Fairness

-------------------------------------------------------------------------------
(* Properties *)

\* The type invariant.  In the composition a streak is never counted past the
\* patient threshold, since a node that cools down is not polled, and the
\* operating mode never falls behind the scheduler: at most one completion
\* waits, and none is left when the nodes read the policy.
TypeOK ==
    /\ ModeTypeOK
    /\ \A x \in Nodes : streak[x] <= Threshold["timeout"]
    /\ completions \subseteq Completions
    /\ \A c, d \in completions : c = d
    /\ phase = "nodes" => completions = {}
    /\ modeDone \in BOOLEAN
    /\ polls \in [Nodes -> Nat]

\* A node that cools down is not polled: the failure of one tick is known
\* before the scheduler chooses in the next, and the periodic task that waits
\* in a queue is gone by then.
NoPollInCooldown ==
    [][ active' # active /\ active' # 0 /\ Polls(active') =>
            cooldown[task[active'].node] = 0 ]_masterVars

\* What cooldowns are for: a node that does not answer costs at most as many
\* polls as its patience allows before it is left alone, however its
\* periodic task is cancelled, renewed and moved between the queues.
SilentNodeLimited == \A x \in Nodes : polls[x] <= Threshold["timeout"]

\* A node that the operator wants polled is polled again and again once the
\* focus stays where it is, even if the node fails all the time, another one
\* has the focus, or both.  (A focus moved to and fro in every tick can hold a
\* node up for ever: each move puts its task at the end of a queue.)
PolledAgain ==
    \A x \in Nodes : \A g \in Nodes \cup {NoFocus} :
        <>[](focus = g /\ x \in enabled \cup {g})
            => []<>(active # 0 /\ task[active].node = x /\ Polls(active))

\* Under the operating mode as under any other source of policies, the periodic
\* task of a node is there, in the right queue, as the policy of the tick says,
\* or the table is full (CsScheduler!PolicyFollowed).
PolicyFollowed == Scheduler!PolicyFollowed

\* CS with its operating mode is one of the behaviours CsScheduler allows,
\* whose policy may change in any way between two ticks.
IsScheduler == Scheduler!Spec

================================================================================
