----------------------------- MODULE CsMasterProofs -----------------------------
(*****************************************************************************)
(* Proofs about CS as a whole, for any nodes, thresholds, cooldowns, slots   *)
(* and fields: it is one of the behaviours of CsScheduler and one of those   *)
(* of the operating mode, so what is proved of these holds for it, and the   *)
(* two together poll a silent node no more often than its patience allows.   *)
(*                                                                           *)
(* P is the scheduler of CsMaster once more, with its proofs.                *)
(*****************************************************************************)
EXTENDS CsMaster, TLAPS

P == INSTANCE CsSchedulerProofs WITH
         policy    <- [x \in Nodes |-> PolicyFor(x)],
         PolicySet <- {"off", "normal", "priority"}

-------------------------------------------------------------------------------
(* The penalties of the operating mode *)

\* Both properties together are inductive: a streak below the patient
\* threshold is what bounds streak and cooldown when a cooldown starts.
Penalties == ModeTypeOK /\ StreakBelow

LEMMA Durations ==
    /\ LongestCooldown \in Nat \ {0}
    /\ \A r \in Failures : CooldownTicks[r] \in 1 .. LongestCooldown
    /\ \A r \in Failures : Threshold[r] \in 1 .. Threshold["timeout"]
    /\ MaxStreak \in Nat /\ Threshold["timeout"] \in 1 .. MaxStreak
  BY ModeAssumption DEF LongestCooldown, Failures

LEMMA InitPenalties == ModeInit => Penalties
  BY Durations, ModeAssumption DEF ModeInit, Penalties, ModeTypeOK, StreakBelow

LEMMA ClearPenalties ==
    ASSUME Penalties, NEW x \in Nodes, ClearTarget(x),
           focus' \in Nodes \cup {NoFocus}, enabled' \subseteq Nodes
    PROVE  Penalties'
  BY Durations, ModeAssumption DEF Penalties, ModeTypeOK, StreakBelow, ClearTarget

LEMMA CommandPenalties == Penalties /\ ModeCommand => Penalties'
<1>. SUFFICES ASSUME Penalties, ModeCommand PROVE Penalties'
  OBVIOUS
<1>. USE DEF Penalties, ModeTypeOK
<1>1. ASSUME NEW x \in Nodes, SetFocus(x) PROVE Penalties'
  BY <1>1, ClearPenalties DEF SetFocus
<1>2. ASSUME NEW x \in Nodes, Enable(x) PROVE Penalties'
  BY <1>2, ClearPenalties DEF Enable
<1>3. ASSUME NEW x \in Nodes, Disable(x) PROVE Penalties'
  BY <1>3 DEF Disable, StreakBelow
<1>4. CASE ClearFocus
  BY <1>4 DEF ClearFocus, StreakBelow
<1>. QED
  BY <1>1, <1>2, <1>3, <1>4 DEF ModeCommand

\* One tick of one node: n is its streak and left its cooldown after the
\* completion was taken, before the cooldown counts down.
LEMMA StepPenalties ==
    ASSUME Penalties, NEW cs \in SUBSET Completions, ModeStep(cs)
    PROVE  Penalties'
<1>. DEFINE ok(x)    == \E c \in cs : c.node = x /\ Answered(c)
            bad(x)   == {c \in cs : c.node = x /\ Failed(c)}
            n(x)     == IF ok(x) THEN 0
                        ELSE IF bad(x) # {} THEN Counted(streak[x]) ELSE streak[x]
            start(x) == {c \in bad(x) : StartsCooldown(x, c, n(x))}
            left(x)  == IF ok(x) THEN 0
                        ELSE IF start(x) # {}
                        THEN CooldownTicks[(CHOOSE c \in start(x) : TRUE).result]
                        ELSE cooldown[x]
            bound    == Threshold["timeout"] + LongestCooldown
<1>1. /\ streak' = [x \in Nodes |-> StreakAfter(left(x), n(x))]
      /\ cooldown' = [x \in Nodes |-> IF left(x) > 0 THEN left(x) - 1 ELSE 0]
      /\ UNCHANGED <<focus, enabled>>
  BY DEF ModeStep
<1>2. \A c \in cs : Failed(c) => c.result \in Failures
  BY DEF Completions, Failed, Answered
<1>3. ASSUME NEW x \in Nodes
      PROVE  /\ n(x) \in 0 .. MaxStreak
             /\ left(x) \in 0 .. LongestCooldown
             /\ left(x) = 0 => n(x) < Threshold["timeout"]
             /\ left(x) # 0 => n(x) + left(x) <= bound
  <2>. DEFINE s == streak[x]
              k == cooldown[x]
  <2>1. /\ s \in 0 .. MaxStreak /\ k \in 0 .. LongestCooldown
        /\ s + k < bound
        /\ k = 0 => s < Threshold["timeout"]
    BY DEF Penalties, ModeTypeOK, StreakBelow
  <2>2. CASE ok(x)
    BY <2>2, Durations
  <2>3. CASE ~ok(x) /\ bad(x) = {}
    <3>1. n(x) = s /\ left(x) = k
      BY <2>3
    <3>. QED
      BY <2>1, <3>1, Durations
  <2>4. CASE ~ok(x) /\ bad(x) # {}
    <3>1. n(x) = Counted(s)
      BY <2>4
    <3>2. Counted(s) \in 0 .. MaxStreak /\ Counted(s) <= s + 1
      BY <2>1, Durations DEF Counted
    <3>3. CASE start(x) # {}
      <4>1. PICK c \in start(x) : c = CHOOSE d \in start(x) : TRUE
        BY <3>3
      <4>2. c.result \in Failures /\ left(x) = CooldownTicks[c.result]
        BY <1>2, <2>4, <3>3, <4>1
      <4>3. left(x) \in 1 .. LongestCooldown
        BY <4>2, Durations
      <4>4. k = 0
        BY <4>1 DEF StartsCooldown
      <4>. QED
        BY <2>1, <3>1, <3>2, <4>3, <4>4, Durations
    <3>4. CASE start(x) = {}
      <4>1. left(x) = k
        BY <2>4, <3>4
      <4>2. PICK c \in bad(x) : TRUE
        BY <2>4
      <4>3. ~StartsCooldown(x, c, n(x)) /\ c.result \in Failures
        BY <1>2, <3>4, <4>2
      <4>4. k = 0 => n(x) < Threshold[c.result]
        BY <3>1, <3>2, <4>3, Durations DEF StartsCooldown
      <4>. QED
        BY <2>1, <3>1, <3>2, <4>1, <4>3, <4>4, Durations
    <3>. QED
      BY <3>3, <3>4
  <2>. QED
    BY <2>2, <2>3, <2>4
<1>. HIDE DEF n, left
<1>4. ASSUME NEW x \in Nodes
      PROVE  /\ streak'[x] \in 0 .. MaxStreak
             /\ cooldown'[x] \in 0 .. LongestCooldown
             /\ streak'[x] + cooldown'[x] < bound
             /\ cooldown'[x] = 0 => streak'[x] < Threshold["timeout"]
  BY <1>1, <1>3, Durations DEF StreakAfter
<1>. QED
  BY <1>1, <1>4 DEF Penalties, ModeTypeOK, StreakBelow

LEMMA NextPenalties == Penalties /\ [ModeNext]_modeVars => Penalties'
<1>. SUFFICES ASSUME Penalties, [ModeNext]_modeVars PROVE Penalties'
  OBVIOUS
<1>1. CASE ModeCommand
  BY <1>1, CommandPenalties
<1>2. CASE ModeTick
  <2>1. ASSUME NEW c \in Completions, ModeStep({c}) PROVE Penalties'
    BY <2>1, StepPenalties
  <2>2. CASE ModeStep({})
    BY <2>2, StepPenalties
  <2>. QED
    BY <1>2, <2>1, <2>2 DEF ModeTick
<1>3. CASE UNCHANGED modeVars
  BY <1>3 DEF modeVars, Penalties, ModeTypeOK, StreakBelow
<1>. QED
  BY <1>1, <1>2, <1>3 DEF ModeNext

\* Whatever the exchanges and the operator do, the penalties stay in their
\* bounds: the byte that counts failures cannot saturate where it has room for
\* the threshold and the longest cooldown.
THEOREM PenaltiesBounded == ModeSpec => []ModeTypeOK
<1>1. Penalties => ModeTypeOK
  BY DEF Penalties
<1>. QED
  BY <1>1, InitPenalties, NextPenalties, PTL DEF ModeSpec

\* Whatever the exchanges and the operator do, a node that may be polled has
\* not used up its patience.
THEOREM PatienceLeft == ModeSpec => []StreakBelow
<1>1. Penalties => StreakBelow
  BY DEF Penalties
<1>. QED
  BY <1>1, InitPenalties, NextPenalties, PTL DEF ModeSpec

-------------------------------------------------------------------------------
(* The scheduler within *)

\* The constants are those of a scheduler.
LEMMA Constants ==
    /\ P!SchedulerAssumption
    /\ \A r \in Failures : CooldownTicks[r] \in Nat /\ CooldownTicks[r] > 1
<1>1. P!SchedulerAssumption
  BY MasterAssumption
  DEF P!SchedulerAssumption, P!NoNode, P!Fields, P!Policies, P!Classes,
      Scheduler!SchedulerAssumption, Scheduler!NoNode, Scheduler!Fields,
      Scheduler!Policies, Scheduler!Classes
<1>. QED
  BY <1>1, MasterAssumption, ModeAssumption

\* Both instances define the same steps.
LEMMA SameSteps ==
    ASSUME NEW x
    PROVE  /\ P!OperatorExchange(x) <=> Scheduler!OperatorExchange(x)
           /\ P!OperatorSend(x) <=> Scheduler!OperatorSend(x)
           /\ P!AddPeriodic(x) <=> Scheduler!AddPeriodic(x)
           /\ P!StayOff(x) <=> Scheduler!StayOff(x)
           /\ P!ExchangeDone(x) <=> Scheduler!ExchangeDone(x)
<1>. USE DEF P!Slots, P!NoSlot, P!Fields, P!NoNode, P!FreeTask, P!NewTask, P!DataTask,
             P!StagedTask, P!FreeSlots, P!FirstFree, P!Enqueue, P!AddTask, P!Accepted,
             P!PeriodicOf, P!cmdVars, P!busVars, P!tickVars, P!history, P!queueVars,
             Scheduler!Slots, Scheduler!NoSlot, Scheduler!Fields, Scheduler!NoNode,
             Scheduler!FreeTask, Scheduler!NewTask, Scheduler!DataTask,
             Scheduler!StagedTask, Scheduler!FreeSlots, Scheduler!FirstFree,
             Scheduler!Enqueue, Scheduler!AddTask, Scheduler!Accepted,
             Scheduler!PeriodicOf, Scheduler!cmdVars, Scheduler!busVars,
             Scheduler!tickVars, Scheduler!history, Scheduler!queueVars
<1>1. /\ P!OperatorExchange(x) <=> Scheduler!OperatorExchange(x)
      /\ P!OperatorSend(x) <=> Scheduler!OperatorSend(x)
  BY DEF P!Control, P!OperatorExchange, P!OperatorSend,
         Scheduler!Control, Scheduler!OperatorExchange, Scheduler!OperatorSend
<1>2. /\ P!AddPeriodic(x) <=> Scheduler!AddPeriodic(x)
      /\ P!StayOff(x) <=> Scheduler!StayOff(x)
  BY DEF P!NodeStep, P!LastNode, P!AddPeriodic, P!StayOff,
         Scheduler!NodeStep, Scheduler!LastNode, Scheduler!AddPeriodic, Scheduler!StayOff
<1>3. P!ExchangeDone(x) <=> Scheduler!ExchangeDone(x)
  BY DEF P!Exchange, P!ExchangeDone, P!Within, P!Delivered, P!Waiting, P!Settled,
         Scheduler!Exchange, Scheduler!ExchangeDone, Scheduler!Within,
         Scheduler!Delivered, Scheduler!Waiting, Scheduler!Settled
<1>. QED
  BY <1>1, <1>2, <1>3

\* The same of the steps that take a slot out of a queue.
LEMMA SameRemovals ==
    ASSUME NEW x
    PROVE  /\ P!KeepPeriodic(x) <=> Scheduler!KeepPeriodic(x)
           /\ P!CancelPeriodic(x) <=> Scheduler!CancelPeriodic(x)
<1>1. ASSUME NEW q, NEW s
      PROVE  P!RemoveFirst(q, s) = Scheduler!RemoveFirst(q, s)
  BY DEF P!RemoveFirst, P!RemoveAt, P!SelectInSeq, P!Min,
         Scheduler!RemoveFirst, Scheduler!RemoveAt, Scheduler!SelectInSeq, Scheduler!Min
<1>. USE DEF P!NodeStep, P!LastNode, P!PeriodicOf, P!Slots, P!cmdVars, P!busVars,
             P!history, P!NoNode, P!FreeTask,
             Scheduler!NodeStep, Scheduler!LastNode, Scheduler!PeriodicOf,
             Scheduler!Slots, Scheduler!cmdVars, Scheduler!busVars,
             Scheduler!history, Scheduler!NoNode, Scheduler!FreeTask
<1>2. P!KeepPeriodic(x) <=> Scheduler!KeepPeriodic(x)
  BY <1>1 DEF P!KeepPeriodic, Scheduler!KeepPeriodic
<1>3. P!CancelPeriodic(x) <=> Scheduler!CancelPeriodic(x)
  BY <1>1 DEF P!CancelPeriodic, P!Cancelled, P!Dequeue,
              Scheduler!CancelPeriodic, Scheduler!Cancelled, Scheduler!Dequeue
<1>. QED
  BY <1>2, <1>3

\* The same of the commands for a field.
LEMMA SameFields ==
    ASSUME NEW x, NEW f, NEW v
    PROVE  /\ P!OperatorCmd(x, f, v) <=> Scheduler!OperatorCmd(x, f, v)
           /\ P!OperatorStage(x, f, v) <=> Scheduler!OperatorStage(x, f, v)
  BY DEF P!Control, P!OperatorCmd, P!OperatorStage, P!Overwrites, P!Slots, P!NoNode,
         P!FreeTask, P!NewTask, P!CommandTask, P!FreeSlots, P!FirstFree, P!Enqueue,
         P!AddTask, P!Accepted, P!busVars, P!tickVars,
         Scheduler!Control, Scheduler!OperatorCmd, Scheduler!OperatorStage,
         Scheduler!Overwrites, Scheduler!Slots, Scheduler!NoNode, Scheduler!FreeTask,
         Scheduler!NewTask, Scheduler!CommandTask, Scheduler!FreeSlots,
         Scheduler!FirstFree, Scheduler!Enqueue, Scheduler!AddTask,
         Scheduler!Accepted, Scheduler!busVars, Scheduler!tickVars

\* And of the steps without a parameter and the variables.
LEMMA SameOthers ==
    /\ P!PolicyChange <=> Scheduler!PolicyChange
    /\ P!EndControl <=> Scheduler!EndControl
    /\ P!ScheduleNothing <=> Scheduler!ScheduleNothing
    /\ P!Finalize <=> Scheduler!Finalize
    /\ P!StartPriority <=> Scheduler!StartPriority
    /\ P!StartNormal <=> Scheduler!StartNormal
    /\ P!StartNothing <=> Scheduler!StartNothing
    /\ P!ExchangeContinues <=> Scheduler!ExchangeContinues
    /\ P!vars = Scheduler!vars
<1>. USE DEF P!queueVars, P!cmdVars, P!busVars, P!tickVars, P!history, P!NoSlot, P!Fields,
             P!Within, P!Schedule, P!Idle, P!Exchange,
             Scheduler!queueVars, Scheduler!cmdVars, Scheduler!busVars,
             Scheduler!tickVars, Scheduler!history, Scheduler!NoSlot, Scheduler!Fields,
             Scheduler!Within, Scheduler!Schedule, Scheduler!Idle, Scheduler!Exchange
<1>1. /\ P!PolicyChange <=> Scheduler!PolicyChange
      /\ P!EndControl <=> Scheduler!EndControl
      /\ P!ScheduleNothing <=> Scheduler!ScheduleNothing
      /\ P!StartNothing <=> Scheduler!StartNothing
      /\ P!ExchangeContinues <=> Scheduler!ExchangeContinues
      /\ P!vars = Scheduler!vars
  BY DEF P!PolicyChange, P!EndControl, P!ScheduleNothing, P!StartNothing,
         P!ExchangeContinues, P!vars,
         Scheduler!PolicyChange, Scheduler!EndControl, Scheduler!ScheduleNothing,
         Scheduler!StartNothing, Scheduler!ExchangeContinues, Scheduler!vars
<1>2. P!Finalize <=> Scheduler!Finalize
  BY DEF P!Finalize, P!SettledBy, P!Empty, P!NoNode, P!FreeTask, P!Enqueue,
         Scheduler!Finalize, Scheduler!SettledBy, Scheduler!Empty, Scheduler!NoNode,
         Scheduler!FreeTask, Scheduler!Enqueue
<1>3. /\ P!StartPriority <=> Scheduler!StartPriority
      /\ P!StartNormal <=> Scheduler!StartNormal
  BY DEF P!StartPriority, P!StartNormal, P!PriorityTurn, P!Start, P!MayRun, P!Arm,
         P!Loaded, P!Empty,
         Scheduler!StartPriority, Scheduler!StartNormal, Scheduler!PriorityTurn,
         Scheduler!Start, Scheduler!MayRun, Scheduler!Arm, Scheduler!Loaded,
         Scheduler!Empty
<1>. QED
  BY <1>1, <1>2, <1>3

\* CS starts as its scheduler does.
LEMMA InitScheduler == Init => Scheduler!Init /\ P!Init
<1>. SUFFICES ASSUME Init PROVE P!Init
  BY DEF Init
<1>1. Scheduler!Init
  BY DEF Init
<1>. QED
  BY <1>1 DEF P!Init, P!Slots, P!NoNode, P!FreeTask, P!NoSlot, P!Fields, P!Empty,
              Scheduler!Init, Scheduler!Slots, Scheduler!NoNode, Scheduler!FreeTask,
              Scheduler!NoSlot, Scheduler!Fields, Scheduler!Empty

\* Every step of CS is one of its scheduler: what the operator and the
\* operating mode change is a change of policy between two ticks.
LEMMA StepScheduler ==
    ASSUME [Next]_masterVars
    PROVE  [P!Next]_P!vars
<1>. DEFINE pol == [x \in Nodes |-> PolicyFor(x)]
<1>1. ASSUME UNCHANGED schedVars, phase = "control" PROVE [P!Next]_P!vars
  <2>1. pol' \in [Nodes -> {"off", "normal", "priority"}]
    BY DEF PolicyFor
  <2>2. CASE pol' = pol
    BY <1>1, <2>2 DEF schedVars, P!vars, P!queueVars, P!cmdVars, P!busVars, P!tickVars, P!history
  <2>3. CASE pol' # pol
    <3>1. P!PolicyChange
      BY <1>1, <2>1, <2>3 DEF P!PolicyChange, schedVars, P!queueVars, P!cmdVars, P!busVars,
                              P!tickVars, P!history
    <3>. QED
      BY <3>1 DEF P!Next
  <2>. QED
    BY <2>2, <2>3
<1>2. CASE TaskCommand
  <2>1. PICK x \in OperatorNodes :
          \/ Scheduler!OperatorExchange(x)
          \/ Scheduler!OperatorSend(x)
          \/ \E f \in 1 .. Width[x], v \in 0 .. MaxValue :
               Scheduler!OperatorCmd(x, f, v) \/ Scheduler!OperatorStage(x, f, v)
    BY <1>2 DEF TaskCommand
  <2>2. x \in Nodes
    BY MasterAssumption
  <2>3. ASSUME NEW f \in 1 .. Width[x] PROVE f \in P!Fields /\ P!Within(x, f)
    <3>1. Width[x] \in 1 .. MaxWidth /\ MaxWidth \in Nat
      BY <2>2, Constants DEF P!SchedulerAssumption, P!Fields
    <3>. QED
      BY <3>1 DEF P!Fields, P!Within
  <2>. QED
    BY <2>1, <2>2, <2>3, SameSteps, SameFields DEF P!Next, P!Values
<1>3. CASE OperatorMode \/ StepMode
  BY <1>1, <1>3 DEF OperatorMode, Commands, StepMode, ModeTurn
<1>4. CASE EndControl
  BY <1>4, SameOthers DEF EndControl, P!Next
<1>5. CASE StepNode
  BY <1>5, SameSteps, SameRemovals DEF StepNode, P!Next
<1>6. CASE Finish \/ Start \/ Rest
  BY <1>6, SameOthers DEF Finish, Start, Rest, P!Next
<1>7. CASE Exchange
  <2>1. PICK r \in Scheduler!Results : Scheduler!ExchangeDone(r)
    BY <1>7 DEF Exchange
  <2>2. r \in P!Results
    BY DEF P!Results, Scheduler!Results
  <2>. QED
    BY <2>1, <2>2, SameSteps DEF P!Next
<1>8. CASE UNCHANGED masterVars
  BY <1>8 DEF masterVars, schedVars, modeVars, PolicyFor, P!vars, P!queueVars, P!cmdVars,
              P!busVars, P!tickVars, P!history
<1>. QED
  BY <1>2, <1>3, <1>4, <1>5, <1>6, <1>7, <1>8 DEF Next

\* And so of the scheduler as CsMaster composes it.
LEMMA SameNext == P!Next <=> Scheduler!Next
<1>1. /\ P!Fields = Scheduler!Fields /\ P!Values = Scheduler!Values
      /\ P!Results = Scheduler!Results
      /\ \A x, f : P!Within(x, f) <=> Scheduler!Within(x, f)
  BY DEF P!Fields, P!Values, P!Results, P!Within, Scheduler!Fields, Scheduler!Values,
         Scheduler!Results, Scheduler!Within
<1>. QED
  BY <1>1, SameSteps, SameRemovals, SameFields, SameOthers DEF P!Next, Scheduler!Next

-------------------------------------------------------------------------------
(* The invariant *)

\* At most one completion waits, from the step that finishes an exchange to the
\* next step of the operating mode; nothing runs meanwhile.
CompletionsSound ==
    /\ completions \subseteq Completions
    /\ \A c, d \in completions : c = d
    /\ completions # {} =>
          active = 0 /\ ~modeDone /\ phase \in {"exchange", "control"}
    /\ modeDone \in BOOLEAN
    /\ modeDone => phase = "control"

\* A poll of the node is under way, or finished and not yet reported.
Polling(x)  == active # 0 /\ Polls(active) /\ task[active].node = x
InFlight(x) == Polling(x) \/ \E c \in completions : c.counts /\ c.node = x

\* A node that cools down has no poll under way; of one that is polled, every
\* poll since the last fresh start was a failure that is counted, or is under
\* way.
PollsOf(x) ==
    /\ streak[x] <= Threshold["timeout"]
    /\ polls[x] <= Threshold["timeout"]
    /\ cooldown[x] # 0 => ~InFlight(x)
    /\ PolicyFor(x) # "off" => polls[x] <= streak[x] + IF InFlight(x) THEN 1 ELSE 0

PollsSound == polls \in [Nodes -> Nat] /\ \A x \in Nodes : PollsOf(x)

SchedInv  == P!IInv /\ P!PolicyInv
MasterInv == SchedInv /\ Penalties /\ CompletionsSound /\ PollsSound

\* The scheduler keeps its invariants inside CS.
LEMMA NextSched == SchedInv /\ [Next]_masterVars => SchedInv'
<1>. SUFFICES ASSUME SchedInv, [Next]_masterVars PROVE SchedInv'
  OBVIOUS
<1>1. [P!Next]_P!vars
  BY StepScheduler
<1>2. P!IInv'
  BY <1>1, Constants, P!NextInvariant DEF SchedInv
<1>3. P!PolicyInv'
  BY <1>1, Constants, P!NextPolicy DEF SchedInv
<1>. QED
  BY <1>2, <1>3 DEF SchedInv

\* One completion at most: every step of the operating mode is one of those
\* CsOperatingMode allows.
LEMMA StepOperatingMode ==
    ASSUME CompletionsSound, [Next]_masterVars
    PROVE  [ModeNext]_modeVars
<1>1. CASE StepMode
  <2>1. completions = {} \/ \E c \in Completions : completions = {c}
    BY DEF CompletionsSound
  <2>. QED
    BY <1>1, <2>1 DEF StepMode, ModeNext, ModeTick
<1>2. CASE OperatorMode
  BY <1>2 DEF OperatorMode, ModeNext, ModeCommand
<1>3. CASE TaskCommand \/ EndControl \/ StepNode \/ Finish \/ Start \/ Rest \/ Exchange
  BY <1>3 DEF TaskCommand, EndControl, StepNode, Finish, Start, Rest, Exchange, Untouched
<1>4. CASE UNCHANGED masterVars
  BY <1>4 DEF masterVars
<1>. QED
  BY <1>1, <1>2, <1>3, <1>4 DEF Next

\* The active task is a task of a node.
LEMMA ActiveTask ==
    ASSUME SchedInv
    PROVE  /\ active \in 1 .. MaxTasks \cup {0} /\ 0 \notin 1 .. MaxTasks
           /\ task \in [1 .. MaxTasks -> P!TaskStates]
           /\ active # 0 => task[active].used /\ task[active].node \in Nodes
           /\ result \in Failures \cup {"success", "none"}
           /\ phase \in {"control", "nodes", "schedule", "exchange"}
  BY DEF SchedInv, P!IInv, P!TablesSound, P!TickSound, P!Slots, P!NoSlot, P!Results, Failures

\* CS starts with all at rest.
LEMMA InitMaster == Init => MasterInv
<1>. SUFFICES ASSUME Init PROVE MasterInv
  OBVIOUS
<1>1. P!Init /\ ModeInit /\ completions = {} /\ modeDone = FALSE /\ polls = [x \in Nodes |-> 0]
  BY InitScheduler DEF Init
<1>2. SchedInv
  BY <1>1, Constants, P!InitInvariant, P!InitPolicy DEF SchedInv
<1>3. Penalties
  BY <1>1, InitPenalties
<1>4. CompletionsSound
  BY <1>1 DEF CompletionsSound
<1>5. PollsSound
  <2>1. active = 0
    BY <1>1 DEF P!Init, P!NoSlot
  <2>. QED
    BY <1>1, <2>1, Durations DEF PollsSound, PollsOf, ModeInit, InFlight, Polling
<1>. QED
  BY <1>2, <1>3, <1>4, <1>5 DEF MasterInv

-------------------------------------------------------------------------------
(* Steps of the scheduler *)

\* A step changes no count and starts no poll.
LEMMA KeepsPolls ==
    ASSUME MasterInv, UNCHANGED <<modeVars, polls>>,
           \A x \in Nodes : /\ InFlight(x)' => InFlight(x)
                            /\ PolicyFor(x) # "off" => (InFlight(x)' <=> InFlight(x))
    PROVE  PollsSound'
<1>1. \A x \in Nodes : PolicyFor(x)' = PolicyFor(x)
  BY DEF PolicyFor, modeVars
<1>. QED
  BY <1>1 DEF MasterInv, PollsSound, PollsOf, modeVars

\* What add_task leaves alone.
LEMMA AddKeepsActive ==
    ASSUME SchedInv, NEW t, P!AddTask(t), UNCHANGED active
    PROVE  active # 0 => task'[active] = task[active]
<1>1. CASE P!FreeSlots = {}
  BY <1>1 DEF P!AddTask
<1>2. CASE P!FreeSlots # {}
  <2>1. PICK s \in P!FreeSlots : task' = [task EXCEPT ![s] = t]
    BY <1>2, Constants, P!FirstFreeIsFree DEF P!AddTask
  <2>2. active # 0 => s # active
    BY <2>1, ActiveTask DEF P!FreeSlots
  <2>. QED
    BY <2>1, <2>2, ActiveTask
<1>. QED
  BY <1>1, <1>2

\* Tasks the operator orders are no polls.
LEMMA TaskCommandKeeps ==
    ASSUME MasterInv, TaskCommand
    PROVE  CompletionsSound' /\ PollsSound'
<1>1. PICK x : \/ P!OperatorExchange(x)
               \/ P!OperatorSend(x)
               \/ \E f, v : P!OperatorCmd(x, f, v) \/ P!OperatorStage(x, f, v)
  BY SameSteps, SameFields DEF TaskCommand
<1>2. UNCHANGED <<active, phase>> /\ phase = "control"
  BY <1>1 DEF P!OperatorExchange, P!OperatorSend, P!OperatorCmd, P!OperatorStage, P!Control,
              P!tickVars
<1>3. active # 0 => task'[active] = task[active]
  <2>1. CASE \E f, v : P!OperatorStage(x, f, v)
    BY <2>1 DEF P!OperatorStage
  <2>2. CASE ~\E f, v : P!OperatorStage(x, f, v)
    <3>1. \E t : P!AddTask(t)
      BY <1>1, <2>2 DEF P!OperatorExchange, P!OperatorSend, P!OperatorCmd
    <3>. QED
      BY <1>2, <3>1, AddKeepsActive DEF MasterInv
  <2>. QED
    BY <2>1, <2>2
<1>4. UNCHANGED <<completions, modeDone, modeVars, polls>>
  BY DEF TaskCommand, Commands
<1>5. \A y \in Nodes : InFlight(y)' <=> InFlight(y)
  BY <1>2, <1>3, <1>4 DEF InFlight, Polling, Polls
<1>6. CompletionsSound'
  BY <1>2, <1>4 DEF MasterInv, CompletionsSound
<1>. QED
  BY <1>4, <1>5, <1>6, KeepsPolls

\* The step of a node ends at most a poll that its policy no longer wants.
LEMMA StepNodeKeeps ==
    ASSUME MasterInv, StepNode
    PROVE  CompletionsSound' /\ PollsSound'
<1>1. PICK x \in Nodes : \/ P!AddPeriodic(x) \/ P!KeepPeriodic(x)
                         \/ P!CancelPeriodic(x) \/ P!StayOff(x)
  BY SameSteps, SameRemovals DEF StepNode
<1>2. phase = "nodes" /\ UNCHANGED active /\ P!NodeStep(x)
  BY <1>1 DEF P!AddPeriodic, P!KeepPeriodic, P!CancelPeriodic, P!StayOff, P!NodeStep
<1>3. UNCHANGED <<completions, modeDone, modeVars, polls>>
  BY DEF StepNode, Untouched
<1>4. completions = {} /\ ~modeDone /\ modeDone \in BOOLEAN
  BY <1>2 DEF MasterInv, CompletionsSound
<1>5. ASSUME NEW y \in Nodes
      PROVE  /\ Polling(y)' => Polling(y)
             /\ PolicyFor(y) # "off" => (Polling(y)' <=> Polling(y))
  <2>1. CASE P!AddPeriodic(x)
    <3>1. active # 0 => task'[active] = task[active]
      BY <1>2, <2>1, AddKeepsActive DEF P!AddPeriodic, MasterInv
    <3>. QED
      BY <1>2, <3>1 DEF Polling, Polls
  <2>2. CASE P!StayOff(x)
    BY <1>2, <2>2 DEF P!StayOff, Polling, Polls
  <2>3. CASE P!KeepPeriodic(x)
    <3>. DEFINE pol == [z \in Nodes |-> PolicyFor(z)]
    <3>1. PICK s \in P!PeriodicOf(x) :
            task' = [task EXCEPT ![s].enabled = TRUE, ![s].class = pol[x],
                                 ![s].queued = IF task[s].class = pol[x]
                                               THEN @ ELSE s # active]
      BY <2>3 DEF P!KeepPeriodic
    <3>2. \A r \in 1 .. MaxTasks :
            /\ task'[r].periodic = task[r].periodic /\ task'[r].kind = task[r].kind
            /\ task'[r].node = task[r].node
      BY <3>1, ActiveTask DEF P!TaskStates, P!PeriodicOf, P!Slots, MasterInv
    <3>. QED
      BY <1>2, <3>2, ActiveTask DEF Polling, Polls, MasterInv
  <2>4. CASE P!CancelPeriodic(x)
    <3>1. PICK s \in P!PeriodicOf(x) :
            task' = [task EXCEPT ![s] = IF s = active THEN P!Cancelled(task[s]) ELSE P!FreeTask]
      BY <2>4 DEF P!CancelPeriodic
    <3>2. /\ s \in 1 .. MaxTasks /\ task[s].node = x /\ PolicyFor(x) = "off"
          /\ \A r \in 1 .. MaxTasks : r # s => task'[r] = task[r]
      BY <2>4, <3>1, ActiveTask DEF P!CancelPeriodic, P!PeriodicOf, P!Slots, MasterInv
    <3>3. active = s => ~Polling(y)'
      <4>1. ~P!Cancelled(task[s]).periodic
        BY <3>2, ActiveTask DEF P!Cancelled, P!TaskStates, MasterInv
      <4>. QED
        BY <1>2, <3>1, <3>2, <4>1, ActiveTask DEF Polling, Polls, MasterInv
    <3>. QED
      BY <1>2, <3>2, <3>3, ActiveTask DEF Polling, Polls, MasterInv
  <2>. QED
    BY <1>1, <2>1, <2>2, <2>3, <2>4
<1>6. \A y \in Nodes : (InFlight(y) <=> Polling(y)) /\ (InFlight(y)' <=> Polling(y)')
  BY <1>3, <1>4 DEF InFlight
<1>7. CompletionsSound'
  BY <1>3, <1>4 DEF CompletionsSound
<1>. QED
  BY <1>3, <1>5, <1>6, <1>7, KeepsPolls

\* The completion of a poll takes the place of the poll.
LEMMA FinishKeeps ==
    ASSUME MasterInv, Finish
    PROVE  CompletionsSound' /\ PollsSound'
<1>1. /\ phase = "schedule" /\ phase' = "exchange"
      /\ active # 0 /\ active' = 0 /\ result # "none"
      /\ UNCHANGED <<modeVars, modeDone, polls>>
  BY SameOthers DEF Finish, Untouched, P!Finalize, P!Schedule, P!NoSlot
<1>. DEFINE c == [node |-> task[active].node, result |-> result, counts |-> Polls(active)]
<1>2. completions = {} /\ ~modeDone /\ modeDone \in BOOLEAN /\ completions' = {c}
  BY <1>1 DEF MasterInv, CompletionsSound, Finish, Polls
<1>3. c \in Completions
  BY <1>1, ActiveTask DEF Completions, Polls, MasterInv, P!TaskStates
<1>4. CompletionsSound'
  BY <1>1, <1>2, <1>3 DEF CompletionsSound
<1>5. c.node = task[active].node /\ c.counts = Polls(active)
  OBVIOUS
<1>. HIDE DEF c
<1>6. \A x \in Nodes : InFlight(x)' <=> InFlight(x)
  BY <1>1, <1>2, <1>5 DEF InFlight, Polling
<1>. QED
  BY <1>1, <1>4, <1>6, KeepsPolls

\* What the scheduler starts is a task of a node; a poll is started only for a
\* node that the policy of this tick wants polled.
LEMMA StartsWanted ==
    ASSUME MasterInv, P!StartPriority \/ P!StartNormal
    PROVE  /\ active = 0 /\ phase = "schedule" /\ phase' = "exchange"
           /\ \E s \in 1 .. MaxTasks :
                /\ active' = s /\ s # 0
                /\ task[s].node \in Nodes
                /\ Polls(s) => PolicyFor(task[s].node) # "off"
                /\ task'[s].periodic = task[s].periodic
                /\ task'[s].kind = task[s].kind
                /\ task'[s].node = task[s].node
<1>1. PICK s : P!Start(s) /\ s \in P!Slots
  <2>1. P!IsQueue(normalQ) /\ P!IsQueue(priorityQ)
    BY DEF MasterInv, SchedInv, P!IInv, P!TablesSound
  <2>2. priorityQ # <<>> => Head(priorityQ) \in P!Slots
    BY <2>1, Constants, P!TailQueue
  <2>3. normalQ # <<>> => Head(normalQ) \in P!Slots
    BY <2>1, Constants, P!TailQueue
  <2>. QED
    BY <2>2, <2>3 DEF P!StartPriority, P!StartNormal, P!PriorityTurn
<1>2. /\ active = 0 /\ phase = "schedule" /\ phase' = "exchange" /\ active' = s
      /\ task[s].used /\ task' = [task EXCEPT ![s].queued = FALSE]
      /\ s \in 1 .. MaxTasks /\ s # 0
  BY <1>1, ActiveTask DEF P!Start, P!Idle, P!Schedule, P!Arm, P!MayRun, P!NoSlot, P!Slots, MasterInv
<1>3. task[s].node \in Nodes
  BY <1>1, <1>2 DEF MasterInv, SchedInv, P!IInv, P!TablesSound
<1>4. /\ task'[s].periodic = task[s].periodic /\ task'[s].kind = task[s].kind
      /\ task'[s].node = task[s].node
  BY <1>2, ActiveTask DEF P!TaskStates, MasterInv
<1>5. ASSUME Polls(s) PROVE PolicyFor(task[s].node) # "off"
  <2>. DEFINE x == task[s].node
  <2>1. s \in P!PeriodicOf(x)
    BY <1>1, <1>2, <1>5 DEF P!PeriodicOf, Polls
  <2>2. P!Stepped(x)
    BY <1>2 DEF P!Stepped
  <2>. QED
    BY <1>3, <2>1, <2>2 DEF MasterInv, SchedInv, P!PolicyInv, P!SteppedSound
<1>. QED
  BY <1>2, <1>3, <1>4, <1>5

\* A node that is polled has patience left, and the poll counts.
LEMMA StartKeeps ==
    ASSUME MasterInv, Start
    PROVE  CompletionsSound' /\ PollsSound'
<1>1. P!StartPriority \/ P!StartNormal
  BY SameOthers DEF Start
<1>2. active = 0 /\ phase = "schedule" /\ phase' = "exchange"
  BY <1>1, StartsWanted
<1>3. PICK s \in 1 .. MaxTasks :
        /\ active' = s /\ s # 0
        /\ task[s].node \in Nodes
        /\ Polls(s) => PolicyFor(task[s].node) # "off"
        /\ task'[s].periodic = task[s].periodic
        /\ task'[s].kind = task[s].kind
        /\ task'[s].node = task[s].node
  BY <1>1, StartsWanted
<1>4. /\ UNCHANGED <<modeVars, modeDone, completions>>
      /\ polls' = IF Polls(s) THEN [polls EXCEPT ![task[s].node] = @ + 1] ELSE polls
  BY <1>3 DEF Start, Untouched, Polls
<1>5. completions = {} /\ ~modeDone /\ modeDone \in BOOLEAN
  BY <1>2 DEF MasterInv, CompletionsSound
<1>6. CompletionsSound'
  BY <1>4, <1>5 DEF CompletionsSound
<1>7. \A x \in Nodes : /\ ~InFlight(x)
                       /\ InFlight(x)' <=> Polls(s) /\ task[s].node = x
  BY <1>2, <1>3, <1>4, <1>5 DEF InFlight, Polling, Polls
<1>8. polls' \in [Nodes -> Nat]
  BY <1>3, <1>4 DEF MasterInv, PollsSound
<1>9. ASSUME NEW x \in Nodes PROVE PollsOf(x)'
  <2>1. /\ UNCHANGED <<streak, cooldown>> /\ PolicyFor(x)' = PolicyFor(x)
        /\ PollsOf(x) /\ polls \in [Nodes -> Nat]
    BY <1>4 DEF modeVars, PolicyFor, MasterInv, PollsSound
  <2>2. CASE Polls(s) /\ task[s].node = x
    <3>1. polls'[x] = polls[x] + 1 /\ polls[x] \in Nat /\ InFlight(x)' /\ ~InFlight(x)
      BY <1>4, <1>7, <2>1, <2>2
    <3>2. PolicyFor(x) # "off" /\ cooldown[x] = 0
      BY <1>3, <2>2 DEF PolicyFor
    <3>3. streak[x] < Threshold["timeout"] /\ streak[x] \in Nat
      BY <3>2, Durations DEF MasterInv, Penalties, StreakBelow, ModeTypeOK
    <3>4. polls[x] <= streak[x] + 0
      BY <2>1, <3>1, <3>2 DEF PollsOf
    <3>5. PolicyFor(x)' # "off" => polls'[x] <= streak'[x] + IF InFlight(x)' THEN 1 ELSE 0
      BY <2>1, <3>1, <3>3, <3>4
    <3>6. polls'[x] <= Threshold["timeout"]
      BY <3>1, <3>3, <3>4, Durations
    <3>. QED
      BY <2>1, <3>2, <3>5, <3>6 DEF PollsOf
  <2>3. CASE ~(Polls(s) /\ task[s].node = x)
    <3>1. polls'[x] = polls[x]
      BY <1>4, <2>1, <2>3
    <3>2. ~InFlight(x)
      BY <1>7
    <3>3. ~InFlight(x)'
      BY <1>7, <2>3
    <3>. QED
      BY <2>1, <3>1, <3>2, <3>3 DEF PollsOf
  <2>. QED
    BY <2>2, <2>3
<1>. QED
  BY <1>6, <1>8, <1>9 DEF PollsSound

\* Steps that start and end no exchange.
LEMMA RestKeeps ==
    ASSUME MasterInv, Rest \/ Exchange \/ EndControl \/ UNCHANGED masterVars
    PROVE  CompletionsSound' /\ PollsSound'
<1>1. /\ UNCHANGED <<task, active, completions, modeVars, polls>>
      /\ \/ UNCHANGED <<phase, modeDone>>
         \/ phase = "schedule" /\ UNCHANGED modeDone
         \/ phase = "exchange" /\ phase' = "control" /\ UNCHANGED modeDone
         \/ modeDone /\ modeDone' = FALSE
  <2>1. CASE Rest
    BY <2>1, SameOthers DEF Rest, Untouched, P!ScheduleNothing, P!StartNothing,
         P!ExchangeContinues, P!Schedule, P!Idle, P!Exchange, P!queueVars
  <2>2. CASE Exchange
    <3>1. PICK r : P!ExchangeDone(r)
      BY <2>2, SameSteps DEF Exchange
    <3>. QED
      BY <2>2, <3>1 DEF Exchange, Untouched, P!ExchangeDone, P!Exchange, P!queueVars
  <2>3. CASE EndControl
    BY <2>3, SameOthers DEF EndControl, P!EndControl, P!queueVars
  <2>4. CASE UNCHANGED masterVars
    BY <2>4 DEF masterVars, schedVars
  <2>. QED
    BY <2>1, <2>2, <2>3, <2>4
<1>2. CompletionsSound'
  <2>1. CASE UNCHANGED <<phase, modeDone>>
    BY <1>1, <2>1 DEF MasterInv, CompletionsSound
  <2>2. CASE phase = "schedule" /\ UNCHANGED modeDone
    BY <1>1, <2>2 DEF MasterInv, CompletionsSound
  <2>3. CASE phase = "exchange" /\ phase' = "control" /\ UNCHANGED modeDone
    BY <1>1, <2>3 DEF MasterInv, CompletionsSound
  <2>4. CASE modeDone /\ modeDone' = FALSE
    BY <1>1, <2>4 DEF MasterInv, CompletionsSound
  <2>. QED
    BY <1>1, <2>1, <2>2, <2>3, <2>4
<1>3. \A x \in Nodes : InFlight(x)' <=> InFlight(x)
  BY <1>1 DEF InFlight, Polling, Polls
<1>. QED
  BY <1>1, <1>2, <1>3, KeepsPolls

-------------------------------------------------------------------------------
(* Steps of the operating mode *)

\* enable and focus give a node a fresh start; without them no node gets back
\* what switched it off.
LEMMA OperatorModeKeeps ==
    ASSUME MasterInv, OperatorMode
    PROVE  CompletionsSound' /\ PollsSound'
<1>1. UNCHANGED <<task, active, phase, completions, modeDone>>
  BY DEF OperatorMode, Commands, schedVars
<1>2. CompletionsSound'
  BY <1>1 DEF MasterInv, CompletionsSound
<1>3. \A x \in Nodes : InFlight(x)' <=> InFlight(x)
  BY <1>1 DEF InFlight, Polling, Polls
<1>4. /\ polls \in [Nodes -> Nat] /\ streak \in [Nodes -> 0 .. MaxStreak]
      /\ cooldown \in [Nodes -> 0 .. LongestCooldown]
      /\ \A x \in Nodes : PollsOf(x)
  BY DEF MasterInv, PollsSound, Penalties, ModeTypeOK
<1>5. ASSUME NEW x \in Nodes, SetFocus(x) \/ Enable(x), polls' = [polls EXCEPT ![x] = 0]
      PROVE  PollsSound'
  <2>1. /\ polls' \in [Nodes -> Nat] /\ polls'[x] = 0 /\ streak'[x] = 0 /\ cooldown'[x] = 0
        /\ \A y \in Nodes \ {x} :
             /\ polls'[y] = polls[y] /\ streak'[y] = streak[y] /\ cooldown'[y] = cooldown[y]
             /\ PolicyFor(y)' # "off" => PolicyFor(y) # "off"
    BY <1>4, <1>5 DEF SetFocus, Enable, ClearTarget, PolicyFor
  <2>2. PollsOf(x)'
    BY <2>1, Durations DEF PollsOf
  <2>3. ASSUME NEW y \in Nodes \ {x} PROVE PollsOf(y)'
    BY <1>3, <1>4, <2>1 DEF PollsOf
  <2>. QED
    BY <2>1, <2>2, <2>3 DEF PollsSound
<1>6. ASSUME ClearFocus \/ \E x \in Nodes : Disable(x), UNCHANGED polls
      PROVE  PollsSound'
  <2>1. UNCHANGED <<streak, cooldown>>
    BY <1>6 DEF ClearFocus, Disable
  <2>2. \A y \in Nodes : PolicyFor(y)' # "off" => PolicyFor(y) # "off"
    BY <1>6, ModeAssumption DEF ClearFocus, Disable, PolicyFor
  <2>. QED
    BY <1>3, <1>4, <1>6, <2>1, <2>2 DEF PollsSound, PollsOf
<1>. QED
  BY <1>2, <1>5, <1>6 DEF OperatorMode

\* What a step of the operating mode does to one node: without a completion of
\* a poll only time passes; an answer ends all penalties; a failure is counted,
\* and a cooldown may start.
LEMMA ModeEffect ==
    ASSUME Penalties, NEW cs, cs \subseteq Completions, \A c, d \in cs : c = d,
           ModeStep(cs), NEW x \in Nodes
    PROVE  LET ok == \E c \in cs : c.node = x /\ Answered(c)
               bad == \E c \in cs : c.node = x /\ Failed(c)
           IN  /\ ok => streak'[x] = 0 /\ cooldown'[x] = 0
               /\ ~ok /\ ~bad => /\ cooldown[x] > 1 => streak'[x] = streak[x]
                                 /\ cooldown[x] = 1 => streak'[x] = 0
                                 /\ cooldown[x] = 0 => streak'[x] = streak[x]
                                 /\ cooldown'[x] = IF cooldown[x] > 0 THEN cooldown[x] - 1 ELSE 0
               /\ ~ok /\ bad /\ cooldown[x] = 0 => streak'[x] = Counted(streak[x])
<1>. DEFINE ok(y)    == \E c \in cs : c.node = y /\ Answered(c)
            bad(y)   == {c \in cs : c.node = y /\ Failed(c)}
            n(y)     == IF ok(y) THEN 0
                        ELSE IF bad(y) # {} THEN Counted(streak[y]) ELSE streak[y]
            start(y) == {c \in bad(y) : StartsCooldown(y, c, n(y))}
            left(y)  == IF ok(y) THEN 0
                        ELSE IF start(y) # {}
                        THEN CooldownTicks[(CHOOSE c \in start(y) : TRUE).result]
                        ELSE cooldown[y]
<1>1. /\ streak'[x] = StreakAfter(left(x), n(x))
      /\ cooldown'[x] = IF left(x) > 0 THEN left(x) - 1 ELSE 0
  BY DEF ModeStep
<1>2. cooldown[x] \in Nat
  BY Durations DEF Penalties, ModeTypeOK
<1>3. ASSUME ok(x) PROVE streak'[x] = 0 /\ cooldown'[x] = 0
  BY <1>1, <1>3 DEF StreakAfter
<1>4. ASSUME ~ok(x), bad(x) = {}
      PROVE  /\ cooldown[x] > 1 => streak'[x] = streak[x]
             /\ cooldown[x] = 1 => streak'[x] = 0
             /\ cooldown[x] = 0 => streak'[x] = streak[x]
             /\ cooldown'[x] = IF cooldown[x] > 0 THEN cooldown[x] - 1 ELSE 0
  <2>1. left(x) = cooldown[x] /\ n(x) = streak[x]
    BY <1>4
  <2>. HIDE DEF left, n
  <2>. QED
    BY <1>1, <1>2, <2>1 DEF StreakAfter
<1>5. ASSUME ~ok(x), bad(x) # {}, cooldown[x] = 0
      PROVE  streak'[x] = Counted(streak[x])
  <2>1. n(x) = Counted(streak[x])
    BY <1>5
  <2>2. left(x) # 1
    <3>1. CASE start(x) = {}
      BY <1>5, <3>1
    <3>2. CASE start(x) # {}
      <4>1. PICK c \in start(x) : c = CHOOSE d \in start(x) : TRUE
        BY <3>2
      <4>2. c.result \in Failures
        BY <4>1 DEF Completions, Failed, Answered
      <4>3. left(x) = CooldownTicks[c.result]
        BY <1>5, <3>2, <4>1
      <4>. QED
        BY <4>2, <4>3, Constants
    <3>. QED
      BY <3>1, <3>2
  <2>. QED
    BY <1>1, <2>1, <2>2 DEF StreakAfter
<1>6. bad(x) # {} <=> \E c \in cs : c.node = x /\ Failed(c)
  OBVIOUS
<1>. HIDE DEF ok, bad, n, start, left
<1>. QED
  BY <1>3, <1>4, <1>5, <1>6 DEF ok

\* The operating mode takes the completion in the tick after the exchange: the
\* failure of a poll, which was under way until now, is counted.
LEMMA StepModeKeeps ==
    ASSUME MasterInv, StepMode
    PROVE  CompletionsSound' /\ PollsSound'
<1>1. /\ UNCHANGED <<task, active, phase, focus, enabled>>
      /\ phase = "control" /\ modeDone' = TRUE /\ completions' = {} /\ ModeStep(completions)
  BY DEF StepMode, ModeTurn, ModeStep, schedVars
<1>2. CompletionsSound'
  BY <1>1 DEF CompletionsSound
<1>3. /\ completions \subseteq Completions /\ \A c, d \in completions : c = d
      /\ completions # {} => active = 0
  BY DEF MasterInv, CompletionsSound
<1>4. /\ polls \in [Nodes -> Nat] /\ \A x \in Nodes : PollsOf(x)
      /\ streak \in [Nodes -> 0 .. MaxStreak] /\ cooldown \in [Nodes -> Nat]
      /\ Penalties
  BY Durations DEF MasterInv, PollsSound, Penalties, ModeTypeOK
<1>5. \A x \in Nodes :
        polls'[x] = IF \/ \E c \in completions : c.node = x /\ Answered(c)
                       \/ cooldown[x] # 0 /\ cooldown'[x] = 0
                    THEN 0 ELSE polls[x]
  BY DEF StepMode
<1>6. polls' \in [Nodes -> Nat]
  BY <1>4 DEF StepMode
<1>7. ASSUME NEW x \in Nodes PROVE PollsOf(x)'
  <2>. DEFINE ok  == \E c \in completions : c.node = x /\ Answered(c)
              bad == \E c \in completions : c.node = x /\ Failed(c)
  <2>1. /\ ok => streak'[x] = 0 /\ cooldown'[x] = 0
        /\ ~ok /\ ~bad => /\ cooldown[x] > 1 => streak'[x] = streak[x]
                          /\ cooldown[x] = 1 => streak'[x] = 0
                          /\ cooldown[x] = 0 => streak'[x] = streak[x]
                          /\ cooldown'[x] = IF cooldown[x] > 0 THEN cooldown[x] - 1 ELSE 0
        /\ ~ok /\ bad /\ cooldown[x] = 0 => streak'[x] = Counted(streak[x])
    BY <1>1, <1>3, <1>4, ModeEffect
  <2>2. PollsOf(x) /\ polls[x] \in Nat /\ streak[x] \in Nat /\ cooldown[x] \in Nat
    BY <1>4
  <2>3. InFlight(x)' <=> Polling(x)
    BY <1>1 DEF InFlight, Polling, Polls
  <2>4. polls'[x] = IF ok \/ (cooldown[x] # 0 /\ cooldown'[x] = 0) THEN 0 ELSE polls[x]
    BY <1>5
  <2>5. ok \/ bad => ~Polling(x)
    BY <1>3 DEF Polling
  <2>6. bad => InFlight(x)
    BY DEF Failed, InFlight
  <2>7. ok => InFlight(x)' = FALSE
    BY <2>3, <2>5
  <2>8. ~ok /\ ~bad => (InFlight(x) <=> Polling(x))
    BY DEF Failed, Answered, InFlight
  <2>9. PolicyFor(x)' # "off" /\ cooldown[x] = 0 => PolicyFor(x) # "off"
    BY <1>1 DEF PolicyFor
  <2>10. cooldown[x] = 0 => streak[x] < Threshold["timeout"]
    BY <1>4 DEF Penalties, StreakBelow
  <2>11. PolicyFor(x)' # "off" => cooldown'[x] = 0
    BY DEF PolicyFor
  <2>. HIDE DEF ok, bad
  <2>12. CASE ok
    BY <2>1, <2>3, <2>4, <2>5, <2>12, Durations DEF PollsOf
  <2>13. CASE ~ok /\ bad
    <3>1. cooldown[x] = 0 /\ polls'[x] = polls[x] /\ InFlight(x)' = FALSE
      BY <2>2, <2>3, <2>4, <2>5, <2>6, <2>13 DEF PollsOf
    <3>2. streak'[x] = streak[x] + 1 /\ streak[x] + 1 <= Threshold["timeout"]
      BY <2>1, <2>2, <2>10, <2>13, <3>1, Durations DEF Counted
    <3>3. PolicyFor(x)' # "off" => polls[x] <= streak[x] + 1
      BY <2>2, <2>6, <2>9, <2>13, <3>1 DEF PollsOf
    <3>. QED
      BY <2>2, <3>1, <3>2, <3>3 DEF PollsOf
  <2>14. CASE ~ok /\ ~bad
    <3>1. InFlight(x)' <=> InFlight(x)
      BY <2>3, <2>8, <2>14
    <3>2. CASE cooldown[x] = 0
      BY <2>1, <2>2, <2>4, <2>9, <2>14, <3>1, <3>2 DEF PollsOf
    <3>3. CASE cooldown[x] # 0
      BY <2>1, <2>2, <2>4, <2>11, <2>14, <3>1, <3>3, Durations DEF PollsOf
    <3>. QED
      BY <3>2, <3>3
  <2>. QED
    BY <2>12, <2>13, <2>14
<1>. QED
  BY <1>2, <1>6, <1>7 DEF PollsSound

\* The invariant is inductive.
LEMMA NextMaster == MasterInv /\ [Next]_masterVars => MasterInv'
<1>. SUFFICES ASSUME MasterInv, [Next]_masterVars PROVE MasterInv'
  OBVIOUS
<1>1. SchedInv'
  BY NextSched DEF MasterInv
<1>2. Penalties'
  BY StepOperatingMode, NextPenalties DEF MasterInv
<1>3. CompletionsSound' /\ PollsSound'
  BY TaskCommandKeeps, OperatorModeKeeps, StepModeKeeps, RestKeeps, StepNodeKeeps,
     FinishKeeps, StartKeeps DEF Next
<1>. QED
  BY <1>1, <1>2, <1>3 DEF MasterInv

-------------------------------------------------------------------------------
(* Theorems *)

\* The invariant holds, and the scheduler and the operating mode within take
\* only steps of their own.
LEMMA AlwaysMaster == Spec => []MasterInv
  BY InitMaster, NextMaster, PTL DEF Spec

\* What the invariant says of the properties.
LEMMA MasterInvariants ==
    MasterInv => TypeOK /\ PolicyFollowed /\ SilentNodeLimited
<1>. SUFFICES ASSUME MasterInv PROVE TypeOK /\ PolicyFollowed /\ SilentNodeLimited
  OBVIOUS
<1>1. TypeOK
  BY DEF MasterInv, TypeOK, Penalties, CompletionsSound, PollsSound, PollsOf
<1>2. SilentNodeLimited
  BY DEF MasterInv, PollsSound, PollsOf, SilentNodeLimited
<1>3. PolicyFollowed
  <2>1. P!PolicyFollowed
    BY Constants, P!PolicyHolds DEF MasterInv, SchedInv
  <2>. QED
    BY <2>1 DEF PolicyFollowed, Scheduler!PolicyFollowed, P!PolicyFollowed,
                Scheduler!PeriodicOf, P!PeriodicOf, Scheduler!FreeSlots, P!FreeSlots,
                Scheduler!Slots, P!Slots, Scheduler!Cardinality, P!Cardinality
<1>. QED
  BY <1>1, <1>2, <1>3

\* The values of the variables are of their types; the operating mode never
\* falls behind the scheduler: at most one completion waits, and none is left
\* when the nodes read the policy.
THEOREM MasterTypeCorrect == Spec => []TypeOK
  BY AlwaysMaster, MasterInvariants, PTL

\* When the scheduler runs, the periodic tasks are those the operating mode
\* asks for in this tick.
THEOREM MasterPolicy == Spec => []PolicyFollowed
  BY AlwaysMaster, MasterInvariants, PTL

\* A node that does not answer costs at most as many polls as its patience
\* allows before it is left alone, for any thresholds and cooldowns.
THEOREM SilentLimited == Spec => []SilentNodeLimited
  BY AlwaysMaster, MasterInvariants, PTL

\* No step starts a poll of a node that cools down.
LEMMA StepNotCooling ==
    ASSUME MasterInv, [Next]_masterVars, active' # active, active' # 0, Polls(active')
    PROVE  cooldown[task[active'].node] = 0
<1>1. CASE Start
  BY <1>1, SameOthers, StartsWanted DEF Start, PolicyFor
<1>2. CASE TaskCommand
  <2>1. ASSUME NEW x \in OperatorNodes,
               \/ Scheduler!OperatorExchange(x) \/ Scheduler!OperatorSend(x)
               \/ \E f \in 1 .. Width[x], v \in 0 .. MaxValue :
                     Scheduler!OperatorCmd(x, f, v) \/ Scheduler!OperatorStage(x, f, v)
        PROVE  Scheduler!Control(x)
    BY <2>1 DEF Scheduler!OperatorExchange, Scheduler!OperatorSend,
                Scheduler!OperatorCmd, Scheduler!OperatorStage
  <2>2. ASSUME NEW x \in OperatorNodes, Scheduler!Control(x) PROVE active' = active
    BY <2>2 DEF Scheduler!Control
  <2>. QED
    BY <1>2, <2>1, <2>2 DEF TaskCommand
<1>3. CASE OperatorMode \/ StepMode \/ UNCHANGED masterVars
  BY <1>3 DEF OperatorMode, StepMode, masterVars, schedVars
<1>4. CASE EndControl \/ Rest
  BY <1>4 DEF EndControl, Rest, Scheduler!EndControl, Scheduler!ScheduleNothing,
       Scheduler!StartNothing, Scheduler!ExchangeContinues, Scheduler!Exchange,
       Scheduler!queueVars
<1>5. CASE StepNode
  BY <1>5 DEF StepNode, Scheduler!AddPeriodic, Scheduler!KeepPeriodic,
       Scheduler!CancelPeriodic, Scheduler!StayOff, Scheduler!NodeStep
<1>6. CASE Finish
  BY <1>6 DEF Finish, Scheduler!Finalize, Scheduler!NoSlot
<1>7. CASE Exchange
  BY <1>7 DEF Exchange, Scheduler!ExchangeDone, Scheduler!Exchange, Scheduler!queueVars
<1>. QED
  BY <1>1, <1>2, <1>3, <1>4, <1>5, <1>6, <1>7 DEF Next

\* A node that cools down is not polled, though the failure is reported a tick
\* before the policy takes its periodic task away.
THEOREM NotPolledInCooldown == Spec => NoPollInCooldown
<1>1. MasterInv /\ [Next]_masterVars =>
        [active' # active /\ active' # 0 /\ Polls(active') =>
            cooldown[task[active'].node] = 0]_masterVars
  BY StepNotCooling
<1>. QED
  BY <1>1, AlwaysMaster, PTL DEF Spec, NoPollInCooldown

\* CS with its operating mode is one of the behaviours of the scheduler: what
\* holds of CsScheduler under any policy holds of it.
THEOREM RefinesScheduler == Spec => IsScheduler
<1>1. Init => Scheduler!Init
  BY InitScheduler
<1>2. [Next]_masterVars => [Scheduler!Next]_Scheduler!vars
  <2>1. P!Next => Scheduler!Next
    BY SameNext
  <2>2. UNCHANGED P!vars => UNCHANGED Scheduler!vars
    BY DEF P!vars, P!queueVars, P!cmdVars, P!busVars, P!tickVars, P!history,
           Scheduler!vars, Scheduler!queueVars, Scheduler!cmdVars,
           Scheduler!busVars, Scheduler!tickVars, Scheduler!history
  <2>. QED
    BY StepScheduler, <2>1, <2>2
<1>. QED
  BY <1>1, <1>2, PTL DEF Spec, IsScheduler, Scheduler!Spec

\* And one of those of the operating mode, which takes at most one completion
\* in a tick from the scheduler.
THEOREM RefinesMode == Spec => ModeSpec
<1>1. Init => ModeInit
  BY DEF Init
<1>2. MasterInv /\ [Next]_masterVars => [ModeNext]_modeVars
  BY StepOperatingMode DEF MasterInv
<1>. QED
  BY <1>1, <1>2, AlwaysMaster, PTL DEF Spec, ModeSpec

================================================================================
