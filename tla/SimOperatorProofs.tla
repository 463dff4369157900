--------------------------- MODULE SimOperatorProofs ---------------------------
(*****************************************************************************)
(* Proofs about SimOperator: for every number of systems on the bus and      *)
(* every width of the tick number, the barrier keeps all systems in the same *)
(* tick and the bus delivers each byte in the next one.                      *)
(*****************************************************************************)
EXTENDS SimOperator, TLAPS

Phases == {"none", "init", "ready", "check", "step", "arriving", "waiting", "loop", "ended"}
Before == {"none", "init", "ready", "check", "step"}   \* of a step or in it
After  == {"arriving", "waiting"}                      \* it

\* The state the barrier and the bus work on.
Types ==
    /\ pc \in [Threads -> Phases]
    /\ tick \in [Systems -> 0 .. TickMod - 1]
    /\ nextTick \in 0 .. TickMod - 1 /\ visibleTick \in 0 .. TickMod - 1
    /\ pendingTick \in 0 .. TickMod - 1
    /\ visible \in Bytes \cup {NoByte} /\ pending \in Bytes \cup {NoByte}
    /\ sent \in Bytes \cup {NoByte}
    /\ got \in [Systems -> Bytes \cup {NoByte}]
    /\ members \subseteq Systems /\ arrived \subseteq members

\* The bus: what is visible was written in the phase before, what is pending in
\* this one.
BusPhase ==
    /\ nextTick = (visibleTick + 1) % TickMod
    /\ visible = carried /\ pending = sent
    /\ pending # NoByte => pendingTick = visibleTick

\* A system that has not finished its step has the tick of the bus and is
\* missing at the barrier; one that has finished it has the next tick.
Place(s) ==
    /\ pc[s] \in Before => tick[s] = visibleTick /\ s \notin arrived
    /\ pc[s] \in After => tick[s] = nextTick
    /\ pc[s] = "arriving" => s \notin arrived
    /\ pc[s] = "waiting" => s \in arrived
    /\ pc[s] # "ended" => s \in members
    /\ pc[s] = "step" => got[s] = carried
    /\ pc[s] # "loop"

\* main has not started the threads it has not come to.
Unstarted ==
    /\ handled \in Nat
    /\ main = "spawn" =>
         \A i \in DOMAIN SpawnOrder : i > handled => pc[SpawnOrder[i]] = "none"

BarrierInv == Types /\ BusPhase /\ Unstarted /\ \A s \in Systems : Place(s)

-------------------------------------------------------------------------------

\* The next tick number is one, and no number is its own successor.
LEMMA TickNumbers ==
    /\ 0 \in 0 .. TickMod - 1 /\ 1 \in 0 .. TickMod - 1 /\ 1 = (0 + 1) % TickMod
    /\ \A n \in 0 .. TickMod - 1 : (n + 1) % TickMod \in 0 .. TickMod - 1
  BY OperatorAssumption

LEMMA InitBarrier == Init => BarrierInv
  BY TickNumbers, OperatorAssumption
  DEF Init, BarrierInv, Types, BusPhase, Place, Unstarted, Threads, Phases, Before, After

\* A step of a thread does not make another one unstarted.
LEMMA UnstartedKeeps ==
    ASSUME Unstarted, UNCHANGED <<main, handled>>,
           \A t \in Threads : pc[t] = "none" => pc'[t] = "none"
    PROVE  Unstarted'
  BY DEF Unstarted, Threads

\* The barrier opens only when every system that has not left has finished its
\* step, so all of them are in the next tick.
LEMMA OpensKeeps ==
    ASSUME BarrierInv, NEW here \in SUBSET Systems, NEW left \in SUBSET Systems,
           NEW s \in Systems, here = arrived \cup {s}, s \in members,
           \A x \in Systems : pc[x] = "ended" => x \in left,
           \A x \in left : pc[x] = "ended" \/ x = s,
           pc[s] # "none", pc[s] \in After \/ s \in left,
           tick' = tick, UNCHANGED <<main, handled>>, Opens(here, left)
    PROVE  BarrierInv'
<1> USE DEF BarrierInv
<1>1. Types'
  BY TickNumbers, OperatorAssumption DEF Types, Opens, Staying, Phases
<1>2. visible' = carried' /\ pending' = sent'
  BY DEF Opens, BusPhase, Delivers
<1>3. BusPhase'
  BY <1>2 DEF Opens, BusPhase
<1>4. ASSUME NEW x \in Systems
      PROVE  Place(x)'
  BY <1>4, OperatorAssumption DEF Place, Opens, Staying, AllHere, Types, BusPhase, Before, After, Phases
<1>5. Unstarted'
  <2>1. \A t \in Threads : pc[t] = "none" => pc'[t] = "none"
    BY OperatorAssumption DEF Opens, Types, Place, Before, After
  <2> QED
    BY <2>1, UnstartedKeeps
<1> QED
  BY <1>1, <1>3, <1>4, <1>5

\* Steps of main, the signal and the time limit start and join threads only.
LEMMA MainKeeps ==
    ASSUME BarrierInv, Main \/ GuardEnds \/ Signal
    PROVE  BarrierInv'
<1> USE DEF BarrierInv, mainVars, systemVars, busVars
<1>1. CASE Spawn
  <2> DEFINE t == SpawnOrder[handled + 1]
  <2>1. t \in Threads /\ handled + 1 \in DOMAIN SpawnOrder
    BY <1>1, OperatorAssumption DEF Spawn, Threads, Unstarted
  <2>2. pc[t] = "none" /\ pc' = [pc EXCEPT ![t] = "init"]
    BY <1>1, <2>1 DEF Spawn, Unstarted
  <2> HIDE DEF t
  <2>3. Types'
    BY <1>1, <2>1, <2>2 DEF Spawn, Types, Phases
  <2>4. BusPhase'
    BY <1>1 DEF Spawn, BusPhase
  <2>5. ASSUME NEW s \in Systems PROVE Place(s)'
    BY <1>1, <2>1, <2>2, <2>5, OperatorAssumption DEF Spawn, Types, Place, Before, After
  <2>6. Unstarted'
    BY <1>1, <2>2, OperatorAssumption DEF Spawn, Unstarted, Types, Threads, t
  <2> QED
    BY <2>3, <2>4, <2>5, <2>6
<1>2. CASE UNCHANGED <<pc, systemVars>> /\ main' # "spawn" /\ handled' \in Nat
  BY <1>2 DEF Types, BusPhase, Place, Unstarted
<1>3. CASE UNCHANGED <<pc, systemVars, main, handled>>
  BY <1>3 DEF Types, BusPhase, Place, Unstarted
<1>4. CASE StartGuard \/ SeeStop \/ Join \/ JoinGuard
  BY <1>4, <1>2 DEF StartGuard, SeeStop, Join, JoinGuard, Unstarted
<1> QED
  BY <1>1, <1>3, <1>4 DEF Main, GuardEnds, Signal

\* The threads that do not use the bus.
LEMMA LoopKeeps ==
    ASSUME BarrierInv, NEW t \in Threads, Loop(t)
    PROVE  BarrierInv'
<1> USE DEF BarrierInv, Loop, systemVars, busVars, mainVars
<1>1. Types' /\ BusPhase'
  BY DEF Types, BusPhase, Phases
<1>2. \A s \in Systems : Place(s)'
  BY DEF Types, Place
<1>3. Unstarted'
  BY UnstartedKeeps DEF Types
<1> QED
  BY <1>1, <1>2, <1>3

\* The systems before their first step: every tick number is the bus's.
LEMMA StartKeeps ==
    ASSUME BarrierInv, StartTogether \/ \E s \in Systems : Initialise(s)
    PROVE  BarrierInv'
<1> USE DEF BarrierInv, StartTogether, Initialise, Goto, systemVars, busVars, mainVars
<1>1. Types' /\ BusPhase'
  BY OperatorAssumption DEF Types, BusPhase, Phases
<1>2. \A s \in Systems : Place(s)'
  BY OperatorAssumption DEF Types, Place, Before, After
<1>3. Unstarted'
  BY UnstartedKeeps, OperatorAssumption DEF Types
<1> QED
  BY <1>1, <1>2, <1>3

\* A step of a system: it has the tick of the bus when it reads, so it gets what
\* is visible, and when it writes, so the byte is pending with that tick.
LEMMA StepKeeps ==
    ASSUME BarrierInv, NEW s \in Systems, Read(s) \/ Write(s)
    PROVE  BarrierInv'
<1> USE DEF BarrierInv, Goto, mainVars
<1>1. CASE Read(s)
  <2>1. Types' /\ BusPhase'
    BY <1>1, OperatorAssumption DEF Read, Types, BusPhase, Phases, busVars
  <2>2. got'[s] = carried
    BY <1>1 DEF Read, Types, BusPhase, Place, Before
  <2>3. \A x \in Systems : Place(x)'
    BY <1>1, <2>2, OperatorAssumption DEF Read, Types, Place, Before, After, busVars
  <2>4. Unstarted'
    BY <1>1, UnstartedKeeps, OperatorAssumption DEF Read, Types
  <2> QED
    BY <2>1, <2>3, <2>4
<1>2. CASE Write(s)
  <2>1. tick[s] = visibleTick /\ tick' = [tick EXCEPT ![s] = nextTick]
    BY <1>2 DEF Write, Types, BusPhase, Place, Before
  <2>2. Types' /\ BusPhase'
    BY <1>2, <2>1, OperatorAssumption DEF Write, Types, BusPhase, Phases
  <2>3. \A x \in Systems : Place(x)'
    BY <1>2, <2>1, OperatorAssumption DEF Write, Types, Place, Before, After
  <2>4. Unstarted'
    BY <1>2, UnstartedKeeps, OperatorAssumption DEF Write, Types
  <2> QED
    BY <2>2, <2>3, <2>4
<1> QED
  BY <1>1, <1>2

\* A system at the barrier, which opens or does not.
LEMMA MeetKeeps ==
    ASSUME BarrierInv, NEW s \in Systems, Arrive(s) \/ Leave(s)
    PROVE  BarrierInv'
<1> USE DEF BarrierInv, mainVars
<1>1. s \in members /\ UNCHANGED <<main, handled, tick>>
  BY DEF Arrive, Leave, Place
<1>2. /\ pc[s] # "none" /\ arrived \cup {s} \in SUBSET Systems
      /\ Left \in SUBSET Systems /\ Left \cup {s} \in SUBSET Systems
  BY DEF Arrive, Leave, Left, Types
<1>3. CASE pc[s] = "arriving" /\ Opens(arrived \cup {s}, Left)
  BY <1>1, <1>2, <1>3, OpensKeeps DEF Left, After
<1>4. CASE Opens(arrived \cup {s}, Left \cup {s})
  BY <1>1, <1>2, <1>4, OpensKeeps DEF Left, After
<1>5. CASE /\ StaysShut(s, IF pc[s] = "arriving" THEN "waiting" ELSE "ended")
           /\ pc[s] \in {"arriving", "check"}
  <2>1. Types' /\ BusPhase'
    BY <1>1, <1>5, OperatorAssumption DEF StaysShut, Goto, Types, BusPhase, Phases, busVars
  <2>2. \A x \in Systems : Place(x)'
    BY <1>1, <1>5, OperatorAssumption
    DEF Arrive, Leave, StaysShut, Goto, Types, Place, Before, After, busVars
  <2>3. Unstarted'
    BY <1>1, <1>5, UnstartedKeeps, OperatorAssumption
    DEF Arrive, Leave, StaysShut, Goto, Types
  <2> QED
    BY <2>1, <2>2, <2>3
<1> QED
  BY <1>3, <1>4, <1>5 DEF Arrive, Leave

\* No step, and no stutter, breaks the order of the barrier.
LEMMA NextBarrier == BarrierInv /\ [Next]_vars => BarrierInv'
<1> SUFFICES ASSUME BarrierInv, [Next]_vars PROVE BarrierInv'
  OBVIOUS
<1>1. CASE UNCHANGED vars
  BY <1>1 DEF vars, mainVars, systemVars, busVars, BarrierInv, Types, BusPhase, Place, Unstarted
<1>2. CASE Next
  BY <1>1, <1>2, MainKeeps, LoopKeeps, StartKeeps, StepKeeps, MeetKeeps
  DEF Next, System
<1> QED
  BY <1>1, <1>2

\* The systems are in the same tick whenever they use the bus, whatever the
\* threads, the signals and the wrap of the tick numbers do
\* (sim_operator.cpp, 134-148; mock_bus.cpp).
THEOREM BarrierOrder == Spec => []BarrierInv
<1>1. Init => BarrierInv
  BY InitBarrier
<1>2. BarrierInv /\ [Next]_vars => BarrierInv'
  BY NextBarrier
<1> QED
  BY <1>1, <1>2, PTL DEF Spec

\* A system reads in a step the last byte written since the step before, and
\* nothing older (mock_bus_tick, mock_bus_read_u8).
THEOREM DeliveredNextTick == Spec => []ByteNextTick
<1>1. BarrierInv => ByteNextTick
  BY DEF BarrierInv, Place, ByteNextTick
<1> QED
  BY <1>1, BarrierOrder, PTL

================================================================================
