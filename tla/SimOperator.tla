------------------------------ MODULE SimOperator ------------------------------
(*****************************************************************************)
(* The program around the systems (sim_operator.cpp): main starts a thread   *)
(* for every system and model, the threads of CS and PSS meet at a barrier   *)
(* after every step, the last one to arrive ticks the bus (mock_bus.cpp),    *)
(* and a signal or the time limit stops everything.                          *)
(*                                                                           *)
(* A step of a system reads the bus once and writes it at most once: what is *)
(* read and written is in BusExchange, what else the step does in the other  *)
(* modules.  This one is about the tick numbers, the barrier and the end.    *)
(*****************************************************************************)
EXTENDS Integers, Sequences, FiniteSets

CONSTANTS
    Systems,     \* the threads that use the bus (CS and PSS)
    SpawnOrder,  \* all threads, in the order they are started and joined
    Bytes,       \* what the systems write
    NoByte,      \* nothing on the bus
    TickMod      \* tick numbers wrap: 2^32 in the program

Threads == {SpawnOrder[i] : i \in DOMAIN SpawnOrder}

ASSUME OperatorAssumption ==
    /\ SpawnOrder \in Seq(Threads) /\ Systems \subseteq Threads
    /\ \A i, j \in DOMAIN SpawnOrder : SpawnOrder[i] = SpawnOrder[j] => i = j
    /\ NoByte \notin Bytes
    /\ TickMod \in Nat /\ TickMod > 2

VARIABLES
    stop,      \* g_stop_requested
    main,      \* "spawn", "wait", "join", "guard" or "ended"
    handled,   \* how many threads main has started, then joined
    guard,     \* the time limit: "none", "new", "sleeping" or "ended"
    pc,        \* of every thread
    tick,      \* the tick number of every system
    members,   \* who takes part in the tick barrier ...
    arrived,   \* ... and who waits at it
    nextTick,  \* g_next_bus_tick
    visible, visibleTick, pending, pendingTick,   \* G_BUS
    got,       \* history: what every system has read in its step
    sent,      \* history: the last byte written since the barrier opened ...
    carried    \* ... and the last one written before that

busVars    == <<visible, visibleTick, pending, pendingTick>>
mainVars   == <<main, handled, guard>>
systemVars == <<tick, members, arrived, nextTick, busVars, got, sent, carried>>
vars       == <<stop, mainVars, pc, systemVars>>

Init ==
    /\ stop = FALSE
    /\ main = "spawn" /\ handled = 0
    /\ guard \in {"none", "new"}      \* ARP_SIM_DURATION_SEC
    /\ pc = [t \in Threads |-> "none"]
    /\ tick = [s \in Systems |-> 0]
    /\ members = Systems /\ arrived = {}
    /\ nextTick = 1
    /\ visible = NoByte /\ visibleTick = 0    \* mock_bus_init
    /\ pending = NoByte /\ pendingTick = 0
    /\ got = [s \in Systems |-> NoByte] /\ sent = NoByte /\ carried = NoByte

-------------------------------------------------------------------------------
(* main *)

Spawn ==
    /\ main = "spawn" /\ handled < Len(SpawnOrder)
    /\ handled' = handled + 1
    /\ pc' = [pc EXCEPT ![SpawnOrder[handled']] = "init"]
    /\ UNCHANGED <<stop, main, guard, systemVars>>

StartGuard ==
    /\ main = "spawn" /\ handled = Len(SpawnOrder)
    /\ main' = "wait"
    /\ guard' = IF guard = "new" THEN "sleeping" ELSE guard
    /\ UNCHANGED <<stop, handled, pc, systemVars>>

SeeStop ==
    /\ main = "wait" /\ stop
    /\ main' = "join" /\ handled' = 0
    /\ UNCHANGED <<stop, guard, pc, systemVars>>

Join ==
    /\ main = "join" /\ handled < Len(SpawnOrder)
    /\ pc[SpawnOrder[handled + 1]] = "ended"
    /\ handled' = handled + 1
    /\ main' = IF handled' = Len(SpawnOrder) THEN "guard" ELSE main
    /\ UNCHANGED <<stop, guard, pc, systemVars>>

JoinGuard ==
    /\ main = "guard" /\ guard \in {"none", "ended"}
    /\ main' = "ended"
    /\ UNCHANGED <<stop, handled, guard, pc, systemVars>>

Main == Spawn \/ StartGuard \/ SeeStop \/ Join \/ JoinGuard

\* The guard sleeps to the end of the limit, whatever happens meanwhile.
GuardEnds ==
    /\ guard = "sleeping" /\ guard' = "ended"
    /\ stop' = TRUE
    /\ UNCHANGED <<main, handled, pc, systemVars>>

\* on_signal: SIGINT or SIGTERM, as soon as main runs.
Signal ==
    /\ ~stop /\ main # "ended"
    /\ stop' = TRUE
    /\ UNCHANGED <<mainVars, pc, systemVars>>

-------------------------------------------------------------------------------
(* The threads of the models and of the systems that have no software yet:   *)
(* a loop that meets nobody.                                                 *)

Loop(t) ==
    /\ t \notin Systems /\ pc[t] \in {"init", "loop"}
    /\ pc' = [pc EXCEPT ![t] = IF stop THEN "ended" ELSE "loop"]
    /\ UNCHANGED <<stop, mainVars, systemVars>>

-------------------------------------------------------------------------------
(* The threads of CS and PSS *)

Goto(s, to) == pc' = [pc EXCEPT ![s] = to]

\* runtime_init, then the start barrier.
Initialise(s) ==
    /\ pc[s] = "init"
    /\ Goto(s, "ready")
    /\ UNCHANGED <<stop, mainVars, systemVars>>

StartTogether ==
    /\ \A s \in Systems : pc[s] = "ready"
    /\ pc' = [t \in Threads |-> IF t \in Systems THEN "check" ELSE pc[t]]
    /\ UNCHANGED <<stop, mainVars, systemVars>>

\* A step begins: mock_bus_read_u8.
Read(s) ==
    /\ pc[s] = "check" /\ ~stop
    /\ got' = [got EXCEPT ![s] = IF visibleTick = tick[s] THEN visible ELSE NoByte]
    /\ Goto(s, "step")
    /\ UNCHANGED <<stop, mainVars, tick, members, arrived, nextTick, busVars,
                   sent, carried>>

\* It ends with at most one mock_bus_write_u8; then the thread goes on to the
\* barrier with the next tick number.
Write(s) ==
    /\ pc[s] = "step"
    /\ \/ UNCHANGED <<pending, pendingTick, sent>>
       \/ \E b \in Bytes : pending' = b /\ pendingTick' = tick[s] /\ sent' = b
    /\ tick' = [tick EXCEPT ![s] = (@ + 1) % TickMod]
    /\ Goto(s, "arriving")
    /\ UNCHANGED <<stop, mainVars, members, arrived, nextTick, visible, visibleTick,
                   got, carried>>

\* mock_bus_tick: a byte written with the tick before this one becomes visible.
\* Mutant: written with this tick.
DeliversNow == pending # NoByte /\ pendingTick = nextTick
Delivers == pending # NoByte /\ (pendingTick + 1) % TickMod = nextTick

AllHere(here) == here = members

\* arrive_and_drop: a thread that has arrived for the last time is not expected
\* the next time.
Staying(left) == members \ left

\* The last one to arrive ticks the bus and lets the others go.
Opens(here, left) ==
    /\ AllHere(here)
    /\ visible' = IF Delivers THEN pending ELSE NoByte
    /\ visibleTick' = nextTick
    /\ pending' = NoByte
    /\ nextTick' = (nextTick + 1) % TickMod
    /\ carried' = sent /\ sent' = NoByte
    /\ arrived' = {}
    /\ members' = Staying(left)
    /\ pc' = [t \in Threads |-> IF t \in left THEN "ended"
                                ELSE IF t \in here THEN "check" ELSE pc[t]]
    /\ UNCHANGED <<pendingTick, got>>

StaysShut(s, to) ==
    /\ ~AllHere(arrived \cup {s})
    /\ arrived' = arrived \cup {s}
    /\ Goto(s, to)
    /\ UNCHANGED <<members, nextTick, busVars, got, sent, carried>>

Left == {s \in Systems : pc[s] = "ended"}

\* arrive_and_wait, then sleep_to_next_tick.
Arrive(s) ==
    /\ pc[s] = "arriving"
    /\ Opens(arrived \cup {s}, Left) \/ StaysShut(s, "waiting")
    /\ UNCHANGED <<stop, mainVars, tick>>

\* Mutant: the thread ends without coming to the barrier.
LeaveUnseen(s) ==
    /\ pc[s] = "check" /\ stop
    /\ Goto(s, "ended")
    /\ UNCHANGED <<stop, mainVars, systemVars>>

\* The loop ends: arrive_and_drop.
Leave(s) ==
    /\ pc[s] = "check" /\ stop
    /\ Opens(arrived \cup {s}, Left \cup {s}) \/ StaysShut(s, "ended")
    /\ UNCHANGED <<stop, mainVars, tick>>

System(s) == Initialise(s) \/ Read(s) \/ Write(s) \/ Arrive(s) \/ Leave(s)

Next ==
    \/ Main
    \/ GuardEnds
    \/ Signal
    \/ \E t \in Threads : Loop(t)
    \/ \E s \in Systems : System(s)
    \/ StartTogether

\* Every thread runs, and the sleep of the guard ends; a signal may never come.
Fairness ==
    /\ WF_vars(Main) /\ WF_vars(GuardEnds) /\ WF_vars(StartTogether)
    /\ \A t \in Threads : WF_vars(Loop(t))
    /\ \A s \in Systems : WF_vars(System(s))

Spec     == Init /\ [][Next]_vars
FairSpec == Spec /\ Fairness

-------------------------------------------------------------------------------
(* Properties *)

\* The bus delivers in the next tick: what a system reads in a step is the last
\* byte written since it began its step before, by whichever system, and
\* nothing older; a tick without a write is silent, also where the tick numbers
\* wrap (pending and visible, DATA_EXCHANGE_RU.md, 24.2).
ByteNextTick == \A s \in Systems : pc[s] = "step" => got[s] = carried

\* Nobody is left at the barrier: while the program runs it opens again and
\* again, and a stop request, by a signal or by the time limit, at whatever
\* moment of the start or of a step it comes, ends the program, also when one
\* system sees the request a tick before the other.  (With a time limit main
\* ends only when the limit is over.)
Stops ==
    /\ \A s \in Systems : pc[s] = "waiting" ~> pc[s] # "waiting"
    /\ stop ~> main = "ended"

================================================================================
