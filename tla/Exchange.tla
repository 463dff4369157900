------------------------------- MODULE Exchange -------------------------------
(*****************************************************************************)
(* What the bus promises to those who use it, with no byte of it: the        *)
(* scheduler of CS asks one system at a time for one thing, the system takes *)
(* the request as a whole or does not exist, and every memory changes only   *)
(* as the exchange under way entitles it to.  BusExchange implements this on *)
(* a bus that loses nothing.                                                 *)
(*****************************************************************************)
EXTENDS Naturals

CONSTANTS
    Nodes,       \* the systems CS exchanges with
    Devices,     \* those of them that have a device on the bus
    CmdBlocks,   \* [Nodes -> blocks of the command window]
    PrmBlocks,   \* [Nodes -> blocks of the parameter window]
    MaxBlocks,   \* ARP_BUS_MAX_DATA_BLOCKS
    Zero         \* the zero byte: no command

VARIABLES
    request,     \* what the scheduler has asked for, "none" when idle
    target,      \* and from whom
    accepted,    \* the target has taken the request
    result,      \* what the scheduler is told, "none" while it waits
    sent,        \* the commands of CS for the exchange
    commands,    \* MSG_CMD of every device
    telemetry    \* MSG_PRM of CS, one window per node

exchangeVars == <<request, target, accepted, result>>
memoryVars   == <<sent, commands, telemetry>>

ByteIdx == 0 .. 2 * MaxBlocks - 1
Blank   == [i \in ByteIdx |-> Zero]

Init ==
    /\ request = "none" /\ target \in Nodes
    /\ accepted = FALSE /\ result = "none"
    /\ sent = Blank
    /\ commands = [d \in Devices |-> Blank]
    /\ telemetry = [x \in Nodes |-> Blank]

Waiting == request # "none" /\ result = "none"

\* Two windows of which only the first n blocks may differ.
SamePast(n, v, w) == \A i \in ByteIdx : i >= 2 * n => v[i] = w[i]

\* Nonzero commands overwrite, zeros leave alone what waits.
Onto(n, before) ==
    [i \in ByteIdx |-> IF i < 2 * n /\ sent[i] # Zero THEN sent[i] ELSE before[i]]

\* The scheduler asks, if nothing is asked for yet.
Begin(x, r) ==
    /\ request = "none"
    /\ request' = r /\ target' = x /\ accepted' = FALSE /\ result' = "none"
    /\ SamePast(IF r = "CMD_REQ" THEN CmdBlocks[x] ELSE 0, sent', sent)
    /\ UNCHANGED <<commands, telemetry>>

\* The target takes the request, once, and the commands with it: all of the
\* window that was sent, on top of what waits there or has just been executed.
Accept ==
    /\ Waiting /\ ~accepted /\ target \in Devices
    /\ accepted' = TRUE
    /\ \E before \in {commands[target], Blank} :
         commands' = [commands EXCEPT ![target] =
             IF request = "CMD_REQ" THEN Onto(CmdBlocks[target], before) ELSE before]
    /\ UNCHANGED <<request, target, result, sent, telemetry>>

\* The answer of a target that has taken the request: its telemetry, if that was
\* asked for, comes with it.
Succeed ==
    /\ Waiting /\ accepted
    /\ result' = "success"
    /\ \A x \in Nodes :
         SamePast(IF x = target /\ request = "DATA_REQ" THEN PrmBlocks[x] ELSE 0,
                  telemetry'[x], telemetry[x])
    /\ UNCHANGED <<request, target, accepted, sent, commands>>

\* There is nobody to answer.
GiveUp ==
    /\ Waiting /\ target \notin Devices
    /\ result' = "timeout"
    /\ UNCHANGED <<request, target, accepted, memoryVars>>

\* The scheduler takes the result.
Collect ==
    /\ request # "none" /\ result # "none"
    /\ request' = "none" /\ result' = "none"
    /\ UNCHANGED <<target, accepted, memoryVars>>

\* A device executes the commands that wait.
Execute(d) ==
    /\ commands' = [commands EXCEPT ![d] = Blank]
    /\ UNCHANGED <<exchangeVars, sent, telemetry>>

Next ==
    \/ \E x \in Nodes, r \in {"CMD_REQ", "DATA_REQ"} : Begin(x, r)
    \/ Accept
    \/ Succeed
    \/ GiveUp
    \/ Collect
    \/ \E d \in Devices : Execute(d)

Spec == Init /\ [][Next]_<<exchangeVars, memoryVars>>

================================================================================
