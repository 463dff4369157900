------------------------------ MODULE BusExchange ------------------------------
(*****************************************************************************)
(* The byte-level exchange on the Arachnopod bus: the master CS and the      *)
(* devices run the same receive/transmit machine of i_sys_algo.cpp, one      *)
(* handler per system per tick, over the two-slot byte channel of            *)
(* mock_bus.cpp, in lock step through the tick barrier of sim_operator.cpp.  *)
(*                                                                           *)
(* One action is one runtime_step of one system.  Inside a tick the systems  *)
(* step in any order; the barrier then moves the pending byte to visible.    *)
(* What the scheduler of CS asks for and what the model of a device holds    *)
(* are inputs here (modules CsScheduler and PssSystem say more of them).     *)
(*                                                                           *)
(* Next is the bus of the simulation, which loses nothing.  NoisyNext adds   *)
(* a line that drops or damages bytes: the errors the protocol is built to   *)
(* notice (DATA_EXCHANGE_RU.md, section 12).  Whatever it does to the bytes, *)
(* the exchanges that begin on a bus at rest (clean) are again those of a    *)
(* bus that loses nothing.                                                   *)
(*****************************************************************************)
EXTENDS Naturals

CONSTANTS
    CS,          \* the bus master
    Nodes,       \* the systems CS exchanges with
    Devices,     \* those of them that have a device on the bus
    FirstNode,   \* the node whose windows start at block 0 of MSG_CMD, MSG_PRM
    CmdBlocks,   \* [Nodes -> blocks of the command window]
    PrmBlocks,   \* [Nodes -> blocks of the parameter window]
    MaxBlocks,   \* ARP_BUS_MAX_DATA_BLOCKS
    Timeout,     \* ARP_BUS_RESPONSE_TIMEOUT_FRAMES
    CmdData,     \* payload byte values of commands
    PrmData,     \* payload byte values of parameters
    Zero,        \* the zero byte: no command
    SOF, EOF,    \* ARP_BUS_SOF, ARP_BUS_EOF; payload bytes may equal them
    Noise,       \* a byte damaged on the line: it equals no byte ever sent
    NoByte,      \* nothing to read in this tick
    MaxDisturbed \* bound on the bytes the line loses or damages

VARIABLES
    bus,      \* bus_state_t of every system
    wait,     \* exchange_wait_clock of CS
    frame,    \* the node whose window msg_prm_frame_*, msg_cmd_frame_* select
    target,   \* target_addr of CS
    result,   \* last_result of CS, "none" when result_ready is false
    armed,    \* the exchange the scheduler of CS waits for, "none" when idle
    served,   \* history: the target has accepted the armed request
    cmdBuf,   \* MSG_CMD_BUF of every system
    prmBuf,   \* MSG_PRM_BUF of every system
    msgCmd,   \* MSG_CMD of every device
    msgPrm,   \* MSG_PRM of CS, one window per node
    model,    \* the parameter snapshot of every device model
    on,       \* is_power_on() of every device
    pending,  \* the byte written in this tick
    visible,  \* the byte readable in this tick
    stepped,  \* the systems that have arrived at the tick barrier
    disturbed, \* bytes the line has lost or damaged so far
    clean     \* history: since the last of them an exchange has begun on a bus at rest

stateVars == <<bus, wait, frame, target, result, armed, served>>
memVars   == <<cmdBuf, prmBuf, msgCmd, msgPrm>>
envVars   == <<model, on>>
lineVars  == <<pending, visible, stepped, disturbed, clean>>
vars      == <<stateVars, memVars, envVars, lineVars>>

Systems  == {CS} \cup Devices
Requests == {"CMD_REQ", "DATA_REQ"}
Flags    == Requests \cup {"CMD_RESP", "DATA_RESP"}
RxPhases == {"rx_sof", "rx_header", "rx_data", "rx_eof"}
TxPhases == {"tx_sof", "tx_header", "tx_data", "tx_eof"}
Results  == {"none", "success", "timeout", "invalid_eof"}

BlockCounts == 0 .. MaxBlocks
SubCounts   == 0 .. 2 * MaxBlocks    \* rx_sub, tx_sub

\* The two header bytes: parity, address and flag; marker and block count.
AddrBytes  == [addr : Nodes \cup {CS}, flag : Flags]
CountBytes == [n : BlockCounts]
Bytes      == CmdData \cup PrmData \cup {Zero, SOF, EOF, Noise}
                \cup AddrBytes \cup CountBytes
ByteIdx    == 0 .. 2 * MaxBlocks - 1
Payloads   == [ByteIdx -> Bytes]

ASSUME ConstantsAssumption ==
    /\ CS \notin Nodes
    /\ Devices \subseteq Nodes
    /\ FirstNode \in Nodes
    /\ MaxBlocks \in Nat \ {0}
    /\ CmdBlocks \in [Nodes -> 1 .. MaxBlocks]
    /\ PrmBlocks \in [Nodes -> 1 .. MaxBlocks]
    /\ Timeout \in Nat
    /\ MaxDisturbed \in Nat
    /\ SOF # EOF
    /\ {SOF, EOF, NoByte, Noise} \cap (AddrBytes \cup CountBytes) = {}
    /\ NoByte \notin CmdData \cup PrmData \cup {Zero, SOF, EOF, Noise}

\* An answer begins two silent ticks after the request; ARP_BUS_RESPONSE_TIMEOUT_FRAMES
\* is 10.
ASSUME TimeoutAssumption == Timeout > 2

IdleBus ==
    [pc |-> "rx_sof", adr |-> FALSE, n |-> 0, flag |-> "CMD_REQ",
     sub |-> 0, busy |-> FALSE, hdr |-> NoByte]

BusStates ==
    [pc : RxPhases \cup TxPhases, adr : BOOLEAN, n : BlockCounts,
     flag : Flags, sub : SubCounts, busy : BOOLEAN,
     hdr : Bytes \cup {NoByte}]

Blank == [i \in ByteIdx |-> Zero]

Init ==
    /\ bus = [s \in Systems |-> IdleBus]
    /\ wait = 0
    /\ frame = FirstNode
    /\ target \in Nodes
    /\ result = "none"
    /\ armed = "none"
    /\ served = FALSE
    /\ cmdBuf = [s \in Systems |-> Blank]
    /\ prmBuf = [s \in Systems |-> Blank]
    /\ msgCmd = [d \in Devices |-> Blank]
    /\ msgPrm = [x \in Nodes |-> Blank]
    /\ model \in [Devices -> PrmData]
    /\ on \in [Devices -> BOOLEAN]
    /\ pending = NoByte
    /\ visible = NoByte
    /\ stepped = {}
    /\ disturbed = 0
    /\ clean = TRUE

-------------------------------------------------------------------------------
(* Windows and headers *)

WindowOf(s)   == IF s = CS THEN frame ELSE s
CmdBytes(s)   == 2 * CmdBlocks[WindowOf(s)]
PrmBytes(s)   == 2 * PrmBlocks[WindowOf(s)]
Peer(s)       == IF s = CS THEN target ELSE CS

\* calc_nblocks: only a command request and a data response carry payload.
BlocksToSend(s) ==
    IF bus[s].flag = "CMD_REQ" THEN CmdBlocks[WindowOf(s)]
    ELSE IF bus[s].flag = "DATA_RESP" THEN PrmBlocks[WindowOf(s)]
    ELSE 0

\* IBUS_PARSE_STD_HEADER.  One damaged byte is a parity error: the frame
\* counts as addressed to somebody else, with no payload.  Two bytes that
\* were not sent as one header may pass the parity check and mean anything.
ParityError(s) == [adr |-> FALSE, flag |-> bus[s].flag, n |-> 0]

\* Mutant: every system takes every frame for its own.
AddressedAll(s, addr) == TRUE
Addressed(s, addr) == addr = s

\* Mutant: the length of a frame for somebody else is not remembered.
ParsesOwn(s, b0, b1) ==
    {[adr |-> b0.addr = s, flag |-> b0.flag, n |-> IF b0.addr = s THEN b1.n ELSE 0]}

Parses(s, b0, b1) ==
    IF b0 \in AddrBytes /\ b1 \in CountBytes
    THEN {[adr |-> Addressed(s, b0.addr), flag |-> b0.flag, n |-> b1.n]}
    ELSE IF (b0 \in AddrBytes /\ b1 = Noise) \/ (b0 = Noise /\ b1 \in CountBytes)
    THEN {ParityError(s)}
    ELSE {ParityError(s)}
           \cup [adr : BOOLEAN, flag : Flags, n : BlockCounts]

-------------------------------------------------------------------------------
(* What surrounds the exchange in one step of a system *)

\* Before the exchange a powered device executes and clears the commands in
\* MSG_CMD (ICMDUPD), exports its model into MSG_PRM and copies all of it to
\* MSG_PRM_BUF (IPRMUPD), in the middle of a transmission too.
Powered(s)  == s \in Devices /\ on[s]
FreshCmd(d) == IF on[d] THEN Blank ELSE msgCmd[d]
FreshPrm(s) == IF Powered(s) THEN [i \in ByteIdx |-> model[s]] ELSE prmBuf[s]

KeepMemory(s) ==
    /\ prmBuf' = [prmBuf EXCEPT ![s] = FreshPrm(s)]
    /\ msgCmd' = [d \in Devices |-> IF d = s THEN FreshCmd(d) ELSE msgCmd[d]]
    /\ UNCHANGED <<cmdBuf, msgPrm>>

Arrive(s) ==
    /\ s \notin stepped
    /\ stepped' = stepped \cup {s}
    /\ UNCHANGED <<envVars, visible, disturbed>>

Read(s)     == Arrive(s) /\ UNCHANGED pending
Write(s, b) == Arrive(s) /\ pending' = b

\* A CS step that finds the bus free first takes the result of the exchange
\* the scheduler waits for (exchange_control); mark_result in the handler that
\* runs after it in the same step stores the next one.
Taken == ~bus[CS].busy /\ armed # "none" /\ result # "none"

Outcome(s, r) ==
    /\ armed' = IF s = CS /\ Taken THEN "none" ELSE armed
    /\ result' = IF s # CS THEN result
                 ELSE IF r # "none" THEN r
                 ELSE IF Taken THEN "none" ELSE result

\* exchange_wait_clock: a byte the handler accepts clears it, otherwise a
\* busy master counts one more silent tick.
\* Mutants: a byte accepted does not clear the count; silence is not counted.
CountWaitKept(s, accepted) ==
    wait' = IF s = CS /\ bus[CS].busy THEN wait + 1 ELSE wait
CountWaitNever(s, accepted) ==
    wait' = IF s = CS /\ accepted THEN 0 ELSE wait

CountWait(s, accepted) ==
    wait' = IF s # CS THEN wait
            ELSE IF accepted THEN 0
            ELSE IF bus[CS].busy THEN wait + 1 ELSE wait

Expired(s) == s = CS /\ bus[CS].busy /\ wait >= Timeout

\* reset_to_idle; the master also falls back to the full frame layout.
GoIdle(s) ==
    /\ bus' = [bus EXCEPT ![s] = IdleBus]
    /\ wait' = IF s = CS THEN 0 ELSE wait
    /\ frame' = IF s = CS THEN FirstNode ELSE frame

-------------------------------------------------------------------------------
(* Reception: IBUS_RX_EXCHANGE and its four handlers *)

Receives(s, phase) ==
    /\ bus[s].pc = phase
    /\ ~Expired(s)
    /\ Read(s)

\* A busy master that has waited more than Timeout ticks gives up before it
\* looks at the bus.
RxTimeout ==
    /\ bus[CS].pc \in RxPhases
    /\ Expired(CS)
    /\ Read(CS)
    /\ GoIdle(CS)
    /\ Outcome(CS, "timeout")
    /\ KeepMemory(CS)
    /\ UNCHANGED <<target, served, clean>>

IrxSof(s) ==
    /\ Receives(s, "rx_sof")
    /\ bus' = IF visible = SOF
              THEN [bus EXCEPT ![s].pc = "rx_header", ![s].sub = 0,
                               ![s].busy = @ \/ s # CS]
              ELSE bus
    /\ CountWait(s, visible = SOF)
    /\ Outcome(s, "none")
    /\ KeepMemory(s)
    /\ UNCHANGED <<frame, target, served, clean>>

IrxHeaderFirst(s) ==
    /\ Receives(s, "rx_header")
    /\ bus[s].sub = 0
    /\ bus' = IF visible # NoByte
              THEN [bus EXCEPT ![s].hdr = visible, ![s].sub = 1]
              ELSE bus
    /\ CountWait(s, visible # NoByte)
    /\ Outcome(s, "none")
    /\ KeepMemory(s)
    /\ UNCHANGED <<frame, target, served, clean>>

IrxHeaderSecond(s) ==
    /\ Receives(s, "rx_header")
    /\ bus[s].sub = 1
    /\ IF visible # NoByte
       THEN \E h \in Parses(s, bus[s].hdr, visible) :
              bus' = [bus EXCEPT ![s] =
                        [@ EXCEPT !.adr = h.adr, !.flag = h.flag, !.n = h.n,
                                  !.sub = 0, !.hdr = NoByte,
                                  !.pc = IF h.n > 0 THEN "rx_data" ELSE "rx_eof"]]
       ELSE bus' = bus
    /\ CountWait(s, visible # NoByte)
    /\ Outcome(s, "none")
    /\ KeepMemory(s)
    /\ UNCHANGED <<frame, target, served, clean>>

\* The byte under the clock is the last of the announced blocks.
\* Mutant: one byte too many.
LastByteLate(s) == bus[s].sub >= 2 * bus[s].n
LastByte(s) == bus[s].sub + 1 >= 2 * bus[s].n

\* Payload goes to a buffer only if the frame is addressed to the system and
\* is of a kind that carries payload, and only inside the window.
IrxData(s) ==
    LET i     == bus[s].sub
        isCmd == bus[s].adr /\ bus[s].flag = "CMD_REQ" /\ i < CmdBytes(s)
        isPrm == bus[s].adr /\ bus[s].flag = "DATA_RESP" /\ i < PrmBytes(s)
        got   == visible # NoByte
    IN  /\ Receives(s, "rx_data")
        /\ bus' = IF got
                  THEN [bus EXCEPT ![s].sub = i + 1,
                                   ![s].pc = IF LastByte(s) THEN "rx_eof" ELSE @]
                  ELSE bus
        /\ cmdBuf' = IF got /\ isCmd
                     THEN [cmdBuf EXCEPT ![s][i] = visible] ELSE cmdBuf
        /\ prmBuf' = [prmBuf EXCEPT ![s] =
                        IF got /\ isPrm THEN [FreshPrm(s) EXCEPT ![i] = visible]
                        ELSE FreshPrm(s)]
        /\ msgCmd' = [d \in Devices |->
                        IF d = s THEN FreshCmd(d) ELSE msgCmd[d]]
        /\ CountWait(s, got)
        /\ Outcome(s, "none")
        /\ UNCHANGED <<frame, target, served, msgPrm, clean>>

IrxEofMissing(s) ==
    /\ Receives(s, "rx_eof")
    /\ visible = NoByte
    /\ bus' = bus
    /\ CountWait(s, FALSE)
    /\ Outcome(s, "none")
    /\ KeepMemory(s)
    /\ UNCHANGED <<frame, target, served, clean>>

IrxEofInvalid(s) ==
    /\ Receives(s, "rx_eof")
    /\ visible \notin {NoByte, EOF}
    /\ GoIdle(s)
    /\ Outcome(s, "invalid_eof")
    /\ KeepMemory(s)
    /\ UNCHANGED <<target, served, clean>>

\* The frame was for somebody else: back to idle, and nothing is reported.
IrxEofForeign(s) ==
    /\ Receives(s, "rx_eof")
    /\ visible = EOF
    /\ ~bus[s].adr
    /\ GoIdle(s)
    /\ Outcome(s, "none")
    /\ KeepMemory(s)
    /\ UNCHANGED <<target, served, clean>>

\* merge_nonzero_cmd_fields: nonzero commands overwrite, zeros leave alone.
\* The command table has no commands for CS itself.
\* Mutant: the last byte of the window is left out.
MergedShort(d) == [i \in ByteIdx |->
                     IF i + 1 < CmdBytes(d) /\ cmdBuf[d][i] # Zero
                     THEN cmdBuf[d][i] ELSE FreshCmd(d)[i]]
Merged(d) == [i \in ByteIdx |->
                IF i < CmdBytes(d) /\ cmdBuf[d][i] # Zero
                THEN cmdBuf[d][i] ELSE FreshCmd(d)[i]]

\* A request: take the commands over and turn around to answer.
IrxEofRequest(s) ==
    LET flag == bus[s].flag
    IN  /\ Receives(s, "rx_eof")
        /\ visible = EOF
        /\ bus[s].adr
        /\ flag \in Requests
        /\ bus' = [bus EXCEPT ![s].pc = "tx_sof", ![s].sub = 0,
                     ![s].flag = IF flag = "CMD_REQ" THEN "CMD_RESP"
                                 ELSE "DATA_RESP"]
        /\ msgCmd' = [d \in Devices |->
                        IF d # s THEN msgCmd[d]
                        ELSE IF flag = "CMD_REQ" THEN Merged(d)
                        ELSE FreshCmd(d)]
        /\ prmBuf' = [prmBuf EXCEPT ![s] = FreshPrm(s)]
        /\ served' = (served \/ (s = target /\ flag = armed))
        /\ CountWait(s, FALSE)
        /\ Outcome(s, "none")
        /\ UNCHANGED <<frame, target, cmdBuf, msgPrm, clean>>

\* Mutant: the layout falls back to the full one before the commit.
CommittedLate == [msgPrm EXCEPT ![FirstNode] =
                    [i \in ByteIdx |-> IF i < PrmBytes(CS)
                                       THEN prmBuf[CS][i] ELSE @[i]]]
Committed == [msgPrm EXCEPT ![frame] =
                [i \in ByteIdx |-> IF i < PrmBytes(CS) THEN prmBuf[CS][i] ELSE @[i]]]

\* A response: the master commits the received window of the node it has
\* framed and reports success, whatever it had asked for.
IrxEofResponse(s) ==
    /\ Receives(s, "rx_eof")
    /\ visible = EOF
    /\ bus[s].adr
    /\ bus[s].flag \notin Requests
    /\ msgPrm' = IF s = CS /\ bus[s].flag = "DATA_RESP" THEN Committed ELSE msgPrm
    /\ GoIdle(s)
    /\ Outcome(s, "success")
    /\ prmBuf' = [prmBuf EXCEPT ![s] = FreshPrm(s)]
    /\ msgCmd' = [d \in Devices |-> IF d = s THEN FreshCmd(d) ELSE msgCmd[d]]
    /\ UNCHANGED <<target, served, cmdBuf, clean>>

Receive(s) ==
    \/ IrxSof(s)
    \/ IrxHeaderFirst(s)
    \/ IrxHeaderSecond(s)
    \/ IrxData(s)
    \/ IrxEofMissing(s)
    \/ IrxEofInvalid(s)
    \/ IrxEofForeign(s)
    \/ IrxEofRequest(s)
    \/ IrxEofResponse(s)

-------------------------------------------------------------------------------
(* Transmission: IBUS_TX_EXCHANGE and its four handlers *)

Transmits(s, phase, b) ==
    /\ bus[s].pc = phase
    /\ Write(s, b)
    /\ wait' = IF s = CS THEN 0 ELSE wait
    /\ Outcome(s, "none")
    /\ KeepMemory(s)
    /\ UNCHANGED <<frame, target, served, clean>>

ItxSof(s) ==
    /\ Transmits(s, "tx_sof", SOF)
    /\ bus' = [bus EXCEPT ![s].pc = "tx_header", ![s].sub = 0,
                          ![s].busy = @ \/ s = CS]

ItxHeaderFirst(s) ==
    /\ bus[s].sub = 0
    /\ Transmits(s, "tx_header", [addr |-> Peer(s), flag |-> bus[s].flag])
    /\ bus' = [bus EXCEPT ![s].n = BlocksToSend(s), ![s].sub = 1]

ItxHeaderSecond(s) ==
    /\ bus[s].sub = 1
    /\ Transmits(s, "tx_header", [n |-> bus[s].n])
    /\ bus' = [bus EXCEPT ![s].sub = 0,
                 ![s].pc = IF bus[s].n > 0 THEN "tx_data" ELSE "tx_eof"]

\* The payload byte under the clock; past the window, or in a frame of a kind
\* without payload, the byte is zero.
\* Mutant: the last byte of a command window is not sent.
PayloadByteShort(s, i) ==
    IF bus[s].flag = "CMD_REQ" /\ i + 1 < CmdBytes(s) THEN cmdBuf[s][i]
    ELSE IF bus[s].flag = "DATA_RESP" /\ i < PrmBytes(s) THEN FreshPrm(s)[i]
    ELSE Zero

PayloadByte(s, i) ==
    IF bus[s].flag = "CMD_REQ" /\ i < CmdBytes(s) THEN cmdBuf[s][i]
    ELSE IF bus[s].flag = "DATA_RESP" /\ i < PrmBytes(s) THEN FreshPrm(s)[i]
    ELSE Zero

ItxData(s) ==
    LET i == bus[s].sub
    IN  /\ Transmits(s, "tx_data", PayloadByte(s, i))
        /\ bus' = [bus EXCEPT ![s].sub = i + 1,
                     ![s].pc = IF LastByte(s) THEN "tx_eof" ELSE @]

\* The device is free again; the master keeps waiting for the response.
\* Mutant: it does not wait for the answer to a command.
AwaitsData(s) == s = CS /\ bus[s].flag = "DATA_REQ"
Awaits(s) == s = CS /\ bus[s].flag \in Requests

ItxEof(s) ==
    /\ Transmits(s, "tx_eof", EOF)
    /\ bus' = [bus EXCEPT ![s].pc = "rx_sof", ![s].sub = 0,
                 ![s].busy = Awaits(s) /\ @,
                 ![s].flag = IF ~Awaits(s) THEN "CMD_REQ"
                             ELSE IF @ = "CMD_REQ" THEN "CMD_RESP"
                             ELSE "DATA_RESP"]

Transmit(s) ==
    \/ ItxSof(s)
    \/ ItxHeaderFirst(s)
    \/ ItxHeaderSecond(s)
    \/ ItxData(s)
    \/ ItxEof(s)

\* IBUS_CLEAR_RESULT: what a late answer, one that nobody waited for, has been
\* reported as is no result of the exchange to come.
\* Mutant: it is.
LateResult    == result
ClearedResult == "none"

\* The bus at rest: every machine waits for a SOF, and there is no byte on the way.
AtRest ==
    /\ pending = NoByte
    /\ visible = NoByte
    /\ \A s \in Systems : bus[s].pc = "rx_sof"

\* ICSBASEALG with a task to run: arm_active_exchange frames the windows of
\* the target and, for a command, fills MSG_CMD_BUF; ITX_SOF follows in the
\* same step.
StartExchange(t, request, payload) ==
    /\ ~bus[CS].busy
    /\ armed = "none"
    /\ Write(CS, SOF)
    /\ bus' = [bus EXCEPT ![CS] =
                 [IdleBus EXCEPT !.pc = "tx_header", !.flag = request,
                                 !.busy = TRUE]]
    /\ wait' = 0
    /\ frame' = t
    /\ target' = t
    /\ result' = ClearedResult
    /\ armed' = request
    /\ served' = FALSE
    /\ clean' = (clean \/ AtRest)
    /\ cmdBuf' = IF request = "CMD_REQ"
                 THEN [cmdBuf EXCEPT ![CS] =
                         [i \in ByteIdx |-> IF i < 2 * CmdBlocks[t]
                                            THEN payload[i] ELSE @[i]]]
                 ELSE cmdBuf
    /\ UNCHANGED <<prmBuf, msgCmd, msgPrm>>

StartCommand == \E t \in Nodes : \E payload \in [0 .. 2 * CmdBlocks[t] - 1 -> CmdData] :
                    StartExchange(t, "CMD_REQ", payload)
StartData    == \E t \in Nodes : StartExchange(t, "DATA_REQ", Blank)

Step(s) ==
    \/ Receive(s)
    \/ Transmit(s)
    \/ s = CS /\ (RxTimeout \/ StartCommand \/ StartData)

-------------------------------------------------------------------------------
(* The tick barrier, the line and the model threads *)

\* Completion of the tick barrier: mock_bus_tick moves pending to visible.
BusTick(byte) ==
    /\ stepped = Systems
    /\ stepped' = {}
    /\ visible' = byte
    /\ pending' = NoByte
    /\ UNCHANGED <<stateVars, memVars, envVars>>

Carry == BusTick(pending) /\ UNCHANGED <<disturbed, clean>>

\* The line of a real bus: the byte under way disappears, or arrives damaged.
Disturb(byte) ==
    /\ pending # NoByte
    /\ disturbed < MaxDisturbed
    /\ disturbed' = disturbed + 1
    /\ clean' = FALSE
    /\ BusTick(byte)

LoseByte   == Disturb(NoByte)
DamageByte == Disturb(Noise)

\* The model thread of a device runs outside the barrier.
ModelStep(d) ==
    /\ \E v \in PrmData : model' = [model EXCEPT ![d] = v]
    /\ \E b \in BOOLEAN : on' = [on EXCEPT ![d] = b]
    /\ UNCHANGED <<stateVars, memVars, lineVars>>

Next ==
    \/ \E s \in Systems : Step(s)
    \/ Carry
    \/ \E d \in Devices : ModelStep(d)

NoisyNext == Next \/ LoseByte \/ DamageByte

\* Neither thread is ever blocked except at the barrier, and the barrier
\* completes when both have arrived.
Fairness == WF_vars(Carry) /\ \A s \in Systems : WF_vars(Step(s))

Spec          == Init /\ [][Next]_vars
FairSpec      == Spec /\ Fairness
NoisySpec     == Init /\ [][NoisyNext]_vars
FairNoisySpec == NoisySpec /\ Fairness

-------------------------------------------------------------------------------
(* Properties *)

StateTypeOK ==
    /\ bus \in [Systems -> BusStates]
    /\ wait \in 0 .. Timeout
    /\ frame \in Nodes
    /\ target \in Nodes
    /\ result \in Results
    /\ armed \in Requests \cup {"none"}
    /\ served \in BOOLEAN
    /\ clean \in BOOLEAN

MemTypeOK ==
    /\ cmdBuf \in [Systems -> Payloads]
    /\ prmBuf \in [Systems -> Payloads]
    /\ msgCmd \in [Devices -> Payloads]
    /\ msgPrm \in [Nodes -> Payloads]

EnvTypeOK ==
    /\ model \in [Devices -> PrmData]
    /\ on \in [Devices -> BOOLEAN]

LineTypeOK ==
    /\ pending \in Bytes \cup {NoByte}
    /\ visible \in Bytes \cup {NoByte}
    /\ stepped \subseteq Systems
    /\ disturbed \in 0 .. MaxDisturbed

\* The byte counter of the phase stays inside the phase: every read and write
\* of a payload byte is inside the announced blocks (read_buffer_byte,
\* write_buffer_byte).
SubInRange ==
    \A s \in Systems :
        /\ bus[s].pc \in {"rx_header", "tx_header"} => bus[s].sub \in 0 .. 1
        /\ bus[s].pc \in {"rx_data", "tx_data"} => bus[s].sub < 2 * bus[s].n

\* The type invariant, made inductive by SubInRange.
TypeOK == StateTypeOK /\ MemTypeOK /\ EnvTypeOK /\ LineTypeOK /\ SubInRange

Talking(s) == bus[s].pc \in TxPhases

\* How far into the frame a system is: the next byte it reads or writes.
Position(s) ==
    IF bus[s].pc \in {"rx_sof", "tx_sof"} THEN 0
    ELSE IF bus[s].pc \in {"rx_header", "tx_header"} THEN 1 + bus[s].sub
    ELSE IF bus[s].pc \in {"rx_data", "tx_data"} THEN 3 + bus[s].sub
    ELSE 3 + 2 * bus[s].n

Late(s) == IF s \in stepped THEN 0 ELSE 1

\* Frame synchronisation: while a system transmits no other one does, so no
\* write of mock_bus overwrites a byte of the same tick; and from the second
\* byte on every listener, addressed or not, is exactly one tick behind the
\* talker, even though payload bytes may look like SOF or EOF and only the
\* header gives the length.
InStep ==
    \A t, l \in Systems :
        t # l /\ Talking(t) =>
            /\ ~Talking(l)
            /\ Position(t) >= 1 =>
                 LET behind == Late(l) + 1 - Late(t)
                 IN  Position(l) = IF Position(t) > behind
                                   THEN Position(t) - behind ELSE 0

\* CS reports success only after the target accepted this very request: the
\* answer to one request never counts for another, though the master checks
\* neither who answers nor with which flag.  One lost or damaged byte is enough
\* to break this: a listener that no longer knows the length of the frame takes
\* payload for headers, and then anything may look like an answer.
SuccessHonest == armed # "none" /\ result = "success" => served

\* On a bus that loses nothing CS reports a timeout only if nobody answers at
\* the address, and never a bad end of frame.
FailureHonest ==
    armed # "none" =>
        /\ result = "timeout" => target \notin Devices
        /\ result # "invalid_eof"

\* An exchange that is over has been given a result: the scheduler, which
\* starts nothing while it waits for one, is never left waiting.
NoOrphan == armed # "none" /\ ~bus[CS].busy => result # "none"

\* The target accepts the very payload CS sent, not one of an earlier frame
\* nor one torn between two.
CommandIntact ==
    armed = "CMD_REQ" /\ served =>
        \A i \in 0 .. 2 * CmdBlocks[target] - 1 :
            cmdBuf[target][i] = cmdBuf[CS][i]

\* Payload goes where it belongs: a system that is not the target of a command
\* never takes payload into MSG_CMD_BUF, not even payload that looks like a frame
\* addressed to it; and MSG_PRM of CS changes only in the window of the system
\* whose data was asked for, and only once that system has accepted the request.
PayloadInPlace ==
    [][ /\ \A d \in Devices : cmdBuf'[d] # cmdBuf[d] =>
              armed = "CMD_REQ" /\ target = d
        /\ \A x \in Nodes : msgPrm'[x] # msgPrm[x] =>
              armed = "DATA_REQ" /\ target = x /\ served ]_vars

\* The bus keeps its promise: seen without its bytes, every run is a run of
\* Exchange.  A request is taken once and as a whole, with the very commands CS
\* sent merged into those that wait; nothing else touches MSG_CMD of a device but
\* its own execution, nor MSG_PRM but the answer to a data request; and every
\* result is for the exchange under way, of which there is one at a time.
Promise == INSTANCE Exchange WITH
               request   <- armed,
               accepted  <- served,
               sent      <- cmdBuf[CS],
               commands  <- msgCmd,
               telemetry <- msgPrm
IsExchange == Promise!Spec

\* No exchange that begins on a bus at rest is harmed by what was lost or damaged
\* before: nobody talks over anybody, no listener is out of step, a success is
\* that of the very request, with the very payload CS sent, a timeout means that
\* nobody is there, and the scheduler has its result.  Nothing is said of how the
\* bus comes to rest: a device that has lost its place in a frame has no timeout.
Recovered == clean => InStep /\ SuccessHonest /\ FailureHonest /\ NoOrphan /\ CommandIntact

\* From the step on with which such an exchange begins, the bus keeps the whole
\* promise of Exchange again: a request is taken once and as a whole, a result is
\* for the exchange under way, MSG_CMD of the devices and MSG_PRM of CS change only
\* as that exchange entitles them to.
PromiseRestored == [][clean' => Promise!Next]_<<Promise!exchangeVars, Promise!memoryVars>>

\* Every exchange ends: CS waits at most Timeout silent ticks for each byte,
\* then the scheduler has its result.
ExchangeEnds == armed # "none" ~> armed = "none"

\* Whatever the line does to a few bytes, CS does not wait for the bus for
\* ever: every exchange gives the bus back.
BusReleased == bus[CS].busy ~> ~bus[CS].busy

\* The bytes of one DATA_RESP come from one state of the device: buffering
\* protects against "изменения рабочих массивов во время активной передачи"
\* (DATA_EXCHANGE_RU.md, 10.3).
SnapshotIntact ==
    \A x \in Nodes : \A i, j \in 0 .. 2 * PrmBlocks[x] - 1 :
        msgPrm[x][i] = msgPrm[x][j]

================================================================================
