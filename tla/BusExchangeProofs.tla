--------------------------- MODULE BusExchangeProofs ---------------------------
(*****************************************************************************)
(* What holds of the byte exchange, for any bus, windows and bounds: its     *)
(* types, on a line that may lose and damage bytes; on the bus of the        *)
(* simulation, which does neither, the frame synchronisation and what it     *)
(* gives to the scheduler and to the memories; and that an exchange which    *)
(* begins on a bus at rest is not harmed by bytes lost or damaged before.    *)
(*                                                                           *)
(* The argument of the second part is LockStep: either nobody transmits, or  *)
(* one frame is under way, its talker has written as many bytes as were      *)
(* delivered, its listeners have read them all, and the byte on the line is  *)
(* the next one of the frame.                                                *)
(*****************************************************************************)
EXTENDS BusExchange, TLAPS

-------------------------------------------------------------------------------
(* The helpers of an action preserve the types *)

LEMMA Counts ==
    /\ 0 \in BlockCounts
    /\ {0, 1} \subseteq SubCounts
    /\ \A n \in BlockCounts, i \in SubCounts : i < 2 * n => i \in ByteIdx /\ i + 1 \in SubCounts
  BY ConstantsAssumption DEF BlockCounts, SubCounts, ByteIdx

LEMMA WindowType ==
    ASSUME TypeOK, NEW s \in Systems
    PROVE  /\ WindowOf(s) \in Nodes
           /\ CmdBytes(s) \in 2 .. 2 * MaxBlocks
           /\ PrmBytes(s) \in 2 .. 2 * MaxBlocks
           /\ BlocksToSend(s) \in BlockCounts
           /\ Peer(s) \in Nodes \cup {CS}
<1>1. WindowOf(s) \in Nodes
  BY ConstantsAssumption DEF TypeOK, StateTypeOK, WindowOf, Systems
<1>2. CmdBlocks[WindowOf(s)] \in 1 .. MaxBlocks /\ PrmBlocks[WindowOf(s)] \in 1 .. MaxBlocks
  BY <1>1, ConstantsAssumption
<1>3. Peer(s) \in Nodes \cup {CS}
  BY DEF TypeOK, StateTypeOK, Peer
<1>. QED
  BY <1>1, <1>2, <1>3, ConstantsAssumption DEF CmdBytes, PrmBytes, BlocksToSend, BlockCounts

LEMMA ParsesType ==
    ASSUME TypeOK, NEW s \in Systems, NEW b0, NEW b1, NEW h \in Parses(s, b0, b1)
    PROVE  h.adr \in BOOLEAN /\ h.flag \in Flags /\ h.n \in BlockCounts
<1>1. bus[s].flag \in Flags
  BY DEF TypeOK, StateTypeOK, BusStates
<1>2. ParityError(s) \in [adr : BOOLEAN, flag : Flags, n : BlockCounts]
  BY <1>1, Counts DEF ParityError
<1>3. ASSUME b0 \in AddrBytes, b1 \in CountBytes
      PROVE  [adr |-> Addressed(s, b0.addr), flag |-> b0.flag, n |-> b1.n]
               \in [adr : BOOLEAN, flag : Flags, n : BlockCounts]
  BY <1>3 DEF AddrBytes, CountBytes, Addressed
<1>. QED
  BY <1>2, <1>3 DEF Parses

LEMMA FreshType ==
    ASSUME TypeOK
    PROVE  /\ \A s \in Systems : FreshPrm(s) \in Payloads
           /\ \A d \in Devices : FreshCmd(d) \in Payloads
<1>1. Blank \in Payloads
  BY DEF Blank, Payloads, Bytes
<1>2. ASSUME NEW s \in Systems
      PROVE  FreshPrm(s) \in Payloads
  BY DEF TypeOK, MemTypeOK, EnvTypeOK, FreshPrm, Powered, Payloads, Bytes
<1>3. ASSUME NEW d \in Devices
      PROVE  FreshCmd(d) \in Payloads
  BY <1>1 DEF TypeOK, MemTypeOK, FreshCmd
<1>. QED
  BY <1>2, <1>3

LEMMA KeepMemoryType ==
    ASSUME TypeOK, NEW s \in Systems, KeepMemory(s)
    PROVE  MemTypeOK'
  BY FreshType DEF TypeOK, MemTypeOK, KeepMemory

LEMMA ArriveType ==
    ASSUME TypeOK, NEW s \in Systems, Arrive(s), pending' \in Bytes \cup {NoByte}
    PROVE  EnvTypeOK' /\ LineTypeOK'
  BY DEF TypeOK, EnvTypeOK, LineTypeOK, Arrive, envVars

LEMMA OutcomeType ==
    ASSUME TypeOK, NEW s \in Systems, NEW r \in Results, Outcome(s, r)
    PROVE  result' \in Results /\ armed' \in Requests \cup {"none"}
  BY DEF TypeOK, StateTypeOK, Outcome, Results

LEMMA CountWaitType ==
    ASSUME TypeOK, NEW s \in Systems, ~Expired(s), NEW a \in BOOLEAN, CountWait(s, a)
    PROVE  wait' \in 0 .. Timeout
<1>1. CASE s = CS /\ ~a /\ bus[CS].busy
  <2>1. wait \in 0 .. Timeout /\ ~(wait >= Timeout) /\ wait' = wait + 1
    BY <1>1 DEF TypeOK, StateTypeOK, Expired, CountWait
  <2>. QED
    BY <2>1, ConstantsAssumption
<1>2. CASE ~(s = CS /\ ~a /\ bus[CS].busy)
  BY <1>2, ConstantsAssumption DEF TypeOK, StateTypeOK, CountWait
<1>. QED
  BY <1>1, <1>2

\* A step that changes the state machine of s alone keeps the types of all.
Sound(b) ==
    /\ b \in BusStates
    /\ b.pc \in {"rx_header", "tx_header"} => b.sub \in 0 .. 1
    /\ b.pc \in {"rx_data", "tx_data"} => b.sub < 2 * b.n

LEMMA BusUpdateType ==
    ASSUME TypeOK, NEW s \in Systems, NEW b, Sound(b),
           bus' = [bus EXCEPT ![s] = b]
    PROVE  bus' \in [Systems -> BusStates] /\ SubInRange'
  BY DEF TypeOK, StateTypeOK, SubInRange, Sound

LEMMA IdleBusType ==
    IdleBus \in BusStates
  BY Counts DEF IdleBus, BusStates, RxPhases, Flags, Requests

LEMMA GoIdleType ==
    ASSUME TypeOK, NEW s \in Systems, GoIdle(s)
    PROVE  /\ bus' \in [Systems -> BusStates] /\ SubInRange'
           /\ wait' \in 0 .. Timeout
           /\ frame' \in Nodes
<1>1. bus' = [bus EXCEPT ![s] = IdleBus]
  BY DEF GoIdle
<1>2. IdleBus.pc = "rx_sof"
  BY DEF IdleBus
<1>3. bus' \in [Systems -> BusStates] /\ SubInRange'
  BY <1>1, <1>2, IdleBusType, BusUpdateType DEF Sound
<1>. QED
  BY <1>3, ConstantsAssumption DEF GoIdle, TypeOK, StateTypeOK

-------------------------------------------------------------------------------
(* Every action preserves the types *)

\* What all receive handlers have in common.
LEMMA ReceivesType ==
    ASSUME TypeOK, NEW s \in Systems, NEW phase, Receives(s, phase)
    PROVE  ~Expired(s) /\ EnvTypeOK' /\ LineTypeOK'
<1>1. pending' \in Bytes \cup {NoByte}
  BY DEF Receives, Read, TypeOK, LineTypeOK
<1>. QED
  BY <1>1, ArriveType DEF Receives, Read

LEMMA RxTimeoutType ==
    ASSUME TypeOK, RxTimeout
    PROVE  TypeOK'
<1>0. CS \in Systems
  BY DEF Systems
<1>1. EnvTypeOK' /\ LineTypeOK'
  BY <1>0, ArriveType DEF RxTimeout, Read, TypeOK, LineTypeOK
<1>2. result' \in Results /\ armed' \in Requests \cup {"none"}
  BY <1>0, OutcomeType DEF RxTimeout, Results
<1>3. MemTypeOK'
  BY <1>0, KeepMemoryType DEF RxTimeout
<1>4. bus' \in [Systems -> BusStates] /\ SubInRange' /\ wait' \in 0 .. Timeout /\ frame' \in Nodes
  BY <1>0, GoIdleType DEF RxTimeout
<1>. QED
  BY <1>1, <1>2, <1>3, <1>4 DEF TypeOK, StateTypeOK, RxTimeout

LEMMA IrxSofType ==
    ASSUME TypeOK, NEW s \in Systems, IrxSof(s)
    PROVE  TypeOK'
<1>1. ~Expired(s) /\ EnvTypeOK' /\ LineTypeOK'
  BY ReceivesType DEF IrxSof
<1>2. MemTypeOK'
  BY KeepMemoryType DEF IrxSof
<1>3. result' \in Results /\ armed' \in Requests \cup {"none"}
  BY OutcomeType DEF IrxSof, Results
<1>4. wait' \in 0 .. Timeout
  BY <1>1, CountWaitType DEF IrxSof
<1>5. bus' \in [Systems -> BusStates] /\ SubInRange'
  <2>. DEFINE b == [bus[s] EXCEPT !.pc = "rx_header", !.sub = 0, !.busy = @ \/ s # CS]
  <2>1. CASE visible = SOF
    <3>1. bus' = [bus EXCEPT ![s] = b]
      BY <2>1 DEF IrxSof, TypeOK, StateTypeOK, BusStates
    <3>2. (bus[s].busy \/ s # CS) \in BOOLEAN
      OBVIOUS
    <3>3. b \in BusStates /\ b.pc = "rx_header" /\ b.sub = 0
      BY <3>2, Counts DEF TypeOK, StateTypeOK, BusStates, RxPhases
    <3>4. Sound(b)
      BY <3>3 DEF Sound
    <3>. QED
      BY <3>1, <3>4, BusUpdateType
  <2>2. CASE visible # SOF
    BY <2>2 DEF IrxSof, TypeOK, StateTypeOK, SubInRange
  <2>. QED
    BY <2>1, <2>2
<1>. QED
  BY <1>1, <1>2, <1>3, <1>4, <1>5 DEF TypeOK, StateTypeOK, IrxSof

LEMMA IrxHeaderFirstType ==
    ASSUME TypeOK, NEW s \in Systems, IrxHeaderFirst(s)
    PROVE  TypeOK'
<1>1. ~Expired(s) /\ EnvTypeOK' /\ LineTypeOK'
  BY ReceivesType DEF IrxHeaderFirst
<1>2. MemTypeOK'
  BY KeepMemoryType DEF IrxHeaderFirst
<1>3. result' \in Results /\ armed' \in Requests \cup {"none"}
  BY OutcomeType DEF IrxHeaderFirst, Results
<1>4. wait' \in 0 .. Timeout
  BY <1>1, CountWaitType DEF IrxHeaderFirst
<1>5. bus' \in [Systems -> BusStates] /\ SubInRange'
  <2>. DEFINE b == [bus[s] EXCEPT !.hdr = visible, !.sub = 1]
  <2>1. CASE visible # NoByte
    <3>1. bus' = [bus EXCEPT ![s] = b]
      BY <2>1 DEF IrxHeaderFirst, TypeOK, StateTypeOK, BusStates
    <3>2. b \in BusStates /\ b.pc = "rx_header" /\ b.sub = 1
      BY Counts DEF TypeOK, StateTypeOK, LineTypeOK, BusStates, IrxHeaderFirst, Receives
    <3>3. Sound(b)
      BY <3>2 DEF Sound
    <3>. QED
      BY <3>1, <3>3, BusUpdateType
  <2>2. CASE visible = NoByte
    BY <2>2 DEF IrxHeaderFirst, TypeOK, StateTypeOK, SubInRange
  <2>. QED
    BY <2>1, <2>2
<1>. QED
  BY <1>1, <1>2, <1>3, <1>4, <1>5 DEF TypeOK, StateTypeOK, IrxHeaderFirst

LEMMA IrxHeaderSecondType ==
    ASSUME TypeOK, NEW s \in Systems, IrxHeaderSecond(s)
    PROVE  TypeOK'
<1>1. ~Expired(s) /\ EnvTypeOK' /\ LineTypeOK'
  BY ReceivesType DEF IrxHeaderSecond
<1>2. MemTypeOK'
  BY KeepMemoryType DEF IrxHeaderSecond
<1>3. result' \in Results /\ armed' \in Requests \cup {"none"}
  BY OutcomeType DEF IrxHeaderSecond, Results
<1>4. wait' \in 0 .. Timeout
  BY <1>1, CountWaitType DEF IrxHeaderSecond
<1>5. bus' \in [Systems -> BusStates] /\ SubInRange'
  <2>1. CASE visible # NoByte
    <3>1. PICK h \in Parses(s, bus[s].hdr, visible) :
            bus' = [bus EXCEPT ![s] =
                      [@ EXCEPT !.adr = h.adr, !.flag = h.flag, !.n = h.n,
                                !.sub = 0, !.hdr = NoByte,
                                !.pc = IF h.n > 0 THEN "rx_data" ELSE "rx_eof"]]
      BY <2>1 DEF IrxHeaderSecond
    <3>. DEFINE b == [bus[s] EXCEPT !.adr = h.adr, !.flag = h.flag, !.n = h.n,
                                !.sub = 0, !.hdr = NoByte,
                                !.pc = IF h.n > 0 THEN "rx_data" ELSE "rx_eof"]
    <3>2. bus' = [bus EXCEPT ![s] = b]
      BY <3>1 DEF TypeOK, StateTypeOK, BusStates
    <3>3. h.adr \in BOOLEAN /\ h.flag \in Flags /\ h.n \in BlockCounts
      BY ParsesType
    <3>4. /\ b \in BusStates /\ b.sub = 0 /\ b.n = h.n
          /\ b.pc = IF h.n > 0 THEN "rx_data" ELSE "rx_eof"
      BY <3>3, Counts DEF TypeOK, StateTypeOK, BusStates, RxPhases
    <3>5. Sound(b)
      BY <3>3, <3>4 DEF Sound, BlockCounts
    <3>. QED
      BY <3>2, <3>5, BusUpdateType
  <2>2. CASE visible = NoByte
    BY <2>2 DEF IrxHeaderSecond, TypeOK, StateTypeOK, SubInRange
  <2>. QED
    BY <2>1, <2>2
<1>. QED
  BY <1>1, <1>2, <1>3, <1>4, <1>5 DEF TypeOK, StateTypeOK, IrxHeaderSecond

\* A byte written inside a window keeps the buffer a buffer.
LEMMA PayloadUpdateType ==
    ASSUME NEW p \in Payloads, NEW i \in ByteIdx, NEW b \in Bytes
    PROVE  [p EXCEPT ![i] = b] \in Payloads
  BY DEF Payloads

LEMMA IrxDataType ==
    ASSUME TypeOK, NEW s \in Systems, IrxData(s)
    PROVE  TypeOK'
<1>. DEFINE i     == bus[s].sub
            isCmd == bus[s].adr /\ bus[s].flag = "CMD_REQ" /\ i < CmdBytes(s)
            isPrm == bus[s].adr /\ bus[s].flag = "DATA_RESP" /\ i < PrmBytes(s)
            got   == visible # NoByte
<1>1. ~Expired(s) /\ EnvTypeOK' /\ LineTypeOK'
  BY ReceivesType DEF IrxData
<1>2. result' \in Results /\ armed' \in Requests \cup {"none"}
  BY OutcomeType DEF IrxData, Results
<1>3. wait' \in 0 .. Timeout
  BY <1>1, CountWaitType DEF IrxData
<1>4. /\ i \in Nat /\ i < 2 * bus[s].n /\ bus[s].n \in BlockCounts
      /\ i \in ByteIdx /\ i + 1 \in SubCounts
      /\ bus[s].pc = "rx_data" /\ bus[s] \in BusStates
  <2>1. /\ bus[s].pc = "rx_data" /\ bus[s] \in BusStates
        /\ i < 2 * bus[s].n
    BY DEF TypeOK, StateTypeOK, SubInRange, IrxData, Receives
  <2>2. i \in SubCounts /\ bus[s].n \in BlockCounts
    BY <2>1 DEF BusStates
  <2>3. i \in Nat
    BY <2>2 DEF SubCounts
  <2>. QED
    BY <2>1, <2>2, <2>3, Counts
<1>5. bus' \in [Systems -> BusStates] /\ SubInRange'
  <2>. DEFINE b == [bus[s] EXCEPT !.sub = i + 1,
                                  !.pc = IF LastByte(s) THEN "rx_eof" ELSE @]
  <2>1. CASE got
    <3>1. bus' = [bus EXCEPT ![s] = b]
      BY <2>1 DEF IrxData, TypeOK, StateTypeOK, BusStates
    <3>2. /\ b \in BusStates /\ b.sub = i + 1 /\ b.n = bus[s].n
          /\ b.pc = IF LastByte(s) THEN "rx_eof" ELSE "rx_data"
      BY <1>4 DEF BusStates, RxPhases
    <3>3. Sound(b)
      BY <1>4, <3>2 DEF Sound, BlockCounts, LastByte
    <3>. QED
      BY <3>1, <3>3, BusUpdateType
  <2>2. CASE ~got
    BY <2>2 DEF IrxData, TypeOK, StateTypeOK, SubInRange
  <2>. QED
    BY <2>1, <2>2
<1>6. cmdBuf' \in [Systems -> Payloads]
  <2>1. CASE got /\ isCmd
    <3>1. cmdBuf' = [cmdBuf EXCEPT ![s] = [cmdBuf[s] EXCEPT ![i] = visible]]
      BY <2>1 DEF IrxData, TypeOK, MemTypeOK
    <3>2. [cmdBuf[s] EXCEPT ![i] = visible] \in Payloads
      BY <1>4, <2>1, PayloadUpdateType DEF TypeOK, MemTypeOK, LineTypeOK
    <3>. QED
      BY <3>1, <3>2 DEF TypeOK, MemTypeOK
  <2>2. CASE ~(got /\ isCmd)
    BY <2>2 DEF IrxData, TypeOK, MemTypeOK
  <2>. QED
    BY <2>1, <2>2
<1>7. prmBuf' \in [Systems -> Payloads]
  <2>1. CASE got /\ isPrm
    <3>1. prmBuf' = [prmBuf EXCEPT ![s] = [FreshPrm(s) EXCEPT ![i] = visible]]
      BY <2>1 DEF IrxData
    <3>2. [FreshPrm(s) EXCEPT ![i] = visible] \in Payloads
      BY <1>4, <2>1, FreshType, PayloadUpdateType DEF TypeOK, LineTypeOK
    <3>. QED
      BY <3>1, <3>2 DEF TypeOK, MemTypeOK
  <2>2. CASE ~(got /\ isPrm)
    BY <2>2, FreshType DEF IrxData, TypeOK, MemTypeOK
  <2>. QED
    BY <2>1, <2>2
<1>8. MemTypeOK'
  BY <1>6, <1>7, FreshType DEF IrxData, TypeOK, MemTypeOK
<1>. QED
  BY <1>1, <1>2, <1>3, <1>5, <1>8 DEF TypeOK, StateTypeOK, IrxData

LEMMA IrxEofMissingType ==
    ASSUME TypeOK, NEW s \in Systems, IrxEofMissing(s)
    PROVE  TypeOK'
<1>1. ~Expired(s) /\ EnvTypeOK' /\ LineTypeOK'
  BY ReceivesType DEF IrxEofMissing
<1>2. MemTypeOK'
  BY KeepMemoryType DEF IrxEofMissing
<1>3. result' \in Results /\ armed' \in Requests \cup {"none"}
  BY OutcomeType DEF IrxEofMissing, Results
<1>4. wait' \in 0 .. Timeout
  BY <1>1, CountWaitType DEF IrxEofMissing
<1>. QED
  BY <1>1, <1>2, <1>3, <1>4
  DEF TypeOK, StateTypeOK, SubInRange, IrxEofMissing

\* The three ends of a frame that only return to idle differ in the result.
LEMMA IrxEofIdleType ==
    ASSUME TypeOK, NEW s \in Systems, IrxEofInvalid(s) \/ IrxEofForeign(s)
    PROVE  TypeOK'
<1>1. EnvTypeOK' /\ LineTypeOK'
  BY ReceivesType DEF IrxEofInvalid, IrxEofForeign
<1>2. MemTypeOK'
  BY KeepMemoryType DEF IrxEofInvalid, IrxEofForeign
<1>3. result' \in Results /\ armed' \in Requests \cup {"none"}
  BY OutcomeType DEF IrxEofInvalid, IrxEofForeign, Results
<1>4. bus' \in [Systems -> BusStates] /\ SubInRange' /\ wait' \in 0 .. Timeout /\ frame' \in Nodes
  BY GoIdleType DEF IrxEofInvalid, IrxEofForeign
<1>. QED
  BY <1>1, <1>2, <1>3, <1>4
  DEF TypeOK, StateTypeOK, IrxEofInvalid, IrxEofForeign

LEMMA IrxEofRequestType ==
    ASSUME TypeOK, NEW s \in Systems, IrxEofRequest(s)
    PROVE  TypeOK'
<1>1. ~Expired(s) /\ EnvTypeOK' /\ LineTypeOK'
  BY ReceivesType DEF IrxEofRequest
<1>2. result' \in Results /\ armed' \in Requests \cup {"none"}
  BY OutcomeType DEF IrxEofRequest, Results
<1>3. wait' \in 0 .. Timeout
  BY <1>1, CountWaitType DEF IrxEofRequest
<1>4. MemTypeOK'
  <2>1. \A d \in Devices : Merged(d) \in Payloads
    BY FreshType DEF Merged, TypeOK, MemTypeOK, Payloads, Systems
  <2>. QED
    BY <2>1, FreshType DEF IrxEofRequest, TypeOK, MemTypeOK
<1>5. bus' \in [Systems -> BusStates] /\ SubInRange'
  <2>. DEFINE answer == IF bus[s].flag = "CMD_REQ" THEN "CMD_RESP" ELSE "DATA_RESP"
              b == [bus[s] EXCEPT !.pc = "tx_sof", !.sub = 0, !.flag = answer]
  <2>1. bus' = [bus EXCEPT ![s] = b]
    BY DEF IrxEofRequest, TypeOK, StateTypeOK, BusStates
  <2>2. b \in BusStates /\ b.pc = "tx_sof" /\ b.sub = 0
    BY Counts DEF TypeOK, StateTypeOK, BusStates, TxPhases, Flags
  <2>3. Sound(b)
    BY <2>2 DEF Sound
  <2>. QED
    BY <2>1, <2>3, BusUpdateType
<1>. QED
  BY <1>1, <1>2, <1>3, <1>4, <1>5 DEF TypeOK, StateTypeOK, IrxEofRequest

LEMMA IrxEofResponseType ==
    ASSUME TypeOK, NEW s \in Systems, IrxEofResponse(s)
    PROVE  TypeOK'
<1>1. EnvTypeOK' /\ LineTypeOK'
  BY ReceivesType DEF IrxEofResponse
<1>2. result' \in Results /\ armed' \in Requests \cup {"none"}
  BY OutcomeType DEF IrxEofResponse, Results
<1>3. bus' \in [Systems -> BusStates] /\ SubInRange' /\ wait' \in 0 .. Timeout /\ frame' \in Nodes
  BY GoIdleType DEF IrxEofResponse
<1>4. msgPrm' \in [Nodes -> Payloads]
  <2>. DEFINE w == [i \in ByteIdx |-> IF i < PrmBytes(CS) THEN prmBuf[CS][i] ELSE msgPrm[frame][i]]
  <2>1. w \in Payloads
    BY DEF TypeOK, StateTypeOK, MemTypeOK, Payloads, Systems
  <2>2. msgPrm' = msgPrm \/ msgPrm' = [msgPrm EXCEPT ![frame] = w]
    BY DEF IrxEofResponse, Committed, TypeOK, StateTypeOK, MemTypeOK
  <2>. QED
    BY <2>1, <2>2 DEF TypeOK, MemTypeOK
<1>5. MemTypeOK'
  BY <1>4, FreshType DEF IrxEofResponse, TypeOK, MemTypeOK
<1>. QED
  BY <1>1, <1>2, <1>3, <1>5 DEF TypeOK, StateTypeOK, IrxEofResponse

\* What all transmit handlers have in common.
LEMMA TransmitsType ==
    ASSUME TypeOK, NEW s \in Systems, NEW phase, NEW b \in Bytes, Transmits(s, phase, b),
           bus' \in [Systems -> BusStates] /\ SubInRange'
    PROVE  TypeOK'
<1>1. EnvTypeOK' /\ LineTypeOK'
  BY ArriveType DEF Transmits, Write
<1>2. MemTypeOK'
  BY KeepMemoryType DEF Transmits
<1>3. result' \in Results /\ armed' \in Requests \cup {"none"}
  BY OutcomeType DEF Transmits, Results
<1>4. wait' \in 0 .. Timeout
  BY ConstantsAssumption DEF Transmits, TypeOK, StateTypeOK
<1>. QED
  BY <1>1, <1>2, <1>3, <1>4 DEF TypeOK, StateTypeOK, Transmits

LEMMA ItxSofType ==
    ASSUME TypeOK, NEW s \in Systems, ItxSof(s)
    PROVE  TypeOK'
<1>. DEFINE b == [bus[s] EXCEPT !.pc = "tx_header", !.sub = 0, !.busy = @ \/ s = CS]
<1>1. bus' = [bus EXCEPT ![s] = b]
  BY DEF ItxSof, TypeOK, StateTypeOK, BusStates
<1>2. (bus[s].busy \/ s = CS) \in BOOLEAN
  OBVIOUS
<1>3. b \in BusStates /\ b.pc = "tx_header" /\ b.sub = 0
  BY <1>2, Counts DEF TypeOK, StateTypeOK, BusStates, TxPhases
<1>4. Sound(b)
  BY <1>3 DEF Sound
<1>. QED
  BY <1>1, <1>4, BusUpdateType, TransmitsType DEF ItxSof, Bytes

LEMMA ItxHeaderFirstType ==
    ASSUME TypeOK, NEW s \in Systems, ItxHeaderFirst(s)
    PROVE  TypeOK'
<1>. DEFINE b == [bus[s] EXCEPT !.n = BlocksToSend(s), !.sub = 1]
            h == [addr |-> Peer(s), flag |-> bus[s].flag]
<1>1. bus' = [bus EXCEPT ![s] = b]
  BY DEF ItxHeaderFirst, TypeOK, StateTypeOK, BusStates
<1>2. b \in BusStates /\ b.pc = "tx_header" /\ b.sub = 1
  BY WindowType, Counts DEF TypeOK, StateTypeOK, BusStates, ItxHeaderFirst, Transmits
<1>3. Sound(b)
  BY <1>2 DEF Sound
<1>4. h \in Bytes
  BY WindowType DEF TypeOK, StateTypeOK, BusStates, Bytes, AddrBytes
<1>. QED
  BY <1>1, <1>3, <1>4, BusUpdateType, TransmitsType DEF ItxHeaderFirst

LEMMA ItxHeaderSecondType ==
    ASSUME TypeOK, NEW s \in Systems, ItxHeaderSecond(s)
    PROVE  TypeOK'
<1>. DEFINE b == [bus[s] EXCEPT !.sub = 0,
                     !.pc = IF bus[s].n > 0 THEN "tx_data" ELSE "tx_eof"]
<1>1. bus' = [bus EXCEPT ![s] = b]
  BY DEF ItxHeaderSecond, TypeOK, StateTypeOK, BusStates
<1>2. bus[s].n \in BlockCounts
  BY DEF TypeOK, StateTypeOK, BusStates
<1>3. /\ b \in BusStates /\ b.sub = 0 /\ b.n = bus[s].n
      /\ b.pc = IF bus[s].n > 0 THEN "tx_data" ELSE "tx_eof"
  BY Counts DEF TypeOK, StateTypeOK, BusStates, TxPhases
<1>4. Sound(b)
  BY <1>2, <1>3 DEF Sound, BlockCounts
<1>5. [n |-> bus[s].n] \in Bytes
  BY <1>2 DEF Bytes, CountBytes
<1>. QED
  BY <1>1, <1>4, <1>5, BusUpdateType, TransmitsType DEF ItxHeaderSecond

LEMMA ItxDataType ==
    ASSUME TypeOK, NEW s \in Systems, ItxData(s)
    PROVE  TypeOK'
<1>. DEFINE i == bus[s].sub
            b == [bus[s] EXCEPT !.sub = i + 1,
                     !.pc = IF LastByte(s) THEN "tx_eof" ELSE @]
<1>1. bus' = [bus EXCEPT ![s] = b]
  BY DEF ItxData, TypeOK, StateTypeOK, BusStates
<1>2. /\ i \in Nat /\ i < 2 * bus[s].n /\ bus[s].n \in BlockCounts
      /\ i \in ByteIdx /\ i + 1 \in SubCounts
      /\ bus[s].pc = "tx_data" /\ bus[s] \in BusStates
  <2>1. /\ bus[s].pc = "tx_data" /\ bus[s] \in BusStates
        /\ i < 2 * bus[s].n
    BY DEF TypeOK, StateTypeOK, SubInRange, ItxData, Transmits
  <2>2. i \in SubCounts /\ bus[s].n \in BlockCounts
    BY <2>1 DEF BusStates
  <2>3. i \in Nat
    BY <2>2 DEF SubCounts
  <2>. QED
    BY <2>1, <2>2, <2>3, Counts
<1>3. /\ b \in BusStates /\ b.sub = i + 1 /\ b.n = bus[s].n
      /\ b.pc = IF LastByte(s) THEN "tx_eof" ELSE "tx_data"
  BY <1>2 DEF BusStates, TxPhases
<1>4. Sound(b)
  BY <1>2, <1>3 DEF Sound, BlockCounts, LastByte
<1>5. PayloadByte(s, i) \in Bytes
  BY <1>2, FreshType DEF PayloadByte, TypeOK, MemTypeOK, Payloads, Bytes
<1>. QED
  BY <1>1, <1>4, <1>5, BusUpdateType, TransmitsType DEF ItxData

LEMMA ItxEofType ==
    ASSUME TypeOK, NEW s \in Systems, ItxEof(s)
    PROVE  TypeOK'
<1>. DEFINE asked == Awaits(s)
            next  == IF ~asked THEN "CMD_REQ"
                     ELSE IF bus[s].flag = "CMD_REQ" THEN "CMD_RESP" ELSE "DATA_RESP"
            free  == asked /\ bus[s].busy
            b == [bus[s] EXCEPT !.pc = "rx_sof", !.sub = 0, !.busy = free, !.flag = next]
<1>1. bus' = [bus EXCEPT ![s] = b]
  BY DEF ItxEof, TypeOK, StateTypeOK, BusStates
<1>2. free \in BOOLEAN /\ next \in Flags
  BY DEF Flags, Requests, Awaits
<1>. HIDE DEF free, next
<1>3. b \in BusStates /\ b.pc = "rx_sof" /\ b.sub = 0
  BY <1>2, Counts DEF TypeOK, StateTypeOK, BusStates, RxPhases
<1>4. Sound(b)
  BY <1>3 DEF Sound
<1>. QED
  BY <1>1, <1>4, BusUpdateType, TransmitsType DEF ItxEof, Bytes

LEMMA StartExchangeType ==
    ASSUME TypeOK, NEW t \in Nodes, NEW request \in Requests, NEW payload,
           request = "CMD_REQ" => payload \in [0 .. 2 * CmdBlocks[t] - 1 -> CmdData],
           StartExchange(t, request, payload)
    PROVE  TypeOK'
<1>0. CS \in Systems
  BY DEF Systems
<1>1. EnvTypeOK' /\ LineTypeOK'
  BY <1>0, ArriveType DEF StartExchange, Write, Bytes
<1>2. bus' \in [Systems -> BusStates] /\ SubInRange'
  <2>. DEFINE b == [IdleBus EXCEPT !.pc = "tx_header", !.flag = request, !.busy = TRUE]
  <2>1. bus' = [bus EXCEPT ![CS] = b]
    BY DEF StartExchange
  <2>2. b \in BusStates /\ b.pc = "tx_header" /\ b.sub = 0
    BY IdleBusType DEF IdleBus, BusStates, TxPhases, Flags
  <2>3. Sound(b)
    BY <2>2 DEF Sound
  <2>. QED
    BY <1>0, <2>1, <2>3, BusUpdateType
<1>3. cmdBuf' \in [Systems -> Payloads]
  <2>. DEFINE w == [i \in ByteIdx |-> IF i < 2 * CmdBlocks[t] THEN payload[i] ELSE cmdBuf[CS][i]]
  <2>1. CASE request = "CMD_REQ"
    <3>1. CmdBlocks[t] \in 1 .. MaxBlocks
      BY ConstantsAssumption
    <3>2. ASSUME NEW i \in ByteIdx, i < 2 * CmdBlocks[t]
          PROVE  payload[i] \in Bytes
      <4>1. i \in 0 .. 2 * CmdBlocks[t] - 1
        BY <3>1, <3>2, ConstantsAssumption DEF ByteIdx
      <4>. QED
        BY <2>1, <4>1 DEF Bytes
    <3>3. w \in Payloads
      BY <1>0, <3>2 DEF TypeOK, MemTypeOK, Payloads
    <3>4. cmdBuf' = [cmdBuf EXCEPT ![CS] = w]
      BY <2>1 DEF StartExchange, TypeOK, MemTypeOK
    <3>. QED
      BY <1>0, <3>3, <3>4 DEF TypeOK, MemTypeOK
  <2>2. CASE request # "CMD_REQ"
    BY <2>2 DEF StartExchange, TypeOK, MemTypeOK
  <2>. QED
    BY <2>1, <2>2
<1>4. MemTypeOK'
  BY <1>3 DEF StartExchange, TypeOK, MemTypeOK
<1>5. StateTypeOK'
  <2>1. wait' \in 0 .. Timeout
    BY ConstantsAssumption DEF StartExchange
  <2>2. /\ frame' \in Nodes /\ target' \in Nodes /\ result' \in Results
        /\ armed' \in Requests \cup {"none"} /\ served' \in BOOLEAN /\ clean' \in BOOLEAN
    BY DEF StartExchange, ClearedResult, Results, TypeOK, StateTypeOK
  <2>. QED
    BY <1>2, <2>1, <2>2 DEF StateTypeOK
<1>. QED
  BY <1>1, <1>2, <1>4, <1>5 DEF TypeOK

\* One step of one system.
LEMMA StepType ==
    ASSUME TypeOK, NEW s \in Systems, Step(s)
    PROVE  TypeOK'
<1>1. CASE Receive(s)
  BY <1>1, IrxSofType, IrxHeaderFirstType, IrxHeaderSecondType, IrxDataType,
     IrxEofMissingType, IrxEofIdleType, IrxEofRequestType, IrxEofResponseType
  DEF Receive
<1>2. CASE Transmit(s)
  BY <1>2, ItxSofType, ItxHeaderFirstType, ItxHeaderSecondType, ItxDataType, ItxEofType
  DEF Transmit
<1>3. CASE RxTimeout
  BY <1>3, RxTimeoutType
<1>4. CASE StartCommand
  BY <1>4, StartExchangeType DEF StartCommand, Requests
<1>5. CASE StartData
  BY <1>5, StartExchangeType DEF StartData, Requests
<1>. QED
  BY <1>1, <1>2, <1>3, <1>4, <1>5 DEF Step

LEMMA BusTickType ==
    ASSUME TypeOK, NEW b \in Bytes \cup {NoByte}, BusTick(b),
           disturbed' \in 0 .. MaxDisturbed, clean' \in BOOLEAN
    PROVE  TypeOK'
<1>1. SubInRange'
  BY DEF TypeOK, SubInRange, BusTick, stateVars
<1>2. StateTypeOK' /\ MemTypeOK' /\ EnvTypeOK'
  BY DEF TypeOK, StateTypeOK, MemTypeOK, EnvTypeOK, BusTick, stateVars, memVars, envVars
<1>3. LineTypeOK'
  BY DEF LineTypeOK, BusTick
<1>. QED
  BY <1>1, <1>2, <1>3 DEF TypeOK

LEMMA ModelStepType ==
    ASSUME TypeOK, NEW d \in Devices, ModelStep(d)
    PROVE  TypeOK'
<1>1. StateTypeOK' /\ MemTypeOK' /\ LineTypeOK' /\ SubInRange'
  BY DEF TypeOK, StateTypeOK, MemTypeOK, LineTypeOK, SubInRange,
         ModelStep, stateVars, memVars, lineVars
<1>2. EnvTypeOK'
  BY DEF TypeOK, EnvTypeOK, ModelStep
<1>. QED
  BY <1>1, <1>2 DEF TypeOK

-------------------------------------------------------------------------------
(* Type correctness *)

\* The initial state is well typed.
LEMMA InitType == Init => TypeOK
<1>. SUFFICES ASSUME Init
              PROVE  TypeOK
  OBVIOUS
<1>1. Blank \in Payloads
  BY DEF Blank, Payloads, Bytes
<1>2. StateTypeOK
  <2>1. wait \in 0 .. Timeout /\ frame \in Nodes
    BY ConstantsAssumption DEF Init
  <2>2. bus \in [Systems -> BusStates]
    BY IdleBusType DEF Init
  <2>. QED
    BY <2>1, <2>2 DEF Init, StateTypeOK, Results
<1>3. MemTypeOK /\ EnvTypeOK
  BY <1>1 DEF Init, MemTypeOK, EnvTypeOK
<1>4. LineTypeOK
  BY ConstantsAssumption DEF Init, LineTypeOK
<1>5. SubInRange
  BY DEF Init, SubInRange, IdleBus
<1>. QED
  BY <1>2, <1>3, <1>4, <1>5 DEF TypeOK

\* Every step, of the noisy line too, keeps the types.
LEMMA NextType == TypeOK /\ [NoisyNext]_vars => TypeOK'
<1>. SUFFICES ASSUME TypeOK, [NoisyNext]_vars
              PROVE  TypeOK'
  OBVIOUS
<1>1. ASSUME NEW s \in Systems, Step(s)
      PROVE  TypeOK'
  BY <1>1, StepType
<1>2. CASE Carry
  BY <1>2, BusTickType DEF Carry, TypeOK, LineTypeOK, StateTypeOK
<1>3. ASSUME NEW b \in {NoByte, Noise}, Disturb(b)
      PROVE  TypeOK'
  <2>1. disturbed' \in 0 .. MaxDisturbed
    BY <1>3, ConstantsAssumption DEF Disturb, TypeOK, LineTypeOK
  <2>. QED
    BY <1>3, <2>1, BusTickType DEF Disturb, Bytes
<1>4. CASE LoseByte \/ DamageByte
  BY <1>3, <1>4 DEF LoseByte, DamageByte
<1>5. ASSUME NEW d \in Devices, ModelStep(d)
      PROVE  TypeOK'
  BY <1>5, ModelStepType
<1>6. CASE UNCHANGED vars
  BY <1>6 DEF TypeOK, StateTypeOK, MemTypeOK, EnvTypeOK, LineTypeOK, SubInRange,
              vars, stateVars, memVars, envVars, lineVars
<1>. QED
  BY <1>1, <1>2, <1>4, <1>5, <1>6 DEF NoisyNext, Next

\* On any bus, with any windows and however the line behaves, the state stays
\* in its types, and the byte counters in the announced payload.
THEOREM NoisyTypeCorrect == NoisySpec => []TypeOK
  BY InitType, NextType, PTL DEF NoisySpec

\* The same of the bus of the simulation, which loses nothing.
THEOREM TypeCorrect == Spec => []TypeOK
<1>1. TypeOK /\ [Next]_vars => TypeOK'
  BY NextType DEF NoisyNext
<1>. QED
  BY <1>1, InitType, PTL DEF Spec

-------------------------------------------------------------------------------
(* The lock step on a bus that loses nothing *)

Frames == [addr : Nodes \cup {CS}, flag : Flags, n : BlockCounts]

\* The frame that t sends: the master its request, the target its answer.
Answer(flag) == IF flag = "CMD_REQ" THEN "CMD_RESP" ELSE "DATA_RESP"
FrameOf(t) ==
    IF t = CS
    THEN [addr |-> target, flag |-> armed,
          n |-> IF armed = "CMD_REQ" THEN CmdBlocks[target] ELSE 0]
    ELSE [addr |-> CS, flag |-> Answer(armed),
          n |-> IF armed = "CMD_REQ" THEN 0 ELSE PrmBlocks[target]]
Length(f) == 4 + 2 * f.n
Header(f) == [addr |-> f.addr, flag |-> f.flag]
HeaderCount(f) == [n |-> f.n]

\* The machine b of the talker when it has written k bytes of the frame f ...
Talks(b, k, f) ==
    /\ k = 0 => b.pc = "tx_sof"
    /\ k = 1 => b.pc = "tx_header" /\ b.sub = 0
    /\ k = 2 => b.pc = "tx_header" /\ b.sub = 1
    /\ k \in 3 .. 2 + 2 * f.n => b.pc = "tx_data" /\ b.sub = k - 3
    /\ k = 3 + 2 * f.n => b.pc = "tx_eof"
    /\ k \in 2 .. 3 + 2 * f.n => b.n = f.n
    /\ k < Length(f) => b.flag = f.flag
    /\ k = Length(f) => b.pc = "rx_sof"

\* ... and that of the listener l when it has read k bytes.
Hears(b, l, k, f) ==
    /\ k = 0 => b.pc = "rx_sof"
    /\ k = 1 => b.pc = "rx_header" /\ b.sub = 0
    /\ k = 2 => b.pc = "rx_header" /\ b.sub = 1 /\ b.hdr = Header(f)
    /\ k \in 3 .. 2 + 2 * f.n => b.pc = "rx_data" /\ b.sub = k - 3
    /\ k = 3 + 2 * f.n => b.pc = "rx_eof"
    /\ k \in 3 .. 3 + 2 * f.n => b.n = f.n /\ b.flag = f.flag /\ (b.adr <=> l = f.addr)
    /\ k = Length(f) =>
          IF l = f.addr /\ f.flag \in Requests
          THEN b.pc = "tx_sof" /\ b.flag = Answer(f.flag)
          ELSE b.pc = "rx_sof"

\* The byte number k of the frame f; the commands are those of the buffer buf.
Carries(byte, k, f, buf) ==
    /\ k = 0 => byte = SOF
    /\ k = 1 => byte = Header(f)
    /\ k = 2 => byte = HeaderCount(f)
    /\ k \in 3 .. 2 + 2 * f.n =>
          byte # NoByte /\ (f.flag = "CMD_REQ" => byte = buf[k - 3])
    /\ k = 3 + 2 * f.n => byte = EOF

\* In a tick in which d bytes of the frame have been delivered: how many the
\* talker has written and a listener has read, before and after its step.
Written(s, d, f) == IF s \notin stepped THEN d ELSE IF d < Length(f) THEN d + 1 ELSE d
Heard(s, d) == IF s \in stepped THEN d ELSE IF d > 0 THEN d - 1 ELSE 0

\* The master waits for the first byte of the answer at most two ticks.
Silence(t, d, f) ==
    IF t = CS THEN IF d = Length(f) /\ CS \in stepped THEN 1 ELSE 0
    ELSE IF d = 0 THEN IF CS \in stepped THEN 2 ELSE 1
    ELSE IF d = 1 /\ CS \notin stepped THEN 2 ELSE 0

\* The master is told of its success with the last byte of the answer.
Reported(t, d, f) == t # CS /\ d = Length(f) /\ CS \in stepped

\* The frame f of the talker t is under way, d bytes of it are delivered.
Roles(t, f) ==
    /\ armed # "none"
    /\ t \in {CS} \cup (Devices \cap {target})
    /\ f = FrameOf(t)

Machines(t, d, f) ==
    /\ Talks(bus[t], Written(t, d, f), f)
    /\ \A l \in Systems \ {t} : Hears(bus[l], l, Heard(l, d), f)

Line(t, d, f) ==
    /\ d = 0 => visible = NoByte
    /\ d > 0 => Carries(visible, d - 1, f, cmdBuf[CS])
    /\ IF t \in stepped /\ d < Length(f)
       THEN Carries(pending, d, f, cmdBuf[CS]) ELSE pending = NoByte

Master(t, d, f) ==
    /\ t = CS /\ d = 0 => CS \in stepped
    /\ wait = Silence(t, d, f)
    /\ bus[CS].busy <=> ~Reported(t, d, f)
    /\ result = IF Reported(t, d, f) THEN "success" ELSE "none"
    /\ ~Reported(t, d, f) => frame = target

Accepted(t, d, f) ==
    /\ served <=> (t = CS => d = Length(f) /\ target \in Devices \cap stepped)
    /\ t = CS /\ armed = "CMD_REQ" /\ target \in Devices =>
          \A i \in 0 .. 2 * f.n - 1 :
              i + 3 < Heard(target, d) => cmdBuf[target][i] = cmdBuf[CS][i]

InFrame(t, d, f) ==
    Roles(t, f) /\ Machines(t, d, f) /\ Line(t, d, f) /\ Master(t, d, f) /\ Accepted(t, d, f)

\* Nobody transmits: no exchange is under way, its result waits to be taken, or
\* the master waits for an answer that nobody sends.
Quiet ==
    /\ visible = NoByte /\ pending = NoByte
    /\ \A s \in Systems : bus[s].pc = "rx_sof"
    /\ bus[CS].busy => armed # "none" /\ result = "none" /\ target \notin Devices
    /\ ~bus[CS].busy /\ armed # "none" =>
          (result = "success" /\ served) \/ (result = "timeout" /\ target \notin Devices)

LockStep ==
    Quiet \/ \E t \in Systems, f \in Frames : \E d \in 0 .. Length(f) : InFrame(t, d, f)

-------------------------------------------------------------------------------
(* The handlers inside a frame *)

LEMMA FrameFacts ==
    ASSUME NEW f \in Frames
    PROVE  /\ f.n \in Nat /\ f.n \in BlockCounts /\ Length(f) \in Nat /\ Length(f) = 4 + 2 * f.n
           /\ f.flag \in Flags /\ f.addr \in Nodes \cup {CS}
  BY Counts DEF Frames, Length, BlockCounts

\* A system that is waiting for the master or whose exchange is under way keeps
\* what the scheduler waits for.
Engaged(s) == s = CS => bus[CS].busy /\ ~Expired(CS)

\* The place of a system decides which handler runs.
LEMMA Dispatch ==
    ASSUME NEW s, Step(s), Engaged(s)
    PROVE  /\ bus[s].pc = "rx_sof" => IrxSof(s)
           /\ bus[s].pc = "rx_header" /\ bus[s].sub = 0 => IrxHeaderFirst(s)
           /\ bus[s].pc = "rx_header" /\ bus[s].sub = 1 => IrxHeaderSecond(s)
           /\ bus[s].pc = "rx_data" => IrxData(s)
           /\ bus[s].pc = "rx_eof" /\ visible = EOF =>
                 IrxEofForeign(s) \/ IrxEofRequest(s) \/ IrxEofResponse(s) \/ visible = NoByte
           /\ bus[s].pc = "tx_sof" => ItxSof(s)
           /\ bus[s].pc = "tx_header" /\ bus[s].sub = 0 => ItxHeaderFirst(s)
           /\ bus[s].pc = "tx_header" /\ bus[s].sub = 1 => ItxHeaderSecond(s)
           /\ bus[s].pc = "tx_data" => ItxData(s)
           /\ bus[s].pc = "tx_eof" => ItxEof(s)
<1>1. Receive(s) \/ Transmit(s)
  BY DEF Step, Engaged, RxTimeout, StartCommand, StartData, StartExchange
<1>2. /\ IrxSof(s) => bus[s].pc = "rx_sof"
      /\ IrxHeaderFirst(s) => bus[s].pc = "rx_header" /\ bus[s].sub = 0
      /\ IrxHeaderSecond(s) => bus[s].pc = "rx_header" /\ bus[s].sub = 1
      /\ IrxData(s) => bus[s].pc = "rx_data"
  BY DEF IrxSof, IrxHeaderFirst, IrxHeaderSecond, IrxData, Receives
<1>3. /\ IrxEofMissing(s) => bus[s].pc = "rx_eof" /\ visible = NoByte
      /\ IrxEofInvalid(s) => bus[s].pc = "rx_eof" /\ visible # EOF
      /\ IrxEofForeign(s) => bus[s].pc = "rx_eof"
      /\ IrxEofRequest(s) => bus[s].pc = "rx_eof"
      /\ IrxEofResponse(s) => bus[s].pc = "rx_eof"
  BY DEF IrxEofMissing, IrxEofInvalid, IrxEofForeign, IrxEofRequest, IrxEofResponse, Receives
<1>4. /\ ItxSof(s) => bus[s].pc = "tx_sof"
      /\ ItxHeaderFirst(s) => bus[s].pc = "tx_header" /\ bus[s].sub = 0
      /\ ItxHeaderSecond(s) => bus[s].pc = "tx_header" /\ bus[s].sub = 1
      /\ ItxData(s) => bus[s].pc = "tx_data"
      /\ ItxEof(s) => bus[s].pc = "tx_eof"
  BY DEF ItxSof, ItxHeaderFirst, ItxHeaderSecond, ItxData, ItxEof, Transmits
<1>5. CASE Receive(s)
  BY <1>2, <1>3, <1>5 DEF Receive
<1>6. CASE Transmit(s)
  BY <1>4, <1>6 DEF Transmit
<1>. QED
  BY <1>1, <1>5, <1>6

\* A step arrives at the barrier and leaves the other systems alone.
LEMMA StepAlone ==
    ASSUME TypeOK, NEW s \in Systems, Step(s)
    PROVE  /\ s \notin stepped /\ stepped' = stepped \cup {s}
           /\ visible' = visible /\ disturbed' = disturbed
           /\ \A x \in Systems \ {s} : bus'[x] = bus[x] /\ cmdBuf'[x] = cmdBuf[x]
           /\ s # CS => /\ wait' = wait /\ frame' = frame /\ target' = target
                        /\ result' = result /\ armed' = armed /\ msgPrm' = msgPrm
<1>. DEFINE Arrived == s \notin stepped /\ stepped' = stepped \cup {s}
                          /\ visible' = visible /\ disturbed' = disturbed
            Others  == \A x \in Systems \ {s} : bus'[x] = bus[x] /\ cmdBuf'[x] = cmdBuf[x]
            Kept    == s # CS => /\ wait' = wait /\ frame' = frame /\ target' = target
                                 /\ result' = result /\ armed' = armed /\ msgPrm' = msgPrm
<1>1. bus \in [Systems -> BusStates] /\ cmdBuf \in [Systems -> Payloads] /\ CS \in Systems
  BY DEF TypeOK, StateTypeOK, MemTypeOK, Systems
<1>2. CASE Receive(s)
  <2>1. Arrived
    BY <1>2 DEF Receive, IrxSof, IrxHeaderFirst, IrxHeaderSecond, IrxData, IrxEofMissing,
       IrxEofInvalid, IrxEofForeign, IrxEofRequest, IrxEofResponse, Receives, Read, Arrive
  <2>2. Others
    <3>1. CASE IrxSof(s) \/ IrxHeaderFirst(s)
      BY <1>1, <3>1 DEF IrxSof, IrxHeaderFirst, KeepMemory
    <3>2. CASE IrxHeaderSecond(s)
      BY <1>1, <3>2 DEF IrxHeaderSecond, KeepMemory
    <3>3. CASE IrxData(s)
      BY <1>1, <3>3 DEF IrxData
    <3>4. CASE IrxEofMissing(s) \/ IrxEofInvalid(s) \/ IrxEofForeign(s)
      BY <1>1, <3>4 DEF IrxEofMissing, IrxEofInvalid, IrxEofForeign, KeepMemory, GoIdle
    <3>5. CASE IrxEofRequest(s) \/ IrxEofResponse(s)
      BY <1>1, <3>5 DEF IrxEofRequest, IrxEofResponse, GoIdle
    <3>. QED
      BY <1>2, <3>1, <3>2, <3>3, <3>4, <3>5 DEF Receive
  <2>3. Kept
    BY <1>2 DEF Receive, IrxSof, IrxHeaderFirst, IrxHeaderSecond, IrxData, IrxEofMissing,
       IrxEofInvalid, IrxEofForeign, IrxEofRequest, IrxEofResponse, CountWait, Outcome, GoIdle,
       KeepMemory
  <2>. QED
    BY <2>1, <2>2, <2>3
<1>3. CASE Transmit(s)
  <2>1. Arrived /\ Kept
    BY <1>3 DEF Transmit, ItxSof, ItxHeaderFirst, ItxHeaderSecond, ItxData, ItxEof, Transmits,
       Write, Arrive, Outcome, KeepMemory
  <2>2. Others
    BY <1>1, <1>3 DEF Transmit, ItxSof, ItxHeaderFirst, ItxHeaderSecond, ItxData, ItxEof,
       Transmits, KeepMemory
  <2>. QED
    BY <2>1, <2>2
<1>4. CASE s = CS /\ RxTimeout
  BY <1>1, <1>4 DEF RxTimeout, Read, Arrive, GoIdle, KeepMemory
<1>5. CASE s = CS /\ (StartCommand \/ StartData)
  BY <1>1, <1>5 DEF StartCommand, StartData, StartExchange, Write, Arrive
<1>. QED
  BY <1>2, <1>3, <1>4, <1>5 DEF Step

\* What a receive handler inside a frame does to the rest of the state.
Midway(s, accepted) ==
    /\ pending' = pending
    /\ bus'[CS].busy = bus[CS].busy
    /\ UNCHANGED <<frame, target, result, armed, served, msgPrm>>
    /\ wait' = IF s # CS THEN wait ELSE IF accepted THEN 0 ELSE wait + 1

LEMMA OutcomeKept ==
    ASSUME NEW s, Engaged(s), Outcome(s, "none")
    PROVE  armed' = armed /\ result' = result
  BY DEF Engaged, Outcome, Taken

\* The handlers of reception, on a byte that is what the frame has there.
LEMMA HearSof ==
    ASSUME TypeOK, NEW s \in Systems, IrxSof(s), Engaged(s)
    PROVE  /\ Midway(s, visible = SOF)
           /\ IF visible = SOF THEN bus'[s].pc = "rx_header" /\ bus'[s].sub = 0
              ELSE bus'[s].pc = "rx_sof"
           /\ cmdBuf' = cmdBuf
<1>1. bus \in [Systems -> BusStates] /\ CS \in Systems
  BY DEF TypeOK, StateTypeOK, Systems
<1>2. CASE visible = SOF
  <2>. DEFINE b == [bus[s] EXCEPT !.pc = "rx_header", !.sub = 0, !.busy = @ \/ s # CS]
  <2>1. bus' = [bus EXCEPT ![s] = b]
    BY <1>1, <1>2 DEF IrxSof, BusStates
  <2>2. bus'[s] = b /\ (s # CS => bus'[CS] = bus[CS])
    BY <1>1, <2>1
  <2>3. b.pc = "rx_header" /\ b.sub = 0
    BY <1>1 DEF BusStates
  <2>4. s = CS => b.busy = bus[CS].busy
    BY <1>1 DEF BusStates, Engaged
  <2>. QED
    BY <1>1, <1>2, <2>2, <2>3, <2>4, OutcomeKept
       DEF IrxSof, Midway, CountWait, Engaged, KeepMemory, Receives, Read
<1>3. CASE visible # SOF
  BY <1>1, <1>3, OutcomeKept
     DEF IrxSof, Midway, CountWait, Engaged, KeepMemory, Receives, Read
<1>. QED
  BY <1>2, <1>3

LEMMA HearHeaderFirst ==
    ASSUME TypeOK, NEW s \in Systems, IrxHeaderFirst(s), Engaged(s), visible # NoByte
    PROVE  /\ Midway(s, TRUE)
           /\ bus'[s].pc = "rx_header" /\ bus'[s].sub = 1 /\ bus'[s].hdr = visible
           /\ cmdBuf' = cmdBuf
<1>1. bus \in [Systems -> BusStates] /\ CS \in Systems
  BY DEF TypeOK, StateTypeOK, Systems
<1>. DEFINE b == [bus[s] EXCEPT !.hdr = visible, !.sub = 1]
<1>2. bus' = [bus EXCEPT ![s] = b] /\ bus[s].pc = "rx_header"
  BY <1>1 DEF IrxHeaderFirst, BusStates, Receives
<1>3. bus'[s] = b /\ (s # CS => bus'[CS] = bus[CS])
  BY <1>1, <1>2
<1>4. b.pc = bus[s].pc /\ b.sub = 1 /\ b.hdr = visible /\ b.busy = bus[s].busy
  BY <1>1 DEF BusStates
<1>. QED
  BY <1>1, <1>2, <1>3, <1>4, OutcomeKept
     DEF IrxHeaderFirst, Midway, CountWait, Engaged, KeepMemory, Receives, Read

LEMMA HearHeaderSecond ==
    ASSUME TypeOK, NEW s \in Systems, IrxHeaderSecond(s), Engaged(s),
           NEW f \in Frames, bus[s].hdr = Header(f), visible = HeaderCount(f)
    PROVE  /\ Midway(s, TRUE)
           /\ bus'[s].sub = 0 /\ bus'[s].pc = IF f.n > 0 THEN "rx_data" ELSE "rx_eof"
           /\ bus'[s].n = f.n /\ bus'[s].flag = f.flag /\ (bus'[s].adr <=> s = f.addr)
           /\ cmdBuf' = cmdBuf
<1>1. bus \in [Systems -> BusStates] /\ CS \in Systems
  BY DEF TypeOK, StateTypeOK, Systems
<1>. DEFINE a == f.addr
            g == f.flag
            n == f.n
<1>0. /\ a \in Nodes \cup {CS} /\ g \in Flags /\ n \in BlockCounts
      /\ bus[s].hdr = [addr |-> a, flag |-> g] /\ visible = [n |-> n]
  BY FrameFacts DEF Header, HeaderCount
<1>. HIDE DEF a, g, n
<1>2. /\ bus[s].hdr \in AddrBytes /\ visible \in CountBytes /\ visible # NoByte
      /\ bus[s].hdr.addr = a /\ bus[s].hdr.flag = g /\ visible.n = n
  BY <1>0, ConstantsAssumption DEF AddrBytes, CountBytes
<1>. DEFINE h == [adr |-> s = a, flag |-> g, n |-> n]
<1>3. Parses(s, bus[s].hdr, visible) = {h}
  BY <1>2 DEF Parses, Addressed
<1>. DEFINE b == [bus[s] EXCEPT !.adr = h.adr, !.flag = h.flag, !.n = h.n,
                                !.sub = 0, !.hdr = NoByte,
                                !.pc = IF h.n > 0 THEN "rx_data" ELSE "rx_eof"]
<1>4. bus' = [bus EXCEPT ![s] = b]
  <2>1. PICK p \in {h} : bus' = [bus EXCEPT ![s] =
                        [@ EXCEPT !.adr = p.adr, !.flag = p.flag, !.n = p.n,
                                  !.sub = 0, !.hdr = NoByte,
                                  !.pc = IF p.n > 0 THEN "rx_data" ELSE "rx_eof"]]
    BY <1>2, <1>3 DEF IrxHeaderSecond
  <2>2. p = h
    BY <2>1
  <2>. HIDE DEF h
  <2>. QED
    BY <1>1, <2>1, <2>2 DEF BusStates
<1>5. bus'[s] = b /\ (s # CS => bus'[CS] = bus[CS])
  BY <1>1, <1>4
<1>6. /\ b.sub = 0 /\ b.pc = IF n > 0 THEN "rx_data" ELSE "rx_eof"
      /\ b.n = n /\ b.flag = g /\ (b.adr <=> s = a) /\ b.busy = bus[s].busy
  BY <1>0, <1>1 DEF BusStates
<1>. HIDE DEF b
<1>7. Midway(s, TRUE) /\ cmdBuf' = cmdBuf
  BY <1>1, <1>2, <1>5, <1>6, OutcomeKept
     DEF IrxHeaderSecond, Midway, CountWait, Engaged, KeepMemory, Receives, Read
<1>. QED
  BY <1>5, <1>6, <1>7 DEF a, g, n

LEMMA HearData ==
    ASSUME TypeOK, NEW s \in Systems, IrxData(s), Engaged(s), visible # NoByte
    PROVE  /\ Midway(s, TRUE)
           /\ bus'[s].sub = bus[s].sub + 1
           /\ bus'[s].pc = IF bus[s].sub + 1 >= 2 * bus[s].n THEN "rx_eof" ELSE "rx_data"
           /\ bus'[s].n = bus[s].n /\ bus'[s].flag = bus[s].flag
           /\ bus'[s].adr = bus[s].adr
           /\ cmdBuf'[s] = IF bus[s].adr /\ bus[s].flag = "CMD_REQ" /\ bus[s].sub < CmdBytes(s)
                           THEN [cmdBuf[s] EXCEPT ![bus[s].sub] = visible] ELSE cmdBuf[s]
<1>1. bus \in [Systems -> BusStates] /\ CS \in Systems /\ cmdBuf \in [Systems -> Payloads]
  BY DEF TypeOK, StateTypeOK, MemTypeOK, Systems
<1>. DEFINE b == [bus[s] EXCEPT !.sub = bus[s].sub + 1,
                                !.pc = IF LastByte(s) THEN "rx_eof" ELSE @]
<1>2. bus' = [bus EXCEPT ![s] = b] /\ bus[s].pc = "rx_data"
  BY <1>1 DEF IrxData, BusStates, Receives
<1>3. bus'[s] = b /\ (s # CS => bus'[CS] = bus[CS])
  BY <1>1, <1>2
<1>4. /\ b.sub = bus[s].sub + 1 /\ b.n = bus[s].n /\ b.flag = bus[s].flag
      /\ b.adr = bus[s].adr /\ b.busy = bus[s].busy
      /\ b.pc = IF LastByte(s) THEN "rx_eof" ELSE bus[s].pc
  BY <1>1 DEF BusStates
<1>5. cmdBuf'[s] = IF bus[s].adr /\ bus[s].flag = "CMD_REQ" /\ bus[s].sub < CmdBytes(s)
                   THEN [cmdBuf[s] EXCEPT ![bus[s].sub] = visible] ELSE cmdBuf[s]
  BY <1>1 DEF IrxData
<1>6. Midway(s, TRUE)
  BY <1>1, <1>3, <1>4, OutcomeKept
     DEF IrxData, Midway, CountWait, Engaged, Receives, Read
<1>. QED
  BY <1>2, <1>3, <1>4, <1>5, <1>6 DEF LastByte

LEMMA HearForeign ==
    ASSUME TypeOK, NEW s \in Systems, IrxEofForeign(s), s # CS
    PROVE  Midway(s, TRUE) /\ bus'[s].pc = "rx_sof" /\ cmdBuf' = cmdBuf /\ ~bus[s].adr
<1>1. bus \in [Systems -> BusStates] /\ CS \in Systems
  BY DEF TypeOK, StateTypeOK, Systems
<1>2. bus'[s] = IdleBus /\ bus'[CS] = bus[CS]
  BY <1>1 DEF IrxEofForeign, GoIdle
<1>3. Midway(s, TRUE)
  BY <1>2, OutcomeKept DEF IrxEofForeign, Midway, GoIdle, Engaged, KeepMemory, Receives, Read
<1>4. cmdBuf' = cmdBuf /\ ~bus[s].adr
  BY DEF IrxEofForeign, KeepMemory
<1>5. bus'[s].pc = "rx_sof"
  BY <1>2 DEF IdleBus
<1>. QED
  BY <1>3, <1>4, <1>5

LEMMA HearRequest ==
    ASSUME TypeOK, NEW s \in Systems, IrxEofRequest(s), s # CS
    PROVE  /\ pending' = pending /\ bus'[CS] = bus[CS] /\ cmdBuf' = cmdBuf
           /\ UNCHANGED <<frame, target, result, armed, msgPrm, wait>>
           /\ served' = (served \/ (s = target /\ bus[s].flag = armed))
           /\ bus[s].adr /\ bus[s].flag \in Requests
           /\ bus'[s].pc = "tx_sof" /\ bus'[s].flag = Answer(bus[s].flag)
<1>1. bus \in [Systems -> BusStates] /\ CS \in Systems
  BY DEF TypeOK, StateTypeOK, Systems
<1>. DEFINE b == [bus[s] EXCEPT !.pc = "tx_sof", !.sub = 0, !.flag = Answer(bus[s].flag)]
<1>2. bus' = [bus EXCEPT ![s] = b]
  BY <1>1 DEF IrxEofRequest, BusStates, Answer
<1>3. bus'[s] = b /\ bus'[CS] = bus[CS]
  BY <1>1, <1>2
<1>4. b.pc = "tx_sof" /\ b.flag = Answer(bus[s].flag)
  BY <1>1 DEF BusStates
<1>. QED
  BY <1>3, <1>4, OutcomeKept DEF IrxEofRequest, CountWait, Engaged, Receives, Read

\* The master takes the answer for its own.
LEMMA HearResponse ==
    ASSUME TypeOK, IrxEofResponse(CS), Engaged(CS)
    PROVE  /\ pending' = pending /\ cmdBuf' = cmdBuf
           /\ UNCHANGED <<target, armed, served>>
           /\ bus'[CS] = IdleBus /\ wait' = 0 /\ result' = "success"
           /\ \A x \in Nodes : msgPrm'[x] # msgPrm[x] => x = frame /\ bus[CS].flag = "DATA_RESP"
<1>1. bus \in [Systems -> BusStates] /\ CS \in Systems /\ msgPrm \in [Nodes -> Payloads]
  BY DEF TypeOK, StateTypeOK, MemTypeOK, Systems
<1>2. bus'[CS] = IdleBus /\ wait' = 0
  BY <1>1 DEF IrxEofResponse, GoIdle
<1>3. result' = "success" /\ armed' = armed
  BY DEF IrxEofResponse, Outcome, Taken, Engaged
<1>. QED
  BY <1>1, <1>2, <1>3 DEF IrxEofResponse, Committed, Receives, Read

-------------------------------------------------------------------------------
\* What a transmit handler inside a frame does to the rest of the state.
Sending(s) ==
    /\ bus'[CS].busy = bus[CS].busy
    /\ UNCHANGED <<frame, target, result, armed, served, msgPrm, cmdBuf>>
    /\ wait' = IF s = CS THEN 0 ELSE wait

LEMMA SendingStep ==
    ASSUME TypeOK, NEW s \in Systems, Engaged(s), NEW phase, NEW byte, Transmits(s, phase, byte),
           NEW b, bus' = [bus EXCEPT ![s] = b], s = CS => b.busy
    PROVE  Sending(s) /\ pending' = byte /\ bus'[s] = b
<1>1. bus \in [Systems -> BusStates] /\ CS \in Systems
  BY DEF TypeOK, StateTypeOK, Systems
<1>2. bus'[s] = b /\ (s # CS => bus'[CS] = bus[CS])
  BY <1>1
<1>3. s = CS => bus'[CS].busy = bus[CS].busy
  BY <1>1, <1>2 DEF Engaged, BusStates
<1>. QED
  BY <1>2, <1>3, OutcomeKept DEF Transmits, Sending, Write, KeepMemory

LEMMA TalkSof ==
    ASSUME TypeOK, NEW s \in Systems, ItxSof(s), s # CS
    PROVE  /\ Sending(s) /\ pending' = SOF
           /\ bus'[s].pc = "tx_header" /\ bus'[s].sub = 0 /\ bus'[s].flag = bus[s].flag
<1>1. bus \in [Systems -> BusStates] /\ CS \in Systems
  BY DEF TypeOK, StateTypeOK, Systems
<1>. DEFINE b == [bus[s] EXCEPT !.pc = "tx_header", !.sub = 0, !.busy = @ \/ s = CS]
<1>2. bus' = [bus EXCEPT ![s] = b]
  BY <1>1 DEF ItxSof, BusStates
<1>3. b.pc = "tx_header" /\ b.sub = 0 /\ b.flag = bus[s].flag
  BY <1>1 DEF BusStates
<1>. HIDE DEF b
<1>. QED
  BY <1>2, <1>3, SendingStep DEF ItxSof, Engaged

LEMMA TalkHeaderFirst ==
    ASSUME TypeOK, NEW s \in Systems, ItxHeaderFirst(s), Engaged(s)
    PROVE  /\ Sending(s) /\ pending' = [addr |-> Peer(s), flag |-> bus[s].flag]
           /\ bus'[s].pc = "tx_header" /\ bus'[s].sub = 1 /\ bus'[s].flag = bus[s].flag
           /\ bus'[s].n = BlocksToSend(s)
<1>1. bus \in [Systems -> BusStates] /\ bus[s].pc = "tx_header"
  BY DEF TypeOK, StateTypeOK, ItxHeaderFirst, Transmits
<1>. DEFINE b == [bus[s] EXCEPT !.n = BlocksToSend(s), !.sub = 1]
<1>2. bus' = [bus EXCEPT ![s] = b]
  BY <1>1 DEF ItxHeaderFirst, BusStates
<1>3. /\ b.pc = "tx_header" /\ b.sub = 1 /\ b.flag = bus[s].flag /\ b.busy = bus[s].busy
      /\ b.n = BlocksToSend(s)
  BY <1>1 DEF BusStates
<1>. HIDE DEF b
<1>4. Transmits(s, "tx_header", [addr |-> Peer(s), flag |-> bus[s].flag])
  BY DEF ItxHeaderFirst
<1>5. Sending(s) /\ pending' = [addr |-> Peer(s), flag |-> bus[s].flag] /\ bus'[s] = b
  BY <1>2, <1>3, <1>4, SendingStep DEF Engaged
<1>. QED
  BY <1>3, <1>5

LEMMA TalkHeaderSecond ==
    ASSUME TypeOK, NEW s \in Systems, ItxHeaderSecond(s), Engaged(s)
    PROVE  /\ Sending(s) /\ pending' = [n |-> bus[s].n]
           /\ bus'[s].pc = IF bus[s].n > 0 THEN "tx_data" ELSE "tx_eof"
           /\ bus'[s].sub = 0 /\ bus'[s].flag = bus[s].flag /\ bus'[s].n = bus[s].n
<1>1. bus \in [Systems -> BusStates] /\ bus[s].pc = "tx_header"
  BY DEF TypeOK, StateTypeOK, ItxHeaderSecond, Transmits
<1>. DEFINE b == [bus[s] EXCEPT !.sub = 0, !.pc = IF bus[s].n > 0 THEN "tx_data" ELSE "tx_eof"]
<1>2. bus' = [bus EXCEPT ![s] = b]
  BY <1>1 DEF ItxHeaderSecond, BusStates
<1>3. /\ b.sub = 0 /\ b.flag = bus[s].flag /\ b.busy = bus[s].busy /\ b.n = bus[s].n
      /\ b.pc = IF bus[s].n > 0 THEN "tx_data" ELSE "tx_eof"
  BY <1>1 DEF BusStates
<1>. HIDE DEF b
<1>4. Transmits(s, "tx_header", [n |-> bus[s].n])
  BY DEF ItxHeaderSecond
<1>5. Sending(s) /\ pending' = [n |-> bus[s].n] /\ bus'[s] = b
  BY <1>2, <1>3, <1>4, SendingStep DEF Engaged
<1>. QED
  BY <1>3, <1>5

LEMMA TalkData ==
    ASSUME TypeOK, NEW s \in Systems, ItxData(s), Engaged(s)
    PROVE  /\ Sending(s) /\ pending' = PayloadByte(s, bus[s].sub) /\ pending' # NoByte
           /\ bus'[s].pc = IF bus[s].sub + 1 >= 2 * bus[s].n THEN "tx_eof" ELSE "tx_data"
           /\ bus'[s].sub = bus[s].sub + 1 /\ bus'[s].flag = bus[s].flag
           /\ bus'[s].n = bus[s].n
<1>1. bus \in [Systems -> BusStates] /\ bus[s].pc = "tx_data"
  BY DEF TypeOK, StateTypeOK, ItxData, Transmits
<1>. DEFINE b == [bus[s] EXCEPT !.sub = bus[s].sub + 1,
                                !.pc = IF LastByte(s) THEN "tx_eof" ELSE @]
<1>2. bus' = [bus EXCEPT ![s] = b]
  BY <1>1 DEF ItxData, BusStates
<1>3. /\ b.sub = bus[s].sub + 1 /\ b.flag = bus[s].flag /\ b.busy = bus[s].busy
      /\ b.n = bus[s].n /\ b.pc = IF LastByte(s) THEN "tx_eof" ELSE "tx_data"
  BY <1>1 DEF BusStates
<1>. HIDE DEF b
<1>4. Sending(s) /\ pending' = PayloadByte(s, bus[s].sub) /\ bus'[s] = b
  BY <1>2, <1>3, SendingStep DEF ItxData, Engaged
<1>5. PayloadByte(s, bus[s].sub) \in Bytes
  <2>1. bus[s].sub \in ByteIdx
    BY <1>1, Counts DEF TypeOK, SubInRange, BusStates
  <2>2. cmdBuf[s] \in Payloads /\ FreshPrm(s) \in Payloads
    BY FreshType DEF TypeOK, MemTypeOK
  <2>. QED
    BY <2>1, <2>2 DEF PayloadByte, Payloads, Bytes
<1>6. NoByte \notin Bytes
  BY ConstantsAssumption DEF Bytes
<1>. QED
  BY <1>3, <1>4, <1>5, <1>6 DEF LastByte

LEMMA TalkEof ==
    ASSUME TypeOK, NEW s \in Systems, ItxEof(s), Engaged(s), s = CS => bus[s].flag \in Requests
    PROVE  Sending(s) /\ pending' = EOF /\ bus'[s].pc = "rx_sof"
<1>1. bus \in [Systems -> BusStates]
  BY DEF TypeOK, StateTypeOK
<1>. DEFINE flag == IF ~Awaits(s) THEN "CMD_REQ"
                    ELSE IF bus[s].flag = "CMD_REQ" THEN "CMD_RESP" ELSE "DATA_RESP"
            b == [bus[s] EXCEPT !.pc = "rx_sof", !.sub = 0, !.busy = Awaits(s) /\ @, !.flag = flag]
<1>2. bus' = [bus EXCEPT ![s] = b]
  BY <1>1 DEF ItxEof, BusStates
<1>3. b.pc = "rx_sof"
  BY <1>1 DEF BusStates
<1>4. s = CS => b.busy
  BY <1>1 DEF BusStates, Awaits, Engaged
<1>. HIDE DEF b
<1>5. Transmits(s, "tx_eof", EOF)
  BY DEF ItxEof
<1>6. Sending(s) /\ pending' = EOF /\ bus'[s] = b
  BY <1>2, <1>4, <1>5, SendingStep
<1>. QED
  BY <1>3, <1>6

-------------------------------------------------------------------------------
(* Hearing a frame *)

LEMMA FrameType ==
    ASSUME TypeOK, armed # "none", NEW t
    PROVE  /\ FrameOf(t) \in Frames
           /\ t = CS => FrameOf(t).addr = target /\ FrameOf(t).flag = armed
           /\ t # CS => FrameOf(t).addr = CS /\ FrameOf(t).flag \in Flags \ Requests
<1>1. armed \in Requests /\ target \in Nodes
  BY DEF TypeOK, StateTypeOK
<1>2. CmdBlocks[target] \in BlockCounts /\ PrmBlocks[target] \in BlockCounts /\ 0 \in BlockCounts
  BY <1>1, ConstantsAssumption DEF BlockCounts
<1>. QED
  BY <1>1, <1>2 DEF FrameOf, Frames, Answer, Flags, Requests

\* What a listener is like, place by place.
LEMMA HearsSof ==
    ASSUME NEW f \in Frames, NEW b, NEW l
    PROVE  Hears(b, l, 0, f) <=> b.pc = "rx_sof"
  BY FrameFacts DEF Hears

LEMMA HearsHeaderFirst ==
    ASSUME NEW f \in Frames, NEW b, NEW l
    PROVE  Hears(b, l, 1, f) <=> b.pc = "rx_header" /\ b.sub = 0
  BY FrameFacts DEF Hears

LEMMA HearsHeaderSecond ==
    ASSUME NEW f \in Frames, NEW b, NEW l
    PROVE  Hears(b, l, 2, f) <=> b.pc = "rx_header" /\ b.sub = 1 /\ b.hdr = Header(f)
  BY FrameFacts DEF Hears

LEMMA HearsData ==
    ASSUME NEW f \in Frames, NEW b, NEW l, NEW k \in 3 .. 2 + 2 * f.n
    PROVE  Hears(b, l, k, f) <=> /\ b.pc = "rx_data" /\ b.sub = k - 3
                                 /\ b.n = f.n /\ b.flag = f.flag /\ (b.adr <=> l = f.addr)
<1>1. /\ f.n \in Nat /\ k \in 3 .. 3 + 2 * f.n /\ k # 3 + 2 * f.n /\ k # Length(f)
      /\ k # 0 /\ k # 1 /\ k # 2
  BY FrameFacts
<1>. QED
  BY <1>1 DEF Hears

LEMMA HearsEof ==
    ASSUME NEW f \in Frames, NEW b, NEW l, NEW k, k = 3 + 2 * f.n
    PROVE  Hears(b, l, k, f) <=> /\ b.pc = "rx_eof"
                                 /\ b.n = f.n /\ b.flag = f.flag /\ (b.adr <=> l = f.addr)
<1>1. /\ f.n \in Nat /\ k \in 3 .. 3 + 2 * f.n /\ k \notin 3 .. 2 + 2 * f.n /\ k # Length(f)
      /\ k # 0 /\ k # 1 /\ k # 2
  BY FrameFacts
<1>. QED
  BY <1>1 DEF Hears

LEMMA HearsAll ==
    ASSUME NEW f \in Frames, NEW b, NEW l, NEW k, k = Length(f)
    PROVE  Hears(b, l, k, f) <=>
              IF l = f.addr /\ f.flag \in Requests
              THEN b.pc = "tx_sof" /\ b.flag = Answer(f.flag) ELSE b.pc = "rx_sof"
<1>1. /\ f.n \in Nat /\ k \notin 3 .. 3 + 2 * f.n /\ k \notin 3 .. 2 + 2 * f.n
      /\ k # 3 + 2 * f.n /\ k # 0 /\ k # 1 /\ k # 2
  BY FrameFacts
<1>. QED
  BY <1>1 DEF Hears

\* The talker, place by place.
LEMMA TalksSof ==
    ASSUME NEW f \in Frames, NEW b
    PROVE  Talks(b, 0, f) <=> b.pc = "tx_sof" /\ b.flag = f.flag
  BY FrameFacts DEF Talks

LEMMA TalksHeaderFirst ==
    ASSUME NEW f \in Frames, NEW b
    PROVE  Talks(b, 1, f) <=> b.pc = "tx_header" /\ b.sub = 0 /\ b.flag = f.flag
  BY FrameFacts DEF Talks

LEMMA TalksHeaderSecond ==
    ASSUME NEW f \in Frames, NEW b
    PROVE  Talks(b, 2, f) <=> b.pc = "tx_header" /\ b.sub = 1 /\ b.flag = f.flag /\ b.n = f.n
  BY FrameFacts DEF Talks

LEMMA TalksData ==
    ASSUME NEW f \in Frames, NEW b, NEW k \in 3 .. 2 + 2 * f.n
    PROVE  Talks(b, k, f) <=> /\ b.pc = "tx_data" /\ b.sub = k - 3
                              /\ b.n = f.n /\ b.flag = f.flag
<1>1. /\ f.n \in Nat /\ k \in 2 .. 3 + 2 * f.n /\ k # 3 + 2 * f.n /\ k < Length(f) /\ k # Length(f)
      /\ k # 0 /\ k # 1 /\ k # 2
  BY FrameFacts
<1>. QED
  BY <1>1 DEF Talks

LEMMA TalksEof ==
    ASSUME NEW f \in Frames, NEW b, NEW k, k = 3 + 2 * f.n
    PROVE  Talks(b, k, f) <=> b.pc = "tx_eof" /\ b.n = f.n /\ b.flag = f.flag
<1>1. /\ f.n \in Nat /\ k \in 2 .. 3 + 2 * f.n /\ k \notin 3 .. 2 + 2 * f.n /\ k < Length(f)
      /\ k # Length(f) /\ k # 0 /\ k # 1 /\ k # 2
  BY FrameFacts
<1>. QED
  BY <1>1 DEF Talks

LEMMA TalksAll ==
    ASSUME NEW f \in Frames, NEW b, NEW k, k = Length(f)
    PROVE  Talks(b, k, f) <=> b.pc = "rx_sof"
<1>1. /\ f.n \in Nat /\ k \notin 2 .. 3 + 2 * f.n /\ k \notin 3 .. 2 + 2 * f.n /\ ~(k < Length(f))
      /\ k # 3 + 2 * f.n /\ k # 0 /\ k # 1 /\ k # 2
  BY FrameFacts
<1>. QED
  BY <1>1 DEF Talks

\* The bytes of a frame, place by place.
LEMMA CarriesHeader ==
    ASSUME NEW f \in Frames, NEW byte, NEW buf
    PROVE  /\ Carries(byte, 0, f, buf) <=> byte = SOF
           /\ Carries(byte, 1, f, buf) <=> byte = Header(f)
           /\ Carries(byte, 2, f, buf) <=> byte = HeaderCount(f)
  BY FrameFacts DEF Carries

LEMMA CarriesData ==
    ASSUME NEW f \in Frames, NEW byte, NEW buf, NEW k \in 3 .. 2 + 2 * f.n
    PROVE  Carries(byte, k, f, buf) <=>
              byte # NoByte /\ (f.flag = "CMD_REQ" => byte = buf[k - 3])
<1>1. f.n \in Nat /\ k # 3 + 2 * f.n /\ k # 0 /\ k # 1 /\ k # 2
  BY FrameFacts
<1>. QED
  BY <1>1 DEF Carries

LEMMA CarriesEof ==
    ASSUME NEW f \in Frames, NEW byte, NEW buf, NEW k, k = 3 + 2 * f.n
    PROVE  Carries(byte, k, f, buf) <=> byte = EOF
<1>1. f.n \in Nat /\ k \notin 3 .. 2 + 2 * f.n /\ k # 0 /\ k # 1 /\ k # 2
  BY FrameFacts
<1>. QED
  BY <1>1 DEF Carries

\* A listener takes the next byte of the frame.
LEMMA Hearing ==
    ASSUME TypeOK, NEW s \in Systems, Step(s), Engaged(s), NEW f \in Frames, NEW buf,
           NEW d \in 0 .. 3 + 2 * f.n, Hears(bus[s], s, IF d > 0 THEN d - 1 ELSE 0, f),
           d = 0 => visible = NoByte, d > 0 => Carries(visible, d - 1, f, buf)
    PROVE  /\ Hears(bus'[s], s, d, f)
           /\ Midway(s, d > 0)
           /\ cmdBuf'[s] = IF /\ d \in 4 .. 3 + 2 * f.n
                              /\ s = f.addr /\ f.flag = "CMD_REQ" /\ d - 4 < CmdBytes(s)
                           THEN [cmdBuf[s] EXCEPT ![d - 4] = visible] ELSE cmdBuf[s]
<1>1. /\ f.n \in Nat /\ f.n \in BlockCounts /\ Length(f) = 4 + 2 * f.n
      /\ f.flag \in Flags /\ f.addr \in Nodes \cup {CS}
  BY FrameFacts
<1>2. SOF # NoByte /\ SOF # EOF /\ EOF # NoByte
  BY ConstantsAssumption
<1>3. CASE d = 0
  <2>1. bus[s].pc = "rx_sof" /\ visible # SOF
    BY <1>3, <1>2, HearsSof
  <2>2. bus'[s].pc = "rx_sof" /\ Midway(s, FALSE) /\ cmdBuf' = cmdBuf
    BY <2>1, Dispatch, HearSof
  <2>3. Hears(bus'[s], s, 0, f)
    BY <2>2, HearsSof
  <2>. QED
    BY <1>1, <1>3, <2>2, <2>3 DEF Midway
<1>4. CASE d = 1
  <2>1. Hears(bus[s], s, 0, f) /\ Carries(visible, 0, f, buf)
    BY <1>4
  <2>2. bus[s].pc = "rx_sof" /\ visible = SOF
    BY <2>1, HearsSof, CarriesHeader
  <2>3. bus'[s].pc = "rx_header" /\ bus'[s].sub = 0 /\ Midway(s, TRUE) /\ cmdBuf' = cmdBuf
    BY <2>2, Dispatch, HearSof
  <2>4. Hears(bus'[s], s, 1, f)
    BY <2>3, HearsHeaderFirst
  <2>. QED
    BY <1>1, <1>4, <2>3, <2>4 DEF Midway
<1>5. CASE d = 2
  <2>1. Hears(bus[s], s, 1, f) /\ Carries(visible, 1, f, buf)
    BY <1>5
  <2>2. bus[s].pc = "rx_header" /\ bus[s].sub = 0 /\ visible = Header(f)
    BY <2>1, HearsHeaderFirst, CarriesHeader
  <2>3. visible # NoByte
    BY <1>1, <2>2, ConstantsAssumption DEF AddrBytes, Header
  <2>4. /\ bus'[s].pc = "rx_header" /\ bus'[s].sub = 1 /\ bus'[s].hdr = Header(f)
        /\ Midway(s, TRUE) /\ cmdBuf' = cmdBuf
    BY <2>2, <2>3, Dispatch, HearHeaderFirst
  <2>5. Hears(bus'[s], s, 2, f)
    BY <2>4, HearsHeaderSecond
  <2>. QED
    BY <1>1, <1>5, <2>4, <2>5 DEF Midway
<1>6. CASE d = 3
  <2>1. Hears(bus[s], s, 2, f) /\ Carries(visible, 2, f, buf)
    BY <1>6
  <2>2. /\ bus[s].pc = "rx_header" /\ bus[s].sub = 1 /\ bus[s].hdr = Header(f)
        /\ visible = HeaderCount(f)
    BY <2>1, HearsHeaderSecond, CarriesHeader
  <2>3. IrxHeaderSecond(s)
    BY <2>2, Dispatch
  <2>4. /\ bus'[s].sub = 0 /\ bus'[s].pc = IF f.n > 0 THEN "rx_data" ELSE "rx_eof"
        /\ bus'[s].n = f.n /\ bus'[s].flag = f.flag /\ (bus'[s].adr <=> s = f.addr)
        /\ Midway(s, TRUE) /\ cmdBuf' = cmdBuf
    BY <2>2, <2>3, HearHeaderSecond
  <2>5. Hears(bus'[s], s, 3, f)
    <3>1. CASE f.n = 0
      BY <2>4, <3>1, HearsEof
    <3>2. CASE 3 \in 3 .. 2 + 2 * f.n
      BY <1>1, <2>4, <3>2, HearsData
    <3>. QED
      BY <1>1, <3>1, <3>2
  <2>. QED
    BY <1>1, <1>6, <2>4, <2>5 DEF Midway
<1>7. CASE d \in 4 .. 3 + 2 * f.n
  <2>1. d - 1 \in 3 .. 2 + 2 * f.n /\ d > 0
    BY <1>1, <1>7
  <2>2. Hears(bus[s], s, d - 1, f) /\ Carries(visible, d - 1, f, buf)
    BY <2>1
  <2>3. /\ bus[s].pc = "rx_data" /\ bus[s].sub = (d - 1) - 3 /\ bus[s].n = f.n
        /\ bus[s].flag = f.flag /\ (bus[s].adr <=> s = f.addr)
    BY <2>1, <2>2, HearsData
  <2>4. visible # NoByte
    BY <2>1, <2>2, CarriesData
  <2>5. IrxData(s) /\ bus[s].sub = d - 4
    BY <2>1, <2>3, Dispatch
  <2>6. /\ bus'[s].sub = bus[s].sub + 1
        /\ bus'[s].pc = IF bus[s].sub + 1 >= 2 * bus[s].n THEN "rx_eof" ELSE "rx_data"
        /\ bus'[s].n = bus[s].n /\ bus'[s].flag = bus[s].flag
        /\ bus'[s].adr = bus[s].adr
        /\ Midway(s, TRUE)
    BY <2>4, <2>5, HearData
  <2>7. Hears(bus'[s], s, d, f)
    <3>1. CASE d = 3 + 2 * f.n
      <4>1. /\ bus'[s].pc = "rx_eof" /\ bus'[s].n = f.n /\ bus'[s].flag = f.flag
            /\ (bus'[s].adr <=> s = f.addr)
        BY <1>1, <2>3, <2>5, <2>6, <3>1
      <4>. QED
        BY <3>1, <4>1, HearsEof
    <3>2. CASE d \in 3 .. 2 + 2 * f.n
      <4>1. bus'[s].pc = "rx_data" /\ bus'[s].sub = d - 3
        BY <1>1, <2>3, <2>5, <2>6, <3>2
      <4>. QED
        BY <2>3, <2>6, <3>2, <4>1, HearsData
    <3>. QED
      BY <1>1, <1>7, <3>1, <3>2
  <2>8. cmdBuf'[s] = IF s = f.addr /\ f.flag = "CMD_REQ" /\ d - 4 < CmdBytes(s)
                     THEN [cmdBuf[s] EXCEPT ![d - 4] = visible] ELSE cmdBuf[s]
    BY <2>3, <2>4, <2>5, HearData
  <2>. QED
    BY <1>7, <2>1, <2>6, <2>7, <2>8
<1>. QED
  BY <1>1, <1>3, <1>4, <1>5, <1>6, <1>7

\* A device takes the end of the frame.
LEMMA HearingEof ==
    ASSUME TypeOK, NEW s \in Systems, Step(s), s # CS, NEW f \in Frames,
           s = f.addr => f.flag \in Requests,
           Hears(bus[s], s, 3 + 2 * f.n, f), visible = EOF
    PROVE  /\ Hears(bus'[s], s, Length(f), f)
           /\ pending' = pending /\ bus'[CS] = bus[CS] /\ cmdBuf' = cmdBuf
           /\ UNCHANGED <<frame, target, result, armed, msgPrm, wait>>
           /\ served' = (served \/ (s = target /\ s = f.addr /\ f.flag = armed))
<1>1. /\ f.n \in Nat /\ Length(f) = 4 + 2 * f.n /\ CS \in Systems
      /\ f.flag \in Flags /\ f.addr \in Nodes \cup {CS}
  BY FrameFacts DEF Systems
<1>2. bus[s].pc = "rx_eof" /\ bus[s].flag = f.flag /\ (bus[s].adr <=> s = f.addr)
  BY HearsEof
<1>3. visible # NoByte /\ Engaged(s)
  BY ConstantsAssumption DEF Engaged
<1>4. IrxEofForeign(s) \/ IrxEofRequest(s) \/ IrxEofResponse(s)
  BY <1>2, <1>3, Dispatch
<1>5. CASE s = f.addr
  <2>1. IrxEofRequest(s)
    BY <1>2, <1>4, <1>5 DEF IrxEofForeign, IrxEofResponse
  <2>2. /\ pending' = pending /\ bus'[CS] = bus[CS] /\ cmdBuf' = cmdBuf
        /\ UNCHANGED <<frame, target, result, armed, msgPrm, wait>>
        /\ served' = (served \/ (s = target /\ f.flag = armed))
        /\ bus'[s].pc = "tx_sof" /\ bus'[s].flag = Answer(f.flag)
    BY <1>2, <2>1, HearRequest
  <2>3. Hears(bus'[s], s, Length(f), f)
    BY <1>5, <2>2, HearsAll
  <2>. QED
    BY <1>5, <2>2, <2>3
<1>6. CASE s # f.addr
  <2>1. IrxEofForeign(s)
    BY <1>2, <1>4, <1>6 DEF IrxEofRequest, IrxEofResponse
  <2>2. Midway(s, TRUE) /\ bus'[s].pc = "rx_sof" /\ cmdBuf' = cmdBuf
    BY <2>1, HearForeign
  <2>3. bus'[CS] = bus[CS]
    BY <1>1, StepAlone
  <2>4. Hears(bus'[s], s, Length(f), f)
    BY <1>6, <2>2, HearsAll
  <2>5. served \in BOOLEAN
    BY DEF TypeOK, StateTypeOK
  <2>. QED
    BY <1>6, <2>2, <2>3, <2>4, <2>5 DEF Midway
<1>. QED
  BY <1>5, <1>6

\* The master takes the end of the answer.
LEMMA HearingAnswer ==
    ASSUME TypeOK, Step(CS), Engaged(CS), NEW f \in Frames, f.addr = CS, f.flag \notin Requests,
           Hears(bus[CS], CS, 3 + 2 * f.n, f), visible = EOF
    PROVE  /\ Hears(bus'[CS], CS, Length(f), f)
           /\ pending' = pending /\ cmdBuf' = cmdBuf /\ UNCHANGED <<target, armed, served>>
           /\ ~bus'[CS].busy /\ wait' = 0 /\ result' = "success"
           /\ \A x \in Nodes : msgPrm'[x] # msgPrm[x] => x = frame /\ f.flag = "DATA_RESP"
<1>1. /\ f.n \in Nat /\ Length(f) = 4 + 2 * f.n
  BY FrameFacts
<1>2. bus[CS].pc = "rx_eof" /\ bus[CS].flag = f.flag /\ bus[CS].adr
  BY HearsEof
<1>3. visible # NoByte /\ CS \in Systems
  BY ConstantsAssumption DEF Systems
<1>4. IrxEofResponse(CS)
  BY <1>2, <1>3, Dispatch DEF IrxEofForeign, IrxEofRequest
<1>5. bus'[CS].pc = "rx_sof" /\ ~bus'[CS].busy
  BY <1>4, HearResponse DEF IdleBus
<1>6. Hears(bus'[CS], CS, Length(f), f)
  BY <1>5, HearsAll
<1>. QED
  BY <1>2, <1>4, <1>5, <1>6, HearResponse

-------------------------------------------------------------------------------
(* Sending a frame *)

\* The frame of the talker is what its machine computes from the windows.
LEMMA FrameWindow ==
    ASSUME TypeOK, armed # "none", NEW s \in {CS} \cup (Devices \cap {target}),
           s = CS => frame = target, bus[s].flag = FrameOf(s).flag
    PROVE  /\ BlocksToSend(s) = FrameOf(s).n /\ Peer(s) = FrameOf(s).addr
           /\ FrameOf(s).flag = "CMD_REQ" => s = CS /\ CmdBytes(s) = 2 * FrameOf(s).n
<1>1. armed \in {"CMD_REQ", "DATA_REQ"} /\ CS \notin Devices
  BY ConstantsAssumption DEF TypeOK, StateTypeOK, Requests
<1>2. CASE s = CS
  <2>1. /\ FrameOf(s).addr = target /\ FrameOf(s).flag = armed
        /\ FrameOf(s).n = IF armed = "CMD_REQ" THEN CmdBlocks[target] ELSE 0
    BY <1>2 DEF FrameOf
  <2>2. WindowOf(s) = target /\ Peer(s) = target
    BY <1>2 DEF WindowOf, Peer
  <2>. QED
    BY <1>1, <1>2, <2>1, <2>2 DEF BlocksToSend, CmdBytes
<1>3. CASE s # CS
  <2>1. /\ FrameOf(s).addr = CS /\ FrameOf(s).flag = Answer(armed)
        /\ FrameOf(s).n = IF armed = "CMD_REQ" THEN 0 ELSE PrmBlocks[target]
    BY <1>3 DEF FrameOf
  <2>2. WindowOf(s) = target /\ Peer(s) = CS
    BY <1>3 DEF WindowOf, Peer
  <2>. QED
    BY <1>1, <1>3, <2>1, <2>2 DEF BlocksToSend, Answer
<1>. QED
  BY <1>2, <1>3

\* The talker writes the next byte of the frame.
LEMMA Telling ==
    ASSUME TypeOK, NEW s \in Systems, Step(s), Engaged(s), NEW f \in Frames, Roles(s, f),
           s = CS => frame = target, NEW d \in 0 .. 3 + 2 * f.n, s = CS => d > 0,
           Talks(bus[s], d, f)
    PROVE  /\ Talks(bus'[s], d + 1, f)
           /\ Sending(s)
           /\ Carries(pending', d, f, cmdBuf[CS])
<1>1. /\ f.n \in Nat /\ f.n \in BlockCounts /\ Length(f) = 4 + 2 * f.n
      /\ f.flag \in Flags /\ f.addr \in Nodes \cup {CS}
  BY FrameFacts
<1>2. bus[s].flag = f.flag =>
         /\ BlocksToSend(s) = f.n /\ Peer(s) = f.addr
         /\ f.flag = "CMD_REQ" => s = CS /\ CmdBytes(s) = 2 * f.n
  BY FrameWindow DEF Roles
<1>3. CASE d = 0
  <2>1. bus[s].pc = "tx_sof" /\ bus[s].flag = f.flag /\ s # CS
    BY <1>3, TalksSof
  <2>2. /\ Sending(s) /\ pending' = SOF
        /\ bus'[s].pc = "tx_header" /\ bus'[s].sub = 0 /\ bus'[s].flag = f.flag
    BY <2>1, Dispatch, TalkSof
  <2>3. Talks(bus'[s], 1, f)
    BY <2>2, TalksHeaderFirst
  <2>4. Carries(pending', 0, f, cmdBuf[CS])
    BY <2>2, CarriesHeader
  <2>. QED
    BY <1>3, <2>2, <2>3, <2>4
<1>4. CASE d = 1
  <2>1. bus[s].pc = "tx_header" /\ bus[s].sub = 0 /\ bus[s].flag = f.flag
    BY <1>4, TalksHeaderFirst
  <2>2. ItxHeaderFirst(s)
    BY <2>1, Dispatch
  <2>3. /\ Sending(s) /\ pending' = [addr |-> Peer(s), flag |-> bus[s].flag]
        /\ bus'[s].pc = "tx_header" /\ bus'[s].sub = 1 /\ bus'[s].flag = f.flag
        /\ bus'[s].n = f.n
    BY <1>2, <2>1, <2>2, TalkHeaderFirst
  <2>4. pending' = Header(f)
    BY <1>2, <2>1, <2>3 DEF Header
  <2>5. Talks(bus'[s], 2, f)
    BY <2>3, TalksHeaderSecond
  <2>6. Carries(pending', 1, f, cmdBuf[CS])
    BY <2>4, CarriesHeader
  <2>. QED
    BY <1>4, <2>3, <2>5, <2>6
<1>5. CASE d = 2
  <2>1. bus[s].pc = "tx_header" /\ bus[s].sub = 1 /\ bus[s].flag = f.flag /\ bus[s].n = f.n
    BY <1>5, TalksHeaderSecond
  <2>2. ItxHeaderSecond(s)
    BY <2>1, Dispatch
  <2>3. /\ Sending(s) /\ pending' = [n |-> bus[s].n]
        /\ bus'[s].pc = IF bus[s].n > 0 THEN "tx_data" ELSE "tx_eof"
        /\ bus'[s].sub = 0 /\ bus'[s].flag = bus[s].flag /\ bus'[s].n = bus[s].n
    BY <2>2, TalkHeaderSecond
  <2>4. pending' = HeaderCount(f)
    BY <2>1, <2>3 DEF HeaderCount
  <2>5. Talks(bus'[s], 3, f)
    <3>1. CASE f.n = 0
      <4>1. bus'[s].pc = "tx_eof" /\ bus'[s].flag = f.flag /\ bus'[s].n = f.n
        BY <2>1, <2>3, <3>1
      <4>. QED
        BY <3>1, <4>1, TalksEof
    <3>2. CASE 3 \in 3 .. 2 + 2 * f.n
      <4>1. /\ bus'[s].pc = "tx_data" /\ bus'[s].flag = f.flag /\ bus'[s].n = f.n
            /\ bus'[s].sub = 3 - 3
        BY <1>1, <2>1, <2>3, <3>2
      <4>. QED
        BY <3>2, <4>1, TalksData
    <3>. QED
      BY <1>1, <3>1, <3>2
  <2>6. Carries(pending', 2, f, cmdBuf[CS])
    BY <2>4, CarriesHeader
  <2>. QED
    BY <1>5, <2>3, <2>5, <2>6
<1>6. CASE d \in 3 .. 2 + 2 * f.n
  <2>1. bus[s].pc = "tx_data" /\ bus[s].sub = d - 3 /\ bus[s].n = f.n /\ bus[s].flag = f.flag
    BY <1>6, TalksData
  <2>2. ItxData(s)
    BY <2>1, Dispatch
  <2>3. /\ Sending(s) /\ pending' = PayloadByte(s, bus[s].sub) /\ pending' # NoByte
        /\ bus'[s].pc = IF bus[s].sub + 1 >= 2 * bus[s].n THEN "tx_eof" ELSE "tx_data"
        /\ bus'[s].sub = bus[s].sub + 1 /\ bus'[s].flag = bus[s].flag
        /\ bus'[s].n = bus[s].n
    BY <2>2, TalkData
  <2>4. f.flag = "CMD_REQ" => pending' = cmdBuf[CS][d - 3]
    <3>1. HAVE f.flag = "CMD_REQ"
    <3>2. s = CS /\ bus[s].sub < CmdBytes(s)
      BY <1>1, <1>2, <1>6, <2>1, <3>1
    <3>. QED
      BY <2>1, <2>3, <3>1, <3>2 DEF PayloadByte
  <2>5. Talks(bus'[s], d + 1, f)
    <3>1. CASE d + 1 = 3 + 2 * f.n
      <4>1. bus'[s].pc = "tx_eof" /\ bus'[s].flag = f.flag /\ bus'[s].n = f.n
        BY <1>1, <2>1, <2>3, <3>1
      <4>. QED
        BY <3>1, <4>1, TalksEof
    <3>2. CASE d + 1 \in 3 .. 2 + 2 * f.n
      <4>1. /\ bus'[s].pc = "tx_data" /\ bus'[s].flag = f.flag /\ bus'[s].n = f.n
            /\ bus'[s].sub = (d + 1) - 3
        BY <1>1, <2>1, <2>3, <3>2
      <4>. QED
        BY <3>2, <4>1, TalksData
    <3>. QED
      BY <1>1, <1>6, <3>1, <3>2
  <2>6. Carries(pending', d, f, cmdBuf[CS])
    BY <1>6, <2>3, <2>4, CarriesData
  <2>. QED
    BY <2>3, <2>5, <2>6
<1>7. CASE d = 3 + 2 * f.n
  <2>1. bus[s].pc = "tx_eof" /\ bus[s].flag = f.flag
    BY <1>7, TalksEof
  <2>2. s = CS => bus[s].flag \in Requests
    BY <2>1 DEF Roles, FrameOf, TypeOK, StateTypeOK
  <2>3. Sending(s) /\ pending' = EOF /\ bus'[s].pc = "rx_sof"
    BY <2>1, <2>2, Dispatch, TalkEof
  <2>4. Talks(bus'[s], d + 1, f)
    <3>1. d + 1 = Length(f)
      BY <1>1, <1>7
    <3>. QED
      BY <2>3, <3>1, TalksAll
  <2>5. Carries(pending', d, f, cmdBuf[CS])
    BY <1>7, <2>3, CarriesEof
  <2>. QED
    BY <2>3, <2>4, <2>5
<1>. QED
  BY <1>1, <1>3, <1>4, <1>5, <1>6, <1>7

\* The talker of a whole frame listens again, and hears its last byte.
LEMMA Told ==
    ASSUME TypeOK, NEW s \in Systems, Step(s), Engaged(s), NEW f \in Frames,
           Talks(bus[s], Length(f), f), visible = EOF
    PROVE  Talks(bus'[s], Length(f), f) /\ Midway(s, FALSE) /\ cmdBuf' = cmdBuf
<1>1. bus[s].pc = "rx_sof" /\ visible # SOF
  BY TalksAll, ConstantsAssumption
<1>2. bus'[s].pc = "rx_sof" /\ Midway(s, FALSE) /\ cmdBuf' = cmdBuf
  BY <1>1, Dispatch, HearSof
<1>. QED
  BY <1>2, TalksAll

-------------------------------------------------------------------------------
(* A step inside a frame *)

\* A step moves one system, and leaves the places of the others.
LEMMA MachinesStep ==
    ASSUME NEW t \in Systems, NEW d, NEW f, Machines(t, d, f),
           NEW s \in Systems, s \notin stepped, stepped' = stepped \cup {s},
           \A x \in Systems \ {s} : bus'[x] = bus[x],
           s = t => Talks(bus'[t], IF d < Length(f) THEN d + 1 ELSE d, f),
           s # t => Hears(bus'[s], s, d, f)
    PROVE  Machines(t, d, f)'
<1>1. Talks(bus'[t], Written(t, d, f)', f)
  <2>1. CASE s = t
    <3>1. Written(t, d, f)' = IF d < Length(f) THEN d + 1 ELSE d
      BY <2>1 DEF Written
    <3>. QED
      BY <2>1, <3>1
  <2>2. CASE s # t
    <3>1. bus'[t] = bus[t] /\ (t \in stepped' <=> t \in stepped)
      BY <2>2
    <3>2. Written(t, d, f)' = Written(t, d, f)
      BY <3>1 DEF Written
    <3>. QED
      BY <3>1, <3>2 DEF Machines
  <2>. QED
    BY <2>1, <2>2
<1>2. ASSUME NEW l \in Systems \ {t}
      PROVE  Hears(bus'[l], l, Heard(l, d)', f)
  <2>1. CASE l = s
    <3>1. Heard(l, d)' = d
      BY <2>1 DEF Heard
    <3>. QED
      BY <1>2, <2>1, <3>1
  <2>2. CASE l # s
    <3>1. bus'[l] = bus[l] /\ (l \in stepped' <=> l \in stepped)
      BY <1>2, <2>2
    <3>2. Heard(l, d)' = Heard(l, d)
      BY <3>1 DEF Heard
    <3>. QED
      BY <1>2, <3>1, <3>2 DEF Machines
  <2>. QED
    BY <2>1, <2>2
<1>. QED
  BY <1>1, <1>2 DEF Machines

\* In a frame no system is at rest, and no step ends the exchange but the one
\* that takes the answer.
LEMMA Underway ==
    ASSUME TypeOK, NEW t \in Systems, NEW f \in Frames, NEW d \in 0 .. Length(f),
           InFrame(t, d, f), NEW s \in Systems, Step(s)
    PROVE  /\ Engaged(s) /\ s \notin stepped /\ stepped' = stepped \cup {s} /\ visible' = visible
           /\ \A x \in Systems \ {s} : bus'[x] = bus[x] /\ cmdBuf'[x] = cmdBuf[x]
           /\ t # f.addr /\ armed \in Requests
           /\ t = CS => f.addr = target /\ f.flag = armed
           /\ t # CS => f.addr = CS /\ f.flag \notin Requests /\ t = target /\ t \in Devices
<1>1. /\ s \notin stepped /\ stepped' = stepped \cup {s} /\ visible' = visible
      /\ \A x \in Systems \ {s} : bus'[x] = bus[x] /\ cmdBuf'[x] = cmdBuf[x]
  BY StepAlone
<1>2. /\ t # f.addr /\ armed \in Requests
      /\ t = CS => f.addr = target /\ f.flag = armed
      /\ t # CS => f.addr = CS /\ f.flag \notin Requests /\ t = target /\ t \in Devices
  BY FrameType, ConstantsAssumption DEF InFrame, Roles, TypeOK, StateTypeOK
<1>3. Engaged(s)
  <2>1. SUFFICES ASSUME s = CS PROVE bus[CS].busy /\ ~Expired(CS)
    BY DEF Engaged
  <2>2. ~Reported(t, d, f)
    BY <1>1, <2>1 DEF Reported
  <2>3. wait \in {0, 1, 2}
    BY DEF InFrame, Master, Silence
  <2>4. ~(wait >= Timeout)
    BY <2>3, TimeoutAssumption, ConstantsAssumption
  <2>. QED
    BY <2>2, <2>4 DEF InFrame, Master, Expired
<1>. QED
  BY <1>1, <1>2, <1>3

\* Where a step may put payload: commands into the target, parameters into the
\* window of the target that has accepted the request.
Delivers(t) ==
    /\ UNCHANGED <<armed, target>>
    /\ \A x \in Systems : cmdBuf'[x] # cmdBuf[x] => t = CS /\ armed = "CMD_REQ" /\ x = target
    /\ \A x \in Nodes : msgPrm'[x] # msgPrm[x] => armed = "DATA_REQ" /\ x = target /\ served

\* The step of a talker that has bytes left.
LEMMA TalkerStep ==
    ASSUME TypeOK, NEW t \in Systems, NEW f \in Frames, NEW d \in 0 .. 3 + 2 * f.n,
           InFrame(t, d, f), Step(t)
    PROVE  /\ InFrame(t, d, f)'
           /\ Delivers(t)
<1>1. /\ f.n \in Nat /\ Length(f) = 4 + 2 * f.n /\ d \in 0 .. Length(f) /\ d < Length(f)
      /\ d \in Nat
  BY FrameFacts
<1>2. /\ Engaged(t) /\ t \notin stepped /\ stepped' = stepped \cup {t} /\ visible' = visible
      /\ \A x \in Systems \ {t} : bus'[x] = bus[x]
      /\ t # f.addr
  BY <1>1, Underway
<1>3. Talks(bus[t], d, f) /\ (t = CS => d > 0)
  BY <1>2 DEF InFrame, Machines, Master, Written
<1>4. ~Reported(t, d, f) /\ ~Reported(t, d, f)'
  BY <1>1 DEF Reported, Length
<1>5. Roles(t, f) /\ frame = target
  BY <1>4 DEF InFrame, Master
<1>6. Talks(bus'[t], d + 1, f) /\ Sending(t) /\ Carries(pending', d, f, cmdBuf[CS])
  BY <1>1, <1>2, <1>3, <1>5, Telling
<1>7. Roles(t, f)'
  BY <1>5, <1>6 DEF Roles, FrameOf, Sending
<1>8. Machines(t, d, f)'
  BY <1>1, <1>2, <1>6, MachinesStep DEF InFrame
<1>9. Line(t, d, f)'
  BY <1>1, <1>2, <1>6 DEF InFrame, Line, Sending
<1>10. Master(t, d, f)'
  <2>1. wait' = Silence(t, d, f)'
    BY <1>1, <1>2, <1>3, <1>6 DEF InFrame, Master, Silence, Sending
  <2>. QED
    BY <1>2, <1>4, <1>6, <2>1 DEF InFrame, Master, Sending
<1>11. Accepted(t, d, f)'
  <2>1. target' = target /\ armed' = armed /\ served' = served /\ cmdBuf' = cmdBuf
    BY <1>6 DEF Sending
  <2>2. t = CS => target # t /\ (target \in stepped' <=> target \in stepped)
    BY <1>2, <1>5, FrameType DEF Roles
  <2>3. served' <=> (t = CS => d = Length(f) /\ target' \in Devices \cap stepped')
    BY <1>1, <2>1 DEF InFrame, Accepted
  <2>4. t = CS /\ armed' = "CMD_REQ" /\ target' \in Devices =>
          \A i \in 0 .. 2 * f.n - 1 :
              i + 3 < Heard(target, d)' => cmdBuf'[target'][i] = cmdBuf'[CS][i]
    BY <2>1, <2>2 DEF InFrame, Accepted, Heard
  <2>. QED
    BY <2>3, <2>4 DEF Accepted
<1>12. Delivers(t)
  BY <1>6 DEF Delivers, Sending
<1>. QED
  BY <1>7, <1>8, <1>9, <1>10, <1>11, <1>12 DEF InFrame

\* The step of a talker that has written the whole frame.
LEMMA TalkerWaits ==
    ASSUME TypeOK, NEW t \in Systems, NEW f \in Frames, NEW d, d = Length(f),
           InFrame(t, d, f), Step(t)
    PROVE  InFrame(t, d, f)' /\ Delivers(t)
<1>1. /\ f.n \in Nat /\ d = 4 + 2 * f.n /\ d \in 0 .. Length(f) /\ d \in Nat /\ d > 3
  BY FrameFacts
<1>2. /\ Engaged(t) /\ t \notin stepped /\ stepped' = stepped \cup {t} /\ visible' = visible
      /\ \A x \in Systems \ {t} : bus'[x] = bus[x]
      /\ t # f.addr /\ (t = CS => f.addr = target)
  BY <1>1, Underway
<1>3. Talks(bus[t], d, f)
  BY <1>2 DEF InFrame, Machines, Written
<1>4. visible = EOF
  <2>. DEFINE k == d - 1
  <2>1. k = 3 + 2 * f.n
    BY <1>1
  <2>2. d > 0 => Carries(visible, d - 1, f, cmdBuf[CS])
    BY DEF InFrame, Line
  <2>3. Carries(visible, k, f, cmdBuf[CS])
    BY <1>1, <2>2
  <2>. HIDE DEF k
  <2>4. Carries(visible, k, f, cmdBuf[CS]) <=> visible = EOF
    BY <2>1, CarriesEof
  <2>. QED
    BY <2>3, <2>4
<1>5. Talks(bus'[t], d, f) /\ Midway(t, FALSE) /\ cmdBuf' = cmdBuf
  BY <1>2, <1>3, <1>4, Told
<1>6. UNCHANGED <<armed, target, served, result, frame, msgPrm, pending>>
      /\ bus'[CS].busy = bus[CS].busy
  BY <1>5 DEF Midway
<1>7. Roles(t, f)'
  BY <1>6 DEF InFrame, Roles, FrameOf
<1>8. Machines(t, d, f)'
  <2>1. ~(d < Length(f))
    BY <1>1
  <2>2. Talks(bus'[t], IF d < Length(f) THEN d + 1 ELSE d, f)
    BY <1>5, <2>1
  <2>. QED
    BY <1>2, <2>2, MachinesStep DEF InFrame
<1>9. Line(t, d, f)'
  BY <1>1, <1>2, <1>5, <1>6 DEF InFrame, Line
<1>10. Master(t, d, f)'
  <2>1. Reported(t, d, f)' <=> Reported(t, d, f)
    BY <1>2 DEF Reported
  <2>2. wait' = Silence(t, d, f)'
    <3>1. CASE t = CS
      <4>1. wait = 0 /\ wait' = wait + 1
        BY <1>2, <1>5, <3>1 DEF InFrame, Master, Silence, Midway
      <4>. QED
        BY <1>2, <3>1, <4>1 DEF Silence
    <3>2. CASE t # CS
      <4>1. wait = 0 /\ wait' = wait
        <5>1. d # 0 /\ d # 1
          BY <1>1
        <5>. QED
          BY <1>5, <3>2, <5>1 DEF InFrame, Master, Silence, Midway
      <4>. QED
        BY <1>1, <3>2, <4>1 DEF Silence
    <3>. QED
      BY <3>1, <3>2
  <2>. QED
    BY <1>2, <1>6, <2>1, <2>2 DEF InFrame, Master
<1>11. Accepted(t, d, f)'
  <2>1. t = CS => target # t /\ (target \in stepped' <=> target \in stepped)
    BY <1>2
  <2>2. served' <=> (t = CS => d = Length(f) /\ target' \in Devices \cap stepped')
    BY <1>6, <2>1 DEF InFrame, Accepted
  <2>3. t = CS /\ armed' = "CMD_REQ" /\ target' \in Devices =>
          \A i \in 0 .. 2 * f.n - 1 :
              i + 3 < Heard(target, d)' => cmdBuf'[target'][i] = cmdBuf'[CS][i]
    BY <1>5, <1>6, <2>1 DEF InFrame, Accepted, Heard
  <2>. QED
    BY <2>2, <2>3 DEF Accepted
<1>12. Delivers(t)
  BY <1>5, <1>6 DEF Delivers
<1>. QED
  BY <1>7, <1>8, <1>9, <1>10, <1>11, <1>12 DEF InFrame

\* The step of a listener before the end of the frame.
LEMMA ListenerStep ==
    ASSUME TypeOK, NEW t \in Systems, NEW f \in Frames, NEW d \in 0 .. 3 + 2 * f.n,
           InFrame(t, d, f), NEW s \in Systems \ {t}, Step(s)
    PROVE  InFrame(t, d, f)' /\ Delivers(t)
<1>1. /\ f.n \in Nat /\ Length(f) = 4 + 2 * f.n /\ d \in 0 .. Length(f) /\ d < Length(f)
      /\ d \in Nat
  BY FrameFacts
<1>2. /\ Engaged(s) /\ s \notin stepped /\ stepped' = stepped \cup {s} /\ visible' = visible
      /\ \A x \in Systems \ {s} : bus'[x] = bus[x] /\ cmdBuf'[x] = cmdBuf[x]
      /\ armed \in Requests
      /\ t = CS => f.addr = target /\ f.flag = armed
      /\ t # CS => f.addr = CS /\ f.flag \notin Requests /\ t = target /\ t \in Devices
  BY <1>1, Underway
<1>3. Hears(bus[s], s, IF d > 0 THEN d - 1 ELSE 0, f)
  BY <1>2 DEF InFrame, Machines, Heard
<1>4. (d = 0 => visible = NoByte) /\ (d > 0 => Carries(visible, d - 1, f, cmdBuf[CS]))
  BY DEF InFrame, Line
<1>5. /\ Hears(bus'[s], s, d, f)
      /\ Midway(s, d > 0)
      /\ cmdBuf'[s] = IF /\ d \in 4 .. 3 + 2 * f.n
                         /\ s = f.addr /\ f.flag = "CMD_REQ" /\ d - 4 < CmdBytes(s)
                      THEN [cmdBuf[s] EXCEPT ![d - 4] = visible] ELSE cmdBuf[s]
  BY <1>2, <1>3, <1>4, Hearing
<1>6. UNCHANGED <<armed, target, served, result, frame, msgPrm, pending>>
      /\ bus'[CS].busy = bus[CS].busy
  BY <1>5 DEF Midway
<1>7. cmdBuf'[CS] = cmdBuf[CS] /\ CS \in Systems
  BY <1>2, <1>5 DEF Requests, Systems
<1>8. Roles(t, f)'
  BY <1>6 DEF InFrame, Roles, FrameOf
<1>9. Machines(t, d, f)'
  BY <1>2, <1>5, MachinesStep DEF InFrame
<1>10. Line(t, d, f)'
  <2>1. t \in stepped' <=> t \in stepped
    BY <1>2
  <2>. QED
    BY <1>2, <1>6, <1>7, <2>1 DEF InFrame, Line
<1>11. Master(t, d, f)'
  <2>1. ~Reported(t, d, f) /\ ~Reported(t, d, f)'
    BY <1>1 DEF Reported, Length
  <2>2. wait' = Silence(t, d, f)'
    <3>1. CASE s = CS
      <4>1. d = 0 => wait = 1 /\ wait' = wait + 1
        BY <1>2, <1>5, <3>1 DEF InFrame, Master, Silence, Midway
      <4>2. d > 0 => wait' = 0
        BY <1>5, <3>1 DEF Midway
      <4>. QED
        BY <1>1, <1>2, <3>1, <4>1, <4>2 DEF Silence
    <3>2. CASE s # CS
      BY <1>1, <1>2, <1>5, <3>2 DEF InFrame, Master, Silence, Midway
    <3>. QED
      BY <3>1, <3>2
  <2>. QED
    BY <1>2, <1>6, <2>1, <2>2 DEF InFrame, Master
<1>12. Accepted(t, d, f)'
  <2>1. served' <=> (t = CS => d = Length(f) /\ target' \in Devices \cap stepped')
    BY <1>1, <1>6 DEF InFrame, Accepted
  <2>2. ASSUME t = CS, armed = "CMD_REQ", target \in Devices, NEW i \in 0 .. 2 * f.n - 1,
               i + 3 < Heard(target, d)'
        PROVE  cmdBuf'[target][i] = cmdBuf[CS][i]
    <3>1. CASE s # target
      <4>1. /\ target' = target /\ (target \in stepped' <=> target \in stepped)
            /\ cmdBuf'[target] = cmdBuf[target]
        BY <1>2, <1>6, <2>2, <3>1 DEF Systems
      <4>2. Heard(target, d)' = Heard(target, d)
        BY <4>1 DEF Heard
      <4>. QED
        BY <2>2, <4>1, <4>2 DEF InFrame, Accepted
    <3>2. CASE s = target
      <4>1. d \in 4 .. 3 + 2 * f.n /\ i + 3 < d
        BY <1>1, <1>2, <1>6, <2>2, <3>2 DEF Heard
      <4>2. d - 4 \in 0 .. 2 * f.n - 1 /\ d - 1 \in 3 .. 2 + 2 * f.n
        BY <1>1, <4>1
      <4>3. s = f.addr /\ f.flag = "CMD_REQ" /\ d - 4 < CmdBytes(s)
        <5>1. f.n = CmdBlocks[target] /\ s # CS
          BY <2>2, <3>2, ConstantsAssumption DEF InFrame, Roles, FrameOf
        <5>. QED
          BY <1>1, <1>2, <2>2, <3>2, <4>2, <5>1 DEF CmdBytes, WindowOf
      <4>4. cmdBuf'[s] = [cmdBuf[s] EXCEPT ![d - 4] = visible]
        BY <1>5, <4>1, <4>3
      <4>5. visible = cmdBuf[CS][d - 4]
        <5>1. Carries(visible, d - 1, f, cmdBuf[CS])
          BY <1>4, <4>1
        <5>. QED
          BY <4>2, <4>3, <5>1, CarriesData
      <4>6. cmdBuf[s] \in [ByteIdx -> Bytes] /\ i \in ByteIdx
        <5>1. f.n <= MaxBlocks
          BY FrameFacts, ConstantsAssumption DEF BlockCounts
        <5>. QED
          BY <1>1, <5>1, ConstantsAssumption DEF TypeOK, MemTypeOK, Payloads, ByteIdx
      <4>7. CASE i = d - 4
        BY <3>2, <4>4, <4>5, <4>6, <4>7
      <4>8. CASE i # d - 4
        <5>1. i + 3 < Heard(target, d)
          BY <1>2, <2>2, <3>2, <4>1, <4>8 DEF Heard
        <5>2. cmdBuf[target][i] = cmdBuf[CS][i]
          BY <2>2, <5>1 DEF InFrame, Accepted
        <5>. QED
          BY <3>2, <4>4, <4>6, <4>8, <5>2
      <4>. QED
        BY <4>7, <4>8
    <3>. QED
      BY <3>1, <3>2
  <2>. QED
    BY <1>6, <1>7, <2>1, <2>2 DEF Accepted
<1>13. Delivers(t)
  BY <1>2, <1>5, <1>6 DEF Delivers, Requests
<1>. QED
  BY <1>8, <1>9, <1>10, <1>11, <1>12, <1>13 DEF InFrame

\* A device takes the end of the frame.
LEMMA ListenerEof ==
    ASSUME TypeOK, NEW t \in Systems, NEW f \in Frames, NEW d, d = Length(f),
           InFrame(t, d, f), NEW s \in Systems \ {t, CS}, Step(s)
    PROVE  InFrame(t, d, f)' /\ Delivers(t)
<1>1. /\ f.n \in Nat /\ d = 4 + 2 * f.n /\ d \in 0 .. Length(f) /\ d \in Nat /\ d > 3
  BY FrameFacts
<1>2. /\ s \notin stepped /\ stepped' = stepped \cup {s} /\ visible' = visible
      /\ \A x \in Systems \ {s} : bus'[x] = bus[x] /\ cmdBuf'[x] = cmdBuf[x]
      /\ armed \in Requests /\ s \in Devices
      /\ t = CS => f.addr = target /\ f.flag = armed
      /\ t # CS => f.addr = CS /\ f.flag \notin Requests /\ t = target /\ t \in Devices
  BY <1>1, Underway DEF Systems
<1>3. visible = EOF /\ Hears(bus[s], s, 3 + 2 * f.n, f)
  <2>. DEFINE k == d - 1
  <2>1. k = 3 + 2 * f.n /\ d > 0
    BY <1>1
  <2>2. Carries(visible, k, f, cmdBuf[CS]) /\ Hears(bus[s], s, k, f)
    BY <1>2, <2>1 DEF InFrame, Line, Machines, Heard
  <2>. HIDE DEF k
  <2>3. visible = EOF
    BY <2>1, <2>2, CarriesEof
  <2>. QED
    BY <2>1, <2>2, <2>3
<1>4. /\ Hears(bus'[s], s, d, f)
      /\ pending' = pending /\ bus'[CS] = bus[CS] /\ cmdBuf' = cmdBuf
      /\ UNCHANGED <<frame, target, result, armed, msgPrm, wait>>
      /\ served' = (served \/ (s = target /\ s = f.addr /\ f.flag = armed))
  BY <1>2, <1>3, HearingEof
<1>5. Roles(t, f)'
  BY <1>4 DEF InFrame, Roles, FrameOf
<1>6. Machines(t, d, f)'
  BY <1>2, <1>4, MachinesStep DEF InFrame
<1>7. Line(t, d, f)'
  BY <1>1, <1>2, <1>4 DEF InFrame, Line
<1>8. Master(t, d, f)'
  <2>1. CS \in stepped' <=> CS \in stepped
    BY <1>2
  <2>2. Reported(t, d, f)' <=> Reported(t, d, f)
    BY <2>1 DEF Reported
  <2>3. Silence(t, d, f)' = Silence(t, d, f)
    BY <2>1 DEF Silence
  <2>. QED
    BY <1>4, <2>1, <2>2, <2>3 DEF InFrame, Master
<1>9. Accepted(t, d, f)'
  <2>1. served' <=> (t = CS => d = Length(f) /\ target' \in Devices \cap stepped')
    <3>1. CASE t = CS
      <4>1. CASE s = target
        BY <1>2, <1>4, <3>1, <4>1
      <4>2. CASE s # target
        <5>1. target \in stepped' <=> target \in stepped
          BY <1>2, <4>2
        <5>2. served' <=> served
          BY <1>4, <4>2 DEF TypeOK, StateTypeOK
        <5>. QED
          BY <1>4, <5>1, <5>2 DEF InFrame, Accepted
      <4>. QED
        BY <4>1, <4>2
    <3>2. CASE t # CS
      BY <1>4, <3>2 DEF InFrame, Accepted
    <3>. QED
      BY <3>1, <3>2
  <2>2. ASSUME t = CS, armed = "CMD_REQ", target \in Devices, NEW i \in 0 .. 2 * f.n - 1,
               i + 3 < Heard(target, d)'
        PROVE  cmdBuf[target][i] = cmdBuf[CS][i]
    <3>1. CASE s # target
      <4>1. target \in stepped' <=> target \in stepped
        BY <1>2, <3>1
      <4>2. Heard(target, d)' = Heard(target, d)
        BY <1>4, <4>1 DEF Heard
      <4>. QED
        BY <2>2, <4>2 DEF InFrame, Accepted
    <3>2. CASE s = target
      <4>1. Heard(target, d) = d - 1
        BY <1>1, <1>2, <3>2 DEF Heard
      <4>2. i + 3 < d - 1
        BY <1>1
      <4>. QED
        BY <2>2, <4>1, <4>2 DEF InFrame, Accepted
    <3>. QED
      BY <3>1, <3>2
  <2>. QED
    BY <1>4, <2>1, <2>2 DEF Accepted
<1>10. Delivers(t)
  BY <1>4 DEF Delivers
<1>. QED
  BY <1>5, <1>6, <1>7, <1>8, <1>9, <1>10 DEF InFrame

\* The master takes the end of the answer.
LEMMA AnswerStep ==
    ASSUME TypeOK, NEW t \in Systems \ {CS}, NEW f \in Frames, NEW d, d = Length(f),
           InFrame(t, d, f), Step(CS)
    PROVE  InFrame(t, d, f)' /\ Delivers(t)
<1>1. /\ f.n \in Nat /\ d = 4 + 2 * f.n /\ d \in 0 .. Length(f) /\ d \in Nat /\ d > 3
      /\ CS \in Systems
  BY FrameFacts DEF Systems
<1>2. /\ Engaged(CS) /\ CS \notin stepped /\ stepped' = stepped \cup {CS} /\ visible' = visible
      /\ \A x \in Systems \ {CS} : bus'[x] = bus[x]
      /\ armed \in Requests
      /\ f.addr = CS /\ f.flag \notin Requests /\ t = target /\ t \in Devices
  BY <1>1, Underway
<1>3. visible = EOF /\ Hears(bus[CS], CS, 3 + 2 * f.n, f)
  <2>. DEFINE k == d - 1
  <2>1. k = 3 + 2 * f.n /\ d > 0
    BY <1>1
  <2>2. Carries(visible, k, f, cmdBuf[CS]) /\ Hears(bus[CS], CS, k, f)
    BY <1>1, <1>2, <2>1 DEF InFrame, Line, Machines, Heard
  <2>. HIDE DEF k
  <2>3. visible = EOF
    BY <2>1, <2>2, CarriesEof
  <2>. QED
    BY <2>1, <2>2, <2>3
<1>4. /\ Hears(bus'[CS], CS, d, f)
      /\ pending' = pending /\ cmdBuf' = cmdBuf /\ UNCHANGED <<target, armed, served>>
      /\ ~bus'[CS].busy /\ wait' = 0 /\ result' = "success"
      /\ \A x \in Nodes : msgPrm'[x] # msgPrm[x] => x = frame /\ f.flag = "DATA_RESP"
  BY <1>2, <1>3, HearingAnswer
<1>5. Roles(t, f)'
  BY <1>4 DEF InFrame, Roles, FrameOf
<1>6. Machines(t, d, f)'
  BY <1>1, <1>2, <1>4, MachinesStep DEF InFrame
<1>7. Line(t, d, f)'
  BY <1>1, <1>2, <1>4 DEF InFrame, Line
<1>8. Master(t, d, f)'
  <2>1. Reported(t, d, f)'
    BY <1>2 DEF Reported
  <2>2. Silence(t, d, f)' = 0
    BY <1>1, <1>2 DEF Silence
  <2>. QED
    BY <1>4, <2>1, <2>2 DEF Master
<1>9. Accepted(t, d, f)'
  BY <1>4 DEF InFrame, Accepted
<1>10. Delivers(t)
  <2>1. frame = target /\ served
    BY <1>2 DEF InFrame, Master, Reported, Accepted
  <2>2. f.flag = "DATA_RESP" => armed = "DATA_REQ"
    BY <1>2, <1>1 DEF InFrame, Roles, FrameOf, Answer, Requests
  <2>. QED
    BY <1>4, <2>1, <2>2 DEF Delivers
<1>. QED
  BY <1>5, <1>6, <1>7, <1>8, <1>9, <1>10 DEF InFrame

-------------------------------------------------------------------------------
(* The tick inside a frame *)

\* Every step of a system inside a frame.
LEMMA StepInFrame ==
    ASSUME TypeOK, NEW t \in Systems, NEW f \in Frames, NEW d \in 0 .. Length(f),
           InFrame(t, d, f), NEW s \in Systems, Step(s)
    PROVE  InFrame(t, d, f)' /\ Delivers(t)
<1>1. f.n \in Nat /\ Length(f) = 4 + 2 * f.n
  BY FrameFacts
<1>2. d \in 0 .. 3 + 2 * f.n \/ d = Length(f)
  BY <1>1
<1>3. CASE d \in 0 .. 3 + 2 * f.n
  BY <1>3, TalkerStep, ListenerStep
<1>4. CASE d = Length(f)
  <2>1. CASE s = t
    BY <1>4, <2>1, TalkerWaits
  <2>2. CASE s # t /\ s = CS
    <3>1. t \in Systems \ {CS} /\ Step(CS)
      BY <2>2
    <3>. QED
      BY <1>4, <3>1, AnswerStep
  <2>3. CASE s # t /\ s # CS
    <3>1. s \in Systems \ {t, CS}
      BY <2>3
    <3>. QED
      BY <1>4, <3>1, ListenerEof
  <2>. QED
    BY <2>1, <2>2, <2>3
<1>. QED
  BY <1>2, <1>3, <1>4

\* The tick moves every system of the frame one byte on.
LEMMA CarryByte ==
    ASSUME TypeOK, NEW t \in Systems, NEW f \in Frames, NEW d \in 0 .. 3 + 2 * f.n,
           InFrame(t, d, f), Carry
    PROVE  d + 1 \in 0 .. Length(f) /\ InFrame(t, d + 1, f)'
<1>1. /\ f.n \in Nat /\ Length(f) = 4 + 2 * f.n /\ d < Length(f) /\ d \in Nat
      /\ d + 1 \in 0 .. Length(f)
  BY FrameFacts
<1>2. /\ stepped = Systems /\ stepped' = {} /\ visible' = pending /\ pending' = NoByte
      /\ UNCHANGED <<bus, wait, frame, target, result, armed, served, cmdBuf>>
      /\ CS \in Systems
  BY DEF Carry, BusTick, stateVars, memVars, Systems
<1>3. Roles(t, f)'
  BY <1>2 DEF InFrame, Roles, FrameOf
<1>4. Machines(t, d + 1, f)'
  <2>1. Written(t, d, f) = d + 1 /\ Written(t, d + 1, f)' = d + 1
    BY <1>1, <1>2 DEF Written
  <2>2. \A l \in Systems \ {t} : Heard(l, d) = d /\ Heard(l, d + 1)' = d
    BY <1>1, <1>2 DEF Heard
  <2>3. Talks(bus'[t], Written(t, d + 1, f)', f)
    BY <1>2, <2>1 DEF InFrame, Machines
  <2>4. ASSUME NEW l \in Systems \ {t}
        PROVE  Hears(bus'[l], l, Heard(l, d + 1)', f)
    BY <1>2, <2>2, <2>4 DEF InFrame, Machines
  <2>. QED
    BY <2>3, <2>4 DEF Machines
<1>5. Line(t, d + 1, f)'
  <2>1. Carries(pending, d, f, cmdBuf[CS])
    BY <1>1, <1>2 DEF InFrame, Line
  <2>2. (d + 1) - 1 = d /\ d + 1 # 0
    BY <1>1
  <2>. QED
    BY <1>2, <2>1, <2>2 DEF Line
<1>6. Master(t, d + 1, f)'
  <2>1. ~Reported(t, d, f) /\ ~Reported(t, d + 1, f)'
    BY <1>1, <1>2 DEF Reported, Length
  <2>2. Silence(t, d + 1, f)' = Silence(t, d, f)
    <3>1. CASE t = CS
      BY <1>1, <1>2, <3>1 DEF Silence
    <3>2. CASE t # CS
      BY <1>1, <1>2, <3>2 DEF Silence
    <3>. QED
      BY <3>1, <3>2
  <2>3. d + 1 # 0
    BY <1>1
  <2>. QED
    BY <1>2, <2>1, <2>2, <2>3 DEF InFrame, Master
<1>7. Accepted(t, d + 1, f)'
  <2>1. served' <=> (t = CS => d + 1 = Length(f) /\ target' \in Devices \cap stepped')
    BY <1>1, <1>2 DEF InFrame, Accepted
  <2>2. ASSUME t = CS, armed = "CMD_REQ", target \in Devices
        PROVE  Heard(target, d + 1)' = d /\ Heard(target, d) = d
    BY <1>1, <1>2, <2>2 DEF Heard, Systems
  <2>. QED
    BY <1>2, <2>1, <2>2 DEF InFrame, Accepted
<1>. QED
  BY <1>1, <1>3, <1>4, <1>5, <1>6, <1>7 DEF InFrame

\* The tick after the last byte: the target turns around, or the bus is free.
LEMMA CarryEnd ==
    ASSUME TypeOK, NEW t \in Systems, NEW f \in Frames, NEW d, d = Length(f),
           InFrame(t, d, f), Carry
    PROVE  LockStep'
<1>1. /\ f.n \in Nat /\ d = 4 + 2 * f.n /\ d \in Nat
      /\ f.flag \in Flags /\ f.addr \in Nodes \cup {CS}
  BY FrameFacts
<1>2. /\ stepped = Systems /\ stepped' = {} /\ visible' = pending /\ pending' = NoByte
      /\ UNCHANGED <<bus, wait, frame, target, result, armed, served, cmdBuf>>
      /\ CS \in Systems
  BY DEF Carry, BusTick, stateVars, memVars, Systems
<1>3. pending = NoByte
  BY <1>1, <1>2 DEF InFrame, Line
<1>4. bus[t].pc = "rx_sof"
  <2>1. Written(t, d, f) = Length(f)
    BY <1>1, <1>2 DEF Written
  <2>. QED
    BY <2>1, TalksAll DEF InFrame, Machines
<1>5. \A l \in Systems \ {t} :
         IF l = f.addr /\ f.flag \in Requests
         THEN bus[l].pc = "tx_sof" /\ bus[l].flag = Answer(f.flag) ELSE bus[l].pc = "rx_sof"
  <2>1. TAKE l \in Systems \ {t}
  <2>2. Hears(bus[l], l, d, f)
    BY <1>2 DEF InFrame, Machines, Heard
  <2>. QED
    BY <2>2, HearsAll
<1>6. armed \in Requests /\ target \in Nodes
  BY DEF InFrame, Roles, TypeOK, StateTypeOK
<1>7. CASE t = CS /\ target \in Devices
  <2>. DEFINE g == [addr |-> CS, flag |-> Answer(armed),
                    n |-> IF armed = "CMD_REQ" THEN 0 ELSE PrmBlocks[target]]
  <2>1. g = FrameOf(target) /\ target # CS /\ target \in Systems
    BY <1>7, ConstantsAssumption DEF FrameOf, Systems
  <2>2. g \in Frames
    BY <2>1, FrameType DEF InFrame, Roles
  <2>3. f.addr = target /\ f.flag = armed
    BY <1>7, FrameType DEF InFrame, Roles
  <2>4. bus[target].pc = "tx_sof" /\ bus[target].flag = Answer(armed)
    BY <1>5, <1>6, <1>7, <2>1, <2>3
  <2>5. \A l \in Systems \ {target} : bus[l].pc = "rx_sof"
    BY <1>4, <1>5, <2>3
  <2>6. g.flag = Answer(armed) /\ Length(g) > 0 /\ Length(g) \in Nat
    BY <2>2, FrameFacts
  <2>7. PICK a \in Systems, h \in Frames : a = target /\ h = g
    BY <2>1, <2>2
  <2>. HIDE DEF g
  <2>8. Roles(a, h)'
    BY <1>2, <1>7, <2>1, <2>7 DEF InFrame, Roles, FrameOf
  <2>9. Machines(a, 0, h)'
    <3>1. Written(a, 0, h)' = 0
      BY <1>2 DEF Written
    <3>2. \A l \in Systems \ {a} : Heard(l, 0)' = 0
      BY <1>2 DEF Heard
    <3>3. Talks(bus'[a], 0, h)
      BY <1>2, <2>4, <2>6, <2>7, TalksSof
    <3>4. \A l \in Systems \ {a} : Hears(bus'[l], l, 0, h)
      BY <1>2, <2>5, <2>7, HearsSof
    <3>. QED
      BY <3>1, <3>2, <3>3, <3>4 DEF Machines
  <2>10. Line(a, 0, h)'
    BY <1>2, <1>3 DEF Line
  <2>11. Master(a, 0, h)'
    <3>1. ~Reported(t, d, f) /\ ~Reported(a, 0, h)'
      BY <1>2, <1>7 DEF Reported
    <3>2. Silence(t, d, f) = 1 /\ Silence(a, 0, h)' = 1
      BY <1>2, <1>7, <2>1, <2>7 DEF Silence
    <3>. QED
      BY <1>2, <2>1, <2>7, <3>1, <3>2 DEF InFrame, Master
  <2>12. Accepted(a, 0, h)'
    <3>1. served
      BY <1>2, <1>7, <2>1 DEF InFrame, Accepted
    <3>. QED
      BY <1>2, <2>1, <2>7, <3>1 DEF Accepted
  <2>13. InFrame(a, 0, h)' /\ 0 \in 0 .. Length(h)
    BY <2>6, <2>7, <2>8, <2>9, <2>10, <2>11, <2>12 DEF InFrame
  <2>. QED
    BY <2>13 DEF LockStep
<1>8. CASE t = CS /\ target \notin Devices
  <2>1. \A l \in Systems : bus[l].pc = "rx_sof"
    BY <1>4, <1>5, <1>6, <1>8, FrameType, ConstantsAssumption DEF InFrame, Roles, Systems
  <2>2. bus[CS].busy /\ result = "none"
    BY <1>8 DEF InFrame, Master, Reported
  <2>3. Quiet'
    BY <1>2, <1>3, <1>6, <1>8, <2>1, <2>2 DEF Quiet, Requests
  <2>. QED
    BY <2>3 DEF LockStep
<1>9. CASE t # CS
  <2>1. \A l \in Systems : bus[l].pc = "rx_sof"
    BY <1>4, <1>5, <1>9, FrameType DEF InFrame, Roles
  <2>2. ~bus[CS].busy /\ result = "success"
    BY <1>2, <1>9 DEF InFrame, Master, Reported
  <2>3. served
    BY <1>9 DEF InFrame, Accepted
  <2>4. Quiet'
    BY <1>2, <1>3, <2>1, <2>2, <2>3 DEF Quiet
  <2>. QED
    BY <2>4 DEF LockStep
<1>. QED
  BY <1>7, <1>8, <1>9

-------------------------------------------------------------------------------
(* The bus at rest, and the invariant *)

\* A bus at rest that stays so: CS hears nothing, or takes its result.
LEMMA RestStep ==
    ASSUME TypeOK, Quiet, NEW s \in Systems, IrxSof(s)
    PROVE  Quiet' /\ cmdBuf' = cmdBuf /\ msgPrm' = msgPrm /\ served' = served
           /\ target' = target /\ armed' \in {armed, "none"}
<1>1. visible # SOF
  BY ConstantsAssumption DEF Quiet
<1>2. /\ bus' = bus /\ visible' = visible /\ pending' = pending
      /\ UNCHANGED <<cmdBuf, msgPrm, served, target>>
  BY <1>1 DEF IrxSof, Receives, Read, Arrive, KeepMemory
<1>3. /\ armed' = IF s = CS /\ Taken THEN "none" ELSE armed
      /\ result' = IF s = CS /\ Taken THEN "none" ELSE result
  BY DEF IrxSof, Outcome
<1>4. Quiet'
  <2>1. CASE s = CS /\ Taken
    BY <1>2, <1>3, <2>1 DEF Quiet, Taken
  <2>2. CASE ~(s = CS /\ Taken)
    <3>1. armed' = armed /\ result' = result
      BY <1>3, <2>2
    <3>. QED
      BY <1>2, <3>1 DEF Quiet
  <2>. QED
    BY <2>1, <2>2
<1>. QED
  BY <1>2, <1>3, <1>4

\* The master gives up: nobody answers at the address.
LEMMA GiveUp ==
    ASSUME TypeOK, Quiet, RxTimeout
    PROVE  Quiet' /\ cmdBuf' = cmdBuf /\ msgPrm' = msgPrm /\ served' = served
           /\ target' = target /\ armed' = armed
<1>1. bus \in [Systems -> BusStates] /\ CS \in Systems
  BY DEF TypeOK, StateTypeOK, Systems
<1>2. bus[CS].busy /\ target \notin Devices /\ armed # "none"
  BY DEF RxTimeout, Expired, Quiet
<1>3. /\ bus' = [bus EXCEPT ![CS] = IdleBus] /\ visible' = visible /\ pending' = pending
      /\ UNCHANGED <<cmdBuf, msgPrm, served, target>>
  BY DEF RxTimeout, GoIdle, Read, Arrive, KeepMemory
<1>4. result' = "timeout" /\ armed' = armed
  BY <1>2 DEF RxTimeout, Outcome, Taken
<1>5. bus'[CS].pc = "rx_sof" /\ ~bus'[CS].busy
  BY <1>1, <1>3 DEF IdleBus
<1>6. \A x \in Systems : bus'[x].pc = "rx_sof"
  BY <1>1, <1>3, <1>5 DEF Quiet
<1>. QED
  BY <1>2, <1>3, <1>4, <1>5, <1>6 DEF Quiet

\* The master begins a request: the first byte of its frame is under way.
LEMMA Begin ==
    ASSUME TypeOK, Quiet, NEW x \in Nodes, NEW request \in Requests, NEW payload,
           StartExchange(x, request, payload)
    PROVE  /\ LockStep' /\ msgPrm' = msgPrm /\ ~served'
           /\ \A d \in Devices : cmdBuf'[d] = cmdBuf[d]
<1>1. /\ bus \in [Systems -> BusStates] /\ CS \in Systems /\ CS \notin Devices
      /\ cmdBuf \in [Systems -> Payloads] /\ Devices \subseteq Systems
  BY ConstantsAssumption DEF TypeOK, StateTypeOK, MemTypeOK, Systems
<1>2. PICK f \in Frames : f = [addr |-> x, flag |-> request,
                               n |-> IF request = "CMD_REQ" THEN CmdBlocks[x] ELSE 0]
  <2>. DEFINE n == IF request = "CMD_REQ" THEN CmdBlocks[x] ELSE 0
  <2>1. CmdBlocks[x] \in BlockCounts /\ 0 \in BlockCounts /\ request \in Flags
    BY ConstantsAssumption DEF BlockCounts, Flags
  <2>2. n \in BlockCounts
    BY <2>1
  <2>. HIDE DEF n
  <2>3. [addr |-> x, flag |-> request, n |-> n] \in Frames
    BY <2>1, <2>2 DEF Frames
  <2>. QED
    BY <2>3 DEF n
<1>3. f.n \in Nat /\ Length(f) = 4 + 2 * f.n /\ f.flag = request
  BY <1>2, FrameFacts
<1>4. /\ stepped' = stepped \cup {CS} /\ visible' = visible /\ pending' = SOF
      /\ wait' = 0 /\ frame' = x /\ target' = x /\ result' = "none" /\ armed' = request
      /\ served' = FALSE /\ msgPrm' = msgPrm
  BY DEF StartExchange, ClearedResult, Write, Arrive
<1>5. \A d \in Devices : cmdBuf'[d] = cmdBuf[d]
  BY <1>1 DEF StartExchange
<1>6. /\ bus'[CS].pc = "tx_header" /\ bus'[CS].sub = 0 /\ bus'[CS].flag = request
      /\ bus'[CS].busy
      /\ \A l \in Systems \ {CS} : bus'[l] = bus[l]
  <2>. DEFINE b == [IdleBus EXCEPT !.pc = "tx_header", !.flag = request, !.busy = TRUE]
  <2>1. bus' = [bus EXCEPT ![CS] = b]
    BY DEF StartExchange
  <2>2. b.pc = "tx_header" /\ b.sub = 0 /\ b.flag = request /\ b.busy
    BY DEF IdleBus
  <2>. HIDE DEF b
  <2>. QED
    BY <1>1, <2>1, <2>2
<1>7. Roles(CS, f)'
  BY <1>2, <1>4 DEF Roles, FrameOf, Requests
<1>8. Machines(CS, 0, f)'
  <2>1. Written(CS, 0, f)' = 1
    BY <1>3, <1>4 DEF Written
  <2>2. Talks(bus'[CS], 1, f)
    BY <1>3, <1>6, TalksHeaderFirst
  <2>3. ASSUME NEW l \in Systems \ {CS}
        PROVE  Hears(bus'[l], l, Heard(l, 0)', f)
    <3>1. Heard(l, 0)' = 0
      BY DEF Heard
    <3>2. bus'[l].pc = "rx_sof"
      BY <1>6, <2>3 DEF Quiet
    <3>. QED
      BY <3>1, <3>2, HearsSof
  <2>. QED
    BY <2>1, <2>2, <2>3 DEF Machines
<1>9. Line(CS, 0, f)'
  <2>1. Carries(pending', 0, f, cmdBuf'[CS])
    BY <1>4, CarriesHeader
  <2>. QED
    BY <1>3, <1>4, <2>1 DEF Line, Quiet
<1>10. Master(CS, 0, f)'
  <2>1. ~Reported(CS, 0, f)' /\ Silence(CS, 0, f)' = 0
    BY <1>3 DEF Reported, Silence
  <2>. QED
    BY <1>4, <1>6, <2>1 DEF Master
<1>11. Accepted(CS, 0, f)'
  <2>1. Heard(target, 0)' = 0
    BY DEF Heard
  <2>2. 0 # Length(f) /\ \A i \in 0 .. 2 * f.n - 1 : ~(i + 3 < 0)
    BY <1>3
  <2>. QED
    BY <1>4, <2>1, <2>2 DEF Accepted
<1>12. InFrame(CS, 0, f)' /\ 0 \in 0 .. Length(f)
  BY <1>3, <1>7, <1>8, <1>9, <1>10, <1>11 DEF InFrame
<1>. QED
  BY <1>1, <1>4, <1>5, <1>12 DEF LockStep

\* The target holds the payload of the master when it has accepted the command.
LEMMA MasterIntact ==
    ASSUME TypeOK', NEW f \in Frames, NEW d \in 0 .. Length(f), InFrame(CS, d, f)'
    PROVE  CommandIntact'
<1>1. f.n \in Nat /\ Length(f) = 4 + 2 * f.n
  BY FrameFacts
<1>. SUFFICES ASSUME armed' = "CMD_REQ", served',
                     NEW i \in 0 .. 2 * CmdBlocks[target'] - 1
              PROVE  cmdBuf'[target'][i] = cmdBuf'[CS][i]
  BY DEF CommandIntact
<1>2. d = Length(f) /\ target' \in Devices /\ target' \in stepped'
  BY DEF InFrame, Accepted
<1>3. f.n = CmdBlocks[target']
  BY DEF InFrame, Roles, FrameOf
<1>4. Heard(target, d)' = d
  BY <1>2 DEF Heard
<1>5. i \in 0 .. 2 * f.n - 1 /\ i + 3 < d
  BY <1>1, <1>2, <1>3
<1>. QED
  BY <1>2, <1>4, <1>5 DEF InFrame, Accepted

-------------------------------------------------------------------------------
\* The inductive invariant: the lock step, and the payload the target holds.
BusInv == LockStep /\ CommandIntact

\* What a step may do to the memories of the systems.
Placed ==
    /\ \A x \in Devices : cmdBuf'[x] # cmdBuf[x] => armed = "CMD_REQ" /\ target = x
    /\ \A x \in Nodes : msgPrm'[x] # msgPrm[x] => armed = "DATA_REQ" /\ target = x /\ served

LEMMA InitBus == Init => BusInv
<1>. SUFFICES ASSUME Init PROVE Quiet /\ CommandIntact
  BY DEF BusInv, LockStep
<1>1. \A s \in Systems : bus[s] = IdleBus
  BY DEF Init
<1>2. CS \in Systems
  BY DEF Systems
<1>. QED
  BY <1>1, <1>2 DEF Init, Quiet, CommandIntact, IdleBus

\* A step of a system keeps the lock step.
LEMMA StepBus ==
    ASSUME TypeOK, TypeOK', BusInv, NEW s \in Systems, Step(s)
    PROVE  BusInv' /\ Placed
<1>1. ASSUME Quiet
      PROVE  BusInv' /\ Placed
  <2>1. \/ IrxSof(s)
        \/ RxTimeout
        \/ \E x \in Nodes, request \in Requests : \E payload : StartExchange(x, request, payload)
    <3>1. bus[s].pc = "rx_sof"
      BY <1>1 DEF Quiet
    <3>2. Receive(s) => IrxSof(s)
      BY <3>1 DEF Receive, IrxHeaderFirst, IrxHeaderSecond, IrxData, IrxEofMissing, IrxEofInvalid,
         IrxEofForeign, IrxEofRequest, IrxEofResponse, Receives
    <3>3. ~Transmit(s)
      BY <3>1 DEF Transmit, ItxSof, ItxHeaderFirst, ItxHeaderSecond, ItxData, ItxEof, Transmits
    <3>4. StartCommand \/ StartData =>
            \E x \in Nodes, request \in Requests : \E payload : StartExchange(x, request, payload)
      BY DEF StartCommand, StartData, Requests
    <3>. QED
      BY <3>2, <3>3, <3>4 DEF Step
  <2>2. CASE IrxSof(s)
    BY <1>1, <2>2, RestStep DEF BusInv, LockStep, CommandIntact, Placed
  <2>3. CASE RxTimeout
    BY <1>1, <2>3, GiveUp DEF BusInv, LockStep, CommandIntact, Placed
  <2>4. ASSUME NEW x \in Nodes, NEW request \in Requests, NEW payload,
               StartExchange(x, request, payload)
        PROVE  BusInv' /\ Placed
    BY <1>1, <2>4, Begin DEF BusInv, CommandIntact, Placed
  <2>. QED
    BY <2>1, <2>2, <2>3, <2>4
<1>2. ASSUME NEW t \in Systems, NEW f \in Frames, NEW d \in 0 .. Length(f), InFrame(t, d, f)
      PROVE  BusInv' /\ Placed
  <2>1. InFrame(t, d, f)' /\ Delivers(t)
    BY <1>2, StepInFrame
  <2>2. LockStep'
    BY <2>1 DEF LockStep
  <2>3. CommandIntact'
    <3>1. CASE t = CS
      BY <2>1, <3>1, MasterIntact
    <3>2. CASE t # CS
      <4>1. served /\ target \in Systems /\ CS \in Systems
        BY <1>2, <3>2 DEF InFrame, Roles, Accepted, Systems
      <4>2. /\ armed' = armed /\ target' = target
            /\ cmdBuf'[target] = cmdBuf[target] /\ cmdBuf'[CS] = cmdBuf[CS]
        BY <2>1, <3>2, <4>1 DEF Delivers
      <4>. QED
        BY <4>1, <4>2 DEF BusInv, CommandIntact
    <3>. QED
      BY <3>1, <3>2
  <2>4. Placed
    BY <2>1, ConstantsAssumption DEF Delivers, Placed, Systems
  <2>. QED
    BY <2>2, <2>3, <2>4 DEF BusInv
<1>. QED
  BY <1>1, <1>2 DEF BusInv, LockStep

\* The tick, too.
LEMMA CarryBus ==
    ASSUME TypeOK, BusInv, Carry
    PROVE  BusInv' /\ Placed
<1>1. /\ UNCHANGED <<bus, wait, frame, target, result, armed, served, cmdBuf, msgPrm>>
      /\ visible' = pending /\ pending' = NoByte
  BY DEF Carry, BusTick, stateVars, memVars
<1>2. CommandIntact' /\ Placed
  BY <1>1 DEF BusInv, CommandIntact, Placed
<1>3. CASE Quiet
  BY <1>1, <1>2, <1>3 DEF Quiet, BusInv, LockStep
<1>4. ASSUME NEW t \in Systems, NEW f \in Frames, NEW d \in 0 .. Length(f), InFrame(t, d, f)
      PROVE  LockStep'
  <2>1. d \in 0 .. 3 + 2 * f.n \/ d = Length(f)
    BY FrameFacts
  <2>2. CASE d \in 0 .. 3 + 2 * f.n
    BY <1>4, <2>2, CarryByte DEF LockStep
  <2>3. CASE d = Length(f)
    BY <1>4, <2>3, CarryEnd
  <2>. QED
    BY <2>1, <2>2, <2>3
<1>. QED
  BY <1>2, <1>3, <1>4 DEF BusInv, LockStep

LEMMA NextBus ==
    ASSUME TypeOK, TypeOK', BusInv, [Next]_vars
    PROVE  BusInv' /\ (Placed \/ UNCHANGED vars)
<1>1. ASSUME NEW d \in Devices, ModelStep(d)
      PROVE  BusInv' /\ Placed
  <2>1. UNCHANGED <<stateVars, memVars, lineVars>>
    BY <1>1 DEF ModelStep
  <2>. QED
    BY <2>1 DEF BusInv, LockStep, Quiet, InFrame, Roles, Machines, Line, Master, Accepted,
       FrameOf, Written, Heard, Silence, Reported, CommandIntact, Placed,
       stateVars, memVars, lineVars
<1>2. CASE UNCHANGED vars
  BY <1>2 DEF BusInv, LockStep, Quiet, InFrame, Roles, Machines, Line, Master, Accepted,
     FrameOf, Written, Heard, Silence, Reported, CommandIntact, vars, stateVars, memVars, lineVars
<1>. QED
  BY <1>1, <1>2, StepBus, CarryBus DEF Next

\* While no system loses its place, the talker and the listeners are where InStep
\* wants them.
LEMMA LockStepInStep == TypeOK /\ LockStep => InStep
<1>. SUFFICES ASSUME TypeOK, LockStep, NEW t \in Systems, NEW l \in Systems, t # l, Talking(t)
              PROVE  /\ ~Talking(l)
                     /\ Position(t) >= 1 =>
                          LET behind == Late(l) + 1 - Late(t)
                          IN  Position(l) = IF Position(t) > behind
                                            THEN Position(t) - behind ELSE 0
  BY DEF InStep
<1>1. ~Quiet
  BY DEF Quiet, Talking, TxPhases
<1>2. PICK r \in Systems, f \in Frames : \E d \in 0 .. Length(f) : InFrame(r, d, f)
  BY <1>1 DEF LockStep
<1>3. PICK d \in 0 .. Length(f) : InFrame(r, d, f)
  BY <1>2
<1>4. f.n \in Nat /\ Length(f) = 4 + 2 * f.n
  BY FrameFacts
<1>5. ASSUME NEW k \in 0 .. Length(f) - 1, NEW b, Talks(b, k, f)
      PROVE  /\ b.pc \in TxPhases
             /\ k = 0 => b.pc = "tx_sof"
             /\ k \in 1 .. 2 => b.pc = "tx_header" /\ k = 1 + b.sub
             /\ k \in 3 .. 2 + 2 * f.n => b.pc = "tx_data" /\ k = 3 + b.sub
             /\ k = 3 + 2 * f.n => b.pc = "tx_eof" /\ b.n = f.n
  <2>1. CASE k = 0
    BY <1>4, <1>5, <2>1, TalksSof DEF TxPhases
  <2>2. CASE k = 1
    BY <1>4, <1>5, <2>2, TalksHeaderFirst DEF TxPhases
  <2>3. CASE k = 2
    BY <1>4, <1>5, <2>3, TalksHeaderSecond DEF TxPhases
  <2>4. CASE k \in 3 .. 2 + 2 * f.n
    <3>1. b.pc = "tx_data" /\ b.sub = k - 3
      BY <1>5, <2>4, TalksData
    <3>. QED
      BY <1>4, <2>4, <3>1 DEF TxPhases
  <2>5. CASE k = 3 + 2 * f.n
    <3>1. b.pc = "tx_eof" /\ b.n = f.n
      BY <1>5, <2>5, TalksEof
    <3>. QED
      BY <1>4, <2>5, <3>1 DEF TxPhases
  <2>. QED
    BY <1>4, <2>1, <2>2, <2>3, <2>4, <2>5
<1>6. ASSUME NEW k \in 0 .. Length(f) - 1, NEW b, NEW x, Hears(b, x, k, f)
      PROVE  /\ b.pc \notin TxPhases
             /\ k = 0 => b.pc = "rx_sof"
             /\ k \in 1 .. 2 => b.pc = "rx_header" /\ k = 1 + b.sub
             /\ k \in 3 .. 2 + 2 * f.n => b.pc = "rx_data" /\ k = 3 + b.sub
             /\ k = 3 + 2 * f.n => b.pc = "rx_eof" /\ b.n = f.n
  <2>1. CASE k = 0
    BY <1>4, <1>6, <2>1, HearsSof DEF TxPhases
  <2>2. CASE k = 1
    BY <1>4, <1>6, <2>2, HearsHeaderFirst DEF TxPhases
  <2>3. CASE k = 2
    BY <1>4, <1>6, <2>3, HearsHeaderSecond DEF TxPhases
  <2>4. CASE k \in 3 .. 2 + 2 * f.n
    <3>1. b.pc = "rx_data" /\ b.sub = k - 3
      BY <1>6, <2>4, HearsData
    <3>. QED
      BY <1>4, <2>4, <3>1 DEF TxPhases
  <2>5. CASE k = 3 + 2 * f.n
    <3>1. b.pc = "rx_eof" /\ b.n = f.n
      BY <1>6, <2>5, HearsEof
    <3>. QED
      BY <1>4, <2>5, <3>1 DEF TxPhases
  <2>. QED
    BY <1>4, <2>1, <2>2, <2>3, <2>4, <2>5
<1>7. /\ Talks(bus[r], Written(r, d, f), f)
      /\ \A x \in Systems \ {r} : Hears(bus[x], x, Heard(x, d), f)
  BY <1>3 DEF InFrame, Machines
<1>8. /\ Written(r, d, f) \in 0 .. Length(f)
      /\ \A x : Heard(x, d) \in 0 .. Length(f) /\ Heard(x, d) <= Written(r, d, f)
  BY <1>4 DEF Written, Heard
<1>9. CASE t = r
  <2>1. Written(r, d, f) \in 0 .. Length(f) - 1
    <3>1. Written(r, d, f) # Length(f)
      BY <1>7, <1>9, TalksAll DEF Talking, TxPhases
    <3>. QED
      BY <1>4, <1>8, <3>1
  <2>2. Heard(l, d) \in 0 .. Length(f) - 1
    <3>1. Heard(l, d) \in 0 .. Length(f) /\ Heard(l, d) <= Written(r, d, f)
      BY <1>8
    <3>. QED
      BY <1>4, <2>1, <3>1
  <2>3. Hears(bus[l], l, Heard(l, d), f)
    BY <1>7, <1>9
  <2>4. Position(t) = Written(r, d, f)
    <3>. DEFINE k == Written(r, d, f)
                b == bus[t]
    <3>1. k \in 0 .. Length(f) - 1 /\ Talks(b, k, f)
      BY <1>7, <1>9, <2>1
    <3>. HIDE DEF k, b
    <3>2. /\ k = 0 => b.pc = "tx_sof"
          /\ k \in 1 .. 2 => b.pc = "tx_header" /\ k = 1 + b.sub
          /\ k \in 3 .. 2 + 2 * f.n => b.pc = "tx_data" /\ k = 3 + b.sub
          /\ k = 3 + 2 * f.n => b.pc = "tx_eof" /\ b.n = f.n
      BY <1>5, <3>1
    <3>. QED
      BY <1>4, <3>1, <3>2 DEF Position, k, b
  <2>5. Position(l) = Heard(l, d) /\ ~Talking(l)
    <3>. DEFINE k == Heard(l, d)
                b == bus[l]
    <3>1. k \in 0 .. Length(f) - 1 /\ Hears(b, l, k, f)
      BY <2>2, <2>3
    <3>. HIDE DEF k, b
    <3>2. /\ b.pc \notin TxPhases
          /\ k = 0 => b.pc = "rx_sof"
          /\ k \in 1 .. 2 => b.pc = "rx_header" /\ k = 1 + b.sub
          /\ k \in 3 .. 2 + 2 * f.n => b.pc = "rx_data" /\ k = 3 + b.sub
          /\ k = 3 + 2 * f.n => b.pc = "rx_eof" /\ b.n = f.n
      BY <1>6, <3>1
    <3>. QED
      BY <1>4, <3>1, <3>2 DEF Position, Talking, k, b
  <2>6. Written(r, d, f) = IF t \in stepped THEN d + 1 ELSE d
    BY <1>4, <1>9, <2>1 DEF Written
  <2>. QED
    BY <1>4, <2>4, <2>5, <2>6 DEF Heard, Late
<1>10. CASE t # r
  <2>1. Hears(bus[t], t, Heard(t, d), f)
    BY <1>7, <1>10
  <2>2. Heard(t, d) = Length(f)
    BY <1>4, <1>6, <1>8, <2>1 DEF Talking
  <2>3. t = f.addr /\ bus[t].pc = "tx_sof"
    BY <2>1, <2>2, HearsAll DEF Talking, TxPhases
  <2>4. Written(r, d, f) = Length(f)
    BY <1>4, <1>8, <2>2
  <2>5. bus[r].pc = "rx_sof"
    BY <1>7, <2>4, TalksAll
  <2>6. ASSUME l # r PROVE ~Talking(l)
    <3>1. Hears(bus[l], l, Heard(l, d), f)
      BY <1>7, <2>6
    <3>2. CASE Heard(l, d) = Length(f)
      BY <2>3, <3>1, <3>2, HearsAll DEF Talking, TxPhases
    <3>3. CASE Heard(l, d) # Length(f)
      BY <1>4, <1>6, <1>8, <3>1, <3>3 DEF Talking
    <3>. QED
      BY <3>2, <3>3
  <2>. QED
    BY <2>3, <2>5, <2>6 DEF Position, Talking, TxPhases
<1>. QED
  BY <1>9, <1>10

-------------------------------------------------------------------------------
\* The invariant holds of every run of a bus that loses nothing.
LEMMA BusInvariant == Spec => [](TypeOK /\ BusInv)
<1>1. Init => TypeOK /\ BusInv
  BY InitType, InitBus
<1>2. TypeOK /\ BusInv /\ [Next]_vars => (TypeOK /\ BusInv)'
  BY NextType, NextBus DEF NoisyNext
<1>. QED
  BY <1>1, <1>2, PTL DEF Spec

\* One talker at a time, and every listener one tick behind it: on every bus,
\* with any number of systems, any windows and any payload, the byte
\* that a system reads is the one its receiver waits for.
THEOREM FramesInStep == Spec => []InStep
<1>1. TypeOK /\ BusInv => InStep
  BY LockStepInStep DEF BusInv
<1>. QED
  BY <1>1, BusInvariant, PTL

\* What the lock step says of the results.
LEMMA HonestyOfBus == TypeOK /\ BusInv => SuccessHonest /\ FailureHonest /\ NoOrphan
<1>1. BusInv => SuccessHonest
  BY DEF BusInv, LockStep, Quiet, InFrame, Master, Accepted, Reported, SuccessHonest
<1>2. TypeOK /\ BusInv => FailureHonest
  BY DEF BusInv, LockStep, Quiet, InFrame, Master, Reported, FailureHonest
<1>3. BusInv => NoOrphan
  BY DEF BusInv, LockStep, Quiet, InFrame, Master, Reported, NoOrphan
<1>. QED
  BY <1>1, <1>2, <1>3

\* CS reports success only after the target accepted this very request.
THEOREM SuccessIsHonest == Spec => []SuccessHonest
  BY HonestyOfBus, BusInvariant, PTL

\* CS reports a timeout only if nobody answers at the address, and never a bad
\* end of frame.
THEOREM FailureIsHonest == Spec => []FailureHonest
  BY HonestyOfBus, BusInvariant, PTL

\* The scheduler is never left waiting for an exchange that has ended.
THEOREM NoExchangeOrphaned == Spec => []NoOrphan
  BY HonestyOfBus, BusInvariant, PTL

\* The target accepts the very payload CS sent.
THEOREM CommandArrives == Spec => []CommandIntact
<1>1. TypeOK /\ BusInv => CommandIntact
  BY DEF BusInv
<1>. QED
  BY <1>1, BusInvariant, PTL

\* Payload goes where it belongs, whatever it looks like.
THEOREM PayloadPlaced == Spec => PayloadInPlace
<1>1. TypeOK /\ BusInv /\ TypeOK' /\ [Next]_vars =>
        [ /\ \A d \in Devices : cmdBuf'[d] # cmdBuf[d] =>
                armed = "CMD_REQ" /\ target = d
          /\ \A x \in Nodes : msgPrm'[x] # msgPrm[x] =>
                armed = "DATA_REQ" /\ target = x /\ served ]_vars
  BY NextBus DEF Placed
<1>. QED
  BY <1>1, BusInvariant, PTL DEF Spec, PayloadInPlace

-------------------------------------------------------------------------------
(* The exchange without its bytes *)

exchangeView == <<armed, target, served, result, cmdBuf[CS], msgCmd, msgPrm>>

\* A step that neither takes a request, nor reports, nor begins anything.
Plain(s) ==
    /\ msgCmd' = [d \in Devices |-> IF d = s THEN FreshCmd(d) ELSE msgCmd[d]]
    /\ UNCHANGED <<target, served, msgPrm>>
    /\ Outcome(s, "none")

\* Which steps those are.
LEMMA StepKinds ==
    ASSUME TypeOK, NEW s \in Systems, Step(s)
    PROVE  \/ Plain(s)
           \/ s \in Devices /\ IrxEofRequest(s)
           \/ s = CS /\ (IrxEofResponse(CS) \/ IrxEofInvalid(CS) \/ RxTimeout
                           \/ StartCommand \/ StartData)
<1>. SUFFICES ASSUME s \in Devices => ~IrxEofRequest(s),
                     s = CS => /\ ~IrxEofResponse(CS) /\ ~IrxEofInvalid(CS) /\ ~RxTimeout
                               /\ ~StartCommand /\ ~StartData
              PROVE  Plain(s)
  BY DEF Systems
<1>1. CS \notin Devices /\ target \in Nodes /\ CS \notin Nodes /\ served \in BOOLEAN
  BY ConstantsAssumption DEF TypeOK, StateTypeOK
<1>2. ASSUME s # CS, NEW r PROVE Outcome(s, r) => Outcome(s, "none")
  BY <1>2 DEF Outcome
<1>3. CASE Transmit(s)
  BY <1>3 DEF Transmit, ItxSof, ItxHeaderFirst, ItxHeaderSecond, ItxData, ItxEof, Transmits,
     KeepMemory, Plain
<1>4. CASE IrxSof(s) \/ IrxHeaderFirst(s) \/ IrxHeaderSecond(s) \/ IrxEofMissing(s)
             \/ IrxEofForeign(s)
  BY <1>4 DEF IrxSof, IrxHeaderFirst, IrxHeaderSecond, IrxEofMissing, IrxEofForeign,
     KeepMemory, Plain
<1>5. CASE IrxData(s)
  BY <1>5 DEF IrxData, Plain
<1>6. CASE IrxEofInvalid(s)
  BY <1>2, <1>6 DEF IrxEofInvalid, KeepMemory, Plain
<1>7. CASE IrxEofResponse(s)
  BY <1>2, <1>7 DEF IrxEofResponse, Plain
<1>8. CASE IrxEofRequest(s)
  <2>1. s = CS
    BY <1>8 DEF Systems
  <2>2. /\ msgCmd' = [d \in Devices |-> IF d # s THEN msgCmd[d]
                                        ELSE IF bus[s].flag = "CMD_REQ" THEN Merged(d)
                                        ELSE FreshCmd(d)]
        /\ served' = (served \/ (s = target /\ bus[s].flag = armed))
        /\ UNCHANGED <<target, msgPrm>> /\ Outcome(s, "none")
    BY <1>8 DEF IrxEofRequest
  <2>3. served' = served
    BY <1>1, <2>1, <2>2
  <2>4. msgCmd' = [d \in Devices |-> IF d = s THEN FreshCmd(d) ELSE msgCmd[d]]
    BY <1>1, <2>1, <2>2
  <2>. QED
    BY <2>2, <2>3, <2>4 DEF Plain
<1>. QED
  BY <1>3, <1>4, <1>5, <1>6, <1>7, <1>8 DEF Step, Receive

\* A plain step is nothing, a device that executes its commands, or CS that
\* takes the result.
LEMMA PlainPromise ==
    ASSUME TypeOK, NEW s \in Systems, Plain(s), cmdBuf'[CS] = cmdBuf[CS]
    PROVE  [Promise!Next]_exchangeView
<1>1. /\ msgCmd \in [Devices -> Payloads] /\ CS \notin Devices /\ served \in BOOLEAN
      /\ msgCmd' = [d \in Devices |-> IF d = s THEN FreshCmd(d) ELSE msgCmd[d]]
      /\ target' = target /\ served' = served /\ msgPrm' = msgPrm
  BY ConstantsAssumption DEF TypeOK, StateTypeOK, MemTypeOK, Plain
<1>2. CASE s = CS
  <2>1. msgCmd' = msgCmd
    BY <1>1, <1>2
  <2>2. CASE Taken
    <3>1. armed' = "none" /\ result' = "none" /\ armed # "none" /\ result # "none"
      BY <1>2, <2>2 DEF Plain, Outcome, Taken
    <3>2. Promise!Collect
      BY <1>1, <2>1, <3>1 DEF Promise!Collect, Promise!memoryVars
    <3>. QED
      BY <3>2 DEF Promise!Next
  <2>3. CASE ~Taken
    <3>1. armed' = armed /\ result' = result
      BY <1>2, <2>3 DEF Plain, Outcome
    <3>. QED
      BY <1>1, <2>1, <3>1 DEF exchangeView
  <2>. QED
    BY <2>2, <2>3
<1>3. CASE s # CS
  <2>1. armed' = armed /\ result' = result /\ s \in Devices
    BY <1>3 DEF Plain, Outcome, Systems
  <2>2. CASE FreshCmd(s) = msgCmd[s]
    <3>1. msgCmd' = msgCmd
      BY <1>1, <2>2
    <3>. QED
      BY <1>1, <2>1, <3>1 DEF exchangeView
  <2>3. CASE FreshCmd(s) = Blank
    <3>1. Blank = Promise!Blank
      BY DEF Blank, ByteIdx, Promise!Blank, Promise!ByteIdx
    <3>2. msgCmd' = [msgCmd EXCEPT ![s] = Blank]
      BY <1>1, <2>1, <2>3
    <3>3. Promise!Execute(s)
      BY <1>1, <2>1, <3>1, <3>2 DEF Promise!Execute, Promise!exchangeVars
    <3>. QED
      BY <2>1, <3>3 DEF Promise!Next
  <2>. QED
    BY <2>2, <2>3 DEF FreshCmd
<1>. QED
  BY <1>2, <1>3

\* A system at the end of a frame has heard all of it but its last byte.
LEMMA AtEof ==
    ASSUME TypeOK, NEW t \in Systems, NEW f \in Frames, NEW d \in 0 .. Length(f),
           InFrame(t, d, f), NEW s \in Systems, bus[s].pc = "rx_eof"
    PROVE  /\ s # t /\ Heard(s, d) = 3 + 2 * f.n
           /\ bus[s].flag = f.flag /\ (bus[s].adr <=> s = f.addr)
<1>1. f.n \in Nat /\ Length(f) = 4 + 2 * f.n
  BY FrameFacts
<1>2. /\ Talks(bus[t], Written(t, d, f), f)
      /\ \A x \in Systems \ {t} : Hears(bus[x], x, Heard(x, d), f)
  BY DEF InFrame, Machines
<1>3. Written(t, d, f) \in 0 .. Length(f) /\ Heard(s, d) \in 0 .. Length(f)
  BY <1>1 DEF Written, Heard
<1>4. s # t
  <2>. SUFFICES ASSUME NEW b, NEW k \in 0 .. Length(f), Talks(b, k, f)
                PROVE  b.pc # "rx_eof"
    BY <1>2, <1>3
  <2>1. CASE k \in 3 .. 2 + 2 * f.n
    BY <2>1, TalksData
  <2>2. CASE k \notin 3 .. 2 + 2 * f.n
    <3>1. k \in {0, 1, 2, 3 + 2 * f.n, Length(f)}
      BY <1>1, <2>2
    <3>. QED
      BY <3>1, TalksSof, TalksHeaderFirst, TalksHeaderSecond, TalksEof, TalksAll
  <2>. QED
    BY <2>1, <2>2
<1>5. Heard(s, d) = 3 + 2 * f.n
  <2>. DEFINE b == bus[s]
              k == Heard(s, d)
  <2>1. Hears(b, s, k, f) /\ k \in 0 .. Length(f) /\ b.pc = "rx_eof"
    BY <1>2, <1>3, <1>4
  <2>. HIDE DEF b, k
  <2>2. k \notin 3 .. 2 + 2 * f.n
    BY <2>1, HearsData
  <2>3. k \notin {0, 1, 2}
    BY <2>1, HearsSof, HearsHeaderFirst, HearsHeaderSecond
  <2>4. k # Length(f)
    BY <2>1, HearsAll
  <2>5. k = 3 + 2 * f.n
    BY <1>1, <2>1, <2>2, <2>3, <2>4
  <2>. QED
    BY <2>5 DEF k
<1>6. Hears(bus[s], s, 3 + 2 * f.n, f)
  BY <1>2, <1>4, <1>5
<1>. QED
  BY <1>4, <1>5, <1>6, HearsEof

\* The target takes the request as a whole.
LEMMA RequestPromise ==
    ASSUME TypeOK, TypeOK', NEW t \in Systems, NEW f \in Frames, NEW d \in 0 .. Length(f),
           InFrame(t, d, f), InFrame(t, d, f)', Delivers(t),
           NEW s \in Devices, IrxEofRequest(s), Step(s)
    PROVE  Promise!Accept
<1>1. /\ f.n \in Nat /\ Length(f) = 4 + 2 * f.n /\ s \in Systems /\ s # CS
      /\ s \notin stepped /\ stepped' = stepped \cup {s}
  BY FrameFacts, ConstantsAssumption
     DEF Systems, IrxEofRequest, Receives, Read, Arrive
<1>2. bus[s].pc = "rx_eof" /\ bus[s].adr /\ bus[s].flag \in Requests
  BY DEF IrxEofRequest, Receives
<1>3. Heard(s, d) = 3 + 2 * f.n /\ f.addr = s /\ f.flag = bus[s].flag
  BY <1>1, <1>2, AtEof
<1>4. t = CS /\ target = s /\ armed = f.flag /\ armed \in Requests
  BY <1>1, <1>2, <1>3, Underway
<1>5. d = Length(f)
  BY <1>1, <1>3 DEF Heard
<1>6. ~served /\ result = "none"
  BY <1>1, <1>4 DEF InFrame, Accepted, Master, Reported
<1>7. /\ served' = TRUE /\ cmdBuf' = cmdBuf /\ msgPrm' = msgPrm /\ target' = target
      /\ armed' = armed /\ result' = result
      /\ msgCmd' = [x \in Devices |-> IF x # s THEN msgCmd[x]
                                      ELSE IF armed = "CMD_REQ" THEN Merged(x)
                                      ELSE FreshCmd(x)]
  BY <1>1, <1>3, <1>4 DEF IrxEofRequest, Outcome
<1>8. armed = "CMD_REQ" =>
        \A i \in 0 .. 2 * CmdBlocks[s] - 1 : cmdBuf[s][i] = cmdBuf[CS][i]
  <2>1. CommandIntact'
    BY <1>4, MasterIntact
  <2>. QED
    BY <1>4, <1>7, <2>1 DEF CommandIntact
<1>9. armed = "CMD_REQ" => Merged(s) = Promise!Onto(CmdBlocks[s], FreshCmd(s))
  <2>. SUFFICES ASSUME armed = "CMD_REQ"
                PROVE  Merged(s) = Promise!Onto(CmdBlocks[s], FreshCmd(s))
    OBVIOUS
  <2>1. CmdBytes(s) = 2 * CmdBlocks[s] /\ CmdBlocks[s] \in Nat
    BY <1>1, ConstantsAssumption DEF CmdBytes, WindowOf
  <2>2. ByteIdx = Promise!ByteIdx /\ ByteIdx \subseteq Nat
    BY ConstantsAssumption DEF ByteIdx, Promise!ByteIdx
  <2>3. ASSUME NEW i \in ByteIdx, i < 2 * CmdBlocks[s]
        PROVE  cmdBuf[s][i] = cmdBuf[CS][i]
    BY <1>8, <2>1, <2>2, <2>3
  <2>. QED
    BY <2>1, <2>2, <2>3 DEF Merged, Promise!Onto
<1>10. FreshCmd(s) \in {msgCmd[target], Promise!Blank}
  BY <1>4 DEF FreshCmd, Blank, ByteIdx, Promise!Blank, Promise!ByteIdx
<1>11. msgCmd' = [msgCmd EXCEPT ![target] =
                    IF armed = "CMD_REQ" THEN Promise!Onto(CmdBlocks[target], FreshCmd(s))
                    ELSE FreshCmd(s)]
  <2>1. msgCmd \in [Devices -> Payloads]
    BY DEF TypeOK, MemTypeOK
  <2>. QED
    BY <1>4, <1>7, <1>9, <2>1
<1>. QED
  BY <1>4, <1>6, <1>7, <1>10, <1>11 DEF Promise!Accept, Promise!Waiting, Requests

\* The answer, and what comes with it.
LEMMA ResponsePromise ==
    ASSUME TypeOK, NEW t \in Systems, NEW f \in Frames, NEW d \in 0 .. Length(f),
           InFrame(t, d, f), Delivers(t), IrxEofResponse(CS), Step(CS)
    PROVE  Promise!Succeed
<1>1. /\ CS \in Systems /\ CS \notin Devices /\ CS \notin stepped
      /\ msgCmd \in [Devices -> Payloads] /\ msgPrm \in [Nodes -> Payloads]
      /\ frame \in Nodes /\ PrmBlocks \in [Nodes -> 1 .. MaxBlocks]
  BY ConstantsAssumption
     DEF Systems, IrxEofResponse, Receives, Read, Arrive, TypeOK, StateTypeOK, MemTypeOK
<1>2. bus[CS].pc = "rx_eof" /\ bus[CS].adr /\ bus[CS].flag \notin Requests
  BY DEF IrxEofResponse, Receives
<1>3. f.addr = CS /\ f.flag = bus[CS].flag
  BY <1>1, <1>2, AtEof
<1>4. t # CS /\ t = target /\ armed \in Requests
  BY <1>1, <1>2, <1>3, Underway
<1>5. served /\ ~Reported(t, d, f) /\ result = "none" /\ frame = target
  BY <1>1, <1>4 DEF InFrame, Accepted, Master, Reported
<1>6. f.flag = "DATA_RESP" <=> armed = "DATA_REQ"
  BY <1>4 DEF InFrame, Roles, FrameOf, Answer, Requests
<1>7. ~Taken
  BY <1>5 DEF Taken
<1>8. /\ result' = "success" /\ armed' = armed /\ target' = target /\ served' = served
      /\ cmdBuf' = cmdBuf
      /\ msgPrm' = IF armed = "DATA_REQ" THEN Committed ELSE msgPrm
  BY <1>3, <1>6, <1>7 DEF IrxEofResponse, Outcome
<1>9. msgCmd' = msgCmd
  BY <1>1 DEF IrxEofResponse
<1>10. ASSUME NEW x \in Nodes
       PROVE  Promise!SamePast(IF x = target /\ armed = "DATA_REQ" THEN PrmBlocks[x] ELSE 0,
                               msgPrm'[x], msgPrm[x])
  <2>1. CASE x = target /\ armed = "DATA_REQ"
    <3>1. PrmBytes(CS) = 2 * PrmBlocks[x]
      BY <1>5, <2>1 DEF PrmBytes, WindowOf
    <3>2. msgPrm'[x] = [i \in ByteIdx |-> IF i < PrmBytes(CS) THEN prmBuf[CS][i]
                                          ELSE msgPrm[x][i]]
      BY <1>1, <1>5, <1>8, <2>1 DEF Committed
    <3>3. ASSUME NEW i \in ByteIdx, i >= 2 * PrmBlocks[x] PROVE msgPrm'[x][i] = msgPrm[x][i]
      <4>1. ~(i < PrmBytes(CS))
        BY <1>1, <3>1, <3>3, ConstantsAssumption DEF ByteIdx
      <4>. QED
        BY <3>2, <4>1
    <3>. QED
      BY <2>1, <3>3 DEF Promise!SamePast, Promise!ByteIdx, ByteIdx
  <2>2. CASE ~(x = target /\ armed = "DATA_REQ")
    <3>1. msgPrm'[x] = msgPrm[x]
      BY <1>1, <1>5, <1>8, <2>2 DEF Committed
    <3>. QED
      BY <3>1 DEF Promise!SamePast
  <2>. QED
    BY <2>1, <2>2
<1>. QED
  BY <1>4, <1>5, <1>8, <1>9, <1>10 DEF Promise!Succeed, Promise!Waiting, Requests

\* A step while a frame is under way.
LEMMA FramePromise ==
    ASSUME TypeOK, TypeOK', NEW t \in Systems, NEW f \in Frames, NEW d \in 0 .. Length(f),
           InFrame(t, d, f), NEW s \in Systems, Step(s)
    PROVE  [Promise!Next]_exchangeView
<1>1. /\ InFrame(t, d, f)' /\ Delivers(t)
      /\ CS \in Systems /\ CS \notin Nodes /\ target \in Nodes
  BY StepInFrame, ConstantsAssumption DEF Systems, TypeOK, StateTypeOK
<1>2. cmdBuf'[CS] = cmdBuf[CS]
  BY <1>1 DEF Delivers
<1>3. CASE Plain(s)
  BY <1>2, <1>3, PlainPromise
<1>4. CASE s \in Devices /\ IrxEofRequest(s)
  BY <1>1, <1>4, RequestPromise DEF Promise!Next
<1>5. CASE s = CS /\ IrxEofResponse(CS)
  BY <1>1, <1>5, ResponsePromise DEF Promise!Next
<1>6. ~(s = CS /\ IrxEofInvalid(CS))
  BY <1>1 DEF IrxEofInvalid, Outcome, InFrame, Master
<1>7. ~(s = CS /\ (RxTimeout \/ StartCommand \/ StartData))
  <2>1. s = CS => bus[CS].busy /\ ~Expired(CS)
    BY Underway DEF Engaged
  <2>. QED
    BY <2>1 DEF RxTimeout, StartCommand, StartData, StartExchange
<1>. QED
  BY <1>3, <1>4, <1>5, <1>6, <1>7, StepKinds

\* A step while the bus is quiet.
LEMMA QuietPromise ==
    ASSUME TypeOK, Quiet, NEW s \in Systems, Step(s)
    PROVE  [Promise!Next]_exchangeView
<1>1. /\ CS \in Systems /\ cmdBuf \in [Systems -> Payloads]
      /\ MaxBlocks \in Nat /\ CmdBlocks \in [Nodes -> 1 .. MaxBlocks]
  BY ConstantsAssumption DEF Systems, TypeOK, MemTypeOK
<1>2. ASSUME RxTimeout
      PROVE  Promise!GiveUp
  <2>1. armed # "none" /\ target \notin Devices /\ result = "none" /\ ~Taken
    BY <1>2 DEF RxTimeout, Expired, Quiet, Taken
  <2>2. /\ armed' = armed /\ target' = target /\ served' = served /\ result' = "timeout"
        /\ cmdBuf' = cmdBuf /\ msgPrm' = msgPrm
    BY <1>2, <2>1 DEF RxTimeout, KeepMemory, Outcome
  <2>3. msgCmd' = msgCmd
    <3>1. msgCmd \in [Devices -> Payloads] /\ CS \notin Devices
      BY ConstantsAssumption DEF TypeOK, MemTypeOK
    <3>. QED
      BY <1>2, <3>1 DEF RxTimeout, KeepMemory
  <2>. QED
    BY <2>1, <2>2, <2>3 DEF Promise!GiveUp, Promise!Waiting, Promise!memoryVars
<1>3. ASSUME NEW x \in Nodes, NEW r \in Requests, NEW payload, StartExchange(x, r, payload)
      PROVE  Promise!Begin(x, r)
  <2>1. /\ armed = "none" /\ armed' = r /\ target' = x /\ served' = FALSE /\ result' = "none"
        /\ msgCmd' = msgCmd /\ msgPrm' = msgPrm
        /\ cmdBuf' = IF r = "CMD_REQ"
                     THEN [cmdBuf EXCEPT ![CS] = [i \in ByteIdx |-> IF i < 2 * CmdBlocks[x]
                                                                    THEN payload[i] ELSE @[i]]]
                     ELSE cmdBuf
    BY <1>3 DEF StartExchange, ClearedResult
  <2>2. ASSUME NEW i \in ByteIdx, i >= 2 * (IF r = "CMD_REQ" THEN CmdBlocks[x] ELSE 0)
        PROVE  cmdBuf'[CS][i] = cmdBuf[CS][i]
    <3>1. CASE r = "CMD_REQ"
      <4>1. ~(i < 2 * CmdBlocks[x])
        BY <1>1, <2>2, <3>1 DEF ByteIdx
      <4>. QED
        BY <1>1, <2>1, <3>1, <4>1
    <3>2. CASE r # "CMD_REQ"
      BY <2>1, <3>2
    <3>. QED
      BY <3>1, <3>2
  <2>3. Promise!SamePast(IF r = "CMD_REQ" THEN CmdBlocks[x] ELSE 0, cmdBuf'[CS], cmdBuf[CS])
    BY <2>2 DEF Promise!SamePast, Promise!ByteIdx, ByteIdx
  <2>. QED
    BY <2>1, <2>3 DEF Promise!Begin
<1>4. CASE Plain(s)
  <2>1. IrxSof(s) => cmdBuf' = cmdBuf
    BY DEF IrxSof, KeepMemory
  <2>2. bus[s].pc = "rx_sof"
    BY DEF Quiet
  <2>3. cmdBuf'[CS] = cmdBuf[CS] \/ RxTimeout \/ StartCommand \/ StartData
    BY <2>1, <2>2 DEF Step, Receive, Transmit, IrxHeaderFirst, IrxHeaderSecond, IrxData,
       IrxEofMissing, IrxEofInvalid, IrxEofForeign, IrxEofRequest, IrxEofResponse, Receives,
       ItxSof, ItxHeaderFirst, ItxHeaderSecond, ItxData, ItxEof, Transmits
  <2>4. CASE cmdBuf'[CS] = cmdBuf[CS]
    BY <1>4, <2>4, PlainPromise
  <2>5. CASE RxTimeout
    BY <1>2, <2>5 DEF Promise!Next
  <2>6. CASE StartCommand \/ StartData
    BY <1>3, <2>6 DEF StartCommand, StartData, Requests, Promise!Next
  <2>. QED
    BY <2>3, <2>4, <2>5, <2>6
<1>5. CASE s \in Devices /\ IrxEofRequest(s)
  BY <1>5 DEF Quiet, IrxEofRequest, Receives
<1>6. CASE IrxEofResponse(CS) \/ IrxEofInvalid(CS)
  BY <1>1, <1>6 DEF Quiet, IrxEofResponse, IrxEofInvalid, Receives
<1>7. CASE RxTimeout
  BY <1>2, <1>7 DEF Promise!Next
<1>8. CASE StartCommand \/ StartData
  BY <1>3, <1>8 DEF StartCommand, StartData, Requests, Promise!Next
<1>. QED
  BY <1>4, <1>5, <1>6, <1>7, <1>8, StepKinds

\* The whole bus.
LEMMA StepPromise ==
    ASSUME TypeOK, TypeOK', BusInv, [Next]_vars
    PROVE  [Promise!Next]_exchangeView
<1>1. ASSUME NEW s \in Systems, Step(s)
      PROVE  [Promise!Next]_exchangeView
  BY <1>1, QuietPromise, FramePromise DEF BusInv, LockStep
<1>2. CASE Carry
  BY <1>2 DEF Carry, BusTick, stateVars, memVars, exchangeView
<1>3. ASSUME NEW d \in Devices, ModelStep(d)
      PROVE  UNCHANGED exchangeView
  BY <1>3 DEF ModelStep, stateVars, memVars, exchangeView
<1>4. CASE UNCHANGED vars
  BY <1>4 DEF vars, stateVars, memVars, exchangeView
<1>. QED
  BY <1>1, <1>2, <1>3, <1>4 DEF Next

\* The byte machines of i_sys_algo.cpp implement the exchange the scheduler and
\* the memories count on: seen without bytes, frames and ticks, every run of a
\* bus that loses nothing is one of Exchange, for any systems, windows, payload
\* and timeout.
THEOREM RefinesExchange == Spec => IsExchange
<1>1. Init => Promise!Init
  <2>. SUFFICES ASSUME Init PROVE Promise!Init
    OBVIOUS
  <2>1. Blank = Promise!Blank /\ CS \in Systems
    BY DEF Blank, ByteIdx, Promise!Blank, Promise!ByteIdx, Systems
  <2>. QED
    BY <2>1 DEF Init, Promise!Init
<1>2. TypeOK /\ BusInv /\ TypeOK' /\ [Next]_vars =>
        [Promise!Next]_<<Promise!exchangeVars, Promise!memoryVars>>
  <2>. SUFFICES ASSUME TypeOK, BusInv, TypeOK', [Next]_vars
                PROVE  [Promise!Next]_<<Promise!exchangeVars, Promise!memoryVars>>
    OBVIOUS
  <2>1. Promise!Next \/ UNCHANGED exchangeView
    BY StepPromise
  <2>. QED
    BY <2>1 DEF exchangeView, Promise!exchangeVars, Promise!memoryVars
<1>. QED
  BY <1>1, <1>2, BusInvariant, PTL DEF Spec, IsExchange, Promise!Spec

-------------------------------------------------------------------------------
(* After a disturbance *)

\* A step of a system with which an exchange begins on a bus at rest.
LEMMA StepFromRest ==
    ASSUME TypeOK, NEW s \in Systems, Step(s), ~clean, clean'
    PROVE  Quiet /\ BusInv'
<1>1. StartCommand \/ StartData
  BY DEF Step, Receive, Transmit, RxTimeout, IrxSof, IrxHeaderFirst, IrxHeaderSecond, IrxData,
     IrxEofMissing, IrxEofInvalid, IrxEofForeign, IrxEofRequest, IrxEofResponse,
     ItxSof, ItxHeaderFirst, ItxHeaderSecond, ItxData, ItxEof, Transmits
<1>2. PICK x \in Nodes, request \in Requests : \E payload : StartExchange(x, request, payload)
  BY <1>1 DEF StartCommand, StartData, Requests
<1>3. PICK payload : StartExchange(x, request, payload)
  BY <1>2
<1>4. Quiet
  BY <1>3 DEF Quiet, AtRest, StartExchange
<1>5. LockStep' /\ ~served'
  BY <1>3, <1>4, Begin
<1>. QED
  BY <1>4, <1>5 DEF BusInv, CommandIntact

\* The inductive invariant of the noisy line: on a clean bus, that of a bus that
\* loses nothing.
CleanInv == clean => BusInv

LEMMA RecoveryStep ==
    ASSUME TypeOK, TypeOK', CleanInv, [NoisyNext]_vars
    PROVE  CleanInv' /\ [clean' => Promise!Next]_exchangeView
<1>1. CASE Next \/ UNCHANGED vars
  <2>1. CASE clean
    BY <1>1, <2>1, NextBus, StepPromise DEF CleanInv
  <2>2. CASE ~clean /\ clean'
    <3>1. PICK s \in Systems : Step(s)
      BY <1>1, <2>2 DEF Next, Carry, ModelStep, vars, lineVars
    <3>2. Quiet /\ BusInv'
      BY <2>2, <3>1, StepFromRest
    <3>. QED
      BY <3>1, <3>2, QuietPromise DEF CleanInv
  <2>3. CASE ~clean'
    BY <2>3 DEF CleanInv
  <2>. QED
    BY <2>1, <2>2, <2>3 DEF TypeOK, StateTypeOK
<1>2. CASE LoseByte \/ DamageByte
  BY <1>2 DEF LoseByte, DamageByte, Disturb, BusTick, stateVars, memVars, exchangeView, CleanInv
<1>. QED
  BY <1>1, <1>2 DEF NoisyNext

LEMMA RecoveryInvariant == NoisySpec => [](TypeOK /\ CleanInv)
<1>1. Init => TypeOK /\ CleanInv
  BY InitType, InitBus DEF CleanInv
<1>2. TypeOK /\ [NoisyNext]_vars => TypeOK'
  BY NextType
<1>3. TypeOK /\ CleanInv /\ TypeOK' /\ [NoisyNext]_vars => CleanInv'
  BY RecoveryStep
<1>. QED
  BY <1>1, <1>2, <1>3, PTL DEF NoisySpec

\* Whatever bytes the line has lost or damaged, and however many: an exchange that
\* begins on a bus at rest is in step, its success is that of its own request with
\* its own payload, its timeout means that nobody is there, and it has a result.
THEOREM ExchangesRecover == NoisySpec => []Recovered
<1>1. TypeOK /\ CleanInv => Recovered
  BY HonestyOfBus, LockStepInStep DEF CleanInv, BusInv, Recovered
<1>. QED
  BY <1>1, RecoveryInvariant, PTL

\* And from the step on with which it begins, the bus implements Exchange again.
THEOREM PromiseIsRestored == NoisySpec => PromiseRestored
<1>1. TypeOK /\ CleanInv /\ TypeOK' /\ [NoisyNext]_vars =>
        [clean' => Promise!Next]_<<Promise!exchangeVars, Promise!memoryVars>>
  BY RecoveryStep DEF exchangeView, Promise!exchangeVars, Promise!memoryVars
<1>. QED
  BY <1>1, RecoveryInvariant, PTL DEF NoisySpec, PromiseRestored

================================================================================
