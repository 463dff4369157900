------------------------------ MODULE MessageCodec ------------------------------
(*****************************************************************************)
(* How a value becomes bits of a message and a value again: the header word  *)
(* (i_msg_header.cpp), the fields and bytes of a block (i_msg_block.cpp), the *)
(* quantization of a parameter (i_par.cpp), the tables that say where each   *)
(* parameter and command lives (param_tab.hpp, command_tab.hpp) and the      *)
(* command helpers (i_cmd.cpp).                                              *)
(*                                                                           *)
(* These are pure functions: the module has no state.  It collects the       *)
(* counterexamples among bounded inputs, and the invariants of PssSystem say *)
(* that there are none.  Physical values are integers that count 1/Unit.     *)
(*****************************************************************************)
EXTENDS Integers, FiniteSets, Sequences, SequencesExt

Unit == 2    \* physical values are counted in halves

Word == 0 .. 2^16 - 1

\* The unions view_t: bits [off, off + width) of a 16-bit word, and the word
\* with those bits replaced (a bit field keeps the low bits of what it is given).
Bits(word, off, width) == (word \div 2^off) % 2^width
WithBits(word, off, width, v) ==
    word + ((v % 2^width) - Bits(word, off, width)) * 2^off

-------------------------------------------------------------------------------
(* The header word: parity, address, flag, marker, number of blocks *)

HeaderFields == [parity  |-> <<0, 1>>, addr |-> <<1, 5>>, flag |-> <<6, 2>>,
                 marker  |-> <<8, 3>>, nblocks |-> <<11, 5>>]
HeaderField(word, f) == Bits(word, HeaderFields[f][1], HeaderFields[f][2])

CalcParity(word) ==
    Cardinality({i \in 1 .. 15 : Bits(word, i, 1) = 1}) % 2

MakeHeader(h) ==
    LET word == (h.addr % 2^5) * 2^1 + (h.flag % 2^2) * 2^6
                  + (h.marker % 2^3) * 2^8 + (h.nblocks % 2^5) * 2^11
    IN  WithBits(word, 0, 1, CalcParity(word))

ParityOk(word) == HeaderField(word, "parity") = CalcParity(word)

ParseHeader(word) ==
    [f \in {"addr", "flag", "marker", "nblocks"} |-> HeaderField(word, f)]

-------------------------------------------------------------------------------
(* Fields, bytes and blocks *)

LayoutSupported(width, off) ==
    \/ width = 1 /\ off \in 0 .. 15
    \/ width = 8 /\ off \in {0, 8}
    \/ width = 16 /\ off = 0

HasField(blocks, n, off, width) == n \in DOMAIN blocks /\ LayoutSupported(width, off)

\* read_value and write_value, where HasField holds.
ReadValue(blocks, n, off, width) == Bits(blocks[n], off, width)

WriteValue(blocks, n, off, width, raw) ==
    [blocks EXCEPT ![n] =
        WithBits(@, off, width, IF width = 1 /\ raw # 0 THEN 1 ELSE raw)]

\* read_byte, write_byte: the low byte of a block goes first.
ReadByte(blocks, i) == Bits(blocks[i \div 2], 8 * (i % 2), 8)
WriteByte(blocks, i, b) ==
    IF i \div 2 \in DOMAIN blocks
    THEN [blocks EXCEPT ![i \div 2] = WithBits(@, 8 * (i % 2), 8, b)] ELSE blocks

\* copy_blocks: as many as both sides have.
\* Mutant: the offset in the destination is forgotten.
CopyBlocksFlat(dst, dstOff, src, srcOff, n) ==
    [k \in DOMAIN dst |->
        IF k < n /\ srcOff + k \in DOMAIN src THEN src[srcOff + k] ELSE dst[k]]
CopyBlocks(dst, dstOff, src, srcOff, n) ==
    [k \in DOMAIN dst |->
        IF k \in dstOff .. dstOff + n - 1 /\ srcOff + k - dstOff \in DOMAIN src
        THEN src[srcOff + k - dstOff] ELSE dst[k]]

Cleared(n) == [k \in 0 .. n - 1 |-> 0]

-------------------------------------------------------------------------------
(* Quantization.  An item is [width, signed, alg, a, b, c].                  *)

TypeWidth(type) == CASE type = "D" -> 1 [] type = "A" -> 8 [] type = "AP" -> 16

WireMin(item) == IF item.signed THEN -(2^(item.width - 1)) ELSE 0
WireMax(item) == IF item.signed THEN 2^(item.width - 1) - 1 ELSE 2^item.width - 1
WireRange(item) == WireMin(item) .. WireMax(item)

ClampWire(item, v) ==
    IF v < WireMin(item) THEN WireMin(item)
    ELSE IF v > WireMax(item) THEN WireMax(item) ELSE v

\* decode_raw: sign extension.  encode_to_bits: the low bits.
DecodeRaw(item, raw) ==
    IF item.signed /\ raw >= 2^(item.width - 1) THEN raw - 2^item.width ELSE raw
EncodeToBits(item, v) == v % 2^item.width

\* decode_processed: x = q, q + C, B*q + C, A*q^2 + C.
DecodeProcessed(item, q) ==
    CASE item.alg = "AN"  -> Unit * q
      [] item.alg = "AC"  -> Unit * q + item.c
      [] item.alg = "ABC" -> item.b * q + item.c
      [] item.alg = "AAC" -> item.a * q * q + item.c

\* Rounding of num / den, den > 0: down, up, to the nearest (halves away from 0).
FloorOf(num, den) == num \div den
CeilOf(num, den)  == -((-num) \div den)
RoundOf(num, den) ==
    IF num >= 0 THEN (2 * num + den) \div (2 * den)
    ELSE -((den - 2 * num) \div (2 * den))
\* Mutant: only the value rounded down is considered.
AroundFloor(num, den) == <<IF den > 0 THEN FloorOf(num, den) ELSE FloorOf(-num, -den)>>
Around(num, den) ==
    IF den > 0 THEN <<RoundOf(num, den), FloorOf(num, den), CeilOf(num, den)>>
    ELSE <<RoundOf(-num, -den), FloorOf(-num, -den), CeilOf(-num, -den)>>

\* The same around the square root of num / den, and around minus that root.
AroundRoots(num, den) ==
    LET n     == IF den > 0 THEN num ELSE -num
        d     == IF den > 0 THEN den ELSE -den
        floor == CHOOSE k \in 0 .. n : k * k * d <= n /\ (k + 1) * (k + 1) * d > n
        ceil  == IF floor * floor * d = n THEN floor ELSE floor + 1
        round == IF (2 * floor + 1) * (2 * floor + 1) * d <= 4 * n THEN ceil ELSE floor
    IN  <<round, floor, ceil, -round, -ceil, -floor>>

\* Where prepare_raw_value answers value_out_of_range instead of a value.
Refused(item, x) ==
    \/ item.alg = "ABC" /\ item.b = 0
    \/ item.alg = "AAC" /\ (item.a = 0 \/ (x - item.c) * item.a < 0)

Candidates(item, x) ==
    CASE item.alg = "AN"  -> Around(x, Unit)
      [] item.alg = "AC"  -> Around(x - item.c, Unit)
      [] item.alg = "ABC" -> Around(x - item.c, item.b)
      [] item.alg = "AAC" -> AroundRoots(x - item.c, item.a)

Distance(item, q, x) ==
    LET d == DecodeProcessed(item, q) - x IN IF d < 0 THEN -d ELSE d

\* prepare_raw_value: the first of the clamped candidates with the least error.
PrepareRaw(item, x) ==
    LET c    == Candidates(item, x)
        err  == [i \in DOMAIN c |-> Distance(item, ClampWire(item, c[i]), x)]
        best == Min({i \in DOMAIN c : \A j \in DOMAIN c : err[i] <= err[j]})
    IN  ClampWire(item, c[best])

-------------------------------------------------------------------------------
(* The tables: <<type, block offset, block, block inside CS>> of every       *)
(* parameter and command, by system.  "UP" is an unsigned 16-bit field; "AF" *)
(* the 8-bit field of a command with the algorithm AC and C = 10.  No other  *)
(* row has C # 0 or B # 1 (the powers of the fans CS reads have C = 0), so   *)
(* that all others are as with AN.                                           *)

SystemIds == <<"PSS", "TCS", "TMS", "MNS", "LS">>

ParamTab == [
    PSS |-> <<
        <<"D", 0, 0, 0>>, <<"D", 1, 0, 0>>, <<"D", 2, 0, 0>>, <<"D", 3, 0, 0>>,
        <<"D", 4, 0, 0>>, <<"D", 5, 0, 0>>, <<"A", 8, 0, 0>>, <<"AP", 0, 1, 1>>,
        <<"AP", 0, 2, 2>>, <<"A", 0, 3, 3>>, <<"A", 8, 3, 3>>, <<"A", 0, 4, 4>>,
        <<"A", 8, 4, 4>>, <<"A", 0, 5, 5>>, <<"A", 8, 5, 5>>, <<"A", 0, 6, 6>>,
        <<"A", 8, 6, 6>>, <<"AP", 0, 7, 7>>, <<"AP", 0, 8, 8>>, <<"A", 0, 9, 9>>,
        <<"A", 8, 9, 9>>, <<"A", 0, 10, 10>>, <<"A", 8, 10, 10>>,
        <<"A", 0, 11, 11>>, <<"A", 8, 11, 11>>, <<"A", 0, 12, 12>>,
        <<"A", 8, 12, 12>>, <<"A", 0, 13, 13>>, <<"A", 8, 13, 13>>,
        <<"A", 0, 14, 14>>, <<"A", 8, 14, 14>> >>,
    TCS |-> <<
        <<"D", 0, 0, 15>>, <<"D", 1, 0, 15>>, <<"D", 2, 0, 15>>, <<"D", 3, 0, 15>>,
        <<"D", 4, 0, 15>>, <<"A", 8, 0, 15>>, <<"UP", 0, 1, 16>>, <<"AP", 0, 2, 17>> >>,
    TMS |-> <<
        <<"D", 0, 0, 18>>, <<"A", 8, 0, 18>>, <<"A", 0, 1, 19>>, <<"A", 8, 1, 19>>,
        <<"A", 0, 2, 20>>, <<"A", 8, 2, 20>>, <<"AP", 0, 3, 21>> >>,
    MNS |-> << <<"D", 0, 0, 22>>, <<"A", 8, 0, 22>>, <<"AP", 0, 1, 23>> >>,
    LS  |-> << <<"D", 0, 0, 24>>, <<"A", 8, 0, 24>>, <<"AP", 0, 1, 25>> >>]

Switches(n, csBlock) == [i \in 1 .. n |-> <<"D", i - 1, 0, csBlock>>]

CommTab == [
    PSS |-> Switches(13, 0) \o <<
        <<"AP", 0, 1, 1>>, <<"AP", 0, 2, 2>>, <<"A", 0, 3, 3>>, <<"A", 8, 3, 3>>,
        <<"A", 0, 4, 4>>, <<"A", 8, 4, 4>>, <<"A", 0, 5, 5>>, <<"A", 8, 5, 5>>,
        <<"A", 0, 6, 6>>, <<"A", 8, 6, 6>>, <<"A", 0, 7, 7>> >>,
    TCS |-> Switches(11, 8) \o << <<"UP", 0, 1, 9>>, <<"A", 0, 2, 10>> >>,
    TMS |-> Switches(3, 11) \o <<
        <<"A", 8, 0, 11>>, <<"AF", 0, 1, 12>>, <<"AF", 8, 1, 12>>,
        <<"AF", 0, 2, 13>>, <<"AF", 8, 2, 13>> >>,
    MNS |-> Switches(3, 14) \o << <<"A", 8, 0, 14>> >>,
    LS  |-> Switches(3, 15) \o << <<"A", 8, 0, 15>> >>]

\* Blocks of the messages of each system, and of the two messages of CS.
PrmMsgBlocks == [PSS |-> 15, TCS |-> 3, TMS |-> 4, MNS |-> 2, LS |-> 2, CS |-> 26]
CmdMsgBlocks == [PSS |-> 8, TCS |-> 3, TMS |-> 3, MNS |-> 1, LS |-> 1, CS |-> 16]

ItemOf(row) ==
    [width  |-> TypeWidth(CASE row[1] = "UP" -> "AP" [] row[1] = "AF" -> "A"
                            [] OTHER -> row[1]),
     signed |-> row[1] = "AP",
     alg    |-> IF row[1] = "AF" THEN "AC" ELSE "AN",
     a      |-> 0, b |-> Unit, c |-> IF row[1] = "AF" THEN 10 * Unit ELSE 0]

-------------------------------------------------------------------------------
(* Which identifiers a system may parse and generate.  A parameter is        *)
(* <<"prm", system, index>>, a command <<"cmd", system, index>>.             *)

Ids(kind, tab) == UNION {{<<kind, s, i>> : i \in DOMAIN tab[s]} : s \in DOMAIN tab}
ParamIds == Ids("prm", ParamTab)
CommIds  == Ids("cmd", CommTab)
RowOf(id) == IF id[1] = "prm" THEN ParamTab[id[2]][id[3]] ELSE CommTab[id[2]][id[3]]

\* resolve_for_parse, resolve_for_generate: CS reads parameters and writes
\* commands; a device reads its own commands and writes its own parameters.
MayParse(sys, id) ==
    IF sys = "CS" THEN id \in ParamIds ELSE id \in CommIds /\ id[2] = sys
MayGenerate(sys, id) ==
    IF sys = "CS" THEN id \in CommIds ELSE id \in ParamIds /\ id[2] = sys

BlockOf(sys, id) == IF sys = "CS" THEN RowOf(id)[4] ELSE RowOf(id)[3]

\* fill_item_layout: the field must lie inside the message.
Resolves(sys, id, blocks) ==
    HasField(blocks, BlockOf(sys, id), RowOf(id)[2], ItemOf(RowOf(id)).width)

\* IMSGGET, IMSGSET, where they succeed.
RawAt(sys, id, blocks) ==
    ReadValue(blocks, BlockOf(sys, id), RowOf(id)[2], ItemOf(RowOf(id)).width)
IMSGGET(sys, id, blocks) ==
    LET item == ItemOf(RowOf(id))
    IN  DecodeProcessed(item, DecodeRaw(item, RawAt(sys, id, blocks)))
IMSGSET(sys, id, blocks, x) ==
    LET item == ItemOf(RowOf(id))
    IN  WriteValue(blocks, BlockOf(sys, id), RowOf(id)[2], item.width,
                   EncodeToBits(item, PrepareRaw(item, x)))

\* ICMDACT: a command is there if its field is not zero.  ICMDCLEAR.
ICMDACT(sys, id, blocks) == RawAt(sys, id, blocks) # 0
ICMDCLEAR(sys, id, blocks) ==
    WriteValue(blocks, BlockOf(sys, id), RowOf(id)[2], ItemOf(RowOf(id)).width, 0)

\* find_cs_param_base_block: where the window of a system starts inside the
\* MSG_PRM of CS.
PrmBase(sys) == Min({ParamTab[sys][i][4] : i \in DOMAIN ParamTab[sys]})

-------------------------------------------------------------------------------
(* The way of a message: fields into the window of a node, bytes over the bus *)

\* The bus carries the first n blocks byte by byte into the buffer dst.
Carried(src, dst, n) ==
    LET buf[i \in 0 .. 2 * n] ==
            IF i = 0 THEN dst ELSE WriteByte(buf[i - 1], i - 1, ReadByte(src, i - 1))
    IN  buf[2 * n]

\* merge_nonzero_cmd_fields of a device and merge_command_window_to_buffer of
\* CS: every command of dev that is not zero in src, which is laid out as sys lays
\* it out, overwrites the one in dst, which is laid out as the device does.
\* Mutant: a command takes the place it has inside CS.
MergeFieldInPlace(dev, sys, src, i, buf) ==
    LET id == <<"cmd", dev, i>>
    IN  IF RawAt(sys, id, src) = 0 \/ BlockOf("CS", id) \notin DOMAIN buf THEN buf
        ELSE WriteValue(buf, BlockOf("CS", id), RowOf(id)[2], ItemOf(RowOf(id)).width,
                        RawAt(sys, id, src))
MergeField(dev, sys, src, i, buf) ==
    LET id == <<"cmd", dev, i>>
    IN  IF RawAt(sys, id, src) = 0 THEN buf
        ELSE WriteValue(buf, BlockOf(dev, id), RowOf(id)[2], ItemOf(RowOf(id)).width,
                        RawAt(sys, id, src))

Merged(dev, sys, src, dst) ==
    LET buf[i \in 0 .. Len(CommTab[dev])] ==
            IF i = 0 THEN dst ELSE MergeField(dev, sys, src, i, buf[i - 1])
    IN  buf[Len(CommTab[dev])]

-------------------------------------------------------------------------------
(* Bounded inputs *)

SampleHeaders ==
    [addr : {0, 1, 3, 31}, flag : 0 .. 3, marker : {0, 5}, nblocks : {0, 1, 26}]
SampleWords  == {0, 2^16 - 1, 21845}
SampleValues == {-70001, -256, -3, -1, 0, 1, 2, 3, 20, 21, 22, 511, 512, 65535, 140001}
Filled(n, word) == [k \in 0 .. n - 1 |-> word]

Item(signed, alg, a, b, c) ==
    [width |-> 8, signed |-> signed, alg |-> alg, a |-> a, b |-> b, c |-> c]
SampleItems ==
    {Item(s, "AN", 0, 0, 0) : s \in BOOLEAN}
      \cup {Item(s, "AC", 0, 0, c) : s \in BOOLEAN, c \in {-5, 20}}
      \cup {Item(s, "ABC", 0, b, 3) : s \in BOOLEAN, b \in {-3, 0, 1, 5}}
      \cup {Item(s, "AAC", a, 0, 4) : s \in BOOLEAN, a \in {-1, 0, 3}}
QuantizedValues == -45 .. 45 \cup {-2001, -600, -257, 255, 256, 257, 509, 511, 600, 1281, 2001}

-------------------------------------------------------------------------------
(* Counterexamples, which TLC computes once: the invariants of PssSystem say  *)
(* that there are none.                                                      *)

\* Bit n of a word turned over.
Flip(word, n) == WithBits(word, n, 1, 1 - Bits(word, n, 1))

\* Headers that do not arrive as they were made, or whose damage in an odd
\* number of bits goes unnoticed.
LostHeaders ==
    {sample \in SampleHeaders \X SampleWords :
        LET h    == sample[1]
            old  == sample[2]
            sent == [k \in {0} |-> MakeHeader(h)]
            got  == Carried(sent, [k \in {0} |-> old], 1)[0]
        IN  \/ ~ParityOk(got) \/ ParseHeader(got) # h
            \/ \E i \in 0 .. 15, j, k \in {0, 7, 8, 15} :
                  ParityOk(Flip(Flip(Flip(got, i), j), k))}

\* Values with a better raw value than the one prepare_raw_value finds.
FarQuantized ==
    {sample \in SampleItems \X QuantizedValues :
        LET item == sample[1]
            x    == sample[2]
            best == PrepareRaw(item, x)
        IN  /\ ~Refused(item, x)
            /\ \/ DecodeRaw(item, EncodeToBits(item, best)) # best
               \/ \E q \in WireRange(item) : Distance(item, q, x) < Distance(item, best, x)}

\* Values CS reads wrong, or that disturb another parameter.
WrongTelemetry ==
    {sample \in ParamIds \X SampleValues \X {0, 2^16 - 1} :
        LET id    == sample[1]
            x     == sample[2]
            stale == sample[3]
            dev  == id[2]
            n    == PrmMsgBlocks[dev]
            own  == IMSGSET(dev, id, Filled(n, stale), x)
            buf  == Carried(own, Filled(PrmMsgBlocks.PSS, stale), n)
            old  == Filled(PrmMsgBlocks.CS, stale)
            new  == CopyBlocks(old, PrmBase(dev), buf, 0, n)
            item == ItemOf(RowOf(id))
        IN  ~(/\ MayGenerate(dev, id) /\ MayParse("CS", id)
              /\ Resolves(dev, id, own) /\ Resolves("CS", id, new)
              /\ IMSGGET("CS", id, new) = DecodeProcessed(item, PrepareRaw(item, x))
              /\ \A other \in ParamIds \ {id} :
                    RawAt("CS", other, new) = RawAt("CS", other, old))}

\* Commands the device does not see as CS sent them.
WrongCommands ==
    {sample \in CommIds \X {-3, 1, 2, 20, 22, 140001} :
        LET id   == sample[1]
            x    == sample[2]
            dev  == id[2]
            n    == CmdMsgBlocks[dev]
            item == ItemOf(RowOf(id))
            raw  == PrepareRaw(item, x)
            mine == {c \in CommIds : c[2] = dev}
        IN  ~(/\ MayGenerate("CS", id) /\ MayParse(dev, id)
              /\ \A mate \in mine \ {id} :
                    LET cs  == IMSGSET("CS", mate,
                                       IMSGSET("CS", id, Cleared(CmdMsgBlocks.CS), x), 140001)
                        buf == Merged(dev, "CS", cs, Cleared(CmdMsgBlocks.PSS))
                        got == Merged(dev, dev, Carried(buf, Filled(n, 2^16 - 1), n), Cleared(n))
                        Seen(blocks) == {c \in mine : ICMDACT(dev, c, blocks)}
                    IN  /\ Resolves("CS", id, cs) /\ Resolves(dev, id, got)
                        /\ Seen(got) = {mate} \cup IF raw = 0 THEN {} ELSE {id}
                        /\ IMSGGET(dev, id, got) = DecodeProcessed(item, raw)
                        /\ Seen(ICMDCLEAR(dev, id, got)) = {mate})}

================================================================================
