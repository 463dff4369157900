---------------------------- MODULE PssSystemProofs ----------------------------
(*****************************************************************************)
(* Proofs about the power supply system, for any rails, loads, commands and  *)
(* frames: what a step of the software owes to the commands it began with,   *)
(* while the model moves and CPSSINIT races with it.  And about the values   *)
(* of these states, which fit the fields of their messages and arrive; what  *)
(* holds of all values is proved in MessageCodecProofs.                      *)
(*****************************************************************************)
EXTENDS PssSystem, MessageCodecProofs

Reset       == <<"model", "init">>
SwitchOn(p) == <<p, "on">>
SwitchOff(p) == <<p, "off">>
Limit       == <<"PSSMAXA", "value">>

\* The commands of the table but CPSSINIT.
OwnCommands ==
    {SwitchOn(r) : r \in Rails} \cup {SwitchOff(r) : r \in Rails}
      \cup {SwitchOn("PSSECO"), SwitchOff("PSSECO"), Limit}

-------------------------------------------------------------------------------
(* The invariant *)

Executing == pc \in {"commands", "init", "export"}

CommandsTyped == cmd \in [Commands -> Nat] /\ asked \in [Commands -> Nat]

IsModel(m) ==
    m \in [Params -> Nat] /\ \A p \in Params \ {"PSSMAXA", "PSSA"} : m[p] \in {0, 1}

\* The model thread races only with the CPSSINIT of this step, which has loaded
\* the defaults, and while it does the software gets no further than the first
\* parameter to export.
RaceSound ==
    /\ IsModel(seen)
    /\ pc = "init" => fresh /\ Waiting(Reset)
    /\ mpc = "locked" => /\ fresh /\ Asked(Reset)
                         /\ pc \in {"init", "commands"} \/ (pc = "export" /\ index = 1)

\* In a step commands are only ever taken away, CPSSINIT first.
QueueSound ==
    /\ Executing => powered
    /\ Executing \/ pc = "exchange" => \A c \in Commands : cmd[c] \in {0, asked[c]}
    /\ Executing /\ (Waiting(Reset) \/ mpc = "locked") =>
           \A c \in Commands \cap OwnCommands : cmd[c] = asked[c]
    /\ pc = "export" \/ (pc = "exchange" /\ powered) => NoneWaiting(CommandOrder)

\* What the commands taken away have done.
Done(c) == Asked(c) /\ cmd[c] = 0

Obeyed ==
    (Executing \/ (pc = "exchange" /\ powered)) /\ moved # "init" =>
        /\ \A r \in Rails :
              /\ Done(SwitchOff(r)) => model[r] = 0 /\ ~Waiting(SwitchOn(r))
              /\ Done(SwitchOn(r)) /\ ~Asked(SwitchOff(r)) =>
                    model[r] = 1 \/ model["PSSPWR"] = 0
        /\ Done(Limit) => model["PSSMAXA"] = Unit * asked[Limit]
        /\ Done(Reset) \/ (pc = "init" /\ index > 1) =>
              model["PSSPWR"] = 0 \/ moved = "step"

\* A rail that is on without power, and not by the defaults: its command came
\* too late in this step, or the power went in this step and the rail is going.
RailsDown ==
    ~fresh /\ model["PSSPWR"] = 0 =>
        \A r \in Rails : model[r] # 0 =>
            \/ (Executing \/ pc \in {"exchange", "power"}) /\ Asked(SwitchOn(r))
            \/ pc = "power" /\ ~Waiting(SwitchOn("PSSPWR"))
            \/ pc = "cut" /\ \E i \in index .. Len(RailOrder) : RailOrder[i] = r

\* What has been exported, and that the power has been on since the step began.
Exporting ==
    /\ pc = "export" /\ moved = "nothing" =>
           \A i \in 1 .. index - 1 : LET p == ParamOrder[i] IN
               p \in Reported => prm[p] = OnWire(p, model[p])
    /\ Executing => model["PSSPWR"] # 0 \/ Asked(Reset) \/ moved = "init"

IInv ==
    /\ TypeOK /\ CommandsTyped /\ RaceSound /\ QueueSound /\ Obeyed /\ RailsDown
    /\ Exporting /\ TelemetryFresh

-------------------------------------------------------------------------------
(* The tables *)

\* The rails are those of their order.
LEMMA Rail ==
    /\ Len(RailOrder) \in Nat /\ RailOrder \in [1 .. Len(RailOrder) -> Rails]
    /\ \A r \in Rails : \E i \in 1 .. Len(RailOrder) : RailOrder[i] = r
    /\ Rails \cap {"PSSPWR", "PSSECO", "PSSMAXA", "PSSA"} = {}
<1>1. RailOrder \in Seq(Rails) /\ {RailOrder[i] : i \in DOMAIN RailOrder} = Rails
  BY RailsAssumption
<1>2. DOMAIN RailOrder = 1 .. Len(RailOrder)
  BY <1>1
<1>. QED
  BY <1>1, <1>2, RailsAssumption

\* The order of the parameters: all of them, the main power first.
LEMMA ParamTable ==
    /\ Len(ParamOrder) = Len(RailOrder) + 4
    /\ ParamOrder[1] = "PSSPWR"
    /\ \A i \in 1 .. Len(ParamOrder) : ParamOrder[i] \in Params
    /\ \A p \in Params : \E i \in 1 .. Len(ParamOrder) : ParamOrder[i] = p
<1>. DEFINE n    == Len(RailOrder)
            head == <<"PSSPWR">>
            tail == <<"PSSECO", "PSSMAXA", "PSSA">>
<1>1. /\ head \in Seq(Params) /\ RailOrder \in Seq(Params) /\ tail \in Seq(Params)
      /\ Len(head) = 1 /\ Len(tail) = 3 /\ n \in Nat
  BY Rail, RailsAssumption DEF Params
<1>2. /\ head \o RailOrder \in Seq(Params) /\ Len(head \o RailOrder) = n + 1
      /\ (head \o RailOrder)[1] = "PSSPWR"
      /\ \A i \in 1 .. n : (head \o RailOrder)[i + 1] = RailOrder[i]
  BY <1>1, ConcatProperties
<1>3. /\ ParamOrder \in Seq(Params) /\ Len(ParamOrder) = n + 4
      /\ \A i \in 1 .. n + 1 : ParamOrder[i] = (head \o RailOrder)[i]
      /\ \A i \in 1 .. 3 : ParamOrder[n + 1 + i] = tail[i]
  BY <1>1, <1>2, ConcatProperties DEF ParamOrder
<1>4. \A i \in 1 .. Len(ParamOrder) : ParamOrder[i] \in Params
  BY <1>3
<1>5. ASSUME NEW p \in Params PROVE \E i \in 1 .. Len(ParamOrder) : ParamOrder[i] = p
  <2>1. CASE p \in Rails
    <3>1. PICK i \in 1 .. n : RailOrder[i] = p
      BY <2>1, Rail
    <3>2. i + 1 \in 1 .. n + 1 /\ i + 1 \in 1 .. Len(ParamOrder)
      BY <1>1, <1>3
    <3>3. ParamOrder[i + 1] = p
      BY <1>2, <1>3, <3>1, <3>2
    <3>. QED
      BY <3>2, <3>3
  <2>2. CASE p = "PSSPWR"
    BY <1>1, <1>2, <1>3, <2>2
  <2>3. CASE p \in {"PSSECO", "PSSMAXA", "PSSA"}
    <3>1. \E i \in 1 .. 3 : tail[i] = p
      BY <2>3
    <3>. QED
      BY <1>1, <1>3, <3>1
  <2>. QED
    BY <2>1, <2>2, <2>3 DEF Params
<1>6. ParamOrder[1] = "PSSPWR"
  <2>1. 1 \in 1 .. n + 1
    BY <1>1
  <2>. QED
    BY <1>2, <1>3, <2>1
<1>. QED
  BY <1>3, <1>4, <1>5, <1>6

\* The table of the commands: CPSSINIT first, and "on" of a rail before its "off".
LEMMA CommandTable ==
    /\ DOMAIN CommandOrder = 1 .. Len(CommandOrder) /\ Len(CommandOrder) \in Nat \ {0}
    /\ CommandOrder[1] = Reset
    /\ \A i \in 2 .. Len(CommandOrder) : CommandOrder[i] \in OwnCommands
    /\ \A c \in OwnCommands : \E i \in 1 .. Len(CommandOrder) : CommandOrder[i] = c
    /\ \A i \in 1 .. Len(CommandOrder), r \in Rails : CommandOrder[i] = SwitchOff(r) =>
          i > 1 /\ CommandOrder[i - 1] = SwitchOn(r)
<1>. DEFINE n    == 2 * Len(RailOrder)
            head == << Reset >>
            body == RailCommands("on", "off")
            tail == << SwitchOn("PSSECO"), SwitchOff("PSSECO"), Limit >>
            All  == OwnCommands \cup {Reset}
<1>1. /\ n \in Nat /\ body = [k \in 1 .. n |-> <<RailOrder[(k + 1) \div 2], IF k % 2 = 1 THEN "on" ELSE "off">>]
      /\ \A k \in 1 .. n : (k + 1) \div 2 \in 1 .. Len(RailOrder)
  BY Rail DEF RailCommands
<1>2. \A k \in 1 .. n : body[k] = IF k % 2 = 1 THEN SwitchOn(RailOrder[(k + 1) \div 2])
                                  ELSE SwitchOff(RailOrder[(k + 1) \div 2])
  BY <1>1 DEF SwitchOn, SwitchOff
<1>3. \A k \in 1 .. n : body[k] \in OwnCommands
  BY <1>1, <1>2, Rail DEF OwnCommands
<1>4. /\ head \in Seq(All) /\ body \in Seq(All) /\ tail \in Seq(All)
      /\ Len(head) = 1 /\ Len(body) = n /\ Len(tail) = 3
  BY <1>1, <1>3 DEF OwnCommands
<1>. HIDE DEF body, All
<1>. DEFINE left == head \o body
<1>5. /\ left \in Seq(All) /\ Len(left) = n + 1
      /\ left[1] = Reset
      /\ \A i \in 2 .. n + 1 : left[i] = body[i - 1]
  BY <1>1, <1>4, ConcatProperties
<1>6. CommandOrder = left \o tail
  BY DEF CommandOrder, Reset, SwitchOn, SwitchOff, Limit, body
<1>. HIDE DEF n, head, tail, left
<1>7. /\ CommandOrder \in Seq(All) /\ Len(CommandOrder) = Len(left) + Len(tail)
      /\ \A i \in 1 .. Len(left) + Len(tail) :
            CommandOrder[i] = IF i <= Len(left) THEN left[i] ELSE tail[i - Len(left)]
  BY <1>4, <1>5, <1>6, ConcatProperties
<1>8. /\ Len(CommandOrder) = n + 4 /\ DOMAIN CommandOrder = 1 .. Len(CommandOrder)
      /\ CommandOrder[1] = Reset
      /\ \A i \in 2 .. n + 1 : CommandOrder[i] = body[i - 1]
  <2>1. Len(CommandOrder) = n + 4 /\ DOMAIN CommandOrder = 1 .. Len(CommandOrder)
    BY <1>1, <1>4, <1>5, <1>7
  <2>2. \A i \in 1 .. n + 1 : CommandOrder[i] = left[i]
    BY <1>1, <1>4, <1>5, <1>7
  <2>3. 1 \in 1 .. n + 1 /\ \A i \in 2 .. n + 1 : i \in 1 .. n + 1
    BY <1>1
  <2>. QED
    BY <1>5, <2>1, <2>2, <2>3
<1>9. /\ CommandOrder[n + 2] = SwitchOn("PSSECO") /\ CommandOrder[n + 3] = SwitchOff("PSSECO")
      /\ CommandOrder[n + 4] = Limit
  <2>1. \A j \in 1 .. 3 : CommandOrder[n + 1 + j] = tail[j]
    <3>. SUFFICES ASSUME NEW j \in 1 .. 3 PROVE CommandOrder[n + 1 + j] = tail[j]
      OBVIOUS
    <3>1. /\ n + 1 + j \in 1 .. Len(left) + Len(tail)
          /\ ~(n + 1 + j <= Len(left)) /\ n + 1 + j - Len(left) = j
          /\ Len(left) \in Nat /\ Len(tail) \in Nat /\ n \in Nat
      BY <1>1, <1>4, <1>5
    <3>2. \A i \in 1 .. Len(left) + Len(tail) :
            ~(i <= Len(left)) => CommandOrder[i] = tail[i - Len(left)]
      BY <1>7
    <3>. QED
      BY <3>1, <3>2
  <2>2. n + 1 + 1 = n + 2 /\ n + 1 + 2 = n + 3 /\ n + 1 + 3 = n + 4
    BY <1>1
  <2>. QED
    BY <2>1, <2>2 DEF tail
<1>10. ASSUME NEW i \in 2 .. Len(CommandOrder) PROVE CommandOrder[i] \in OwnCommands
  <2>1. i \in 2 .. n + 1 \/ i \in {n + 2, n + 3, n + 4}
    BY <1>1, <1>8
  <2>2. CASE i \in 2 .. n + 1
    <3>1. i - 1 \in 1 .. n
      BY <1>1, <2>2
    <3>. QED
      BY <1>3, <1>8, <2>2, <3>1
  <2>3. CASE i \in {n + 2, n + 3, n + 4}
    BY <1>9, <2>3 DEF OwnCommands
  <2>. QED
    BY <2>1, <2>2, <2>3
<1>11. ASSUME NEW r \in Rails
       PROVE  \E i \in 2 .. n : CommandOrder[i] = SwitchOn(r) /\ CommandOrder[i + 1] = SwitchOff(r)
  <2>1. PICK j \in 1 .. Len(RailOrder) : RailOrder[j] = r
    BY Rail
  <2>2. /\ 2 * j \in 2 .. n /\ 2 * j - 1 \in 1 .. n /\ 2 * j \in 1 .. n
        /\ (2 * j - 1 + 1) \div 2 = j /\ (2 * j + 1) \div 2 = j
        /\ (2 * j - 1) % 2 = 1 /\ (2 * j) % 2 # 1
    BY Rail DEF n
  <2>3. body[2 * j - 1] = SwitchOn(r) /\ body[2 * j] = SwitchOff(r)
    BY <1>2, <2>1, <2>2
  <2>4. 2 * j \in 2 .. n + 1 /\ 2 * j + 1 \in 2 .. n + 1 /\ 2 * j + 1 - 1 = 2 * j
    BY <1>1, <2>2
  <2>5. CommandOrder[2 * j] = body[2 * j - 1] /\ CommandOrder[2 * j + 1] = body[2 * j]
    BY <1>8, <2>4
  <2>. QED
    BY <2>2, <2>3, <2>5
<1>12. \A c \in OwnCommands : \E i \in 1 .. Len(CommandOrder) : CommandOrder[i] = c
  <2>1. \A r \in Rails : /\ \E i \in 1 .. Len(CommandOrder) : CommandOrder[i] = SwitchOn(r)
                         /\ \E i \in 1 .. Len(CommandOrder) : CommandOrder[i] = SwitchOff(r)
    <3>1. \A i \in 2 .. n : i \in 1 .. Len(CommandOrder) /\ i + 1 \in 1 .. Len(CommandOrder)
      BY <1>1, <1>8
    <3>. QED
      BY <1>11, <3>1
  <2>. QED
    <3>1. {n + 2, n + 3, n + 4} \subseteq 1 .. Len(CommandOrder)
      BY <1>1, <1>8
    <3>. QED
      BY <1>9, <2>1, <3>1 DEF OwnCommands
<1>13. ASSUME NEW i \in 1 .. Len(CommandOrder), NEW r \in Rails, CommandOrder[i] = SwitchOff(r)
       PROVE  i > 1 /\ CommandOrder[i - 1] = SwitchOn(r)
  <2>1. i \in 2 .. n + 1
    <3>1. i # 1 /\ i # n + 2 /\ i # n + 3 /\ i # n + 4
      BY <1>8, <1>9, <1>13, Rail DEF SwitchOff, SwitchOn, Reset, Limit
    <3>. QED
      BY <1>1, <1>8, <3>1
  <2>2. i - 1 \in 1 .. n /\ CommandOrder[i] = body[i - 1]
    BY <1>1, <1>8, <2>1
  <2>3. (i - 1) % 2 # 1 /\ RailOrder[(i - 1 + 1) \div 2] = r
    <3>1. body[i - 1] = SwitchOff(r)
      BY <1>13, <2>2
    <3>2. \A q, q2 : SwitchOn(q) # SwitchOff(q2) /\ (SwitchOff(q) = SwitchOff(q2) => q = q2)
      BY DEF SwitchOn, SwitchOff
    <3>. QED
      BY <1>2, <2>2, <3>1, <3>2
  <2>4. i - 1 > 1 /\ i - 2 \in 1 .. n /\ (i - 2) % 2 = 1 /\ (i - 2 + 1) \div 2 = (i - 1 + 1) \div 2
    <3>1. PICK m \in Int : i - 1 = 2 * m
      <4>1. i - 1 \in Nat
        BY <1>1, <2>2
      <4>2. \A k \in Nat : k % 2 # 1 => k = 2 * (k \div 2) /\ k \div 2 \in Int
        OBVIOUS
      <4>. QED
        BY <2>3, <4>1, <4>2
    <3>2. m >= 1 /\ i = 2 * m + 1 /\ i - 1 > 1
      BY <1>1, <2>2, <3>1
    <3>3. i - 2 = 2 * m - 1 /\ i - 2 + 1 = 2 * m /\ i - 1 + 1 = 2 * m + 1
      BY <3>2
    <3>4. (2 * m - 1) % 2 = 1 /\ (2 * m) \div 2 = m /\ (2 * m + 1) \div 2 = m
      BY <3>1
    <3>5. i - 2 \in 1 .. n
      BY <1>1, <2>2, <3>2
    <3>6. (i - 2) % 2 = 1 /\ (i - 2 + 1) \div 2 = m /\ (i - 1 + 1) \div 2 = m
      BY <3>3, <3>4
    <3>. QED
      BY <3>2, <3>5, <3>6
  <2>5. body[i - 2] = SwitchOn(r)
    BY <1>2, <2>3, <2>4
  <2>6. i - 1 \in 2 .. n + 1 /\ i - 1 - 1 = i - 2
    BY <1>1, <2>2, <2>4
  <2>. QED
    BY <1>8, <2>1, <2>5, <2>6
<1>. QED
  BY <1>1, <1>8, <1>10, <1>12, <1>13

\* What the loop over the commands meets next.
LEMMA FirstOf ==
    ASSUME NEW c, FirstWaiting(CommandOrder, c)
    PROVE  /\ c \in Commands /\ cmd[c] # 0 /\ c \in OwnCommands \cup {Reset}
           /\ c # Reset => c \in OwnCommands /\ ~Waiting(Reset)
           /\ \A r \in Rails : c = SwitchOff(r) => ~Waiting(SwitchOn(r))
<1>1. PICK i \in 1 .. Len(CommandOrder) :
        /\ CommandOrder[i] = c /\ Waiting(c)
        /\ \A j \in 1 .. i - 1 : ~Waiting(CommandOrder[j])
  BY CommandTable DEF FirstWaiting
<1>2. i = 1 \/ i \in 2 .. Len(CommandOrder)
  BY CommandTable
<1>3. c \in OwnCommands \cup {Reset}
  BY <1>1, <1>2, CommandTable
<1>4. c # Reset => ~Waiting(Reset)
  <2>1. i \in 2 .. Len(CommandOrder) => 1 \in 1 .. i - 1
    BY CommandTable
  <2>. QED
    BY <1>1, <1>2, <2>1, CommandTable
<1>5. ASSUME NEW r \in Rails, c = SwitchOff(r) PROVE ~Waiting(SwitchOn(r))
  <2>1. i > 1 /\ CommandOrder[i - 1] = SwitchOn(r)
    BY <1>1, <1>5, CommandTable
  <2>2. i - 1 \in 1 .. i - 1
    BY <2>1
  <2>. QED
    BY <1>1, <2>1, <2>2
<1>. QED
  BY <1>1, <1>3, <1>4, <1>5 DEF Waiting

\* No command of the table waits: neither CPSSINIT nor any other.
LEMMA NoneOf == NoneWaiting(CommandOrder) <=> \A c \in OwnCommands \cup {Reset} : ~Waiting(c)
<1>1. ASSUME NoneWaiting(CommandOrder), NEW c \in OwnCommands \cup {Reset}
      PROVE  ~Waiting(c)
  <2>1. PICK i \in 1 .. Len(CommandOrder) : CommandOrder[i] = c
    <3>1. 1 \in 1 .. Len(CommandOrder)
      BY CommandTable
    <3>. QED
      BY <3>1, CommandTable
  <2>. QED
    BY <1>1, <2>1, CommandTable DEF NoneWaiting
<1>2. ASSUME \A c \in OwnCommands \cup {Reset} : ~Waiting(c)
      PROVE  NoneWaiting(CommandOrder)
  <2>1. \A i \in 1 .. Len(CommandOrder) : CommandOrder[i] \in OwnCommands \cup {Reset}
    <3>1. \A i \in 1 .. Len(CommandOrder) : i = 1 \/ i \in 2 .. Len(CommandOrder)
      BY CommandTable
    <3>. QED
      BY <3>1, CommandTable
  <2>. QED
    BY <1>2, <2>1, CommandTable DEF NoneWaiting
<1>. QED
  BY <1>1, <1>2

\* Of the power commands "on" comes first.
LEMMA PowerTable ==
    /\ \A c : FirstWaiting(PowerOrder, c) =>
         /\ c \in Commands /\ cmd[c] # 0
         /\ c = SwitchOn("PSSPWR") \/ (c = SwitchOff("PSSPWR") /\ ~Waiting(SwitchOn("PSSPWR")))
    /\ NoneWaiting(PowerOrder) => ~Waiting(SwitchOn("PSSPWR"))
<1>1. /\ DOMAIN PowerOrder = 1 .. 2 /\ PowerOrder[1] = SwitchOn("PSSPWR")
      /\ PowerOrder[2] = SwitchOff("PSSPWR")
  BY DEF PowerOrder, SwitchOn, SwitchOff
<1>2. ASSUME NEW c, FirstWaiting(PowerOrder, c)
      PROVE  /\ c \in Commands /\ cmd[c] # 0
             /\ c = SwitchOn("PSSPWR") \/ (c = SwitchOff("PSSPWR") /\ ~Waiting(SwitchOn("PSSPWR")))
  <2>1. PICK i \in 1 .. 2 : /\ PowerOrder[i] = c /\ Waiting(c)
                            /\ \A j \in 1 .. i - 1 : ~Waiting(PowerOrder[j])
    BY <1>1, <1>2 DEF FirstWaiting
  <2>2. i = 2 => 1 \in 1 .. i - 1
    OBVIOUS
  <2>. QED
    BY <1>1, <2>1, <2>2 DEF Waiting
<1>. QED
  BY <1>1, <1>2 DEF NoneWaiting

-------------------------------------------------------------------------------
(* The values of the parameters *)

\* The switches are bytes that hold 0 or 1, the limit and the current are floats.
LEMMA Bindings ==
    ASSUME NEW p \in Params
    PROVE  IF p \in {"PSSMAXA", "PSSA"}
           THEN Binding[p].kind = "f32" /\ Binding[p].domain = "plain"
           ELSE Binding[p].kind = "u8" /\ Binding[p].domain = "binary"
<1>1. Binding[p] = [id |-> 0, kind |-> ISIMKIND(Type(p)), domain |-> ISIMDOMAIN(Type(p))]
  BY DEF Binding, ISIMREG_BUILD
<1>. QED
  BY <1>1 DEF ISIMKIND, ISIMDOMAIN, Type

\* What a command writes.
LEMMA OrderedValue ==
    /\ \A p \in Params \ {"PSSMAXA", "PSSA"} :
          Ordered(SwitchOn(p)) = 1 /\ Ordered(SwitchOff(p)) = 0
    /\ CommandsTyped /\ Limit \in Commands =>
          Ordered(Limit) = Unit * cmd[Limit] /\ Ordered(Limit) \in Nat
<1>1. ASSUME NEW p \in Params \ {"PSSMAXA", "PSSA"}
      PROVE  Ordered(SwitchOn(p)) = 1 /\ Ordered(SwitchOff(p)) = 0
  <2>1. Binding[p].kind = "u8" /\ Binding[p].domain = "binary"
    BY Bindings
  <2>2. ClampKind("u8", 1) = 1 /\ ClampKind("u8", 0) = 0
    BY DEF ClampKind, Between
  <2>3. /\ Ordered(SwitchOn(p)) = ISIMSETI32(Binding[p], 1)
        /\ Ordered(SwitchOff(p)) = ISIMSETI32(Binding[p], 0)
    BY DEF Ordered, SwitchOn, SwitchOff
  <2>. QED
    BY <2>1, <2>2, <2>3 DEF ISIMSETI32, WriteTyped
<1>2. ASSUME CommandsTyped, Limit \in Commands
      PROVE  Ordered(Limit) = Unit * cmd[Limit] /\ Ordered(Limit) \in Nat
  <2>1. Binding["PSSMAXA"].kind = "f32" /\ Binding["PSSMAXA"].domain = "plain"
    BY Bindings DEF Params
  <2>2. Ordered(Limit) = ISIMSETF32(Binding["PSSMAXA"], Unit * cmd[Limit])
    BY DEF Ordered, Limit
  <2>3. Ordered(Limit) = Unit * cmd[Limit]
    BY <2>1, <2>2 DEF ISIMSETF32, WriteTyped
  <2>. QED
    BY <1>2, <2>3 DEF CommandsTyped, Unit
<1>. QED
  BY <1>1, <1>2

\* The image of a finite set is finite.
LEMMA Image ==
    ASSUME NEW S, IsFiniteSet(S), NEW T, NEW f \in [S -> T], \A y \in T : \E x \in S : f[x] = y
    PROVE  IsFiniteSet(T)
<1>1. f \in Surjection(S, T)
  BY DEF Surjection
<1>. QED
  BY <1>1, FS_Surjection

\* What the rails draw is a number, for there are finitely many.
LEMMA LoadType ==
    ASSUME NEW m
    PROVE  TotalLoad(m) \in Nat
<1>. DEFINE on     == {q \in Rails : m[q] # 0}
            units(r) == {<<r, unit>> : unit \in 1 .. Load[r]}
            drawn  == UNION {units(r) : r \in on}
<1>1. IsFiniteSet(Rails)
  <2>1. IsFiniteSet(1 .. Len(RailOrder))
    BY Rail, FS_Interval
  <2>. QED
    BY <2>1, Rail, Image
<1>2. IsFiniteSet(on)
  BY <1>1, FS_Subset
<1>3. ASSUME NEW r \in on PROVE IsFiniteSet(units(r))
  <2>. DEFINE range == 1 .. Load[r]
              drawnBy == units(r)
              unitOf == [unit \in range |-> <<r, unit>>]
  <2>1. IsFiniteSet(range)
    BY RailsAssumption, FS_Interval
  <2>2. unitOf \in [range -> drawnBy]
    OBVIOUS
  <2>3. \A y \in drawnBy : \E unit \in range : unitOf[unit] = y
    OBVIOUS
  <2>. HIDE DEF range, drawnBy, unitOf
  <2>4. IsFiniteSet(drawnBy)
    BY <2>1, <2>2, <2>3, Image
  <2>. QED
    BY <2>4 DEF drawnBy
<1>. HIDE DEF units
<1>4. IsFiniteSet({units(r) : r \in on})
  <2>. DEFINE all == {units(r) : r \in on}
              unitsOf == [r \in on |-> units(r)]
  <2>1. unitsOf \in [on -> all]
    OBVIOUS
  <2>2. \A y \in all : \E r \in on : unitsOf[r] = y
    OBVIOUS
  <2>. HIDE DEF unitsOf, all, on
  <2>3. IsFiniteSet(all)
    BY <1>2, <2>1, <2>2, Image
  <2>. QED
    BY <2>3 DEF all
<1>5. IsFiniteSet(drawn)
  BY <1>3, <1>4, FS_UNION
<1>6. Cardinality(drawn) \in Nat
  BY <1>5, FS_CardinalityType
<1>. QED
  BY <1>6 DEF TotalLoad, units

\* What a step of the model does.
LEMMA PhysicsEffect ==
    ASSUME NEW m, IsModel(m)
    PROVE  /\ IsModel(Physics(m))
           /\ \A p \in Params \ (Rails \cup {"PSSA"}) : Physics(m)[p] = m[p]
           /\ \A r \in Rails : Physics(m)[r] = IF m["PSSPWR"] = 0 THEN 0 ELSE m[r]
<1>1. \A p \in Params : Physics(m)[p] =
         IF p = "PSSA" THEN IF m["PSSPWR"] = 0 THEN 0 ELSE Limited(m, TotalLoad(m))
         ELSE IF p \in Rails /\ m["PSSPWR"] = 0 THEN 0 ELSE m[p]
  BY DEF Physics
<1>2. Limited(m, TotalLoad(m)) \in Nat
  BY LoadType DEF IsModel, Limited, Params
<1>3. Physics(m) \in [Params -> Nat]
  BY <1>2 DEF Physics, IsModel
<1>. QED
  BY <1>1, <1>2, <1>3, Rail DEF IsModel, Params
-------------------------------------------------------------------------------
(* The invariant holds at the start *)

LEMMA DefaultsType == IsModel(Defaults) /\ Defaults["PSSPWR"] = 0
  BY Rail, RailsAssumption DEF IsModel, Defaults, Params

LEMMA InitInvariant == Init => IInv
<1>. SUFFICES ASSUME Init PROVE IInv
  OBVIOUS
<1>. USE DEF Init
<1>1. Len(ParamOrder) \in Nat /\ Len(ParamOrder) >= 4
  BY Rail, ParamTable
<1>2. TypeOK
  <2>1. /\ model \in [Params -> Nat]
        /\ \A p \in Params \ {"PSSMAXA", "PSSA"} : model[p] \in {0, 1}
        /\ seen \in [Params -> Nat]
    BY DefaultsType DEF IsModel
  <2>2. DOMAIN cmd = Commands /\ DOMAIN asked = Commands /\ DOMAIN prm = Reported
    BY DEF NoCommands
  <2>3. index \in 1 .. Len(ParamOrder) + 1 /\ from \in 1 .. Len(ParamOrder) + 1
    BY <1>1
  <2>. QED
    BY <2>1, <2>2, <2>3 DEF TypeOK
<1>3. CommandsTyped
  BY DEF CommandsTyped, NoCommands
<1>4. RaceSound /\ QueueSound /\ Obeyed /\ RailsDown /\ Exporting /\ TelemetryFresh
  BY DefaultsType DEF RaceSound, QueueSound, Obeyed, RailsDown, Exporting, TelemetryFresh,
     Executing
<1>. QED
  BY <1>2, <1>3, <1>4 DEF IInv

-------------------------------------------------------------------------------
(* The steps of the software preserve it *)

LEMMA StartStep == ASSUME IInv, Start PROVE IInv'
<1>. USE DEF Start, simVars
<1>1. TypeOK' /\ CommandsTyped' /\ RaceSound'
  BY DEF IInv, TypeOK, CommandsTyped, RaceSound, PowerOn, LockFree, Executing, Waiting, Asked
<1>2. QueueSound'
  BY DEF IInv, QueueSound, Executing, CommandsTyped, TypeOK, PowerOn, LockFree
<1>3. Obeyed'
  BY DEF Obeyed, Done, Asked, PowerOn
<1>4. RailsDown'
  BY DEF IInv, RailsDown, Executing
<1>5. Exporting' /\ TelemetryFresh'
  BY DEF Exporting, TelemetryFresh, PowerOn, Executing
<1>. QED
  BY <1>1, <1>2, <1>3, <1>4, <1>5 DEF IInv

LEMMA StartInitStep == ASSUME IInv, StartInit PROVE IInv'
<1>. USE DEF StartInit, simVars
<1>1. Reset \in Commands /\ Waiting(Reset)
  BY FirstOf DEF Reset, Waiting
<1>2. Len(ParamOrder) \in Nat /\ Len(ParamOrder) >= 4
  BY Rail, ParamTable
<1>3. TypeOK' /\ CommandsTyped'
  BY <1>2 DEF IInv, TypeOK, CommandsTyped
<1>4. RaceSound'
  BY <1>1 DEF IInv, RaceSound, Waiting, Asked
<1>5. QueueSound'
  BY DEF IInv, QueueSound, Executing, Waiting
<1>6. Obeyed'
  BY DEF IInv, Obeyed, Executing, Done, Asked, Waiting
<1>7. RailsDown'
  BY DEF RailsDown
<1>8. Exporting' /\ TelemetryFresh'
  BY DEF IInv, Exporting, TelemetryFresh, Executing, Asked
<1>. QED
  BY <1>3, <1>4, <1>5, <1>6, <1>7, <1>8 DEF IInv

LEMMA StartExportStep == ASSUME IInv, StartExport PROVE IInv'
<1>. USE DEF StartExport, simVars
<1>2. Len(ParamOrder) \in Nat /\ Len(ParamOrder) >= 4
  BY Rail, ParamTable
<1>3. TypeOK' /\ CommandsTyped'
  BY <1>2 DEF IInv, TypeOK, CommandsTyped
<1>4. RaceSound'
  BY DEF IInv, RaceSound, Waiting, Asked
<1>5. QueueSound'
  BY DEF IInv, QueueSound, Executing, Waiting, NoneWaiting
<1>6. Obeyed'
  BY DEF IInv, Obeyed, Executing, Done, Asked, Waiting
<1>7. RailsDown'
  BY DEF IInv, RailsDown, Executing, Asked
<1>8. Exporting' /\ TelemetryFresh'
  BY DEF IInv, Exporting, TelemetryFresh, Executing, Asked
<1>. QED
  BY <1>3, <1>4, <1>5, <1>6, <1>7, <1>8 DEF IInv

LEMMA EndExportStep == ASSUME IInv, EndExport PROVE IInv'
<1>. USE DEF EndExport, simVars
<1>2. Len(ParamOrder) \in Nat /\ Len(ParamOrder) >= 4
  BY Rail, ParamTable
<1>3. TypeOK' /\ CommandsTyped'
  BY <1>2 DEF IInv, TypeOK, CommandsTyped
<1>4. RaceSound'
  BY <1>2 DEF IInv, RaceSound, Waiting, Exported, Asked
<1>5. QueueSound'
  BY DEF IInv, QueueSound, Executing, Waiting, NoneWaiting
<1>6. Obeyed'
  BY DEF IInv, Obeyed, Executing, Done, Asked, Waiting
<1>7. RailsDown'
  BY DEF IInv, RailsDown, Executing, Asked
<1>8. Exporting'
  BY DEF Exporting, Executing
<1>9. TelemetryFresh'
  <2>. SUFFICES ASSUME moved = "nothing", NEW p \in Reported
                PROVE  prm[p] = OnWire(p, model[p])
    BY DEF TelemetryFresh
  <2>1. PICK i \in 1 .. Len(ParamOrder) : ParamOrder[i] = p
    BY ParamTable, RailsAssumption DEF Params
  <2>2. i \in 1 .. index - 1
    BY <1>2 DEF IInv, TypeOK, Exported
  <2>. QED
    BY <2>1, <2>2 DEF IInv, Exporting
<1>. QED
  BY <1>3, <1>4, <1>5, <1>6, <1>7, <1>8, <1>9 DEF IInv

LEMMA InitParamStep == ASSUME IInv, InitParam PROVE IInv'
<1>. USE DEF InitParam, simVars
<1>1. Len(ParamOrder) \in Nat /\ Len(ParamOrder) >= 4 /\ ParamOrder[index] \in Params
  BY Rail, ParamTable DEF IInv, TypeOK
<1>2. IsModel(model')
  BY <1>1, DefaultsType DEF IInv, TypeOK, IsModel
<1>3. TypeOK' /\ CommandsTyped'
  BY <1>1, <1>2 DEF IInv, TypeOK, CommandsTyped, IsModel
<1>4. RaceSound'
  BY DEF IInv, RaceSound, Waiting, Asked
<1>5. QueueSound'
  BY DEF IInv, QueueSound, Executing, Waiting
<1>6. \A c \in Commands \cap (OwnCommands \cup {Reset}) : ~Done(c)
  BY DEF IInv, RaceSound, QueueSound, Executing, Done, Asked, Waiting
<1>7. model'["PSSPWR"] = 0 \/ (index > 1 /\ model'["PSSPWR"] = model["PSSPWR"])
  BY <1>1, ParamTable, DefaultsType DEF IInv, TypeOK, Params
<1>8. Obeyed'
  <2>1. SUFFICES ASSUME moved # "init"
                 PROVE  /\ \A r \in Rails : ~Done(SwitchOff(r)) /\ ~Done(SwitchOn(r))
                        /\ ~Done(Limit) /\ ~Done(Reset)
                        /\ model'["PSSPWR"] = 0 \/ moved = "step"
    BY DEF Obeyed, Done, Asked
  <2>2. \A r \in Rails : ~Done(SwitchOff(r)) /\ ~Done(SwitchOn(r))
    BY <1>6 DEF OwnCommands, Done, Asked
  <2>3. ~Done(Limit) /\ ~Done(Reset)
    BY <1>6 DEF OwnCommands, Done, Asked
  <2>4. model'["PSSPWR"] = 0 \/ moved = "step"
    BY <1>7, <2>1 DEF IInv, Obeyed, Executing
  <2>. QED
    BY <2>2, <2>3, <2>4
<1>9. RailsDown'
  BY DEF IInv, RaceSound, RailsDown
<1>10. Exporting' /\ TelemetryFresh'
  BY DEF IInv, RaceSound, QueueSound, Exporting, TelemetryFresh, Executing, Asked, Waiting
<1>. QED
  BY <1>3, <1>4, <1>5, <1>8, <1>9, <1>10 DEF IInv

LEMMA EndInitStep == ASSUME IInv, EndInit PROVE IInv'
<1>. USE DEF EndInit, simVars
<1>1. Len(ParamOrder) \in Nat /\ Len(ParamOrder) >= 4
  BY Rail, ParamTable
<1>2. Reset \in Commands /\ cmd' = [cmd EXCEPT ![Reset] = 0]
  BY DEF IInv, RaceSound, Waiting, Reset
<1>3. \A c \in OwnCommands : c # Reset
  BY DEF OwnCommands, Reset, SwitchOn, SwitchOff, Limit
<1>4. TypeOK' /\ CommandsTyped'
  <2>. HIDE DEF EndInit
  <2>1. cmd \in [Commands -> Nat]
    BY DEF IInv, CommandsTyped
  <2>2. cmd' \in [Commands -> Nat]
    BY <1>2, <2>1
  <2>3. DOMAIN cmd' = Commands
    BY <2>2
  <2>. QED
    BY <1>1, <2>2, <2>3 DEF IInv, TypeOK, CommandsTyped, EndInit
<1>5. RaceSound'
  <2>1. IsModel(seen)'
    BY DEF IInv, RaceSound, IsModel
  <2>2. mpc' = "locked" => fresh' /\ Asked(Reset)'
    BY DEF IInv, RaceSound, Asked
  <2>. QED
    BY <2>1, <2>2 DEF RaceSound
<1>6. \A c \in Commands \cap OwnCommands : cmd'[c] = cmd[c] /\ cmd[c] = asked[c]
  BY <1>2, <1>3 DEF IInv, RaceSound, QueueSound, Executing, CommandsTyped
<1>7. \A c \in Commands : cmd'[c] \in {0, asked[c]}
  BY <1>2 DEF IInv, QueueSound, Executing, CommandsTyped
<1>8. QueueSound'
  BY <1>6, <1>7 DEF IInv, QueueSound, Executing
<1>9. Obeyed'
  <2>. SUFFICES ASSUME moved # "init"
                PROVE  /\ \A r \in Rails : ~Done(SwitchOff(r))' /\ ~Done(SwitchOn(r))'
                       /\ ~Done(Limit)'
                       /\ model["PSSPWR"] = 0 \/ moved = "step"
    BY DEF Obeyed
  <2>1. \A c \in OwnCommands : ~Done(c)'
    BY <1>6 DEF Done, Asked
  <2>2. Limit \in OwnCommands /\ \A r \in Rails : SwitchOff(r) \in OwnCommands /\ SwitchOn(r) \in OwnCommands
    BY DEF OwnCommands
  <2>3. model["PSSPWR"] = 0 \/ moved = "step"
    BY <1>1 DEF IInv, Obeyed, Executing, TypeOK
  <2>. QED
    BY <2>1, <2>2, <2>3
<1>10. RailsDown'
  BY DEF IInv, RaceSound, RailsDown
<1>11. Exporting' /\ TelemetryFresh'
  BY DEF IInv, Exporting, TelemetryFresh, Executing, Asked
<1>. QED
  BY <1>4, <1>5, <1>8, <1>9, <1>10, <1>11 DEF IInv

LEMMA ExportParamStep == ASSUME IInv, ExportParam PROVE IInv'
<1>. USE DEF ExportParam, simVars
<1>1. /\ Len(ParamOrder) \in Nat /\ Len(ParamOrder) >= 4 /\ ParamOrder[index] \in Params
      /\ index \in 1 .. Len(ParamOrder)
  BY Rail, ParamTable DEF IInv, TypeOK, Exported
<1>2. TypeOK' /\ CommandsTyped'
  BY <1>1 DEF IInv, TypeOK, CommandsTyped
<1>3. RaceSound'
  BY DEF IInv, RaceSound, Waiting, LockFree, Asked
<1>4. QueueSound'
  BY DEF IInv, QueueSound, Executing, Waiting, NoneWaiting
<1>5. Obeyed'
  BY DEF IInv, Obeyed, Executing, Done, Asked, Waiting
<1>6. RailsDown'
  BY DEF IInv, RailsDown, Executing, Asked
<1>7. Exporting'
  <2>1. ASSUME moved = "nothing", NEW i \in 1 .. index' - 1, ParamOrder[i] \in Reported
        PROVE  prm'[ParamOrder[i]] = OnWire(ParamOrder[i], model[ParamOrder[i]])
    <3>1. i = index \/ i \in 1 .. index - 1
      BY <1>1
    <3>2. i \in 1 .. index - 1 => prm[ParamOrder[i]] = OnWire(ParamOrder[i], model[ParamOrder[i]])
      BY <2>1 DEF IInv, Exporting
    <3>. QED
      BY <2>1, <3>1, <3>2 DEF IInv, TypeOK
  <2>2. Executing' => model'["PSSPWR"] # 0 \/ Asked(Reset)' \/ moved' = "init"
    BY DEF IInv, Exporting, Executing, Asked
  <2>3. moved' = moved /\ model' = model
    OBVIOUS
  <2>. QED
    BY <2>1, <2>2, <2>3 DEF Exporting, OnWire
<1>8. TelemetryFresh'
  BY DEF TelemetryFresh
<1>. QED
  BY <1>2, <1>3, <1>4, <1>5, <1>6, <1>7, <1>8 DEF IInv

LEMMA ExchangeStep == ASSUME IInv, Exchange PROVE IInv'
<1>. USE DEF Exchange, simVars
<1>1. cmd' \in [Commands -> Nat]
  <2>1. cmd \in [Commands -> Nat]
    BY DEF IInv, CommandsTyped
  <2>2. ASSUME NEW f \in Frames
        PROVE  [c \in Commands |-> IF f[c] # 0 THEN f[c] ELSE cmd[c]] \in [Commands -> Nat]
    <3>1. f \in [Commands -> Nat]
      BY RailsAssumption
    <3>. QED
      BY <2>1, <3>1
  <2>. QED
    BY <2>1, <2>2
<1>2. TypeOK' /\ CommandsTyped'
  BY <1>1 DEF IInv, TypeOK, CommandsTyped
<1>3. RaceSound' /\ QueueSound' /\ Obeyed'
  BY DEF IInv, RaceSound, QueueSound, Obeyed, Executing, Asked
<1>4. RailsDown'
  BY DEF IInv, RailsDown, Executing, Asked
<1>5. Exporting' /\ TelemetryFresh'
  BY DEF Exporting, TelemetryFresh, Executing
<1>. QED
  BY <1>2, <1>3, <1>4, <1>5 DEF IInv

LEMMA EndPowerStep == ASSUME IInv, EndPower PROVE IInv'
<1>. USE DEF EndPower, simVars
<1>1. Len(ParamOrder) \in Nat /\ Len(ParamOrder) >= 4
  BY Rail, ParamTable
<1>2. TypeOK' /\ CommandsTyped'
  BY <1>1 DEF IInv, TypeOK, CommandsTyped
<1>3. RaceSound' /\ QueueSound' /\ Obeyed'
  BY DEF IInv, RaceSound, QueueSound, Obeyed, Executing, LockFree, Asked
<1>4. RailsDown'
  BY Rail DEF RailsDown, Cuts
<1>5. Exporting' /\ TelemetryFresh'
  BY DEF Exporting, TelemetryFresh, Executing
<1>. QED
  BY <1>2, <1>3, <1>4, <1>5 DEF IInv

LEMMA CutRailStep == ASSUME IInv, CutRail PROVE IInv'
<1>. USE DEF CutRail, simVars
<1>1. /\ Len(RailOrder) \in Nat /\ index \in 1 .. Len(RailOrder)
      /\ RailOrder[index] \in Rails /\ Len(ParamOrder) = Len(RailOrder) + 4
  BY Rail, ParamTable DEF IInv, TypeOK
<1>2. IsModel(model')
  BY <1>1 DEF IInv, TypeOK, IsModel
<1>3. TypeOK' /\ CommandsTyped'
  BY <1>1, <1>2 DEF IInv, TypeOK, CommandsTyped, IsModel
<1>4. RaceSound' /\ QueueSound' /\ Obeyed'
  BY DEF IInv, RaceSound, QueueSound, Obeyed, Executing, LockFree, Asked
<1>5. RailsDown'
  <2>. SUFFICES ASSUME ~fresh, model'["PSSPWR"] = 0, NEW r \in Rails, model'[r] # 0
                PROVE  \E i \in index' .. Len(RailOrder) : RailOrder[i] = r
    BY DEF RailsDown
  <2>1. model["PSSPWR"] = 0 /\ model[r] # 0 /\ r # RailOrder[index]
    BY <1>1, Rail DEF IInv, TypeOK, Params
  <2>2. PICK i \in index .. Len(RailOrder) : RailOrder[i] = r
    BY <2>1 DEF IInv, RailsDown, Executing
  <2>. QED
    BY <1>1, <2>1, <2>2
<1>6. Exporting' /\ TelemetryFresh'
  BY DEF Exporting, TelemetryFresh, Executing
<1>. QED
  BY <1>3, <1>4, <1>5, <1>6 DEF IInv

LEMMA EndCutStep == ASSUME IInv, EndCut PROVE IInv'
<1>. USE DEF EndCut, simVars
<1>1. Len(ParamOrder) \in Nat /\ Len(RailOrder) \in Nat
  BY Rail, ParamTable
<1>2. TypeOK' /\ CommandsTyped'
  BY <1>1 DEF IInv, TypeOK, CommandsTyped
<1>3. RaceSound' /\ QueueSound' /\ Obeyed'
  BY DEF IInv, RaceSound, QueueSound, Obeyed, Executing, Asked
<1>4. RailsDown'
  BY <1>1 DEF IInv, TypeOK, RailsDown, Executing
<1>5. Exporting' /\ TelemetryFresh'
  BY DEF Exporting, TelemetryFresh, Executing
<1>. QED
  BY <1>2, <1>3, <1>4, <1>5 DEF IInv

\* What a command writes, and that it is taken away.
LEMMA Written ==
    ASSUME IInv, NEW c \in Commands, SetAndClear(c),
           \/ c = Limit
           \/ \E p \in Params \ {"PSSMAXA", "PSSA"} : c \in {SwitchOn(p), SwitchOff(p)}
    PROVE  /\ IsModel(model')
           /\ cmd' \in [Commands -> Nat] /\ DOMAIN cmd' = Commands
           /\ cmd'[c] = 0 /\ \A d \in Commands \ {c} : cmd'[d] = cmd[d]
           /\ \A p \in Params \ {"PSSMAXA", "PSSA"} :
                 model'[p] = IF c = SwitchOn(p) THEN 1
                             ELSE IF c = SwitchOff(p) THEN 0 ELSE model[p]
           /\ model'["PSSMAXA"] = IF c = Limit THEN Unit * cmd[Limit] ELSE model["PSSMAXA"]
<1>. DEFINE Toggles == Params \ {"PSSMAXA", "PSSA"}
<1>1. /\ cmd \in [Commands -> Nat] /\ IsModel(model) /\ "PSSMAXA" \in Params
      /\ model' = [model EXCEPT ![c[1]] = Ordered(c)] /\ cmd' = [cmd EXCEPT ![c] = 0]
  BY DEF IInv, TypeOK, CommandsTyped, IsModel, SetAndClear, Params
<1>2. cmd' \in [Commands -> Nat] /\ cmd'[c] = 0 /\ \A d \in Commands \ {c} : cmd'[d] = cmd[d]
  BY <1>1
<1>3. DOMAIN cmd' = Commands
  BY <1>2
<1>4. CASE c = Limit
  <2>1. Ordered(c) = Unit * cmd[Limit] /\ Ordered(c) \in Nat /\ c[1] = "PSSMAXA"
    BY <1>4, OrderedValue DEF IInv, Limit
  <2>2. \A p : c # SwitchOn(p) /\ c # SwitchOff(p)
    BY <1>4 DEF Limit, SwitchOn, SwitchOff
  <2>. QED
    BY <1>1, <1>2, <1>3, <1>4, <2>1, <2>2 DEF IsModel
<1>5. CASE \E p \in Toggles : c = SwitchOn(p)
  <2>1. PICK p \in Toggles : c = SwitchOn(p)
    BY <1>5
  <2>2. Ordered(c) = 1 /\ c[1] = p
    BY <2>1, OrderedValue DEF SwitchOn
  <2>3. c # Limit /\ \A q : (c = SwitchOn(q) <=> q = p) /\ c # SwitchOff(q)
    BY <2>1 DEF Limit, SwitchOn, SwitchOff
  <2>. QED
    BY <1>1, <1>2, <1>3, <2>2, <2>3 DEF IsModel
<1>6. CASE \E p \in Toggles : c = SwitchOff(p)
  <2>1. PICK p \in Toggles : c = SwitchOff(p)
    BY <1>6
  <2>2. Ordered(c) = 0 /\ c[1] = p
    BY <2>1, OrderedValue DEF SwitchOff
  <2>3. c # Limit /\ \A q : (c = SwitchOff(q) <=> q = p) /\ c # SwitchOn(q)
    BY <2>1 DEF Limit, SwitchOn, SwitchOff
  <2>. QED
    BY <1>1, <1>2, <1>3, <2>2, <2>3 DEF IsModel
<1>. QED
  BY <1>4, <1>5, <1>6

LEMMA ExecuteCommandStep ==
    ASSUME IInv, NEW c \in Commands, ExecuteCommand(c)
    PROVE  IInv'
<1>. DEFINE Toggles == Params \ {"PSSMAXA", "PSSA"}
<1>1. /\ c \in OwnCommands /\ cmd[c] # 0 /\ ~Waiting(Reset)
      /\ \A r \in Rails : c = SwitchOff(r) => ~Waiting(SwitchOn(r))
  BY FirstOf DEF ExecuteCommand, Reset
<1>2. c # Reset /\ c # SwitchOn("PSSPWR") /\ c # SwitchOff("PSSPWR")
  BY <1>1, Rail DEF OwnCommands, Reset, SwitchOn, SwitchOff, Limit
<1>3. c = Limit \/ \E p \in Toggles : c \in {SwitchOn(p), SwitchOff(p)}
  BY <1>1, Rail DEF OwnCommands, Params
<1>4. /\ IsModel(model')
      /\ cmd' \in [Commands -> Nat] /\ DOMAIN cmd' = Commands
      /\ cmd'[c] = 0 /\ \A d \in Commands \ {c} : cmd'[d] = cmd[d]
      /\ \A p \in Toggles : model'[p] = IF c = SwitchOn(p) THEN 1
                                         ELSE IF c = SwitchOff(p) THEN 0 ELSE model[p]
      /\ model'["PSSMAXA"] = IF c = Limit THEN Unit * cmd[Limit] ELSE model["PSSMAXA"]
  BY <1>3, Written DEF ExecuteCommand
<1>5. Rails \subseteq Toggles /\ "PSSPWR" \in Toggles /\ model'["PSSPWR"] = model["PSSPWR"]
  BY <1>2, <1>4, Rail DEF Params
<1>6. /\ pc = "commands" /\ mpc # "locked" /\ pc' = pc /\ mpc' = mpc /\ index' = index
      /\ prm' = prm /\ powered' = powered /\ asked' = asked /\ seen' = seen /\ from' = from
      /\ moved' = moved /\ fresh' = fresh
  BY DEF ExecuteCommand, SetAndClear, LockFree, simVars
<1>7. cmd[c] = asked[c] /\ Asked(c) /\ cmd \in [Commands -> Nat] /\ asked \in [Commands -> Nat]
  BY <1>1, <1>6 DEF IInv, QueueSound, Executing, Asked, CommandsTyped
<1>8. TypeOK' /\ CommandsTyped'
  BY <1>4, <1>6 DEF IInv, TypeOK, CommandsTyped, IsModel
<1>9. RaceSound'
  BY <1>6 DEF IInv, RaceSound, IsModel, Asked
<1>10. QueueSound'
  <2>1. \A d \in Commands : cmd'[d] \in {0, asked[d]}
    BY <1>4, <1>6 DEF IInv, QueueSound, Executing
  <2>2. ~Waiting(Reset)'
    BY <1>1, <1>2, <1>4 DEF Waiting
  <2>. QED
    BY <1>6, <2>1, <2>2 DEF IInv, QueueSound, Executing
<1>11. Obeyed'
  <2>. SUFFICES ASSUME moved # "init"
                PROVE  /\ \A r \in Rails :
                            /\ Done(SwitchOff(r))' => model'[r] = 0 /\ ~Waiting(SwitchOn(r))'
                            /\ Done(SwitchOn(r))' /\ ~Asked(SwitchOff(r)) =>
                                  model'[r] = 1 \/ model'["PSSPWR"] = 0
                       /\ Done(Limit)' => model'["PSSMAXA"] = Unit * asked[Limit]
                       /\ Done(Reset)' => model'["PSSPWR"] = 0 \/ moved = "step"
    BY <1>6 DEF Obeyed, Asked
  <2>1. \A d \in Commands \ {c} : Done(d)' => Done(d)
    BY <1>4, <1>6 DEF Done, Asked
  <2>2. ASSUME NEW r \in Rails, Done(SwitchOff(r))'
        PROVE  model'[r] = 0 /\ ~Waiting(SwitchOn(r))'
    <3>1. CASE c = SwitchOff(r)
      <4>1. c # SwitchOn(r)
        BY <3>1 DEF SwitchOn, SwitchOff
      <4>. QED
        BY <1>1, <1>4, <1>5, <3>1, <4>1 DEF Waiting
    <3>2. CASE c # SwitchOff(r)
      <4>1. Done(SwitchOff(r))
        BY <2>1, <2>2, <3>2 DEF Done, Asked
      <4>2. model[r] = 0 /\ ~Waiting(SwitchOn(r))
        BY <1>6, <4>1 DEF IInv, Obeyed, Executing
      <4>. QED
        BY <1>1, <1>4, <1>5, <4>2 DEF Waiting
    <3>. QED
      BY <3>1, <3>2
  <2>3. ASSUME NEW r \in Rails, Done(SwitchOn(r))', ~Asked(SwitchOff(r))
        PROVE  model'[r] = 1 \/ model'["PSSPWR"] = 0
    <3>1. CASE c = SwitchOn(r)
      BY <1>4, <1>5, <3>1
    <3>2. CASE c # SwitchOn(r)
      <4>1. Done(SwitchOn(r))
        BY <2>1, <2>3, <3>2 DEF Done, Asked
      <4>2. model[r] = 1 \/ model["PSSPWR"] = 0
        BY <1>6, <2>3, <4>1 DEF IInv, Obeyed, Executing
      <4>3. c # SwitchOff(r)
        BY <1>7, <2>3
      <4>. QED
        BY <1>4, <1>5, <3>2, <4>2, <4>3
    <3>. QED
      BY <3>1, <3>2
  <2>4. ASSUME Done(Limit)' PROVE model'["PSSMAXA"] = Unit * asked[Limit]
    <3>1. c # Limit => Done(Limit)
      BY <2>1, <2>4 DEF Done, Asked
    <3>. QED
      BY <1>4, <1>6, <1>7, <3>1 DEF IInv, Obeyed, Executing
  <2>5. ASSUME Done(Reset)' PROVE model'["PSSPWR"] = 0 \/ moved = "step"
    <3>1. Done(Reset)
      BY <1>2, <2>1, <2>5 DEF Done, Asked
    <3>. QED
      BY <1>5, <1>6, <3>1 DEF IInv, Obeyed, Executing
  <2>. QED
    BY <2>2, <2>3, <2>4, <2>5
<1>12. RailsDown'
  <2>. SUFFICES ASSUME ~fresh, model["PSSPWR"] = 0, NEW r \in Rails, model'[r] # 0
                PROVE  Asked(SwitchOn(r))
    BY <1>5, <1>6 DEF RailsDown, Executing, Asked
  <2>1. c = SwitchOn(r) \/ model[r] # 0
    BY <1>4, <1>5
  <2>. QED
    BY <1>6, <1>7, <2>1 DEF IInv, RailsDown, Executing
<1>13. Exporting' /\ TelemetryFresh'
  BY <1>5, <1>6 DEF IInv, Exporting, TelemetryFresh, Executing, Asked
<1>. QED
  BY <1>8, <1>9, <1>10, <1>11, <1>12, <1>13 DEF IInv

LEMMA ExecutePowerStep ==
    ASSUME IInv, NEW c \in Commands, ExecutePower(c)
    PROVE  IInv'
<1>. DEFINE Toggles == Params \ {"PSSMAXA", "PSSA"}
<1>1. c = SwitchOn("PSSPWR") \/ (c = SwitchOff("PSSPWR") /\ ~Waiting(SwitchOn("PSSPWR")))
  BY PowerTable DEF ExecutePower
<1>2. "PSSPWR" \in Toggles /\ Rails \subseteq Toggles
  BY Rail DEF Params
<1>3. /\ IsModel(model')
      /\ cmd' \in [Commands -> Nat] /\ DOMAIN cmd' = Commands
      /\ cmd'[c] = 0 /\ \A d \in Commands \ {c} : cmd'[d] = cmd[d]
      /\ \A p \in Toggles : model'[p] = IF c = SwitchOn(p) THEN 1
                                         ELSE IF c = SwitchOff(p) THEN 0 ELSE model[p]
  BY <1>1, <1>2, Written DEF ExecutePower
<1>4. \A r \in Rails : c # SwitchOn(r) /\ c # SwitchOff(r) /\ model'[r] = model[r]
  <2>1. \A r \in Rails : c # SwitchOn(r) /\ c # SwitchOff(r)
    BY <1>1, Rail DEF SwitchOn, SwitchOff
  <2>. QED
    BY <1>2, <1>3, <2>1
<1>5. /\ pc = "power" /\ mpc # "locked" /\ pc' = pc /\ mpc' = mpc /\ index' = index
      /\ prm' = prm /\ powered' = powered /\ asked' = asked /\ seen' = seen /\ from' = from
      /\ moved' = moved /\ fresh' = fresh
  BY DEF ExecutePower, SetAndClear, LockFree, simVars
<1>6. TypeOK' /\ CommandsTyped'
  BY <1>3, <1>5 DEF IInv, TypeOK, CommandsTyped, IsModel
<1>7. RaceSound'
  BY <1>5 DEF IInv, RaceSound, IsModel, Asked
<1>8. QueueSound' /\ Obeyed' /\ Exporting' /\ TelemetryFresh'
  BY <1>5 DEF QueueSound, Obeyed, Exporting, TelemetryFresh, Executing
<1>9. RailsDown'
  <2>. SUFFICES ASSUME model'["PSSPWR"] = 0
                PROVE  ~Waiting(SwitchOn("PSSPWR"))'
    BY <1>5 DEF RailsDown
  <2>1. c = SwitchOff("PSSPWR") /\ c # SwitchOn("PSSPWR")
    BY <1>1, <1>2, <1>3 DEF SwitchOn, SwitchOff
  <2>. QED
    BY <1>1, <1>3, <2>1 DEF Waiting
<1>. QED
  BY <1>6, <1>7, <1>8, <1>9 DEF IInv

-------------------------------------------------------------------------------
(* The steps of the model preserve it *)

LEMMA SimInitStep == ASSUME IInv, SimInit PROVE IInv'
<1>. USE DEF SimInit, sysVars
<1>1. TypeOK' /\ CommandsTyped'
  BY DefaultsType DEF IInv, TypeOK, CommandsTyped, IsModel
<1>2. RaceSound'
  BY DEF IInv, RaceSound, IsModel, Waiting, Asked
<1>3. QueueSound'
  BY DEF IInv, QueueSound, Executing, Waiting, NoneWaiting
<1>4. Obeyed' /\ RailsDown' /\ Exporting' /\ TelemetryFresh'
  BY DEF Obeyed, RailsDown, Exporting, TelemetryFresh
<1>. QED
  BY <1>1, <1>2, <1>3, <1>4 DEF IInv

LEMMA SimStepStep == ASSUME IInv, SimStep PROVE IInv'
<1>1. /\ mpc = "idle" /\ pc # "init" /\ model' = Physics(model)
      /\ mpc' = mpc /\ seen' = seen /\ from' = from
      /\ cmd' = cmd /\ prm' = prm /\ pc' = pc /\ index' = index /\ powered' = powered
      /\ asked' = asked
      /\ moved' = IF model' # model /\ moved = "nothing" THEN "step" ELSE moved
      /\ fresh' = (fresh /\ model["PSSPWR"] # 0)
  BY DEF SimStep, simVars, sysVars
<1>2. IsModel(model)
  BY DEF IInv, TypeOK, IsModel
<1>3. /\ IsModel(model') /\ model'["PSSPWR"] = model["PSSPWR"]
      /\ model'["PSSMAXA"] = model["PSSMAXA"]
      /\ \A r \in Rails : model'[r] = IF model["PSSPWR"] = 0 THEN 0 ELSE model[r]
  BY <1>1, <1>2, PhysicsEffect, Rail DEF Params
<1>4. TypeOK' /\ CommandsTyped'
  BY <1>1, <1>3 DEF IInv, TypeOK, CommandsTyped, IsModel
<1>5. RaceSound'
  BY <1>1 DEF IInv, RaceSound, IsModel, Asked
<1>6. QueueSound'
  BY <1>1 DEF IInv, QueueSound, Executing, Waiting, NoneWaiting
<1>7. Obeyed'
  <2>. SUFFICES ASSUME Executing \/ (pc = "exchange" /\ powered), moved' # "init"
                PROVE  /\ \A r \in Rails :
                            /\ Done(SwitchOff(r)) => model'[r] = 0 /\ ~Waiting(SwitchOn(r))
                            /\ Done(SwitchOn(r)) /\ ~Asked(SwitchOff(r)) =>
                                  model'[r] = 1 \/ model'["PSSPWR"] = 0
                       /\ Done(Limit) => model'["PSSMAXA"] = Unit * asked[Limit]
                       /\ Done(Reset) => model'["PSSPWR"] = 0 \/ moved' = "step"
    BY <1>1 DEF Obeyed, Executing, Done, Asked, Waiting
  <2>1. moved # "init" /\ (moved = "step" => moved' = "step")
    BY <1>1
  <2>. QED
    BY <1>3, <2>1 DEF IInv, Obeyed
<1>8. RailsDown'
  BY <1>1, <1>3 DEF IInv, RailsDown, Executing, Asked, Waiting
<1>9. Exporting' /\ TelemetryFresh'
  <2>1. moved' = "nothing" => moved = "nothing" /\ model' = model
    BY <1>1
  <2>2. moved = "init" => moved' = "init"
    BY <1>1
  <2>. QED
    BY <1>1, <1>3, <2>1, <2>2 DEF IInv, Exporting, TelemetryFresh, Executing, Asked
<1>. QED
  BY <1>4, <1>5, <1>6, <1>7, <1>8, <1>9 DEF IInv

LEMMA SimLockStep == ASSUME IInv, SimLock PROVE IInv'
<1>. USE DEF SimLock, sysVars
<1>1. TypeOK' /\ CommandsTyped'
  BY DEF IInv, TypeOK, CommandsTyped
<1>2. RaceSound'
  BY DEF IInv, TypeOK, RaceSound, QueueSound, IsModel, Executing, Waiting, Asked
<1>3. QueueSound'
  BY DEF IInv, RaceSound, QueueSound, Executing, Waiting, NoneWaiting
<1>4. Obeyed'
  BY DEF IInv, Obeyed, Executing, Done, Asked, Waiting
<1>5. RailsDown'
  BY DEF IInv, RailsDown, Executing, Asked, Waiting
<1>6. Exporting' /\ TelemetryFresh'
  BY DEF IInv, Exporting, TelemetryFresh, Executing, Asked
<1>. QED
  BY <1>1, <1>2, <1>3, <1>4, <1>5, <1>6 DEF IInv

LEMMA SimWriteStep == ASSUME IInv, SimWrite PROVE IInv'
<1>1. /\ mpc = "locked" /\ mpc' = "idle" /\ seen' = Defaults /\ from' = 1
      /\ moved' = IF moved = "nothing" THEN "step" ELSE moved
      /\ cmd' = cmd /\ prm' = prm /\ pc' = pc /\ index' = index /\ powered' = powered
      /\ asked' = asked /\ fresh' = fresh
  BY DEF SimWrite, sysVars
<1>2. /\ fresh /\ Asked(Reset) /\ Executing
      /\ \A c \in Commands \cap OwnCommands : ~Done(c)
  BY <1>1 DEF IInv, RaceSound, QueueSound, Executing, Done, Asked
<1>3. IsModel(model')
  <2>1. PICK early \in SUBSET {p \in Raced : seen[p] # model[p]}, lost \in SUBSET Raced :
          LET read  == [p \in Params |-> IF p \in early THEN seen[p] ELSE model[p]]
              wrote == Physics(read)
          IN  model' = [p \in Params |-> IF p \in lost THEN model[p] ELSE wrote[p]]
    BY DEF SimWrite
  <2>. DEFINE read == [p \in Params |-> IF p \in early THEN seen[p] ELSE model[p]]
  <2>2. IsModel(read)
    BY DEF IInv, TypeOK, RaceSound, IsModel
  <2>. HIDE DEF read
  <2>3. IsModel(Physics(read))
    BY <2>2, PhysicsEffect
  <2>4. model' = [p \in Params |-> IF p \in lost THEN model[p] ELSE Physics(read)[p]]
    BY <2>1 DEF read
  <2>. QED
    BY <2>3, <2>4 DEF IInv, TypeOK, IsModel
<1>4. TypeOK' /\ CommandsTyped'
  <2>1. Len(ParamOrder) \in Nat
    BY Rail, ParamTable
  <2>. QED
    BY <1>1, <1>3, <2>1, DefaultsType DEF IInv, TypeOK, CommandsTyped, IsModel
<1>5. RaceSound'
  BY <1>1, DefaultsType DEF IInv, RaceSound, IsModel, Waiting, Asked
<1>6. QueueSound'
  BY <1>1 DEF IInv, QueueSound, Executing, Waiting, NoneWaiting
<1>7. Obeyed'
  <2>1. ~Done(Limit) /\ \A r \in Rails : ~Done(SwitchOn(r)) /\ ~Done(SwitchOff(r))
    BY <1>2 DEF OwnCommands, Done, Asked
  <2>2. moved' # "init" => moved' = "step"
    BY <1>1 DEF IInv, TypeOK
  <2>3. \A c : Done(c)' <=> Done(c)
    BY <1>1 DEF Done, Asked
  <2>. QED
    BY <2>1, <2>2, <2>3 DEF Obeyed
<1>8. RailsDown'
  BY <1>1, <1>2 DEF RailsDown
<1>9. Exporting' /\ TelemetryFresh'
  BY <1>1, <1>2 DEF IInv, Exporting, TelemetryFresh, Executing, Asked
<1>. QED
  BY <1>4, <1>5, <1>6, <1>7, <1>8, <1>9 DEF IInv

-------------------------------------------------------------------------------
(* Theorems *)

LEMMA NextStep == ASSUME IInv, [Next]_vars PROVE IInv'
<1>1. CASE Next
  BY <1>1, StartStep, ExecuteCommandStep, ExecutePowerStep, StartInitStep, InitParamStep,
     EndInitStep, StartExportStep, ExportParamStep, EndExportStep, ExchangeStep, EndPowerStep,
     CutRailStep, EndCutStep, SimInitStep, SimStepStep, SimLockStep, SimWriteStep
     DEF Next, System, Simulation
<1>2. CASE UNCHANGED vars
  <2>. USE <1>2 DEF vars, sysVars, simVars
  <2>1. TypeOK' /\ CommandsTyped' /\ RaceSound'
    BY DEF IInv, TypeOK, CommandsTyped, RaceSound, IsModel, Waiting, Asked
  <2>2. QueueSound' /\ Obeyed'
    BY DEF IInv, QueueSound, Obeyed, Executing, Done, Asked, Waiting, NoneWaiting
  <2>3. RailsDown' /\ Exporting' /\ TelemetryFresh'
    BY DEF IInv, RailsDown, Exporting, TelemetryFresh, Executing, Asked, Waiting
  <2>. QED
    BY <2>1, <2>2, <2>3 DEF IInv
<1>. QED
  BY <1>1, <1>2

\* The invariant: in every state the commands taken away in this step have been
\* obeyed, and a rail that has lost its power stays down.
THEOREM PssInvariant == Spec => []IInv
<1>. QED
  BY InitInvariant, NextStep, PTL DEF Spec

\* Every variable keeps its type: whatever races for the parameters, a switch is
\* 0 or 1 and no parameter gets a negative value.
THEOREM PssTypeCorrect == Spec => []TypeOK
<1>1. IInv => TypeOK
  BY DEF IInv
<1>. QED
  BY <1>1, PssInvariant, PTL

\* When PSS answers, the commands that waited when the step began have been
\* obeyed in the order of the table.
THEOREM CommandsObeyed == Spec => []CommandsTakeEffect
<1>1. ASSUME IInv PROVE CommandsTakeEffect
  <2>. SUFFICES ASSUME pc = "exchange", powered, moved # "init"
                PROVE  /\ \A r \in Rails :
                            /\ Asked(SwitchOff(r)) => model[r] = 0
                            /\ Asked(SwitchOn(r)) /\ ~Asked(SwitchOff(r)) =>
                                  model[r] = 1 \/ model["PSSPWR"] = 0
                       /\ Asked(Limit) => model["PSSMAXA"] = Unit * asked[Limit]
                       /\ Asked(Reset) => model["PSSPWR"] = 0 \/ moved = "step"
    BY DEF CommandsTakeEffect, SwitchOn, SwitchOff, Limit, Reset
  <2>1. \A c \in OwnCommands \cup {Reset} : Asked(c) => Done(c)
    BY <1>1, NoneOf DEF IInv, QueueSound, Executing, Done, Asked, Waiting
  <2>2. /\ Limit \in OwnCommands
        /\ \A r \in Rails : SwitchOn(r) \in OwnCommands /\ SwitchOff(r) \in OwnCommands
    BY DEF OwnCommands
  <2>. QED
    BY <1>1, <2>1, <2>2 DEF IInv, Obeyed
<1>. QED
  BY <1>1, PssInvariant, PTL

\* What a powered PSS answers is the state of its model after the commands, as
\* long as the model has not moved.
THEOREM TelemetryIsFresh == Spec => []TelemetryFresh
<1>1. IInv => TelemetryFresh
  BY DEF IInv
<1>. QED
  BY <1>1, PssInvariant, PTL

\* A rail gets power only by its own command of this step or by the defaults.
THEOREM RailsByCommand == Spec => RailsUpByCommand
<1>1. ASSUME IInv, [Next]_vars, NEW r \in Rails, ~Live(r), Live(r)', ~fresh, ~Asked(SwitchOn(r))
      PROVE  FALSE
  <2>1. model' # model
    BY <1>1 DEF Live
  <2>2. CASE \E c \in Commands : ExecuteCommand(c)
    <3>1. PICK c \in Commands : ExecuteCommand(c)
      BY <2>2
    <3>2. c \in OwnCommands /\ cmd[c] # 0
      BY <3>1, FirstOf DEF ExecuteCommand, Reset
    <3>3. c = Limit \/ \E p \in Params \ {"PSSMAXA", "PSSA"} : c \in {SwitchOn(p), SwitchOff(p)}
      BY <3>2, Rail DEF OwnCommands, Params
    <3>4. c # SwitchOn("PSSPWR") /\ c # SwitchOff("PSSPWR")
      BY <3>2, Rail DEF OwnCommands, SwitchOn, SwitchOff, Limit
    <3>5. \A p \in Params \ {"PSSMAXA", "PSSA"} :
             model'[p] = IF c = SwitchOn(p) THEN 1 ELSE IF c = SwitchOff(p) THEN 0 ELSE model[p]
      BY <1>1, <3>1, <3>3, Written DEF ExecuteCommand
    <3>6. c = SwitchOn(r)
      BY <1>1, <3>4, <3>5, Rail DEF Live, Params
    <3>7. cmd[c] = asked[c]
      BY <1>1, <3>1, <3>2 DEF IInv, QueueSound, Executing, ExecuteCommand
    <3>. QED
      BY <1>1, <3>2, <3>6, <3>7 DEF Asked
  <2>3. CASE \E c \in Commands : ExecutePower(c)
    <3>1. PICK c \in Commands : ExecutePower(c)
      BY <2>3
    <3>2. c = SwitchOn("PSSPWR") \/ (c = SwitchOff("PSSPWR") /\ ~Waiting(SwitchOn("PSSPWR")))
      BY <3>1, PowerTable DEF ExecutePower
    <3>3. cmd[c] # 0
      BY <3>1, PowerTable DEF ExecutePower
    <3>4. "PSSPWR" \in Params \ {"PSSMAXA", "PSSA"} /\ Rails \subseteq Params \ {"PSSMAXA", "PSSA"}
      BY Rail DEF Params
    <3>5. \A p \in Params \ {"PSSMAXA", "PSSA"} :
             model'[p] = IF c = SwitchOn(p) THEN 1 ELSE IF c = SwitchOff(p) THEN 0 ELSE model[p]
      BY <1>1, <3>1, <3>2, <3>4, Written DEF ExecutePower
    <3>6. c # SwitchOn(r) /\ c # SwitchOff(r)
      BY <3>2, Rail DEF SwitchOn, SwitchOff
    <3>7. model[r] # 0 /\ model["PSSPWR"] = 0
      BY <1>1, <3>4, <3>5, <3>6 DEF Live
    <3>8. c = SwitchOn("PSSPWR")
      <4>1. c = SwitchOff("PSSPWR") => c # SwitchOn("PSSPWR") /\ model'["PSSPWR"] = 0
        BY <3>4, <3>5 DEF SwitchOn, SwitchOff
      <4>. QED
        BY <1>1, <3>2, <4>1 DEF Live
    <3>9. pc = "power" /\ Waiting(SwitchOn("PSSPWR"))
      BY <3>1, <3>3, <3>8 DEF ExecutePower, Waiting
    <3>. QED
      BY <1>1, <3>7, <3>9 DEF IInv, RailsDown
  <2>4. CASE InitParam
    BY <1>1, <2>4 DEF IInv, RaceSound, InitParam
  <2>5. CASE CutRail
    <3>1. /\ index \in 1 .. Len(RailOrder) /\ RailOrder[index] \in Rails
      BY <1>1, <2>5, Rail DEF IInv, TypeOK, CutRail
    <3>. QED
      BY <1>1, <2>5, <3>1, Rail DEF IInv, TypeOK, CutRail, Live, Params
  <2>6. CASE SimInit
    BY <1>1, <2>6, DefaultsType DEF SimInit, Live
  <2>7. CASE SimStep
    <3>1. IsModel(model)
      BY <1>1 DEF IInv, TypeOK, IsModel
    <3>2. /\ model'["PSSPWR"] = model["PSSPWR"]
          /\ model'[r] = IF model["PSSPWR"] = 0 THEN 0 ELSE model[r]
      BY <2>7, <3>1, PhysicsEffect, Rail DEF SimStep, Params
    <3>. QED
      BY <1>1, <3>2 DEF Live
  <2>8. CASE SimWrite
    BY <1>1, <2>8 DEF IInv, RaceSound, SimWrite
  <2>. QED
    BY <1>1, <2>1, <2>2, <2>3, <2>4, <2>5, <2>6, <2>7, <2>8
       DEF Next, System, Simulation, vars, Start, StartInit, EndInit, StartExport, ExportParam,
           EndExport, Exchange, EndPower, EndCut, SimLock
<1>2. IInv /\ [Next]_vars =>
        [\A r \in Rails : ~Live(r) /\ Live(r)' => fresh \/ Asked(<<r, "on">>)]_vars
  BY <1>1 DEF SwitchOn
<1>. QED
  BY <1>2, PssInvariant, PTL DEF Spec, RailsUpByCommand

\* A switch goes over the bus as it is.
LEMMA SwitchOnWire == \A v \in {0, 1} : OnWire("PSSPWR", v) = Unit * v
<1>. SUFFICES ASSUME NEW v \in {0, 1} PROVE OnWire("PSSPWR", v) = Unit * v
  OBVIOUS
<1>. DEFINE row  == ParamTab.PSS[Row("PSSPWR")]
            item == ItemOf(row)
<1>1. row[1] = "D"
  <2>1. Row("PSSPWR") = 1
    <3>1. "PSSPWR" \notin Rails
      BY Rail
    <3>. QED
      BY <3>1 DEF Row
  <2>2. ParamTab.PSS[1] = <<"D", 0, 0, 0>>
    BY DEF ParamTab
  <2>. QED
    BY <2>1, <2>2
<1>. HIDE DEF row
<1>2. item.width = 1 /\ item.signed = FALSE /\ item.alg = "AN"
  <2>1. (CASE row[1] = "UP" -> "AP" [] row[1] = "AF" -> "A" [] OTHER -> row[1]) = "D"
    BY <1>1
  <2>2. TypeWidth("D") = 1
    BY DEF TypeWidth
  <2>. QED
    BY <1>1, <2>1, <2>2 DEF ItemOf
<1>3. ISIMF32(Binding["PSSPWR"], v) = Unit * v
  BY Bindings DEF ISIMF32, Params
<1>. HIDE DEF item
<1>4. Candidates(item, Unit * v) = <<v, v, v>>
  BY <1>2 DEF Candidates, Around, RoundOf, FloorOf, CeilOf, Unit
<1>5. ClampWire(item, v) = v
  BY <1>2 DEF ClampWire, WireMin, WireMax
<1>6. PrepareRaw(item, Unit * v) = v
  <2>. DEFINE c    == Candidates(item, Unit * v)
              err  == [i \in DOMAIN c |-> Distance(item, ClampWire(item, c[i]), Unit * v)]
              best == {i \in DOMAIN c : \A j \in DOMAIN c : err[i] <= err[j]}
  <2>1. DOMAIN c = 1 .. 3 /\ \A i \in 1 .. 3 : c[i] = v
    BY <1>4
  <2>2. Distance(item, v, Unit * v) = 0
    BY <1>2 DEF Distance, DecodeProcessed, Unit
  <2>3. \A i \in 1 .. 3 : err[i] = 0
    BY <1>5, <2>1, <2>2
  <2>4. best = 1 .. 3
    BY <2>1, <2>3
  <2>5. Min(best) \in 1 .. 3
    BY <2>4 DEF Min
  <2>6. ClampWire(item, c[Min(best)]) = v
    BY <1>5, <2>1, <2>5
  <2>. QED
    BY <2>6 DEF PrepareRaw
<1>7. DecodeProcessed(item, v) = Unit * v
  BY <1>2 DEF DecodeProcessed
<1>. QED
  BY <1>3, <1>6, <1>7 DEF OnWire, item, row

\* CS never sees that it has switched PSS off.
THEOREM OffNotSeen == Spec => OffUnseen
<1>1. ASSUME IInv, [Next]_vars, "PSSPWR" \in Reported, prm["PSSPWR"] # 0, prm'["PSSPWR"] = 0
      PROVE  Asked(Reset) \/ moved = "init"
  <2>1. ExportParam
    BY <1>1 DEF Next, System, Simulation, vars, sysVars, simVars, Start, ExecuteCommand,
       ExecutePower, SetAndClear, StartInit, InitParam, EndInit, StartExport, EndExport, Exchange,
       EndPower, CutRail, EndCut, SimInit, SimStep, SimLock, SimWrite
  <2>2. ParamOrder[index] = "PSSPWR" /\ prm'["PSSPWR"] = OnWire("PSSPWR", model["PSSPWR"])
    BY <1>1, <2>1 DEF ExportParam, IInv, TypeOK
  <2>3. model["PSSPWR"] \in {0, 1}
    BY <1>1, Rail DEF IInv, TypeOK, Params
  <2>4. model["PSSPWR"] = 0
    BY <1>1, <2>2, <2>3, SwitchOnWire DEF Unit
  <2>. QED
    BY <1>1, <2>1, <2>4 DEF IInv, Exporting, Executing, ExportParam
<1>2. IInv /\ [Next]_vars =>
        [ "PSSPWR" \in Reported /\ prm["PSSPWR"] # 0 /\ prm'["PSSPWR"] = 0 =>
            Asked(<<"model", "init">>) \/ moved = "init" ]_vars
  BY <1>1 DEF Reset
<1>. QED
  BY <1>2, PssInvariant, PTL DEF Spec, OffUnseen
-------------------------------------------------------------------------------
(* The values the model stores *)

\* And what the parameters of PSS hold is, whatever races for it, what their types
\* can stand for.
THEOREM StoredIsNearest == Spec => []StoredNearest
<1>1. ASSUME TypeOK, NEW p \in Params
      PROVE  Stands(Type(p), ISIMF32(Binding[p], model[p]))
  <2>1. CASE p \in {"PSSMAXA", "PSSA"}
    <3>1. Type(p) = "float32"
      BY <2>1 DEF Type
    <3>. QED
      BY <3>1 DEF Stands
  <2>2. CASE p \notin {"PSSMAXA", "PSSA"}
    <3>1. Binding[p].kind = "u8" /\ model[p] \in {0, 1}
      BY <1>1, <2>2, Bindings DEF TypeOK
    <3>2. ISIMF32(Binding[p], model[p]) \in {0, Unit}
      BY <3>1 DEF ISIMF32, Unit
    <3>3. Type(p) = "boolean"
      BY <2>2 DEF Type
    <3>. QED
      BY <3>2, <3>3 DEF Stands
  <2>. QED
    BY <2>1, <2>2
<1>2. TypeOK => StoredNearest
  BY <1>1, NoneMisplaced DEF StoredNearest
<1>. QED
  BY <1>2, PssTypeCorrect, PTL

-------------------------------------------------------------------------------
(* The values of the model fit their fields *)

\* The limit is never 0, for a command of value 0 is none, and so it limits the
\* current: both fit eight bits.
Held(m) == m["PSSMAXA"] \in 1 .. 255 * Unit /\ m["PSSA"] \in 0 .. 255 * Unit

Fitting == Held(model) /\ Held(seen) /\ \A c \in Commands : cmd[c] <= FieldMax(c)

LEMMA DefaultsHeld == Held(Defaults)
  BY Rail, FieldsAssumption DEF Held, Defaults, Params, Unit

\* Whatever the rails draw, the current stays within the limit.
LEMMA PhysicsHeld ==
    ASSUME NEW m, IsModel(m), Held(m)
    PROVE  Held(Physics(m))
<1>1. TotalLoad(m) \in Nat
  BY LoadType
<1>2. /\ Physics(m)["PSSA"] = IF m["PSSPWR"] = 0 THEN 0 ELSE Limited(m, TotalLoad(m))
      /\ Physics(m)["PSSMAXA"] = m["PSSMAXA"]
  BY Rail DEF Physics, Params
<1>. QED
  BY <1>1, <1>2 DEF Held, Limited, Unit

\* A command of CS leaves the parameters within their fields.
LEMMA WrittenHeld ==
    ASSUME IInv, Fitting, NEW c \in Commands, SetAndClear(c), cmd[c] # 0,
           \/ c = Limit
           \/ \E p \in Params \ {"PSSMAXA", "PSSA"} : c \in {SwitchOn(p), SwitchOff(p)}
    PROVE  Held(model') /\ \A d \in Commands : cmd'[d] <= FieldMax(d)
<1>1. /\ cmd'[c] = 0 /\ \A d \in Commands \ {c} : cmd'[d] = cmd[d]
      /\ model'["PSSMAXA"] = IF c = Limit THEN Unit * cmd[Limit] ELSE model["PSSMAXA"]
  BY Written
<1>2. c[1] # "PSSA"
  BY DEF Limit, SwitchOn, SwitchOff
<1>3. model'["PSSA"] = model["PSSA"]
  BY <1>2 DEF SetAndClear, IInv, TypeOK, Params
<1>4. c = Limit => cmd[c] \in 1 .. 255
  BY DEF Fitting, FieldMax, Limit, IInv, CommandsTyped
<1>5. Held(model')
  BY <1>1, <1>3, <1>4 DEF Held, Fitting, Unit
<1>6. \A d \in Commands : 0 <= FieldMax(d)
  BY DEF FieldMax
<1>. QED
  BY <1>1, <1>5, <1>6 DEF Fitting

LEMMA FittingInit == Init => Fitting
  BY DefaultsHeld DEF Init, Fitting, NoCommands, FieldMax

LEMMA FittingStep == ASSUME IInv, Fitting, [Next]_vars PROVE Fitting'
<1>1. CASE \E c \in Commands : ExecuteCommand(c)
  <2>1. PICK c \in Commands : ExecuteCommand(c)
    BY <1>1
  <2>2. c \in OwnCommands /\ cmd[c] # 0 /\ SetAndClear(c) /\ seen' = seen
    BY <2>1, FirstOf DEF ExecuteCommand, Reset, simVars
  <2>3. c = Limit \/ \E p \in Params \ {"PSSMAXA", "PSSA"} : c \in {SwitchOn(p), SwitchOff(p)}
    BY <2>2, Rail DEF OwnCommands, Params
  <2>. QED
    BY <2>2, <2>3, WrittenHeld DEF Fitting
<1>2. CASE \E c \in Commands : ExecutePower(c)
  <2>1. PICK c \in Commands : ExecutePower(c)
    BY <1>2
  <2>2. /\ c \in {SwitchOn("PSSPWR"), SwitchOff("PSSPWR")}
        /\ cmd[c] # 0 /\ SetAndClear(c) /\ seen' = seen
    BY <2>1, PowerTable DEF ExecutePower, simVars
  <2>3. \E p \in Params \ {"PSSMAXA", "PSSA"} : c \in {SwitchOn(p), SwitchOff(p)}
    BY <2>2 DEF Params
  <2>. QED
    BY <2>2, <2>3, WrittenHeld DEF Fitting
<1>3. CASE InitParam
  BY <1>3, DefaultsHeld DEF InitParam, simVars, Fitting, Held, IInv, TypeOK, Params
<1>4. CASE EndInit
  BY <1>4 DEF EndInit, simVars, Fitting, FieldMax, IInv, CommandsTyped
<1>5. CASE Exchange
  BY <1>5, FieldsAssumption DEF Exchange, simVars, Fitting
<1>6. CASE CutRail
  <2>1. RailOrder[index] \in Rails
    BY <1>6, Rail DEF CutRail, IInv, TypeOK
  <2>2. RailOrder[index] \notin {"PSSMAXA", "PSSA"}
    BY <2>1, Rail
  <2>. QED
    BY <1>6, <2>2 DEF CutRail, simVars, Fitting, Held, IInv, TypeOK, Params
<1>7. CASE SimInit
  BY <1>7, DefaultsHeld DEF SimInit, sysVars, Fitting
<1>8. CASE SimStep
  <2>1. IsModel(model)
    BY DEF IInv, TypeOK, IsModel
  <2>. QED
    BY <1>8, <2>1, PhysicsHeld DEF SimStep, sysVars, simVars, Fitting
<1>9. CASE SimLock
  BY <1>9 DEF SimLock, sysVars, Fitting
<1>10. CASE SimWrite
  <2>1. PICK early \in SUBSET {p \in Raced : seen[p] # model[p]}, lost \in SUBSET Raced :
          LET read  == [p \in Params |-> IF p \in early THEN seen[p] ELSE model[p]]
              wrote == Physics(read)
          IN  model' = [p \in Params |-> IF p \in lost THEN model[p] ELSE wrote[p]]
    BY <1>10 DEF SimWrite
  <2>. DEFINE read == [p \in Params |-> IF p \in early THEN seen[p] ELSE model[p]]
  <2>2. IsModel(read) /\ Held(read)
    BY DEF IInv, TypeOK, RaceSound, IsModel, Fitting, Held, Params
  <2>3. model' = [p \in Params |-> IF p \in lost THEN model[p] ELSE Physics(read)[p]]
    BY <2>1
  <2>. HIDE DEF read
  <2>4. Held(Physics(read))
    BY <2>2, PhysicsHeld
  <2>5. Held(model')
    BY <2>3, <2>4 DEF Fitting, Held, Params
  <2>. QED
    BY <1>10, <2>5, DefaultsHeld DEF SimWrite, sysVars, Fitting
<1>11. CASE Start \/ StartInit \/ StartExport \/ ExportParam \/ EndExport \/ EndPower \/ EndCut
              \/ UNCHANGED vars
  BY <1>11 DEF Start, StartInit, StartExport, ExportParam, EndExport, EndPower, EndCut, vars,
     sysVars, simVars, Fitting
<1>. QED
  BY <1>1, <1>2, <1>3, <1>4, <1>5, <1>6, <1>7, <1>8, <1>9, <1>10, <1>11
     DEF Next, System, Simulation

\* A switch has a row of one bit, the limit and the current have rows of eight.
LEMMA Rows ==
    ASSUME NEW p \in Params
    PROVE  /\ ItemOf(ParamTab.PSS[Row(p)]) \in Items
           /\ ItemOf(ParamTab.PSS[Row(p)]).width = (IF p \in {"PSSMAXA", "PSSA"} THEN 8 ELSE 1)
           /\ ItemOf(ParamTab.PSS[Row(p)]).signed = FALSE
           /\ ItemOf(ParamTab.PSS[Row(p)]).alg = "AN"
<1>. DEFINE row == ParamTab.PSS[Row(p)]
<1>1. /\ \A i \in 1 .. 6 : ParamTab.PSS[i][1] = "D"
      /\ ParamTab.PSS[10][1] = "A" /\ ParamTab.PSS[20][1] = "A"
  BY DEF ParamTab
<1>2. row[1] = IF p \in {"PSSMAXA", "PSSA"} THEN "A" ELSE "D"
  <2>1. CASE p \in Rails
    <3>1. p \notin {"PSSPWR", "PSSECO", "PSSMAXA", "PSSA"} /\ \E i \in DOMAIN RailOrder : RailOrder[i] = p
      BY <2>1, Rail
    <3>2. Row(p) = 1 + CHOOSE i \in DOMAIN RailOrder : RailOrder[i] = p
      BY <2>1, <3>1 DEF Row
    <3>3. Row(p) \in 1 .. 6
      BY <3>1, <3>2, Rail, FieldsAssumption
    <3>. QED
      BY <1>1, <3>1, <3>3
  <2>2. CASE p \in {"PSSPWR", "PSSECO"}
    <3>1. Row(p) \in 1 .. 6
      BY <2>2, Rail DEF Row
    <3>. QED
      BY <1>1, <2>2, <3>1
  <2>3. CASE p \in {"PSSMAXA", "PSSA"}
    <3>1. Row(p) \in {10, 20}
      BY <2>3, Rail DEF Row
    <3>. QED
      BY <1>1, <2>3, <3>1
  <2>. QED
    BY <2>1, <2>2, <2>3 DEF Params
<1>. HIDE DEF row
<1>3. (CASE row[1] = "UP" -> "AP" [] row[1] = "AF" -> "A" [] OTHER -> row[1]) = row[1]
  BY <1>2
<1>4. TypeWidth("D") = 1 /\ TypeWidth("A") = 8
  BY DEF TypeWidth
<1>5. ItemOf(row) = [width |-> IF p \in {"PSSMAXA", "PSSA"} THEN 8 ELSE 1, signed |-> FALSE,
                     alg |-> "AN", a |-> 0, b |-> Unit, c |-> 0]
  BY <1>2, <1>3, <1>4 DEF ItemOf
<1>. QED
  BY <1>5 DEF row, Items, Unit

\* prepare_raw_value finds the best raw value there is, and the values of the model
\* are off by half a unit at most.
THEOREM NearestOnWire == Spec => []QuantizedNearest
<1>1. ASSUME IInv, Fitting, NEW p \in Params
      PROVE  LET off == OnWire(p, model[p]) - ISIMF32(Binding[p], model[p])
             IN  2 * off \in -Unit .. Unit
  <2>1. PICK item \in Items : /\ item = ItemOf(ParamTab.PSS[Row(p)])
                              /\ item.width = IF p \in {"PSSMAXA", "PSSA"} THEN 8 ELSE 1
                              /\ item.signed = FALSE /\ item.alg = "AN"
    BY Rows
  <2>2. PICK x \in Nat : /\ x = ISIMF32(Binding[p], model[p])
                         /\ p \in {"PSSMAXA", "PSSA"} => x <= 510
                         /\ p \notin {"PSSMAXA", "PSSA"} => x \in {0, 2}
    <3>1. CASE p \in {"PSSMAXA", "PSSA"}
      <4>1. model[p] \in Nat /\ model[p] <= 510
        <5>1. model["PSSMAXA"] \in 1 .. 510 /\ model["PSSA"] \in 0 .. 510
          BY <1>1 DEF Fitting, Held, Unit
        <5>. QED
          BY <3>1, <5>1
      <4>. QED
        BY <3>1, <4>1, Bindings DEF ISIMF32
    <3>2. CASE p \notin {"PSSMAXA", "PSSA"}
      <4>1. model[p] \in {0, 1}
        BY <1>1, <3>2 DEF IInv, TypeOK
      <4>. QED
        BY <3>2, <4>1, Bindings DEF ISIMF32, Unit
    <3>. QED
      BY <3>1, <3>2
  <2>3. PICK q \in Int : q = PrepareRaw(item, x)
    <3>1. PrepareRaw(item, x) \in WireRange(item)
      BY <2>1, <2>2, NearestRaw DEF Refused
    <3>. QED
      BY <3>1, Wires DEF WireRange
  <2>4. PICK near \in WireRange(item) : near = x \div 2
    <3>1. WireRange(item) = IF p \in {"PSSMAXA", "PSSA"} THEN 0 .. 255 ELSE 0 .. 1
      <4>1. 2 ^ 8 = 256 /\ 2 ^ 1 = 2
        OBVIOUS
      <4>2. WireMin(item) = 0 /\ WireMax(item) = 2 ^ item.width - 1
        BY <2>1 DEF WireMin, WireMax
      <4>3. CASE item.width = 8
        <5>1. WireMax(item) = 255
          BY <4>1, <4>2, <4>3
        <5>2. WireRange(item) = 0 .. 255
          BY <4>2, <5>1 DEF WireRange
        <5>3. p \in {"PSSMAXA", "PSSA"}
          BY <2>1, <4>3
        <5>. QED
          BY <5>2, <5>3
      <4>4. CASE item.width = 1
        <5>1. WireMax(item) = 1
          BY <4>1, <4>2, <4>4
        <5>2. WireRange(item) = 0 .. 1
          BY <4>2, <5>1 DEF WireRange
        <5>3. p \notin {"PSSMAXA", "PSSA"}
          BY <2>1, <4>4
        <5>. QED
          BY <5>2, <5>3
      <4>. QED
        BY <2>1, <4>3, <4>4
    <3>. QED
      BY <2>2, <3>1
  <2>5. Distance(item, q, x) <= Distance(item, near, x)
    BY <2>1, <2>2, <2>3, NearestRaw DEF Refused
  <2>6. OnWire(p, model[p]) = 2 * q
    BY <2>1, <2>2, <2>3 DEF OnWire, DecodeProcessed, Unit
  <2>7. /\ Distance(item, q, x) = Size(2 * q - x)
        /\ Distance(item, near, x) = Size(2 * (x \div 2) - x)
    BY <2>1, <2>4 DEF Distance, DecodeProcessed, Unit, Size
  <2>8. Size(2 * q - x) <= 1
    <3>1. Size(2 * (x \div 2) - x) <= 1
      BY <2>2 DEF Size
    <3>2. Size(2 * q - x) <= Size(2 * (x \div 2) - x)
      BY <2>5, <2>7
    <3>. QED
      BY <2>2, <2>3, <3>1, <3>2 DEF Size
  <2>. QED
    BY <2>2, <2>3, <2>6, <2>8 DEF Size, Unit
<1>2. IInv /\ Fitting => QuantizedNearest
  <2>1. Reported \subseteq Params
    BY RailsAssumption DEF Params
  <2>. QED
    BY <1>1, <2>1, NoneFar DEF QuantizedNearest
<1>3. IInv /\ Fitting /\ [Next]_vars => Fitting'
  BY FittingStep
<1>. QED
  BY <1>2, <1>3, FittingInit, PssInvariant, PTL DEF Spec

-------------------------------------------------------------------------------
(* The messages of PSS arrive *)

\* What MSG_PRM holds of a parameter is what a raw value of its field stands for.
Quantized ==
    \A p \in Reported : \E q \in WireRange(ItemOf(ParamTab.PSS[Row(p)])) :
        prm[p] = DecodeProcessed(ItemOf(ParamTab.PSS[Row(p)]), q)

\* A value of the model on the wire is one that its field can hold.
LEMMA OnWireQuantized ==
    ASSUME IInv, NEW p \in Params
    PROVE  \E q \in WireRange(ItemOf(ParamTab.PSS[Row(p)])) :
              OnWire(p, model[p]) = DecodeProcessed(ItemOf(ParamTab.PSS[Row(p)]), q)
<1>1. PICK item \in Items : item = ItemOf(ParamTab.PSS[Row(p)]) /\ item.alg = "AN"
  BY Rows
<1>2. PICK x \in Int : x = ISIMF32(Binding[p], model[p])
  <2>1. model[p] \in Nat
    BY DEF IInv, TypeOK
  <2>. QED
    BY <2>1, Bindings DEF ISIMF32, Unit
<1>3. PrepareRaw(item, x) \in WireRange(item)
  BY <1>1, NearestRaw DEF Refused
<1>. QED
  BY <1>1, <1>2, <1>3 DEF OnWire

\* MSG_PRM starts cleared.
LEMMA QuantizedInit == Init => Quantized
<1>1. ASSUME NEW p \in Params
      PROVE  \E q \in WireRange(ItemOf(ParamTab.PSS[Row(p)])) :
                0 = DecodeProcessed(ItemOf(ParamTab.PSS[Row(p)]), q)
  <2>1. PICK item \in Items : item = ItemOf(ParamTab.PSS[Row(p)]) /\ item.alg = "AN"
    BY Rows
  <2>2. 0 \in WireRange(item) /\ DecodeProcessed(item, 0) = 0
    BY <2>1, Wires DEF WireRange, DecodeProcessed, Unit
  <2>. QED
    BY <2>1, <2>2
<1>2. Reported \subseteq Params
  BY RailsAssumption DEF Params
<1>. QED
  BY <1>1, <1>2 DEF Init, Quantized

\* Only the export writes into it.
LEMMA QuantizedStep == ASSUME IInv, Quantized, [Next]_vars PROVE Quantized'
<1>1. CASE ExportParam
  <2>1. Reported \subseteq Params /\ DOMAIN prm = Reported
    BY RailsAssumption DEF Params, IInv, TypeOK
  <2>2. ASSUME NEW p \in Reported
        PROVE  prm'[p] = prm[p] \/ prm'[p] = OnWire(p, model[p])
    BY <1>1, <2>1 DEF ExportParam
  <2>. QED
    BY <2>1, <2>2, OnWireQuantized DEF Quantized
<1>2. CASE ~ExportParam
  <2>1. prm' = prm
    BY <1>2 DEF Next, System, Simulation, vars, sysVars, simVars, Start, ExecuteCommand,
       ExecutePower, SetAndClear, StartInit, InitParam, EndInit, StartExport, EndExport, Exchange,
       EndPower, CutRail, EndCut, SimInit, SimStep, SimLock, SimWrite
  <2>. QED
    BY <2>1 DEF Quantized
<1>. QED
  BY <1>1, <1>2

\* A parameter a device exports is the value CS parses, up to quantization: packed,
\* carried byte by byte into a stale buffer, copied into the window of the node and
\* read at its own place there, it is what it was, and so is every other.
THEOREM TelemetryIsDelivered == Spec => []TelemetryDelivered
<1>1. ASSUME Quantized, NEW p \in Reported
      PROVE  LET item == ItemOf(ParamTab.PSS[Row(p)])
             IN  DecodeProcessed(item, PrepareRaw(item, prm[p])) = prm[p]
  <2>1. p \in Params
    BY RailsAssumption DEF Params
  <2>2. PICK item \in Items : item = ItemOf(ParamTab.PSS[Row(p)]) /\ item.alg = "AN"
    BY <2>1, Rows
  <2>3. PICK q \in WireRange(item) : prm[p] = DecodeProcessed(item, q)
    BY <1>1, <2>2 DEF Quantized
  <2>4. PrepareRaw(item, prm[p]) = q
    BY <2>2, <2>3, ExactRaw
  <2>. QED
    BY <2>2, <2>3, <2>4
<1>2. Quantized => TelemetryDelivered
  BY <1>1, NoneWrong DEF TelemetryDelivered
<1>3. IInv /\ Quantized /\ [Next]_vars => Quantized'
  BY QuantizedStep
<1>. QED
  BY <1>2, <1>3, QuantizedInit, PssInvariant, PTL DEF Spec

\* A header arrives as it was made, and so does a command, alone or with another,
\* but for one whose value quantizes to zero; no value that waits in MSG_CMD does.
THEOREM CommandIsDelivered == Spec => []CommandDelivered
<1>1. ASSUME IInv, Fitting, NEW c \in Commands
      PROVE  LET item == ItemOf(<<IF c[2] = "value" THEN "A" ELSE "D">>)
             IN  EncodeToBits(item, PrepareRaw(item, Unit * cmd[c])) = cmd[c]
  <2>1. PICK row : row = <<IF c[2] = "value" THEN "A" ELSE "D">>
    OBVIOUS
  <2>2. row[1] = IF c[2] = "value" THEN "A" ELSE "D"
    BY <2>1
  <2>3. PICK item \in Items :
          /\ item = ItemOf(row) /\ item.signed = FALSE /\ item.alg = "AN"
          /\ item.width = IF c[2] = "value" THEN 8 ELSE 1
    <3>1. row[1] \in RowTypes /\ row[1] # "AP" /\ row[1] # "AF"
          /\ WidthOf(row) = IF c[2] = "value" THEN 8 ELSE 1
      BY <2>2 DEF RowTypes, WidthOf
    <3>2. /\ ItemOf(row) \in Items /\ ItemOf(row).width = WidthOf(row)
          /\ ItemOf(row).signed = (row[1] = "AP")
          /\ ItemOf(row).alg = (IF row[1] = "AF" THEN "AC" ELSE "AN")
      BY <3>1, RowItem
    <3>3. ItemOf(row).signed = FALSE
      BY <3>1, <3>2
    <3>. QED
      BY <3>1, <3>2, <3>3
  <2>4. PICK v \in Nat : v = cmd[c] /\ v <= FieldMax(c)
    BY <1>1 DEF Fitting, IInv, CommandsTyped
  <2>5. PICK P \in Nat \ {0} : P = 2^item.width /\ P = FieldMax(c) + 1
    <3>1. CASE c[2] = "value"
      BY <2>3, <3>1 DEF FieldMax
    <3>2. CASE c[2] # "value"
      BY <2>3, <3>2 DEF FieldMax
    <3>. QED
      BY <3>1, <3>2
  <2>6. FieldMax(c) \in Nat
    BY DEF FieldMax
  <2>7. v \in WireRange(item) /\ v % P = v
    BY <2>3, <2>4, <2>5, <2>6 DEF WireRange, WireMin, WireMax
  <2>8. DecodeProcessed(item, v) = Unit * v
    BY <2>3 DEF DecodeProcessed
  <2>9. PrepareRaw(item, Unit * v) = v
    BY <2>3, <2>7, <2>8, ExactRaw
  <2>. QED
    BY <2>1, <2>3, <2>4, <2>5, <2>7, <2>9 DEF EncodeToBits
<1>2. IInv /\ Fitting => CommandDelivered
  BY <1>1, NoneLost, NoneMissed DEF CommandDelivered
<1>3. IInv /\ Fitting /\ [Next]_vars => Fitting'
  BY FittingStep
<1>. QED
  BY <1>2, <1>3, FittingInit, PssInvariant, PTL DEF Spec

================================================================================
