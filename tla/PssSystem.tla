------------------------------- MODULE PssSystem -------------------------------
(*****************************************************************************)
(* The power supply system: its software (pss_support.cpp, pss.cpp, the step *)
(* of i_sys_algo.cpp) and its model (pss_sim.cpp, sim_pss_base.hpp), two     *)
(* threads that share the parameters of the model under one mutex.           *)
(*                                                                           *)
(* A step of the software: sample the main power; if it is on, execute the   *)
(* commands in MSG_CMD and export the parameters to MSG_PRM; exchange; then  *)
(* execute the power commands and, with the main power off, cut the rails.   *)
(* Every ISIMGET and ISIMSET takes the mutex for itself, CPSSINIT writes the *)
(* defaults without it, and a step of the model holds it from end to end.    *)
(*                                                                           *)
(* The bus is BusExchange: here a frame of commands may arrive in any tick.  *)
(*****************************************************************************)
EXTENDS ModelRegistry

CONSTANTS
    Rails,       \* the switched rails (PSSPWR12, PSSPWR6, PSSPWR5, PSSPWR33) ...
    RailOrder,   \* ... in the order of the table
    Load,        \* what each rail draws when it is on (PSSMAXA12 and so on)
    Commands,    \* the commands CS sends
    Frames,      \* the values of these commands in the frames CS sends, 0 = none
    Reported,    \* the parameters whose telemetry is followed
    MaxA         \* the default of PSSMAXA

ASSUME RailsAssumption ==
    /\ RailOrder \in Seq(Rails) /\ {RailOrder[i] : i \in DOMAIN RailOrder} = Rails
    /\ Rails \cap {"PSSPWR", "PSSECO", "PSSMAXA", "PSSA"} = {}
    /\ Load \in [Rails -> Nat] /\ MaxA \in Nat
    /\ \A r \in Rails : Load[r] % 2 = 0    \* half of it counts whole units
    /\ Frames \subseteq [Commands -> Nat]   \* their fields are unsigned
    /\ Reported \subseteq Rails \cup {"PSSPWR", "PSSECO", "PSSMAXA", "PSSA"}

\* What the fields of the bus can hold: the table has rows for four rails, the
\* field of a switch has one bit, that of a number eight, and the default of the
\* limit fits one.
FieldMax(c) == IF c[2] = "value" THEN 255 ELSE 1

ASSUME FieldsAssumption ==
    /\ Len(RailOrder) <= 4
    /\ MaxA \in 1 .. 255 * Unit
    /\ \A f \in Frames, c \in Commands : f[c] <= FieldMax(c)

VARIABLES
    model,     \* the parameters of the model
    cmd,       \* MSG_CMD
    prm,       \* MSG_PRM
    pc,        \* what the software does next
    index,     \* the next parameter of a loop over the parameters
    powered,   \* power_on of this step
    mpc,       \* the model thread: "init", "idle", or "locked" while it races CPSSINIT
    seen,      \* the parameters when the model thread took the mutex ...
    from,      \* ... and how far CPSSINIT had come
    asked,     \* history: MSG_CMD when this step began
    moved,     \* history: what the model thread has done since this step began:
               \* "nothing", "step" (something changed) or "init"
    fresh      \* history: the defaults were loaded and the rails not cut since

sysVars == <<cmd, prm, pc, index, powered, asked>>
simVars == <<mpc, seen, from>>
vars    == <<model, sysVars, simVars, moved, fresh>>

-------------------------------------------------------------------------------
(* Parameters and commands *)

\* PARAMS of sim_pss_base.hpp in its order, what the properties do not tell
\* apart left out: voltages, temperatures, charge, the split of the current.
ParamOrder == <<"PSSPWR">> \o RailOrder \o <<"PSSECO", "PSSMAXA", "PSSA">>
Params     == {"PSSPWR", "PSSECO", "PSSMAXA", "PSSA"} \cup Rails
Type(p)    == IF p \in {"PSSMAXA", "PSSA"} THEN "float32" ELSE "boolean"
Binding    == [p \in Params |-> ISIMREG_BUILD(<<[id |-> 0, type |-> Type(p)]>>)[1]]

\* Mutant: the default of the limit stands one row too early.
DefaultsShifted == [p \in Params |->
    IF p \in Rails THEN 1 ELSE IF p = "PSSECO" THEN MaxA ELSE 0]
Defaults == [p \in Params |->
    IF p \in Rails THEN 1 ELSE IF p = "PSSMAXA" THEN MaxA ELSE 0]

\* A command is <<parameter, "on" | "off" | "value">>; <<"model", "init">> is
\* CPSSINIT.  The order of the table, without the power commands.
\* Mutant: "off" before "on".
RailCommands(first, second) ==
    [k \in 1 .. 2 * Len(RailOrder) |->
        <<RailOrder[(k + 1) \div 2], IF k % 2 = 1 THEN first ELSE second>>]
OrderOffFirst ==
    << <<"model", "init">> >> \o RailCommands("off", "on")
      \o << <<"PSSECO", "on">>, <<"PSSECO", "off">>, <<"PSSMAXA", "value">> >>
CommandOrder ==
    << <<"model", "init">> >> \o RailCommands("on", "off")
      \o << <<"PSSECO", "on">>, <<"PSSECO", "off">>, <<"PSSMAXA", "value">> >>
\* Mutant: "off" is missing.
PowerOrderOn == << <<"PSSPWR", "on">> >>
PowerOrder == << <<"PSSPWR", "on">>, <<"PSSPWR", "off">> >>

NoCommands == [c \in Commands |-> 0]
Waiting(c) == c \in Commands /\ cmd[c] # 0

\* The first waiting command of a table, as the loops over the ids meet it.
FirstWaiting(order, c) ==
    \E i \in DOMAIN order :
        /\ order[i] = c /\ Waiting(c)
        /\ \A j \in 1 .. i - 1 : ~Waiting(order[j])
NoneWaiting(order) == \A i \in DOMAIN order : ~Waiting(order[i])

\* apply_i32_command, apply_f32_command: what the parameter of a command becomes.
Ordered(c) ==
    IF c[2] = "value" THEN ISIMSETF32(Binding[c[1]], Unit * cmd[c])
    ELSE ISIMSETI32(Binding[c[1]], IF c[2] = "on" THEN 1 ELSE 0)

\* What the bus shows of a value of the model.
Row(p) ==
    CASE p = "PSSPWR"  -> 1
      [] p = "PSSECO"  -> 6
      [] p = "PSSMAXA" -> 10
      [] p = "PSSA"    -> 20
      [] p \in Rails   -> 1 + CHOOSE i \in DOMAIN RailOrder : RailOrder[i] = p
OnWire(p, v) ==
    LET item == ItemOf(ParamTab.PSS[Row(p)])
    IN  DecodeProcessed(item, PrepareRaw(item, ISIMF32(Binding[p], v)))

LockFree == mpc # "locked"

-------------------------------------------------------------------------------
(* The software *)

Init ==
    /\ model = Defaults    \* the initialisers of the parameters
    /\ cmd = NoCommands
    /\ prm = [p \in Reported |-> 0]
    /\ pc = "start" /\ index = 1
    /\ powered = FALSE
    /\ mpc = "init" /\ seen = Defaults /\ from = 1
    /\ asked = NoCommands /\ moved = "nothing" /\ fresh = TRUE

\* is_power_on.
\* Mutant: the power is taken to be on.
PowerOnAlways == TRUE
PowerOn == model["PSSPWR"] # 0

\* runtime_step up to ISYSALG.
Start ==
    /\ pc = "start" /\ LockFree
    /\ powered' = PowerOn
    /\ pc' = IF powered' THEN "commands" ELSE "exchange"
    /\ asked' = cmd
    /\ moved' = "nothing"
    /\ UNCHANGED <<model, cmd, prm, index, simVars, fresh>>

SetAndClear(c) ==
    /\ LockFree
    /\ model' = [model EXCEPT ![c[1]] = Ordered(c)]
    /\ cmd' = [cmd EXCEPT ![c] = 0]

ExecuteCommand(c) ==
    /\ pc = "commands" /\ FirstWaiting(CommandOrder, c)
    /\ c # <<"model", "init">>
    /\ SetAndClear(c)
    /\ UNCHANGED <<prm, pc, index, powered, asked, simVars, moved, fresh>>

\* CPSSINIT: init_defaults writes one parameter after the other, and does not
\* ask for the mutex.
StartInit ==
    /\ pc = "commands" /\ FirstWaiting(CommandOrder, <<"model", "init">>)
    /\ pc' = "init" /\ index' = 1
    /\ fresh' = TRUE
    /\ UNCHANGED <<model, cmd, prm, powered, asked, simVars, moved>>

InitParam ==
    /\ pc = "init" /\ index <= Len(ParamOrder)
    /\ model' = [model EXCEPT ![ParamOrder[index]] = Defaults[ParamOrder[index]]]
    /\ index' = index + 1
    /\ UNCHANGED <<cmd, prm, pc, powered, asked, simVars, moved, fresh>>

EndInit ==
    /\ pc = "init" /\ index > Len(ParamOrder)
    /\ cmd' = [cmd EXCEPT ![<<"model", "init">>] = 0]
    /\ pc' = "commands" /\ index' = 1
    /\ UNCHANGED <<model, prm, powered, asked, simVars, moved, fresh>>

StartExport ==
    /\ pc = "commands" /\ NoneWaiting(CommandOrder)
    /\ pc' = "export" /\ index' = 1
    /\ UNCHANGED <<model, cmd, prm, powered, asked, simVars, moved, fresh>>

\* Mutant: the last parameter is forgotten.
ExportedEarly == index >= Len(ParamOrder)
Exported == index > Len(ParamOrder)

\* ISYS_EXPORT_MODEL_PARAMS: one ISIMGET for each parameter.
ExportParam ==
    /\ pc = "export" /\ ~Exported /\ LockFree
    /\ LET p == ParamOrder[index]
       IN  prm' = IF p \in Reported THEN [prm EXCEPT ![p] = OnWire(p, model[p])] ELSE prm
    /\ index' = index + 1
    /\ UNCHANGED <<model, cmd, pc, powered, asked, simVars, moved, fresh>>

EndExport ==
    /\ pc = "export" /\ Exported
    /\ pc' = "exchange" /\ index' = 1
    /\ UNCHANGED <<model, cmd, prm, powered, asked, simVars, moved, fresh>>

\* The exchange of this tick may end with a frame of commands: those that are
\* there overwrite those that wait (merge_nonzero_cmd_fields).
Exchange ==
    /\ pc = "exchange"
    /\ pc' = "power"
    /\ \/ cmd' = cmd
       \/ \E f \in Frames : cmd' = [c \in Commands |-> IF f[c] # 0 THEN f[c] ELSE cmd[c]]
    /\ UNCHANGED <<model, prm, index, powered, asked, simVars, moved, fresh>>

ExecutePower(c) ==
    /\ pc = "power" /\ FirstWaiting(PowerOrder, c)
    /\ SetAndClear(c)
    /\ UNCHANGED <<prm, pc, index, powered, asked, simVars, moved, fresh>>

\* The end of apply_power_commands.
\* Mutant: the rails are left as they are.
CutsNever == FALSE
Cuts == model["PSSPWR"] = 0

EndPower ==
    /\ pc = "power" /\ NoneWaiting(PowerOrder) /\ LockFree
    /\ pc' = IF Cuts THEN "cut" ELSE "start"
    /\ index' = 1
    /\ UNCHANGED <<model, cmd, prm, powered, asked, simVars, moved, fresh>>

CutRail ==
    /\ pc = "cut" /\ index <= Len(RailOrder) /\ LockFree
    /\ model' = [model EXCEPT ![RailOrder[index]] = 0]
    /\ index' = index + 1
    /\ UNCHANGED <<cmd, prm, pc, powered, asked, simVars, moved, fresh>>

EndCut ==
    /\ pc = "cut" /\ index > Len(RailOrder)
    /\ pc' = "start" /\ index' = 1
    /\ fresh' = (fresh /\ \E r \in Rails : model[r] # 0)
    /\ UNCHANGED <<model, cmd, prm, powered, asked, simVars, moved>>

System ==
    \/ Start
    \/ \E c \in Commands : ExecuteCommand(c) \/ ExecutePower(c)
    \/ StartInit \/ InitParam \/ EndInit
    \/ StartExport \/ ExportParam \/ EndExport
    \/ Exchange
    \/ EndPower \/ CutRail \/ EndCut

-------------------------------------------------------------------------------
(* The model *)

\* apply_control_limits and simulate_physics: with the main power off the rails
\* go off and no current flows; otherwise every rail that is on draws its load,
\* half of it in the economy mode, and the sum is limited to PSSMAXA.
TotalLoad(m) ==
    LET drawn == UNION {{<<r, unit>> : unit \in 1 .. Load[r]} : r \in {q \in Rails : m[q] # 0}}
        sum   == Cardinality(drawn)
    IN  IF m["PSSECO"] # 0 THEN sum \div 2 ELSE sum

\* Mutant: the limit is forgotten.
LimitedNot(m, total) == total
Limited(m, total) ==
    IF m["PSSMAXA"] > 0 /\ total > m["PSSMAXA"] THEN m["PSSMAXA"] ELSE total

Physics(m) ==
    [p \in Params |->
        IF p = "PSSA" THEN IF m["PSSPWR"] = 0 THEN 0 ELSE Limited(m, TotalLoad(m))
        ELSE IF p \in Rails /\ m["PSSPWR"] = 0 THEN 0 ELSE m[p]]

\* init: late or early, the thread starts when it starts.
SimInit ==
    /\ mpc = "init" /\ mpc' = "idle"
    /\ model' = Defaults
    /\ moved' = "init" /\ fresh' = TRUE
    /\ UNCHANGED <<sysVars, seen, from>>

\* step, with the mutex and so in one piece, unless CPSSINIT is under way.
SimStep ==
    /\ mpc = "idle" /\ pc # "init"
    /\ model' = Physics(model)
    /\ moved' = IF model' # model /\ moved = "nothing" THEN "step" ELSE moved
    /\ fresh' = (fresh /\ model["PSSPWR"] # 0)
    /\ UNCHANGED <<sysVars, simVars>>

SimLock ==
    /\ mpc = "idle" /\ pc = "init" /\ mpc' = "locked"
    /\ seen' = model /\ from' = index
    /\ UNCHANGED <<model, sysVars, moved, fresh>>

\* What CPSSINIT has written since.
Raced ==
    LET written == IF pc = "init" THEN index - 1 ELSE Len(ParamOrder)
    IN  {p \in Params : \E i \in from .. written : ParamOrder[i] = p}

\* Both threads write without a common lock: the step may have read each
\* parameter before or after CPSSINIT wrote it, and either write may have
\* come last.
SimWrite ==
    /\ mpc = "locked" /\ mpc' = "idle"
    /\ \E early \in SUBSET {p \in Raced : seen[p] # model[p]}, lost \in SUBSET Raced :
        LET read  == [p \in Params |-> IF p \in early THEN seen[p] ELSE model[p]]
            wrote == Physics(read)
        IN  model' = [p \in Params |-> IF p \in lost THEN model[p] ELSE wrote[p]]
    /\ moved' = IF moved = "nothing" THEN "step" ELSE moved
    /\ seen' = Defaults /\ from' = 1
    /\ UNCHANGED <<sysVars, fresh>>

Simulation == SimInit \/ SimStep \/ SimLock \/ SimWrite

Next == System \/ Simulation

\* Neither thread waits for anything but the mutex.
Fairness == WF_vars(System) /\ WF_vars(Simulation)

Spec     == Init /\ [][Next]_vars
FairSpec == Spec /\ Fairness

-------------------------------------------------------------------------------
(* Properties *)

TypeOK ==
    /\ model \in [Params -> Nat]
    /\ \A p \in Params \ {"PSSMAXA", "PSSA"} : model[p] \in {0, 1}
    /\ DOMAIN cmd = Commands /\ DOMAIN asked = Commands
    /\ DOMAIN prm = Reported
    /\ pc \in {"start", "commands", "init", "export", "exchange", "power", "cut"}
    /\ index \in 1 .. Len(ParamOrder) + 1
    /\ powered \in BOOLEAN
    /\ mpc \in {"init", "idle", "locked"}
    /\ seen \in [Params -> Nat] /\ from \in 1 .. Len(ParamOrder) + 1
    /\ moved \in {"nothing", "step", "init"} /\ fresh \in BOOLEAN

Asked(c) == c \in Commands /\ asked[c] # 0
Live(r)  == model["PSSPWR"] # 0 /\ model[r] # 0

\* A rail gets power only because its own command said so in this step, or
\* because the defaults, which switch every rail on, were loaded and nothing
\* has cut the rails since: switching the main power off and on again, in one
\* frame or in many, with the model thread in between or not, never brings a
\* rail back.
RailsUpByCommand ==
    [][ \A r \in Rails : ~Live(r) /\ Live(r)' => fresh \/ Asked(<<r, "on">>) ]_vars

\* When PSS answers, the commands that waited when the step began have been
\* obeyed, in the order of the table: "off" wins over "on" whichever came last,
\* a limit is what was sent, and the defaults of CPSSINIT give way to all of
\* them, whatever steps the model made meanwhile.  (The model thread loads the
\* defaults when it starts, which may be late and undo a command.)
CommandsTakeEffect ==
    pc = "exchange" /\ powered /\ moved # "init" =>
        /\ \A r \in Rails :
              /\ Asked(<<r, "off">>) => model[r] = 0
              /\ Asked(<<r, "on">>) /\ ~Asked(<<r, "off">>) =>
                    model[r] = 1 \/ model["PSSPWR"] = 0
        /\ Asked(<<"PSSMAXA", "value">>) =>
              model["PSSMAXA"] = Unit * asked[<<"PSSMAXA", "value">>]
        /\ Asked(<<"model", "init">>) => model["PSSPWR"] = 0 \/ moved = "step"

\* What a powered PSS answers is the state of its model after the commands of
\* the step (DATA_EXCHANGE_RU.md, 17.2), unless the model has moved since the
\* step began: the parameters are read one by one.
TelemetryFresh ==
    pc = "exchange" /\ powered /\ moved = "nothing" =>
        \A p \in Reported : prm[p] = OnWire(p, model[p])

\* CS never sees that it has switched PSS off: the telemetry stops at the last
\* step with power and says "on" until the next one.  Only a reset in the middle
\* of a step shows as off.
OffUnseen ==
    [][ "PSSPWR" \in Reported /\ prm["PSSPWR"] # 0 /\ prm'["PSSPWR"] = 0 =>
            Asked(<<"model", "init">>) \/ moved = "init" ]_vars

\* A command to switch off is obeyed, whatever it waits for and arrives with.
SwitchedOff ==
    \A c \in Commands : c[2] = "off" /\ c[1] # "PSSECO" =>
        (cmd[c] # 0 ~> model[c[1]] = 0 \/ model["PSSPWR"] = 0)

\* A current that is too high, because the limit was lowered or the main power
\* switched off, comes down.
Excess == model["PSSA"] > IF model["PSSPWR"] = 0 THEN 0 ELSE model["PSSMAXA"]
CurrentSettles == Excess ~> ~Excess

-------------------------------------------------------------------------------
(* The values of these states, and samples of all others, on their way *)

\* prepare_raw_value finds the best raw value there is: no other value that
\* fits the wire decodes nearer to the one asked for, so a value out of range
\* saturates instead of wrapping (DATA_EXCHANGE_RU.md, 7.6), whatever the
\* algorithm and the signs of its coefficients.  The values of the model, which
\* their fields can hold, are off by half a unit at most.
QuantizedNearest ==
    /\ FarQuantized = {}
    /\ \A p \in Reported :
          LET off == OnWire(p, model[p]) - ISIMF32(Binding[p], model[p])
          IN  2 * off \in -Unit .. Unit

\* A parameter a device exports is the value CS parses, up to quantization:
\* the device packs it at the place its table row names, the bytes go over the
\* bus into a stale buffer, CS copies them into the window it has found for the
\* node (find_cs_param_base_block) and reads its own place of the row.  Every
\* other parameter, of this node and of the others, keeps its value.  What
\* MSG_PRM holds is quantized already: packing it again changes nothing.
TelemetryDelivered ==
    /\ WrongTelemetry = {}
    /\ \A p \in Reported :
          LET item == ItemOf(ParamTab.PSS[Row(p)])
          IN  DecodeProcessed(item, PrepareRaw(item, prm[p])) = prm[p]

\* The frames of commands that this module lets arrive are those the bus can
\* bring: the header arrives as it was made, though it travels as two bytes
\* written one after the other over the header of the frame before, and its
\* parity bit notices every damage of an odd number of bits in whichever byte
\* (BusExchange relies on it; an even number goes unnoticed).  And a command CS
\* generates is the command the device sees: CS packs it into its own message,
\* moves the fields of the node that are not zero to the buffer of the exchange,
\* the bytes go over the bus and the device merges them into MSG_CMD.  With
\* another command in the same frame the device sees these two and no other,
\* finds this one with the value up to quantization, and clearing one leaves the
\* other.  The exception is built in: a command whose value quantizes to zero
\* does not exist for the device (every temperature limit below half a degree;
\* every fan power up to 10).  A value that waits in MSG_CMD is never such.
CommandDelivered ==
    /\ LostHeaders = {} /\ WrongCommands = {}
    /\ \A c \in Commands :
          LET item == ItemOf(<<IF c[2] = "value" THEN "A" ELSE "D">>)
          IN  Waiting(c) =>
                 EncodeToBits(item, PrepareRaw(item, Unit * cmd[c])) = cmd[c]

\* A value written to a parameter is read back, looked up by its id, as the
\* nearest value the parameter can stand for: what is too large or too small
\* saturates, nothing wraps, no unsigned parameter gets a negative value, as an
\* integer and as a float.  (A switch is on exactly when the value rounds to a
\* positive number.)  No other id finds a parameter.  So no parameter ever holds
\* what its type cannot stand for, whatever races for it.
StoredNearest ==
    /\ WrongIds = {} /\ WrongStored = {}
    /\ \A p \in Params : Stands(Type(p), ISIMF32(Binding[p], model[p]))

================================================================================
