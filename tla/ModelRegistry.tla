----------------------------- MODULE ModelRegistry -----------------------------
(*****************************************************************************)
(* Typed access of the system software to the parameters of a model          *)
(* (i_sim.cpp, i_isim_registry.cpp): the registry is the table of the        *)
(* parameters sorted by id; a value that is written is rounded and clamped   *)
(* to what the C++ type behind the parameter can hold.                       *)
(*                                                                           *)
(* Pure functions, as in MessageCodec.  A float counts 1/Unit, an integer 1. *)
(* u32 and s32 are left out: no entry of a model has them (ISIMKIND).        *)
(*****************************************************************************)
EXTENDS MessageCodec

ISIMKIND(type) ==
    CASE type \in {"boolean", "uint8"}     -> "u8"
      [] type = "int8"                     -> "s8"
      [] type = "uint16"                   -> "u16"
      [] type = "int16"                    -> "s16"
      [] type \in {"float32", "ufloat32"}  -> "f32"

ISIMDOMAIN(type) ==
    CASE type = "boolean"                          -> "binary"
      [] type \in {"uint8", "uint16", "ufloat32"}  -> "non_negative"
      [] OTHER                                     -> "plain"

\* ISIMREG_BUILD: a binding for every entry [id, type] of the table.
ISIMREG_BUILD(params) ==
    [i \in DOMAIN params |-> [id     |-> params[i].id,
                              kind   |-> ISIMKIND(params[i].type),
                              domain |-> ISIMDOMAIN(params[i].type)]]

\* find_binding: the index of the binding that lower_bound finds, 0 for none.
FindBinding(registry, id) ==
    LET at == Min({i \in DOMAIN registry : registry[i].id >= id} \cup {Len(registry) + 1})
    IN  IF at > Len(registry) THEN 0 ELSE IF registry[at].id # id THEN 0 ELSE at

Between(v, lo, hi) == IF v < lo THEN lo ELSE IF v > hi THEN hi ELSE v

\* Mutant: the unsigned byte is clamped like the signed one.
ClampKindSigned(kind, v) ==
    CASE kind \in {"u8", "s8"} -> Between(v, -(2^7), 2^7 - 1)
      [] kind = "u16"          -> Between(v, 0, 2^16 - 1)
      [] kind = "s16"          -> Between(v, -(2^15), 2^15 - 1)
ClampKind(kind, v) ==
    CASE kind = "u8"  -> Between(v, 0, 2^8 - 1)
      [] kind = "s8"  -> Between(v, -(2^7), 2^7 - 1)
      [] kind = "u16" -> Between(v, 0, 2^16 - 1)
      [] kind = "s16" -> Between(v, -(2^15), 2^15 - 1)

\* write_typed_value with clamp_f32_domain: what is stored of a value of the
\* kind of the binding.
WriteTyped(binding, v) ==
    CASE binding.kind = "u8" /\ binding.domain = "binary"        -> IF v # 0 THEN 1 ELSE 0
      [] binding.kind = "f32" /\ binding.domain = "non_negative" -> IF v < 0 THEN 0 ELSE v
      [] OTHER                                                   -> v

\* ISIMSETI32, ISIMSETF32: what is stored of an integer and of a float.
ISIMSETI32(binding, v) ==
    WriteTyped(binding, IF binding.kind = "f32" THEN Unit * v ELSE ClampKind(binding.kind, v))
ISIMSETF32(binding, x) ==
    WriteTyped(binding, IF binding.kind = "f32" THEN x
                        ELSE ClampKind(binding.kind, RoundOf(x, Unit)))

\* ISIMI32, ISIMF32: what is read back.
ISIMI32(binding, stored) == IF binding.kind = "f32" THEN RoundOf(stored, Unit) ELSE stored
ISIMF32(binding, stored) == IF binding.kind = "f32" THEN stored ELSE Unit * stored

-------------------------------------------------------------------------------
(* Bounded inputs and counterexamples *)

SampleStored == {-70001, -257, -256, -3, -1, 0, 1, 2, 3, 254, 255, 256, 257,
                 509, 510, 511, 65535, 131071, 140001}

\* Whether a parameter of this type can stand for a value, in units.
Stands(type, v) ==
    CASE type = "boolean"  -> v \in {0, Unit}
      [] type = "int8"     -> v % Unit = 0 /\ v \div Unit \in -128 .. 127
      [] type = "uint8"    -> v % Unit = 0 /\ v \div Unit \in 0 .. 255
      [] type = "int16"    -> v % Unit = 0 /\ v \div Unit \in -32768 .. 32767
      [] type = "uint16"   -> v % Unit = 0 /\ v \div Unit \in 0 .. 65535
      [] type = "float32"  -> TRUE
      [] type = "ufloat32" -> v >= 0

\* A table with a parameter of every type, ids with gaps.
SampleTable ==
    LET types == <<"boolean", "int8", "uint8", "int16", "uint16", "float32", "ufloat32">>
    IN  [i \in DOMAIN types |-> [id |-> 2 * i, type |-> types[i]]]

\* Counterexamples to StoredNearest of PssSystem: ids that find the wrong
\* parameter, and values that are not stored as the nearest possible one.
Registry == ISIMREG_BUILD(SampleTable)
WrongIds ==
    {id \in 0 .. 16 :
        FindBinding(Registry, id) = 0 <=> \E i \in DOMAIN SampleTable : SampleTable[i].id = id}
WrongStored ==
    {sample \in (DOMAIN SampleTable) \X SampleStored :
        LET i       == sample[1]
            x       == sample[2]
            type    == SampleTable[i].type
            binding == Registry[FindBinding(Registry, SampleTable[i].id)]
            target  == IF type = "boolean"
                       THEN Between(Unit * RoundOf(x, Unit), 0, Unit) ELSE x
            float   == ISIMF32(binding, ISIMSETF32(binding, x))
            whole   == Unit * ISIMI32(binding, ISIMSETI32(binding, RoundOf(x, Unit)))
            error   == IF float < target THEN target - float ELSE float - target
        IN  \/ ~Stands(type, float)
            \/ \E d \in 0 .. error - 1 : Stands(type, target - d) \/ Stands(type, target + d)
            \/ x % Unit = 0 /\ whole # float}

================================================================================
