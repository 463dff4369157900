---------------------------- MODULE CsOperatingMode ----------------------------
(*****************************************************************************)
(* The operating mode of CS (cs_operating_mode*.cpp): which nodes CS polls   *)
(* periodically and in which queue.  Failures of periodic exchanges add up   *)
(* to a streak; a streak that reaches the threshold of the kind of failure   *)
(* starts a cooldown during which the node is left alone.  The operator      *)
(* enables and disables nodes and gives one of them the focus.               *)
(*                                                                           *)
(* Standing alone, the module takes any completions as input.  CsMaster puts *)
(* it together with the scheduler they come from.                            *)
(*****************************************************************************)
EXTENDS Integers

CONSTANTS
    Nodes,           \* the systems CS exchanges with
    NoFocus,         \* target_t::any
    EnabledAtStart,  \* the nodes polled from the start
    Threshold,       \* [Failures -> Nat]: failure_threshold_for
    CooldownTicks,   \* [Failures -> Nat]: cooldown_ticks_for
    MaxStreak        \* where the streak stops counting

VARIABLES
    focus,     \* the node in focus
    enabled,   \* background_enabled
    streak,    \* failure_streak
    cooldown   \* cooldown_ticks

modeVars == <<focus, enabled, streak, cooldown>>

Failures == {"timeout", "invalid_eof"}

ASSUME ModeAssumption ==
    /\ NoFocus \notin Nodes
    /\ EnabledAtStart \subseteq Nodes
    /\ Threshold \in [Failures -> Nat \ {0}]
    /\ CooldownTicks \in [Failures -> Nat \ {0}]
    /\ MaxStreak \in Nat
    /\ \A r \in Failures : Threshold[r] <= MaxStreak
    /\ Threshold["invalid_eof"] <= Threshold["timeout"]

LongestCooldown == IF CooldownTicks["timeout"] > CooldownTicks["invalid_eof"]
                   THEN CooldownTicks["timeout"] ELSE CooldownTicks["invalid_eof"]

\* What the scheduler reports of an exchange; "counts" is periodic and data.
Completions == [node : Nodes, result : Failures \cup {"success"}, counts : BOOLEAN]

ModeInit ==
    /\ focus = NoFocus
    /\ enabled = EnabledAtStart
    /\ streak = [x \in Nodes |-> 0]
    /\ cooldown = [x \in Nodes |-> 0]

\* policy_for.  Mutant: the focus is looked at before the cooldown.
PolicyForFocus(x) ==
    IF focus = x THEN "priority"
    ELSE IF x \in enabled /\ cooldown[x] = 0 THEN "normal" ELSE "off"
PolicyFor(x) ==
    IF cooldown[x] # 0 THEN "off"
    ELSE IF focus = x THEN "priority"
    ELSE IF x \in enabled THEN "normal" ELSE "off"

\* clear_target_state
ClearTarget(x) ==
    /\ streak' = [streak EXCEPT ![x] = 0]
    /\ cooldown' = [cooldown EXCEPT ![x] = 0]

\* focus <node>; the node that has the focus already keeps its cooldown.
SetFocus(x) ==
    /\ focus # x
    /\ focus' = x
    /\ ClearTarget(x)
    /\ UNCHANGED enabled

\* focus clear, nominal
ClearFocus ==
    /\ focus' = NoFocus
    /\ UNCHANGED <<enabled, streak, cooldown>>

Enable(x) ==
    /\ enabled' = enabled \cup {x}
    /\ ClearTarget(x)
    /\ UNCHANGED focus

Disable(x) ==
    /\ enabled' = enabled \ {x}
    /\ UNCHANGED <<focus, streak, cooldown>>

ModeCommand ==
    \/ \E x \in Nodes : SetFocus(x) \/ Enable(x) \/ Disable(x)
    \/ ClearFocus

\* on_exchange_success, on_exchange_failure
Answered(c) == c.result = "success"
Failed(c)   == ~Answered(c) /\ c.counts

Counted(n) == IF n < MaxStreak THEN n + 1 ELSE n

\* Mutant: a failure more than the threshold is needed.
StartsCooldownLate(x, c, n) == n > Threshold[c.result] /\ cooldown[x] = 0
StartsCooldown(x, c, n) == n >= Threshold[c.result] /\ cooldown[x] = 0

\* tick_cooldowns.  Mutant: the streak survives the cooldown.
StreakKept(left, n) == n
StreakAfter(left, n) == IF left = 1 THEN 0 ELSE n

\* operating_mode::step: the completion of the last exchange, if there is
\* one, then one tick of every cooldown.  The scheduler finishes at most one
\* exchange in a tick, so cs has at most one member.
ModeStep(cs) ==
    LET ok(x)  == \E c \in cs : c.node = x /\ Answered(c)
        bad(x) == {c \in cs : c.node = x /\ Failed(c)}
        n(x)   == IF ok(x) THEN 0
                  ELSE IF bad(x) # {} THEN Counted(streak[x]) ELSE streak[x]
        start(x) == {c \in bad(x) : StartsCooldown(x, c, n(x))}
        left(x) == IF ok(x) THEN 0
                   ELSE IF start(x) # {}
                   THEN CooldownTicks[(CHOOSE c \in start(x) : TRUE).result]
                   ELSE cooldown[x]
    IN  /\ streak' = [x \in Nodes |-> StreakAfter(left(x), n(x))]
        /\ cooldown' = [x \in Nodes |-> IF left(x) > 0 THEN left(x) - 1 ELSE 0]
        /\ UNCHANGED <<focus, enabled>>

ModeTick == ModeStep({}) \/ \E c \in Completions : ModeStep({c})

ModeNext == ModeCommand \/ ModeTick
ModeSpec == ModeInit /\ [][ModeNext]_modeVars

-------------------------------------------------------------------------------
(* Properties *)

\* The type invariant.  Failures are counted during a cooldown as well, but a
\* streak and what is left of the cooldown together stay below a bound, so with
\* the program's values the byte that counts them never reaches its limit.
ModeTypeOK ==
    /\ focus \in Nodes \cup {NoFocus}
    /\ enabled \subseteq Nodes
    /\ streak \in [Nodes -> 0 .. MaxStreak]
    /\ cooldown \in [Nodes -> 0 .. LongestCooldown]
    /\ \A x \in Nodes :
           streak[x] + cooldown[x] < Threshold["timeout"] + LongestCooldown

\* A node that is polled is always short of a cooldown: whichever way a
\* cooldown ended, by time, by an answer or by the operator, the node starts
\* with a streak that leaves it at least one more failure of the patient kind.
StreakBelow ==
    \A x \in Nodes : cooldown[x] = 0 => streak[x] < Threshold["timeout"]

================================================================================
