----------------------------- MODULE SpellChain -----------------------------
(***************************************************************************)
(* What the spell-chain manager promises its user, with no clocks, events, *)
(* cooldowns or editor: every slot holds a chain with a pointer to its     *)
(* current step, and at most one chain is armed, that is, has its current  *)
(* step being cast.  A chain moves forward only while armed, by exactly    *)
(* one step, and then is no longer armed; a chain that is rewound to step  *)
(* 1 or rewritten while armed is disarmed, so a cast begun before can      *)
(* never move it.                                                          *)
(***************************************************************************)
EXTENDS Integers

CONSTANTS
    Slots,      \* the slots of the manager
    MinSteps,   \* a chain shorter than this is not usable
    MaxSteps,   \* no chain is longer than this
    None        \* no slot

VARIABLES
    length,     \* length[s]: number of steps of the chain in slot s, 0 if empty
    at,         \* at[s]: the current step of slot s
    armed       \* the slot whose current step is being cast, or None

vars == <<length, at, armed>>

Lengths == {0} \cup MinSteps..MaxSteps

Init ==
    /\ length \in [Slots -> Lengths]
    /\ at \in [Slots -> 1..MaxSteps]
    /\ \A s \in Slots : at[s] = 1 \/ at[s] <= length[s]
    /\ armed = None

Successor(s) == IF at[s] + 1 > length[s] THEN 1 ELSE at[s] + 1

\* Rewinding the chains of rewound may disarm, and must if it moves the
\* armed chain.
DisarmedBy(rewound) ==
    /\ armed' \in {armed, None}
    /\ \A s \in rewound : armed = s /\ at[s] # 1 => armed' = None

\* The user fires slot s: unavailable steps are skipped, then the step is
\* either being cast or was refused.
Fire(s) ==
    /\ armed = None
    /\ length[s] >= MinSteps
    /\ \E step \in 1..length[s] : at' = [at EXCEPT ![s] = step]
    /\ armed' \in {s, None}
    /\ UNCHANGED length

\* The cast of the armed chain is confirmed; other chains may be rewound by
\* their timers in the same update.
Advance ==
    /\ armed \in Slots
    /\ \E rewound \in SUBSET (Slots \ {armed}) :
         at' = [s \in Slots |-> IF s = armed THEN Successor(s)
                                ELSE IF s \in rewound THEN 1 ELSE at[s]]
    /\ armed' = None
    /\ UNCHANGED length

\* Timers or a target change rewind chains, a cast fails or times out.
Rewind ==
    /\ \E rewound \in SUBSET Slots :
         /\ at' = [s \in Slots |-> IF s \in rewound THEN 1 ELSE at[s]]
         /\ DisarmedBy(rewound)
    /\ UNCHANGED length

\* The user saves or clears slot s.
Rewrite(s) ==
    /\ \E n \in Lengths : length' = [length EXCEPT ![s] = n]
    /\ \E rewound \in SUBSET Slots :
         /\ at' = [c \in Slots |-> IF c = s \/ c \in rewound THEN 1 ELSE at[c]]
         /\ DisarmedBy(rewound)
    /\ armed' # s

Next ==
    \/ \E s \in Slots : Fire(s) \/ Rewrite(s)
    \/ Advance
    \/ Rewind

Spec == Init /\ [][Next]_vars
=============================================================================
