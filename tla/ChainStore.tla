----------------------------- MODULE ChainStore -----------------------------
(***************************************************************************)
(* What the editor of DinoMacroManager promises to the run-time: the chain *)
(* of a slot changes only while the editor shows that slot, by Save, which *)
(* writes a complete chain and closes the editor, or by Clear.             *)
(***************************************************************************)

CONSTANTS Slots, Chains, None

VARIABLES
    chain,    \* the steps of each slot
    open      \* the slot the editor shows, or None

vars == <<chain, open>>

Init ==
    /\ chain \in [Slots -> Chains \cup {<< >>}]
    /\ open = None

Open(s) == open' = s /\ UNCHANGED chain

Close == open' = None /\ UNCHANGED chain

Save ==
    /\ open # None
    /\ chain'[open] \in Chains
    /\ chain' = [chain EXCEPT ![open] = chain'[open]]
    /\ open' = None

Clear ==
    /\ open # None
    /\ chain' = [chain EXCEPT ![open] = << >>]
    /\ UNCHANGED open

Next == (\E s \in Slots : Open(s)) \/ Close \/ Save \/ Clear

Spec == Init /\ [][Next]_vars
=============================================================================
