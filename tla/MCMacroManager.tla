--------------------------- MODULE MCMacroManager ---------------------------
(* Instances of MacroManager for TLC. *)
EXTENDS MacroManager, TLC

CONSTANTS bolt, nova, rain, attack,   \* two spells, a ground spell, a command
          t1, t2, t3, t4

SpellChains == {<<bolt, nova, bolt>>}
MixedChains == {<<rain, attack>>}
LongChains == {<<bolt, attack>>, <<rain, bolt, attack, bolt>>}

TableSymmetry == Permutations({t1, t2, t3, t4})
=============================================================================
