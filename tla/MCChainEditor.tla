--------------------------- MODULE MCChainEditor ---------------------------
(* An instance of ChainEditor for TLC: two spellbooks that number the spells *)
(* differently.                                                              *)
EXTENDS ChainEditor, TLC

CONSTANTS bolt, aura, s1, s2

BothBooks == {<<bolt, aura>>, <<aura, bolt>>}

SlotSymmetry == Permutations(Slots)
=============================================================================
