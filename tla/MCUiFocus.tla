------------------------------ MODULE MCUiFocus ------------------------------
(* The scenes in which UiFocus is model-checked. *)
EXTENDS UiFocus

\* One roll over two kinds of window, in every pairing, or two rolls over the bags.
OneOrTwoRolls ==
    {[frames |-> 1, windows |-> {"popup", "loot", "bags"} \ {kind}] :
         kind \in {"popup", "loot", "bags"}}
      \cup {[frames |-> 2, windows |-> {"bags"}]}
=============================================================================
