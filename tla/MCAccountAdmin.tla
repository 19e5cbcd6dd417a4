--------------------------- MODULE MCAccountAdmin ---------------------------
(* Browser sessions for the model checking of AccountAdmin. *)
EXTENDS AccountAdmin, TLC

CONSTANTS r1, r2, r3, browser1, browser2

\* All requests come from one browser, or the last from another.
OneOrTwoBrowsers ==
    {r1 :> browser1 @@ r2 :> browser1 @@ r3 :> last : last \in {browser1, browser2}}

\* One request of one browser.
OneRequest == {r1 :> browser1}

NameSymmetry == Permutations(Names)
=============================================================================
