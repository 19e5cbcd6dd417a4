--------------------------- MODULE MCBackupAdmin ---------------------------
(* Sessions and symmetry for the model checking of BackupAdmin. *)
EXTENDS BackupAdmin, TLC

CONSTANTS r1, r2, browser1, browser2

\* One browser that sends one request after the other.
OneBrowser == r1 :> browser1 @@ r2 :> browser1

\* Two browsers whose requests overlap.
TwoBrowsers == r1 :> browser1 @@ r2 :> browser2

OneOrTwoBrowsers == {OneBrowser, TwoBrowsers}
OnlyOneBrowser == {OneBrowser}

CharacterSymmetry == Permutations(Characters)
=============================================================================
