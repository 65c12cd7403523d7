----------------------------- MODULE MCRedemption -----------------------------
(***************************************************************************)
(* Instances of Redemption for TLC.                                        *)
(***************************************************************************)
EXTENDS Redemption, TLC

CONSTANTS o1, seat, drink, tray, s1, s2, k1

\* A ticket and a right of a promotion, or such a right and a delivery.
OneOrder     == (seat :> o1 @@ drink :> o1)
DrinkAndTray == (drink :> o1 @@ tray :> o1)

Symmetric == Permutations(Staff) \cup Permutations(Keys)
=============================================================================
