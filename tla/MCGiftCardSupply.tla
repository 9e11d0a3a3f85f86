------------------------- MODULE MCGiftCardSupply --------------------------
EXTENDS GiftCardSupply, TLC

CONSTANTS p1, p2, sunzee, w1, w2

\* Two pools of a provider without batch names share one account.
SharedAccount == p1 :> sunzee @@ p2 :> sunzee
TwoPools == {p1, p2}
TwoWorkers == {w1, w2}
Symmetry == Permutations(TwoWorkers)
=============================================================================
