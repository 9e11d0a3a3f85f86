---------------------------- MODULE MCGiftCards -----------------------------
(* Progress of supply and of issuance, checked in one run: a behaviour is one *)
(* of the supply or one of the issuance, chosen at the start.                 *)
EXTENDS GiftCardSupply, GiftCardIssuance, TLC

CONSTANTS p1, p2, kemore, w1, w2, c1, c2, c3, k1, k2, e1, e2, s1, s2

\* One pool at a provider with batch names.
NamedPool == p1 :> kemore
NamedAccounts == {kemore}
OnePool == {p1}
TwoWorkers == {w1, w2}

\* Three cases, the third of a second pool.
ThreeCases == {c1, c2, c3}
ThreeEmails == c1 :> e1 @@ c2 :> e1 @@ c3 :> e2
ThreeInTwoPools == c1 :> p1 @@ c2 :> p1 @@ c3 :> p2
ThreeAges == c1 :> 1 @@ c2 :> 2 @@ c3 :> 3
CodesInTwoPools == k1 :> p1 @@ k2 :> p2
TwoPools == {p1, p2}
TwoCodes == {k1, k2}
TwoEmails == {e1, e2}
TwoSessions == {s1, s2}

VARIABLE side

CardsInit == SupplyInit /\ IssueInit /\ side \in {"supply", "issuance"}

FairCardsSpec ==
    /\ CardsInit
    /\ [][\/ side = "supply" /\ SupplyNext /\ UNCHANGED <<side, issueVars>>
          \/ side = "issuance" /\ IssueNextStep /\ UNCHANGED <<side, supplyVars>>
         ]_<<side, supplyVars, issueVars>>
    /\ side = "supply" => SupplyFairness
    /\ side = "issuance" => IssueFairness
=============================================================================
