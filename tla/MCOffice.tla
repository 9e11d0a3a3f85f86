------------------------------ MODULE MCOffice ------------------------------
(* Two workflows that share nothing, checked in one run: a behaviour is one *)
(* of the pay stubs or one of the Plus checkout, chosen at the start.       *)
EXTENDS PayStubs, PlusCheckout

CONSTANTS r1, r2, b1, b2, b3
TwoRuns == {r1, r2}
ThreeTabs == {b1, b2, b3}

VARIABLE side

OfficeInit == PayInit /\ PlusInit /\ side \in {"stubs", "checkout"}

OfficeSpec ==
    /\ OfficeInit
    /\ [][\/ side = "stubs" /\ PayNext /\ UNCHANGED <<side, plusVars>>
          \/ side = "checkout" /\ PlusNext /\ UNCHANGED <<side, payVars>>]_<<side, payVars, plusVars>>
    /\ side = "stubs" => PayFairness
=============================================================================
