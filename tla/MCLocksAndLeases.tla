-------------------------- MODULE MCLocksAndLeases --------------------------
(* Two workflows that share nothing, checked in one run: a behaviour is one  *)
(* of the gift cards' issuance, kept apart by locks, or one of the report    *)
(* schedule, kept apart by leases.                                           *)
EXTENDS GiftCardIssuance, ReportSchedule, TLC

CONSTANTS c1, c2, c3, c4, k1, k2, e1, e2, p1, s1, s2, x1, x2, partner, weekly, monthly

\* Four cases of two customers in one pool: overlapping resumes take the addresses
\* in opposite orders.
FourCases == {c1, c2, c3, c4}
FourEmails == c1 :> e1 @@ c2 :> e2 @@ c3 :> e2 @@ c4 :> e1
FourInOnePool == [c \in FourCases |-> p1]
FourAges == c1 :> 1 @@ c2 :> 2 @@ c3 :> 3 @@ c4 :> 4
OnePool == {p1}
BothCodesInOnePool == k1 :> p1 @@ k2 :> p1
TwoCodes == {k1, k2}
TwoEmails == {e1, e2}
TwoSessions == {s1, s2}

TwoExporters == {x1, x2}
OneAddress == {partner}
TwoSettings == {weekly, monthly}
Symmetry == Permutations(TwoSessions) \union Permutations(TwoExporters)

VARIABLE side

LocksInit == IssueInit /\ ReportInit /\ side \in {"issuance", "reports"}

LocksSpec ==
    /\ LocksInit
    /\ [][\/ side = "issuance" /\ IssueNextStep /\ UNCHANGED <<side, reportVars>>
          \/ side = "reports" /\ ReportNext /\ UNCHANGED <<side, issueVars>>
         ]_<<side, issueVars, reportVars>>
=============================================================================
