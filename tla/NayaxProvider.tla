--------------------------- MODULE NayaxProvider ---------------------------
(***************************************************************************)
(* The Nayax refund service, which is not part of the repository: what the *)
(* worker's two POSTs do on the other side, as the code that calls them    *)
(* relies on it.  A request opens a refund request on the purchase; an     *)
(* approval pays one open request; requests and refunds together never     *)
(* exceed the original purchase.  A call may be handled long after its     *)
(* caller stopped waiting, or never.                                       *)
(***************************************************************************)
EXTENDS Naturals

CONSTANTS
    Fits        \* how many refunds of the approved amount fit in the purchase:
                \* 1 for a full refund, more for a partial one
ASSUME ProviderConstants == Fits \in Nat \ {0}

VARIABLES
    sent,       \* calls the worker put on the wire: [case, gen, stage]
    answered,   \* calls the provider has handled, or the network has lost
    asked,      \* open refund requests of each case's purchase
    paid        \* refunds Nayax has made for each case

provider == <<sent, answered, asked, paid>>

InFlight == sent \ answered

ProviderInit(Cases) ==
    /\ sent = {}
    /\ answered = {}
    /\ asked = [c \in Cases |-> 0]
    /\ paid = [c \in Cases |-> 0]

Send(call) ==
    /\ sent' = sent \cup {call}
    /\ UNCHANGED <<answered, asked, paid>>

\* A request is accepted while the purchase has room for it.
AcceptRequest(call) ==
    /\ call \in InFlight
    /\ call.stage = "request"
    /\ asked[call.case] + paid[call.case] < Fits
    /\ asked' = [asked EXCEPT ![call.case] = @ + 1]
    /\ answered' = answered \cup {call}
    /\ UNCHANGED <<sent, paid>>

\* An approval pays an open request of the purchase.
PayApproval(call) ==
    /\ call \in InFlight
    /\ call.stage = "approve"
    /\ asked[call.case] > 0
    /\ asked' = [asked EXCEPT ![call.case] = @ - 1]
    /\ paid' = [paid EXCEPT ![call.case] = @ + 1]
    /\ answered' = answered \cup {call}
    /\ UNCHANGED sent

\* A call the provider turns down, or that never arrives, has no effect.
NoEffect(call) ==
    /\ call \in InFlight
    /\ answered' = answered \cup {call}
    /\ UNCHANGED <<sent, asked, paid>>

=============================================================================
