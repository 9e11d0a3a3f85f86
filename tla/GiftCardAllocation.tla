------------------------ MODULE GiftCardAllocation -------------------------
(***************************************************************************)
(* What the issuance of gift cards promises, without sessions and locks:   *)
(* every accepted case is settled once, by a card, by money or by a        *)
(* denial; no code is given twice; and an e-mail address that has had a    *)
(* card only gets another one that a manager approved.                     *)
(***************************************************************************)
CONSTANTS Cases, Codes, Emails

VARIABLES
    cards,      \* issued cards: the case, the code, and whether nobody approved it
    reached,    \* the e-mail addresses that have had a card
    denied,     \* cases whose gift card was refused
    paid        \* cases whose original payment is being refunded

Card == [case : Cases, code : Codes, email : Emails, auto : BOOLEAN]

Settled(c) == c \in denied \cup paid \/ \E card \in cards : card.case = c

Init == cards = {} /\ reached = {} /\ denied = {} /\ paid = {}

\* Cards are issued together when one transaction handles several cases.
Issue(new) ==
    /\ \A card \in new : ~Settled(card.case) /\ \A old \in cards : old.code # card.code
    /\ \A card, other \in new :
         card # other => card.case # other.case /\ card.code # other.code
    /\ \A card \in new : card.auto =>
         /\ card.email \notin reached
         /\ \A other \in new : other # card /\ other.auto => other.email # card.email
    /\ cards' = cards \cup new
    /\ reached' = reached \cup {card.email : card \in new}
    /\ UNCHANGED <<denied, paid>>

Deny(c) == /\ ~Settled(c) /\ denied' = denied \cup {c}
           /\ UNCHANGED <<cards, reached, paid>>

Pay(c) == /\ ~Settled(c) /\ paid' = paid \cup {c}
          /\ UNCHANGED <<cards, reached, denied>>

\* A card is sent again, perhaps to a corrected address.
Resend(e) == /\ cards # {} /\ reached' = reached \cup {e}
             /\ UNCHANGED <<cards, denied, paid>>

Next == \/ Issue({card \in cards' : card \notin cards})
        \/ \E c \in Cases : Deny(c) \/ Pay(c)
        \/ \E e \in Emails : Resend(e)

Spec == Init /\ [][Next]_<<cards, reached, denied, paid>>
=============================================================================
