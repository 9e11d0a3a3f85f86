------------------------- MODULE GiftCardIssuance --------------------------
(***************************************************************************)
(* How accepted gift cards are issued: database transactions that lock     *)
(* cases, e-mail addresses and codes, see what was committed, and commit   *)
(* or abort.  The sweep resumes waiting cases, several in one transaction; *)
(* customers accept offers and managers decide exceptions, one case each.  *)
(*                                                                         *)
(* A transaction reads what is committed and what it did itself.  A row    *)
(* lock on a case, a code, or an e-mail address (an advisory lock) lasts   *)
(* until its transaction ends.  The twelve months after which an address   *)
(* gets a card without approval again do not elapse.                       *)
(***************************************************************************)
EXTENDS Naturals, FiniteSets, Sequences, SequencesExt

CONSTANTS
    Cases, Codes, Emails, Pools,
    FirstEmail,     \* the address a case was made with
    CasePool,       \* the pool of the offer its customer sees
    CodePool,       \* the pool of a code
    Age,            \* Age[c] < Age[d]: case c was created earlier
    Sessions,       \* connections of the database
    ResumeLimit,    \* cases one resume locks
    MaxAborts       \* bound: transactions that fail for no reason of their own

\* An address is an address, and no two cases were created at the same time.
IssuanceAssumption ==
    /\ IsFiniteSet(Cases)
    /\ FirstEmail \in [Cases -> Emails]
    /\ Age \in [Cases -> Nat]
    /\ \A c, d \in Cases : Age[c] = Age[d] => c = d
ASSUME IssuanceAssumption

VARIABLES
    cases,      \* refund_cases: gift_card_state, approval, money refund
    cards,      \* refund_gift_card_issuances
    reached,    \* the addresses of the issuances and of their messages
    stock,      \* codes that were imported
    open,       \* pools that are enabled and not expired
    sessions,   \* transactions under way
    aborts

issueVars == <<cases, cards, reached, stock, open, sessions, aborts>>

Promise == INSTANCE GiftCardAllocation WITH
    denied <- {c \in Cases : cases[c].state = "denied"},
    paid <- {c \in Cases : cases[c].paid}

Case == [state : {"none", "pending", "review", "issued", "denied"},
         approved : BOOLEAN, paid : BOOLEAN, email : Emails]
NoSession == [todo |-> <<>>, cases |-> {}, emails |-> {}, cards |-> {}, review |-> {},
              approves |-> FALSE, ends |-> FALSE]

IssueInit ==
    /\ cases = [c \in Cases |-> [state |-> "none", approved |-> FALSE, paid |-> FALSE,
                                 email |-> FirstEmail[c]]]
    /\ cards = {} /\ reached = {} /\ stock = {}
    /\ open = Pools
    /\ sessions = [s \in Sessions |-> NoSession]
    /\ aborts = 0

Idle(s) == sessions[s] = NoSession
\* Fault: rows another transaction has locked are not skipped.
NotLocked(c) == FALSE
Locked(c) == \E s \in Sessions : c \in sessions[s].cases
EmailHolder(e) == {s \in Sessions : e \in sessions[s].emails}
Staged == UNION {sessions[s].cards : s \in Sessions}
Given(k) == \E card \in cards : card.code = k

FreeCodes(p) ==
    {k \in stock : CodePool[k] = p /\ ~Given(k) /\ \A card \in Staged : card.code # k}

Start(s, todo, approves) ==
    /\ Idle(s)
    /\ sessions' = [sessions EXCEPT ![s] =
            [NoSession EXCEPT !.todo = todo, !.cases = ToSet(todo),
                              !.approves = approves, !.ends = (todo = <<>>)]]
    /\ UNCHANGED <<cases, cards, reached, stock, open, aborts>>

\* service_accept_refund_gift_card_offer, or the intake trigger of a new case.
AcceptOffer(s, c) ==
    /\ cases[c].state = "none" /\ ~cases[c].paid /\ ~Locked(c) /\ CasePool[c] \in open
    /\ Start(s, <<c>>, FALSE)

\* admin_decide_refund_gift_card with approval: issues in the same transaction.
ApproveException(s, c) ==
    /\ cases[c].state = "review" /\ ~Locked(c)
    /\ Start(s, <<c>>, TRUE)

Waiting == {c \in Cases : cases[c].state = "pending" /\ ~Locked(c)}
Oldest(n) ==
    {c \in Waiting : Cardinality({d \in Waiting : Age[d] < Age[c]}) < n}

OldestFirst(S) ==
    {todo \in [1..Cardinality(S) -> S] :
        \A i, j \in 1..Cardinality(S) : i < j => Age[todo[i]] < Age[todo[j]]}

\* service_resume_refund_gift_card_cases: limit 25, for update skip locked.
Resume(s) ==
    /\ Waiting # {}
    /\ \E todo \in OldestFirst(Oldest(ResumeLimit)) : Start(s, todo, FALSE)

----------------------------------------------------------------------------
(* service_issue_refund_gift_card, for the next case of a transaction.     *)

Current(s) == Head(sessions[s].todo)
Email(s) == cases[Current(s)].email
IsApproved(s) == sessions[s].approves \/ cases[Current(s)].approved

\* Addresses that have had a card, as the transaction sees them.
ReachedIn(s) == reached \cup {card.email : card \in sessions[s].cards}

\* Fault: the advisory lock of the address is not taken.
AnyEmail(s) == TRUE
EmailIsFree(s) == EmailHolder(Email(s)) \subseteq {s}

Rest(s) == Tail(sessions[s].todo)
Advance(s, session) ==
    /\ sessions' = [sessions EXCEPT ![s] =
            [session EXCEPT !.todo = Rest(s), !.ends = (Rest(s) = <<>>)]]
    /\ UNCHANGED <<cases, cards, reached, stock, open, aborts>>

Working(s) == sessions[s].todo # <<>>

\* Reasons for review are read before any lock is taken ...
ReviewsKnownRepeat(s) ==
    /\ Working(s) /\ ~IsApproved(s) /\ Email(s) \in ReachedIn(s)
    /\ Advance(s, [sessions[s] EXCEPT !.review = @ \cup {Current(s)}])

\* Fault: a case whose pool is closed makes its transaction fail.
ClosedPoolRaises(s) ==
    /\ Working(s) /\ (IsApproved(s) \/ Email(s) \notin ReachedIn(s))
    /\ CasePool[Current(s)] \notin open
    /\ sessions' = [sessions EXCEPT ![s] = NoSession]
    /\ UNCHANGED <<cases, cards, reached, stock, open, aborts>>
WaitsForPool(s) ==
    /\ Working(s) /\ (IsApproved(s) \/ Email(s) \notin ReachedIn(s))
    /\ CasePool[Current(s)] \notin open
    /\ Advance(s, sessions[s])

\* ... and the allowance again under the lock of the address.
IssueNext(s) ==
    /\ Working(s) /\ CasePool[Current(s)] \in open /\ EmailIsFree(s)
    /\ LET locked == [sessions[s] EXCEPT !.emails = @ \cup {Email(s)}]
           free == FreeCodes(CasePool[Current(s)])
       IN IF ~IsApproved(s) /\ Email(s) \in ReachedIn(s)
          THEN Advance(s, [locked EXCEPT !.review = @ \cup {Current(s)}])
          ELSE IF free = {} THEN Advance(s, locked)
          ELSE \E k \in free :
                 Advance(s, [locked EXCEPT !.cards = @ \cup
                     {[case |-> Current(s), code |-> k, email |-> Email(s),
                       auto |-> ~IsApproved(s)]}])

IssuedBy(s) == {card.case : card \in sessions[s].cards}

\* A case that got neither a card nor a review waits for stock.
Commit(s) ==
    /\ sessions[s].ends
    /\ cases' = [c \in Cases |->
            IF c \notin sessions[s].cases THEN cases[c]
            ELSE [cases[c] EXCEPT
                    !.approved = @ \/ sessions[s].approves,
                    !.state = IF c \in IssuedBy(s) THEN "issued"
                              ELSE IF c \in sessions[s].review THEN "review" ELSE "pending"]]
    /\ cards' = cards \cup sessions[s].cards
    /\ reached' = ReachedIn(s)
    /\ sessions' = [sessions EXCEPT ![s] = NoSession]
    /\ UNCHANGED <<stock, open, aborts>>

Abort(s) ==
    /\ ~Idle(s) /\ aborts < MaxAborts /\ aborts' = aborts + 1
    /\ sessions' = [sessions EXCEPT ![s] = NoSession]
    /\ UNCHANGED <<cases, cards, reached, stock, open>>

Blocks(s, t) ==
    /\ s # t /\ Working(s) /\ CasePool[Current(s)] \in open
    /\ t \in EmailHolder(Email(s))

\* Transactions that wait for each other's addresses: the database ends one.
BreakDeadlock(s) ==
    /\ \E t \in Sessions : Blocks(s, t) /\ Blocks(t, s)
    /\ sessions' = [sessions EXCEPT ![s] = NoSession]
    /\ UNCHANGED <<cases, cards, reached, stock, open, aborts>>

----------------------------------------------------------------------------
(* Everybody else.                                                         *)

\* admin_decide_refund_gift_card without approval.
Deny(c) ==
    /\ cases[c].state = "review" /\ ~Locked(c)
    /\ cases' = [cases EXCEPT ![c].state = "denied"]
    /\ UNCHANGED <<cards, reached, stock, open, sessions, aborts>>

\* Fault: money is refunded although the customer accepted a gift card.
PayAnyCase(c) ==
    /\ ~cases[c].paid /\ cases[c].state \in {"none", "pending", "review"} /\ ~Locked(c)
    /\ cases' = [cases EXCEPT ![c].paid = TRUE]
    /\ UNCHANGED <<cards, reached, stock, open, sessions, aborts>>
\* The refund of the original payment is approved; the settlement guard locks the
\* case and refuses it once a gift card was accepted.
PayOriginal(c) ==
    /\ ~cases[c].paid /\ cases[c].state = "none" /\ ~Locked(c)
    /\ cases' = [cases EXCEPT ![c].paid = TRUE]
    /\ UNCHANGED <<cards, reached, stock, open, sessions, aborts>>

\* admin_resend_refund_gift_card, to a corrected address.
Resend(c, e) ==
    /\ cases[c].state = "issued" /\ ~Locked(c) /\ EmailHolder(e) = {}
    /\ cases' = [cases EXCEPT ![c].email = e]
    /\ reached' = reached \cup {e}
    /\ UNCHANGED <<cards, stock, open, sessions, aborts>>

StockArrives(k) ==
    /\ k \notin stock
    /\ stock' = stock \cup {k}
    /\ UNCHANGED <<cases, cards, reached, open, sessions, aborts>>

\* A pool is switched off or expires.
ClosePool(p) ==
    /\ p \in open /\ open' = open \ {p}
    /\ UNCHANGED <<cases, cards, reached, stock, sessions, aborts>>

OpenPool(p) ==
    /\ p \notin open /\ aborts < MaxAborts /\ aborts' = aborts + 1
    /\ open' = open \cup {p}
    /\ UNCHANGED <<cases, cards, reached, stock, sessions>>

Proceeds(s) == ReviewsKnownRepeat(s) \/ WaitsForPool(s) \/ IssueNext(s) \/ Commit(s)
               \/ BreakDeadlock(s)

IssueNextStep ==
    \/ \E s \in Sessions :
         \/ \E c \in Cases : AcceptOffer(s, c) \/ ApproveException(s, c)
         \/ Resume(s) \/ Proceeds(s) \/ Abort(s)
    \/ \E c \in Cases : Deny(c) \/ PayOriginal(c)
    \/ \E c \in Cases, e \in Emails : Resend(c, e)
    \/ \E k \in Codes : StockArrives(k)
    \/ \E p \in Pools : ClosePool(p) \/ OpenPool(p)

IssueSpec == IssueInit /\ [][IssueNextStep]_issueVars

\* The sweep resumes waiting cases again and again, and the database lets
\* transactions proceed: who waits for a lock gets it in turn.
IssueFairness ==
    /\ WF_issueVars(\E s \in Sessions : Resume(s))
    /\ \A s \in Sessions : SF_issueVars(Proceeds(s))

----------------------------------------------------------------------------
(* Properties.                                                             *)

\* Interleaved transactions allocate as if each had been alone: no code twice, no
\* case settled twice, no second automatic card for an address.
KeepsAllocation == Promise!Spec

\* What two open transactions have staged never collides, so that both may commit:
\* no case, no code, and no address with two automatic cards.
StagedIsCompatible ==
    \A s, t \in Sessions : s # t =>
        \A a \in sessions[s].cards, b \in sessions[t].cards :
            a.case # b.case /\ a.code # b.code /\ (a.auto /\ b.auto => a.email # b.email)

\* A case is issued if and only if it has its one card, also after an abort.
IssuedHasItsCard ==
    \A c \in Cases : /\ (cases[c].state = "issued") = (\E card \in cards : card.case = c)
                     /\ Cardinality({card \in cards : card.case = c}) <= 1

\* A waiting case is issued or handed to a manager once its pool has a code,
\* whatever transactions deadlock, abort or overlap.
StockReachesTheWaiting ==
    \A c \in Cases :
        cases[c].state = "pending" /\ CasePool[c] \in open /\ FreeCodes(CasePool[c]) # {} ~>
            cases[c].state # "pending" \/ FreeCodes(CasePool[c]) = {} \/ CasePool[c] \notin open
=============================================================================
