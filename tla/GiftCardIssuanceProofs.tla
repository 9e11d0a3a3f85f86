---------------------- MODULE GiftCardIssuanceProofs -----------------------
(***************************************************************************)
(* Proofs about the issuance of gift cards.  The transactions never        *)
(* interfere: each holds its cases and its addresses alone, the codes it   *)
(* staged are nobody else's, and what it staged is still allowed by what   *)
(* others have committed since.  IssueInv says that of every transaction   *)
(* and every pair of them; the issuance then refines GiftCardAllocation,   *)
(* in which nothing overlaps.                                              *)
(***************************************************************************)
EXTENDS GiftCardIssuance, FiniteSetTheorems, TLAPS

Session == [todo : Seq(Cases), cases : SUBSET Cases, emails : SUBSET Emails,
            cards : SUBSET Promise!Card, review : SUBSET Cases,
            approves : BOOLEAN, ends : BOOLEAN]

Types ==
    /\ cases \in [Cases -> Case]
    /\ cards \in SUBSET Promise!Card
    /\ reached \in SUBSET Emails
    /\ stock \in SUBSET Codes
    /\ sessions \in [Sessions -> Session]

\* A case is issued exactly when it has a card, it has one card, and who took the
\* gift card is not paid.
Books ==
    /\ \A c \in Cases : (cases[c].state = "issued") <=> (\E card \in cards : card.case = c)
    /\ \A a, b \in cards : a.case = b.case => a = b
    /\ \A c \in Cases : cases[c].state # "none" => ~cases[c].paid

\* The cases of a transaction are open, and it handles each once.
HoldsCases(session) ==
    /\ \A c \in session.cases : cases[c].state \notin {"issued", "denied"} /\ ~cases[c].paid
    /\ \A i \in 1..Len(session.todo) : session.todo[i] \in session.cases
    /\ \A i, j \in 1..Len(session.todo) : session.todo[i] = session.todo[j] => i = j

\* What a transaction staged may still be committed.
HoldsCards(session) ==
    \A card \in session.cards :
        /\ card.case \in session.cases
        /\ card.email \in session.emails
        /\ \A old \in cards : old.code # card.code
        /\ card.auto => card.email \notin reached
        /\ \A i \in 1..Len(session.todo) : session.todo[i] # card.case

\* Nor do its cards collide with each other.
CardsDiffer(session) ==
    \A a, b \in session.cards : a # b =>
        /\ a.case # b.case /\ a.code # b.code
        /\ a.auto /\ b.auto => a.email # b.email

SessionOK(session) == HoldsCases(session) /\ HoldsCards(session) /\ CardsDiffer(session)

\* Two transactions share no case, no address and no code.
Apart(session, other) ==
    /\ session.cases \cap other.cases = {}
    /\ session.emails \cap other.emails = {}
    /\ \A a \in session.cards, b \in other.cards : a.code # b.code

IssueInv ==
    /\ Types
    /\ Books
    /\ \A s \in Sessions : SessionOK(sessions[s])
    /\ \A s, t \in Sessions : s # t => Apart(sessions[s], sessions[t])

----------------------------------------------------------------------------
(* One field of a transaction changes, and the others stay.                *)

\* Changing "todo" leaves a transaction, and leaves the rest of it.
LEMMA SetTodo ==
    ASSUME NEW x \in Session, NEW v \in Seq(Cases)
    PROVE  LET y == [x EXCEPT !.todo = v]
           IN /\ y \in Session /\ y.todo = v
              /\ y.cases = x.cases /\ y.emails = x.emails /\ y.cards = x.cards
              /\ y.review = x.review /\ y.approves = x.approves
BY DEF Session

\* Changing "cases" leaves a transaction, and leaves the rest of it.
LEMMA SetCases ==
    ASSUME NEW x \in Session, NEW v \in SUBSET Cases
    PROVE  LET y == [x EXCEPT !.cases = v]
           IN /\ y \in Session /\ y.cases = v
              /\ y.todo = x.todo /\ y.emails = x.emails /\ y.cards = x.cards
              /\ y.review = x.review /\ y.approves = x.approves
BY DEF Session

\* Changing "emails" leaves a transaction, and leaves the rest of it.
LEMMA SetEmails ==
    ASSUME NEW x \in Session, NEW v \in SUBSET Emails
    PROVE  LET y == [x EXCEPT !.emails = v]
           IN /\ y \in Session /\ y.emails = v
              /\ y.todo = x.todo /\ y.cases = x.cases /\ y.cards = x.cards
              /\ y.review = x.review /\ y.approves = x.approves
BY DEF Session

\* Changing "cards" leaves a transaction, and leaves the rest of it.
LEMMA SetCards ==
    ASSUME NEW x \in Session, NEW v \in SUBSET Promise!Card
    PROVE  LET y == [x EXCEPT !.cards = v]
           IN /\ y \in Session /\ y.cards = v
              /\ y.todo = x.todo /\ y.cases = x.cases /\ y.emails = x.emails
              /\ y.review = x.review /\ y.approves = x.approves
BY DEF Session

\* Changing "review" leaves a transaction, and leaves the rest of it.
LEMMA SetReview ==
    ASSUME NEW x \in Session, NEW v \in SUBSET Cases
    PROVE  LET y == [x EXCEPT !.review = v]
           IN /\ y \in Session /\ y.review = v
              /\ y.todo = x.todo /\ y.cases = x.cases /\ y.emails = x.emails
              /\ y.cards = x.cards /\ y.approves = x.approves
BY DEF Session

\* Changing "approves" leaves a transaction, and leaves the rest of it.
LEMMA SetApproves ==
    ASSUME NEW x \in Session, NEW v \in BOOLEAN
    PROVE  LET y == [x EXCEPT !.approves = v]
           IN /\ y \in Session /\ y.approves = v
              /\ y.todo = x.todo /\ y.cases = x.cases /\ y.emails = x.emails
              /\ y.cards = x.cards /\ y.review = x.review
BY DEF Session

\* Changing "ends" leaves a transaction, and leaves the rest of it.
LEMMA SetEnds ==
    ASSUME NEW x \in Session, NEW v \in BOOLEAN
    PROVE  LET y == [x EXCEPT !.ends = v]
           IN /\ y \in Session /\ y.ends = v
              /\ y.todo = x.todo /\ y.cases = x.cases /\ y.emails = x.emails
              /\ y.cards = x.cards /\ y.review = x.review /\ y.approves = x.approves
BY DEF Session

----------------------------------------------------------------------------
(* Replacing one transaction.                                              *)

\* Not interfering is mutual.
LEMMA ApartIsMutual ==
    ASSUME NEW x, NEW y, Apart(x, y)
    PROVE  Apart(y, x)
BY DEF Apart

\* A database in which one transaction is replaced by one that is in order itself
\* and apart from the others is in order.
LEMMA Replace ==
    ASSUME IssueInv, NEW s \in Sessions, NEW x \in Session, SessionOK(x),
           \A t \in Sessions : t # s => Apart(x, sessions[t]),
           sessions' = [sessions EXCEPT ![s] = x],
           UNCHANGED <<cases, cards, reached, stock>>
    PROVE  IssueInv'
<1>1. Types' BY DEF IssueInv, Types
<1>2. Books' BY DEF IssueInv, Books
<1>3. ASSUME NEW t \in Sessions PROVE SessionOK(sessions[t])'
    <2>1. SessionOK(sessions'[t])
        BY DEF IssueInv, Types
    <2>2. QED BY <2>1 DEF SessionOK, HoldsCases, HoldsCards, CardsDiffer
<1>4. ASSUME NEW t \in Sessions, NEW u \in Sessions, t # u
      PROVE  Apart(sessions[t], sessions[u])'
    <2>1. Apart(sessions'[t], sessions'[u])
        <3>1. CASE t = s
            BY <1>4, <3>1 DEF IssueInv, Types
        <3>2. CASE u = s
            <4>1. Apart(x, sessions[t]) BY <1>4, <3>2
            <4>2. Apart(sessions[t], x) BY <4>1, ApartIsMutual
            <4>3. QED BY <1>4, <3>2, <4>2 DEF IssueInv, Types
        <3>3. CASE t # s /\ u # s
            BY <1>4, <3>3 DEF IssueInv, Types
        <3>4. QED BY <3>1, <3>2, <3>3
    <2>2. QED BY <2>1 DEF Apart
<1>5. QED BY <1>1, <1>2, <1>3, <1>4 DEF IssueInv

\* A transaction that has nothing is in order.
LEMMA NothingHeld ==
    /\ NoSession \in Session /\ SessionOK(NoSession)
    /\ \A x \in Session : Apart(NoSession, x)
<1>1. NoSession \in Session
    BY DEF NoSession, Session
<1>2. Len(NoSession.todo) = 0
    BY DEF NoSession
<1>3. HoldsCases(NoSession) /\ HoldsCards(NoSession) /\ CardsDiffer(NoSession)
    BY <1>2 DEF NoSession, HoldsCases, HoldsCards, CardsDiffer
<1>4. QED BY <1>1, <1>3 DEF SessionOK, Apart, NoSession

\* The transaction fails, or the database ends it.
LEMMA Ends ==
    ASSUME IssueInv, NEW s \in Sessions,
           sessions' = [sessions EXCEPT ![s] = NoSession],
           UNCHANGED <<cases, cards, reached, stock>>
    PROVE  IssueInv'
<1>1. \A t \in Sessions : sessions[t] \in Session
    BY DEF IssueInv, Types
<1>2. QED BY <1>1, NothingHeld, Replace

\* The fields of a transaction that starts.
LEMMA Started ==
    ASSUME NEW todo \in Seq(Cases), NEW approves \in BOOLEAN
    PROVE  LET x == [NoSession EXCEPT !.todo = todo, !.cases = ToSet(todo),
                                      !.approves = approves, !.ends = (todo = <<>>)]
           IN /\ x \in Session
              /\ x.todo = todo /\ x.cases = ToSet(todo)
              /\ x.emails = {} /\ x.cards = {} /\ x.review = {}
              /\ x.approves = approves
<1> DEFINE a == [NoSession EXCEPT !.todo = todo]
           b == [a EXCEPT !.cases = ToSet(todo)]
           d == [b EXCEPT !.approves = approves]
           e == [d EXCEPT !.ends = (todo = <<>>)]
<1>1. /\ NoSession \in Session
      /\ NoSession.emails = {} /\ NoSession.cards = {} /\ NoSession.review = {}
    BY NothingHeld DEF NoSession
<1>2. ToSet(todo) \in SUBSET Cases
    BY DEF ToSet
<1>3. /\ a \in Session /\ a.todo = todo
      /\ a.emails = {} /\ a.cards = {} /\ a.review = {}
    BY <1>1, SetTodo
<1> HIDE DEF a
<1>4. /\ b \in Session /\ b.todo = todo /\ b.cases = ToSet(todo)
      /\ b.emails = {} /\ b.cards = {} /\ b.review = {}
    BY <1>2, <1>3, SetCases
<1> HIDE DEF b
<1>5. /\ d \in Session /\ d.todo = todo /\ d.cases = ToSet(todo) /\ d.approves = approves
      /\ d.emails = {} /\ d.cards = {} /\ d.review = {}
    BY <1>4, SetApproves
<1> HIDE DEF d
<1>6. /\ e \in Session /\ e.todo = todo /\ e.cases = ToSet(todo) /\ e.approves = approves
      /\ e.emails = {} /\ e.cards = {} /\ e.review = {}
    BY <1>5, SetEnds
<1>7. QED BY <1>6 DEF a, b, d, e

\* A transaction starts on open cases that nobody has locked, each once.
LEMMA StartKeeps ==
    ASSUME IssueInv, NEW s \in Sessions, NEW todo \in Seq(Cases), NEW approves \in BOOLEAN,
           \A i \in 1..Len(todo) :
               /\ cases[todo[i]].state \notin {"issued", "denied"} /\ ~cases[todo[i]].paid
               /\ ~Locked(todo[i]),
           \A i, j \in 1..Len(todo) : todo[i] = todo[j] => i = j,
           Start(s, todo, approves)
    PROVE  IssueInv'
<1> DEFINE x == [NoSession EXCEPT !.todo = todo, !.cases = ToSet(todo),
                                  !.approves = approves, !.ends = (todo = <<>>)]
<1>1. x \in Session /\ x.todo = todo /\ x.cases = ToSet(todo) /\ x.emails = {} /\ x.cards = {}
    BY Started
<1>2. sessions' = [sessions EXCEPT ![s] = x] /\ UNCHANGED <<cases, cards, reached, stock>>
    BY DEF Start
<1> HIDE DEF x
<1>3. \A c \in ToSet(todo) : \E i \in 1..Len(todo) : c = todo[i]
    BY DEF ToSet
<1>4. \A i \in 1..Len(todo) : todo[i] \in ToSet(todo)
    BY DEF ToSet
<1>5. HoldsCases(x)
    BY <1>1, <1>3, <1>4 DEF HoldsCases
<1>6. HoldsCards(x) /\ CardsDiffer(x)
    BY <1>1 DEF HoldsCards, CardsDiffer
<1>7. ASSUME NEW t \in Sessions, t # s PROVE Apart(x, sessions[t])
    BY <1>1, <1>3 DEF Apart, Locked
<1>8. SessionOK(x) BY <1>5, <1>6 DEF SessionOK
<1>9. QED BY <1>1, <1>2, <1>7, <1>8, Replace

----------------------------------------------------------------------------
(* How transactions start.                                                 *)

\* An offer is accepted, or an exception approved: one open case.
LEMMA OneCaseKeeps ==
    ASSUME IssueInv, NEW s \in Sessions, NEW c \in Cases,
           AcceptOffer(s, c) \/ ApproveException(s, c)
    PROVE  IssueInv'
<1>1. <<c>> \in Seq(Cases) /\ Len(<<c>>) = 1 /\ \A i \in 1..Len(<<c>>) : <<c>>[i] = c /\ i = 1
    OBVIOUS
<1>2. cases[c].state \in {"none", "review"} /\ ~cases[c].paid /\ ~Locked(c)
    BY DEF AcceptOffer, ApproveException, IssueInv, Books
<1>3. \A i \in 1..Len(<<c>>) :
        /\ cases[<<c>>[i]].state \notin {"issued", "denied"} /\ ~cases[<<c>>[i]].paid
        /\ ~Locked(<<c>>[i])
    BY <1>1, <1>2
<1>4. \A i, j \in 1..Len(<<c>>) : <<c>>[i] = <<c>>[j] => i = j
    BY <1>1
<1>5. \E approves \in BOOLEAN : Start(s, <<c>>, approves)
    BY DEF AcceptOffer, ApproveException
<1>6. QED BY <1>1, <1>3, <1>4, <1>5, StartKeeps

\* An order by age lists each of its cases once.
LEMMA AgesDiffer ==
    ASSUME NEW S \in SUBSET Cases, NEW todo \in OldestFirst(S)
    PROVE  /\ todo \in Seq(Cases)
           /\ \A i \in 1..Len(todo) : todo[i] \in S
           /\ \A i, j \in 1..Len(todo) : todo[i] = todo[j] => i = j
<1>1. Age \in [Cases -> Nat] /\ IsFiniteSet(S)
    BY IssuanceAssumption, FS_Subset DEF IssuanceAssumption
<1>2. Cardinality(S) \in Nat
    BY <1>1, FS_CardinalityType
<1>3. /\ todo \in [1..Cardinality(S) -> S]
      /\ \A i, j \in 1..Cardinality(S) : i < j => Age[todo[i]] < Age[todo[j]]
    BY DEF OldestFirst
<1>4. todo \in Seq(Cases) /\ Len(todo) = Cardinality(S)
    BY <1>2, <1>3
<1>5. ASSUME NEW i \in 1..Len(todo), NEW j \in 1..Len(todo), todo[i] = todo[j]
      PROVE  i = j
    <2>1. todo[i] \in Cases /\ Age[todo[i]] \in Nat
        BY <1>1, <1>3, <1>4
    <2>2. ~(i < j) /\ ~(j < i)
        BY <1>3, <1>4, <1>5, <2>1
    <2>3. QED BY <1>2, <1>4, <2>2
<1>6. QED BY <1>3, <1>4, <1>5

\* A resume takes waiting cases, each once.
LEMMA ResumeKeeps ==
    ASSUME IssueInv, NEW s \in Sessions, Resume(s)
    PROVE  IssueInv'
<1> DEFINE S == Oldest(ResumeLimit)
<1>1. S \in SUBSET Cases /\ \A c \in S : cases[c].state = "pending" /\ ~Locked(c)
    BY DEF Oldest, Waiting
<1>2. \A c \in S : ~cases[c].paid
    BY <1>1 DEF IssueInv, Books
<1>3. PICK todo \in OldestFirst(S) : Start(s, todo, FALSE)
    BY DEF Resume
<1> HIDE DEF S
<1>4. /\ todo \in Seq(Cases)
      /\ \A i \in 1..Len(todo) : todo[i] \in S
      /\ \A i, j \in 1..Len(todo) : todo[i] = todo[j] => i = j
    BY <1>1, AgesDiffer
<1>5. \A i \in 1..Len(todo) :
        /\ cases[todo[i]].state \notin {"issued", "denied"} /\ ~cases[todo[i]].paid
        /\ ~Locked(todo[i])
    BY <1>1, <1>2, <1>4
<1>6. QED BY <1>3, <1>4, <1>5, StartKeeps

----------------------------------------------------------------------------
(* How a transaction goes through its cases.                               *)

\* The case a transaction works on is one of its open cases.
LEMMA CurrentIsHeld ==
    ASSUME IssueInv, NEW s \in Sessions, Working(s)
    PROVE  /\ sessions[s] \in Session /\ SessionOK(sessions[s])
           /\ Rest(s) \in Seq(Cases) /\ Len(Rest(s)) = Len(sessions[s].todo) - 1
           /\ 1 \in 1..Len(sessions[s].todo) /\ Current(s) = sessions[s].todo[1]
           /\ \A i \in 1..Len(Rest(s)) : i + 1 \in 1..Len(sessions[s].todo)
                                         /\ Rest(s)[i] = sessions[s].todo[i + 1]
           /\ Current(s) \in sessions[s].cases /\ Current(s) \in Cases
           /\ Email(s) \in Emails /\ IsApproved(s) \in BOOLEAN
<1>1. sessions[s] \in Session /\ SessionOK(sessions[s])
    BY DEF IssueInv, Types
<1>2. sessions[s].todo \in Seq(Cases) /\ sessions[s].todo # <<>>
      /\ sessions[s].cases \in SUBSET Cases /\ sessions[s].approves \in BOOLEAN
    BY <1>1 DEF Session, Working
<1>3. /\ Rest(s) \in Seq(Cases) /\ Len(Rest(s)) = Len(sessions[s].todo) - 1
      /\ 1 \in 1..Len(sessions[s].todo) /\ Current(s) = sessions[s].todo[1]
      /\ \A i \in 1..Len(Rest(s)) : i + 1 \in 1..Len(sessions[s].todo)
                                    /\ Rest(s)[i] = sessions[s].todo[i + 1]
    BY <1>2 DEF Rest, Current
<1>4. Current(s) \in sessions[s].cases
    BY <1>1, <1>3 DEF SessionOK, HoldsCases
<1>5. Current(s) \in Cases /\ cases[Current(s)] \in Case
    BY <1>2, <1>4 DEF IssueInv, Types
<1>6. Email(s) \in Emails /\ cases[Current(s)].approved \in BOOLEAN
    BY <1>5 DEF Email, Case
<1>7. IsApproved(s) \in BOOLEAN
    BY <1>2, <1>6 DEF IsApproved
<1>8. QED BY <1>1, <1>3, <1>4, <1>5, <1>6, <1>7

\* A changed transaction has the same cases, nothing that its next cases or others
\* would collide with, and nothing that is forbidden meanwhile.
StillFits(s, x) ==
    /\ x.cases = sessions[s].cases
    /\ CardsDiffer(x)
    /\ \A card \in x.cards :
         /\ card.case \in x.cases /\ card.email \in x.emails
         /\ \A old \in cards : old.code # card.code
         /\ card.auto => card.email \notin reached
         /\ \A i \in 1..Len(Rest(s)) : Rest(s)[i] # card.case
    /\ \A t \in Sessions : t # s => Apart(x, sessions[t])

\* A transaction that staged nothing still fits.
LEMMA SameFits ==
    ASSUME IssueInv, NEW s \in Sessions, Working(s), NEW x \in Session,
           x.cases = sessions[s].cases, x.emails = sessions[s].emails,
           x.cards = sessions[s].cards
    PROVE  StillFits(s, x)
<1>1. SessionOK(sessions[s]) BY CurrentIsHeld
<1>2. CardsDiffer(x)
    BY <1>1 DEF SessionOK, CardsDiffer
<1>3. \A card \in x.cards :
        /\ card.case \in x.cases /\ card.email \in x.emails
        /\ \A old \in cards : old.code # card.code
        /\ card.auto => card.email \notin reached
    BY <1>1 DEF SessionOK, HoldsCards
<1>4. ASSUME NEW card \in x.cards, NEW i \in 1..Len(Rest(s)) PROVE Rest(s)[i] # card.case
    BY <1>1, CurrentIsHeld DEF SessionOK, HoldsCards
<1>5. ASSUME NEW t \in Sessions, t # s PROVE Apart(x, sessions[t])
    <2>1. Apart(sessions[s], sessions[t]) BY <1>5 DEF IssueInv
    <2>2. QED BY <2>1 DEF Apart
<1>6. QED BY <1>2, <1>3, <1>4, <1>5 DEF StillFits

\* The next case is due, and the transaction has x apart from that: whatever the
\* steps below have changed in it, it goes on in order.
LEMMA AdvanceKeeps ==
    ASSUME IssueInv, NEW s \in Sessions, Working(s), NEW x \in Session,
           StillFits(s, x),
           Advance(s, x)
    PROVE  IssueInv'
<1> DEFINE todo == Rest(s)
           a == [x EXCEPT !.todo = todo]
           b == [a EXCEPT !.ends = (todo = <<>>)]
<1>1. todo \in Seq(Cases)
    BY CurrentIsHeld
<1>2. a \in Session /\ a.todo = todo /\ a.cases = x.cases /\ a.emails = x.emails
      /\ a.cards = x.cards
    BY <1>1, SetTodo
<1>3. sessions' = [sessions EXCEPT ![s] = b] /\ UNCHANGED <<cases, cards, reached, stock>>
    BY DEF Advance
<1> HIDE DEF a, todo
<1>4. b \in Session /\ b.todo = todo /\ b.cases = x.cases /\ b.emails = x.emails
      /\ b.cards = x.cards
    BY <1>2, SetEnds
<1> HIDE DEF b
<1>5. SessionOK(sessions[s])
    BY DEF IssueInv
<1>6. HoldsCases(b)
    <2> USE DEF StillFits
    <2>1. \A c \in b.cases : cases[c].state \notin {"issued", "denied"} /\ ~cases[c].paid
        BY <1>4, <1>5 DEF SessionOK, HoldsCases
    <2>2. \A i \in 1..Len(b.todo) : b.todo[i] \in b.cases
        BY <1>4, <1>5, CurrentIsHeld DEF SessionOK, HoldsCases, todo
    <2>3. ASSUME NEW i \in 1..Len(b.todo), NEW j \in 1..Len(b.todo), b.todo[i] = b.todo[j]
          PROVE  i = j
        <3>1. i + 1 = j + 1
            BY <1>4, <1>5, <2>3, CurrentIsHeld DEF SessionOK, HoldsCases, todo
        <3>2. QED BY <3>1
    <2>4. QED BY <2>1, <2>2, <2>3 DEF HoldsCases
<1>7. HoldsCards(b)
    BY <1>4 DEF HoldsCards, todo, StillFits
<1>8. CardsDiffer(b)
    BY <1>4 DEF CardsDiffer, StillFits
<1>9. ASSUME NEW t \in Sessions, t # s PROVE Apart(b, sessions[t])
    BY <1>4, <1>9 DEF Apart, StillFits
<1>10. SessionOK(b) BY <1>6, <1>7, <1>8 DEF SessionOK
<1>11. QED BY <1>3, <1>4, <1>9, <1>10, Replace

\* A known repeat is put up for review.
LEMMA ReviewsKnownRepeatKeeps ==
    ASSUME IssueInv, NEW s \in Sessions, ReviewsKnownRepeat(s)
    PROVE  IssueInv'
<1> DEFINE x == [sessions[s] EXCEPT !.review = @ \cup {Current(s)}]
<1>1. Working(s) /\ Advance(s, x)
    BY DEF ReviewsKnownRepeat
<1>2. sessions[s] \in Session /\ SessionOK(sessions[s]) /\ Current(s) \in Cases
    BY <1>1, CurrentIsHeld
<1>3. sessions[s].review \cup {Current(s)} \in SUBSET Cases
    BY <1>2 DEF Session
<1>4. x \in Session /\ x.todo = sessions[s].todo /\ x.cases = sessions[s].cases
      /\ x.emails = sessions[s].emails /\ x.cards = sessions[s].cards
    BY <1>2, <1>3, SetReview
<1> HIDE DEF x
<1>5. StillFits(s, x)
    BY <1>1, <1>2, <1>4, SameFits
<1>6. QED BY <1>1, <1>4, <1>5, AdvanceKeeps

\* A case whose pool is closed waits.
LEMMA WaitsForPoolKeeps ==
    ASSUME IssueInv, NEW s \in Sessions, WaitsForPool(s)
    PROVE  IssueInv'
<1>1. Working(s) /\ Advance(s, sessions[s])
    BY DEF WaitsForPool
<1>2. sessions[s] \in Session /\ SessionOK(sessions[s])
    BY <1>1, CurrentIsHeld
<1>3. StillFits(s, sessions[s])
    BY <1>1, <1>2, SameFits
<1>4. QED BY <1>1, <1>2, <1>3, AdvanceKeeps

\* What a transaction has when it locked the address of its case.
LEMMA LockedFits ==
    ASSUME IssueInv, NEW s \in Sessions, Working(s), EmailIsFree(s), NEW x \in Session,
           x.cases = sessions[s].cases, x.cards = sessions[s].cards,
           x.emails = sessions[s].emails \cup {Email(s)}
    PROVE  StillFits(s, x)
<1>1. StillFits(s, sessions[s])
    BY CurrentIsHeld, SameFits
<1>2. ASSUME NEW t \in Sessions, t # s PROVE Apart(x, sessions[t])
    <2>1. Apart(sessions[s], sessions[t]) BY <1>1, <1>2 DEF StillFits
    <2>2. Email(s) \notin sessions[t].emails
        BY <1>2 DEF EmailIsFree, EmailHolder
    <2>3. QED BY <2>1, <2>2 DEF Apart
<1>3. QED BY <1>1, <1>2 DEF StillFits, CardsDiffer

\* A free code is nobody's: neither given nor staged.
LEMMA FreeIsNobodys ==
    ASSUME NEW p, NEW k \in FreeCodes(p)
    PROVE  /\ k \in stock
           /\ \A old \in cards : old.code # k
           /\ \A t \in Sessions : \A b \in sessions[t].cards : b.code # k
BY DEF FreeCodes, Given, Staged

\* What a transaction has when it staged a card for its case.
LEMMA StagedFits ==
    ASSUME IssueInv, NEW s \in Sessions, Working(s), EmailIsFree(s), NEW x \in Session,
           IsApproved(s) \/ Email(s) \notin ReachedIn(s),
           NEW k \in FreeCodes(CasePool[Current(s)]), NEW new,
           new = [case |-> Current(s), code |-> k, email |-> Email(s), auto |-> ~IsApproved(s)],
           x.cases = sessions[s].cases, x.cards = sessions[s].cards \cup {new},
           x.emails = sessions[s].emails \cup {Email(s)}
    PROVE  StillFits(s, x)
<1>1. /\ new.case = Current(s) /\ new.code = k /\ new.email = Email(s)
      /\ new.auto = ~IsApproved(s)
    OBVIOUS
<1>2. StillFits(s, sessions[s])
    BY CurrentIsHeld, SameFits
<1>3. /\ Current(s) \in sessions[s].cases
      /\ \A i \in 1..Len(Rest(s)) : Rest(s)[i] # Current(s)
      /\ \A card \in sessions[s].cards : card.case # Current(s)
    <2>1. SessionOK(sessions[s]) BY CurrentIsHeld
    <2>2. Current(s) \in sessions[s].cases BY CurrentIsHeld
    <2>3. \A card \in sessions[s].cards : card.case # Current(s)
        BY <2>1, CurrentIsHeld DEF SessionOK, HoldsCards
    <2>4. ASSUME NEW i \in 1..Len(Rest(s)) PROVE Rest(s)[i] # Current(s)
        <3>1. i \in Nat /\ i # 0 BY CurrentIsHeld
        <3>2. i + 1 # 1 BY <3>1
        <3>3. QED BY <2>1, <3>2, CurrentIsHeld DEF SessionOK, HoldsCases
    <2>5. QED BY <2>2, <2>3, <2>4
<1>4. new.auto => Email(s) \notin reached /\ \A card \in sessions[s].cards : card.email # Email(s)
    BY <1>1 DEF ReachedIn
<1>5. CardsDiffer(x)
    <2>1. \A card \in sessions[s].cards :
            card.case # new.case /\ card.code # new.code
            /\ (new.auto => card.email # new.email)
        BY <1>1, <1>3, <1>4, FreeIsNobodys
    <2>2. QED BY <1>2, <2>1 DEF CardsDiffer, StillFits
<1>6. \A card \in x.cards :
        /\ card.case \in x.cases /\ card.email \in x.emails
        /\ \A old \in cards : old.code # card.code
        /\ card.auto => card.email \notin reached
        /\ \A i \in 1..Len(Rest(s)) : Rest(s)[i] # card.case
    BY <1>1, <1>2, <1>3, <1>4, FreeIsNobodys DEF StillFits
<1>7. ASSUME NEW t \in Sessions, t # s PROVE Apart(x, sessions[t])
    <2>1. Apart(sessions[s], sessions[t]) BY <1>2, <1>7 DEF StillFits
    <2>2. Email(s) \notin sessions[t].emails
        BY <1>7 DEF EmailIsFree, EmailHolder
    <2>3. \A b \in sessions[t].cards : new.code # b.code
        BY <1>1, FreeIsNobodys
    <2>4. QED BY <2>1, <2>2, <2>3 DEF Apart
<1>8. QED BY <1>5, <1>6, <1>7 DEF StillFits

\* The next case of a transaction is reviewed, waits for stock, or gets a card.
LEMMA IssueNextKeeps ==
    ASSUME IssueInv, NEW s \in Sessions, IssueNext(s)
    PROVE  IssueInv'
<1> DEFINE locked == [sessions[s] EXCEPT !.emails = @ \cup {Email(s)}]
           free == FreeCodes(CasePool[Current(s)])
           reviewed == [locked EXCEPT !.review = @ \cup {Current(s)}]
<1>1. Working(s) /\ EmailIsFree(s)
    BY DEF IssueNext
<1>2. /\ sessions[s] \in Session /\ SessionOK(sessions[s])
      /\ Current(s) \in Cases /\ Email(s) \in Emails /\ IsApproved(s) \in BOOLEAN
    BY <1>1, CurrentIsHeld
<1>3. sessions[s].emails \cup {Email(s)} \in SUBSET Emails
    BY <1>2 DEF Session
<1>4. locked \in Session /\ locked.cases = sessions[s].cases
      /\ locked.cards = sessions[s].cards /\ locked.review = sessions[s].review
      /\ locked.emails = sessions[s].emails \cup {Email(s)}
    BY <1>2, <1>3, SetEmails
<1>5. \/ Advance(s, reviewed)
      \/ Advance(s, locked)
      \/ /\ IsApproved(s) \/ Email(s) \notin ReachedIn(s)
         /\ \E k \in free : Advance(s, [locked EXCEPT !.cards = @ \cup
               {[case |-> Current(s), code |-> k, email |-> Email(s),
                 auto |-> ~IsApproved(s)]}])
    BY DEF IssueNext
<1> HIDE DEF locked
<1>6. locked.review \cup {Current(s)} \in SUBSET Cases
    BY <1>2, <1>4 DEF Session
<1>7. reviewed \in Session /\ reviewed.cases = sessions[s].cases
      /\ reviewed.cards = sessions[s].cards
      /\ reviewed.emails = sessions[s].emails \cup {Email(s)}
    BY <1>4, <1>6, SetReview
<1> HIDE DEF reviewed
<1>8. StillFits(s, locked) /\ StillFits(s, reviewed)
    BY <1>1, <1>4, <1>7, LockedFits
<1>9. CASE IsApproved(s) \/ Email(s) \notin ReachedIn(s)
    <2>1. ASSUME NEW k \in free,
                 Advance(s, [locked EXCEPT !.cards = @ \cup
                    {[case |-> Current(s), code |-> k, email |-> Email(s),
                      auto |-> ~IsApproved(s)]}])
          PROVE  IssueInv'
        <3> DEFINE new == [case |-> Current(s), code |-> k, email |-> Email(s),
                           auto |-> ~IsApproved(s)]
                   x == [locked EXCEPT !.cards = @ \cup {new}]
        <3>1. Advance(s, x) BY <2>1
        <3>2. k \in Codes
            BY FreeIsNobodys DEF IssueInv, Types
        <3>3. (~IsApproved(s)) \in BOOLEAN
            OBVIOUS
        <3>4. new \in Promise!Card
            BY <1>2, <3>2, <3>3 DEF Promise!Card
        <3> HIDE DEF new
        <3>5. locked.cards \cup {new} \in SUBSET Promise!Card
            BY <1>4, <3>4 DEF Session
        <3>6. x \in Session /\ x.cases = sessions[s].cases
              /\ x.cards = sessions[s].cards \cup {new}
              /\ x.emails = sessions[s].emails \cup {Email(s)}
            BY <1>4, <3>5, SetCards
        <3> HIDE DEF x
        <3>7. new = [case |-> Current(s), code |-> k, email |-> Email(s),
                     auto |-> ~IsApproved(s)]
            BY DEF new
        <3> HIDE DEF free
        <3>8. k \in FreeCodes(CasePool[Current(s)])
            BY DEF free
        <3>9. StillFits(s, x)
            BY <1>1, <1>9, <3>6, <3>7, <3>8, StagedFits
        <3>10. QED BY <1>1, <3>1, <3>6, <3>9, AdvanceKeeps
    <2>2. QED BY <1>1, <1>4, <1>5, <1>7, <1>8, <2>1, AdvanceKeeps
<1>10. CASE ~(IsApproved(s) \/ Email(s) \notin ReachedIn(s))
    BY <1>1, <1>4, <1>5, <1>7, <1>8, <1>10, AdvanceKeeps
<1>11. QED BY <1>9, <1>10

----------------------------------------------------------------------------
(* How a transaction ends.                                                 *)

\* What a commit makes of the cases: its own are issued, reviewed or waiting, and
\* no others change.
LEMMA CommitCases ==
    ASSUME IssueInv, NEW s \in Sessions, Commit(s)
    PROVE  /\ cases' \in [Cases -> Case]
           /\ \A c \in Cases : cases'[c].paid = cases[c].paid
           /\ \A c \in Cases : c \notin sessions[s].cases => cases'[c] = cases[c]
           /\ \A c \in sessions[s].cases :
                IF c \in IssuedBy(s) THEN cases'[c].state = "issued"
                ELSE cases'[c].state \in {"review", "pending"}
<1>1. cases \in [Cases -> Case] /\ sessions[s] \in Session
    BY DEF IssueInv, Types
<1>2. sessions[s].cases \in SUBSET Cases /\ sessions[s].approves \in BOOLEAN
    BY <1>1 DEF Session
<1> DEFINE state(c) == IF c \in IssuedBy(s) THEN "issued"
                       ELSE IF c \in sessions[s].review THEN "review" ELSE "pending"
           approved(c) == cases[c].approved \/ sessions[s].approves
           row(c) == [cases[c] EXCEPT !.approved = approved(c), !.state = state(c)]
<1>3. cases' = [c \in Cases |-> IF c \notin sessions[s].cases THEN cases[c] ELSE row(c)]
    BY DEF Commit
<1>4. ASSUME NEW c \in Cases
      PROVE  row(c) \in Case /\ row(c).state = state(c) /\ row(c).paid = cases[c].paid
    <2>1. cases[c] \in Case BY <1>1
    <2>2. approved(c) \in BOOLEAN
        OBVIOUS
    <2>3. state(c) \in {"none", "pending", "review", "issued", "denied"}
        OBVIOUS
    <2> DEFINE a == [cases[c] EXCEPT !.approved = approved(c)]
               b == [a EXCEPT !.state = state(c)]
    <2> HIDE DEF approved, state
    <2>4. a \in Case /\ a.paid = cases[c].paid
        BY <2>1, <2>2 DEF Case
    <2> HIDE DEF a
    <2>5. b \in Case /\ b.state = state(c) /\ b.paid = cases[c].paid
        BY <2>3, <2>4 DEF Case
    <2>6. row(c) = b
        BY DEF a
    <2> HIDE DEF b, row
    <2>7. QED BY <2>5, <2>6
<1> HIDE DEF row
<1>5. \A c \in Cases : cases'[c] = IF c \notin sessions[s].cases THEN cases[c] ELSE row(c)
    BY <1>3
<1>6. cases' \in [Cases -> Case]
    BY <1>1, <1>3, <1>4
<1>7. \A c \in Cases : cases'[c].paid = cases[c].paid
    BY <1>4, <1>5
<1>8. \A c \in Cases : c \notin sessions[s].cases => cases'[c] = cases[c]
    BY <1>5
<1>9. ASSUME NEW c \in sessions[s].cases
      PROVE  IF c \in IssuedBy(s) THEN cases'[c].state = "issued"
             ELSE cases'[c].state \in {"review", "pending"}
    <2>1. cases'[c].state = state(c)
        BY <1>2, <1>4, <1>5
    <2>2. QED BY <2>1
<1>10. QED BY <1>6, <1>7, <1>8, <1>9

\* A commit issues what was staged and opens the cases' locks.
LEMMA CommitKeeps ==
    ASSUME IssueInv, NEW s \in Sessions, Commit(s)
    PROVE  IssueInv'
<1>1. /\ sessions[s] \in Session /\ SessionOK(sessions[s])
      /\ \A t \in Sessions : sessions[t] \in Session
      /\ sessions \in [Sessions -> Session]
    BY DEF IssueInv, Types
<1>2. /\ cards' = cards \cup sessions[s].cards
      /\ reached' = reached \cup {card.email : card \in sessions[s].cards}
      /\ sessions' = [sessions EXCEPT ![s] = NoSession]
      /\ stock' = stock
    BY DEF Commit, ReachedIn
<1>3. /\ sessions'[s] = NoSession
      /\ \A t \in Sessions : t # s => sessions'[t] = sessions[t]
    BY <1>1, <1>2
<1>4. Types'
    <2>1. sessions[s].cards \in SUBSET Promise!Card
        BY <1>1 DEF Session
    <2>2. \A card \in Promise!Card : card.email \in Emails
        BY DEF Promise!Card
    <2>3. cards' \in SUBSET Promise!Card /\ reached' \in SUBSET Emails
        BY <1>2, <2>1, <2>2 DEF IssueInv, Types
    <2>4. sessions' \in [Sessions -> Session]
        BY <1>1, <1>2, NothingHeld
    <2>5. cases' \in [Cases -> Case] BY CommitCases
    <2>6. stock' \in SUBSET Codes BY <1>2 DEF IssueInv, Types
    <2>7. QED BY <2>3, <2>4, <2>5, <2>6 DEF Types
<1>5. \A card \in sessions[s].cards : card.case \in sessions[s].cases /\ card.case \in Cases
    BY <1>1 DEF SessionOK, HoldsCards, Session
<1>6. \A card \in cards : card.case \in Cases /\ card.case \notin sessions[s].cases
    <2>1. \A card \in cards : card.case \in Cases
        BY DEF IssueInv, Types, Promise!Card
    <2>2. \A card \in cards : cases[card.case].state = "issued"
        BY <2>1 DEF IssueInv, Books
    <2>3. QED BY <1>1, <2>1, <2>2 DEF SessionOK, HoldsCases
<1>7. Books'
    <2>1. ASSUME NEW c \in Cases
          PROVE  (cases'[c].state = "issued") <=> (\E card \in cards' : card.case = c)
        <3>1. CASE c \in sessions[s].cases
            <4>1. (cases'[c].state = "issued") <=> c \in IssuedBy(s)
                BY <3>1, CommitCases
            <4>2. QED BY <1>2, <1>6, <3>1, <4>1 DEF IssuedBy
        <3>2. CASE c \notin sessions[s].cases
            <4>1. cases'[c] = cases[c] BY <3>2, CommitCases
            <4>2. QED BY <1>2, <1>5, <3>2, <4>1 DEF IssueInv, Books
        <3>3. QED BY <3>1, <3>2
    <2>2. \A a, b \in cards' : a.case = b.case => a = b
        BY <1>1, <1>2, <1>5, <1>6 DEF IssueInv, Books, SessionOK, CardsDiffer
    <2>3. ASSUME NEW c \in Cases, cases'[c].state # "none" PROVE ~cases'[c].paid
        <3>1. cases'[c].paid = cases[c].paid BY CommitCases
        <3>2. CASE c \in sessions[s].cases
            BY <1>1, <3>1, <3>2 DEF SessionOK, HoldsCases
        <3>3. CASE c \notin sessions[s].cases
            BY <2>3, <3>1, <3>3, CommitCases DEF IssueInv, Books
        <3>4. QED BY <3>2, <3>3
    <2>4. QED BY <2>1, <2>2, <2>3 DEF Books
<1>8. ASSUME NEW t \in Sessions, t # s
      PROVE  SessionOK(sessions[t])'
    <2>1. /\ SessionOK(sessions[t]) /\ Apart(sessions[s], sessions[t])
          /\ sessions[t] \in Session
        BY <1>1, <1>8 DEF IssueInv
    <2>2. sessions'[t] = sessions[t] BY <1>3, <1>8
    <2>3. \A c \in sessions[t].cases : cases'[c] = cases[c]
        BY <2>1, CommitCases DEF Apart, Session
    <2>4. HoldsCases(sessions[t])'
        BY <2>1, <2>2, <2>3 DEF SessionOK, HoldsCases
    <2>5. HoldsCards(sessions[t])'
        <3>1. \A card \in sessions[t].cards :
                /\ \A old \in cards' : old.code # card.code
                /\ card.auto => card.email \notin reached'
            <4>1. \A mine \in sessions[s].cards : mine.email \in sessions[s].emails
                BY <1>1 DEF SessionOK, HoldsCards
            <4>2. QED BY <1>2, <2>1, <4>1 DEF SessionOK, HoldsCards, Apart
        <3>2. QED BY <2>1, <2>2, <3>1 DEF SessionOK, HoldsCards
    <2>6. CardsDiffer(sessions[t])'
        BY <2>1, <2>2 DEF SessionOK, CardsDiffer
    <2>7. QED BY <2>4, <2>5, <2>6 DEF SessionOK
<1>9. SessionOK(sessions[s])'
    <2>1. Len(NoSession.todo) = 0 /\ NoSession.cases = {} /\ NoSession.cards = {}
        BY DEF NoSession
    <2>2. QED BY <1>3, <2>1 DEF SessionOK, HoldsCases, HoldsCards, CardsDiffer
<1>10. ASSUME NEW t \in Sessions, NEW u \in Sessions, t # u
       PROVE  Apart(sessions[t], sessions[u])'
    <2>1. Apart(sessions'[t], sessions'[u])
        BY <1>1, <1>3, <1>10, NothingHeld, ApartIsMutual DEF IssueInv
    <2>2. QED BY <2>1 DEF Apart
<1>11. QED BY <1>4, <1>7, <1>8, <1>9, <1>10 DEF IssueInv

----------------------------------------------------------------------------
(* What happens to one case outside of these transactions.                 *)

\* One case that nobody has locked is changed, and not into or out of "issued".
LEMMA CaseKeeps ==
    ASSUME IssueInv, NEW c \in Cases, ~Locked(c), NEW x \in Case,
           cases' = [cases EXCEPT ![c] = x],
           x.state = "issued" <=> cases[c].state = "issued",
           x.state # "none" => ~x.paid,
           reached \subseteq reached', reached' \subseteq Emails,
           \A e \in reached' : e \notin reached => EmailHolder(e) = {},
           UNCHANGED <<cards, stock, sessions>>
    PROVE  IssueInv'
<1>1. /\ cases' \in [Cases -> Case] /\ cases'[c] = x
      /\ \A d \in Cases : d # c => cases'[d] = cases[d]
    BY DEF IssueInv, Types
<1>2. Types' BY <1>1 DEF IssueInv, Types
<1>3. Books'
    BY <1>1 DEF IssueInv, Books
<1>4. ASSUME NEW s \in Sessions PROVE SessionOK(sessions[s])'
    <2>1. SessionOK(sessions[s]) /\ sessions[s] \in Session /\ sessions'[s] = sessions[s]
        BY DEF IssueInv, Types
    <2>2. \A d \in sessions[s].cases : cases'[d] = cases[d]
        BY <1>1, <2>1 DEF Locked, Session
    <2>3. HoldsCases(sessions[s])'
        BY <2>1, <2>2 DEF SessionOK, HoldsCases
    <2>4. \A card \in sessions[s].cards : card.auto => card.email \notin reached'
        BY <2>1 DEF EmailHolder, SessionOK, HoldsCards
    <2>5. HoldsCards(sessions[s])'
        BY <2>1, <2>4 DEF SessionOK, HoldsCards
    <2>6. CardsDiffer(sessions[s])'
        BY <2>1 DEF SessionOK, CardsDiffer
    <2>7. QED BY <2>3, <2>5, <2>6 DEF SessionOK
<1>5. \A s, t \in Sessions : s # t => Apart(sessions[s], sessions[t])'
    BY DEF IssueInv, Apart
<1>6. QED BY <1>2, <1>3, <1>4, <1>5 DEF IssueInv

\* A refused exception.
LEMMA DenyKeeps ==
    ASSUME IssueInv, NEW c \in Cases, Deny(c)
    PROVE  IssueInv'
<1> DEFINE x == [cases[c] EXCEPT !.state = "denied"]
<1>1. cases[c] \in Case /\ cases[c].state = "review" /\ ~cases[c].paid
    BY DEF IssueInv, Types, Books, Deny
<1>2. x \in Case /\ x.state = "denied" /\ x.paid = cases[c].paid
    BY <1>1 DEF Case
<1>3. cases' = [cases EXCEPT ![c] = x]
    BY <1>1 DEF Deny
<1> HIDE DEF x
<1>4. ~Locked(c) /\ reached' = reached /\ UNCHANGED <<cards, stock, sessions>>
    BY DEF Deny
<1>5. reached \subseteq Emails BY DEF IssueInv, Types
<1>6. QED BY <1>1, <1>2, <1>3, <1>4, <1>5, CaseKeeps

\* The original payment is refunded.
LEMMA PayOriginalKeeps ==
    ASSUME IssueInv, NEW c \in Cases, PayOriginal(c)
    PROVE  IssueInv'
<1> DEFINE x == [cases[c] EXCEPT !.paid = TRUE]
<1>1. cases[c] \in Case /\ cases[c].state = "none"
    BY DEF IssueInv, Types, PayOriginal
<1>2. x \in Case /\ x.state = "none"
    BY <1>1 DEF Case
<1>3. cases' = [cases EXCEPT ![c] = x]
    BY <1>1 DEF PayOriginal
<1> HIDE DEF x
<1>4. ~Locked(c) /\ reached' = reached /\ UNCHANGED <<cards, stock, sessions>>
    BY DEF PayOriginal
<1>5. reached \subseteq Emails BY DEF IssueInv, Types
<1>6. QED BY <1>1, <1>2, <1>3, <1>4, <1>5, CaseKeeps

\* A card is sent again to an address that no transaction is counting on.
LEMMA ResendKeeps ==
    ASSUME IssueInv, NEW c \in Cases, NEW e \in Emails, Resend(c, e)
    PROVE  IssueInv'
<1> DEFINE x == [cases[c] EXCEPT !.email = e]
<1>1. cases[c] \in Case /\ cases[c].state = "issued" /\ ~cases[c].paid
    BY DEF IssueInv, Types, Books, Resend
<1>2. x \in Case /\ x.state = cases[c].state /\ x.paid = cases[c].paid
    BY <1>1 DEF Case
<1>3. cases' = [cases EXCEPT ![c] = x]
    BY <1>1 DEF Resend
<1> HIDE DEF x
<1>4. /\ ~Locked(c) /\ reached' = reached \cup {e} /\ EmailHolder(e) = {}
      /\ UNCHANGED <<cards, stock, sessions>>
    BY DEF Resend
<1>5. reached \subseteq Emails BY DEF IssueInv, Types
<1>6. QED BY <1>1, <1>2, <1>3, <1>4, <1>5, CaseKeeps

----------------------------------------------------------------------------
(* The invariant.                                                          *)

\* Nothing is allocated at first.
LEMMA InitKeeps ==
    ASSUME IssueInit
    PROVE  IssueInv
<1>1. FirstEmail \in [Cases -> Emails]
    BY IssuanceAssumption DEF IssuanceAssumption
<1>2. ASSUME NEW c \in Cases
      PROVE  cases[c] \in Case /\ cases[c].state = "none" /\ ~cases[c].paid
    BY <1>1 DEF IssueInit, Case
<1>3. cases \in [Cases -> Case]
    <2>1. cases = [c \in Cases |-> cases[c]] BY DEF IssueInit
    <2>2. QED BY <1>2, <2>1
<1>4. \A s \in Sessions : sessions[s] = NoSession
    BY DEF IssueInit
<1>5. sessions \in [Sessions -> Session]
    BY NothingHeld DEF IssueInit
<1>6. Types
    BY <1>3, <1>5 DEF Types, IssueInit
<1>7. Books
    BY <1>2 DEF Books, IssueInit
<1>8. \A s \in Sessions : SessionOK(sessions[s])
    BY <1>4, NothingHeld
<1>9. \A s, t \in Sessions : Apart(sessions[s], sessions[t])
    BY <1>4, NothingHeld
<1>10. QED BY <1>6, <1>7, <1>8, <1>9 DEF IssueInv

\* Every step keeps it.
LEMMA StepKeeps ==
    ASSUME IssueInv, [IssueNextStep]_issueVars
    PROVE  IssueInv'
<1>1. ASSUME NEW s \in Sessions, NEW c \in Cases, AcceptOffer(s, c) \/ ApproveException(s, c)
      PROVE  IssueInv'
    BY <1>1, OneCaseKeeps
<1>2. ASSUME NEW s \in Sessions, Resume(s) PROVE IssueInv'
    BY <1>2, ResumeKeeps
<1>3. ASSUME NEW s \in Sessions, Proceeds(s) PROVE IssueInv'
    <2>1. CASE ReviewsKnownRepeat(s) BY <2>1, ReviewsKnownRepeatKeeps
    <2>2. CASE WaitsForPool(s) BY <2>2, WaitsForPoolKeeps
    <2>3. CASE IssueNext(s) BY <2>3, IssueNextKeeps
    <2>4. CASE Commit(s) BY <2>4, CommitKeeps
    <2>5. CASE BreakDeadlock(s) BY <2>5, Ends DEF BreakDeadlock
    <2>6. QED BY <1>3, <2>1, <2>2, <2>3, <2>4, <2>5 DEF Proceeds
<1>4. ASSUME NEW s \in Sessions, Abort(s) PROVE IssueInv'
    BY <1>4, Ends DEF Abort
<1>5. ASSUME NEW c \in Cases, Deny(c) \/ PayOriginal(c) PROVE IssueInv'
    BY <1>5, DenyKeeps, PayOriginalKeeps
<1>6. ASSUME NEW c \in Cases, NEW e \in Emails, Resend(c, e) PROVE IssueInv'
    BY <1>6, ResendKeeps
<1>7. ASSUME UNCHANGED <<cases, cards, reached, sessions>>, stock' \in SUBSET Codes
      PROVE  IssueInv'
    <2>1. Types' /\ Books' BY <1>7 DEF IssueInv, Types, Books
    <2>2. \A s \in Sessions : SessionOK(sessions[s])'
        BY <1>7 DEF IssueInv, SessionOK, HoldsCases, HoldsCards, CardsDiffer
    <2>3. \A s, t \in Sessions : s # t => Apart(sessions[s], sessions[t])'
        BY <1>7 DEF IssueInv, Apart
    <2>4. QED BY <2>1, <2>2, <2>3 DEF IssueInv
<1>8. stock \in SUBSET Codes BY DEF IssueInv, Types
<1>9. ASSUME NEW k \in Codes, StockArrives(k) PROVE IssueInv'
    BY <1>7, <1>8, <1>9 DEF StockArrives
<1>10. ASSUME NEW p \in Pools, ClosePool(p) \/ OpenPool(p) PROVE IssueInv'
    BY <1>7, <1>8, <1>10 DEF ClosePool, OpenPool
<1>11. CASE UNCHANGED issueVars
    BY <1>7, <1>8, <1>11 DEF issueVars
<1>12. QED
    BY <1>1, <1>2, <1>3, <1>4, <1>5, <1>6, <1>9, <1>10, <1>11 DEF IssueNextStep

\* Transactions never interfere, for any number of cases, addresses, codes and
\* connections of the database.
THEOREM IssuanceInvariant == IssueSpec => []IssueInv
<1>1. IssueInit => IssueInv BY InitKeeps
<1>2. IssueInv /\ [IssueNextStep]_issueVars => IssueInv' BY StepKeeps
<1>3. QED BY <1>1, <1>2, PTL DEF IssueSpec

\* Whatever two open transactions have staged may both be committed.
THEOREM BothMayCommit == IssueSpec => []StagedIsCompatible
<1>1. ASSUME IssueInv PROVE StagedIsCompatible
    <2>1. ASSUME NEW s \in Sessions, NEW t \in Sessions, s # t,
                 NEW a \in sessions[s].cards, NEW b \in sessions[t].cards
          PROVE  a.case # b.case /\ a.code # b.code /\ (a.auto /\ b.auto => a.email # b.email)
        <3>1. SessionOK(sessions[s]) /\ SessionOK(sessions[t])
            BY <1>1 DEF IssueInv
        <3>2. Apart(sessions[s], sessions[t])
            BY <1>1, <2>1 DEF IssueInv
        <3>3. /\ a.case \in sessions[s].cases /\ a.email \in sessions[s].emails
              /\ b.case \in sessions[t].cases /\ b.email \in sessions[t].emails
            BY <3>1 DEF SessionOK, HoldsCards
        <3>4. QED BY <3>2, <3>3 DEF Apart
    <2>2. QED BY <2>1 DEF StagedIsCompatible
<1>2. QED BY <1>1, IssuanceInvariant, PTL

\* A case is issued exactly when it has a card, and never has two.
THEOREM OneCardPerIssuedCase == IssueSpec => []IssuedHasItsCard
<1>1. ASSUME IssueInv PROVE IssuedHasItsCard
    <2>1. ASSUME NEW c \in Cases
          PROVE  /\ (cases[c].state = "issued") = (\E card \in cards : card.case = c)
                 /\ Cardinality({card \in cards : card.case = c}) <= 1
        <3> DEFINE mine == {card \in cards : card.case = c}
        <3>1. cases[c].state = "issued" <=> \E card \in cards : card.case = c
            BY <1>1 DEF IssueInv, Books
        <3>2. (cases[c].state = "issued") = (\E card \in cards : card.case = c)
            <4>1. CASE \E card \in cards : card.case = c BY <3>1, <4>1, Zenon
            <4>2. CASE ~\E card \in cards : card.case = c BY <3>1, <4>2, Zenon
            <4>3. QED BY <4>1, <4>2
        <3>3. CASE mine = {}
            <4>1. Cardinality({}) = 0 BY FS_EmptySet
            <4>2. Cardinality(mine) <= 1 BY <3>3, <4>1
            <4>3. QED BY <3>2, <4>2
        <3>4. CASE mine # {}
            <4>1. PICK x \in cards : x.case = c BY <3>4
            <4>2. mine = {x}
                BY <1>1, <4>1 DEF IssueInv, Books
            <4>3. Cardinality({x}) = 1 BY FS_Singleton
            <4>4. Cardinality(mine) <= 1 BY <4>2, <4>3
            <4>5. QED BY <3>2, <4>4
        <3>5. QED BY <3>3, <3>4
    <2>2. QED BY <2>1 DEF IssuedHasItsCard
<1>2. QED BY <1>1, IssuanceInvariant, PTL

----------------------------------------------------------------------------
(* The issuance implements GiftCardAllocation.                             *)

\* The cases that are denied, and those that are paid, as the allocation sees them.
Denied == {c \in Cases : cases[c].state = "denied"}
Paid == {c \in Cases : cases[c].paid}

\* A step of the issuance, as the allocation sees it.
Allocates == Promise!Next \/ UNCHANGED <<cards, reached, Denied, Paid>>

\* Steps of transactions that commit nothing are invisible.
LEMMA Invisible ==
    ASSUME UNCHANGED <<cases, cards, reached>>
    PROVE  Allocates
BY DEF Allocates, Denied, Paid

\* A case that is open has not been settled.
LEMMA OpenIsUnsettled ==
    ASSUME IssueInv, NEW c \in Cases, cases[c].state \notin {"issued", "denied"},
           ~cases[c].paid
    PROVE  ~Promise!Settled(c)
BY DEF IssueInv, Books, Promise!Settled

\* A commit issues what it staged.
LEMMA CommitIssues ==
    ASSUME IssueInv, NEW s \in Sessions, Commit(s)
    PROVE  Allocates
<1> DEFINE new == sessions[s].cards
<1>1. sessions[s] \in Session /\ SessionOK(sessions[s]) /\ new \in SUBSET Promise!Card
    BY DEF IssueInv, Types, Session
<1>2. cards' = cards \cup new /\ reached' = reached \cup {card.email : card \in new}
    BY DEF Commit, ReachedIn
<1>3. {card \in cards' : card \notin cards} = new
    BY <1>1, <1>2 DEF SessionOK, HoldsCards
<1>4. \A c \in sessions[s].cases : cases[c].state \notin {"issued", "denied"} /\ ~cases[c].paid
    BY <1>1 DEF SessionOK, HoldsCases
<1>5. \A card \in new :
        /\ ~Promise!Settled(card.case)
        /\ \A old \in cards : old.code # card.code
    <2>1. \A card \in new : card.case \in sessions[s].cases /\ card.case \in Cases
        BY <1>1 DEF SessionOK, HoldsCards, Session
    <2>2. \A card \in new : ~Promise!Settled(card.case)
        BY <1>4, <2>1, OpenIsUnsettled
    <2>3. QED BY <1>1, <2>2 DEF SessionOK, HoldsCards
<1>6. \A card, other \in new :
        card # other => card.case # other.case /\ card.code # other.code
    BY <1>1 DEF SessionOK, CardsDiffer
<1>7. \A card \in new : card.auto =>
        /\ card.email \notin reached
        /\ \A other \in new : other # card /\ other.auto => other.email # card.email
    BY <1>1 DEF SessionOK, CardsDiffer, HoldsCards
<1>8. Denied' = Denied /\ Paid' = Paid
    <2>1. \A c \in Cases : cases'[c].paid = cases[c].paid
        BY CommitCases
    <2>2. \A c \in Cases : cases'[c].state = "denied" <=> cases[c].state = "denied"
        BY <1>4, CommitCases
    <2>3. QED BY <2>1, <2>2 DEF Denied, Paid
<1>9. Promise!Issue(new)
    BY <1>2, <1>5, <1>6, <1>7, <1>8 DEF Promise!Issue, Denied, Paid
<1>10. Promise!Issue({card \in cards' : card \notin cards})
    BY <1>3, <1>9
<1>11. QED BY <1>10 DEF Allocates, Promise!Next

\* A refused exception is denied.
LEMMA DenyDenies ==
    ASSUME IssueInv, NEW c \in Cases, Deny(c)
    PROVE  Allocates
<1>1. /\ cases \in [Cases -> Case] /\ cases[c].state = "review" /\ ~cases[c].paid
    BY DEF IssueInv, Types, Books, Deny
<1>2. ~Promise!Settled(c) BY <1>1, OpenIsUnsettled
<1>3. cases' = [cases EXCEPT ![c].state = "denied"] /\ UNCHANGED <<cards, reached>>
    BY DEF Deny
<1>4. /\ cases'[c].state = "denied" /\ cases'[c].paid = cases[c].paid
      /\ \A d \in Cases : d # c => cases'[d] = cases[d]
    BY <1>1, <1>3 DEF Case
<1>5. Denied' = Denied \cup {c} /\ Paid' = Paid
    BY <1>4 DEF Denied, Paid
<1>6. Promise!Deny(c)
    BY <1>2, <1>3, <1>5 DEF Promise!Deny, Denied, Paid
<1>7. QED BY <1>6 DEF Allocates, Promise!Next

\* The refund of the original payment pays.
LEMMA PayOriginalPays ==
    ASSUME IssueInv, NEW c \in Cases, PayOriginal(c)
    PROVE  Allocates
<1>1. /\ cases \in [Cases -> Case] /\ cases[c].state = "none" /\ ~cases[c].paid
    BY DEF IssueInv, Types, PayOriginal
<1>2. ~Promise!Settled(c) BY <1>1, OpenIsUnsettled
<1>3. cases' = [cases EXCEPT ![c].paid = TRUE] /\ UNCHANGED <<cards, reached>>
    BY DEF PayOriginal
<1>4. /\ cases'[c].state = "none" /\ cases'[c].paid
      /\ \A d \in Cases : d # c => cases'[d] = cases[d]
    BY <1>1, <1>3 DEF Case
<1>5. Denied' = Denied /\ Paid' = Paid \cup {c}
    BY <1>1, <1>4 DEF Denied, Paid
<1>6. Promise!Pay(c)
    BY <1>2, <1>3, <1>5 DEF Promise!Pay, Denied, Paid
<1>7. QED BY <1>6 DEF Allocates, Promise!Next

\* A card is only sent again when there is one.
LEMMA ResendResends ==
    ASSUME IssueInv, NEW c \in Cases, NEW e \in Emails, Resend(c, e)
    PROVE  Allocates
<1>1. cases \in [Cases -> Case] /\ cards # {}
    BY DEF IssueInv, Types, Books, Resend
<1>2. /\ cases' = [cases EXCEPT ![c].email = e]
      /\ reached' = reached \cup {e} /\ UNCHANGED cards
    BY DEF Resend
<1>3. /\ cases'[c].state = cases[c].state /\ cases'[c].paid = cases[c].paid
      /\ \A d \in Cases : d # c => cases'[d] = cases[d]
    BY <1>1, <1>2 DEF Case
<1>4. Denied' = Denied /\ Paid' = Paid
    BY <1>3 DEF Denied, Paid
<1>5. Promise!Resend(e)
    BY <1>1, <1>2, <1>4 DEF Promise!Resend, Denied, Paid
<1>6. QED BY <1>5 DEF Allocates, Promise!Next

\* Every step allocates as if each transaction were alone, or nothing.
LEMMA StepAllocates ==
    ASSUME IssueInv, [IssueNextStep]_issueVars
    PROVE  Allocates
<1>1. ASSUME NEW s \in Sessions, Proceeds(s) PROVE Allocates
    <2>1. CASE Commit(s) BY <2>1, CommitIssues
    <2>2. CASE ReviewsKnownRepeat(s) BY <2>2, Invisible DEF ReviewsKnownRepeat, Advance
    <2>3. CASE WaitsForPool(s) BY <2>3, Invisible DEF WaitsForPool, Advance
    <2>4. CASE IssueNext(s) BY <2>4, Invisible DEF IssueNext, Advance
    <2>5. CASE BreakDeadlock(s) BY <2>5, Invisible DEF BreakDeadlock
    <2>6. QED BY <1>1, <2>1, <2>2, <2>3, <2>4, <2>5 DEF Proceeds
<1>2. ASSUME NEW s \in Sessions,
             \/ \E c \in Cases : AcceptOffer(s, c) \/ ApproveException(s, c)
             \/ Resume(s) \/ Abort(s)
      PROVE  Allocates
    BY <1>2, Invisible DEF AcceptOffer, ApproveException, Resume, Start, Abort
<1>3. ASSUME NEW c \in Cases, Deny(c) \/ PayOriginal(c) PROVE Allocates
    BY <1>3, DenyDenies, PayOriginalPays
<1>4. ASSUME NEW c \in Cases, NEW e \in Emails, Resend(c, e) PROVE Allocates
    BY <1>4, ResendResends
<1>5. CASE \/ \E k \in Codes : StockArrives(k)
           \/ \E p \in Pools : ClosePool(p) \/ OpenPool(p)
           \/ UNCHANGED issueVars
    BY <1>5, Invisible DEF StockArrives, ClosePool, OpenPool, issueVars
<1>6. QED BY <1>1, <1>2, <1>3, <1>4, <1>5 DEF IssueNextStep

\* Interleaved transactions allocate as if each had been alone: no code twice, no case
\* settled twice, and no second card that nobody approved for an address.
THEOREM IssuanceAllocates == IssueSpec => KeepsAllocation
<1>1. IssueInit => Promise!Init
    BY DEF IssueInit, Promise!Init
<1>2. IssueInv /\ [IssueNextStep]_issueVars =>
        [Promise!Next]_<<cards, reached, Denied, Paid>>
    BY StepAllocates DEF Allocates
<1>3. QED BY <1>1, <1>2, IssuanceInvariant, PTL DEF IssueSpec, KeepsAllocation, Promise!Spec, Denied, Paid
=============================================================================
