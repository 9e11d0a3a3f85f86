--------------------- MODULE RefundMessageOutboxProofs ---------------------
(***************************************************************************)
(* Theorems about RefundMessageOutbox, for any number of cases, drains,    *)
(* changes and faults.                                                     *)
(***************************************************************************)
EXTENDS RefundMessageOutbox, TLAPS

----------------------------------------------------------------------------
(* The inductive invariant.                                                *)

Working(w) == wk[w].pc \notin {"idle", "read"}
On(w, c) == Working(w) /\ wk[w].case = c
\* The claims a drain has, with their tokens.
Claims(w) == wk[w].todo \cup {r \in {<<wk[w].case, wk[w].token>>} : Working(w)}

InGmail == {"gmail", "gmail_record"}
InResend == {"resend_mark", "resend", "bind"}
AfterMark == {"dispatch"} \cup InGmail \cup InResend
Drains == [pc : {"idle", "read", "mark", "mark_again", "defer", "finish"} \cup AfterMark,
           todo : SUBSET (Cases \X (1..MaxTries)), case : Cases \cup {"none"},
           token : 0..MaxTries, outcome : Ended]

Types ==
    /\ kind \in [Cases -> Kinds]
    /\ msg \in [Cases -> Message]
    /\ gmail \in [Cases -> {"none", "pending", "sent", "failed", "unknown"}]
    /\ thread \in [Cases -> {"none", "early", "late"}]
    /\ contact \in BOOLEAN
    /\ events \in [Cases -> SUBSET EventKinds]
    /\ wk \in [Workers -> Drains]
    /\ mails \in [Cases -> [gmail : Nat, resend : 0..1]]
    /\ told \subseteq Cases
    /\ changes \in 0..MaxChanges /\ faults \in 0..MaxFaults
    /\ version \in [Cases -> 1..(MaxChanges + 1)]
    /\ \A c \in Cases : version[c] <= changes + 1
    /\ \A w \in Workers : Working(w) => wk[w].case \in Cases /\ wk[w].token # 0

\* A case that no drain sends through Gmail, and one that none sends otherwise.
Plain(c) == kind[c] = "automatic" \/ (kind[c] = "manual" /\ thread[c] = "none")
Threaded(c) == kind[c] = "in_thread" \/ (kind[c] = "manual" /\ thread[c] = "early")

Tries(c) ==
    LET m == msg[c] IN
    /\ m.attempted => m.tries # 0
    /\ m.resend => m.attempted
    /\ m.state = "claimed" => m.token = m.tries
    /\ m.state = "none" \/ (m.state = "queued" /\ Automatic(c)) => ~m.attempted
Letters(c) ==
    LET m == msg[c] IN
    /\ ~m.attempted => mails[c].gmail = 0 /\ mails[c].resend = 0
    /\ mails[c].gmail <= 1
    /\ gmail[c] = "none" => mails[c].gmail = 0
    /\ gmail[c] = "sent" => mails[c].gmail = 1
    /\ mails[c].resend = 1 => m.resend
    /\ m.bound => m.resend /\ mails[c].resend = 1
    /\ Plain(c) => gmail[c] = "none"
    /\ Threaded(c) => ~m.resend
    /\ m.state = "sent" \/ c \in told => mails[c].gmail + mails[c].resend > 0
Ranked(c) ==
    LET m == msg[c] IN
    /\ ~m.bound => m.rank = 0
    /\ m.bound /\ m.rank # 0 => m.rank = Max(events[c] \cup {1})
    /\ m.rank >= 4 => m.status = "failed"
CaseOK(c) == Tries(c) /\ Letters(c) /\ Ranked(c)

DrainOK(w) ==
    LET c == wk[w].case
        pc == wk[w].pc
    IN Working(w) =>
       /\ pc \in AfterMark => msg[c].attempted
       /\ pc \in AfterMark /\ Automatic(c) => wk[w].token = msg[c].tries
       /\ pc \in InGmail => gmail[c] = "pending" /\ ~Plain(c)
       /\ pc = "gmail" => mails[c].gmail = 0
       /\ pc = "gmail_record" /\ wk[w].outcome = "sent" => mails[c].gmail = 1
       /\ pc \in InResend => ~Threaded(c)
       /\ pc \in {"resend", "bind"} => msg[c].resend
       /\ pc = "bind" => mails[c].resend = 1
       /\ pc = "defer" => Automatic(c)
       /\ wk[w].outcome = "sent" => mails[c].gmail + mails[c].resend > 0
ClaimsOK(w) == \A r \in Claims(w) : r[2] <= msg[r[1]].tries
Apart(v, w) ==
    /\ Claims(v) \cap Claims(w) = {}
    /\ wk[v].pc \in InGmail /\ wk[w].pc \in InGmail => wk[v].case # wk[w].case

OutboxInv ==
    /\ Types
    /\ \A c \in Cases : CaseOK(c)
    /\ \A w \in Workers : DrainOK(w) /\ ClaimsOK(w)
    /\ \A v, w \in Workers : v # w => Apart(v, w)
----------------------------------------------------------------------------
(* What the database functions do with a row.                              *)

\* The highest rank of a nonempty set of ranks is one of them, and bounds them.
LEMMA HighestRank ==
    ASSUME NEW S \in SUBSET (1..6), S # {}
    PROVE  Max(S) \in S /\ \A y \in S : Max(S) >= y
<1>1. \E x \in S : \A y \in S : x >= y
  <2>1. \A y \in S : y \in Nat /\ y <= 6 /\ y >= 1
    OBVIOUS
  <2>2. CASE 6 \in S
    BY <2>1, <2>2
  <2>3. CASE 6 \notin S /\ 5 \in S
    BY <2>1, <2>3
  <2>4. CASE 6 \notin S /\ 5 \notin S /\ 4 \in S
    BY <2>1, <2>4
  <2>5. CASE 6 \notin S /\ 5 \notin S /\ 4 \notin S /\ 3 \in S
    BY <2>1, <2>5
  <2>6. CASE 6 \notin S /\ 5 \notin S /\ 4 \notin S /\ 3 \notin S
    <3>1. \A y \in S : y = 1 \/ y = 2
      BY <2>1, <2>6
    <3>2. CASE 2 \in S
      BY <3>1, <3>2
    <3>3. CASE 2 \notin S
      <4>1. \A y \in S : y = 1
        BY <3>1, <3>3
      <4>2. PICK z \in S : TRUE
        OBVIOUS
      <4>3. z = 1
        BY <4>1
      <4> QED BY <4>1, <4>3
    <3> QED BY <3>2, <3>3
  <2> QED BY <2>2, <2>3, <2>4, <2>5, <2>6
<1> QED BY <1>1 DEF Max

\* The rank 1 of the acceptance adds nothing to ranks that were reported.
LEMMA HighestWithAccepted ==
    ASSUME NEW S \in SUBSET (1..6)
    PROVE  /\ S # {} => Max(S \cup {1}) = Max(S)
           /\ S = {} => Max(S \cup {1}) = 1
<1>1. S \cup {1} \in SUBSET (1..6) /\ S \cup {1} # {}
  OBVIOUS
<1>2. Max(S \cup {1}) \in S \cup {1} /\ \A y \in S \cup {1} : Max(S \cup {1}) >= y
  BY <1>1, HighestRank
<1>3. CASE S # {}
  <2>1. Max(S) \in S /\ \A y \in S : Max(S) >= y
    BY <1>3, HighestRank
  <2>2. Max(S) \in 1..6 /\ Max(S \cup {1}) \in 1..6
    BY <1>1, <1>2, <2>1
  <2>3. Max(S \cup {1}) >= Max(S)
    BY <1>2, <2>1
  <2>4. Max(S) >= Max(S \cup {1})
    BY <1>2, <2>1, <2>2
  <2>5. Max(S) = Max(S \cup {1})
    BY <2>2, <2>3, <2>4
  <2> QED BY <1>3, <2>5
<1>4. CASE S = {}
  BY <1>2, <1>4
<1> QED BY <1>3, <1>4

\* Ending a message leaves its tries and its evidence, and no bounced one is a success.
LEMMA EndIs ==
    ASSUME NEW m \in Message, NEW state \in Ended
    PROVE  /\ End(m, state) \in Message
           /\ End(m, state).state = state /\ End(m, state).tries = m.tries
           /\ End(m, state).attempted = m.attempted /\ End(m, state).resend = m.resend
           /\ End(m, state).bound = m.bound /\ End(m, state).rank = m.rank
           /\ m.resend /\ m.rank >= 4 => End(m, state).status = "failed"
<1> DEFINE e == [m EXCEPT !.state = state, !.token = 0, !.old = FALSE,
                          !.status = IF state = "sent" THEN "sent" ELSE "failed"]
<1>1. /\ e \in Message /\ e.state = state /\ e.tries = m.tries /\ e.attempted = m.attempted
      /\ e.resend = m.resend /\ e.bound = m.bound /\ e.rank = m.rank
      /\ e.status = IF state = "sent" THEN "sent" ELSE "failed"
  <2> DEFINE st == IF state = "sent" THEN "sent" ELSE "failed"
             a == [m EXCEPT !.state = state]
             b == [a EXCEPT !.token = 0]
             d == [b EXCEPT !.old = FALSE]
             g == [d EXCEPT !.status = st]
  <2>1. e = g
    OBVIOUS
  <2>2. /\ a \in Message /\ a.state = state /\ a.tries = m.tries /\ a.attempted = m.attempted
        /\ a.resend = m.resend /\ a.bound = m.bound /\ a.rank = m.rank
    BY DEF Message, Ended, States
  <2> HIDE DEF a
  <2>3. /\ b \in Message /\ b.state = a.state /\ b.tries = a.tries /\ b.attempted = a.attempted
        /\ b.resend = a.resend /\ b.bound = a.bound /\ b.rank = a.rank
    BY <2>2 DEF Message, MaxTries
  <2> HIDE DEF b
  <2>4. /\ d \in Message /\ d.state = b.state /\ d.tries = b.tries /\ d.attempted = b.attempted
        /\ d.resend = b.resend /\ d.bound = b.bound /\ d.rank = b.rank
    BY <2>3 DEF Message
  <2> HIDE DEF d
  <2>5. /\ g \in Message /\ g.state = d.state /\ g.tries = d.tries /\ g.attempted = d.attempted
        /\ g.resend = d.resend /\ g.bound = d.bound /\ g.rank = d.rank /\ g.status = st
    BY <2>4 DEF Message
  <2> HIDE DEF g
  <2> QED BY <2>1, <2>2, <2>3, <2>4, <2>5, Zenon
<1> HIDE DEF e
<1> DEFINE f == [e EXCEPT !.status = "failed"]
<1>2. /\ f \in Message /\ f.state = e.state /\ f.tries = e.tries /\ f.attempted = e.attempted
      /\ f.resend = e.resend /\ f.bound = e.bound /\ f.rank = e.rank /\ f.status = "failed"
  BY <1>1 DEF Message
<1>3. End(m, state) = IF m.resend /\ m.rank >= 4 /\ e.status = "sent" THEN f ELSE e
  BY Zenon DEF End, Guarded, e
<1> QED BY <1>1, <1>2, <1>3

\* Queueing a message again leaves its tries and its evidence.
LEMMA RequeuedIs ==
    ASSUME NEW m \in Message
    PROVE  /\ Requeued(m) \in Message /\ Requeued(m).status = m.status
           /\ Requeued(m).state = "queued" /\ Requeued(m).tries = m.tries
           /\ Requeued(m).attempted = m.attempted /\ Requeued(m).resend = m.resend
           /\ Requeued(m).bound = m.bound /\ Requeued(m).rank = m.rank
<1> DEFINE a == [m EXCEPT !.state = "queued"]
           b == [a EXCEPT !.token = 0]
           d == [b EXCEPT !.old = FALSE]
<1>1. Requeued(m) = d
  BY DEF Requeued
<1>2. /\ a \in Message /\ a.state = "queued" /\ a.tries = m.tries /\ a.attempted = m.attempted
      /\ a.resend = m.resend /\ a.bound = m.bound /\ a.rank = m.rank /\ a.status = m.status
  BY DEF Message, States
<1> HIDE DEF a
<1>3. /\ b \in Message /\ b.state = a.state /\ b.tries = a.tries /\ b.attempted = a.attempted
      /\ b.resend = a.resend /\ b.bound = a.bound /\ b.rank = a.rank /\ b.status = a.status
  BY <1>2 DEF Message, MaxTries
<1> HIDE DEF b
<1>4. /\ d \in Message /\ d.state = b.state /\ d.tries = b.tries /\ d.attempted = b.attempted
      /\ d.resend = b.resend /\ d.bound = b.bound /\ d.rank = b.rank /\ d.status = b.status
  BY <1>3 DEF Message
<1> HIDE DEF d
<1> QED BY <1>1, <1>2, <1>3, <1>4, Zenon

\* A review keeps tries and evidence; it queues no notice again that was attempted,
\* and calls a message sent only on proof.
LEMMA ReviewIs ==
    ASSUME Types, NEW c \in Cases
    PROVE  LET r == Review(c)
               m == msg[c]
           IN /\ r \in Message /\ r.tries = m.tries /\ r.attempted = m.attempted
              /\ r.resend = m.resend /\ r.bound = m.bound /\ r.rank = m.rank
              /\ m.resend /\ m.rank >= 4 => r.status = "failed" \/ r.status = m.status
              /\ r.state = "sent" => m.state = "sent" \/ RecoversSent(c)
              /\ r.state = "queued" => m.state = "queued" \/ ~(Automatic(c) /\ m.attempted)
              /\ r.state = "claimed" => r = m
              /\ r.state = "none" => m.state = "none"
<1> DEFINE m == msg[c]
<1>1. m \in Message
  BY DEF Types
<1>2. /\ End(m, "sent") \in Message /\ End(m, "unknown") \in Message /\ End(m, "failed") \in Message
  BY <1>1, EndIs DEF Ended
<1>3. CASE Recovers(c)
  <2>1. Review(c) = End(m, IF RecoversSent(c) THEN "sent" ELSE "unknown")
    BY <1>3 DEF Review
  <2> QED BY <1>1, <2>1, EndIs DEF Ended
<1>4. CASE ~Recovers(c) /\ m.status = "pending" /\ ~Current(c)
  <2>1. Review(c) = End(m, IF m.attempted THEN "unknown" ELSE "failed")
    BY <1>4 DEF Review
  <2> QED BY <1>1, <2>1, EndIs DEF Ended
<1>5. CASE ~Recovers(c) /\ m.status = "pending" /\ Current(c) /\ Abandoned(m)
  <2>1. Review(c) = IF m.tries >= MaxTries THEN End(m, "failed") ELSE Requeued(m)
    BY <1>5 DEF Review
  <2> QED BY <1>1, <1>5, <2>1, EndIs, RequeuedIs DEF Ended, Recovers
<1>6. CASE /\ ~Recovers(c)
           /\ ~(m.status = "pending" /\ ~Current(c))
           /\ ~(m.status = "pending" /\ Current(c) /\ Abandoned(m))
  <2>1. Review(c) = m
    BY <1>6 DEF Review
  <2> QED BY <1>1, <2>1
<1> QED BY <1>3, <1>4, <1>5, <1>6

\* An event is applied to a bound row only: its rank becomes the highest reported one.
LEMMA ApplyIs ==
    ASSUME NEW m \in Message, NEW known \in SUBSET (1..6), NEW new
    PROVE  LET a == Apply(m, known, new)
           IN /\ a \in Message /\ a.state = m.state /\ a.tries = m.tries
              /\ a.token = m.token /\ a.attempted = m.attempted
              /\ a.resend = m.resend /\ a.bound = m.bound
              /\ m.resend /\ m.bound /\ known # {} /\ Max(known) >= m.rank
                    => a.rank = Max(known) /\ (Max(known) >= 4 => a.status = "failed")
              /\ ~(m.resend /\ m.bound /\ known # {} /\ Max(known) >= m.rank) => a = m
<1>1. CASE m.resend /\ m.bound /\ known # {} /\ Max(known) >= m.rank
  <2> DEFINE k == Max(known)
             r == [m EXCEPT !.rank = k]
             st == IF k >= 4 THEN "failed" ELSE r.status
             a == [r EXCEPT !.status = st]
  <2>1. k \in Ranks
    <3>1. k \in known
      BY <1>1, HighestRank
    <3>2. k \in 1..6
      BY <3>1
    <3> QED BY <3>2 DEF Ranks
  <2>2. Apply(m, known, new) = [m EXCEPT !.rank = k, !.status = IF k >= 4 THEN "failed" ELSE @]
    BY <1>1 DEF Apply
  <2>3. Apply(m, known, new) = a
    BY <2>2 DEF Message
  <2>4. /\ r \in Message /\ r.state = m.state /\ r.tries = m.tries /\ r.token = m.token
        /\ r.attempted = m.attempted /\ r.resend = m.resend /\ r.bound = m.bound
        /\ r.rank = k /\ r.status = m.status
    BY <2>1 DEF Message
  <2> HIDE DEF r
  <2>5. /\ a \in Message /\ a.state = r.state /\ a.tries = r.tries /\ a.token = r.token
        /\ a.attempted = r.attempted /\ a.resend = r.resend /\ a.bound = r.bound
        /\ a.rank = r.rank /\ a.status = st
    BY <2>4 DEF Message
  <2> HIDE DEF a
  <2> QED BY <1>1, <2>3, <2>4, <2>5
<1>2. CASE ~(m.resend /\ m.bound /\ known # {} /\ Max(known) >= m.rank)
  <2>1. Apply(m, known, new) = m
    BY <1>2 DEF Apply
  <2> QED BY <1>2, <2>1
<1> QED BY <1>1, <1>2

\* Binding a row leaves its try and its claim, and gives it the highest reported rank.
LEMMA BoundIs ==
    ASSUME Types, NEW c \in Cases, Ranked(c)
    PROVE  LET m == msg[c]
               b == Bound(c)
           IN /\ b \in Message /\ b.state = m.state /\ b.tries = m.tries
              /\ b.token = m.token /\ b.attempted = m.attempted
              /\ b.resend /\ b.bound /\ b.rank = Max(events[c] \cup {1})
              /\ b.rank >= 4 => b.status = "failed"
<1> DEFINE m == msg[c]
           e == events[c]
           x == [m EXCEPT !.resend = TRUE]
           y == [x EXCEPT !.bound = TRUE]
           z == [y EXCEPT !.rank = IF y.rank > 1 THEN y.rank ELSE 1]
<1>1. m \in Message /\ e \in SUBSET (1..6)
  BY OutboxAssumption DEF Types
<1>2. /\ x \in Message /\ x.state = m.state /\ x.tries = m.tries /\ x.token = m.token
      /\ x.attempted = m.attempted /\ x.bound = m.bound /\ x.rank = m.rank
      /\ x.status = m.status /\ x.resend
  BY <1>1 DEF Message
<1>3. [m EXCEPT !.resend = TRUE, !.bound = TRUE, !.rank = IF @ > 1 THEN @ ELSE 1] = z
  BY <1>1 DEF Message
<1> HIDE DEF x
<1>4. /\ y \in Message /\ y.state = x.state /\ y.tries = x.tries /\ y.token = x.token
      /\ y.attempted = x.attempted /\ y.bound /\ y.rank = x.rank
      /\ y.status = x.status /\ y.resend = x.resend
  BY <1>2 DEF Message
<1> HIDE DEF y
<1>5. /\ z \in Message /\ z.state = y.state /\ z.tries = y.tries /\ z.token = y.token
      /\ z.attempted = y.attempted /\ z.bound = y.bound
      /\ z.rank = IF y.rank > 1 THEN y.rank ELSE 1
      /\ z.status = y.status /\ z.resend = y.resend
  <2> DEFINE r == IF y.rank > 1 THEN y.rank ELSE 1
  <2>1. y.rank \in Ranks
    BY <1>4 DEF Message
  <2>2. r \in Ranks
    BY <2>1 DEF Ranks
  <2>3. z = [y EXCEPT !.rank = r]
    OBVIOUS
  <2> HIDE DEF r
  <2>4. /\ z \in Message /\ z.state = y.state /\ z.tries = y.tries /\ z.token = y.token
        /\ z.attempted = y.attempted /\ z.bound = y.bound /\ z.rank = r
        /\ z.status = y.status /\ z.resend = y.resend
    BY <1>4, <2>2, <2>3 DEF Message
  <2> QED BY <2>4 DEF r
<1> HIDE DEF z
<1>6. Bound(c) = Apply(z, e, 1)
  BY <1>3 DEF Bound
<1>7. CASE e = {}
  <2>1. Max(e \cup {1}) = 1
    BY <1>1, <1>7, HighestWithAccepted
  <2>2. Bound(c) = z
    BY <1>6, <1>7 DEF Apply
  <2>3. m.rank = 0 \/ m.rank = 1
    BY <1>1, <1>7, <2>1 DEF Ranked
  <2>4. z.rank = 1
    BY <1>2, <1>4, <1>5, <2>3
  <2>5. /\ z \in Message /\ z.state = m.state /\ z.tries = m.tries /\ z.token = m.token
        /\ z.attempted = m.attempted /\ z.resend /\ z.bound
    BY <1>2, <1>4, <1>5
  <2> HIDE DEF e
  <2> QED BY <2>1, <2>2, <2>4, <2>5 DEF e
<1>8. CASE e # {}
  <2>1. /\ Max(e) \in 1..6 /\ Max(e \cup {1}) = Max(e)
    BY <1>1, <1>8, HighestRank, HighestWithAccepted
  <2>2. m.rank = 0 \/ m.rank = Max(e)
    BY <1>1, <2>1 DEF Ranked
  <2>3. Max(e) >= z.rank
    BY <1>2, <1>4, <1>5, <2>1, <2>2
  <2>4. z.resend /\ z.bound
    BY <1>2, <1>4, <1>5
  <2> DEFINE a == Apply(z, e, 1)
  <2>5. /\ a \in Message /\ a.state = z.state /\ a.tries = z.tries
        /\ a.token = z.token /\ a.attempted = z.attempted
        /\ a.resend = z.resend /\ a.bound = z.bound
        /\ a.rank = Max(e) /\ (Max(e) >= 4 => a.status = "failed")
    BY <1>1, <1>5, <1>8, <2>3, <2>4, ApplyIs
  <2> HIDE DEF a
  <2>6. Bound(c) = a
    BY <1>6 DEF a
  <2> QED BY <1>2, <1>4, <1>5, <2>1, <2>4, <2>5, <2>6
<1> QED BY <1>7, <1>8

----------------------------------------------------------------------------
(* What a step does to a drain.                                            *)

\* A drain that goes on with its case.
LEMMA GoesOn ==
    ASSUME Types, NEW w \in Workers, Working(w), NEW pc, NEW o \in Ended,
           pc \in {"mark", "mark_again", "defer", "finish"} \cup AfterMark,
           wk' = [wk EXCEPT ![w].pc = pc, ![w].outcome = o]
    PROVE  /\ wk' \in [Workers -> Drains] /\ Working(w)'
           /\ wk'[w].pc = pc /\ wk'[w].outcome = o
           /\ wk'[w].case = wk[w].case /\ wk'[w].token = wk[w].token
           /\ \A v \in Workers \ {w} : wk'[v] = wk[v]
           /\ Claims(w)' = Claims(w)
<1>1. wk[w] \in Drains
  BY DEF Types
<1> DEFINE a == [wk[w] EXCEPT !.pc = pc]
           b == [a EXCEPT !.outcome = o]
<1>2. wk' = [wk EXCEPT ![w] = b]
  BY <1>1 DEF Types
<1>3. /\ a \in Drains /\ a.pc = pc /\ a.todo = wk[w].todo /\ a.case = wk[w].case
      /\ a.token = wk[w].token /\ a.outcome = wk[w].outcome
  BY <1>1 DEF Drains
<1> HIDE DEF a
<1>4. /\ b \in Drains /\ b.pc = a.pc /\ b.todo = a.todo /\ b.case = a.case
      /\ b.token = a.token /\ b.outcome = o
  BY <1>3 DEF Drains
<1> HIDE DEF b
<1>5. /\ wk' \in [Workers -> Drains] /\ wk'[w] = b
      /\ \A v \in Workers \ {w} : wk'[v] = wk[v]
  BY <1>2, <1>4 DEF Types
<1>6. pc \notin {"idle", "read"}
  BY DEF AfterMark, InGmail, InResend
<1> QED BY <1>3, <1>4, <1>5, <1>6 DEF Working, Claims

\* The same, when the outcome does not change.
LEMMA GoesTo ==
    ASSUME Types, NEW w \in Workers, Working(w), NEW pc,
           pc \in {"mark", "mark_again", "defer", "finish"} \cup AfterMark, To(w, pc)
    PROVE  /\ wk' \in [Workers -> Drains] /\ Working(w)'
           /\ wk'[w].pc = pc /\ wk'[w].outcome = wk[w].outcome
           /\ wk'[w].case = wk[w].case /\ wk'[w].token = wk[w].token
           /\ \A v \in Workers \ {w} : wk'[v] = wk[v]
           /\ Claims(w)' = Claims(w)
<1>1. wk[w] \in Drains
  BY DEF Types
<1> DEFINE a == [wk[w] EXCEPT !.pc = pc]
<1>2. /\ a \in Drains /\ a.pc = pc /\ a.todo = wk[w].todo /\ a.case = wk[w].case
      /\ a.token = wk[w].token /\ a.outcome = wk[w].outcome
  BY <1>1 DEF Drains
<1>3. wk' = [wk EXCEPT ![w] = a]
  BY <1>1 DEF Types, To
<1> HIDE DEF a
<1>4. /\ wk' \in [Workers -> Drains] /\ wk'[w] = a
      /\ \A v \in Workers \ {w} : wk'[v] = wk[v]
  BY <1>2, <1>3 DEF Types
<1>5. pc \notin {"idle", "read"}
  BY DEF AfterMark, InGmail, InResend
<1> QED BY <1>2, <1>4, <1>5 DEF Working, Claims

\* A drain that leaves its case, for its next claim or for good.
LEMMA Leaves ==
    ASSUME Types, NEW w \in Workers, Throws(w) \/ NextClaim(w)
    PROVE  /\ wk' \in [Workers -> Drains] /\ ~Working(w)' /\ Claims(w)' \subseteq Claims(w)
           /\ \A v \in Workers \ {w} : wk'[v] = wk[v]
<1> DEFINE i == [Idle EXCEPT !.pc = "read"]
           n == [i EXCEPT !.todo = wk[w].todo]
<1>1. wk[w] \in Drains
  BY DEF Types
<1>2. /\ Idle \in Drains /\ Idle.pc = "idle" /\ Idle.todo = {}
  BY DEF Idle, Drains, Ended, MaxTries
<1>3. [Idle EXCEPT !.pc = "read", !.todo = wk[w].todo] = n
  OBVIOUS
<1>4. i \in Drains /\ i.pc = "read"
  BY <1>2 DEF Drains
<1> HIDE DEF i
<1>4a. n \in Drains /\ n.pc = "read" /\ n.todo = wk[w].todo
  BY <1>1, <1>4 DEF Drains
<1> HIDE DEF n
<1>5. PICK k \in {Idle, n} : wk' = [wk EXCEPT ![w] = k]
  BY <1>3 DEF Throws, NextClaim
<1>6. k \in Drains /\ k.pc \in {"idle", "read"} /\ k.todo \subseteq wk[w].todo
  BY <1>2, <1>4a
<1>7. /\ wk' \in [Workers -> Drains] /\ wk'[w] = k
      /\ \A v \in Workers \ {w} : wk'[v] = wk[v]
  BY <1>5, <1>6 DEF Types
<1> QED BY <1>6, <1>7 DEF Working, Claims

----------------------------------------------------------------------------
(* A step of one drain about one case.                                     *)

\* What every such step leaves alone.
Frame(w, c) ==
    /\ kind' = kind /\ thread' = thread /\ events' = events
    /\ \A d \in Cases \ {c} :
         msg'[d] = msg[d] /\ gmail'[d] = gmail[d] /\ mails'[d] = mails[d] /\ (d \in told' => d \in told)
    /\ \A v \in Workers \ {w} : wk'[v] = wk[v]
    /\ Claims(w)' \subseteq Claims(w)
    /\ msg'[c].tries = msg[c].tries
    /\ msg[c].resend => msg'[c].resend
    /\ mails'[c].gmail >= mails[c].gmail /\ mails'[c].resend >= mails[c].resend

\* What it must respect of another drain that works on the case.
Spares(v, c) ==
    /\ wk[v].pc \in AfterMark => msg'[c].attempted
    /\ wk[v].pc \in InGmail => gmail'[c] = gmail[c] /\ mails'[c].gmail = mails[c].gmail

\* A step that spares the others, keeps its case and its drain right and takes no
\* Gmail row that another one has, preserves the invariant.
LEMMA FrameStep ==
    ASSUME OutboxInv, NEW w \in Workers, NEW c \in Cases, Types', Frame(w, c),
           CaseOK(c)', DrainOK(w)',
           \A v \in Workers \ {w} : On(v, c) => Spares(v, c),
           wk'[w].pc \in InGmail =>
             /\ wk'[w].case = c /\ Working(w)
             /\ \A v \in Workers \ {w} : ~(On(v, c) /\ wk[v].pc \in InGmail)
    PROVE  OutboxInv'
<1>1. Types /\ \A v \in Workers : DrainOK(v) /\ ClaimsOK(v)
  BY DEF OutboxInv
<1>2. ASSUME NEW d \in Cases PROVE CaseOK(d)'
  <2>1. CASE d = c
    BY <2>1
  <2>2. CASE d # c
    <3>1. CaseOK(d)
      BY DEF OutboxInv
    <3> QED BY <2>2, <3>1
            DEF Frame, CaseOK, Tries, Letters, Ranked, Plain, Threaded, Automatic
  <2> QED BY <2>1, <2>2
<1>3. ASSUME NEW v \in Workers PROVE DrainOK(v)'
  <2>1. CASE v = w
    BY <2>1
  <2>2. CASE v # w /\ ~Working(v)
    BY <2>2 DEF Frame, DrainOK, Working
  <2>3. CASE v # w /\ Working(v) /\ wk[v].case # c
    <3>1. wk[v].case \in Cases \ {c} /\ wk'[v] = wk[v] /\ DrainOK(v)
      BY <1>1, <2>3 DEF Types, Frame
    <3> QED BY <2>3, <3>1 DEF Frame, DrainOK, Working, Plain, Threaded, Automatic
  <2>4. CASE v # w /\ Working(v) /\ wk[v].case = c
    <3>1. /\ wk'[v] = wk[v] /\ DrainOK(v) /\ Spares(v, c)
      BY <1>1, <2>4 DEF Frame, On
    <3>2. /\ mails[c] \in [gmail : Nat, resend : 0..1] /\ mails'[c] \in [gmail : Nat, resend : 0..1]
      BY <1>1 DEF Types
    <3>3. mails[c].resend = 1 => mails'[c].resend = 1
      BY <3>2 DEF Frame
    <3>4. mails[c].gmail + mails[c].resend > 0 => mails'[c].gmail + mails'[c].resend > 0
      BY <3>2 DEF Frame
    <3> QED BY <2>4, <3>1, <3>3, <3>4
            DEF Frame, Spares, DrainOK, Working, Plain, Threaded, Automatic, AfterMark, InGmail
  <2> QED BY <2>1, <2>2, <2>3, <2>4
<1>4. ASSUME NEW v \in Workers PROVE ClaimsOK(v)'
  <2>1. Claims(v)' \subseteq Claims(v)
    BY DEF Frame, Claims, Working
  <2>2. ASSUME NEW r \in Claims(v) PROVE r[1] \in Cases
    BY <1>1, <2>2 DEF Types, Drains, Claims
  <2>3. \A d \in Cases : msg'[d].tries = msg[d].tries
    BY DEF Frame
  <2> QED BY <1>1, <2>1, <2>2, <2>3 DEF ClaimsOK
<1>5. ASSUME NEW u \in Workers, NEW v \in Workers, u # v PROVE Apart(u, v)'
  <2>1. Apart(u, v) /\ Apart(v, u)
    BY <1>5 DEF OutboxInv
  <2>2. Claims(u)' \subseteq Claims(u) /\ Claims(v)' \subseteq Claims(v)
    BY DEF Frame, Claims, Working
  <2>3. (Claims(u) \cap Claims(v) = {})'
    BY <2>1, <2>2 DEF Apart
  <2>4. CASE u # w /\ v # w
    BY <2>1, <2>3, <2>4 DEF Frame, Apart
  <2>5. CASE u = w
    BY <1>5, <2>3, <2>5 DEF Frame, Apart, On, Working, InGmail
  <2>6. CASE v = w
    BY <1>5, <2>3, <2>6 DEF Frame, Apart, On, Working, InGmail
  <2> QED BY <2>4, <2>5, <2>6
<1> QED BY <1>2, <1>3, <1>4, <1>5 DEF OutboxInv

\* What the invariant says of a drain that works, and of its case.
LEMMA OwnFacts ==
    ASSUME OutboxInv, NEW w \in Workers, Working(w)
    PROVE  /\ Types /\ Own(w) \in Cases /\ CaseOK(Own(w)) /\ DrainOK(w)
           /\ msg[Own(w)] \in Message
           /\ mails[Own(w)] \in [gmail : Nat, resend : 0..1]
           /\ wk[w] \in Drains /\ wk[w].token \in 1..MaxTries
           /\ wk[w].token <= msg[Own(w)].tries
<1>1. /\ Types /\ Own(w) \in Cases /\ CaseOK(Own(w)) /\ DrainOK(w) /\ wk[w].token # 0
      /\ wk[w] \in Drains
  BY DEF OutboxInv, Types, Own
<1>2. wk[w].token \in 1..MaxTries
  BY <1>1 DEF Drains, MaxTries
<1>3. <<wk[w].case, wk[w].token>> \in Claims(w)
  BY DEF Claims
<1>4. wk[w].token <= msg[Own(w)].tries
  BY <1>3 DEF OutboxInv, ClaimsOK, Own
<1> QED BY <1>1, <1>2, <1>4 DEF Types

\* No other drain is past the mark of an automatic notice whose last try is this one.
LEMMA Alone ==
    ASSUME OutboxInv, NEW w \in Workers, Working(w), wk[w].token = msg[Own(w)].tries,
           Automatic(Own(w)), NEW v \in Workers \ {w}, On(v, Own(w))
    PROVE  wk[v].pc \notin AfterMark
<1>1. wk[v].pc \in AfterMark => wk[v].token = msg[Own(w)].tries
  BY DEF OutboxInv, DrainOK, On, Own
<1>2. Claims(v) \cap Claims(w) = {}
  BY DEF OutboxInv, Apart
<1>3. <<Own(w), wk[w].token>> \in Claims(w) /\ <<Own(w), wk[v].token>> \in Claims(v)
  BY DEF Claims, On, Own
<1> QED BY <1>1, <1>2, <1>3

\* No other drain has the Gmail row of a drain.
LEMMA RowIsHeld ==
    ASSUME OutboxInv, NEW w \in Workers, wk[w].pc \in InGmail,
           NEW v \in Workers \ {w}, On(v, Own(w))
    PROVE  wk[v].pc \notin InGmail
BY DEF OutboxInv, Apart, On, Own

\* A step that changes no row keeps the invariant if its drain stays right.
LEMMA DrainOnly ==
    ASSUME OutboxInv, NEW w \in Workers, Types',
           UNCHANGED <<kind, msg, gmail, thread, events, mails, told>>,
           \A v \in Workers \ {w} : wk'[v] = wk[v],
           Claims(w)' \subseteq Claims(w), DrainOK(w)',
           wk'[w].pc \in InGmail => wk[w].pc \in InGmail /\ wk'[w].case = wk[w].case
    PROVE  OutboxInv'
<1>1. ASSUME NEW c \in Cases PROVE CaseOK(c)'
  <2>1. CaseOK(c)
    BY DEF OutboxInv
  <2> QED BY <2>1 DEF CaseOK, Tries, Letters, Ranked, Plain, Threaded, Automatic
<1>2. ASSUME NEW v \in Workers PROVE (DrainOK(v) /\ ClaimsOK(v))'
  <2>1. DrainOK(v) /\ ClaimsOK(v)
    BY DEF OutboxInv
  <2>2. CASE v = w
    <3>1. ClaimsOK(v)'
      BY <2>1, <2>2 DEF ClaimsOK
    <3> QED BY <2>2, <3>1
  <2>3. CASE v # w
    <3>1. wk'[v] = wk[v]
      BY <2>3
    <3>2. DrainOK(v)'
      BY <2>1, <3>1 DEF DrainOK, Working, Plain, Threaded, Automatic
    <3>3. Claims(v)' = Claims(v)
      BY <3>1 DEF Claims, Working
    <3> QED BY <2>1, <3>2, <3>3 DEF ClaimsOK
  <2> QED BY <2>2, <2>3
<1>3. ASSUME NEW u \in Workers, NEW v \in Workers, u # v PROVE Apart(u, v)'
  <2>1. Apart(u, v) /\ Apart(v, u)
    BY <1>3 DEF OutboxInv
  <2>2. Claims(u)' \subseteq Claims(u) /\ Claims(v)' \subseteq Claims(v)
    BY DEF Claims, Working
  <2>3. (Claims(u) \cap Claims(v) = {})'
    BY <2>1, <2>2 DEF Apart
  <2>4. ASSUME NEW x \in Workers, wk'[x].pc \in InGmail
        PROVE  wk[x].pc \in InGmail /\ wk'[x].case = wk[x].case
    BY <2>4
  <2> QED BY <2>1, <2>3, <2>4 DEF Apart
<1> QED BY <1>1, <1>2, <1>3 DEF OutboxInv

\* A drain leaves its case and changes no row.
LEMMA LeavesOnly ==
    ASSUME OutboxInv, NEW w \in Workers, Throws(w) \/ NextClaim(w), Types',
           UNCHANGED <<kind, msg, gmail, thread, events, mails, told>>
    PROVE  OutboxInv'
<1>1. /\ ~Working(w)' /\ Claims(w)' \subseteq Claims(w)
      /\ \A v \in Workers \ {w} : wk'[v] = wk[v]
  BY Leaves DEF OutboxInv
<1>2. DrainOK(w)' /\ wk'[w].pc \notin InGmail
  BY <1>1 DEF DrainOK, Working, InGmail
<1> QED BY <1>1, <1>2, DrainOnly

\* A drain gives up its call with a result that claims no letter.
LEMMA GivesOnly ==
    ASSUME OutboxInv, NEW w \in Workers, Working(w), NEW o \in {"failed", "unknown"},
           Gives(w, o), Types', UNCHANGED <<kind, msg, gmail, thread, events, mails, told>>
    PROVE  OutboxInv'
<1>1. wk' = [wk EXCEPT ![w].pc = "finish", ![w].outcome = o]
  BY DEF Gives
<1>2. /\ Working(w)' /\ wk'[w].pc = "finish" /\ wk'[w].outcome = o
      /\ \A v \in Workers \ {w} : wk'[v] = wk[v]
      /\ Claims(w)' = Claims(w)
  BY <1>1, GoesOn DEF OutboxInv, Ended
<1>3. DrainOK(w)' /\ wk'[w].pc \notin InGmail
  BY <1>2 DEF DrainOK, InGmail, AfterMark, InResend
<1> QED BY <1>2, <1>3, DrainOnly

----------------------------------------------------------------------------
(* The steps of a drain.                                                   *)

\* Read: an automatic message is deferred, and a letter claimed, only on evidence.
LEMMA ReadKeeps ==
    ASSUME OutboxInv, NEW w \in Workers, Read(w)
    PROVE  OutboxInv'
<1>1. Types /\ wk[w] \in Drains /\ wk[w].pc = "read"
  BY DEF OutboxInv, Types, Read
<1>2. PICK ref \in wk[w].todo :
        LET c == ref[1]
            m == msg[c]
            mine == [wk[w] EXCEPT !.case = c, !.token = ref[2], !.todo = @ \ {ref}]
            Then(pc, outcome) == wk' = [wk EXCEPT ![w] =
                                           [mine EXCEPT !.pc = pc, !.outcome = outcome]]
        IN \/ ~Current(c) /\ Then("finish", "failed")
           \/ Then("mark_again", IF m.bound THEN "sent" ELSE "unknown")
           \/ Then(IF Off(c) /\ ~m.attempted THEN "defer" ELSE "mark", "failed")
           \/ Throws(w)
  BY Zenon DEF Read
<1> DEFINE c == ref[1]
           t == wk[w].todo \ {ref}
<1>3. /\ c \in Cases /\ ref[2] \in 1..MaxTries /\ ref = <<c, ref[2]>>
      /\ t \in SUBSET (Cases \X (1..MaxTries)) /\ ref \in Claims(w)
  BY <1>1 DEF Drains, Claims
<1>4. UNCHANGED <<kind, msg, gmail, thread, version, contact, events, mails, told, changes, faults>>
  BY DEF Read
<1>5. CASE Throws(w)
  <2>1. Types'
    BY <1>1, <1>4, <1>5, Leaves DEF Types, Working
  <2> QED BY <1>4, <1>5, <2>1, LeavesOnly
<1>6. ASSUME NEW pc \in {"finish", "mark_again", "defer", "mark"}, NEW o \in Ended,
             pc = "defer" => Automatic(c),
             o = "sent" => msg[c].bound,
             wk' = [wk EXCEPT ![w] = [[wk[w] EXCEPT !.case = c, !.token = ref[2],
                                                    !.todo = @ \ {ref}]
                                      EXCEPT !.pc = pc, !.outcome = o]]
      PROVE  OutboxInv'
  <2> DEFINE a == [wk[w] EXCEPT !.case = c]
             b == [a EXCEPT !.token = ref[2]]
             d == [b EXCEPT !.todo = t]
             e == [d EXCEPT !.pc = pc]
             f == [e EXCEPT !.outcome = o]
  <2>1. wk' = [wk EXCEPT ![w] = f]
    BY <1>1, <1>6 DEF Drains
  <2>2. a \in Drains /\ a.case = c
    BY <1>1, <1>3 DEF Drains
  <2> HIDE DEF a
  <2>3. b \in Drains /\ b.case = c /\ b.token = ref[2]
    BY <1>3, <2>2 DEF Drains, MaxTries
  <2> HIDE DEF b
  <2>4. d \in Drains /\ d.case = c /\ d.token = ref[2] /\ d.todo = t
    BY <1>3, <2>3 DEF Drains
  <2> HIDE DEF d
  <2>5. e \in Drains /\ e.case = c /\ e.token = ref[2] /\ e.todo = t /\ e.pc = pc
    BY <2>4 DEF Drains
  <2> HIDE DEF e
  <2>6. /\ f \in Drains /\ f.case = c /\ f.token = ref[2] /\ f.todo = t
        /\ f.pc = pc /\ f.outcome = o
    BY <2>5 DEF Drains
  <2> HIDE DEF f
  <2>7. /\ wk' \in [Workers -> Drains] /\ wk'[w] = f
        /\ \A v \in Workers \ {w} : wk'[v] = wk[v]
    BY <1>1, <2>1, <2>6 DEF Types
  <2>8. Working(w)' /\ pc \notin AfterMark
    BY <2>6, <2>7 DEF Working, AfterMark, InGmail, InResend
  <2>9. Claims(w)' \subseteq Claims(w)
    BY <1>3, <2>6, <2>7 DEF Claims
  <2>10. Types'
    BY <1>1, <1>3, <1>4, <2>6, <2>7 DEF Types, Working
  <2>11. o = "sent" => mails[c].gmail + mails[c].resend > 0
    <3>1. CaseOK(c) /\ mails[c] \in [gmail : Nat, resend : 0..1]
      BY <1>1, <1>3 DEF OutboxInv, Types
    <3> QED BY <1>6, <3>1 DEF CaseOK, Letters
  <2>12. DrainOK(w)' /\ wk'[w].pc \notin InGmail
    BY <1>4, <1>6, <2>6, <2>7, <2>8, <2>11 DEF DrainOK, AfterMark, InGmail, InResend, Automatic
  <2> QED BY <1>4, <2>7, <2>9, <2>10, <2>12, DrainOnly
<1>7. Off(c) => Automatic(c)
  BY DEF Off
<1> QED BY <1>2, <1>5, <1>6, <1>7 DEF Ended

\* Mark: the attempt is recorded by the drain whose claim is the last.
LEMMA MarkKeeps ==
    ASSUME OutboxInv, NEW w \in Workers, wk[w].pc \in {"mark", "mark_again"}, MayMark(w),
           NEW pc \in {"dispatch", "finish"}, NEW o \in Ended, o = "sent" => o = wk[w].outcome,
           msg' = [msg EXCEPT ![Own(w)].attempted = TRUE],
           wk' = [wk EXCEPT ![w].pc = pc, ![w].outcome = o], Types',
           UNCHANGED <<kind, gmail, thread, events, mails, told>>
    PROVE  OutboxInv'
<1>1. Working(w) /\ wk[w].pc \notin InGmail
  BY DEF Working, InGmail
<1> PICK c \in Cases : c = Own(w)
  BY <1>1, OwnFacts
<1> DEFINE m == [msg[c] EXCEPT !.attempted = TRUE]
<1>2. /\ Types /\ CaseOK(c) /\ DrainOK(w) /\ msg[c] \in Message
      /\ wk[w].token \in 1..MaxTries /\ wk[w].token <= msg[c].tries
  BY <1>1, OwnFacts
<1>3. msg[c].state = "claimed" /\ msg[c].token = wk[w].token
  BY DEF MayMark, HoldsClaim
<1>4. wk[w].token = msg[c].tries
  BY <1>2, <1>3 DEF CaseOK, Tries
<1>5. /\ m.state = msg[c].state /\ m.token = msg[c].token /\ m.tries = msg[c].tries
      /\ m.attempted /\ m.resend = msg[c].resend /\ m.bound = msg[c].bound
      /\ m.rank = msg[c].rank /\ m.status = msg[c].status
  BY <1>2 DEF Message
<1>6. /\ msg'[c] = m /\ \A d \in Cases \ {c} : msg'[d] = msg[d]
  BY <1>2 DEF Types
<1> HIDE DEF m
<1>7. /\ Working(w)' /\ wk'[w].pc = pc /\ wk'[w].outcome = o /\ wk'[w].case = c
      /\ wk'[w].token = wk[w].token
      /\ \A v \in Workers \ {w} : wk'[v] = wk[v]
      /\ Claims(w)' = Claims(w)
  BY <1>1, <1>2, GoesOn DEF AfterMark, Own
<1>8. CaseOK(c)'
  BY <1>2, <1>3, <1>4, <1>5, <1>6
     DEF CaseOK, Tries, Letters, Ranked, Plain, Threaded, Automatic, MaxTries
<1>9. DrainOK(w)'
  BY <1>1, <1>2, <1>4, <1>5, <1>6, <1>7
     DEF DrainOK, Own, AfterMark, InGmail, InResend, Automatic
<1>10. Frame(w, c)
  <2>1. mails[c].gmail \in Nat /\ mails[c].resend \in Nat
    BY <1>2 DEF Types
  <2>2. mails'[c].gmail >= mails[c].gmail /\ mails'[c].resend >= mails[c].resend
    BY <2>1
  <2>3. msg'[c].tries = msg[c].tries /\ (msg[c].resend => msg'[c].resend)
    BY <1>5, <1>6
  <2>4. \A d \in Cases \ {c} :
         msg'[d] = msg[d] /\ gmail'[d] = gmail[d] /\ mails'[d] = mails[d] /\ (d \in told' => d \in told)
    BY <1>6
  <2>5. Claims(w)' \subseteq Claims(w)
    BY <1>7
  <2> QED BY <1>7, <2>2, <2>3, <2>4, <2>5 DEF Frame
<1>11. \A v \in Workers \ {w} : On(v, c) => Spares(v, c)
  BY <1>5, <1>6 DEF Spares
<1>12. wk'[w].pc \notin InGmail
  BY <1>7 DEF InGmail
<1> QED BY <1>2, <1>8, <1>9, <1>10, <1>11, <1>12, FrameStep

\* A drain goes on to a step it may take, and changes no row.
LEMMA GoesToOnly ==
    ASSUME OutboxInv, NEW w \in Workers, Working(w), Types',
           NEW pc \in {"defer", "finish"} \cup InResend, To(w, pc),
           UNCHANGED <<kind, msg, gmail, thread, events, mails, told>>,
           pc = "defer" => Automatic(Own(w)),
           pc \in InResend => wk[w].pc \in AfterMark /\ ~Threaded(Own(w)),
           pc \in {"resend", "bind"} => msg[Own(w)].resend,
           pc = "bind" => mails[Own(w)].resend = 1
    PROVE  OutboxInv'
<1>1. pc \in {"mark", "mark_again", "defer", "finish"} \cup AfterMark /\ pc \notin InGmail
  BY DEF AfterMark, InGmail, InResend
<1>2. /\ Types /\ DrainOK(w)
  BY OwnFacts
<1>3. /\ Working(w)' /\ wk'[w].pc = pc /\ wk'[w].outcome = wk[w].outcome
      /\ wk'[w].case = wk[w].case /\ wk'[w].token = wk[w].token
      /\ \A v \in Workers \ {w} : wk'[v] = wk[v]
      /\ Claims(w)' = Claims(w)
  BY <1>1, <1>2, GoesTo
<1>4. DrainOK(w)'
  <2>1. Threaded(Own(w))' = Threaded(Own(w)) /\ Automatic(Own(w))' = Automatic(Own(w))
    BY <1>3 DEF Threaded, Automatic, Own
  <2> QED BY <1>1, <1>2, <1>3, <2>1 DEF DrainOK, Own, AfterMark, InGmail, InResend
<1> QED BY <1>1, <1>3, <1>4, DrainOnly

\* Types survive a step of a drain that keeps the records' types.
LEMMA TypesKept ==
    ASSUME Types, NEW w \in Workers, wk' \in [Workers -> Drains],
           \A v \in Workers \ {w} : wk'[v] = wk[v],
           Working(w)' => wk'[w].case \in Cases /\ wk'[w].token # 0,
           NEW c \in Cases, NEW m \in Message, msg' = msg \/ msg' = [msg EXCEPT ![c] = m],
           gmail' \in [Cases -> {"none", "pending", "sent", "failed", "unknown"}],
           mails' \in [Cases -> [gmail : Nat, resend : 0..1]], told' \subseteq Cases,
           faults' \in 0..MaxFaults,
           UNCHANGED <<kind, thread, version, contact, events, changes>>
    PROVE  Types'
<1>1. msg' \in [Cases -> Message]
  BY DEF Types
<1>2. \A v \in Workers : Working(v)' => wk'[v].case \in Cases /\ wk'[v].token # 0
  BY DEF Types, Working
<1> QED BY <1>1, <1>2 DEF Types

\* The same, when no row changes.
LEMMA TypesSame ==
    ASSUME Types, NEW w \in Workers, Working(w), NEW pc, NEW o \in Ended,
           pc \in {"mark", "mark_again", "defer", "finish"} \cup AfterMark,
           wk' = [wk EXCEPT ![w].pc = pc, ![w].outcome = o], faults' \in 0..MaxFaults,
           UNCHANGED <<kind, msg, gmail, thread, version, contact, events, mails, told, changes>>
    PROVE  Types'
<1>1. /\ wk' \in [Workers -> Drains] /\ wk'[w].case = wk[w].case /\ wk'[w].token = wk[w].token
      /\ \A v \in Workers \ {w} : wk'[v] = wk[v]
  BY GoesOn
<1>2. wk[w].case \in Cases /\ wk[w].token # 0
  BY DEF Types
<1>3. \A v \in Workers : Working(v)' => wk'[v].case \in Cases /\ wk'[v].token # 0
  BY <1>1, <1>2 DEF Types, Working
<1> QED BY <1>1, <1>3 DEF Types

\* An unchanged row is a row written as it was.
LEMMA ToIsGives ==
    ASSUME Types, NEW w \in Workers, NEW pc, To(w, pc)
    PROVE  wk' = [wk EXCEPT ![w].pc = pc, ![w].outcome = wk[w].outcome]
<1>1. wk[w] \in Drains
  BY DEF Types
<1> DEFINE a == [wk[w] EXCEPT !.pc = pc]
           b == [a EXCEPT !.outcome = wk[w].outcome]
<1>2. a = b
  BY <1>1 DEF Drains
<1>3. wk' = [wk EXCEPT ![w] = a]
  BY DEF To
<1> QED BY <1>2, <1>3

\* Mark, with its refusals and its gate.
LEMMA MarkStepKeeps ==
    ASSUME OutboxInv, NEW w \in Workers, Mark(w)
    PROVE  OutboxInv'
<1>1. Types /\ Working(w) /\ UNCHANGED <<kind, gmail, thread, version, contact, events, mails,
                                         told, changes, faults>>
  BY DEF OutboxInv, Mark, Working
<1> PICK c \in Cases : c = Own(w)
  BY <1>1, OwnFacts
<1>2. wk[w].token # 0 /\ wk[w].case = c /\ msg[c] \in Message /\ wk[w].outcome \in Ended
  BY <1>1, OwnFacts DEF Own, Drains
<1>3. CASE Gives(w, "failed") /\ UNCHANGED msg
  <2>1. Types'
    BY <1>1, <1>2, <1>3, GoesOn, TypesKept DEF Gives, Types, Ended
  <2> QED BY <1>1, <1>3, <2>1, GivesOnly
<1>4. CASE Off(c) /\ To(w, "defer") /\ UNCHANGED msg
  <2>1. Types'
    BY <1>1, <1>2, <1>4, GoesTo, TypesKept DEF Types
  <2> QED BY <1>1, <1>4, <2>1, GoesToOnly DEF Off, InResend
<1>5. CASE /\ MayMark(w)
           /\ msg' = [msg EXCEPT ![c].attempted = TRUE]
           /\ To(w, IF wk[w].pc = "mark" THEN "dispatch" ELSE "finish")
  <2>1. PICK pc \in {"dispatch", "finish"} : To(w, pc)
    BY <1>5
  <2>2. wk' = [wk EXCEPT ![w].pc = pc, ![w].outcome = wk[w].outcome]
    BY <1>1, <2>1, ToIsGives
  <2>3. [msg[c] EXCEPT !.attempted = TRUE] \in Message
    BY <1>2 DEF Message
  <2>4. pc \in {"mark", "mark_again", "defer", "finish"} \cup AfterMark
    BY DEF AfterMark
  <2>5. Types'
    BY <1>1, <1>2, <1>5, <2>1, <2>3, <2>4, GoesTo, TypesKept DEF Types
  <2> QED BY <1>1, <1>2, <1>5, <2>2, <2>5, MarkKeeps DEF Mark
<1> QED BY <1>3, <1>4, <1>5, Zenon DEF Mark

\* A drain claims the free Gmail row of a case that is sent through Gmail.
LEMMA GmailIsClaimed ==
    ASSUME OutboxInv, NEW w \in Workers, wk[w].pc = "dispatch", Types',
           UsesGmail(Own(w)), GmailIsFree(Own(w)),
           gmail' = [gmail EXCEPT ![Own(w)] = "pending"],
           NEW pc \in {"gmail", "finish"}, NEW o \in Ended, o = "sent" => o = wk[w].outcome,
           wk' = [wk EXCEPT ![w].pc = pc, ![w].outcome = o],
           UNCHANGED <<kind, msg, thread, events, mails, told>>
    PROVE  OutboxInv'
<1>1. Working(w)
  BY DEF Working
<1> PICK c \in Cases : c = Own(w)
  BY <1>1, OwnFacts
<1>2. /\ Types /\ CaseOK(c) /\ DrainOK(w) /\ wk[w].case = c
  BY <1>1, OwnFacts DEF Own
<1>3. pc \in {"mark", "mark_again", "defer", "finish"} \cup AfterMark
  BY DEF AfterMark, InGmail
<1>4. /\ Working(w)' /\ wk'[w].pc = pc /\ wk'[w].outcome = o /\ wk'[w].case = c
      /\ wk'[w].token = wk[w].token
      /\ \A v \in Workers \ {w} : wk'[v] = wk[v]
      /\ Claims(w)' = Claims(w)
  BY <1>1, <1>2, <1>3, GoesOn
<1>5. gmail'[c] = "pending" /\ \A d \in Cases \ {c} : gmail'[d] = gmail[d]
  BY <1>2 DEF Types
<1>6. /\ ~Plain(c) /\ gmail[c] = "none" /\ mails[c].gmail = 0
  BY <1>2 DEF UsesGmail, GmailIsFree, Plain, CaseOK, Letters
<1>7. CaseOK(c)'
  BY <1>2, <1>5, <1>6
     DEF CaseOK, Tries, Letters, Ranked, Plain, Threaded, Automatic
<1>8. DrainOK(w)'
  BY <1>2, <1>4, <1>5, <1>6
     DEF DrainOK, Working, AfterMark, InGmail, InResend, Automatic, Plain
<1>9. mails[c].gmail \in Nat /\ mails[c].resend \in Nat
  BY <1>2 DEF Types
<1>10. Frame(w, c)
  <2>1. mails'[c].gmail >= mails[c].gmail /\ mails'[c].resend >= mails[c].resend
    BY <1>9
  <2> QED BY <1>4, <1>5, <2>1 DEF Frame
<1>11. ASSUME NEW v \in Workers \ {w}, On(v, c)
       PROVE  Spares(v, c) /\ wk[v].pc \notin InGmail
  <2>1. DrainOK(v)
    BY DEF OutboxInv
  <2> QED BY <1>6, <1>11, <2>1 DEF DrainOK, On, Spares
<1> QED BY <1>1, <1>2, <1>4, <1>7, <1>8, <1>10, <1>11, FrameStep

\* A row whose status is written, and nothing else.
LEMMA StatusIs ==
    ASSUME NEW m \in Message, NEW s \in {"pending", "sent", "failed"}
    PROVE  LET n == [m EXCEPT !.status = s]
           IN /\ n \in Message /\ n.state = m.state /\ n.tries = m.tries /\ n.token = m.token
              /\ n.attempted = m.attempted /\ n.resend = m.resend /\ n.bound = m.bound
              /\ n.rank = m.rank /\ n.status = s
BY DEF Message

\* Dispatch: the transport is chosen by the kind of the message and its conversation.
LEMMA DispatchKeeps ==
    ASSUME OutboxInv, NEW w \in Workers, Dispatch(w)
    PROVE  OutboxInv'
<1>1. Types /\ Working(w) /\ wk[w].pc = "dispatch"
      /\ UNCHANGED <<kind, thread, version, contact, events, mails, told, changes, faults>>
  BY DEF OutboxInv, Dispatch, Working
<1> PICK c \in Cases : c = Own(w)
  BY <1>1, OwnFacts
<1>2. /\ wk[w].token # 0 /\ wk[w].case = c /\ msg[c] \in Message /\ wk[w].outcome \in Ended
      /\ CaseOK(c) /\ DrainOK(w)
  BY <1>1, OwnFacts DEF Own, Drains
<1>3. "defer" \notin InResend /\ "resend_mark" \in InResend /\ "dispatch" \in AfterMark
  BY DEF InResend, AfterMark
<1>4. \A pc \in {"defer", "resend_mark", "gmail", "finish"} :
        pc \in {"mark", "mark_again", "defer", "finish"} \cup AfterMark
  BY DEF InResend, InGmail, AfterMark
<1>5. CASE /\ ~UsesGmail(c) /\ UNCHANGED <<msg, gmail>>
           /\ To(w, IF Off(c) THEN "defer" ELSE "resend_mark")
  <2>1. PICK pc \in {"defer", "resend_mark"} : To(w, pc) /\ (pc = "defer" => Off(c))
    BY <1>5
  <2>2. Types'
    BY <1>1, <1>2, <1>4, <1>5, <2>1, GoesTo, TypesKept DEF Types
  <2>3. ~Threaded(c)
    BY <1>5 DEF UsesGmail, Threaded
  <2> QED BY <1>1, <1>3, <1>5, <2>1, <2>2, <2>3, GoesToOnly DEF Off
<1>6. CASE /\ UsesGmail(c) /\ GmailIsFree(c) /\ UNCHANGED msg
           /\ gmail' = [gmail EXCEPT ![c] = "pending"] /\ To(w, "gmail")
  <2>1. wk' = [wk EXCEPT ![w].pc = "gmail", ![w].outcome = wk[w].outcome]
    BY <1>1, <1>6, ToIsGives
  <2>2. gmail' \in [Cases -> {"none", "pending", "sent", "failed", "unknown"}]
    BY <1>1, <1>6 DEF Types
  <2>3. Types'
    BY <1>1, <1>2, <1>4, <1>6, <2>2, GoesTo, TypesKept DEF Types
  <2> QED BY <1>1, <1>2, <1>6, <2>1, <2>3, GmailIsClaimed
<1>7. CASE Off(c) /\ To(w, "defer") /\ UNCHANGED <<msg, gmail>>
  <2>1. Types'
    BY <1>1, <1>2, <1>4, <1>7, GoesTo, TypesKept DEF Types
  <2> QED BY <1>1, <1>3, <1>7, <2>1, GoesToOnly DEF Off
<1>8. CASE /\ Gives(w, "failed") \/ Gives(w, "unknown")
           /\ UNCHANGED <<msg, gmail>>
  <2>1. PICK o \in {"failed", "unknown"} : Gives(w, o)
    BY <1>8
  <2>2. Types'
    BY <1>1, <1>2, <1>4, <1>8, <2>1, TypesSame DEF Gives, Types, Ended
  <2> QED BY <1>1, <1>8, <2>1, <2>2, GivesOnly
<1>9. CASE /\ gmail[c] = "sent" /\ Gives(w, "sent") /\ UNCHANGED gmail
           /\ msg' = [msg EXCEPT ![c] = IF @.status = "pending"
                                        THEN Guarded(@, [@ EXCEPT !.status = "sent"]) ELSE @]
  <2> DEFINE a == [msg[c] EXCEPT !.status = "sent"]
             b == [a EXCEPT !.status = "failed"]
  <2>1. /\ a \in Message /\ a.state = msg[c].state /\ a.tries = msg[c].tries
        /\ a.token = msg[c].token /\ a.attempted = msg[c].attempted
        /\ a.resend = msg[c].resend /\ a.bound = msg[c].bound /\ a.rank = msg[c].rank
        /\ a.status = "sent"
    BY <1>2, StatusIs
  <2>2. /\ b \in Message /\ b.state = a.state /\ b.tries = a.tries /\ b.token = a.token
        /\ b.attempted = a.attempted /\ b.resend = a.resend /\ b.bound = a.bound
        /\ b.rank = a.rank /\ b.status = "failed"
    BY <2>1, StatusIs
  <2>3. PICK m \in {msg[c], a, b} :
          /\ msg' = [msg EXCEPT ![c] = m]
          /\ m = a => ~(msg[c].resend /\ msg[c].rank >= 4)
    <3>1. Guarded(msg[c], a) = IF msg[c].resend /\ msg[c].rank >= 4 THEN b ELSE a
      BY <2>1 DEF Guarded
    <3> HIDE DEF a, b
    <3>2. CASE msg[c].status # "pending" /\ msg[c] # a
      BY <1>1, <1>9, <3>2 DEF Types
    <3>3. CASE msg[c].status = "pending"
      <4>1. msg' = [msg EXCEPT ![c] = Guarded(msg[c], a)]
        BY <1>9, <3>3 DEF a
      <4>2. a # b
        BY <2>1, <2>2
      <4> QED BY <3>1, <4>1, <4>2
    <3>4. CASE msg[c].status # "pending" /\ msg[c] = a
      <4>1. msg[c].rank >= 4 => FALSE
        BY <1>2, <2>1, <3>4 DEF CaseOK, Ranked
      <4> QED BY <1>1, <1>9, <3>4, <4>1 DEF Types
    <3> QED BY <3>2, <3>3, <3>4
  <2> HIDE DEF a, b
  <2>4. /\ m \in Message /\ m.state = msg[c].state /\ m.tries = msg[c].tries
        /\ m.token = msg[c].token /\ m.attempted = msg[c].attempted
        /\ m.resend = msg[c].resend /\ m.bound = msg[c].bound /\ m.rank = msg[c].rank
        /\ m.resend /\ m.rank >= 4 => m.status = "failed"
    BY <1>2, <2>1, <2>2, <2>3 DEF CaseOK, Ranked
  <2>5. msg'[c] = m /\ \A d \in Cases \ {c} : msg'[d] = msg[d]
    BY <1>1, <2>3 DEF Types
  <2>6. /\ Working(w)' /\ wk'[w].pc = "finish" /\ wk'[w].outcome = "sent"
        /\ wk'[w].case = c /\ wk'[w].token = wk[w].token
        /\ \A v \in Workers \ {w} : wk'[v] = wk[v]
        /\ Claims(w)' = Claims(w) /\ wk' \in [Workers -> Drains]
    BY <1>1, <1>2, <1>4, <1>9, GoesOn DEF Gives, Ended
  <2>7. Types'
    <3>1. /\ gmail' \in [Cases -> {"none", "pending", "sent", "failed", "unknown"}]
          /\ mails' \in [Cases -> [gmail : Nat, resend : 0..1]] /\ told' \subseteq Cases
          /\ faults' \in 0..MaxFaults
      BY <1>1, <1>9 DEF Types
    <3> QED BY <1>1, <1>2, <2>3, <2>4, <2>6, <3>1, TypesKept
  <2>8. mails[c].gmail = 1 /\ mails[c].resend \in Nat
    BY <1>1, <1>2, <1>9 DEF CaseOK, Letters, Types
  <2>9. CaseOK(c)'
    <3>1. m.bound => m.resend
      BY <1>2, <2>4 DEF CaseOK, Letters
    <3>2. m.rank >= 4 => m.rank # 0
      BY <2>4 DEF Message, Ranks
    <3> QED BY <1>1, <1>2, <1>9, <2>4, <2>5, <3>1, <3>2
            DEF CaseOK, Tries, Letters, Ranked, Plain, Threaded, Automatic
  <2>10. DrainOK(w)' /\ wk'[w].pc \notin InGmail
    BY <1>1, <2>6, <2>8 DEF DrainOK, AfterMark, InGmail, InResend
  <2>11. Frame(w, c)
    <3>1. mails'[c].gmail >= mails[c].gmail /\ mails'[c].resend >= mails[c].resend
      BY <1>1, <2>8
    <3>2. msg'[c].tries = msg[c].tries /\ (msg[c].resend => msg'[c].resend)
      BY <2>4, <2>5
    <3> QED BY <1>1, <1>9, <2>5, <2>6, <3>1, <3>2 DEF Frame
  <2>12. ASSUME NEW v \in Workers \ {w}, On(v, c) PROVE Spares(v, c)
    <3>1. DrainOK(v)
      BY DEF OutboxInv
    <3> QED BY <1>1, <1>9, <2>4, <2>5, <2>12, <3>1 DEF DrainOK, On, Spares
  <2> QED BY <2>7, <2>9, <2>10, <2>11, <2>12, FrameStep
<1> QED BY <1>5, <1>6, <1>7, <1>8, <1>9, Zenon DEF Dispatch

\* The gate before Gmail: the drain that has the row of a notice has its claim too.
LEMMA GmailGateKeeps ==
    ASSUME OutboxInv, NEW w \in Workers, GmailGate(w)
    PROVE  OutboxInv'
<1>1. /\ Types /\ Working(w) /\ wk[w].pc = "gmail" /\ wk[w].pc \in InGmail
      /\ wk[w].pc \in AfterMark /\ Off(Own(w)) /\ To(w, "defer")
      /\ UNCHANGED <<kind, thread, version, contact, events, mails, told, changes, faults>>
  BY DEF OutboxInv, GmailGate, Working, AfterMark, InGmail
<1> PICK c \in Cases : c = Own(w)
  BY <1>1, OwnFacts
<1>2. /\ wk[w].token # 0 /\ wk[w].case = c /\ msg[c] \in Message
      /\ mails[c].gmail \in Nat /\ mails[c].resend \in Nat
      /\ CaseOK(c) /\ DrainOK(w) /\ Automatic(c)
  BY <1>1, OwnFacts DEF Own, Off
<1>3. wk[w].token = msg[c].tries /\ ~Plain(c) /\ mails[c].gmail = 0 /\ gmail[c] = "pending"
  BY <1>1, <1>2 DEF DrainOK
<1>4. "defer" \in {"mark", "mark_again", "defer", "finish"} \cup AfterMark
  OBVIOUS
<1>5. /\ wk' \in [Workers -> Drains] /\ Working(w)' /\ wk'[w].pc = "defer"
      /\ wk'[w].outcome = wk[w].outcome /\ wk'[w].case = c /\ wk'[w].token = wk[w].token
      /\ \A v \in Workers \ {w} : wk'[v] = wk[v]
      /\ Claims(w)' = Claims(w)
  BY <1>1, <1>2, <1>4, GoesTo
<1>6. /\ mails' \in [Cases -> [gmail : Nat, resend : 0..1]] /\ told' \subseteq Cases
      /\ faults' \in 0..MaxFaults
      /\ mails'[c].gmail >= mails[c].gmail /\ mails'[c].resend >= mails[c].resend
  BY <1>1, <1>2 DEF Types
<1>7. DrainOK(w)' /\ wk'[w].pc \notin InGmail
  BY <1>1, <1>2, <1>5 DEF DrainOK, AfterMark, InGmail, InResend, Automatic
<1>8. CASE /\ msg[c].status = "pending" /\ msg[c].state = "claimed"
           /\ gmail' = [gmail EXCEPT ![c] = "none"]
           /\ msg' = [msg EXCEPT ![c] = [Requeued(@) EXCEPT !.attempted = FALSE]]
  <2> DEFINE r == Requeued(msg[c])
             m == [r EXCEPT !.attempted = FALSE]
  <2>1. /\ r \in Message /\ r.state = "queued" /\ r.tries = msg[c].tries
        /\ r.resend = msg[c].resend /\ r.bound = msg[c].bound /\ r.rank = msg[c].rank
        /\ r.status = msg[c].status
    BY <1>2, RequeuedIs
  <2> HIDE DEF r
  <2>2. /\ m \in Message /\ m.state = "queued" /\ m.tries = msg[c].tries
        /\ m.resend = msg[c].resend /\ m.bound = msg[c].bound /\ m.rank = msg[c].rank
        /\ m.status = msg[c].status /\ ~m.attempted
    BY <2>1 DEF Message
  <2>3. msg' = [msg EXCEPT ![c] = m]
    BY <1>8 DEF r
  <2> HIDE DEF m
  <2>4. /\ msg'[c] = m /\ \A d \in Cases \ {c} : msg'[d] = msg[d]
        /\ gmail'[c] = "none" /\ \A d \in Cases \ {c} : gmail'[d] = gmail[d]
        /\ gmail' \in [Cases -> {"none", "pending", "sent", "failed", "unknown"}]
    BY <1>1, <1>8, <2>3 DEF Types
  <2>5. Types'
    BY <1>1, <1>2, <1>5, <1>6, <2>2, <2>3, <2>4, TypesKept
  <2>6. ~msg[c].resend /\ mails[c].resend = 0 /\ ~msg[c].bound
    <3>1. Threaded(c)
      BY <1>1, <1>2, <1>3 DEF Threaded, Plain, Automatic, Types, Kinds
    <3>2. mails[c].resend \in 0..1
      BY <1>1 DEF Types
    <3> QED BY <1>2, <3>1, <3>2 DEF CaseOK, Letters
  <2>7. CaseOK(c)'
    BY <1>1, <1>2, <1>3, <2>2, <2>4, <2>6
       DEF CaseOK, Tries, Letters, Ranked, Plain, Threaded, Automatic
  <2>8. Frame(w, c)
    <3>1. msg'[c].tries = msg[c].tries /\ (msg[c].resend => msg'[c].resend)
      BY <2>2, <2>4
    <3> QED BY <1>1, <1>5, <1>6, <2>4, <3>1 DEF Frame
  <2>9. ASSUME NEW v \in Workers \ {w}, On(v, c) PROVE Spares(v, c)
    <3>1. wk[v].pc \notin AfterMark
      BY <1>1, <1>2, <1>3, <2>9, Alone
    <3> QED BY <3>1 DEF Spares, AfterMark
  <2> QED BY <1>7, <2>5, <2>7, <2>8, <2>9, FrameStep
<1>9. CASE gmail' = [gmail EXCEPT ![c] = "failed"] /\ UNCHANGED msg
  <2>1. /\ gmail'[c] = "failed" /\ \A d \in Cases \ {c} : gmail'[d] = gmail[d]
        /\ gmail' \in [Cases -> {"none", "pending", "sent", "failed", "unknown"}]
    BY <1>1, <1>9 DEF Types
  <2>2. Types'
    BY <1>1, <1>2, <1>5, <1>6, <1>9, <2>1, TypesKept
  <2>3. CaseOK(c)'
    BY <1>1, <1>2, <1>3, <1>9, <2>1
       DEF CaseOK, Tries, Letters, Ranked, Plain, Threaded, Automatic
  <2>4. Frame(w, c)
    BY <1>1, <1>5, <1>6, <1>9, <2>1 DEF Frame
  <2>5. ASSUME NEW v \in Workers \ {w}, On(v, c) PROVE Spares(v, c)
    <3>1. wk[v].pc \notin InGmail /\ DrainOK(v)
      BY <1>1, <2>5, RowIsHeld DEF OutboxInv
    <3> QED BY <1>9, <2>5, <3>1 DEF Spares, DrainOK, On
  <2> QED BY <1>7, <2>2, <2>3, <2>4, <2>5, FrameStep
<1> QED BY <1>8, <1>9, Zenon DEF GmailGate

\* Gmail sends the letter of the one drain that has the row.
LEMMA GmailSendKeeps ==
    ASSUME OutboxInv, NEW w \in Workers, NEW handled \in BOOLEAN, NEW a \in Ended,
           GmailSend(w, handled, a)
    PROVE  OutboxInv'
<1>1. /\ Types /\ Working(w) /\ wk[w].pc = "gmail" /\ wk[w].pc \in InGmail
      /\ wk[w].pc \in AfterMark /\ (a = "sent" => handled)
      /\ wk' = [wk EXCEPT ![w].pc = "gmail_record", ![w].outcome = a]
      /\ mails' = IF handled THEN [mails EXCEPT ![Own(w)].gmail = @ + 1] ELSE mails
      /\ UNCHANGED <<kind, msg, gmail, thread, version, contact, events, told, changes>>
  BY DEF OutboxInv, GmailSend, Working, AfterMark, InGmail
<1> PICK c \in Cases : c = Own(w)
  BY <1>1, OwnFacts
<1>2. /\ wk[w].token # 0 /\ wk[w].case = c /\ msg[c] \in Message
      /\ mails[c] \in [gmail : Nat, resend : 0..1]
      /\ CaseOK(c) /\ DrainOK(w)
  BY <1>1, OwnFacts DEF Own
<1>3. /\ ~Plain(c) /\ mails[c].gmail = 0 /\ gmail[c] = "pending" /\ msg[c].attempted
      /\ Automatic(c) => wk[w].token = msg[c].tries
  BY <1>1, <1>2 DEF DrainOK
<1>4. "gmail_record" \in {"mark", "mark_again", "defer", "finish"} \cup AfterMark
  BY DEF AfterMark, InGmail
<1>5. /\ wk' \in [Workers -> Drains] /\ Working(w)' /\ wk'[w].pc = "gmail_record"
      /\ wk'[w].outcome = a /\ wk'[w].case = c /\ wk'[w].token = wk[w].token
      /\ \A v \in Workers \ {w} : wk'[v] = wk[v]
      /\ Claims(w)' = Claims(w)
  BY <1>1, <1>2, <1>4, GoesOn
<1>6. /\ mails' \in [Cases -> [gmail : Nat, resend : 0..1]]
      /\ \A d \in Cases \ {c} : mails'[d] = mails[d]
      /\ mails'[c].resend = mails[c].resend
      /\ mails'[c].gmail = IF handled THEN 1 ELSE 0
  BY <1>1, <1>2, <1>3 DEF Types
<1>7. faults' \in 0..MaxFaults
  <2>1. faults \in Nat /\ MaxFaults \in Nat /\ faults <= MaxFaults
    BY <1>1, OutboxAssumption DEF Types
  <2>2. faults' = faults \/ faults' = faults + 1
    BY DEF GmailSend
  <2>3. faults' <= MaxFaults
    BY <2>1 DEF GmailSend
  <2> QED BY <2>1, <2>2, <2>3
<1>8. Types'
  BY <1>1, <1>2, <1>5, <1>6, <1>7, TypesKept DEF Types
<1>9. CaseOK(c)'
  BY <1>1, <1>2, <1>3, <1>6
     DEF CaseOK, Tries, Letters, Ranked, Plain, Threaded, Automatic
<1>10. mails[c].resend \in Nat
  BY <1>2
<1>11. DrainOK(w)'
  BY <1>1, <1>3, <1>5, <1>6, <1>10
     DEF DrainOK, Plain, AfterMark, InGmail, InResend, Automatic
<1>12. Frame(w, c)
  <2>1. mails'[c].gmail >= mails[c].gmail /\ mails'[c].resend >= mails[c].resend
    BY <1>3, <1>6, <1>10
  <2> QED BY <1>1, <1>5, <1>6, <2>1 DEF Frame
<1>13. ASSUME NEW v \in Workers \ {w}, On(v, c)
       PROVE  Spares(v, c) /\ wk[v].pc \notin InGmail
  <2>1. wk[v].pc \notin InGmail
    BY <1>1, <1>13, RowIsHeld
  <2> QED BY <1>1, <1>3, <2>1 DEF Spares
<1> QED BY <1>1, <1>5, <1>8, <1>9, <1>11, <1>12, <1>13, FrameStep

\* The row of Gmail records what is known of the letter.
LEMMA GmailRecordKeeps ==
    ASSUME OutboxInv, NEW w \in Workers, GmailRecord(w)
    PROVE  OutboxInv'
<1>1. /\ Types /\ Working(w) /\ wk[w].pc = "gmail_record" /\ wk[w].pc \in InGmail
      /\ wk[w].pc \in AfterMark /\ To(w, "finish")
      /\ gmail' = [gmail EXCEPT ![Own(w)] = wk[w].outcome]
      /\ UNCHANGED <<kind, msg, thread, version, contact, events, mails, told, changes, faults>>
  BY DEF OutboxInv, GmailRecord, Working, AfterMark, InGmail
<1> PICK c \in Cases : c = Own(w)
  BY <1>1, OwnFacts
<1>2. /\ wk[w].token # 0 /\ wk[w].case = c /\ msg[c] \in Message /\ wk[w].outcome \in Ended
      /\ mails[c].gmail \in Nat /\ mails[c].resend \in Nat
      /\ CaseOK(c) /\ DrainOK(w)
  BY <1>1, OwnFacts DEF Own, Drains
<1>3. /\ ~Plain(c) /\ (wk[w].outcome = "sent" => mails[c].gmail = 1) /\ msg[c].attempted
  BY <1>1, <1>2 DEF DrainOK
<1>4. "finish" \in {"mark", "mark_again", "defer", "finish"} \cup AfterMark
  OBVIOUS
<1>5. /\ wk' \in [Workers -> Drains] /\ Working(w)' /\ wk'[w].pc = "finish"
      /\ wk'[w].outcome = wk[w].outcome /\ wk'[w].case = c /\ wk'[w].token = wk[w].token
      /\ \A v \in Workers \ {w} : wk'[v] = wk[v]
      /\ Claims(w)' = Claims(w)
  BY <1>1, <1>2, <1>4, GoesTo
<1>6. /\ gmail'[c] = wk[w].outcome /\ \A d \in Cases \ {c} : gmail'[d] = gmail[d]
      /\ gmail' \in [Cases -> {"none", "pending", "sent", "failed", "unknown"}]
  BY <1>1, <1>2 DEF Types, Ended
<1>7. Types'
  BY <1>1, <1>2, <1>5, <1>6, TypesKept DEF Types
<1>8. CaseOK(c)'
  BY <1>1, <1>2, <1>3, <1>6
     DEF CaseOK, Tries, Letters, Ranked, Plain, Threaded, Automatic, Ended
<1>9. DrainOK(w)' /\ wk'[w].pc \notin InGmail
  BY <1>1, <1>2, <1>5 DEF DrainOK, AfterMark, InGmail, InResend
<1>10. Frame(w, c)
  <2>1. mails'[c].gmail >= mails[c].gmail /\ mails'[c].resend >= mails[c].resend
    BY <1>1, <1>2
  <2> QED BY <1>1, <1>5, <1>6, <2>1 DEF Frame
<1>11. ASSUME NEW v \in Workers \ {w}, On(v, c) PROVE Spares(v, c)
  <2>1. wk[v].pc \notin InGmail
    BY <1>1, <1>11, RowIsHeld
  <2> QED BY <1>1, <1>3, <2>1 DEF Spares
<1> QED BY <1>7, <1>8, <1>9, <1>10, <1>11, FrameStep

\* The mark of the transactional provider forgets the rank of an earlier try.
LEMMA ResendMarkKeeps ==
    ASSUME OutboxInv, NEW w \in Workers, ResendMark(w)
    PROVE  OutboxInv'
<1>1. /\ Types /\ Working(w) /\ wk[w].pc = "resend_mark" /\ wk[w].pc \in InResend
      /\ wk[w].pc \in AfterMark
      /\ UNCHANGED <<kind, gmail, thread, version, contact, events, mails, told, changes, faults>>
  BY DEF OutboxInv, ResendMark, Working, AfterMark, InResend
<1> PICK c \in Cases : c = Own(w)
  BY <1>1, OwnFacts
<1>2. /\ wk[w].token # 0 /\ wk[w].case = c /\ msg[c] \in Message /\ wk[w].outcome \in Ended
      /\ mails[c].gmail \in Nat /\ mails[c].resend \in Nat
      /\ CaseOK(c) /\ DrainOK(w)
  BY <1>1, OwnFacts DEF Own, Drains
<1>3. /\ \A pc \in {"defer", "resend"} :
           pc \in {"mark", "mark_again", "defer", "finish"} \cup AfterMark
      /\ "defer" \notin InResend
  BY DEF AfterMark, InResend
<1>4. faults' \in 0..MaxFaults
  BY <1>1 DEF Types
<1>5. CASE Gives(w, "failed") /\ UNCHANGED msg
  <2>1. Types'
    BY <1>1, <1>4, <1>5, TypesSame DEF Gives, Ended
  <2> QED BY <1>1, <1>5, <2>1, GivesOnly
<1>6. CASE Off(c) /\ To(w, "defer") /\ UNCHANGED msg
  <2>1. wk' = [wk EXCEPT ![w].pc = "defer", ![w].outcome = wk[w].outcome]
    BY <1>1, <1>6, ToIsGives
  <2>2. Types'
    BY <1>1, <1>2, <1>3, <1>4, <1>6, <2>1, TypesSame
  <2> QED BY <1>1, <1>3, <1>6, <2>2, GoesToOnly DEF Off
<1>7. CASE /\ msg' = [msg EXCEPT ![c].resend = TRUE, ![c].rank = 0]
           /\ To(w, "resend")
  <2> DEFINE a == [msg[c] EXCEPT !.resend = TRUE]
             m == [a EXCEPT !.rank = 0]
  <2>1. msg' = [msg EXCEPT ![c] = m]
    <3> DEFINE n == [msg EXCEPT ![c].resend = TRUE]
    <3>1. n = [msg EXCEPT ![c] = a] /\ n[c] = a
      BY <1>1 DEF Types
    <3>2. msg' = [n EXCEPT ![c].rank = 0]
      BY <1>7
    <3>3. msg' = [n EXCEPT ![c] = m]
      BY <3>1, <3>2
    <3> QED BY <1>1, <3>1, <3>3 DEF Types
  <2>2. /\ a \in Message /\ a.state = msg[c].state /\ a.tries = msg[c].tries
        /\ a.token = msg[c].token /\ a.attempted = msg[c].attempted /\ a.resend
        /\ a.bound = msg[c].bound /\ a.status = msg[c].status
    BY <1>2 DEF Message
  <2> HIDE DEF a
  <2>3. /\ m \in Message /\ m.state = msg[c].state /\ m.tries = msg[c].tries
        /\ m.token = msg[c].token /\ m.attempted = msg[c].attempted /\ m.resend
        /\ m.bound = msg[c].bound /\ m.status = msg[c].status /\ m.rank = 0
    BY <2>2 DEF Message, Ranks
  <2> HIDE DEF m
  <2>4. msg'[c] = m /\ \A d \in Cases \ {c} : msg'[d] = msg[d]
    BY <1>1, <2>1 DEF Types
  <2>5. /\ wk' \in [Workers -> Drains] /\ Working(w)' /\ wk'[w].pc = "resend"
        /\ wk'[w].outcome = wk[w].outcome /\ wk'[w].case = c /\ wk'[w].token = wk[w].token
        /\ \A v \in Workers \ {w} : wk'[v] = wk[v]
        /\ Claims(w)' = Claims(w)
    BY <1>1, <1>2, <1>3, <1>7, GoesTo
  <2>6. Types'
    BY <1>1, <1>2, <2>1, <2>3, <2>5, TypesKept DEF Types
  <2>7. ~Threaded(c) /\ msg[c].attempted /\ (Automatic(c) => wk[w].token = msg[c].tries)
    BY <1>1, <1>2 DEF DrainOK
  <2>8. CaseOK(c)'
    <3>1. Ranked(c)'
      BY <2>3, <2>4 DEF Ranked
    <3>2. Tries(c)'
      BY <1>1, <1>2, <2>3, <2>4, <2>7 DEF CaseOK, Tries, Automatic
    <3>3. Letters(c)'
      BY <1>1, <1>2, <2>3, <2>4, <2>7 DEF CaseOK, Letters, Plain, Threaded
    <3> QED BY <3>1, <3>2, <3>3 DEF CaseOK
  <2>9. DrainOK(w)' /\ wk'[w].pc \notin InGmail
    BY <1>1, <1>2, <2>3, <2>4, <2>5, <2>7
       DEF DrainOK, AfterMark, InGmail, InResend, Automatic, Threaded
  <2>10. Frame(w, c)
    <3>1. mails'[c].gmail >= mails[c].gmail /\ mails'[c].resend >= mails[c].resend
      BY <1>1, <1>2
    <3>2. msg'[c].tries = msg[c].tries /\ (msg[c].resend => msg'[c].resend)
      BY <2>3, <2>4
    <3> QED BY <1>1, <2>4, <2>5, <3>1, <3>2 DEF Frame
  <2>11. ASSUME NEW v \in Workers \ {w}, On(v, c) PROVE Spares(v, c)
    BY <1>1, <2>3, <2>4, <2>7 DEF Spares
  <2> QED BY <2>6, <2>8, <2>9, <2>10, <2>11, FrameStep
<1> QED BY <1>5, <1>6, <1>7, Zenon DEF ResendMark

\* The transactional provider sends the letter of a marked row, once.
LEMMA ResendSendKeeps ==
    ASSUME OutboxInv, NEW w \in Workers, NEW handled \in BOOLEAN, NEW a \in Ended,
           ResendSend(w, handled, a)
    PROVE  OutboxInv'
<1>1. /\ Types /\ Working(w) /\ wk[w].pc = "resend" /\ wk[w].pc \in InResend
      /\ wk[w].pc \in AfterMark /\ (a = "sent" => handled)
      /\ mails' = IF handled THEN [mails EXCEPT ![Own(w)].resend = 1] ELSE mails
      /\ IF a = "sent" THEN To(w, "bind") ELSE Gives(w, a)
      /\ UNCHANGED <<kind, msg, gmail, thread, version, contact, events, told, changes>>
  BY DEF OutboxInv, ResendSend, Working, AfterMark, InResend
<1> PICK c \in Cases : c = Own(w)
  BY <1>1, OwnFacts
<1>2. /\ wk[w].token # 0 /\ wk[w].case = c /\ msg[c] \in Message /\ wk[w].outcome \in Ended
      /\ mails[c] \in [gmail : Nat, resend : 0..1]
      /\ CaseOK(c) /\ DrainOK(w)
  BY <1>1, OwnFacts DEF Own, Drains
<1>3. /\ ~Threaded(c) /\ msg[c].attempted /\ msg[c].resend
      /\ Automatic(c) => wk[w].token = msg[c].tries
      /\ wk[w].outcome = "sent" => mails[c].gmail + mails[c].resend > 0
  BY <1>1, <1>2 DEF DrainOK
<1>4. PICK pc \in {"bind", "finish"}, o \in Ended :
        /\ wk' = [wk EXCEPT ![w].pc = pc, ![w].outcome = o]
        /\ pc = "bind" => handled
        /\ o = "sent" => o = wk[w].outcome
  <2>1. CASE a = "sent"
    <3>1. wk' = [wk EXCEPT ![w].pc = "bind", ![w].outcome = wk[w].outcome]
      BY <1>1, <2>1, ToIsGives
    <3> QED BY <1>1, <1>2, <2>1, <3>1
  <2>2. CASE a # "sent"
    BY <1>1, <2>2 DEF Gives
  <2> QED BY <2>1, <2>2
<1>5. pc \in {"mark", "mark_again", "defer", "finish"} \cup AfterMark
  BY DEF AfterMark, InResend
<1>6. /\ wk' \in [Workers -> Drains] /\ Working(w)' /\ wk'[w].pc = pc
      /\ wk'[w].outcome = o /\ wk'[w].case = c /\ wk'[w].token = wk[w].token
      /\ \A v \in Workers \ {w} : wk'[v] = wk[v]
      /\ Claims(w)' = Claims(w)
  BY <1>1, <1>2, <1>4, <1>5, GoesOn
<1>7. /\ mails' \in [Cases -> [gmail : Nat, resend : 0..1]]
      /\ \A d \in Cases \ {c} : mails'[d] = mails[d]
      /\ mails'[c].gmail = mails[c].gmail
      /\ mails'[c].resend = IF handled THEN 1 ELSE mails[c].resend
  BY <1>1, <1>2 DEF Types
<1>8. /\ mails[c].gmail \in Nat /\ mails[c].resend \in Nat /\ mails[c].resend <= 1
  BY <1>2
<1>9. faults' \in 0..MaxFaults
  <2>1. faults \in Nat /\ MaxFaults \in Nat /\ faults <= MaxFaults
    BY <1>1, OutboxAssumption DEF Types
  <2>2. faults' = faults \/ faults' = faults + 1
    BY DEF ResendSend
  <2>3. faults' <= MaxFaults
    BY <2>1 DEF ResendSend
  <2> QED BY <2>1, <2>2, <2>3
<1>10. Types'
  <2>1. /\ gmail' \in [Cases -> {"none", "pending", "sent", "failed", "unknown"}]
        /\ told' \subseteq Cases
    BY <1>1 DEF Types
  <2> QED BY <1>1, <1>2, <1>6, <1>7, <1>9, <2>1, TypesKept
<1>11. mails'[c].gmail >= mails[c].gmail /\ mails'[c].resend >= mails[c].resend
  BY <1>7, <1>8
<1>12. mails[c].gmail + mails[c].resend > 0 => mails'[c].gmail + mails'[c].resend > 0
  BY <1>7, <1>8
<1>13. CaseOK(c)'
  <2>1. Letters(c)'
    BY <1>1, <1>2, <1>3, <1>7, <1>8, <1>12 DEF CaseOK, Letters, Plain, Threaded
  <2> QED BY <1>1, <1>2, <2>1 DEF CaseOK, Tries, Ranked, Automatic
<1>14. DrainOK(w)' /\ wk'[w].pc \notin InGmail
  BY <1>1, <1>3, <1>4, <1>6, <1>7, <1>12
     DEF DrainOK, Threaded, AfterMark, InGmail, InResend, Automatic
<1>15. Frame(w, c)
  BY <1>1, <1>6, <1>7, <1>11 DEF Frame
<1>16. ASSUME NEW v \in Workers \ {w}, On(v, c) PROVE Spares(v, c)
  BY <1>1, <1>3, <1>7 DEF Spares
<1> QED BY <1>10, <1>13, <1>14, <1>15, <1>16, FrameStep

\* The acceptance is bound to the row, whether or not the drain learns of it.
LEMMA BindKeeps ==
    ASSUME OutboxInv, NEW w \in Workers, wk[w].pc = "bind", NEW o \in Ended, Gives(w, o),
           msg' = [msg EXCEPT ![Own(w)] = Bound(Own(w))], faults' \in 0..MaxFaults,
           UNCHANGED <<kind, gmail, thread, version, contact, events, mails, told, changes>>
    PROVE  OutboxInv'
<1>1. /\ Types /\ Working(w) /\ wk[w].pc \in InResend /\ wk[w].pc \in AfterMark
  BY DEF OutboxInv, Working, AfterMark, InResend
<1> PICK c \in Cases : c = Own(w)
  BY <1>1, OwnFacts
<1>2. /\ wk[w].token # 0 /\ wk[w].case = c /\ msg[c] \in Message
      /\ mails[c].gmail \in Nat /\ mails[c].resend \in Nat
      /\ CaseOK(c) /\ DrainOK(w) /\ Ranked(c)
  BY <1>1, OwnFacts DEF Own, CaseOK
<1> DEFINE m == Bound(c)
<1>3. /\ m \in Message /\ m.state = msg[c].state /\ m.tries = msg[c].tries
      /\ m.token = msg[c].token /\ m.attempted = msg[c].attempted
      /\ m.resend /\ m.bound /\ m.rank = Max(events[c] \cup {1})
      /\ m.rank >= 4 => m.status = "failed"
  BY <1>1, <1>2, BoundIs
<1> HIDE DEF m
<1>4. msg' = [msg EXCEPT ![c] = m]
  BY DEF m
<1>5. msg'[c] = m /\ \A d \in Cases \ {c} : msg'[d] = msg[d]
  BY <1>1, <1>4 DEF Types
<1>6. /\ ~Threaded(c) /\ msg[c].attempted /\ mails[c].resend = 1
  BY <1>1, <1>2 DEF DrainOK
<1>7. /\ wk' \in [Workers -> Drains] /\ Working(w)' /\ wk'[w].pc = "finish"
      /\ wk'[w].outcome = o /\ wk'[w].case = c /\ wk'[w].token = wk[w].token
      /\ \A v \in Workers \ {w} : wk'[v] = wk[v]
      /\ Claims(w)' = Claims(w)
  BY <1>1, <1>2, GoesOn DEF Gives
<1>8. Types'
  <2>1. /\ gmail' \in [Cases -> {"none", "pending", "sent", "failed", "unknown"}]
        /\ mails' \in [Cases -> [gmail : Nat, resend : 0..1]] /\ told' \subseteq Cases
    BY <1>1 DEF Types
  <2> QED BY <1>1, <1>2, <1>3, <1>4, <1>7, <2>1, TypesKept
<1>9. CaseOK(c)'
  BY <1>1, <1>2, <1>3, <1>5, <1>6
     DEF CaseOK, Tries, Letters, Ranked, Plain, Threaded, Automatic
<1>10. DrainOK(w)' /\ wk'[w].pc \notin InGmail
  BY <1>2, <1>6, <1>7 DEF DrainOK, AfterMark, InGmail, InResend
<1>11. Frame(w, c)
  <2>1. mails'[c].gmail >= mails[c].gmail /\ mails'[c].resend >= mails[c].resend
    BY <1>2
  <2>2. msg'[c].tries = msg[c].tries /\ (msg[c].resend => msg'[c].resend)
    BY <1>3, <1>5
  <2> QED BY <1>5, <1>7, <2>1, <2>2 DEF Frame
<1>12. ASSUME NEW v \in Workers \ {w}, On(v, c) PROVE Spares(v, c)
  BY <1>3, <1>5, <1>6 DEF Spares
<1> QED BY <1>8, <1>9, <1>10, <1>11, <1>12, FrameStep

\* A drain that leaves keeps the types.
LEMMA TypesOfLeaving ==
    ASSUME Types, NEW w \in Workers, Throws(w) \/ NextClaim(w), NEW c \in Cases,
           NEW m \in Message, msg' = msg \/ msg' = [msg EXCEPT ![c] = m],
           told' \subseteq Cases, faults' \in 0..MaxFaults,
           UNCHANGED <<kind, gmail, thread, version, contact, events, mails, changes>>
    PROVE  Types'
<1>1. /\ wk' \in [Workers -> Drains] /\ ~Working(w)'
      /\ \A v \in Workers \ {w} : wk'[v] = wk[v]
  BY Leaves
<1>2. /\ gmail' \in [Cases -> {"none", "pending", "sent", "failed", "unknown"}]
      /\ mails' \in [Cases -> [gmail : Nat, resend : 0..1]]
  BY DEF Types
<1> QED BY <1>1, <1>2, TypesKept

\* A drain leaves its case with the row written, which spares the others.
LEMMA LeavesWritten ==
    ASSUME OutboxInv, NEW w \in Workers, Throws(w) \/ NextClaim(w), NEW c \in Cases,
           NEW m \in Message, msg' = [msg EXCEPT ![c] = m], m.tries = msg[c].tries,
           m.resend = msg[c].resend, CaseOK(c)',
           told' \subseteq told \cup {c}, faults' \in 0..MaxFaults,
           \A v \in Workers \ {w} :
              On(v, c) /\ wk[v].pc \in AfterMark => m.attempted,
           UNCHANGED <<kind, gmail, thread, version, contact, events, mails, changes>>
    PROVE  OutboxInv'
<1>1. Types
  BY DEF OutboxInv
<1>2. Types'
  BY <1>1, TypesOfLeaving DEF Types
<1>3. /\ ~Working(w)' /\ Claims(w)' \subseteq Claims(w)
      /\ \A v \in Workers \ {w} : wk'[v] = wk[v]
  BY <1>1, Leaves
<1>4. msg'[c] = m /\ \A d \in Cases \ {c} : msg'[d] = msg[d]
  BY <1>1 DEF Types
<1>5. DrainOK(w)' /\ wk'[w].pc \notin InGmail
  BY <1>3 DEF DrainOK, Working, InGmail
<1>6. Frame(w, c)
  <2>1. mails[c].gmail \in Nat /\ mails[c].resend \in Nat
    BY <1>1 DEF Types
  <2>2. mails'[c].gmail >= mails[c].gmail /\ mails'[c].resend >= mails[c].resend
    BY <2>1
  <2>3. msg'[c].tries = msg[c].tries /\ (msg[c].resend => msg'[c].resend)
    BY <1>4
  <2> QED BY <1>3, <1>4, <2>2, <2>3 DEF Frame
<1>7. ASSUME NEW v \in Workers \ {w}, On(v, c) PROVE Spares(v, c)
  BY <1>4, <1>7 DEF Spares
<1> QED BY <1>2, <1>5, <1>6, <1>7, FrameStep

\* Bind, or its refusal when the case has a Gmail row.
LEMMA BindStepKeeps ==
    ASSUME OutboxInv, NEW w \in Workers, Bind(w)
    PROVE  OutboxInv'
<1>1. /\ Types /\ Working(w) /\ wk[w].pc = "bind"
      /\ UNCHANGED <<kind, gmail, thread, version, contact, events, mails, told, changes, faults>>
  BY DEF OutboxInv, Bind, Working
<1>2. faults' \in 0..MaxFaults
  BY <1>1 DEF Types
<1>3. CASE Gives(w, "unknown") /\ UNCHANGED msg
  <2>1. Types'
    BY <1>1, <1>2, <1>3, TypesSame DEF Gives, Ended
  <2> QED BY <1>1, <1>3, <2>1, GivesOnly
<1>4. CASE msg' = [msg EXCEPT ![Own(w)] = Bound(Own(w))] /\ Gives(w, "sent")
  BY <1>1, <1>2, <1>4, BindKeeps DEF Ended
<1> QED BY <1>3, <1>4, Zenon DEF Bind

\* Finish: a claim is settled by the drain that has it, as sent only for a letter.
LEMMA FinishKeeps ==
    ASSUME OutboxInv, NEW w \in Workers, Finish(w)
    PROVE  OutboxInv'
<1>1. /\ Types /\ Working(w)
      /\ UNCHANGED <<kind, gmail, thread, version, contact, events, mails, changes, faults>>
  BY DEF OutboxInv, Finish, Working
<1> PICK c \in Cases : c = Own(w)
  BY <1>1, OwnFacts
<1>2. /\ msg[c] \in Message /\ wk[w].outcome \in Ended /\ CaseOK(c) /\ DrainOK(w)
      /\ wk[w].case = c /\ faults' \in 0..MaxFaults /\ told \subseteq Cases
  BY <1>1, OwnFacts DEF Own, Drains, Types
<1>3. CASE (NextClaim(w) \/ Throws(w)) /\ UNCHANGED <<msg, told>>
  <2>1. Types'
    BY <1>1, <1>2, <1>3, TypesOfLeaving
  <2> QED BY <1>1, <1>3, <2>1, LeavesOnly
<1>4. CASE /\ msg' = [msg EXCEPT ![c] = End(@, wk[w].outcome)] /\ NextClaim(w)
           /\ told' = IF wk[w].outcome = "sent" /\ Current(c) THEN told \cup {c} ELSE told
  <2> DEFINE m == End(msg[c], wk[w].outcome)
  <2>1. /\ m \in Message
        /\ m.state = wk[w].outcome /\ m.tries = msg[c].tries
        /\ m.attempted = msg[c].attempted /\ m.resend = msg[c].resend
        /\ m.bound = msg[c].bound /\ m.rank = msg[c].rank
        /\ msg[c].resend /\ msg[c].rank >= 4 => m.status = "failed"
    BY <1>2, EndIs
  <2> HIDE DEF m
  <2>2. msg' = [msg EXCEPT ![c] = m]
    BY <1>4 DEF m
  <2>3. msg'[c] = m
    BY <1>1, <2>2 DEF Types
  <2>4. wk[w].outcome = "sent" => mails[c].gmail + mails[c].resend > 0
    BY <1>1, <1>2 DEF DrainOK
  <2>5. CaseOK(c)'
    <3>1. Letters(c)'
      BY <1>1, <1>2, <1>4, <2>1, <2>3, <2>4 DEF CaseOK, Letters, Plain, Threaded
    <3>2. Tries(c)'
      BY <1>1, <1>2, <2>1, <2>3 DEF CaseOK, Tries, Automatic, Ended
    <3>3. Ranked(c)'
      <4>1. msg[c].rank >= 4 => msg[c].rank # 0
        BY <1>2 DEF Message, Ranks
      <4>2. msg[c].rank >= 4 => msg[c].resend
        BY <1>2, <4>1 DEF CaseOK, Ranked, Letters
      <4> QED BY <1>1, <1>2, <2>1, <2>3, <4>2 DEF CaseOK, Ranked
    <3> QED BY <3>1, <3>2, <3>3 DEF CaseOK
  <2>6. ASSUME NEW v \in Workers \ {w}, On(v, c) /\ wk[v].pc \in AfterMark PROVE m.attempted
    <3>1. DrainOK(v)
      BY DEF OutboxInv
    <3> QED BY <2>1, <2>6, <3>1 DEF DrainOK, On
  <2>7. told' \subseteq told \cup {c}
    BY <1>4
  <2> QED BY <1>1, <1>2, <1>4, <2>1, <2>2, <2>5, <2>6, <2>7, LeavesWritten
<1> QED BY <1>3, <1>4, Zenon DEF Finish

\* Defer: a notice that nobody sent waits again, unattempted.
LEMMA DeferKeeps ==
    ASSUME OutboxInv, NEW w \in Workers, Defer(w)
    PROVE  OutboxInv'
<1>1. /\ Types /\ Working(w) /\ wk[w].pc = "defer"
      /\ UNCHANGED <<kind, gmail, thread, version, contact, events, mails, told, changes, faults>>
  BY DEF OutboxInv, Defer, Working
<1> PICK c \in Cases : c = Own(w)
  BY <1>1, OwnFacts
<1>2. /\ msg[c] \in Message /\ CaseOK(c) /\ DrainOK(w) /\ Automatic(c)
      /\ mails[c] \in [gmail : Nat, resend : 0..1]
      /\ wk[w].case = c /\ faults' \in 0..MaxFaults /\ told \subseteq Cases
  BY <1>1, OwnFacts DEF Own, Types, DrainOK
<1>3. CASE (NextClaim(w) \/ Throws(w)) /\ UNCHANGED msg
  <2>1. Types'
    BY <1>1, <1>2, <1>3, TypesOfLeaving
  <2> QED BY <1>1, <1>3, <2>1, LeavesOnly
<1>4. CASE /\ MayDefer(w) /\ NextClaim(w)
           /\ msg' = [msg EXCEPT ![c] = [Requeued(@) EXCEPT !.attempted = FALSE]]
  <2> DEFINE r == Requeued(msg[c])
             m == [r EXCEPT !.attempted = FALSE]
  <2>1. /\ r \in Message /\ r.state = "queued" /\ r.tries = msg[c].tries
        /\ r.resend = msg[c].resend /\ r.bound = msg[c].bound /\ r.rank = msg[c].rank
        /\ r.status = msg[c].status
    BY <1>2, RequeuedIs
  <2> HIDE DEF r
  <2>2. /\ m \in Message /\ m.state = "queued" /\ m.tries = msg[c].tries
        /\ m.resend = msg[c].resend /\ m.bound = msg[c].bound /\ m.rank = msg[c].rank
        /\ m.status = msg[c].status /\ ~m.attempted
    BY <2>1 DEF Message
  <2>3. msg' = [msg EXCEPT ![c] = m]
    BY <1>4 DEF r
  <2> HIDE DEF m
  <2>4. msg'[c] = m
    BY <1>1, <2>3 DEF Types
  <2>5. /\ ~msg[c].resend /\ gmail[c] = "none" /\ msg[c].state = "claimed"
        /\ msg[c].token = wk[w].token
    BY <1>4 DEF MayDefer, HoldsClaim
  <2>6. wk[w].token = msg[c].tries
    BY <1>2, <2>5 DEF CaseOK, Tries
  <2>7. mails[c].gmail = 0 /\ mails[c].resend = 0 /\ ~msg[c].bound
    BY <1>2, <2>5 DEF CaseOK, Letters
  <2>8. CaseOK(c)'
    BY <1>1, <1>2, <2>2, <2>4, <2>5, <2>7
       DEF CaseOK, Tries, Letters, Ranked, Plain, Threaded, Automatic
  <2>9. \A v \in Workers \ {w} : ~(On(v, c) /\ wk[v].pc \in AfterMark)
    BY <1>1, <1>2, <2>6, Alone
  <2> QED BY <1>1, <1>2, <1>4, <2>2, <2>3, <2>8, <2>9, LeavesWritten
<1> QED BY <1>3, <1>4, Zenon DEF Defer

\* One more fault stays within the bound.
LEMMA OneMoreFault ==
    ASSUME Types, faults < MaxFaults, faults' = faults + 1
    PROVE  faults' \in 0..MaxFaults
BY OutboxAssumption DEF Types

\* A call is done and its answer is lost.
LEMMA AnswerIsLostKeeps ==
    ASSUME OutboxInv, NEW w \in Workers, AnswerIsLost(w)
    PROVE  OutboxInv'
<1>1. /\ Types /\ faults' \in 0..MaxFaults
      /\ UNCHANGED <<kind, thread, version, contact, events, mails, told, changes>>
  BY OneMoreFault DEF OutboxInv, AnswerIsLost
<1>2. CASE /\ wk[w].pc = "mark" /\ MayMark(w)
           /\ msg' = [msg EXCEPT ![Own(w)].attempted = TRUE]
           /\ Gives(w, "failed") /\ UNCHANGED gmail
  <2>1. Working(w)
    BY <1>2 DEF Working
  <2> PICK c \in Cases : c = Own(w)
    BY <2>1, OwnFacts
  <2>2. msg[c] \in Message /\ wk[w].token # 0 /\ wk[w].case = c
    BY <2>1, OwnFacts DEF Own
  <2>3. [msg[c] EXCEPT !.attempted = TRUE] \in Message
    BY <2>2 DEF Message
  <2>4. msg' = [msg EXCEPT ![c] = [msg[c] EXCEPT !.attempted = TRUE]]
    BY <1>2
  <2>5. /\ wk' \in [Workers -> Drains] /\ wk'[w].case = c /\ wk'[w].token = wk[w].token
        /\ \A v \in Workers \ {w} : wk'[v] = wk[v]
    BY <1>1, <1>2, <2>1, <2>2, GoesOn DEF Gives, Ended
  <2>6. /\ gmail' \in [Cases -> {"none", "pending", "sent", "failed", "unknown"}]
        /\ mails' \in [Cases -> [gmail : Nat, resend : 0..1]] /\ told' \subseteq Cases
    BY <1>1, <1>2 DEF Types
  <2>7. Types'
    BY <1>1, <2>2, <2>3, <2>4, <2>5, <2>6, TypesKept
  <2>8. wk' = [wk EXCEPT ![w].pc = "finish", ![w].outcome = "failed"]
    BY <1>2 DEF Gives
  <2> QED BY <1>1, <1>2, <2>7, <2>8, MarkKeeps DEF Ended
<1>3. CASE /\ wk[w].pc = "dispatch" /\ UsesGmail(Own(w)) /\ GmailIsFree(Own(w))
           /\ gmail' = [gmail EXCEPT ![Own(w)] = "pending"]
           /\ Gives(w, "failed") /\ UNCHANGED msg
  <2>1. Working(w)
    BY <1>3 DEF Working
  <2> PICK c \in Cases : c = Own(w)
    BY <2>1, OwnFacts
  <2>2. msg[c] \in Message /\ wk[w].token # 0 /\ wk[w].case = c
    BY <2>1, OwnFacts DEF Own
  <2>3. /\ wk' \in [Workers -> Drains] /\ wk'[w].case = c /\ wk'[w].token = wk[w].token
        /\ \A v \in Workers \ {w} : wk'[v] = wk[v]
    BY <1>1, <1>3, <2>1, <2>2, GoesOn DEF Gives, Ended
  <2>4. /\ gmail' \in [Cases -> {"none", "pending", "sent", "failed", "unknown"}]
        /\ mails' \in [Cases -> [gmail : Nat, resend : 0..1]] /\ told' \subseteq Cases
    BY <1>1, <1>3 DEF Types
  <2>5. Types'
    BY <1>1, <1>3, <2>2, <2>3, <2>4, TypesKept
  <2>6. wk' = [wk EXCEPT ![w].pc = "finish", ![w].outcome = "failed"]
    BY <1>3 DEF Gives
  <2> QED BY <1>1, <1>3, <2>5, <2>6, GmailIsClaimed DEF Ended
<1>4. CASE /\ wk[w].pc = "bind" /\ UNCHANGED gmail
           /\ msg' = [msg EXCEPT ![Own(w)] = Bound(Own(w))]
           /\ Gives(w, "unknown")
  BY <1>1, <1>4, BindKeeps DEF Ended
<1> QED BY <1>2, <1>3, <1>4, Zenon DEF AnswerIsLost

\* A call to the database fails.
LEMMA CallFailsKeeps ==
    ASSUME OutboxInv, NEW w \in Workers, CallFails(w)
    PROVE  OutboxInv'
<1>1. /\ Types /\ faults' \in 0..MaxFaults
      /\ UNCHANGED <<kind, msg, gmail, thread, version, contact, events, mails, told, changes>>
  BY OneMoreFault DEF OutboxInv, CallFails

<1>2. CASE Throws(w)
  <2>1. /\ wk' \in [Workers -> Drains] /\ ~Working(w)'
        /\ \A v \in Workers \ {w} : wk'[v] = wk[v]
    BY <1>1, <1>2, Leaves
  <2>2. \A v \in Workers : Working(v)' => wk'[v].case \in Cases /\ wk'[v].token # 0
    BY <1>1, <2>1 DEF Types, Working
  <2>3. Types'
    BY <1>1, <2>1, <2>2 DEF Types
  <2> QED BY <1>1, <1>2, <2>3, LeavesOnly
<1>3. CASE /\ wk[w].pc \in {"mark", "mark_again", "dispatch", "resend_mark", "bind", "finish"}
           /\ Gives(w, "failed") \/ Gives(w, "unknown")
  <2>1. PICK o \in {"failed", "unknown"} : Gives(w, o)
    BY <1>3
  <2>2. Working(w)
    BY <1>3 DEF Working
  <2>3. Types'
    BY <1>1, <2>1, <2>2, TypesSame DEF Gives, Ended
  <2> QED BY <1>1, <2>1, <2>2, <2>3, GivesOnly
<1>4. CASE wk[w].pc = "gmail_record" /\ wk' = [wk EXCEPT ![w].outcome = "unknown"]
  <2> DEFINE a == [wk[w] EXCEPT !.outcome = "unknown"]
  <2>1. wk[w] \in Drains /\ Working(w) /\ wk[w].case \in Cases /\ wk[w].token # 0 /\ DrainOK(w)
    BY <1>1, <1>4 DEF Types, Working, OutboxInv
  <2>2. /\ a \in Drains /\ a.pc = wk[w].pc /\ a.todo = wk[w].todo /\ a.case = wk[w].case
        /\ a.token = wk[w].token /\ a.outcome = "unknown"
    BY <2>1 DEF Drains, Ended
  <2>3. wk' = [wk EXCEPT ![w] = a]
    BY <1>4
  <2> HIDE DEF a
  <2>4. /\ wk' \in [Workers -> Drains] /\ wk'[w] = a
        /\ \A v \in Workers \ {w} : wk'[v] = wk[v]
    BY <1>1, <2>2, <2>3 DEF Types
  <2>5. Working(w)' /\ Claims(w)' = Claims(w)
    BY <2>1, <2>2, <2>4 DEF Working, Claims
  <2>6. \A v \in Workers : Working(v)' => wk'[v].case \in Cases /\ wk'[v].token # 0
    BY <1>1, <2>1, <2>2, <2>4 DEF Types, Working
  <2>7. Types'
    BY <1>1, <2>4, <2>6 DEF Types
  <2>8. DrainOK(w)'
    BY <1>1, <2>1, <2>2, <2>4 DEF DrainOK, Plain, Threaded, Automatic
  <2>9. wk'[w].pc \in InGmail => wk[w].pc \in InGmail /\ wk'[w].case = wk[w].case
    BY <2>2, <2>4
  <2> QED BY <1>1, <2>4, <2>5, <2>7, <2>8, <2>9, DrainOnly
<1> QED BY <1>2, <1>3, <1>4 DEF CallFails

\* A drain dies.
LEMMA CrashKeeps ==
    ASSUME OutboxInv, NEW w \in Workers, Crash(w)
    PROVE  OutboxInv'
<1>1. /\ Types /\ faults' \in 0..MaxFaults /\ Throws(w)
      /\ UNCHANGED <<kind, msg, gmail, thread, version, contact, events, mails, told, changes>>
  BY OneMoreFault DEF OutboxInv, Crash
<1>2. /\ wk' \in [Workers -> Drains] /\ ~Working(w)'
      /\ \A v \in Workers \ {w} : wk'[v] = wk[v]
  BY <1>1, Leaves
<1>3. \A v \in Workers : Working(v)' => wk'[v].case \in Cases /\ wk'[v].token # 0
  BY <1>1, <1>2 DEF Types, Working
<1>4. Types'
  BY <1>1, <1>2, <1>3 DEF Types
<1> QED BY <1>1, <1>4, LeavesOnly

\* What claiming a reviewed row does to it.
LEMMA ClaimedIs ==
    ASSUME NEW m \in Message, m.tries < MaxTries
    PROVE  LET k == Claimed(m)
           IN /\ k \in Message /\ k.state = "claimed" /\ k.token = m.tries + 1
              /\ k.tries = m.tries + 1 /\ k.attempted = m.attempted /\ k.resend = m.resend
              /\ k.bound = m.bound /\ k.rank = m.rank /\ k.status = m.status
<1> DEFINE t == m.tries + 1
           a == [m EXCEPT !.state = "claimed"]
           b == [a EXCEPT !.token = t]
           k == [b EXCEPT !.tries = t]
<1>1. t \in 0..MaxTries
  BY DEF Message, MaxTries
<1>2. Claimed(m) = k
  BY DEF Claimed, Message
<1> HIDE DEF t
<1>3. /\ a \in Message /\ a.state = "claimed" /\ a.attempted = m.attempted
      /\ a.resend = m.resend /\ a.bound = m.bound /\ a.rank = m.rank /\ a.status = m.status
  BY DEF Message, States
<1> HIDE DEF a
<1>4. /\ b \in Message /\ b.state = a.state /\ b.token = t /\ b.attempted = a.attempted
      /\ b.resend = a.resend /\ b.bound = a.bound /\ b.rank = a.rank /\ b.status = a.status
  BY <1>1, <1>3 DEF Message
<1> HIDE DEF b
<1>5. /\ k \in Message /\ k.state = b.state /\ k.token = b.token /\ k.tries = t
      /\ k.attempted = b.attempted
      /\ k.resend = b.resend /\ k.bound = b.bound /\ k.rank = b.rank /\ k.status = b.status
  BY <1>1, <1>4 DEF Message
<1> HIDE DEF k
<1> QED BY <1>2, <1>3, <1>4, <1>5 DEF t

\* A claim of messages: a notice that another drain has marked is not among them,
\* and the tokens of this claim are newer than all others.
LEMMA ClaimKeeps ==
    ASSUME OutboxInv, NEW w \in Workers, NEW S \in SUBSET Cases, Claim(w, S)
    PROVE  OutboxInv'
<1> DEFINE due == {c \in S : Due(c)}
           taken == {c \in due : Claimable(c)}
<1>1. /\ Types /\ wk[w].pc = "idle"
      /\ \A c \in taken : MayTry(Review(c))
      /\ msg' = [c \in Cases |-> IF c \in taken THEN Claimed(Review(c))
                                 ELSE IF c \in due THEN Review(c) ELSE msg[c]]
      /\ told' = told \cup {c \in due : RecoversSent(c) /\ Current(c)}
      /\ wk' = IF taken = {} THEN wk
               ELSE [wk EXCEPT ![w].pc = "read",
                               ![w].todo = {<<c, Review(c).tries + 1>> : c \in taken}]
      /\ UNCHANGED <<kind, gmail, thread, version, contact, events, mails, changes, faults>>
  BY Zenon DEF Claim, OutboxInv
<1>2. ASSUME NEW c \in Cases
      PROVE  /\ msg'[c] \in Message /\ msg'[c].attempted = msg[c].attempted
             /\ msg'[c].resend = msg[c].resend /\ msg'[c].bound = msg[c].bound
             /\ msg'[c].rank = msg[c].rank
             /\ msg[c].resend /\ msg[c].rank >= 4 =>
                   msg'[c].status = "failed" \/ msg'[c].status = msg[c].status
             /\ c \in taken => /\ msg'[c].state = "claimed"
                               /\ msg'[c].token = msg'[c].tries
                               /\ msg'[c].tries = msg[c].tries + 1
                               /\ ~(Automatic(c) /\ msg[c].attempted)
             /\ c \notin taken => /\ msg'[c].tries = msg[c].tries
                                  /\ msg'[c].state = "claimed" => msg'[c] = msg[c]
                                  /\ msg'[c].state = "queued" =>
                                        msg[c].state = "queued" \/ ~(Automatic(c) /\ msg[c].attempted)
                                  /\ msg'[c].state = "none" => msg[c].state = "none"
                                  /\ msg'[c].state = "sent" =>
                                        msg[c].state = "sent" \/ RecoversSent(c)
  <2>1. msg[c] \in Message /\ Tries(c)
    BY <1>1 DEF Types, OutboxInv, CaseOK
  <2> DEFINE r == Review(c)
  <2>2. /\ r \in Message /\ r.tries = msg[c].tries /\ r.attempted = msg[c].attempted
        /\ r.resend = msg[c].resend /\ r.bound = msg[c].bound /\ r.rank = msg[c].rank
        /\ msg[c].resend /\ msg[c].rank >= 4 => r.status = "failed" \/ r.status = msg[c].status
        /\ r.state = "sent" => msg[c].state = "sent" \/ RecoversSent(c)
        /\ r.state = "queued" => msg[c].state = "queued" \/ ~(Automatic(c) /\ msg[c].attempted)
        /\ r.state = "claimed" => r = msg[c]
        /\ r.state = "none" => msg[c].state = "none"
    BY <1>1, ReviewIs
  <2>3. CASE c \in taken
    <3>1. r.tries < MaxTries /\ r.state = "queued"
      BY <1>1, <2>3 DEF MayTry, Claimable
    <3>2. msg'[c] = Claimed(r)
      BY <1>1, <2>3
    <3> HIDE DEF r, taken, due
    <3> DEFINE k == Claimed(r)
    <3>3. /\ k \in Message /\ k.state = "claimed" /\ k.token = r.tries + 1
          /\ k.tries = r.tries + 1 /\ k.attempted = r.attempted /\ k.resend = r.resend
          /\ k.bound = r.bound /\ k.rank = r.rank /\ k.status = r.status
      BY <2>2, <3>1, ClaimedIs
    <3> HIDE DEF k
    <3>4. ~(Automatic(c) /\ msg[c].attempted)
      BY <2>1, <2>2, <3>1 DEF Tries
    <3> QED BY <2>2, <2>3, <3>2, <3>3, <3>4 DEF k
  <2>4. CASE c \notin taken /\ c \in due
    <3>1. msg'[c] = r
      BY <1>1, <2>4
    <3> HIDE DEF r, taken, due
    <3> QED BY <2>2, <2>4, <3>1
  <2>5. CASE c \notin due
    <3>1. msg'[c] = msg[c] /\ c \notin taken
      BY <1>1, <2>5
    <3> HIDE DEF r, taken, due
    <3> QED BY <2>1, <2>5, <3>1
  <2> QED BY <2>3, <2>4, <2>5
<1>3. \A c \in Cases : c \in told' => c \in told \/ RecoversSent(c)
  BY <1>1
<1>4. \A r \in {<<c, Review(c).tries + 1>> : c \in taken} :
         /\ r[1] \in taken /\ r[1] \in Cases /\ r[2] = msg[r[1]].tries + 1
         /\ r \in Cases \X (1..MaxTries)
  <2>1. ASSUME NEW c \in taken
        PROVE  c \in Cases /\ Review(c).tries = msg[c].tries /\ Review(c).tries + 1 \in 1..MaxTries
    <3>1. c \in Cases
      OBVIOUS
    <3>2. /\ Review(c).tries = msg[c].tries /\ Review(c) \in Message
      BY <1>1, <3>1, ReviewIs
    <3>3. Review(c).tries < MaxTries
      BY <1>1 DEF MayTry
    <3> QED BY <3>1, <3>2, <3>3 DEF Message, MaxTries
  <2> HIDE DEF taken
  <2> QED BY <2>1
<1> HIDE DEF taken, due
<1>5. /\ wk' \in [Workers -> Drains] /\ ~Working(w)' /\ wk'[w].pc \in {"idle", "read"}
      /\ \A v \in Workers \ {w} : wk'[v] = wk[v]
      /\ \A r \in Claims(w)' : \/ r \in Claims(w)
                               \/ r[1] \in taken /\ r[1] \in Cases /\ r[2] = msg[r[1]].tries + 1
  <2>1. wk[w] \in Drains
    BY <1>1 DEF Types
  <2>2. CASE taken = {}
    <3>1. wk' = wk
      BY <1>1, <2>2
    <3> QED BY <1>1, <3>1 DEF Types, Working, Claims
  <2>3. CASE taken # {}
    <3> DEFINE T == {<<c, Review(c).tries + 1>> : c \in taken}
               a == [wk[w] EXCEPT !.pc = "read"]
               b == [a EXCEPT !.todo = T]
    <3>1. wk' = [wk EXCEPT ![w].pc = "read", ![w].todo = T]
      BY <1>1, <2>3
    <3>2. T \in SUBSET (Cases \X (1..MaxTries))
      BY <1>4
    <3> HIDE DEF T
    <3>3. wk' = [wk EXCEPT ![w] = b]
      <4> DEFINE n == [wk EXCEPT ![w].pc = "read"]
      <4>1. n = [wk EXCEPT ![w] = a] /\ n[w] = a
        BY <1>1 DEF Types
      <4>2. wk' = [n EXCEPT ![w].todo = T]
        BY <3>1
      <4>3. wk' = [n EXCEPT ![w] = b]
        BY <4>1, <4>2
      <4> QED BY <1>1, <4>1, <4>3 DEF Types
    <3>4. a \in Drains /\ a.pc = "read"
      BY <2>1 DEF Drains
    <3> HIDE DEF a
    <3>5. b \in Drains /\ b.pc = "read" /\ b.todo = T
      BY <3>2, <3>4 DEF Drains
    <3> HIDE DEF b
    <3>6. /\ wk' \in [Workers -> Drains] /\ wk'[w] = b
          /\ \A v \in Workers \ {w} : wk'[v] = wk[v]
      BY <1>1, <3>3, <3>5 DEF Types
    <3>7. ~Working(w)' /\ Claims(w)' = T
      BY <3>5, <3>6 DEF Working, Claims
    <3> QED BY <1>4, <3>5, <3>6, <3>7 DEF T
  <2> QED BY <2>2, <2>3
<1>6. Types'
  <2>1. msg' \in [Cases -> Message]
    BY <1>1, <1>2
  <2>2. \A v \in Workers : Working(v)' => wk'[v].case \in Cases /\ wk'[v].token # 0
    BY <1>1, <1>5 DEF Types, Working
  <2>3. told' \subseteq Cases
    BY <1>1 DEF Types, due
  <2> QED BY <1>1, <1>5, <2>1, <2>2, <2>3 DEF Types
<1>7. ASSUME NEW c \in Cases PROVE CaseOK(c)'
  <2>1. /\ Tries(c) /\ Letters(c) /\ Ranked(c) /\ msg[c] \in Message
        /\ mails[c] \in [gmail : Nat, resend : 0..1]
    BY <1>1 DEF OutboxInv, CaseOK, Types
  <2>2. msg'[c].tries \in Nat /\ msg[c].tries \in Nat /\ msg'[c].tries >= msg[c].tries
    <3>1. msg[c].tries \in Nat
      BY <2>1 DEF Message, MaxTries
    <3> QED BY <1>2, <3>1
  <2>3. RecoversSent(c) => mails[c].gmail + mails[c].resend > 0
    BY <2>1 DEF RecoversSent, Proof, Letters
  <2>4. Letters(c)'
    BY <1>1, <1>2, <1>3, <2>1, <2>3 DEF Letters, Plain, Threaded
  <2>5. Tries(c)'
    BY <1>1, <1>2, <2>1, <2>2 DEF Tries, Automatic
  <2>6. Ranked(c)'
    <3>1. msg[c].rank >= 4 => msg[c].resend
      BY <2>1 DEF Ranked, Letters, Message, Ranks
    <3> QED BY <1>1, <1>2, <2>1, <3>1 DEF Ranked
  <2> QED BY <2>4, <2>5, <2>6 DEF CaseOK
<1>8. ASSUME NEW v \in Workers PROVE DrainOK(v)'
  <2>1. CASE v = w
    BY <1>5, <2>1 DEF DrainOK
  <2>2. CASE v # w /\ Working(v)
    <3>1. wk'[v] = wk[v] /\ DrainOK(v) /\ wk[v].case \in Cases
      BY <1>1, <1>5, <2>2 DEF OutboxInv, Types
    <3>2. wk[v].pc \in AfterMark /\ Automatic(wk[v].case) => wk[v].case \notin taken
      BY <1>2, <2>2, <3>1 DEF DrainOK
    <3> QED BY <1>1, <1>2, <2>2, <3>1, <3>2
            DEF DrainOK, Working, Plain, Threaded, Automatic
  <2>3. CASE v # w /\ ~Working(v)
    BY <1>5, <2>3 DEF DrainOK, Working
  <2> QED BY <2>1, <2>2, <2>3
<1>9. ASSUME NEW v \in Workers, NEW r \in Claims(v)
      PROVE  r[1] \in Cases /\ r[2] \in Nat /\ r[2] <= msg[r[1]].tries
  <2>1. wk[v] \in Drains /\ (Working(v) => wk[v].case \in Cases) /\ ClaimsOK(v)
    BY <1>1 DEF Types, OutboxInv
  <2>2. r \in wk[v].todo \/ (Working(v) /\ r = <<wk[v].case, wk[v].token>>)
    BY DEF Claims
  <2>3. wk[v].todo \subseteq Cases \X (1..MaxTries) /\ wk[v].token \in 0..MaxTries
    BY <2>1 DEF Drains
  <2>4. r[1] \in Cases /\ r[2] \in Nat
    BY <2>1, <2>2, <2>3 DEF MaxTries
  <2> QED BY <2>1, <2>4 DEF ClaimsOK
<1>10. \A c \in Cases : /\ msg[c].tries \in Nat
                        /\ msg'[c].tries \in {msg[c].tries, msg[c].tries + 1}
                        /\ c \in taken => msg'[c].tries = msg[c].tries + 1
  <2>1. \A c \in Cases : msg[c].tries \in Nat
    BY <1>1 DEF Types, Message, MaxTries
  <2> QED BY <1>2, <2>1
<1>11. ASSUME NEW v \in Workers PROVE ClaimsOK(v)'
  <2>1. CASE v = w
    BY <1>5, <1>9, <1>10, <2>1 DEF ClaimsOK
  <2>2. CASE v # w
    <3>1. Claims(v)' = Claims(v)
      BY <1>5, <2>2 DEF Claims, Working
    <3> QED BY <1>9, <1>10, <3>1 DEF ClaimsOK
  <2> QED BY <2>1, <2>2
<1>12. ASSUME NEW u \in Workers, NEW v \in Workers, u # v PROVE Apart(u, v)'
  <2>1. Apart(u, v) /\ Apart(v, u)
    BY <1>12 DEF OutboxInv
  <2>2. ASSUME NEW x \in Workers, x # w, NEW r \in Claims(x)' PROVE r \notin Claims(w)'
    <3>1. Claims(x)' = Claims(x)
      BY <1>5, <2>2 DEF Claims, Working
    <3>2. Claims(x) \cap Claims(w) = {}
      BY <2>2 DEF OutboxInv, Apart
    <3> QED BY <1>5, <1>9, <1>10, <3>1, <3>2
  <2>3. wk'[w].pc \notin InGmail
    BY <1>5 DEF InGmail
  <2>4. CASE u # w /\ v # w
    BY <1>5, <2>1, <2>4 DEF Apart, Claims, Working
  <2>5. CASE u = w
    BY <1>12, <2>2, <2>3, <2>5 DEF Apart
  <2>6. CASE v = w
    BY <1>12, <2>2, <2>3, <2>6 DEF Apart
  <2> QED BY <2>4, <2>5, <2>6
<1> QED BY <1>6, <1>7, <1>8, <1>11, <1>12 DEF OutboxInv

----------------------------------------------------------------------------
(* The rest of the world.                                                  *)

\* A row changes under the drains, which keeps its tries and its evidence.
LEMMA RowOnly ==
    ASSUME OutboxInv, NEW c \in Cases, NEW m \in Message, msg' = [msg EXCEPT ![c] = m],
           m.tries = msg[c].tries, m.attempted = msg[c].attempted, m.resend = msg[c].resend,
           CaseOK(c)', events' \in [Cases -> SUBSET EventKinds],
           \A d \in Cases \ {c} : events'[d] = events[d],
           UNCHANGED <<kind, gmail, thread, version, contact, wk, mails, told, changes, faults>>
    PROVE  OutboxInv'
<1>1. Types
  BY DEF OutboxInv
<1>2. msg'[c] = m /\ (\A d \in Cases \ {c} : msg'[d] = msg[d]) /\ msg' \in [Cases -> Message]
  BY <1>1 DEF Types
<1>3. Types'
  BY <1>1, <1>2 DEF Types, Working
<1>4. ASSUME NEW d \in Cases PROVE CaseOK(d)'
  <2>1. CASE d # c
    <3>1. CaseOK(d)
      BY DEF OutboxInv
    <3> QED BY <1>2, <2>1, <3>1
            DEF CaseOK, Tries, Letters, Ranked, Plain, Threaded, Automatic
  <2> QED BY <2>1
<1>5. ASSUME NEW v \in Workers PROVE (DrainOK(v) /\ ClaimsOK(v))'
  <2>1. DrainOK(v) /\ ClaimsOK(v)
    BY DEF OutboxInv
  <2>2. \A d \in Cases : /\ msg'[d].tries = msg[d].tries
                         /\ msg'[d].attempted = msg[d].attempted
                         /\ msg'[d].resend = msg[d].resend
    BY <1>2
  <2>3. ASSUME NEW r \in Claims(v) PROVE r[1] \in Cases
    BY <1>1 DEF Types, Drains, Claims
  <2>4. Working(v) => wk[v].case \in Cases
    BY <1>1 DEF Types
  <2>5. DrainOK(v)'
    BY <2>1, <2>2, <2>4 DEF DrainOK, Working, Plain, Threaded, Automatic
  <2>6. Claims(v)' = Claims(v)
    BY DEF Claims, Working
  <2>7. ClaimsOK(v)'
    BY <2>1, <2>2, <2>3, <2>6 DEF ClaimsOK
  <2> QED BY <2>5, <2>7
<1>6. ASSUME NEW u \in Workers, NEW v \in Workers, u # v PROVE Apart(u, v)'
  <2>1. Apart(u, v)
    BY <1>6 DEF OutboxInv
  <2> QED BY <2>1 DEF Apart, Claims, Working
<1> QED BY <1>3, <1>4, <1>5, <1>6 DEF OutboxInv

\* A person or the refund writes the message, once.
LEMMA EnqueueKeeps ==
    ASSUME OutboxInv, NEW c \in Cases, Enqueue(c)
    PROVE  OutboxInv'
<1>1. /\ Types /\ CaseOK(c) /\ msg[c] \in Message /\ msg[c].state = "none"
      /\ version[c] \in 1..(MaxChanges + 1) /\ events' \in [Cases -> SUBSET EventKinds]
      /\ UNCHANGED <<kind, gmail, thread, version, contact, events, wk, mails, told, changes, faults>>
  BY DEF OutboxInv, Enqueue, Types
<1> DEFINE a == [msg[c] EXCEPT !.state = "queued"]
           m == [a EXCEPT !.expects = version[c]]
<1>2. msg' = [msg EXCEPT ![c] = m]
  <2> DEFINE n == [msg EXCEPT ![c].state = "queued"]
  <2>1. n = [msg EXCEPT ![c] = a] /\ n[c] = a
    BY <1>1 DEF Types
  <2>2. msg' = [n EXCEPT ![c].expects = version[c]]
    BY DEF Enqueue
  <2>3. msg' = [n EXCEPT ![c] = m]
    BY <2>1, <2>2
  <2> QED BY <1>1, <2>1, <2>3 DEF Types
<1>3. /\ a \in Message /\ a.state = "queued" /\ a.tries = msg[c].tries
      /\ a.attempted = msg[c].attempted /\ a.resend = msg[c].resend /\ a.bound = msg[c].bound
      /\ a.rank = msg[c].rank /\ a.status = msg[c].status
  BY <1>1 DEF Message, States
<1> HIDE DEF a
<1>4. /\ m \in Message /\ m.state = "queued" /\ m.tries = msg[c].tries
      /\ m.attempted = msg[c].attempted /\ m.resend = msg[c].resend /\ m.bound = msg[c].bound
      /\ m.rank = msg[c].rank /\ m.status = msg[c].status
  BY <1>1, <1>3 DEF Message
<1> HIDE DEF m
<1>5. msg'[c] = m
  BY <1>1, <1>2 DEF Types
<1>6. CaseOK(c)'
  BY <1>1, <1>4, <1>5
     DEF CaseOK, Tries, Letters, Ranked, Plain, Threaded, Automatic
<1> QED BY <1>1, <1>2, <1>4, <1>6, RowOnly

\* A claim grows old.
LEMMA GrowsOldKeeps ==
    ASSUME OutboxInv, NEW c \in Cases, GrowsOld(c)
    PROVE  OutboxInv'
<1>1. /\ Types /\ CaseOK(c) /\ msg[c] \in Message
      /\ events' \in [Cases -> SUBSET EventKinds]
      /\ UNCHANGED <<kind, gmail, thread, version, contact, events, wk, mails, told, changes, faults>>
  BY DEF OutboxInv, GrowsOld, Types
<1> DEFINE m == [msg[c] EXCEPT !.old = TRUE]
<1>2. msg' = [msg EXCEPT ![c] = m]
  BY DEF GrowsOld
<1>3. /\ m \in Message /\ m.state = msg[c].state /\ m.tries = msg[c].tries
      /\ m.token = msg[c].token
      /\ m.attempted = msg[c].attempted /\ m.resend = msg[c].resend /\ m.bound = msg[c].bound
      /\ m.rank = msg[c].rank /\ m.status = msg[c].status
  BY <1>1 DEF Message
<1> HIDE DEF m
<1>4. msg'[c] = m
  BY <1>1, <1>2 DEF Types
<1>5. CaseOK(c)'
  BY <1>1, <1>3, <1>4
     DEF CaseOK, Tries, Letters, Ranked, Plain, Threaded, Automatic
<1> QED BY <1>1, <1>2, <1>3, <1>5, RowOnly

\* An event of the provider arrives, before or after the binding.
LEMMA DeliveryEventKeeps ==
    ASSUME OutboxInv, NEW c \in Cases, NEW k \in EventKinds, DeliveryEvent(c, k)
    PROVE  OutboxInv'
<1> DEFINE e == events[c] \cup {k}
           m == Apply(msg[c], e, k)
<1>1. /\ Types /\ CaseOK(c) /\ msg[c] \in Message
      /\ msg' = [msg EXCEPT ![c] = m]
      /\ events' = [events EXCEPT ![c] = events[c] \cup {k}]
      /\ UNCHANGED <<kind, gmail, thread, version, contact, wk, mails, told, changes, faults>>
  BY DEF OutboxInv, DeliveryEvent, Types
<1>2. /\ events[c] \in SUBSET (1..6) /\ e \in SUBSET (1..6) /\ e # {}
      /\ e \in SUBSET EventKinds
  BY <1>1, OutboxAssumption DEF Types
<1>3. /\ events' \in [Cases -> SUBSET EventKinds] /\ events'[c] = e
      /\ \A d \in Cases \ {c} : events'[d] = events[d]
  BY <1>1, <1>2 DEF Types
<1>4. /\ Max(e) \in e /\ Max(e) \in 1..6 /\ Max(e \cup {1}) = Max(e)
      /\ \A y \in e : Max(e) >= y
  BY <1>2, HighestRank, HighestWithAccepted
<1>5. /\ m \in Message /\ m.state = msg[c].state /\ m.tries = msg[c].tries
      /\ m.token = msg[c].token /\ m.attempted = msg[c].attempted
      /\ m.resend = msg[c].resend /\ m.bound = msg[c].bound
      /\ msg[c].resend /\ msg[c].bound /\ Max(e) >= msg[c].rank
            => m.rank = Max(e) /\ (Max(e) >= 4 => m.status = "failed")
      /\ ~(msg[c].resend /\ msg[c].bound /\ Max(e) >= msg[c].rank) => m = msg[c]
  BY <1>1, <1>2, ApplyIs
<1>6. msg[c].bound => msg[c].resend /\ Max(e) >= msg[c].rank
  <2>1. CASE msg[c].rank = 0
    BY <1>1, <1>4, <2>1 DEF CaseOK, Letters
  <2>2. CASE msg[c].rank # 0 /\ msg[c].bound
    <3>1. events[c] \cup {1} \in SUBSET (1..6) /\ events[c] \cup {1} # {}
      BY <1>2
    <3>2. Max(events[c] \cup {1}) \in events[c] \cup {1}
      BY <3>1, HighestRank
    <3>3. msg[c].rank \in events[c] \cup {1}
      BY <1>1, <2>2, <3>2 DEF CaseOK, Ranked
    <3> QED BY <1>1, <1>4, <2>2, <3>3 DEF CaseOK, Letters
  <2> QED BY <2>1, <2>2
<1>7. msg'[c] = m
  BY <1>1 DEF Types
<1> HIDE DEF m, e
<1>8. CaseOK(c)'
  <2>1. Ranked(c)'
    BY <1>1, <1>3, <1>4, <1>5, <1>6, <1>7 DEF CaseOK, Ranked
  <2>2. Letters(c)' /\ Tries(c)'
    BY <1>1, <1>5, <1>7 DEF CaseOK, Tries, Letters, Plain, Threaded, Automatic
  <2> QED BY <2>1, <2>2 DEF CaseOK
<1> QED BY <1>1, <1>3, <1>5, <1>8, RowOnly

\* The case and the switch change: no row and no drain depends on them.
LEMMA ChangesKeep ==
    ASSUME OutboxInv, (\E c \in Cases : CaseChanges(c)) \/ SwitchContact
    PROVE  OutboxInv'
<1>1. /\ Types /\ UNCHANGED <<kind, msg, gmail, thread, events, wk, mails, told, faults>>
  BY DEF OutboxInv, CaseChanges, SwitchContact
<1>2. Types'
  <2>1. MaxChanges \in Nat /\ changes \in Nat /\ changes' = changes + 1 /\ changes' \in 0..MaxChanges
    BY <1>1, OutboxAssumption DEF Types, CaseChanges, SwitchContact
  <2>2. contact' \in BOOLEAN
    BY <1>1 DEF Types, CaseChanges, SwitchContact
  <2>3. /\ version' \in [Cases -> 1..(MaxChanges + 1)]
        /\ \A d \in Cases : version'[d] <= changes' + 1
    <3>1. CASE UNCHANGED version
      BY <1>1, <2>1, <3>1 DEF Types
    <3>2. ASSUME NEW c \in Cases, CaseChanges(c) PROVE <2>3
      <4>1. \A d \in Cases : version[d] \in Nat /\ version[d] >= 1 /\ version[d] <= changes + 1
        BY <1>1 DEF Types
      <4>2. version' = [version EXCEPT ![c] = version[c] + 1]
        BY <3>2 DEF CaseChanges
      <4>3. \A d \in Cases : version'[d] = IF d = c THEN version[c] + 1 ELSE version[d]
        BY <1>1, <4>2 DEF Types
      <4>4. \A d \in Cases : /\ version'[d] \in 1..(MaxChanges + 1)
                             /\ version'[d] <= changes' + 1
        BY <2>1, <4>1, <4>3
      <4>5. \E S : version \in [Cases -> S]
        BY <1>1 DEF Types
      <4> QED BY <4>2, <4>4, <4>5
    <3> QED BY <3>1, <3>2 DEF SwitchContact
  <2> QED BY <1>1, <2>1, <2>2, <2>3 DEF Types, Working
<1>3. \A c \in Cases : CaseOK(c)'
  BY <1>1 DEF OutboxInv, CaseOK, Tries, Letters, Ranked, Plain, Threaded, Automatic
<1>4. \A v \in Workers : (DrainOK(v) /\ ClaimsOK(v))'
  BY <1>1 DEF OutboxInv, DrainOK, ClaimsOK, Claims, Working, Plain, Threaded, Automatic
<1>5. \A u, v \in Workers : u # v => Apart(u, v)'
  BY <1>1 DEF OutboxInv, Apart, Claims, Working
<1> QED BY <1>2, <1>3, <1>4, <1>5 DEF OutboxInv

\* A conversation that is linked before the first try decides the transport of all tries.
LEMMA LinkThreadKeeps ==
    ASSUME OutboxInv, NEW c \in Cases, LinkThread(c)
    PROVE  OutboxInv'
<1>1. /\ Types /\ CaseOK(c) /\ msg[c] \in Message /\ kind[c] = "manual" /\ thread[c] = "none"
      /\ UNCHANGED <<kind, msg, gmail, version, contact, events, wk, mails, told, changes, faults>>
  BY DEF OutboxInv, LinkThread, Types
<1>2. /\ thread' \in [Cases -> {"none", "early", "late"}]
      /\ \A d \in Cases \ {c} : thread'[d] = thread[d]
      /\ thread'[c] = IF msg[c].tries = 0 THEN "early" ELSE "late"
  BY <1>1 DEF LinkThread, Types
<1>3. Types'
  BY <1>1, <1>2 DEF Types, Working
<1>4. Plain(c) /\ ~Plain(c)' /\ (Threaded(c)' => msg[c].tries = 0)
  BY <1>1, <1>2 DEF Plain, Threaded
<1>5. \A d \in Cases \ {c} : Plain(d)' = Plain(d) /\ Threaded(d)' = Threaded(d)
  BY <1>1, <1>2 DEF Plain, Threaded
<1>6. ASSUME NEW d \in Cases PROVE CaseOK(d)'
  <2>1. CaseOK(d)
    BY DEF OutboxInv
  <2>2. CASE d = c
    BY <1>1, <1>4, <2>2 DEF CaseOK, Tries, Letters, Ranked, Automatic
  <2>3. CASE d # c
    BY <1>1, <1>5, <2>1, <2>3 DEF CaseOK, Tries, Letters, Ranked, Automatic
  <2> QED BY <2>2, <2>3
<1>7. ASSUME NEW v \in Workers PROVE DrainOK(v)'
  <2>1. CASE ~Working(v)
    BY <1>1, <2>1 DEF DrainOK, Working
  <2>2. CASE Working(v)
    <3>1. /\ DrainOK(v) /\ wk[v].case \in Cases /\ wk[v].token \in 1..MaxTries
          /\ wk[v].token <= msg[wk[v].case].tries
      BY <2>2, OwnFacts DEF Own
    <3>2. wk[v].case = c => ~Threaded(c)'
      BY <1>4, <3>1 DEF MaxTries
    <3>3. Automatic(wk[v].case)' = Automatic(wk[v].case)
      BY <1>1 DEF Automatic
    <3>4. CASE wk[v].case = c
      BY <1>1, <1>4, <2>2, <3>1, <3>2, <3>3, <3>4 DEF DrainOK, Working
    <3>5. CASE wk[v].case # c
      BY <1>1, <1>5, <2>2, <3>1, <3>3, <3>5 DEF DrainOK, Working
    <3> QED BY <3>4, <3>5
  <2> QED BY <2>1, <2>2
<1>8. \A v \in Workers : ClaimsOK(v)'
  BY <1>1 DEF OutboxInv, ClaimsOK, Claims, Working
<1>9. \A u, v \in Workers : u # v => Apart(u, v)'
  BY <1>1 DEF OutboxInv, Apart, Claims, Working
<1> QED BY <1>3, <1>6, <1>7, <1>8, <1>9 DEF OutboxInv

----------------------------------------------------------------------------
(* Theorems.                                                               *)

\* Nothing is written, claimed or sent at first.
LEMMA InitHolds == OutboxInit => OutboxInv
<1> SUFFICES ASSUME OutboxInit PROVE OutboxInv
  OBVIOUS
<1>1. NoMessage \in Message
  BY OutboxAssumption DEF NoMessage, Message, States, Ranks, MaxTries
<1>2. Idle \in Drains /\ Idle.pc = "idle" /\ Idle.todo = {}
  BY DEF Idle, Drains, Ended, MaxTries
<1>3. Types
  BY <1>1, <1>2, OutboxAssumption DEF Types, OutboxInit, Working
<1>4. ASSUME NEW c \in Cases PROVE CaseOK(c)
  <2>1. /\ msg[c] = NoMessage /\ mails[c] = [gmail |-> 0, resend |-> 0]
        /\ gmail[c] = "none" /\ told = {}
    BY DEF OutboxInit
  <2> QED BY <2>1 DEF CaseOK, Tries, Letters, Ranked, NoMessage
<1>5. ASSUME NEW w \in Workers PROVE DrainOK(w) /\ ClaimsOK(w) /\ Claims(w) = {}
  BY <1>2 DEF OutboxInit, DrainOK, ClaimsOK, Claims, Working
<1>6. ASSUME NEW v \in Workers, NEW w \in Workers, v # w PROVE Apart(v, w)
  BY <1>2, <1>5 DEF OutboxInit, Apart, InGmail
<1> QED BY <1>3, <1>4, <1>5, <1>6 DEF OutboxInv

\* Each step of the outbox keeps the invariant.
LEMMA StepHolds == OutboxInv /\ [OutboxNext]_outboxVars => OutboxInv'
<1> SUFFICES ASSUME OutboxInv, [OutboxNext]_outboxVars PROVE OutboxInv'
  OBVIOUS
<1>1. ASSUME NEW w \in Workers, WorkerStep(w) PROVE OutboxInv'
  <2>1. CASE \E handled \in BOOLEAN, a \in {"sent", "failed", "unknown"} :
               GmailSend(w, handled, a) \/ ResendSend(w, handled, a)
    BY <2>1, GmailSendKeeps, ResendSendKeeps DEF Ended
  <2> QED BY <1>1, <2>1, ReadKeeps, MarkStepKeeps, DispatchKeeps, GmailGateKeeps,
             GmailRecordKeeps, ResendMarkKeeps, BindStepKeeps, FinishKeeps, DeferKeeps
          DEF WorkerStep
<1>2. ASSUME NEW w \in Workers, AnswerIsLost(w) \/ CallFails(w) \/ Crash(w) \/ Sweep(w)
      PROVE  OutboxInv'
  BY <1>2, AnswerIsLostKeeps, CallFailsKeeps, CrashKeeps, ClaimKeeps DEF Sweep
<1>3. ASSUME NEW w \in Workers, NEW c \in Cases, Claim(w, {c}) PROVE OutboxInv'
  <2>1. {c} \in SUBSET Cases
    OBVIOUS
  <2> QED BY <1>3, <2>1, ClaimKeeps
<1>4. ASSUME NEW c \in Cases, Enqueue(c) \/ GrowsOld(c) \/ CaseChanges(c) \/ LinkThread(c)
      PROVE  OutboxInv'
  BY <1>4, EnqueueKeeps, GrowsOldKeeps, ChangesKeep, LinkThreadKeeps
<1>5. ASSUME NEW c \in Cases, NEW k \in EventKinds, DeliveryEvent(c, k) PROVE OutboxInv'
  BY <1>5, DeliveryEventKeeps
<1>6. CASE SwitchContact
  BY <1>6, ChangesKeep
<1>7. CASE UNCHANGED outboxVars
  <2>1. UNCHANGED <<kind, msg, gmail, thread, version, contact, events, wk, mails, told,
                    changes, faults>>
    BY <1>7 DEF outboxVars
  <2>2. Types'
    BY <2>1 DEF OutboxInv, Types, Working
  <2>3. \A c \in Cases : CaseOK(c)'
    BY <2>1 DEF OutboxInv, CaseOK, Tries, Letters, Ranked, Plain, Threaded, Automatic
  <2>4. \A v \in Workers : (DrainOK(v) /\ ClaimsOK(v))'
    BY <2>1 DEF OutboxInv, DrainOK, ClaimsOK, Claims, Working, Plain, Threaded, Automatic
  <2>5. \A u, v \in Workers : u # v => Apart(u, v)'
    BY <2>1 DEF OutboxInv, Apart, Claims, Working
  <2> QED BY <2>2, <2>3, <2>4, <2>5 DEF OutboxInv
<1> QED BY <1>1, <1>2, <1>3, <1>4, <1>5, <1>6, <1>7 DEF OutboxNext

\* The invariant holds in every state of every behaviour.
THEOREM OutboxInvariant == OutboxSpec => []OutboxInv
<1> QED BY InitHolds, StepHolds, PTL DEF OutboxSpec

\* Columns and drains keep their types, and no message is tried a fourth time.
THEOREM OutboxTypesHold == OutboxSpec => []OutboxTypeOK
<1>1. OutboxInv => OutboxTypeOK
  <2> SUFFICES ASSUME OutboxInv PROVE OutboxTypeOK
    OBVIOUS
  <2>1. Types
    BY DEF OutboxInv
  <2>2. \A w \in Workers : wk[w].outcome \in Ended /\ wk[w].token \in 0..MaxTries
    BY <2>1 DEF Types, Drains
  <2>3. \A c \in Cases : mails[c].gmail \in Nat /\ mails[c].resend \in 0..1
    BY <2>1 DEF Types
  <2> QED BY <2>1, <2>2, <2>3 DEF Types, OutboxTypeOK
<1> QED BY <1>1, OutboxInvariant, PTL

\* A customer gets a message once, through whichever transport, unless a
\* conversation was linked between two tries.
THEOREM LettersGoOutOnce == OutboxSpec => []OneMail
<1>1. OutboxInv => OneMail
  <2> SUFFICES ASSUME OutboxInv, NEW c \in Cases
               PROVE  /\ mails[c].gmail <= 1
                      /\ thread[c] # "late" => mails[c].gmail + mails[c].resend <= 1
    BY DEF OneMail
  <2>1. /\ Letters(c) /\ mails[c] \in [gmail : Nat, resend : 0..1]
        /\ kind[c] \in {"manual", "automatic", "in_thread"}
        /\ thread[c] \in {"none", "early", "late"}
    BY DEF OutboxInv, CaseOK, Types, Kinds
  <2>2. thread[c] # "late" => Plain(c) \/ Threaded(c)
    BY <2>1 DEF Plain, Threaded
  <2>3. Plain(c) => mails[c].gmail = 0
    BY <2>1 DEF Letters
  <2>4. Threaded(c) => mails[c].resend = 0
    BY <2>1 DEF Letters
  <2>5. mails[c].gmail \in Nat /\ mails[c].gmail <= 1 /\ mails[c].resend \in 0..1
    BY <2>1 DEF Letters
  <2> QED BY <2>2, <2>3, <2>4, <2>5
<1> QED BY <1>1, OutboxInvariant, PTL

\* A message without a recorded attempt was never sent: to cancel it or to queue
\* it again loses and repeats nothing.
THEOREM UnattemptedIsSafe == OutboxSpec => []UnattemptedIsUnsent
<1>1. OutboxInv => UnattemptedIsUnsent
  BY DEF OutboxInv, CaseOK, Letters, UnattemptedIsUnsent
<1> QED BY <1>1, OutboxInvariant, PTL

\* What counts as sent, and what a case records as told, reached a provider.
THEOREM SentIsTrue == OutboxSpec => []SentWasSent
<1>1. OutboxInv => SentWasSent
  BY DEF OutboxInv, CaseOK, Letters, SentWasSent
<1> QED BY <1>1, OutboxInvariant, PTL

\* The delivery state of a bound message is the worst that was reported, in
\* whatever order events and binding come.
THEOREM WorstEventDecides == OutboxSpec => []EventsDecide
<1>1. OutboxInv => EventsDecide
  BY DEF OutboxInv, CaseOK, Ranked, EventsDecide
<1> QED BY <1>1, OutboxInvariant, PTL
=============================================================================
