----------------------- MODULE GiftCardSupplyProofs ------------------------
(***************************************************************************)
(* Theorems about the refill of gift-card codes, for every set of pools,   *)
(* accounts and overlapping runs, whether or not batches carry names: a    *)
(* batch that was made is never lost from the books, no account has two    *)
(* creations under way, and an uncertain creation ends only by importing   *)
(* its batch.                                                              *)
(*                                                                         *)
(* The argument is about who may create.  Only one run ever creates for an *)
(* attempt, the one that made it; whatever it does before its request      *)
(* leaves the provider as it was, so that it may call the attempt failed.  *)
(* Once another run has taken the attempt over as unknown, the creator no  *)
(* longer holds its claim and cannot settle it.                            *)
(***************************************************************************)
EXTENDS GiftCardSupply, FiniteSetTheorems, TLAPS

\* Nothing was asked of the provider for an attempt, or it was refused or lost.
NoneMade(r) == \A x \in calls \cup made : x.refill # r

\* A run that works on an attempt, and one that works on the attempt it made
\* itself and has not yet said anything but "failed" about it.
InHand(x) == x.at \notin {"idle", "rollover", "claim"}
Creator(x) == \/ x.at \in {"prepare", "begin", "create", "wait", "verify"}
              \/ x.at = "finish" /\ x.outcome = "failed"

\* The state is in its types and the provider's list is finite.
Types == SupplyTypeOK /\ IsFiniteSet(made)

\* An attempt that was not submitted, or that failed, has cost nothing.
AttemptOK(r) == refills[r].status \in {"none", "preparing", "failed"} => NoneMade(r)

\* A call belongs to an attempt that is submitted or uncertain ...
CallOK(c) == /\ c.refill \in RefillIds
             /\ refills[c.refill].status \in {"submitting", "unknown"}
             /\ c.account = Account[refills[c.refill].pool]

\* ... and a batch to one that is open or has imported it.
BatchOK(b) == b.refill # 0 =>
    /\ b.account = Account[refills[b.refill].pool]
    /\ \/ Active(b.refill)
       \/ /\ refills[b.refill].status = "complete"
          /\ [batch |-> b, pool |-> refills[b.refill].pool] \in codes

\* An attempt asks for one batch only.
MadeOnce ==
    /\ \A c, d \in calls : c.refill = d.refill => c = d
    /\ \A b, d \in made : b.refill = d.refill /\ b.refill # 0 => b = d
    /\ \A c \in calls, b \in made : c.refill # b.refill

\* One attempt is open in an account.
OneOpen == \A r, s \in RefillIds :
    Active(r) /\ Active(s) /\ Account[refills[r].pool] = Account[refills[s].pool] => r = s

\* What a run may rely on at each of its steps.
Unasked(w, x) ==
    x.at \in {"prepare", "begin"} =>
        /\ NoneMade(x.refill)
        /\ \/ refills[x.refill].status = "failed"
           \/ refills[x.refill].status = "preparing" /\ refills[x.refill].token = w
Asking(x) ==
    x.at = "create" =>
        NoneMade(x.refill) /\ refills[x.refill].status \in {"submitting", "unknown"}
Comparing(x) ==
    x.at \in {"begin", "create", "wait", "verify"} => \A b \in x.baseline : b.refill # x.refill
Verifying(w, x) ==
    x.at = "verify" => \E b \in made : b.refill = x.refill /\ b.by = w
Concluding(x) ==
    x.at = "finish" =>
        /\ x.outcome # "none"
        /\ x.outcome = "failed" => NoneMade(x.refill)
        /\ x.outcome = "complete" => \E b \in made : b.refill = x.refill /\ x.found = {b}
RunOK(w, x) ==
    InHand(x) =>
        /\ x.refill \in RefillIds
        /\ refills[x.refill].status # "none"
        /\ Unasked(w, x) /\ Asking(x) /\ Comparing(x) /\ Verifying(w, x) /\ Concluding(x)
        /\ Creator(x) => ~(refills[x.refill].status = "unknown" /\ refills[x.refill].token = w)

\* An attempt has one creator.
OneCreator ==
    \A v, w \in RefillWorkers :
        Creator(runs[v]) /\ Creator(runs[w]) /\ runs[v].refill = runs[w].refill => v = w

\* The inductive invariant: types, books, and what the runs rely on.
Books ==
    /\ \A r \in RefillIds : AttemptOK(r)
    /\ \A c \in calls : CallOK(c)
    /\ \A b \in made : BatchOK(b)
    /\ MadeOnce
    /\ OneOpen
Hands == (\A w \in RefillWorkers : RunOK(w, runs[w])) /\ OneCreator
SupplyInv == Types /\ Books /\ Hands

----------------------------------------------------------------------------
(* Where the writes to a run and to an attempt lead.                       *)

\* Only one run moves; only one attempt moves, in its pool.
OneRun(w) == /\ runs' \in [RefillWorkers -> Run]
             /\ \A v \in RefillWorkers : v # w => runs'[v] = runs[v]
OneAttempt(r) == /\ refills' \in [RefillIds -> Refill]
                 /\ \A s \in RefillIds : s # r => refills'[s] = refills[s]

\* A run that only goes on to another place keeps what it holds.
LEMMA Goes ==
    ASSUME runs \in [RefillWorkers -> Run], NEW w \in RefillWorkers,
           NEW at \in {"claim", "create", "wait", "verify", "finish_unknown"},
           runs' = Goto(w, at)
    PROVE  /\ OneRun(w)
           /\ runs'[w].at = at /\ runs'[w].refill = runs[w].refill
           /\ runs'[w].baseline = runs[w].baseline
<1>1. runs[w] \in Run
    OBVIOUS
<1> DEFINE x == [runs[w] EXCEPT !.at = at]
<1>2. x \in Run /\ x.at = at /\ x.refill = runs[w].refill /\ x.baseline = runs[w].baseline
    BY <1>1 DEF Run
<1>3. runs' = [runs EXCEPT ![w] = x]
    BY DEF Goto
<1> HIDE DEF x
<1> QED BY <1>2, <1>3 DEF OneRun

\* A run that concludes carries its outcome and what it found.
LEMMA Conclusion ==
    ASSUME runs \in [RefillWorkers -> Run], NEW w \in RefillWorkers,
           NEW outcome \in {"complete", "failed", "unknown"}, NEW found \in SUBSET Batch,
           Concludes(w, outcome, found)
    PROVE  /\ OneRun(w)
           /\ runs'[w].at = "finish" /\ runs'[w].refill = runs[w].refill
           /\ runs'[w].outcome = outcome /\ runs'[w].found = found
<1>1. runs[w] \in Run
    OBVIOUS
<1> DEFINE x == [runs[w] EXCEPT !.at = "finish"]
           y == [x EXCEPT !.outcome = outcome]
           z == [y EXCEPT !.found = found]
<1>2. x \in Run /\ x.at = "finish" /\ x.refill = runs[w].refill
    BY <1>1 DEF Run
<1>3. runs' = [runs EXCEPT ![w] = z]
    BY DEF Concludes
<1> HIDE DEF x
<1>4. y \in Run /\ y.at = "finish" /\ y.refill = runs[w].refill /\ y.outcome = outcome
    BY <1>2 DEF Run
<1> HIDE DEF y
<1>5. /\ z \in Run /\ z.at = "finish" /\ z.refill = runs[w].refill
      /\ z.outcome = outcome /\ z.found = found
    BY <1>4 DEF Run
<1> HIDE DEF z
<1> QED BY <1>3, <1>5 DEF OneRun

\* A run that lets go of its attempt, ends or dies has nothing in hand.
LEMMA LetsGo ==
    ASSUME runs \in [RefillWorkers -> Run], NEW w \in RefillWorkers,
           \/ runs' = NextClaim(w)
           \/ runs' = [runs EXCEPT ![w] = IdleRun]
    PROVE  OneRun(w) /\ ~InHand(runs'[w])
<1>1. runs[w].excluded \in SUBSET RefillIds
    BY DEF Run
<1>2. IdleRun \in Run /\ IdleRun.at = "idle"
    BY DEF IdleRun, Run
<1> DEFINE x == [IdleRun EXCEPT !.at = "claim"]
           y == [x EXCEPT !.excluded = runs[w].excluded]
<1>3. x \in Run /\ x.at = "claim"
    BY <1>2 DEF Run
<1> HIDE DEF x
<1>4. y \in Run /\ y.at = "claim"
    BY <1>1, <1>3 DEF Run
<1>5. NextClaim(w) = [runs EXCEPT ![w] = y]
    BY DEF NextClaim, x
<1> HIDE DEF y
<1> QED BY <1>2, <1>4, <1>5 DEF OneRun, InHand

\* A claim puts an attempt into the hands of the run.
LEMMA ClaimGives ==
    ASSUME Types, NEW w \in RefillWorkers, NEW r \in RefillIds, NEW p \in SupplyPools,
           NEW at \in {"prepare", "reconcile"}, Claims(w, r, p, at)
    PROVE  OneRun(w) /\ runs'[w].at = at /\ runs'[w].refill = r
<1>1. /\ runs[w].excluded \in SUBSET RefillIds /\ pools[p].term \in Nat
      /\ runs \in [RefillWorkers -> Run]
    BY DEF Types, SupplyTypeOK, Run
<1>2. IdleRun \in Run
    BY DEF IdleRun, Run
<1> DEFINE a == [IdleRun EXCEPT !.at = at]
           b == [a EXCEPT !.refill = r]
           c == [b EXCEPT !.term = pools[p].term]
           d == [c EXCEPT !.excluded = runs[w].excluded \cup {r}]
<1>3. a \in Run /\ a.at = at
    BY <1>2 DEF Run
<1>4. runs' = [runs EXCEPT ![w] = d]
    BY DEF Claims
<1> HIDE DEF a
<1>5. b \in Run /\ b.at = at /\ b.refill = r
    BY <1>3 DEF Run
<1> HIDE DEF b
<1>6. c \in Run /\ c.at = at /\ c.refill = r
    BY <1>1, <1>5 DEF Run
<1> HIDE DEF c
<1>7. d \in Run /\ d.at = at /\ d.refill = r
    BY <1>1, <1>6 DEF Run
<1> HIDE DEF d
<1> QED BY <1>1, <1>4, <1>7 DEF OneRun

\* A run that has read the provider's list begins.
LEMMA Listing ==
    ASSUME runs \in [RefillWorkers -> Run], NEW w \in RefillWorkers,
           NEW baseline \in SUBSET Batch,
           runs' = [runs EXCEPT ![w].at = "begin", ![w].baseline = baseline]
    PROVE  /\ OneRun(w)
           /\ runs'[w].at = "begin" /\ runs'[w].refill = runs[w].refill
           /\ runs'[w].baseline = baseline
<1>1. runs[w] \in Run
    OBVIOUS
<1> DEFINE x == [runs[w] EXCEPT !.at = "begin"]
           y == [x EXCEPT !.baseline = baseline]
<1>2. x \in Run /\ x.at = "begin" /\ x.refill = runs[w].refill
    BY <1>1 DEF Run
<1>3. runs' = [runs EXCEPT ![w] = y]
    OBVIOUS
<1> HIDE DEF x
<1>4. y \in Run /\ y.at = "begin" /\ y.refill = runs[w].refill /\ y.baseline = baseline
    BY <1>2 DEF Run
<1> HIDE DEF y
<1> QED BY <1>3, <1>4 DEF OneRun

\* A run that renews pools has no attempt in hand.
LEMMA Renewing ==
    ASSUME runs \in [RefillWorkers -> Run], NEW w \in RefillWorkers,
           StartRollover(w) \/ Rollover(w)
    PROVE  OneRun(w) /\ ~InHand(runs'[w])
<1>1. runs[w] \in Run
    OBVIOUS
<1>2. PICK at \in {"rollover", "claim"}, renewing \in SUBSET SupplyPools :
          runs' = [runs EXCEPT ![w].at = at, ![w].renewing = renewing]
    BY DEF StartRollover, Rollover
<1> DEFINE x == [runs[w] EXCEPT !.at = at]
           y == [x EXCEPT !.renewing = renewing]
<1>3. x \in Run /\ x.at = at
    BY <1>1 DEF Run
<1>4. runs' = [runs EXCEPT ![w] = y]
    BY <1>2
<1> HIDE DEF x
<1>5. y \in Run /\ y.at = at
    BY <1>3 DEF Run
<1> HIDE DEF y
<1> QED BY <1>4, <1>5 DEF OneRun, InHand

\* An attempt that ends gives up its claim.
LEMMA EndGives ==
    ASSUME refills \in [RefillIds -> Refill], NEW r \in RefillIds,
           NEW outcome \in {"complete", "failed", "unknown"}, EndAttempt(r, outcome)
    PROVE  /\ OneAttempt(r)
           /\ refills'[r].status = outcome /\ refills'[r].token = NoWorker
           /\ refills'[r].pool = refills[r].pool
<1> DEFINE claimed == IF outcome = "unknown" THEN "fresh" ELSE "none"
           x == [refills[r] EXCEPT !.status = outcome]
           y == [x EXCEPT !.token = NoWorker]
           z == [y EXCEPT !.claimed = claimed]
<1>1. claimed \in {"none", "fresh"} /\ refills[r] \in Refill
    OBVIOUS
<1>2. refills' = [refills EXCEPT ![r] = z]
    BY DEF EndAttempt
<1> HIDE DEF claimed
<1>3. x \in Refill /\ x.status = outcome /\ x.pool = refills[r].pool
    BY <1>1 DEF Refill
<1> HIDE DEF x
<1>4. y \in Refill /\ y.status = outcome /\ y.pool = refills[r].pool /\ y.token = NoWorker
    BY <1>3 DEF Refill
<1> HIDE DEF y
<1>5. z \in Refill /\ z.status = outcome /\ z.pool = refills[r].pool /\ z.token = NoWorker
    BY <1>1, <1>4 DEF Refill
<1> HIDE DEF z
<1> QED BY <1>2, <1>5 DEF OneAttempt

\* What a stale claim comes to: unsubmitted work failed, submitted work is uncertain.
Lapses(a, b) ==
    /\ b.pool = a.pool
    /\ \/ b.status = a.status /\ b.token = a.token
       \/ a.status = "preparing" /\ b.status = "failed" /\ b.token = NoWorker
       \/ a.status = "submitting" /\ b.status = "unknown" /\ b.token = NoWorker

\* Resolving stale claims only lets attempts lapse.
LEMMA StaleLapses ==
    ASSUME refills \in [RefillIds -> Refill]
    PROVE  /\ StaleResolved \in [RefillIds -> Refill]
           /\ \A r \in RefillIds : Lapses(refills[r], StaleResolved[r])
<1> SUFFICES ASSUME NEW r \in RefillIds
             PROVE  StaleResolved[r] \in Refill /\ Lapses(refills[r], StaleResolved[r])
    BY DEF StaleResolved
<1>1. refills[r] \in Refill
    OBVIOUS
<1>2. CASE ~(refills[r].claimed = "stale" /\ refills[r].status \in {"submitting", "preparing"})
    BY <1>1, <1>2 DEF StaleResolved, Lapses
<1>3. CASE refills[r].claimed = "stale" /\ refills[r].status \in {"submitting", "preparing"}
    <2> DEFINE status == IF refills[r].status = "submitting" THEN "unknown" ELSE "failed"
               x == [refills[r] EXCEPT !.status = status]
               y == [x EXCEPT !.token = NoWorker]
               z == [y EXCEPT !.claimed = "none"]
    <2>1. StaleResolved[r] = z
        BY <1>3 DEF StaleResolved
    <2>2. \/ refills[r].status = "submitting" /\ status = "unknown"
          \/ refills[r].status = "preparing" /\ status = "failed"
        BY <1>3
    <2>3. status \in {"unknown", "failed"}
        OBVIOUS
    <2> HIDE DEF status
    <2>4. x \in Refill /\ x.status = status /\ x.pool = refills[r].pool
        BY <1>1, <2>3 DEF Refill
    <2> HIDE DEF x
    <2>5. y \in Refill /\ y.status = status /\ y.pool = refills[r].pool /\ y.token = NoWorker
        BY <2>4 DEF Refill
    <2> HIDE DEF y
    <2>6. z \in Refill /\ z.status = status /\ z.pool = refills[r].pool /\ z.token = NoWorker
        BY <2>5 DEF Refill
    <2> HIDE DEF z
    <2>7. QED BY <2>1, <2>2, <2>6 DEF Lapses
<1> QED BY <1>2, <1>3

----------------------------------------------------------------------------
(* What the books and the runs need of a step.                             *)

\* How an attempt may move: its claim changes hands, or it goes on, fails with
\* nothing made, ends with its batch imported, or is new in a free account.
MovesOn(r) ==
    LET a == refills[r]
        b == refills'[r]
    IN \/ b.pool = a.pool /\ b.status = a.status
       \/ b.pool = a.pool /\ Active(r) /\ b.status \in {"submitting", "unknown"}
       \/ b.pool = a.pool /\ Active(r) /\ b.status = "failed" /\ NoneMade(r)
       \/ /\ b.pool = a.pool /\ Active(r) /\ b.status = "complete"
          /\ \E x \in made : x.refill = r /\ [batch |-> x, pool |-> a.pool] \in codes'
       \/ /\ a.status = "none" /\ b.status = "preparing"
          /\ \A s \in RefillIds : s # r /\ Active(s)' => Account[refills'[s].pool] # Account[b.pool]

\* Moves of attempts keep the books.
LEMMA BooksMove ==
    ASSUME Types, Books, refills' \in [RefillIds -> Refill],
           codes \subseteq codes', UNCHANGED <<calls, made>>,
           \A r \in RefillIds : MovesOn(r)
    PROVE  Books'
<1>1. \A r \in RefillIds : NoneMade(r)' = NoneMade(r)
    BY DEF NoneMade
<1>2. ASSUME NEW r \in RefillIds PROVE AttemptOK(r)'
    <2>1. AttemptOK(r) /\ MovesOn(r)
        BY DEF Books
    <2>2. QED BY <2>1, <1>1 DEF AttemptOK, MovesOn, Active
<1>3. \A r \in RefillIds : refills'[r].pool # refills[r].pool => NoneMade(r)
    BY DEF Books, AttemptOK, MovesOn
<1>4. ASSUME NEW c \in calls PROVE CallOK(c)'
    <2>1. CallOK(c) /\ ~NoneMade(c.refill)
        BY DEF Books, NoneMade
    <2>2. c.refill \in RefillIds /\ MovesOn(c.refill)
        BY <2>1 DEF CallOK
    <2>3. refills'[c.refill].pool = refills[c.refill].pool
        BY <2>1, <2>2, <1>3
    <2>4. \A x \in made : x.refill # c.refill
        BY DEF Books, MadeOnce
    <2>5. refills'[c.refill].status \in {"submitting", "unknown"}
        BY <2>1, <2>2, <2>4 DEF CallOK, MovesOn
    <2>6. QED BY <2>1, <2>3, <2>5 DEF CallOK
<1>5. ASSUME NEW b \in made, b.refill # 0 PROVE BatchOK(b)'
    <2>1. BatchOK(b) /\ ~NoneMade(b.refill)
        BY DEF Books, NoneMade
    <2>2. b.refill \in RefillIds
        BY <1>5 DEF Types, SupplyTypeOK, Batch
    <2>3. MovesOn(b.refill)
        BY <2>2
    <2>4. refills'[b.refill].pool = refills[b.refill].pool
        BY <2>1, <2>2, <1>3
    <2>5. \A x \in made : x.refill = b.refill => x = b
        BY <1>5 DEF Books, MadeOnce
    <2>6. refills[b.refill].status \notin {"none", "preparing", "failed"}
        BY <2>1, <2>2 DEF Books, AttemptOK
    <2>7. \/ Active(b.refill)'
          \/ /\ refills'[b.refill].status = "complete"
             /\ [batch |-> b, pool |-> refills[b.refill].pool] \in codes'
        <3>1. CASE refills'[b.refill].status = refills[b.refill].status
            BY <3>1, <2>1, <1>5 DEF BatchOK, Active
        <3>2. CASE refills'[b.refill].status # refills[b.refill].status
            BY <3>2, <2>1, <2>3, <2>5, <2>6 DEF MovesOn, Active
        <3>3. QED BY <3>1, <3>2
    <2>8. QED BY <1>5, <2>1, <2>4, <2>7 DEF BatchOK
<1>6. \A b \in made : BatchOK(b)'
    <2>1. \A b \in made : b.refill = 0 => BatchOK(b)'
        BY DEF BatchOK
    <2>2. QED BY <1>5, <2>1
<1>7. MadeOnce'
    BY DEF Books, MadeOnce
<1>8. OneOpen'
    <2> SUFFICES ASSUME NEW r \in RefillIds, NEW s \in RefillIds, r # s,
                        Active(r)', Active(s)'
                 PROVE  Account[refills'[r].pool] # Account[refills'[s].pool]
        BY DEF OneOpen
    <2>1. MovesOn(r) /\ MovesOn(s)
        OBVIOUS
    <2>2. CASE refills[r].status = "none" \/ refills[s].status = "none"
        BY <2>1, <2>2 DEF MovesOn, Active
    <2>3. CASE refills[r].status # "none" /\ refills[s].status # "none"
        <3>1. /\ Active(r) /\ Active(s)
              /\ refills'[r].pool = refills[r].pool /\ refills'[s].pool = refills[s].pool
            BY <2>1, <2>3 DEF MovesOn, Active
        <3>2. QED BY <3>1 DEF Books, OneOpen
    <2>4. QED BY <2>2, <2>3
<1> QED BY <1>2, <1>4, <1>6, <1>7, <1>8 DEF Books

\* What a run that rests needs of what happens to its attempt.
Suits(w, x) ==
    InHand(x) =>
        /\ refills'[x.refill].status # "none"
        /\ x.at \in {"prepare", "begin"} =>
             \/ refills'[x.refill].status = "failed"
             \/ refills'[x.refill].status = "preparing" /\ refills'[x.refill].token = w
        /\ x.at = "create" => refills'[x.refill].status \in {"submitting", "unknown"}
        /\ Creator(x) => ~(refills'[x.refill].status = "unknown" /\ refills'[x.refill].token = w)
        /\ Creator(x) /\ NoneMade(x.refill) => \A y \in calls' \cup made' : y.refill # x.refill

\* A run that rests may go on relying on what it relied on.
LEMMA Rests ==
    ASSUME Hands, NEW w \in RefillWorkers, runs'[w] = runs[w], made \subseteq made',
           Suits(w, runs[w])
    PROVE  RunOK(w, runs[w])'
<1>1. RunOK(w, runs[w])
    BY DEF Hands
<1> DEFINE x == runs[w]
<1> SUFFICES ASSUME InHand(x) PROVE RunOK(w, runs[w])'
    BY DEF RunOK
<1>2. Unasked(w, runs[w])'
    BY <1>1 DEF RunOK, Suits, Unasked, Creator, NoneMade
<1>3. Asking(runs[w])'
    BY <1>1 DEF RunOK, Suits, Asking, Creator, NoneMade
<1>4. Comparing(runs[w])'
    BY <1>1 DEF RunOK, Comparing
<1>5. Verifying(w, runs[w])'
    BY <1>1 DEF RunOK, Verifying
<1>6. Concluding(runs[w])'
    BY <1>1 DEF RunOK, Suits, Concluding, Creator, NoneMade
<1>7. (Creator(runs[w]) => ~(refills[runs[w].refill].status = "unknown"
                             /\ refills[runs[w].refill].token = w))'
    BY DEF Suits
<1> QED BY <1>1, <1>2, <1>3, <1>4, <1>5, <1>6, <1>7 DEF RunOK, Suits

\* While nobody touches the attempts, every resting run is suited.
LEMMA QuietSuits ==
    ASSUME Hands, NEW w \in RefillWorkers, refills' = refills,
           Creator(runs[w]) /\ NoneMade(runs[w].refill) =>
               \A y \in calls' \cup made' : y.refill # runs[w].refill
    PROVE  Suits(w, runs[w])
<1>1. RunOK(w, runs[w])
    BY DEF Hands
<1> QED BY <1>1 DEF RunOK, Unasked, Asking, Suits

\* Lapsing claims suit every run.
LEMMA LapseSuits ==
    ASSUME Types, Hands, NEW w \in RefillWorkers, UNCHANGED <<calls, made>>,
           InHand(runs[w]) => Lapses(refills[runs[w].refill], refills'[runs[w].refill])
    PROVE  Suits(w, runs[w])
<1>1. RunOK(w, runs[w])
    BY DEF Hands
<1>2. NoWorker # w
    BY SupplyConstants
<1>3. ASSUME InHand(runs[w]) PROVE Suits(w, runs[w])
    <2> DEFINE a == refills[runs[w].refill]
               b == refills'[runs[w].refill]
    <2>1. Lapses(a, b)
        BY <1>3
    <2>2. /\ a.status # "none"
          /\ runs[w].at \in {"prepare", "begin"} =>
                a.status = "failed" \/ (a.status = "preparing" /\ a.token = w)
          /\ runs[w].at = "create" => a.status \in {"submitting", "unknown"}
          /\ Creator(runs[w]) => ~(a.status = "unknown" /\ a.token = w)
        BY <1>1, <1>3 DEF RunOK, Unasked, Asking
    <2> HIDE DEF a, b
    <2>3. /\ b.status # "none"
          /\ runs[w].at \in {"prepare", "begin"} =>
                b.status = "failed" \/ (b.status = "preparing" /\ b.token = w)
          /\ runs[w].at = "create" => b.status \in {"submitting", "unknown"}
          /\ Creator(runs[w]) => ~(b.status = "unknown" /\ b.token = w)
        BY <2>1, <2>2, <1>2 DEF Lapses
    <2>4. NoneMade(runs[w].refill) => \A y \in calls' \cup made' : y.refill # runs[w].refill
        BY DEF NoneMade
    <2>5. QED BY <2>3, <2>4 DEF Suits, b
<1> QED BY <1>3 DEF Suits

\* A step of one run keeps what all runs rely on, if the run that moves is in order
\* afterwards and does not become the creator of an attempt.
LEMMA HandsMove ==
    ASSUME Types, Hands, NEW w \in RefillWorkers, OneRun(w), made \subseteq made',
           \A v \in RefillWorkers : v # w => Suits(v, runs[v]),
           RunOK(w, runs[w])',
           Creator(runs'[w]) => /\ Creator(runs[w])
                                /\ runs'[w].refill = runs[w].refill
    PROVE  Hands'
<1>1. \A v \in RefillWorkers : RunOK(v, runs[v])'
    <2> SUFFICES ASSUME NEW v \in RefillWorkers, v # w PROVE RunOK(v, runs[v])'
        OBVIOUS
    <2>1. runs'[v] = runs[v] /\ Suits(v, runs[v])
        BY DEF OneRun
    <2>2. QED BY <2>1, Rests
<1>2. OneCreator'
    BY DEF Hands, OneCreator, OneRun
<1> QED BY <1>1, <1>2 DEF Hands

\* A step of the surroundings keeps what all runs rely on, if it suits them.
LEMMA HandsRest ==
    ASSUME Hands, UNCHANGED runs, made \subseteq made',
           \A v \in RefillWorkers : Suits(v, runs[v])
    PROVE  Hands'
<1>1. \A v \in RefillWorkers : RunOK(v, runs[v])'
    BY Rests
<1>2. OneCreator'
    BY DEF Hands, OneCreator
<1> QED BY <1>1, <1>2 DEF Hands

----------------------------------------------------------------------------
(* The steps of a run that leave the attempts alone.                       *)

\* When one run moves, and at most a call disappears, the invariant is kept if the
\* run is in order afterwards.
LEMMA RunMoves ==
    ASSUME SupplyInv, Types', NEW w \in RefillWorkers, OneRun(w),
           UNCHANGED <<refills, codes, made>>, calls' \subseteq calls,
           RunOK(w, runs[w])',
           Creator(runs'[w]) => /\ Creator(runs[w])
                                /\ runs'[w].refill = runs[w].refill
    PROVE  SupplyInv'
<1>1. Books'
    <2>1. \A r \in RefillIds : AttemptOK(r)'
        BY DEF SupplyInv, Books, AttemptOK, NoneMade
    <2>2. \A c \in calls' : CallOK(c)'
        BY DEF SupplyInv, Books, CallOK
    <2>3. \A b \in made' : BatchOK(b)'
        BY DEF SupplyInv, Books, BatchOK, Active
    <2>4. MadeOnce' /\ OneOpen'
        BY DEF SupplyInv, Books, MadeOnce, OneOpen, Active
    <2>5. QED BY <2>1, <2>2, <2>3, <2>4 DEF Books
<1>2. ASSUME NEW v \in RefillWorkers PROVE Suits(v, runs[v])
    <2>1. NoneMade(runs[v].refill) => \A y \in calls' \cup made' : y.refill # runs[v].refill
        BY DEF NoneMade
    <2>2. QED BY <2>1, QuietSuits DEF SupplyInv
<1>3. Hands'
    BY <1>2, HandsMove DEF SupplyInv
<1> QED BY <1>1, <1>3 DEF SupplyInv

\* The number of mishaps stays a number.
LEMMA MishapsCount ==
    ASSUME SupplyTypeOK, NEW fine \in BOOLEAN,
           Mishap \/ MishapUnless(fine) \/ UNCHANGED mishaps
    PROVE  mishaps' \in Nat
BY DEF SupplyTypeOK, Mishap, MishapUnless

\* Renewing pools is no business of the attempts.
LEMMA RolloverKeeps ==
    ASSUME SupplyInv, NEW w \in RefillWorkers, StartRollover(w) \/ Rollover(w)
    PROVE  SupplyInv'
<1>1. OneRun(w) /\ ~InHand(runs'[w])
    BY Renewing DEF SupplyInv, Types, SupplyTypeOK
<1>2. pools' \in [SupplyPools -> [enabled : BOOLEAN, term : Nat]]
    <2>1. CASE StartRollover(w)
        BY <2>1 DEF StartRollover, SupplyInv, Types, SupplyTypeOK
    <2>2. CASE Rollover(w)
        <3>1. Renewed \in Nat
            BY DEF Renewed, SupplyInv, Types, SupplyTypeOK
        <3> HIDE DEF Renewed
        <3>2. ASSUME NEW p \in SupplyPools
              PROVE  [pools[p] EXCEPT !.term = Renewed] \in [enabled : BOOLEAN, term : Nat]
            BY <3>1 DEF SupplyInv, Types, SupplyTypeOK
        <3>3. QED BY <2>2, <3>2 DEF Rollover, SupplyInv, Types, SupplyTypeOK
    <2>3. QED BY <2>1, <2>2
<1>3. UNCHANGED <<now, refills, codes, spent, calls, made, mishaps>>
    BY DEF StartRollover, Rollover
<1>4. Types'
    BY <1>1, <1>2, <1>3 DEF OneRun, SupplyInv, Types, SupplyTypeOK
<1>5. RunOK(w, runs[w])' /\ ~Creator(runs'[w])
    BY <1>1 DEF RunOK, InHand, Creator
<1> QED BY <1>1, <1>3, <1>4, <1>5, RunMoves

\* A run that ends leaves its attempt as it is.
LEMMA CrashKeeps ==
    ASSUME SupplyInv, NEW w \in RefillWorkers, Crash(w)
    PROVE  SupplyInv'
<1>1. OneRun(w) /\ ~InHand(runs'[w])
    BY LetsGo DEF Crash, SupplyInv, Types, SupplyTypeOK
<1>2. UNCHANGED <<pools, now, refills, codes, spent, calls, made>> /\ mishaps' \in Nat
    BY MishapsCount DEF Crash, SupplyInv, Types
<1>3. Types'
    BY <1>1, <1>2 DEF OneRun, SupplyInv, Types, SupplyTypeOK
<1>4. RunOK(w, runs[w])' /\ ~Creator(runs'[w])
    BY <1>1 DEF RunOK, InHand, Creator
<1> QED BY <1>1, <1>2, <1>3, <1>4, RunMoves

\* A run may conclude what it can vouch for: that its request was never made, that
\* it has found the one batch of its attempt, or that it does not know.
LEMMA ConcludingKeeps ==
    ASSUME SupplyInv, NEW w \in RefillWorkers, NEW at, runs[w].at = at,
           at \in {"prepare", "begin", "wait", "verify", "reconcile"},
           NEW outcome \in {"complete", "failed", "unknown"}, NEW found \in SUBSET Batch,
           Concludes(w, outcome, found), mishaps' \in Nat,
           UNCHANGED <<pools, now, refills, codes, spent, made>>, calls' \subseteq calls,
           outcome = "failed" => /\ at # "reconcile"
                                 /\ \A y \in calls' \cup made : y.refill # runs[w].refill,
           outcome = "complete" => \E b \in made : b.refill = runs[w].refill /\ found = {b}
    PROVE  SupplyInv'
<1>1. /\ OneRun(w)
      /\ runs'[w].at = "finish" /\ runs'[w].refill = runs[w].refill
      /\ runs'[w].outcome = outcome /\ runs'[w].found = found
    BY Conclusion DEF SupplyInv, Types, SupplyTypeOK
<1>2. Types'
    BY <1>1 DEF OneRun, SupplyInv, Types, SupplyTypeOK
<1>3. InHand(runs[w]) /\ RunOK(w, runs[w])
    BY DEF InHand, SupplyInv, Hands
<1>4. Creator(runs'[w]) => Creator(runs[w])
    BY <1>1 DEF Creator
<1>5. RunOK(w, runs[w])'
    <2>1. /\ Unasked(w, runs[w])' /\ Asking(runs[w])' /\ Comparing(runs[w])'
          /\ Verifying(w, runs[w])'
        BY <1>1 DEF Unasked, Asking, Comparing, Verifying
    <2>2. Concluding(runs[w])'
        BY <1>1 DEF Concluding, NoneMade
    <2>3. /\ runs'[w].refill \in RefillIds /\ refills'[runs'[w].refill].status # "none"
          /\ Creator(runs'[w]) => ~(refills'[runs'[w].refill].status = "unknown"
                                    /\ refills'[runs'[w].refill].token = w)
        BY <1>1, <1>3, <1>4 DEF RunOK
    <2>4. QED BY <2>1, <2>2, <2>3 DEF RunOK
<1> QED BY <1>1, <1>2, <1>4, <1>5, RunMoves

\* Before its request a run may list or give up: nothing was made for its attempt.
LEMMA PrepareKeeps ==
    ASSUME SupplyInv, NEW w \in RefillWorkers, Prepare(w)
    PROVE  SupplyInv'
<1>1. /\ runs[w].at = "prepare" /\ InHand(runs[w]) /\ RunOK(w, runs[w])
      /\ NoneMade(runs[w].refill)
      /\ UNCHANGED <<pools, now, refills, codes, spent, calls, made>>
    BY DEF Prepare, SupplyInv, Hands, InHand, RunOK, Unasked
<1>2. CASE Concludes(w, "failed", {}) /\ Mishap
    <2>1. mishaps' \in Nat
        BY <1>2, MishapsCount DEF SupplyInv, Types
    <2>2. \A y \in calls' \cup made : y.refill # runs[w].refill
        BY <1>1 DEF NoneMade
    <2>3. QED BY <1>1, <1>2, <2>1, <2>2, ConcludingKeeps
<1>3. CASE /\ runs' = [runs EXCEPT ![w].at = "begin",
                                   ![w].baseline = IF IsNamed(w) THEN {} ELSE InAccount(w)]
           /\ UNCHANGED mishaps
    <2> DEFINE baseline == IF IsNamed(w) THEN {} ELSE InAccount(w)
    <2>1. baseline \subseteq made
        BY DEF InAccount
    <2>2. baseline \in SUBSET Batch
        BY <2>1 DEF SupplyInv, Types, SupplyTypeOK
    <2> HIDE DEF baseline
    <2>3. runs' = [runs EXCEPT ![w].at = "begin", ![w].baseline = baseline]
        BY <1>3 DEF baseline
    <2>4. /\ OneRun(w)
          /\ runs'[w].at = "begin" /\ runs'[w].refill = runs[w].refill
          /\ runs'[w].baseline = baseline
        BY <2>2, <2>3, Listing DEF SupplyInv, Types, SupplyTypeOK
    <2>5. Types'
        BY <1>1, <1>3, <2>4 DEF OneRun, SupplyInv, Types, SupplyTypeOK
    <2>6. Creator(runs'[w]) => Creator(runs[w])
        BY <1>1 DEF Creator
    <2>7. RunOK(w, runs[w])'
        <3>1. Unasked(w, runs[w])'
            BY <1>1, <2>4 DEF RunOK, Unasked, NoneMade
        <3>2. Comparing(runs[w])'
            BY <1>1, <2>1, <2>4 DEF Comparing, NoneMade
        <3>3. Asking(runs[w])' /\ Verifying(w, runs[w])' /\ Concluding(runs[w])'
            BY <2>4 DEF Asking, Verifying, Concluding
        <3>4. QED BY <1>1, <2>4, <2>6, <3>1, <3>2, <3>3 DEF RunOK
    <2>8. QED BY <1>1, <2>4, <2>5, <2>6, <2>7, RunMoves
<1> QED BY <1>2, <1>3 DEF Prepare

\* A run whose answer has come verifies a batch of its own.
LEMMA AnswerMadeKeeps ==
    ASSUME SupplyInv, NEW w \in RefillWorkers, AnswerMade(w)
    PROVE  SupplyInv'
<1>1. /\ runs[w].at = "wait" /\ InHand(runs[w]) /\ RunOK(w, runs[w])
      /\ \E b \in made : Mine(w, b)
      /\ UNCHANGED <<pools, now, refills, codes, spent, calls, made, mishaps>>
    BY DEF AnswerMade, SupplyInv, Hands, InHand
<1>2. /\ OneRun(w)
      /\ runs'[w].at = "verify" /\ runs'[w].refill = runs[w].refill
      /\ runs'[w].baseline = runs[w].baseline
    BY Goes DEF AnswerMade, SupplyInv, Types, SupplyTypeOK
<1>3. Types'
    BY <1>1, <1>2 DEF OneRun, SupplyInv, Types, SupplyTypeOK
<1>4. Creator(runs'[w]) => Creator(runs[w])
    BY <1>1 DEF Creator
<1>5. RunOK(w, runs[w])'
    <2>1. Comparing(runs[w])'
        BY <1>1, <1>2 DEF RunOK, Comparing
    <2>2. Verifying(w, runs[w])'
        BY <1>1, <1>2 DEF Verifying, Mine
    <2>3. Unasked(w, runs[w])' /\ Asking(runs[w])' /\ Concluding(runs[w])'
        BY <1>2 DEF Asking, Unasked, Concluding
    <2>4. QED BY <1>1, <1>2, <1>4, <2>1, <2>2, <2>3 DEF RunOK
<1> QED BY <1>1, <1>2, <1>3, <1>4, <1>5, RunMoves

\* A refused call was the only one of its attempt, so that nothing was made.
LEMMA AnswerRejectedKeeps ==
    ASSUME SupplyInv, NEW w \in RefillWorkers, AnswerRejected(w)
    PROVE  SupplyInv'
<1>1. /\ runs[w].at = "wait" /\ mishaps' \in Nat
      /\ calls' \subseteq calls
      /\ UNCHANGED <<pools, now, refills, codes, spent, made>>
      /\ Concludes(w, "failed", {})
    BY MishapsCount DEF AnswerRejected, SupplyInv, Types
<1>2. PICK c \in calls : Mine(w, c)
    BY DEF AnswerRejected
<1>3. \A y \in calls' : y.refill # runs[w].refill
    BY <1>2 DEF AnswerRejected, Mine, SupplyInv, Books, MadeOnce
<1>4. \A y \in made : y.refill # runs[w].refill
    BY <1>2 DEF Mine, SupplyInv, Books, MadeOnce
<1> QED BY <1>1, <1>3, <1>4, ConcludingKeeps

\* A run that waits no longer does not know.
LEMMA StopWaitingKeeps ==
    ASSUME SupplyInv, NEW w \in RefillWorkers, StopWaiting(w)
    PROVE  SupplyInv'
<1>1. /\ runs[w].at = "wait" /\ mishaps' \in Nat
      /\ UNCHANGED <<pools, now, refills, codes, spent, calls, made>>
      /\ Concludes(w, "unknown", {})
    BY MishapsCount DEF StopWaiting, SupplyInv, Types
<1> QED BY <1>1, ConcludingKeeps

\* What a run accepts as its batch is the batch of its attempt: it is named so, or
\* it is the only new one and the run's own batch is new.
LEMMA ListedIsMine ==
    ASSUME SupplyInv, NEW w \in RefillWorkers, InHand(runs[w]), Cardinality(Listed(w)) = 1,
           runs[w].at = "verify" \/ IsNamed(w)
    PROVE  \E b \in made : b.refill = runs[w].refill /\ Listed(w) = {b}
<1>1. Listed(w) \subseteq made /\ IsFiniteSet(Listed(w))
    BY FS_Subset DEF Listed, InAccount, SupplyInv, Types
<1>2. PICK b : Listed(w) = {b}
    BY <1>1, FS_Singleton
<1>3. CASE IsNamed(w)
    BY <1>1, <1>2, <1>3 DEF Listed
<1>4. CASE runs[w].at = "verify" /\ ~IsNamed(w)
    <2>1. /\ RunOK(w, runs[w]) /\ runs[w].refill \in RefillIds
        BY DEF SupplyInv, Hands, RunOK
    <2>2. PICK d \in made : d.refill = runs[w].refill
        BY <1>4, <2>1 DEF RunOK, Verifying
    <2>3. d.account = Account[refills[runs[w].refill].pool]
        <3>1. d.refill # 0
            BY <2>1, <2>2 DEF RefillIds
        <3>2. BatchOK(d)
            BY DEF SupplyInv, Books
        <3>3. QED BY <2>2, <3>1, <3>2 DEF BatchOK
    <2>4. d \notin runs[w].baseline
        BY <1>4, <2>1, <2>2 DEF RunOK, Comparing
    <2>5. d \in Listed(w)
        BY <1>4, <2>2, <2>3, <2>4 DEF Listed, InAccount
    <2>6. QED BY <1>2, <2>2, <2>5
<1> QED BY <1>3, <1>4

\* Verification and reconciliation conclude with that batch or with "unknown".
LEMMA LookingKeeps ==
    ASSUME SupplyInv, NEW w \in RefillWorkers, Verify(w) \/ Reconcile(w)
    PROVE  SupplyInv'
<1>1. /\ runs[w].at \in {"verify", "reconcile"} /\ InHand(runs[w])
      /\ UNCHANGED <<pools, now, refills, codes, spent, calls, made>>
    BY DEF Verify, Reconcile, InHand
<1>2. mishaps' \in Nat
    BY MishapsCount DEF Verify, Reconcile, SupplyInv, Types
<1>3. \/ Concludes(w, "unknown", {})
      \/ /\ Concludes(w, "complete", Verified(w)) /\ Verified(w) = Listed(w)
         /\ Cardinality(Listed(w)) = 1
         /\ runs[w].at = "verify" \/ IsNamed(w)
    BY DEF Verify, Reconcile
<1>4. CASE Concludes(w, "unknown", {})
    BY <1>1, <1>2, <1>4, ConcludingKeeps
<1>5. CASE /\ Concludes(w, "complete", Verified(w)) /\ Verified(w) = Listed(w)
           /\ Cardinality(Listed(w)) = 1
           /\ runs[w].at = "verify" \/ IsNamed(w)
    <2>1. PICK b \in made : b.refill = runs[w].refill /\ Listed(w) = {b}
        BY <1>1, <1>5, ListedIsMine
    <2>2. {b} \in SUBSET Batch
        BY DEF SupplyInv, Types, SupplyTypeOK
    <2>3. Concludes(w, "complete", {b})
        BY <1>5, <2>1
    <2>4. QED BY <1>1, <1>2, <2>1, <2>2, <2>3, ConcludingKeeps
<1> QED BY <1>3, <1>4, <1>5

\* A run whose report is lost goes on to report that it does not know.
LEMMA FinishIsLostKeeps ==
    ASSUME SupplyInv, NEW w \in RefillWorkers, FinishIsLost(w)
    PROVE  SupplyInv'
<1>1. /\ runs[w].at = "finish" /\ InHand(runs[w]) /\ RunOK(w, runs[w]) /\ mishaps' \in Nat
      /\ UNCHANGED <<pools, now, refills, codes, spent, calls, made>>
    BY MishapsCount DEF FinishIsLost, SupplyInv, Hands, InHand, Types
<1>2. /\ OneRun(w)
      /\ runs'[w].at = "finish_unknown" /\ runs'[w].refill = runs[w].refill
    BY Goes DEF FinishIsLost, SupplyInv, Types, SupplyTypeOK
<1>3. Types'
    BY <1>1, <1>2 DEF OneRun, SupplyInv, Types, SupplyTypeOK
<1>4. ~Creator(runs'[w])
    BY <1>2 DEF Creator
<1>5. RunOK(w, runs[w])'
    BY <1>1, <1>2, <1>4 DEF RunOK, Comparing, Verifying, Unasked, Asking, Concluding
<1> QED BY <1>1, <1>2, <1>3, <1>4, <1>5, RunMoves

----------------------------------------------------------------------------
(* The steps of a run that write its attempt.                              *)

\* Recording one of the creator's own moves suits the other runs.
LEMMA CreatorsSuit ==
    ASSUME SupplyInv, NEW w \in RefillWorkers, NEW v \in RefillWorkers, v # w,
           Creator(runs[w]), InHand(runs[w]), OneAttempt(runs[w].refill),
           refills'[runs[w].refill].status # "none",
           Creator(runs[v]) /\ NoneMade(runs[v].refill) /\ runs[v].refill # runs[w].refill =>
               \A y \in calls' \cup made' : y.refill # runs[v].refill
    PROVE  Suits(v, runs[v])
<1>1. RunOK(v, runs[v]) /\ runs[w].refill \in RefillIds
    BY DEF SupplyInv, Hands, RunOK
<1>2. CASE runs[v].refill = runs[w].refill
    <2>1. ~Creator(runs[v])
        BY <1>2 DEF SupplyInv, Hands, OneCreator
    <2>2. runs[v].at \notin {"prepare", "begin", "create"}
        BY <2>1 DEF Creator
    <2>3. QED BY <1>2, <2>1, <2>2 DEF Suits
<1>3. CASE runs[v].refill # runs[w].refill
    <2>1. InHand(runs[v]) => refills'[runs[v].refill] = refills[runs[v].refill]
        BY <1>1, <1>3 DEF RunOK, OneAttempt
    <2>2. QED BY <1>1, <1>3, <2>1 DEF RunOK, Unasked, Asking, Suits
<1> QED BY <1>2, <1>3

\* An accepted beginning: the attempt is submitted.
LEMMA BeginGives ==
    ASSUME refills \in [RefillIds -> Refill], NEW r \in RefillIds,
           refills' = [refills EXCEPT ![r].status = "submitting", ![r].begun = TRUE]
    PROVE  /\ OneAttempt(r)
           /\ refills'[r].status = "submitting" /\ refills'[r].token = refills[r].token
           /\ refills'[r].pool = refills[r].pool
<1> DEFINE x == [refills[r] EXCEPT !.status = "submitting"]
           y == [x EXCEPT !.begun = TRUE]
<1>1. refills[r] \in Refill
    OBVIOUS
<1>2. refills' = [refills EXCEPT ![r] = y]
    OBVIOUS
<1>3. x \in Refill /\ x.status = "submitting" /\ x.pool = refills[r].pool /\ x.token = refills[r].token
    BY <1>1 DEF Refill
<1> HIDE DEF x
<1>4. y \in Refill /\ y.status = "submitting" /\ y.pool = refills[r].pool /\ y.token = refills[r].token
    BY <1>3 DEF Refill
<1> HIDE DEF y
<1> QED BY <1>2, <1>4 DEF OneAttempt

\* The last point before the request: the attempt is submitted first, and whether or
\* not the run hears of it, nothing has been made yet.
LEMMA BeginKeeps ==
    ASSUME SupplyInv, NEW w \in RefillWorkers, Begin(w)
    PROVE  SupplyInv'
<1> DEFINE r == runs[w].refill
<1>1. /\ runs[w].at = "begin" /\ InHand(runs[w]) /\ Creator(runs[w]) /\ RunOK(w, runs[w])
      /\ r \in RefillIds /\ NoneMade(r) /\ Comparing(runs[w])
      /\ UNCHANGED <<pools, now, codes, spent, calls, made>>
    BY DEF Begin, SupplyInv, Hands, InHand, RunOK, Unasked, Creator
<1>2. \A y \in calls' \cup made' : y.refill # r
    BY <1>1 DEF NoneMade
<1>3. CASE ~BeginAccepted(w)
    <2>1. refills' = refills /\ Concludes(w, "failed", {})
        BY <1>3 DEF Begin
    <2>2. mishaps' \in Nat
        BY <1>3, MishapsCount DEF Begin, SupplyInv, Types
    <2>3. QED BY <1>1, <1>2, <2>1, <2>2, ConcludingKeeps
<1>4. CASE BeginAccepted(w)
    <2>1. refills[r].status = "preparing" /\ refills[r].token = w
        BY <1>4 DEF BeginAccepted
    <2>2. refills' = [refills EXCEPT ![r].status = "submitting", ![r].begun = TRUE]
        BY <1>4 DEF Begin
    <2>3. /\ OneAttempt(r)
          /\ refills'[r].status = "submitting" /\ refills'[r].token = w
          /\ refills'[r].pool = refills[r].pool
        BY <1>1, <2>1, <2>2, BeginGives DEF SupplyInv, Types, SupplyTypeOK
    <2>4. /\ OneRun(w) /\ runs'[w].refill = r
          /\ \/ runs'[w].at = "create" /\ runs'[w].baseline = runs[w].baseline
             \/ runs'[w].at = "finish" /\ runs'[w].outcome = "failed"
        <3>1. CASE runs' = Goto(w, "create")
            BY <3>1, Goes DEF SupplyInv, Types, SupplyTypeOK
        <3>2. CASE Concludes(w, "failed", {})
            BY <3>2, Conclusion DEF SupplyInv, Types, SupplyTypeOK
        <3>3. QED BY <1>4, <3>1, <3>2 DEF Begin
    <2>5. mishaps' \in Nat
        BY <1>4, MishapsCount DEF Begin, SupplyInv, Types
    <2>6. Types'
        BY <1>1, <2>3, <2>4, <2>5 DEF OneRun, OneAttempt, SupplyInv, Types, SupplyTypeOK
    <2>7. Books'
        <3>1. \A s \in RefillIds : MovesOn(s)
            BY <1>1, <2>1, <2>3 DEF MovesOn, OneAttempt, Active
        <3>2. QED BY <1>1, <2>3, <3>1, BooksMove DEF OneAttempt, SupplyInv
    <2>8. Hands'
        <3>1. ASSUME NEW v \in RefillWorkers, v # w PROVE Suits(v, runs[v])
            BY <1>1, <2>3, <3>1, CreatorsSuit DEF NoneMade
        <3>2. RunOK(w, runs[w])'
            <4>1. Asking(runs[w])'
                BY <1>2, <2>3, <2>4 DEF Asking, NoneMade
            <4>2. Comparing(runs[w])'
                BY <1>1, <2>4 DEF Comparing
            <4>3. Concluding(runs[w])'
                BY <1>2, <2>4 DEF Concluding, NoneMade
            <4>4. Unasked(w, runs[w])' /\ Verifying(w, runs[w])'
                BY <2>4 DEF Unasked, Verifying
            <4>5. QED BY <1>1, <2>3, <2>4, <4>1, <4>2, <4>3, <4>4 DEF RunOK
        <3>3. QED BY <1>1, <2>4, <3>1, <3>2, HandsMove DEF SupplyInv
    <2>9. QED BY <2>6, <2>7, <2>8 DEF SupplyInv
<1> QED BY <1>3, <1>4

\* The request goes out once: only the creator makes it, and nothing was made before.
LEMMA CreateKeeps ==
    ASSUME SupplyInv, NEW w \in RefillWorkers, Create(w)
    PROVE  SupplyInv'
<1> DEFINE r == runs[w].refill
           account == Account[refills[r].pool]
           term == runs[w].term
           c == [refill |-> r, by |-> w, account |-> account, term |-> term]
<1>1. /\ runs[w].at = "create" /\ InHand(runs[w]) /\ Creator(runs[w]) /\ RunOK(w, runs[w])
      /\ r \in RefillIds /\ NoneMade(r)
      /\ refills[r].status \in {"submitting", "unknown"}
      /\ UNCHANGED <<pools, now, refills, codes, spent, made, mishaps>>
      /\ calls' = calls \cup {c}
    BY DEF Create, SupplyInv, Hands, InHand, RunOK, Asking, Creator
<1>2. account \in Accounts /\ term \in Nat
    <2>1. refills[r] \in Refill /\ runs[w] \in Run
        BY <1>1 DEF SupplyInv, Types, SupplyTypeOK
    <2>2. refills[r].pool \in SupplyPools /\ term \in Nat
        BY <2>1 DEF Refill, Run
    <2>3. QED BY <2>1, <2>2 DEF Accounts
<1> HIDE DEF account, term
<1>3. c \in Batch /\ c.refill = r /\ c.account = account
    BY <1>1, <1>2 DEF Batch
<1>4. account = Account[refills[r].pool]
    BY DEF account
<1> HIDE DEF c
<1>5. /\ OneRun(w)
      /\ runs'[w].at = "wait" /\ runs'[w].refill = r
      /\ runs'[w].baseline = runs[w].baseline
    BY Goes DEF Create, SupplyInv, Types, SupplyTypeOK
<1>6. Types'
    BY <1>1, <1>3, <1>5 DEF OneRun, SupplyInv, Types, SupplyTypeOK
<1>7. Books'
    <2>1. \A s \in RefillIds : AttemptOK(s)'
        BY <1>1, <1>3 DEF SupplyInv, Books, AttemptOK, NoneMade
    <2>2. \A d \in calls' : CallOK(d)'
        <3>1. ASSUME NEW d, d = c PROVE CallOK(d)'
            BY <1>1, <1>3, <1>4, <3>1 DEF CallOK
        <3>2. \A d \in calls : CallOK(d)'
            BY <1>1 DEF SupplyInv, Books, CallOK
        <3>3. QED BY <1>1, <3>1, <3>2
    <2>3. \A b \in made' : BatchOK(b)'
        BY <1>1 DEF SupplyInv, Books, BatchOK, Active
    <2>4. MadeOnce'
        BY <1>1, <1>3 DEF SupplyInv, Books, MadeOnce, NoneMade
    <2>5. OneOpen'
        BY <1>1 DEF SupplyInv, Books, OneOpen, Active
    <2>6. QED BY <2>1, <2>2, <2>3, <2>4, <2>5 DEF Books
<1>8. Hands'
    <2>1. ASSUME NEW v \in RefillWorkers, v # w PROVE Suits(v, runs[v])
        <3>1. Creator(runs[v]) => runs[v].refill # r
            BY <1>1, <2>1 DEF SupplyInv, Hands, OneCreator
        <3>2. Creator(runs[v]) /\ NoneMade(runs[v].refill) =>
                  \A y \in calls' \cup made' : y.refill # runs[v].refill
            BY <1>1, <1>3, <3>1 DEF NoneMade
        <3>3. QED BY <1>1, <3>2, QuietSuits DEF SupplyInv
    <2>2. RunOK(w, runs[w])'
        <3>1. Comparing(runs[w])'
            BY <1>1, <1>5 DEF RunOK, Comparing
        <3>2. /\ Unasked(w, runs[w])' /\ Asking(runs[w])' /\ Verifying(w, runs[w])'
              /\ Concluding(runs[w])'
            BY <1>5 DEF Unasked, Asking, Verifying, Concluding
        <3>3. QED BY <1>1, <1>5, <3>1, <3>2 DEF RunOK
    <2>3. QED BY <1>1, <1>5, <2>1, <2>2, HandsMove DEF SupplyInv
<1> QED BY <1>6, <1>7, <1>8 DEF SupplyInv

\* Settling an attempt suits the runs that do not hold it: "failed" is only said of
\* an attempt by its creator, "complete" only when its batch was made.
LEMMA SettlingSuits ==
    ASSUME SupplyInv, NEW v \in RefillWorkers, NEW r \in RefillIds,
           NEW outcome \in {"complete", "failed", "unknown"},
           UNCHANGED <<calls, made>>, Active(r), refills[r].token # v,
           OneAttempt(r), refills'[r].status = outcome, refills'[r].token = NoWorker,
           outcome = "complete" => ~NoneMade(r),
           outcome = "failed" => ~(Creator(runs[v]) /\ runs[v].refill = r)
    PROVE  Suits(v, runs[v])
<1>1. RunOK(v, runs[v]) /\ NoWorker # v
    BY SupplyConstants DEF SupplyInv, Hands
<1>2. NoneMade(runs[v].refill) => \A y \in calls' \cup made' : y.refill # runs[v].refill
    BY DEF NoneMade
<1>3. CASE InHand(runs[v]) /\ runs[v].refill = r
    <2>1. runs[v].at \notin {"prepare", "begin"}
        BY <1>1, <1>3 DEF RunOK, Unasked, Active
    <2>2. runs[v].at = "create" => outcome \in {"submitting", "unknown"}
        BY <1>1, <1>3 DEF RunOK, Asking, Creator
    <2>3. QED BY <1>1, <1>2, <1>3, <2>1, <2>2 DEF Suits
<1>4. CASE InHand(runs[v]) /\ runs[v].refill # r
    <2>1. refills'[runs[v].refill] = refills[runs[v].refill]
        BY <1>1, <1>4 DEF RunOK, OneAttempt
    <2>2. QED BY <1>1, <1>2, <2>1 DEF RunOK, Unasked, Asking, Suits
<1> QED BY <1>3, <1>4 DEF Suits

\* An import keeps the imported codes in their types and keeps what was imported.
LEMMA ImportGives ==
    ASSUME codes \subseteq Code, NEW b \in Batch, NEW p \in SupplyPools
    PROVE  /\ Imported({b}, p) \subseteq Code
           /\ codes \subseteq Imported({b}, p)
           /\ [batch |-> b, pool |-> p] \in Imported({b}, p)
BY DEF Imported, Code

\* When a run moves on from an attempt it holds, having settled it truthfully, the
\* invariant is kept.
LEMMA SettlingKeeps ==
    ASSUME SupplyInv, NEW w \in RefillWorkers, NEW outcome \in {"complete", "failed", "unknown"},
           InHand(runs[w]), SettlesClaim(w), EndAttempt(runs[w].refill, outcome),
           codes \subseteq codes', codes' \subseteq Code, mishaps' \in Nat,
           UNCHANGED <<pools, now, spent, calls, made>>,
           outcome = "failed" => Creator(runs[w]) /\ NoneMade(runs[w].refill),
           outcome = "complete" =>
               \E b \in made : /\ b.refill = runs[w].refill
                               /\ [batch |-> b, pool |-> refills[runs[w].refill].pool] \in codes',
           OneRun(w),
           \/ ~InHand(runs'[w])
           \/ runs'[w].at = "finish_unknown" /\ runs'[w].refill = runs[w].refill
    PROVE  SupplyInv'
<1> DEFINE r == runs[w].refill
<1>1. /\ RunOK(w, runs[w]) /\ r \in RefillIds
      /\ Active(r) /\ refills[r].token = w
    BY DEF SupplyInv, Hands, RunOK, SettlesClaim
<1>2. /\ OneAttempt(r)
      /\ refills'[r].status = outcome /\ refills'[r].token = NoWorker
      /\ refills'[r].pool = refills[r].pool
    BY <1>1, EndGives DEF SupplyInv, Types, SupplyTypeOK
<1>3. Types'
    BY <1>2 DEF OneRun, OneAttempt, SupplyInv, Types, SupplyTypeOK
<1>4. Books'
    <2>1. MovesOn(r)
        BY <1>1, <1>2 DEF MovesOn
    <2>2. \A s \in RefillIds : s # r => MovesOn(s)
        BY <1>2 DEF MovesOn, OneAttempt
    <2>3. \A s \in RefillIds : MovesOn(s)
        BY <2>1, <2>2
    <2>4. QED BY <1>2, <2>3, BooksMove DEF OneAttempt, SupplyInv
<1>5. Hands'
    <2>1. ASSUME NEW v \in RefillWorkers, v # w PROVE Suits(v, runs[v])
        <3>1. outcome = "complete" => ~NoneMade(r)
            BY DEF NoneMade
        <3>2. outcome = "failed" => ~(Creator(runs[v]) /\ runs[v].refill = r)
            BY <2>1 DEF SupplyInv, Hands, OneCreator
        <3>3. refills[r].token # v
            BY <1>1, <2>1
        <3> HIDE DEF r
        <3>4. QED BY <1>1, <1>2, <3>1, <3>2, <3>3, SettlingSuits
    <2>2. ~Creator(runs'[w])
        BY DEF Creator, InHand
    <2>3. RunOK(w, runs[w])'
        <3>1. CASE ~InHand(runs'[w])
            BY <3>1 DEF RunOK
        <3>2. CASE runs'[w].at = "finish_unknown" /\ runs'[w].refill = r
            BY <1>1, <1>2, <2>2, <3>2
               DEF RunOK, Unasked, Asking, Comparing, Verifying, Concluding
        <3>3. QED BY <3>1, <3>2
    <2>4. QED BY <2>1, <2>2, <2>3, HandsMove DEF SupplyInv
<1> QED BY <1>3, <1>4, <1>5 DEF SupplyInv

\* A run that moves on from an attempt and writes nothing keeps the invariant.
LEMMA LeavingKeeps ==
    ASSUME SupplyInv, NEW w \in RefillWorkers, InHand(runs[w]), mishaps' \in Nat,
           UNCHANGED <<pools, now, refills, codes, spent, calls, made>>,
           OneRun(w),
           \/ ~InHand(runs'[w])
           \/ runs'[w].at = "finish_unknown" /\ runs'[w].refill = runs[w].refill
    PROVE  SupplyInv'
<1>1. Types'
    BY DEF OneRun, SupplyInv, Types, SupplyTypeOK
<1>2. ~Creator(runs'[w])
    BY DEF Creator, InHand
<1>3. RunOK(w, runs[w])'
    <2>1. RunOK(w, runs[w])
        BY DEF SupplyInv, Hands
    <2>2. QED BY <2>1, <1>2 DEF RunOK, Unasked, Asking, Comparing, Verifying, Concluding
<1> QED BY <1>1, <1>2, <1>3, RunMoves

\* The report of a run: what it says of its attempt is true.
LEMMA FinishKeeps ==
    ASSUME SupplyInv, NEW w \in RefillWorkers, Finish(w)
    PROVE  SupplyInv'
<1> DEFINE r == runs[w].refill
<1>1. /\ runs[w].at = "finish" /\ InHand(runs[w]) /\ RunOK(w, runs[w]) /\ r \in RefillIds
      /\ Concluding(runs[w])
      /\ UNCHANGED <<pools, now, spent, calls, made>>
    BY DEF Finish, InHand, SupplyInv, Hands, RunOK
<1>2. runs[w].outcome \in {"complete", "failed", "unknown"}
    <2>1. runs[w] \in Run
        BY DEF SupplyInv, Types, SupplyTypeOK
    <2>2. QED BY <1>1, <2>1 DEF Concluding, Run
<1>3. OneRun(w) /\ \/ ~InHand(runs'[w])
                   \/ runs'[w].at = "finish_unknown" /\ runs'[w].refill = r
    <2>1. CASE runs' = Goto(w, "finish_unknown")
        BY <2>1, Goes DEF SupplyInv, Types, SupplyTypeOK
    <2>2. CASE runs' = NextClaim(w)
        BY <2>2, LetsGo DEF SupplyInv, Types, SupplyTypeOK
    <2>3. QED BY <2>1, <2>2 DEF Finish
<1>4. mishaps' \in Nat
    BY MishapsCount DEF Finish, SupplyInv, Types
<1>5. codes \subseteq Code
    BY DEF SupplyInv, Types, SupplyTypeOK
<1>6. CASE ~(SettlesClaim(w) /\ ~FinishRaises(w))
    <2>1. UNCHANGED <<refills, codes>>
        BY <1>6 DEF Finish
    <2>2. QED BY <1>1, <1>3, <1>4, <2>1, LeavingKeeps
<1>7. CASE SettlesClaim(w) /\ ~FinishRaises(w) /\ runs[w].outcome # "complete"
    <2>1. EndAttempt(r, runs[w].outcome) /\ codes' = codes
        BY <1>7 DEF Finish
    <2>2. runs[w].outcome = "failed" => Creator(runs[w]) /\ NoneMade(r)
        BY <1>1 DEF Creator, Concluding
    <2>3. codes \subseteq codes' /\ codes' \subseteq Code
        BY <1>5, <2>1
    <2>4. QED BY <1>1, <1>2, <1>3, <1>4, <1>7, <2>1, <2>2, <2>3, SettlingKeeps
<1>8. CASE SettlesClaim(w) /\ ~FinishRaises(w) /\ runs[w].outcome = "complete"
    <2>1. PICK b \in made : b.refill = r /\ runs[w].found = {b}
        BY <1>1, <1>8 DEF Concluding
    <2>2. EndAttempt(r, "complete") /\ codes' = Imported({b}, refills[r].pool)
        BY <1>8, <2>1 DEF Finish
    <2>3. refills[r] \in Refill /\ b \in Batch
        BY <1>1 DEF SupplyInv, Types, SupplyTypeOK
    <2>4. refills[r].pool \in SupplyPools
        BY <2>3 DEF Refill
    <2>5. /\ codes \subseteq codes' /\ codes' \subseteq Code
          /\ [batch |-> b, pool |-> refills[r].pool] \in codes'
        BY <1>5, <2>2, <2>3, <2>4, ImportGives
    <2>6. QED BY <1>1, <1>3, <1>4, <1>8, <2>1, <2>2, <2>5, SettlingKeeps
<1> QED BY <1>6, <1>7, <1>8

\* A run that does not know says so.
LEMMA FinishUnknownKeeps ==
    ASSUME SupplyInv, NEW w \in RefillWorkers, FinishUnknown(w)
    PROVE  SupplyInv'
<1>1. /\ runs[w].at = "finish_unknown" /\ InHand(runs[w])
      /\ UNCHANGED <<pools, now, codes, spent, calls, made, mishaps>>
    BY DEF FinishUnknown, InHand
<1>2. OneRun(w) /\ ~InHand(runs'[w])
    BY LetsGo DEF FinishUnknown, SupplyInv, Types, SupplyTypeOK
<1>3. mishaps' \in Nat /\ codes \subseteq codes' /\ codes' \subseteq Code
    BY <1>1 DEF SupplyInv, Types, SupplyTypeOK
<1>4. CASE ~SettlesClaim(w)
    <2>1. refills' = refills
        BY <1>4 DEF FinishUnknown
    <2>2. QED BY <1>1, <1>2, <1>3, <2>1, LeavingKeeps
<1>5. CASE SettlesClaim(w)
    <2>1. EndAttempt(runs[w].refill, "unknown")
        BY <1>5 DEF FinishUnknown
    <2>2. QED BY <1>1, <1>2, <1>3, <1>5, <2>1, SettlingKeeps
<1> QED BY <1>4, <1>5

----------------------------------------------------------------------------
(* The claim.                                                              *)

\* When nothing is to be done, stale claims have only lapsed.
LEMMA ClaimNothingKeeps ==
    ASSUME SupplyInv, NEW w \in RefillWorkers, ClaimNothing(w)
    PROVE  SupplyInv'
<1>1. UNCHANGED <<pools, now, codes, spent, calls, made, mishaps>> /\ refills' = StaleResolved
    BY DEF ClaimNothing
<1>2. /\ refills' \in [RefillIds -> Refill]
      /\ \A r \in RefillIds : Lapses(refills[r], refills'[r])
    BY <1>1, StaleLapses DEF SupplyInv, Types, SupplyTypeOK
<1>3. OneRun(w) /\ ~InHand(runs'[w])
    BY LetsGo DEF ClaimNothing, SupplyInv, Types, SupplyTypeOK
<1>4. Types'
    BY <1>1, <1>2, <1>3 DEF OneRun, SupplyInv, Types, SupplyTypeOK
<1>5. Books'
    <2>1. \A r \in RefillIds : MovesOn(r)
        BY <1>2 DEF Lapses, MovesOn, Active, SupplyInv, Books, AttemptOK
    <2>2. QED BY <1>1, <1>2, <2>1, BooksMove DEF SupplyInv
<1>6. Hands'
    <2>1. ASSUME NEW v \in RefillWorkers PROVE Suits(v, runs[v])
        <3>1. InHand(runs[v]) => runs[v].refill \in RefillIds
            BY DEF SupplyInv, Hands, RunOK
        <3>2. QED BY <1>1, <1>2, <3>1, LapseSuits DEF SupplyInv
    <2>2. RunOK(w, runs[w])' /\ ~Creator(runs'[w])
        BY <1>3 DEF RunOK, InHand, Creator
    <2>3. QED BY <1>1, <1>3, <2>1, <2>2, HandsMove DEF SupplyInv
<1> QED BY <1>4, <1>5, <1>6 DEF SupplyInv

\* An attempt of f taken over by a run.
Taken(f, r, w) == [f EXCEPT ![r].token = w, ![r].claimed = "fresh"]

\* Taking an attempt over changes its claim only.
LEMMA TakenGives ==
    ASSUME NEW f \in [RefillIds -> Refill], NEW r \in RefillIds, NEW w \in RefillWorkers
    PROVE  LET g == Taken(f, r, w)
           IN /\ g \in [RefillIds -> Refill]
              /\ g[r].token = w /\ g[r].status = f[r].status /\ g[r].pool = f[r].pool
              /\ \A s \in RefillIds : s # r => g[s] = f[s]
<1> DEFINE x == [f[r] EXCEPT !.token = w]
           y == [x EXCEPT !.claimed = "fresh"]
<1>1. f[r] \in Refill
    OBVIOUS
<1>2. x \in Refill /\ x.token = w /\ x.status = f[r].status /\ x.pool = f[r].pool
    BY <1>1 DEF Refill
<1>3. Taken(f, r, w) = [f EXCEPT ![r] = y]
    BY DEF Taken
<1> HIDE DEF x
<1>4. y \in Refill /\ y.token = w /\ y.status = f[r].status /\ y.pool = f[r].pool
    BY <1>2 DEF Refill
<1> HIDE DEF y
<1> QED BY <1>3, <1>4

\* Taking over an uncertain attempt keeps it uncertain; its creator has lost it.
LEMMA ClaimUnknownKeeps ==
    ASSUME SupplyInv, NEW w \in RefillWorkers, ClaimUnknown(w)
    PROVE  SupplyInv'
<1>1. PICK r \in Earliest(Reconcilable(w)) :
          /\ refills' = Taken(StaleResolved, r, w)
          /\ Claims(w, r, refills[r].pool, "reconcile")
    BY DEF ClaimUnknown, Taken
<1>2. UNCHANGED <<pools, now, codes, spent, calls, made, mishaps>>
    BY DEF ClaimUnknown
<1>3. r \in RefillIds /\ StaleResolved[r].status = "unknown"
    BY <1>1 DEF Earliest, Reconcilable
<1>4. /\ StaleResolved \in [RefillIds -> Refill]
      /\ \A s \in RefillIds : Lapses(refills[s], StaleResolved[s])
    BY StaleLapses DEF SupplyInv, Types, SupplyTypeOK
<1>5. /\ refills' \in [RefillIds -> Refill]
      /\ refills'[r].token = w /\ refills'[r].status = "unknown"
      /\ refills'[r].pool = refills[r].pool
      /\ \A s \in RefillIds : s # r => Lapses(refills[s], refills'[s])
    <2> HIDE DEF StaleResolved
    <2>1. Lapses(refills[r], StaleResolved[r])
        BY <1>3, <1>4
    <2>2. QED BY <1>1, <1>3, <1>4, <2>1, TakenGives DEF Lapses
<1>6. refills[r].status \in {"submitting", "unknown"}
    <2>1. Lapses(refills[r], StaleResolved[r])
        BY <1>3, <1>4
    <2> HIDE DEF StaleResolved
    <2>2. QED BY <1>3, <2>1 DEF Lapses
<1>7. OneRun(w) /\ runs'[w].at = "reconcile" /\ runs'[w].refill = r
    <2>1. refills[r] \in Refill
        BY <1>3 DEF SupplyInv, Types, SupplyTypeOK
    <2>2. refills[r].pool \in SupplyPools
        BY <2>1 DEF Refill
    <2>3. QED BY <1>1, <1>3, <2>2, ClaimGives DEF SupplyInv
<1>8. Types'
    BY <1>2, <1>5, <1>7 DEF OneRun, SupplyInv, Types, SupplyTypeOK
<1>9. Books'
    <2>1. MovesOn(r)
        BY <1>5, <1>6 DEF MovesOn, Active
    <2>2. \A s \in RefillIds : s # r => MovesOn(s)
        BY <1>5 DEF Lapses, MovesOn, Active, SupplyInv, Books, AttemptOK
    <2>3. \A s \in RefillIds : MovesOn(s)
        BY <2>1, <2>2
    <2>4. QED BY <1>2, <1>5, <2>3, BooksMove DEF SupplyInv
<1>10. Hands'
    <2>1. ASSUME NEW v \in RefillWorkers, v # w PROVE Suits(v, runs[v])
        <3>1. RunOK(v, runs[v])
            BY DEF SupplyInv, Hands
        <3>2. CASE InHand(runs[v]) /\ runs[v].refill = r
            <4>1. runs[v].at \notin {"prepare", "begin"}
                BY <1>6, <3>1, <3>2 DEF RunOK, Unasked
            <4>2. NoneMade(r) => \A y \in calls' \cup made' : y.refill # r
                BY <1>2 DEF NoneMade
            <4>3. QED BY <1>5, <2>1, <3>2, <4>1, <4>2 DEF Suits
        <3>3. CASE ~(InHand(runs[v]) /\ runs[v].refill = r)
            <4>1. InHand(runs[v]) => Lapses(refills[runs[v].refill], refills'[runs[v].refill])
                BY <1>5, <3>1, <3>3 DEF RunOK
            <4>2. QED BY <1>2, <4>1, LapseSuits DEF SupplyInv
        <3>4. QED BY <3>2, <3>3
    <2>2. ~Creator(runs'[w])
        BY <1>7 DEF Creator
    <2>3. RunOK(w, runs[w])'
        BY <1>3, <1>5, <1>7, <2>2
           DEF RunOK, Unasked, Asking, Comparing, Verifying, Concluding
    <2>4. QED BY <1>2, <1>7, <2>1, <2>2, <2>3, HandsMove DEF SupplyInv
<1> QED BY <1>8, <1>9, <1>10 DEF SupplyInv

\* A new attempt is made in an account where none is open, and by one run.
LEMMA ClaimNewKeeps ==
    ASSUME SupplyInv, NEW w \in RefillWorkers, ClaimNew(w)
    PROVE  SupplyInv'
<1> DEFINE new(p) == [status |-> "preparing", pool |-> p, token |-> w, claimed |-> "fresh",
                      begun |-> FALSE]
<1>1. PICK p \in Due, r \in Earliest(Unused) :
          /\ refills' = [StaleResolved EXCEPT ![r] = new(p)]
          /\ Claims(w, r, p, "prepare")
    BY DEF ClaimNew
<1>2. UNCHANGED <<pools, now, codes, spent, calls, made, mishaps>>
    BY DEF ClaimNew
<1>3. /\ r \in RefillIds /\ refills[r].status = "none"
      /\ p \in SupplyPools /\ AccountIsFree(Account[p])
    BY <1>1 DEF Earliest, Unused, Due
<1>4. /\ StaleResolved \in [RefillIds -> Refill]
      /\ \A s \in RefillIds : Lapses(refills[s], StaleResolved[s])
    BY StaleLapses DEF SupplyInv, Types, SupplyTypeOK
<1>5. new(p) \in Refill /\ new(p).status = "preparing" /\ new(p).token = w /\ new(p).pool = p
    BY <1>3 DEF Refill
<1> HIDE DEF new
<1>6. /\ refills' \in [RefillIds -> Refill]
      /\ refills'[r].token = w /\ refills'[r].status = "preparing"
      /\ refills'[r].pool = p
      /\ \A s \in RefillIds : s # r => Lapses(refills[s], refills'[s])
      /\ \A s \in RefillIds : s # r => refills'[s] = StaleResolved[s]
    <2> HIDE DEF StaleResolved
    <2>1. QED BY <1>1, <1>3, <1>4, <1>5
<1>7. OneRun(w) /\ runs'[w].at = "prepare" /\ runs'[w].refill = r
    BY <1>1, <1>3, ClaimGives DEF SupplyInv
<1>8. Types'
    BY <1>2, <1>6, <1>7 DEF OneRun, SupplyInv, Types, SupplyTypeOK
<1>9. Books'
    <2>1. MovesOn(r)
        <3>1. ASSUME NEW s \in RefillIds, s # r, Active(s)'
              PROVE  Account[refills'[s].pool] # Account[p]
            <4>1. StaleResolved[s].status \in {"preparing", "submitting", "unknown"}
                BY <1>6, <3>1 DEF Active
            <4>2. Account[refills[s].pool] # Account[p]
                BY <1>3, <4>1 DEF AccountIsFree
            <4>3. QED BY <1>6, <3>1, <4>2 DEF Lapses
        <3>2. QED BY <1>3, <1>6, <3>1 DEF MovesOn
    <2>2. \A s \in RefillIds : s # r => MovesOn(s)
        BY <1>6 DEF Lapses, MovesOn, Active, SupplyInv, Books, AttemptOK
    <2>3. \A s \in RefillIds : MovesOn(s)
        BY <2>1, <2>2
    <2>4. QED BY <1>2, <1>6, <2>3, BooksMove DEF SupplyInv
<1>10. ASSUME NEW v \in RefillWorkers, v # w
       PROVE  /\ Suits(v, runs[v])
              /\ InHand(runs[v]) => runs[v].refill # r
    <2>1. RunOK(v, runs[v])
        BY DEF SupplyInv, Hands
    <2>2. InHand(runs[v]) => runs[v].refill # r
        BY <1>3, <2>1 DEF RunOK
    <2>3. InHand(runs[v]) => Lapses(refills[runs[v].refill], refills'[runs[v].refill])
        BY <1>6, <2>1, <2>2 DEF RunOK
    <2>4. QED BY <1>2, <2>2, <2>3, LapseSuits DEF SupplyInv
<1>11. Hands'
    <2>1. \A v \in RefillWorkers : v # w => RunOK(v, runs[v])'
        BY <1>2, <1>7, <1>10, Rests DEF SupplyInv, OneRun
    <2>2. RunOK(w, runs[w])'
        <3>1. NoneMade(r)
            BY <1>3 DEF SupplyInv, Books, AttemptOK
        <3>2. Unasked(w, runs[w])'
            BY <1>2, <1>6, <1>7, <3>1 DEF Unasked, NoneMade
        <3>3. QED BY <1>3, <1>6, <1>7, <3>2
                  DEF RunOK, Asking, Comparing, Verifying, Concluding
    <2>3. OneCreator'
        <3>1. \A v \in RefillWorkers : v # w /\ Creator(runs'[v]) => runs'[v].refill # r
            BY <1>7, <1>10 DEF OneRun, Creator, InHand
        <3>2. QED BY <1>7, <3>1 DEF SupplyInv, Hands, OneCreator, OneRun
    <2>4. QED BY <2>1, <2>2, <2>3 DEF Hands
<1> QED BY <1>8, <1>9, <1>11 DEF SupplyInv

----------------------------------------------------------------------------
(* The provider, the clock, the operators and the customers.               *)

\* Steps that touch neither attempts nor creations keep the invariant.
LEMMA ElsewhereKeeps ==
    ASSUME SupplyInv, Types', UNCHANGED <<refills, runs, calls, made>>, codes \subseteq codes'
    PROVE  SupplyInv'
<1>1. Books'
    <2>1. \A r \in RefillIds : MovesOn(r)
        BY DEF MovesOn
    <2>2. refills' \in [RefillIds -> Refill]
        BY DEF Types, SupplyTypeOK
    <2>3. QED BY <2>1, <2>2, BooksMove DEF SupplyInv
<1>2. \A v \in RefillWorkers : Suits(v, runs[v])
    BY QuietSuits DEF SupplyInv, NoneMade
<1>3. Hands'
    BY <1>2, HandsRest DEF SupplyInv
<1> QED BY <1>1, <1>3 DEF SupplyInv

\* The clock, the switches of the pools and the use of codes are such steps, and so is
\* the import of a batch made by hand.
LEMMA OutsideKeeps ==
    ASSUME SupplyInv,
           \/ TimePasses
           \/ \E p \in SupplyPools : SetEnabled(p)
           \/ \E p \in SupplyPools : \E b \in made : AdminImport(b, p)
           \/ \E c \in codes : Spend(c)
    PROVE  SupplyInv'
<1>1. CASE TimePasses
    <2>1. Types' /\ UNCHANGED <<refills, runs, calls, made, codes>>
        BY <1>1 DEF TimePasses, SupplyInv, Types, SupplyTypeOK
    <2>2. QED BY <2>1, ElsewhereKeeps
<1>2. ASSUME NEW p \in SupplyPools, SetEnabled(p) PROVE SupplyInv'
    <2>1. /\ UNCHANGED <<now, refills, codes, spent, runs, calls, made>>
          /\ mishaps' \in Nat
        BY <1>2, MishapsCount DEF SetEnabled, SupplyInv, Types
    <2>2. pools' \in [SupplyPools -> [enabled : BOOLEAN, term : Nat]]
        <3>1. pools[p] \in [enabled : BOOLEAN, term : Nat]
            BY DEF SupplyInv, Types, SupplyTypeOK
        <3>2. \E x \in BOOLEAN : pools' = [pools EXCEPT ![p].enabled = x]
            BY <1>2, <3>1 DEF SetEnabled
        <3>3. QED BY <3>1, <3>2 DEF SupplyInv, Types, SupplyTypeOK
    <2>3. Types'
        BY <2>1, <2>2 DEF SupplyInv, Types, SupplyTypeOK
    <2>4. QED BY <2>1, <2>3, ElsewhereKeeps
<1>3. ASSUME NEW p \in SupplyPools, NEW b \in made, AdminImport(b, p) PROVE SupplyInv'
    <2>1. /\ UNCHANGED <<pools, now, refills, spent, runs, calls, made, mishaps>>
          /\ codes' = Imported({b}, p)
        BY <1>3 DEF AdminImport
    <2>2. codes \subseteq codes' /\ codes' \subseteq Code
        BY <2>1, ImportGives DEF SupplyInv, Types, SupplyTypeOK
    <2>3. Types'
        BY <2>1, <2>2 DEF SupplyInv, Types, SupplyTypeOK
    <2>4. QED BY <2>1, <2>2, <2>3, ElsewhereKeeps
<1>4. ASSUME NEW c \in codes, Spend(c) PROVE SupplyInv'
    <2>1. Types' /\ UNCHANGED <<refills, runs, calls, made, codes>>
        BY <1>4 DEF Spend, SupplyInv, Types, SupplyTypeOK
    <2>2. QED BY <2>1, ElsewhereKeeps
<1> QED BY <1>1, <1>2, <1>3, <1>4

\* Five minutes change no claim that is held, only its age.
LEMMA ClaimAgesKeeps ==
    ASSUME SupplyInv, NEW r \in RefillIds, ClaimAges(r)
    PROVE  SupplyInv'
<1>1. UNCHANGED <<pools, now, codes, spent, runs, calls, made>>
    BY DEF ClaimAges
<1>2. mishaps' \in Nat
    BY MishapsCount DEF ClaimAges, SupplyInv, Types
<1>3. /\ refills' \in [RefillIds -> Refill]
      /\ \A s \in RefillIds : /\ refills'[s].status = refills[s].status
                              /\ refills'[s].token = refills[s].token
                              /\ refills'[s].pool = refills[s].pool
    <2> DEFINE x == [refills[r] EXCEPT !.claimed = "stale"]
    <2>1. refills' = [refills EXCEPT ![r] = x] /\ refills[r] \in Refill
        BY DEF ClaimAges, SupplyInv, Types, SupplyTypeOK
    <2>2. /\ x \in Refill /\ x.status = refills[r].status /\ x.token = refills[r].token
          /\ x.pool = refills[r].pool
        BY <2>1 DEF Refill
    <2> HIDE DEF x
    <2>3. QED BY <2>1, <2>2 DEF SupplyInv, Types, SupplyTypeOK
<1>4. Types'
    BY <1>1, <1>2, <1>3 DEF SupplyInv, Types, SupplyTypeOK
<1>5. Books'
    <2>1. \A s \in RefillIds : MovesOn(s)
        BY <1>3 DEF MovesOn
    <2>2. QED BY <1>1, <1>3, <2>1, BooksMove DEF SupplyInv
<1>6. ASSUME NEW v \in RefillWorkers PROVE Suits(v, runs[v])
    <2>1. InHand(runs[v]) => runs[v].refill \in RefillIds
        BY DEF SupplyInv, Hands, RunOK
    <2>2. InHand(runs[v]) => Lapses(refills[runs[v].refill], refills'[runs[v].refill])
        BY <1>3, <2>1 DEF Lapses
    <2>3. QED BY <1>1, <2>2, LapseSuits DEF SupplyInv
<1>7. Hands'
    BY <1>1, <1>6, HandsRest DEF SupplyInv
<1> QED BY <1>4, <1>5, <1>7 DEF SupplyInv

\* A person who has found the batch of an uncertain attempt closes it; nobody that
\* has not made its request yet can be working on it.
LEMMA AdminRecoverKeeps ==
    ASSUME SupplyInv, NEW r \in RefillIds, AdminRecover(r)
    PROVE  SupplyInv'
<1>1. /\ UNCHANGED <<pools, now, spent, runs, calls, made, mishaps>>
      /\ EndAttempt(r, "complete") /\ refills[r].status = "unknown"
    BY DEF AdminRecover, RecoveryAllowed
<1>2. PICK b \in made : b.refill = r /\ codes' = Imported({b}, refills[r].pool)
    BY DEF AdminRecover
<1>3. /\ OneAttempt(r)
      /\ refills'[r].status = "complete" /\ refills'[r].token = NoWorker
      /\ refills'[r].pool = refills[r].pool
    BY <1>1, EndGives DEF SupplyInv, Types, SupplyTypeOK
<1>4. /\ codes \subseteq codes' /\ codes' \subseteq Code
      /\ [batch |-> b, pool |-> refills[r].pool] \in codes'
    <2>1. refills[r] \in Refill /\ b \in Batch /\ codes \subseteq Code
        BY DEF SupplyInv, Types, SupplyTypeOK
    <2>2. refills[r].pool \in SupplyPools
        BY <2>1 DEF Refill
    <2>3. QED BY <1>2, <2>1, <2>2, ImportGives
<1>5. Types'
    BY <1>1, <1>3, <1>4 DEF OneAttempt, SupplyInv, Types, SupplyTypeOK
<1>6. Books'
    <2>1. MovesOn(r)
        BY <1>1, <1>2, <1>3, <1>4 DEF MovesOn, Active
    <2>2. \A s \in RefillIds : MovesOn(s)
        BY <1>3, <2>1 DEF MovesOn, OneAttempt
    <2>3. QED BY <1>1, <1>3, <1>4, <2>2, BooksMove DEF OneAttempt, SupplyInv
<1>7. ASSUME NEW v \in RefillWorkers PROVE Suits(v, runs[v])
    <2>1. RunOK(v, runs[v])
        BY DEF SupplyInv, Hands
    <2>2. CASE InHand(runs[v]) /\ runs[v].refill = r
        <3>1. ~NoneMade(r)
            BY <1>2 DEF NoneMade
        <3>2. runs[v].at \notin {"prepare", "begin", "create"}
            BY <2>1, <2>2, <3>1 DEF RunOK, Unasked, Asking
        <3>3. QED BY <1>3, <2>2, <3>1, <3>2 DEF Suits
    <2>3. CASE ~(InHand(runs[v]) /\ runs[v].refill = r)
        <3>1. InHand(runs[v]) => Lapses(refills[runs[v].refill], refills'[runs[v].refill])
            BY <1>3, <2>1, <2>3 DEF RunOK, OneAttempt, Lapses
        <3>2. QED BY <1>1, <3>1, LapseSuits DEF SupplyInv
    <2>4. QED BY <2>2, <2>3
<1>8. Hands'
    BY <1>1, <1>7, HandsRest DEF SupplyInv
<1> QED BY <1>5, <1>6, <1>8 DEF SupplyInv

\* A batch carries the attempt and the account of the call that asked for it.
LEMMA ExecutedGives ==
    ASSUME NEW c \in Batch, now \in Nat
    PROVE  LET b == Executed(c)
           IN b \in Batch /\ b.refill = c.refill /\ b.by = c.by /\ b.account = c.account
<1>1. Renewed \in Nat
    BY DEF Renewed
<1> HIDE DEF Renewed
<1> DEFINE x == [c EXCEPT !.term = Renewed]
<1>2. x \in Batch /\ x.refill = c.refill /\ x.by = c.by /\ x.account = c.account
    BY <1>1 DEF Batch
<1>3. Executed(c) = c \/ Executed(c) = x
    BY DEF Executed
<1> HIDE DEF x
<1> QED BY <1>2, <1>3

\* The provider makes the batch of a call once, and the call is gone.
LEMMA MakeBatchKeeps ==
    ASSUME SupplyInv, NEW c \in calls, MakeBatch(c)
    PROVE  SupplyInv'
<1>1. UNCHANGED <<pools, now, refills, codes, spent, runs, mishaps>> /\ calls' = calls \ {c}
    BY DEF MakeBatch
<1>2. PICK d : d = Executed(c)
    OBVIOUS
<1>3. /\ d \in Batch /\ d.refill = c.refill /\ d.by = c.by /\ d.account = c.account
      /\ made' = made \cup {d}
    <2>1. c \in Batch /\ now \in Nat
        BY DEF SupplyInv, Types, SupplyTypeOK
    <2>2. QED BY <1>2, <2>1, ExecutedGives DEF MakeBatch
<1>4. CallOK(c) /\ \A b \in made : b.refill # c.refill
    BY DEF SupplyInv, Books, MadeOnce
<1>5. Types'
    <2>1. IsFiniteSet(made')
        BY <1>3, FS_AddElement DEF SupplyInv, Types
    <2>2. SupplyTypeOK'
        BY <1>1, <1>3 DEF SupplyInv, Types, SupplyTypeOK
    <2>3. QED BY <2>1, <2>2 DEF Types
<1>6. \A r \in RefillIds : NoneMade(r) => NoneMade(r)'
    BY <1>1, <1>3 DEF NoneMade
<1>7. Books'
    <2>1. \A r \in RefillIds : AttemptOK(r)'
        BY <1>1, <1>6 DEF SupplyInv, Books, AttemptOK
    <2>2. \A x \in calls' : CallOK(x)'
        BY <1>1 DEF SupplyInv, Books, CallOK
    <2>3. BatchOK(d)'
        BY <1>1, <1>3, <1>4 DEF CallOK, BatchOK, Active
    <2>4. \A b \in made : BatchOK(b)'
        BY <1>1 DEF SupplyInv, Books, BatchOK, Active
    <2>5. MadeOnce'
        BY <1>1, <1>3, <1>4 DEF SupplyInv, Books, MadeOnce
    <2>6. OneOpen'
        BY <1>1 DEF SupplyInv, Books, OneOpen, Active
    <2>7. \A b \in made' : BatchOK(b)'
        BY <1>3, <2>3, <2>4
    <2>8. QED BY <2>1, <2>2, <2>5, <2>6, <2>7 DEF Books
<1>8. ASSUME NEW v \in RefillWorkers PROVE Suits(v, runs[v])
    <2>1. NoneMade(runs[v].refill) => \A y \in calls' \cup made' : y.refill # runs[v].refill
        BY <1>1, <1>3 DEF NoneMade
    <2>2. QED BY <1>1, <2>1, QuietSuits DEF SupplyInv
<1>9. Hands'
    BY <1>1, <1>3, <1>8, HandsRest DEF SupplyInv
<1> QED BY <1>5, <1>7, <1>9 DEF SupplyInv

\* A call that is lost, or a batch made by hand, belongs to no attempt any more.
LEMMA StrayKeeps ==
    ASSUME SupplyInv,
           \/ \E c \in calls : LoseCall(c)
           \/ \E account \in Accounts : MakeByHand(account)
    PROVE  SupplyInv'
<1>1. /\ UNCHANGED <<pools, now, refills, codes, spent, runs>>
      /\ mishaps' \in Nat
    BY MishapsCount DEF LoseCall, MakeByHand, SupplyInv, Types
<1>2. calls' \subseteq calls
    BY DEF LoseCall, MakeByHand
<1>3. \/ made' = made
      \/ \E b \in Batch : b.refill = 0 /\ made' = made \cup {b}
    <2>1. Renewed \in Nat
        BY DEF Renewed, SupplyInv, Types, SupplyTypeOK
    <2> HIDE DEF Renewed
    <2>2. ASSUME NEW account \in Accounts, MakeByHand(account)
          PROVE  \E b \in Batch : b.refill = 0 /\ made' = made \cup {b}
        <3> DEFINE b == [refill |-> 0, by |-> NoWorker, account |-> account, term |-> Renewed]
        <3>1. b \in Batch /\ b.refill = 0
            BY <2>1 DEF Batch
        <3>2. QED BY <2>2, <3>1 DEF MakeByHand
    <2>3. QED BY <2>2 DEF LoseCall
<1>4. IsFiniteSet(made') /\ made' \subseteq Batch
    <2>1. CASE made' = made
        BY <2>1 DEF SupplyInv, Types, SupplyTypeOK
    <2>2. ASSUME NEW b \in Batch, made' = made \cup {b} PROVE IsFiniteSet(made') /\ made' \subseteq Batch
        BY <2>2, FS_AddElement DEF SupplyInv, Types, SupplyTypeOK
    <2>3. QED BY <1>3, <2>1, <2>2
<1>5. Types'
    BY <1>1, <1>2, <1>4 DEF SupplyInv, Types, SupplyTypeOK
<1>6. /\ made \subseteq made'
      /\ \A b \in made' : b \in made \/ b.refill = 0
    BY <1>3
<1>7. \A r \in RefillIds : 0 # r
    BY DEF RefillIds
<1>8. Books'
    <2>1. \A r \in RefillIds : AttemptOK(r)'
        BY <1>1, <1>2, <1>6, <1>7 DEF SupplyInv, Books, AttemptOK, NoneMade
    <2>2. \A c \in calls' : CallOK(c)'
        BY <1>1, <1>2 DEF SupplyInv, Books, CallOK
    <2>3. \A b \in made' : BatchOK(b)'
        BY <1>1, <1>6 DEF SupplyInv, Books, BatchOK, Active
    <2>4. MadeOnce'
        <3>1. \A c \in calls : c.refill # 0
            BY <1>7 DEF SupplyInv, Books, CallOK
        <3>2. QED BY <1>2, <1>6, <3>1 DEF SupplyInv, Books, MadeOnce
    <2>5. OneOpen'
        BY <1>1 DEF SupplyInv, Books, OneOpen, Active
    <2>6. QED BY <2>1, <2>2, <2>3, <2>4, <2>5 DEF Books
<1>9. ASSUME NEW v \in RefillWorkers PROVE Suits(v, runs[v])
    <2>1. CASE ~InHand(runs[v])
        BY <2>1 DEF Suits
    <2>2. CASE InHand(runs[v])
        <3>1. runs[v].refill \in RefillIds
            BY <2>2 DEF SupplyInv, Hands, RunOK
        <3>2. NoneMade(runs[v].refill) => \A y \in calls' \cup made' : y.refill # runs[v].refill
            BY <1>2, <1>6, <1>7, <3>1 DEF NoneMade
        <3>3. QED BY <1>1, <3>2, QuietSuits DEF SupplyInv
    <2>3. QED BY <2>1, <2>2
<1>10. Hands'
    BY <1>1, <1>6, <1>9, HandsRest DEF SupplyInv
<1> QED BY <1>5, <1>8, <1>10 DEF SupplyInv

----------------------------------------------------------------------------
(* The theorems.                                                           *)

\* The invariant holds when no attempt was made yet.
LEMMA SupplyStarts == SupplyInit => SupplyInv
<1> SUFFICES ASSUME SupplyInit PROVE SupplyInv
    OBVIOUS
<1> DEFINE pool == CHOOSE p \in SupplyPools : TRUE
<1>1. pool \in SupplyPools
    BY SupplyConstants
<1> HIDE DEF pool
<1>2. NoRefill(pool) \in Refill /\ NoRefill(pool).status = "none"
    BY <1>1 DEF NoRefill, Refill
<1>3. /\ refills \in [RefillIds -> Refill]
      /\ \A r \in RefillIds : refills[r].status = "none"
    BY <1>2 DEF SupplyInit, pool
<1>4. IdleRun \in Run /\ IdleRun.at = "idle"
    BY DEF IdleRun, Run
<1>5. /\ runs \in [RefillWorkers -> Run]
      /\ \A w \in RefillWorkers : runs[w].at = "idle"
    BY <1>4 DEF SupplyInit
<1>6. Types
    BY <1>3, <1>5, FS_EmptySet DEF SupplyInit, Types, SupplyTypeOK
<1>7. Books
    BY <1>3 DEF SupplyInit, Books, AttemptOK, NoneMade, MadeOnce, OneOpen, Active
<1>8. Hands
    BY <1>5 DEF Hands, RunOK, InHand, OneCreator, Creator
<1> QED BY <1>6, <1>7, <1>8 DEF SupplyInv

\* Every step keeps it.
LEMMA SupplyStep == SupplyInv /\ [SupplyNext]_supplyVars => SupplyInv'
<1> SUFFICES ASSUME SupplyInv, [SupplyNext]_supplyVars PROVE SupplyInv'
    OBVIOUS
<1>1. ASSUME NEW w \in RefillWorkers, WorkerStep(w) PROVE SupplyInv'
    <2>1. GoesOn(w) \/ AnswerRejected(w) \/ FinishIsLost(w) \/ Crash(w)
        BY <1>1 DEF WorkerStep
    <2>2. CASE GoesOn(w)
        BY <2>2, RolloverKeeps, ClaimUnknownKeeps, ClaimNewKeeps, ClaimNothingKeeps,
           PrepareKeeps, BeginKeeps, CreateKeeps, AnswerMadeKeeps, StopWaitingKeeps,
           LookingKeeps, FinishKeeps, FinishUnknownKeeps, Zenon
           DEF GoesOn
    <2>3. QED BY <2>1, <2>2, AnswerRejectedKeeps, FinishIsLostKeeps, CrashKeeps, Zenon
<1>2. CASE ProviderStep
    BY <1>2, MakeBatchKeeps, StrayKeeps, Zenon DEF ProviderStep
<1>3. CASE PeopleStep
    BY <1>3, OutsideKeeps, AdminRecoverKeeps, Zenon DEF PeopleStep
<1>4. CASE TimePasses
    BY <1>4, OutsideKeeps
<1>5. ASSUME NEW r \in RefillIds, ClaimAges(r) PROVE SupplyInv'
    BY <1>5, ClaimAgesKeeps
<1>6. CASE UNCHANGED supplyVars
    <2>1. Types' /\ UNCHANGED <<refills, runs, calls, made, codes>>
        BY <1>6 DEF supplyVars, SupplyInv, Types, SupplyTypeOK
    <2>2. QED BY <2>1, ElsewhereKeeps
<1> QED BY <1>1, <1>2, <1>3, <1>4, <1>5, <1>6, Zenon DEF SupplyNext

\* In every reachable state of the supply the books agree with the provider and every
\* run can rely on what it relies on.
THEOREM SupplyInvariant == SupplySpec => []SupplyInv
<1> QED BY SupplyStarts, SupplyStep, PTL DEF SupplySpec

\* The state of the supply stays in its types.
THEOREM SupplyTypesHold == SupplySpec => []SupplyTypeOK
<1>1. SupplyInv => SupplyTypeOK
    BY DEF SupplyInv, Types
<1> QED BY <1>1, SupplyInvariant, PTL

\* Value that was created is never forgotten: every batch that exists belongs to an
\* attempt that is still open or was imported into the pool it was made for, whatever
\* was lost, crashed, lapsed or was taken over.
THEOREM NoBatchIsForgotten == SupplySpec => []BatchesAreAccountedFor
<1>1. SupplyInv => BatchesAreAccountedFor
    BY DEF SupplyInv, Books, BatchOK, BatchesAreAccountedFor
<1> QED BY <1>1, SupplyInvariant, PTL

\* At most one creation is under way, or made and not yet imported, in an account: two
\* of them would belong to two open attempts of the account, or to one that asked twice.
THEOREM OneCreationAtATime == SupplySpec => []OneCreationPerAccount
<1>1. SupplyInv => OneCreationPerAccount
    <2> SUFFICES ASSUME SupplyInv, NEW account \in Accounts
                 PROVE  Cardinality({b \in calls : b.account = account} \cup
                            {b \in made : /\ b.refill # 0 /\ b.account = account
                                          /\ \A c \in codes : c.batch # b}) <= 1
        BY DEF OneCreationPerAccount
    <2> DEFINE asked == {b \in calls : b.account = account}
               idle == {b \in made : /\ b.refill # 0 /\ b.account = account
                                     /\ \A c \in codes : c.batch # b}
               S == asked \cup idle
    <2>1. ASSUME NEW x \in S
          PROVE  /\ x.refill \in RefillIds /\ Active(x.refill)
                 /\ Account[refills[x.refill].pool] = account
        <3>1. CASE x \in asked
            BY <3>1 DEF SupplyInv, Books, CallOK, Active
        <3>2. CASE x \in idle
            <4>1. x \in made /\ x.refill # 0 /\ x.account = account
                BY <3>2
            <4>2. x.refill \in RefillIds
                BY <4>1 DEF SupplyInv, Types, SupplyTypeOK, Batch
            <4>3. BatchOK(x)
                BY <4>1 DEF SupplyInv, Books
            <4>4. [batch |-> x, pool |-> refills[x.refill].pool] \notin codes
                <5>1. [batch |-> x, pool |-> refills[x.refill].pool].batch = x
                    OBVIOUS
                <5>2. QED BY <3>2, <5>1
            <4>5. QED BY <4>1, <4>2, <4>3, <4>4 DEF BatchOK
        <3>3. QED BY <3>1, <3>2
    <2>2. ASSUME NEW x \in S, NEW y \in S PROVE x = y
        <3>1. x.refill = y.refill /\ x.refill # 0
            BY <2>1 DEF SupplyInv, Books, OneOpen, RefillIds
        <3>2. QED BY <3>1 DEF SupplyInv, Books, MadeOnce
    <2> HIDE DEF S
    <2>3. CASE S = {}
        BY <2>3, FS_EmptySet DEF S
    <2>4. CASE S # {}
        <3>1. PICK x : x \in S
            BY <2>4
        <3>2. S = {x}
            BY <2>2, <3>1
        <3>3. Cardinality(S) = 1
            BY <3>2, FS_Singleton
        <3>4. QED BY <3>3 DEF S
    <2>5. QED BY <2>3, <2>4
<1> QED BY <1>1, SupplyInvariant, PTL

\* An uncertain attempt r moves only by being imported.
EndsWithImport(r) ==
    refills[r].status = "unknown" /\ refills'[r].status # "unknown" =>
        /\ refills'[r].status = "complete"
        /\ \E c \in codes' : c.batch.refill = r /\ c.pool = refills[r].pool

\* Lapsing claims leave an uncertain attempt uncertain.
LEMMA LapsingEndsNothing ==
    ASSUME NEW r \in RefillIds, Lapses(refills[r], refills'[r])
    PROVE  EndsWithImport(r)
BY DEF Lapses, EndsWithImport

\* A run that settles an uncertain attempt is not its creator, so that it cannot call
\* it failed.
LEMMA FinishEndsWithImport ==
    ASSUME SupplyInv, NEW w \in RefillWorkers, NEW r \in RefillIds,
           Finish(w) \/ FinishUnknown(w)
    PROVE  EndsWithImport(r)
<1> SUFFICES ASSUME refills[r].status = "unknown", refills'[r].status # "unknown"
             PROVE  /\ refills'[r].status = "complete"
                    /\ \E c \in codes' : c.batch.refill = r /\ c.pool = refills[r].pool
    BY DEF EndsWithImport
<1>1. /\ runs[w].at \in {"finish", "finish_unknown"} /\ InHand(runs[w]) /\ RunOK(w, runs[w])
      /\ runs[w].refill \in RefillIds /\ runs[w] \in Run
    BY DEF Finish, FinishUnknown, InHand, SupplyInv, Hands, RunOK, Types, SupplyTypeOK
<1>2. CASE FinishUnknown(w)
    <2>1. EndAttempt(runs[w].refill, "unknown")
        BY <1>2 DEF FinishUnknown
    <2>2. QED BY <1>1, <2>1, EndGives DEF OneAttempt, SupplyInv, Types, SupplyTypeOK
<1>3. CASE Finish(w)
    <2>1. /\ SettlesClaim(w) /\ ~FinishRaises(w) /\ EndAttempt(runs[w].refill, runs[w].outcome)
          /\ runs[w].at = "finish"
        BY <1>3 DEF Finish
    <2>2. runs[w].outcome \in {"complete", "failed", "unknown"}
        BY <1>1, <2>1 DEF RunOK, Concluding, Run
    <2>3. /\ OneAttempt(runs[w].refill) /\ refills'[runs[w].refill].status = runs[w].outcome
        BY <1>1, <2>1, <2>2, EndGives DEF SupplyInv, Types, SupplyTypeOK
    <2>4. r = runs[w].refill
        BY <2>3 DEF OneAttempt
    <2>5. refills[r].token = w
        BY <2>1, <2>4 DEF SettlesClaim
    <2>6. runs[w].outcome # "failed"
        BY <1>1, <2>1, <2>4, <2>5 DEF RunOK, Creator
    <2>7. runs[w].outcome = "complete"
        BY <2>2, <2>3, <2>4, <2>6
    <2>8. PICK b \in made : b.refill = r /\ runs[w].found = {b}
        BY <1>1, <2>1, <2>4, <2>7 DEF RunOK, Concluding
    <2>9. codes' = Imported({b}, refills[r].pool)
        BY <1>3, <2>1, <2>4, <2>7, <2>8 DEF Finish
    <2> DEFINE c == [batch |-> b, pool |-> refills[r].pool]
    <2>10. c \in codes' /\ c.batch = b /\ c.pool = refills[r].pool
        BY <2>9 DEF Imported
    <2>11. QED BY <2>3, <2>4, <2>7, <2>8, <2>10
<1> QED BY <1>2, <1>3

\* The same of every step.
LEMMA UncertainStep ==
    ASSUME SupplyInv, [SupplyNext]_supplyVars, NEW r \in RefillIds
    PROVE  EndsWithImport(r)
<1>1. CASE refills' = refills
    BY <1>1 DEF EndsWithImport
<1>2. ASSUME NEW w \in RefillWorkers, WorkerStep(w), refills' # refills PROVE EndsWithImport(r)
    <2>1. \/ ClaimUnknown(w) \/ ClaimNew(w) \/ ClaimNothing(w)
          \/ Begin(w) \/ Finish(w) \/ FinishUnknown(w)
        BY <1>2 DEF WorkerStep, GoesOn, StartRollover, Rollover, Prepare, Create, AnswerMade,
                    StopWaiting, Verify, Reconcile, AnswerRejected, FinishIsLost, Crash
    <2>2. /\ StaleResolved \in [RefillIds -> Refill]
          /\ Lapses(refills[r], StaleResolved[r])
        BY StaleLapses DEF SupplyInv, Types, SupplyTypeOK
    <2>3. CASE ClaimNothing(w)
        BY <2>2, <2>3, LapsingEndsNothing DEF ClaimNothing
    <2>4. CASE ClaimUnknown(w)
        <3>1. PICK s \in RefillIds :
                  refills' = Taken(StaleResolved, s, w) /\ StaleResolved[s].status = "unknown"
            BY <2>4 DEF ClaimUnknown, Taken, Earliest, Reconcilable
        <3> HIDE DEF StaleResolved
        <3>2. refills'[r].status = StaleResolved[r].status
            BY <2>2, <3>1, TakenGives
        <3>3. QED BY <2>2, <3>2 DEF Lapses, EndsWithImport
    <2>5. CASE ClaimNew(w)
        <3>1. PICK s \in RefillIds :
                  refills[s].status = "none" /\ \E x : refills' = [StaleResolved EXCEPT ![s] = x]
            BY <2>5 DEF ClaimNew, Earliest, Unused
        <3> HIDE DEF StaleResolved
        <3>2. CASE r = s
            BY <3>1, <3>2 DEF EndsWithImport
        <3>3. CASE r # s
            BY <2>2, <3>1, <3>3, LapsingEndsNothing
        <3>4. QED BY <3>2, <3>3
    <2>6. CASE Begin(w)
        <3>1. BeginAccepted(w)
            BY <1>2, <2>6 DEF Begin
        <3>2. /\ runs[w].refill \in RefillIds
              /\ refills[runs[w].refill].status = "preparing"
              /\ refills' = [refills EXCEPT ![runs[w].refill].status = "submitting",
                                            ![runs[w].refill].begun = TRUE]
            BY <2>6, <3>1 DEF Begin, BeginAccepted, SupplyInv, Hands, RunOK, InHand
        <3>3. OneAttempt(runs[w].refill)
            BY <3>2, BeginGives DEF SupplyInv, Types, SupplyTypeOK
        <3>4. QED BY <3>2, <3>3 DEF OneAttempt, EndsWithImport
    <2>7. QED BY <2>1, <2>3, <2>4, <2>5, <2>6, FinishEndsWithImport
<1>3. ASSUME NEW s \in RefillIds, AdminRecover(s) PROVE EndsWithImport(r)
    <2>1. PICK b \in made : b.refill = s /\ codes' = Imported({b}, refills[s].pool)
        BY <1>3 DEF AdminRecover
    <2>2. OneAttempt(s) /\ refills'[s].status = "complete"
        BY <1>3, EndGives DEF AdminRecover, SupplyInv, Types, SupplyTypeOK
    <2> DEFINE c == [batch |-> b, pool |-> refills[s].pool]
    <2>3. c \in codes' /\ c.batch = b /\ c.pool = refills[s].pool
        BY <2>1 DEF Imported
    <2>4. QED BY <2>1, <2>2, <2>3 DEF OneAttempt, EndsWithImport
<1>4. ASSUME NEW s \in RefillIds, ClaimAges(s) PROVE EndsWithImport(r)
    <2> DEFINE x == [refills[s] EXCEPT !.claimed = "stale"]
    <2>1. refills' = [refills EXCEPT ![s] = x] /\ refills[s] \in Refill
        BY <1>4 DEF ClaimAges, SupplyInv, Types, SupplyTypeOK
    <2>2. x.status = refills[s].status
        BY <2>1 DEF Refill
    <2> HIDE DEF x
    <2>3. refills'[r].status = refills[r].status
        BY <2>1, <2>2 DEF SupplyInv, Types, SupplyTypeOK
    <2>4. QED BY <2>3 DEF EndsWithImport
<1>5. CASE UNCHANGED supplyVars \/ ProviderStep \/ TimePasses
    BY <1>1, <1>5 DEF supplyVars, ProviderStep, MakeBatch, LoseCall, MakeByHand, TimePasses
<1>6. CASE PeopleStep
    <2>1. CASE refills' # refills
        BY <1>3, <1>6, <2>1 DEF PeopleStep, SetEnabled, AdminImport, Spend
    <2>2. QED BY <1>1, <2>1
<1> QED BY <1>1, <1>2, <1>3, <1>4, <1>5, <1>6, Zenon DEF SupplyNext

\* An uncertain creation is closed only by the import of its batch into the pool it was
\* made for: no run and no person may conclude from silence that it failed.
THEOREM UncertaintyEndsWithImport == SupplySpec => UncertainEndsWithImport
<1>1. ASSUME SupplyInv, [SupplyNext]_supplyVars
      PROVE  [\A r \in RefillIds :
                 refills[r].status = "unknown" /\ refills[r].begun
                     /\ refills'[r].status # "unknown" =>
                    /\ refills'[r].status = "complete"
                    /\ \E c \in codes' : c.batch.refill = r /\ c.pool = refills[r].pool]_supplyVars
    BY <1>1, UncertainStep DEF EndsWithImport
<1> QED BY <1>1, SupplyInvariant, PTL DEF SupplySpec, UncertainEndsWithImport
=============================================================================
