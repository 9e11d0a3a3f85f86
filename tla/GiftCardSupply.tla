-------------------------- MODULE GiftCardSupply ---------------------------
(***************************************************************************)
(* How the stock of gift-card codes is refilled: the refill attempts in    *)
(* the database, overlapping runs of the supply worker, and the provider   *)
(* that creates batches of codes worth money.                              *)
(*                                                                         *)
(* Creating a batch cannot be undone and its answer can be lost, so an     *)
(* attempt whose outcome is uncertain stays "unknown" and blocks its       *)
(* provider account until the batch is found.                              *)
(*                                                                         *)
(* A batch stands for the codes of one creation.  Time is the number of    *)
(* elapsed periods: a term t (an expires_at) has passed when now > t, and  *)
(* a pool is renewed from the start of its last period on.  A claim is     *)
(* "stale" five minutes after claimed_at; its token is the worker that     *)
(* holds it.  A pool may be due for a check at any time, and is low when   *)
(* it has no usable code.                                                  *)
(*                                                                         *)
(* A definition marked "Fault:" is a wrong version of the one below it; it *)
(* is there to show that the properties notice.                            *)
(***************************************************************************)
EXTENDS Naturals, FiniteSets

CONSTANTS
    SupplyPools,    \* gift-card pools
    Account,        \* the provider account of each pool
    Named,          \* accounts whose batches carry the attempt's name (KeMore);
                    \* the others bind a batch by a list delta (Sunzee)
    RefillWorkers,  \* runs of the supply worker that may overlap
    NoWorker,       \* the token of an unclaimed attempt
    MaxRefills,     \* bound: attempts ever made
    MaxNow,         \* bound: periods that elapse
    MaxMishaps      \* bound: crashes, lost messages, stalls and interventions

ASSUME SupplyConstants ==
    /\ NoWorker \notin RefillWorkers
    /\ MaxRefills \in Nat /\ MaxNow \in Nat /\ MaxMishaps \in Nat
    /\ SupplyPools # {} /\ DOMAIN Account = SupplyPools

VARIABLES
    pools,      \* refund_gift_card_pools: enabled and expires_at
    now,        \* periods elapsed
    refills,    \* refund_gift_card_refill_attempts, in order of created_at
    codes,      \* refund_gift_card_codes: the imported batches
    spent,      \* those of them that were issued
    runs,       \* the supply workers
    calls,      \* creation calls on their way to the provider
    made,       \* batches that exist at the provider
    mishaps

supplyVars == <<pools, now, refills, codes, spent, runs, calls, made, mishaps>>

Accounts == {Account[p] : p \in SupplyPools}
RefillIds == 1..MaxRefills
Batch == [refill : RefillIds \cup {0},          \* 0: made by hand
          by : RefillWorkers \cup {NoWorker}, account : Accounts, term : Nat]
Code == [batch : Batch, pool : SupplyPools]
Refill == [status : {"none", "preparing", "submitting", "unknown", "complete", "failed"},
           pool : SupplyPools,
           token : RefillWorkers \cup {NoWorker},
           claimed : {"none", "fresh", "stale"},    \* claimed_at
           begun : BOOLEAN]                         \* attempted_at is not null
Run == [at : {"idle", "rollover", "claim", "prepare", "begin", "create", "wait",
              "verify", "reconcile", "finish", "finish_unknown"},
        refill : RefillIds \cup {0},
        term : Nat,                                 \* claim.pool.expires_at
        baseline : SUBSET Batch,
        found : SUBSET Batch,
        outcome : {"none", "complete", "failed", "unknown"},
        excluded : SUBSET RefillIds,
        renewing : SUBSET SupplyPools]

Active(r) == refills[r].status \in {"preparing", "submitting", "unknown"}
Expired(p) == now > pools[p].term
NearExpiry(p) == now >= pools[p].term
Renewed == now + 1

NoRefill(p) == [status |-> "none", pool |-> p, token |-> NoWorker,
                claimed |-> "none", begun |-> FALSE]
IdleRun == [at |-> "idle", refill |-> 0, term |-> 0, baseline |-> {}, found |-> {},
            outcome |-> "none", excluded |-> {}, renewing |-> {}]

SupplyInit ==
    /\ pools = [p \in SupplyPools |-> [enabled |-> TRUE, term |-> 1]]
    /\ now = 0
    /\ refills = [r \in RefillIds |-> NoRefill(CHOOSE p \in SupplyPools : TRUE)]
    /\ codes = {} /\ spent = {}
    /\ runs = [w \in RefillWorkers |-> IdleRun]
    /\ calls = {} /\ made = {}
    /\ mishaps = 0

Mishap == mishaps < MaxMishaps /\ mishaps' = mishaps + 1
MishapUnless(fine) == IF fine THEN UNCHANGED mishaps ELSE Mishap

Goto(w, at) == [runs EXCEPT ![w].at = at]
\* The loop goes on with what the run has not tried yet.
NextClaim(w) == [runs EXCEPT ![w] = [IdleRun EXCEPT !.at = "claim", !.excluded = runs[w].excluded]]

----------------------------------------------------------------------------
(* Renewal of terms.                                                       *)

RenewalDue(p) ==
    /\ pools[p].enabled /\ NearExpiry(p)
    /\ \A r \in RefillIds : refills[r].pool = p => ~Active(r)

\* The cursor of the rollover reads its pools in one snapshot ...
StartRollover(w) ==
    /\ runs[w].at = "idle"
    /\ runs' = [runs EXCEPT ![w].at = "rollover",
                            ![w].renewing = {p \in SupplyPools : RenewalDue(p)}]
    /\ UNCHANGED <<pools, now, refills, codes, spent, calls, made, mishaps>>

\* ... and locks and renews them afterwards, without reading the attempts again.
Rollover(w) ==
    /\ runs[w].at = "rollover"
    /\ pools' = [p \in SupplyPools |-> IF p \in runs[w].renewing
                                 THEN [pools[p] EXCEPT !.term = Renewed] ELSE pools[p]]
    /\ runs' = [runs EXCEPT ![w].at = "claim", ![w].renewing = {}]
    /\ UNCHANGED <<now, refills, codes, spent, calls, made, mishaps>>

----------------------------------------------------------------------------
(* The claim: stale claims are resolved first, then an unknown attempt is  *)
(* taken over, and only then is a new attempt made for a pool that is low. *)

\* Fault: work that may have reached the provider is treated as never sent.
StaleSubmissionFails ==
    [r \in RefillIds |->
        IF refills[r].claimed = "stale" /\ refills[r].status \in {"submitting", "preparing"}
        THEN [refills[r] EXCEPT !.status = "failed", !.token = NoWorker, !.claimed = "none"]
        ELSE refills[r]]
StaleResolved ==
    [r \in RefillIds |->
        IF refills[r].claimed = "stale" /\ refills[r].status \in {"submitting", "preparing"}
        THEN [refills[r] EXCEPT
                !.status = IF refills[r].status = "submitting" THEN "unknown" ELSE "failed",
                !.token = NoWorker, !.claimed = "none"]
        ELSE refills[r]]

\* The unknown attempts a run may take over.
\* Fault: the claim of a run that died is kept for ever.
NeverRetaken(w) ==
    {r \in RefillIds \ runs[w].excluded :
        LET a == StaleResolved[r] IN
        /\ a.status = "unknown" /\ a.claimed = "none"
        /\ pools[a.pool].enabled /\ ~Expired(a.pool)}
Reconcilable(w) ==
    {r \in RefillIds \ runs[w].excluded :
        LET a == StaleResolved[r] IN
        /\ a.status = "unknown" /\ a.claimed \in {"none", "stale"}
        /\ pools[a.pool].enabled /\ ~Expired(a.pool)}

\* Fault: an attempt of the account whose outcome is unknown is no obstacle.
AccountUnlessDispatched(account) ==
    \A r \in RefillIds : StaleResolved[r].status \in {"preparing", "submitting"} =>
                         Account[refills[r].pool] # account
AccountIsFree(account) ==
    \A r \in RefillIds : StaleResolved[r].status \in {"preparing", "submitting", "unknown"} =>
                         Account[refills[r].pool] # account

IsLow(p) == \A c \in codes \ spent : c.pool = p => c.batch.term < pools[p].term
Due == {p \in SupplyPools : /\ pools[p].enabled /\ ~Expired(p) /\ IsLow(p)
                      /\ AccountIsFree(Account[p])}
Unused == {r \in RefillIds : refills[r].status = "none"}

Earliest(attempts) == {r \in attempts : \A s \in attempts : r <= s}

Claims(w, r, p, at) ==
    runs' = [runs EXCEPT ![w] = [IdleRun EXCEPT !.at = at, !.refill = r, !.term = pools[p].term,
                                                !.excluded = runs[w].excluded \cup {r}]]

\* service_claim_refund_gift_card_refill has three answers: reconcile an unknown
\* attempt, create for a pool that is low, or nothing to do.
ClaimUnknown(w) ==
    /\ runs[w].at = "claim"
    /\ \E r \in Earliest(Reconcilable(w)) :
       /\ refills' = [StaleResolved EXCEPT ![r].token = w, ![r].claimed = "fresh"]
       /\ Claims(w, r, refills[r].pool, "reconcile")
    /\ UNCHANGED <<pools, now, codes, spent, calls, made, mishaps>>

ClaimNew(w) ==
    /\ runs[w].at = "claim" /\ Reconcilable(w) = {}
    /\ \E p \in Due, r \in Earliest(Unused) :
         /\ refills' = [StaleResolved EXCEPT ![r] =
                [status |-> "preparing", pool |-> p, token |-> w, claimed |-> "fresh",
                 begun |-> FALSE]]
         /\ Claims(w, r, p, "prepare")
    /\ UNCHANGED <<pools, now, codes, spent, calls, made, mishaps>>

\* No pool need be due for a check, whatever its stock.
ClaimNothing(w) ==
    /\ runs[w].at = "claim" /\ Reconcilable(w) = {}
    /\ refills' = StaleResolved
    /\ runs' = [runs EXCEPT ![w] = IdleRun]
    /\ UNCHANGED <<pools, now, codes, spent, calls, made, mishaps>>

----------------------------------------------------------------------------
(* One attempt, from the provider's list to the verified batch.            *)

InAccount(w) == {b \in made : b.account = Account[refills[runs[w].refill].pool]}
IsNamed(w) == Account[refills[runs[w].refill].pool] \in Named

Concludes(w, outcome, found) ==
    runs' = [runs EXCEPT ![w].at = "finish", ![w].outcome = outcome, ![w].found = found]

Prepare(w) ==
    /\ runs[w].at = "prepare"
    /\ \/ /\ runs' = [runs EXCEPT ![w].at = "begin",
                        ![w].baseline = IF IsNamed(w) THEN {} ELSE InAccount(w)]
          /\ UNCHANGED mishaps
       \/ Concludes(w, "failed", {}) /\ Mishap        \* the provider cannot be read
    /\ UNCHANGED <<pools, now, refills, codes, spent, calls, made>>

\* service_begin_refund_gift_card_refill: the last point before the request.
BeginAccepted(w) ==
    LET a == refills[runs[w].refill] IN
    a.token = w /\ a.status = "preparing" /\ a.claimed = "fresh"

Begin(w) ==
    /\ runs[w].at = "begin"
    /\ refills' = IF BeginAccepted(w)
                  THEN [refills EXCEPT ![runs[w].refill].status = "submitting",
                                       ![runs[w].refill].begun = TRUE]
                  ELSE refills
    /\ \/ /\ IF BeginAccepted(w) THEN runs' = Goto(w, "create") ELSE Concludes(w, "failed", {})
          /\ UNCHANGED mishaps
       \/ Concludes(w, "failed", {}) /\ Mishap        \* the answer is lost
    /\ UNCHANGED <<pools, now, codes, spent, calls, made>>

Create(w) ==
    /\ runs[w].at = "create"
    /\ runs' = Goto(w, "wait")
    /\ calls' = calls \cup
         {[refill |-> runs[w].refill, by |-> w,
           account |-> Account[refills[runs[w].refill].pool], term |-> runs[w].term]}
    /\ UNCHANGED <<pools, now, refills, codes, spent, made, mishaps>>

Mine(w, b) == b.refill = runs[w].refill /\ b.by = w

AnswerMade(w) ==
    /\ runs[w].at = "wait" /\ \E b \in made : Mine(w, b)
    /\ runs' = Goto(w, "verify")
    /\ UNCHANGED <<pools, now, refills, codes, spent, calls, made, mishaps>>

\* The provider refuses: an HTTP 401 or 403, or a code that is not success.
AnswerRejected(w) ==
    /\ runs[w].at = "wait" /\ \E c \in calls : Mine(w, c)
    /\ calls' = {c \in calls : ~Mine(w, c)}
    /\ Mishap
    /\ Concludes(w, "failed", {})
    /\ UNCHANGED <<pools, now, refills, codes, spent, made>>

StopWaiting(w) ==
    /\ runs[w].at = "wait" /\ Mishap
    /\ Concludes(w, "unknown", {})
    /\ UNCHANGED <<pools, now, refills, codes, spent, calls, made>>

\* What the adapters accept: a batch of the attempt's name with the exact term,
\* or everything new in the account since the baseline.
Listed(w) ==
    {b \in InAccount(w) : IF IsNamed(w) THEN b.refill = runs[w].refill
                          ELSE b \notin runs[w].baseline}
Verified(w) ==
    {b \in Listed(w) : IF IsNamed(w) THEN b.term = runs[w].term ELSE b.term >= runs[w].term}

Verify(w) ==
    /\ runs[w].at = "verify"
    /\ LET exact == Cardinality(Listed(w)) = 1 /\ Verified(w) = Listed(w) IN
       \/ exact /\ Concludes(w, "complete", Verified(w)) /\ UNCHANGED mishaps
       \/ Concludes(w, "unknown", {}) /\ MishapUnless(~exact)
    /\ UNCHANGED <<pools, now, refills, codes, spent, calls, made>>

Reconcile(w) ==
    /\ runs[w].at = "reconcile"
    /\ LET exact == /\ IsNamed(w) /\ Cardinality(Listed(w)) = 1
                    /\ Verified(w) = Listed(w) IN
       \/ exact /\ Concludes(w, "complete", Verified(w)) /\ UNCHANGED mishaps
       \/ Concludes(w, "unknown", {}) /\ MishapUnless(~exact)
    /\ UNCHANGED <<pools, now, refills, codes, spent, calls, made>>

----------------------------------------------------------------------------
(* The end of an attempt, and the import it contains.                      *)

\* internal_import_refund_gift_card_codes: batches enter a pool whose terms they
\* cover, and never a second pool.
Importable(batches, p) ==
    /\ batches # {} /\ ~Expired(p)
    /\ \A b \in batches :
         /\ b.account = Account[p] /\ b.term >= pools[p].term
         /\ \A c \in codes : c.batch = b => c.pool = p
\* Fault: an import replaces the stock.
ImportReplaces(batches, p) == {[batch |-> b, pool |-> p] : b \in batches}
Imported(batches, p) == codes \cup {[batch |-> b, pool |-> p] : b \in batches}

\* Fault: any worker may report on the attempt, whoever holds it now.
SettlesAnyActive(w) == Active(runs[w].refill)
SettlesClaim(w) == Active(runs[w].refill) /\ refills[runs[w].refill].token = w

EndAttempt(r, outcome) ==
    refills' = [refills EXCEPT
        ![r].status = outcome, ![r].token = NoWorker,
        ![r].claimed = IF outcome = "unknown" THEN "fresh" ELSE "none"]

\* service_finish_refund_gift_card_refill; the import of a complete attempt may raise.
FinishRaises(w) ==
    /\ SettlesClaim(w) /\ runs[w].outcome = "complete"
    /\ \/ ~refills[runs[w].refill].begun
       \/ ~Importable(runs[w].found, refills[runs[w].refill].pool)

Finish(w) ==
    /\ runs[w].at = "finish"
    /\ IF SettlesClaim(w) /\ ~FinishRaises(w)
       THEN /\ EndAttempt(runs[w].refill, runs[w].outcome)
            /\ codes' = IF runs[w].outcome = "complete"
                        THEN Imported(runs[w].found, refills[runs[w].refill].pool) ELSE codes
       ELSE UNCHANGED <<refills, codes>>
    /\ \/ /\ runs' = IF FinishRaises(w) THEN Goto(w, "finish_unknown") ELSE NextClaim(w)
          /\ UNCHANGED mishaps
       \/ runs' = Goto(w, "finish_unknown") /\ Mishap         \* the answer is lost
    /\ UNCHANGED <<pools, now, spent, calls, made>>

\* The call never reaches the database.
FinishIsLost(w) ==
    /\ runs[w].at = "finish" /\ Mishap
    /\ runs' = Goto(w, "finish_unknown")
    /\ UNCHANGED <<pools, now, refills, codes, spent, calls, made>>

FinishUnknown(w) ==
    /\ runs[w].at = "finish_unknown"
    /\ IF SettlesClaim(w) THEN EndAttempt(runs[w].refill, "unknown") ELSE UNCHANGED refills
    /\ runs' = NextClaim(w)
    /\ UNCHANGED <<pools, now, codes, spent, calls, made, mishaps>>

\* The run ends early: its process dies, or an RPC fails where nothing catches it.
Crash(w) ==
    /\ runs[w].at # "idle" /\ Mishap
    /\ runs' = [runs EXCEPT ![w] = IdleRun]
    /\ UNCHANGED <<pools, now, refills, codes, spent, calls, made>>

----------------------------------------------------------------------------
(* The provider, the clock, the operators and the customers.               *)

Executed(c) == IF c.account \in Named THEN c ELSE [c EXCEPT !.term = Renewed]

MakeBatch(c) ==
    /\ c \in calls
    /\ calls' = calls \ {c} /\ made' = made \cup {Executed(c)}
    /\ UNCHANGED <<pools, now, refills, codes, spent, runs, mishaps>>

LoseCall(c) ==
    /\ c \in calls /\ Mishap
    /\ calls' = calls \ {c}
    /\ UNCHANGED <<pools, now, refills, codes, spent, runs, made>>

\* Somebody creates a batch in the provider's own console.
MakeByHand(account) ==
    /\ Mishap
    /\ made' = made \cup {[refill |-> 0, by |-> NoWorker, account |-> account, term |-> Renewed]}
    /\ UNCHANGED <<pools, now, refills, codes, spent, runs, calls>>

\* Five minutes pass since a claim; it is a mishap if its worker is still at it.
ClaimAges(r) ==
    /\ refills[r].claimed = "fresh"
    /\ refills' = [refills EXCEPT ![r].claimed = "stale"]
    /\ MishapUnless(\A w \in RefillWorkers : refills[r].token = w => runs[w].refill # r)
    /\ UNCHANGED <<pools, now, codes, spent, runs, calls, made>>

TimePasses ==
    /\ now < MaxNow /\ now' = now + 1
    /\ UNCHANGED <<pools, refills, codes, spent, runs, calls, made, mishaps>>

SetEnabled(p) ==
    /\ ~pools[p].enabled => ~Expired(p)
    /\ pools' = [pools EXCEPT ![p].enabled = ~@]
    /\ Mishap
    /\ UNCHANGED <<now, refills, codes, spent, runs, calls, made>>

\* admin_import_refund_gift_card_codes: a batch made by hand is put into a pool.
AdminImport(b, p) ==
    /\ b \in made /\ b.refill = 0 /\ Importable({b}, p)
    /\ codes' = Imported({b}, p)
    /\ UNCHANGED <<pools, now, refills, spent, runs, calls, made, mishaps>>

\* admin_recover_refund_gift_card_refill: the batch of the attempt has been found.
RecoveryAllowed(r) ==
    refills[r].status = "unknown" /\ refills[r].begun /\ refills[r].claimed # "fresh"

AdminRecover(r) ==
    /\ RecoveryAllowed(r)
    /\ \E b \in made :
         /\ b.refill = r /\ Importable({b}, refills[r].pool)
         /\ codes' = Imported({b}, refills[r].pool)
    /\ EndAttempt(r, "complete")
    /\ UNCHANGED <<pools, now, spent, runs, calls, made, mishaps>>

\* The codes of a batch are issued to customers.
Spend(c) ==
    /\ c \in codes \ spent
    /\ spent' = spent \cup {c}
    /\ UNCHANGED <<pools, now, refills, codes, runs, calls, made, mishaps>>

GoesOn(w) ==
    \/ StartRollover(w) \/ Rollover(w)
    \/ ClaimUnknown(w) \/ ClaimNew(w) \/ ClaimNothing(w) \/ Prepare(w) \/ Begin(w)
    \/ Create(w) \/ AnswerMade(w) \/ StopWaiting(w)
    \/ Verify(w) \/ Reconcile(w) \/ Finish(w) \/ FinishUnknown(w)
WorkerStep(w) == GoesOn(w) \/ AnswerRejected(w) \/ FinishIsLost(w) \/ Crash(w)

ProviderStep ==
    \/ \E c \in calls : MakeBatch(c) \/ LoseCall(c)
    \/ \E account \in Accounts : MakeByHand(account)

PeopleStep ==
    \/ \E p \in SupplyPools : SetEnabled(p)
    \/ \E p \in SupplyPools : \E b \in made : AdminImport(b, p)
    \/ \E r \in RefillIds : AdminRecover(r)
    \/ \E c \in codes : Spend(c)

SupplyNext ==
    \/ \E w \in RefillWorkers : WorkerStep(w)
    \/ ProviderStep
    \/ PeopleStep
    \/ TimePasses
    \/ \E r \in RefillIds : ClaimAges(r)

SupplySpec == SupplyInit /\ [][SupplyNext]_supplyVars

----------------------------------------------------------------------------
(* Properties.                                                             *)

\* The state stays in its types.
SupplyTypeOK ==
    /\ pools \in [SupplyPools -> [enabled : BOOLEAN, term : Nat]]
    /\ now \in Nat
    /\ refills \in [RefillIds -> Refill]
    /\ codes \subseteq Code /\ spent \subseteq codes
    /\ runs \in [RefillWorkers -> Run]
    /\ calls \subseteq Batch /\ made \subseteq Batch
    /\ mishaps \in Nat

\* Value that was created is never forgotten, and never counted as another
\* attempt's: a batch belongs to an attempt that is still open, or its own
\* attempt ended by importing it into its own pool.
BatchesAreAccountedFor ==
    \A b \in made : b.refill # 0 =>
        \/ Active(b.refill)
        \/ /\ refills[b.refill].status = "complete"
           /\ [batch |-> b, pool |-> refills[b.refill].pool] \in codes

\* There is no blind second creation: in one account at most one creation is
\* under way or made and not yet imported.
OneCreationPerAccount ==
    \A account \in Accounts :
        Cardinality({b \in calls : b.account = account} \cup
                    {b \in made : /\ b.refill # 0 /\ b.account = account
                                  /\ \A c \in codes : c.batch # b}) <= 1

\* An uncertain creation is only closed by the import of its batch; nobody may
\* conclude from a silent provider that it failed.
UncertainEndsWithImport ==
    [][\A r \in RefillIds :
         refills[r].status = "unknown" /\ refills[r].begun /\ refills'[r].status # "unknown" =>
            /\ refills'[r].status = "complete"
            /\ \E c \in codes' : c.batch.refill = r /\ c.pool = refills[r].pool]_supplyVars

\* What the schedule of the sweep justifies: runs are started again and again, a
\* run that goes on makes its next step, and claims grow old.
SupplyFairness ==
    /\ \A w \in RefillWorkers : WF_supplyVars(GoesOn(w))
    /\ \A r \in RefillIds :
         /\ WF_supplyVars(\E c \in calls : c.refill = r /\ (MakeBatch(c) \/ LoseCall(c)))
         /\ WF_supplyVars(ClaimAges(r))

MadeAndNamed(r) == \E b \in made : b.refill = r /\ b.account \in Named
OutOfReach(r) ==
    LET p == refills[r].pool IN
    \/ ~pools[p].enabled \/ Expired(p)
    \/ \E b \in made : b.refill = r /\ b.term < pools[p].term

\* A batch that was made for a pool whose batches carry names gets into stock
\* without a person, however its answer was lost, unless its pool was switched
\* off, has expired or was renewed past it.
NamedBatchIsFound ==
    \A r \in RefillIds :
        MadeAndNamed(r) ~> refills[r].status = "complete" \/ OutOfReach(r)
=============================================================================
