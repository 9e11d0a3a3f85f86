------------------------- MODULE NayaxAttemptStore -------------------------
(***************************************************************************)
(* The database side of a Nayax card refund: the refund case, its single   *)
(* System-owned refund attempt, the append-only provider stage journal and *)
(* the append-only no-refund proofs.  Every action below is the body of    *)
(* one SQL function, which runs as one transaction; the guards are its     *)
(* row locks' re-checks and its "raise exception" conditions.              *)
(*                                                                         *)
(* Times are abstracted: a claim's lease is "live" until Expire makes it   *)
(* "expired"; tokens are abstracted to the worker that holds the claim (a  *)
(* worker handles one claim at a time, so holding c's current claim and    *)
(* holding its current token are the same thing); the idempotency key is   *)
(* a function of the generation, so it is modelled by the generation.      *)
(* The reporting adjustment and the terminal receipt are written in the    *)
(* transaction that completes the case and have no state of their own.     *)
(*                                                                         *)
(* A definition marked "Fault:" is a wrong version of the one below it; it *)
(* is there to show that the properties notice.                            *)
(***************************************************************************)
EXTENDS Naturals

CONSTANTS
    Cases,      \* card refund cases, each on a purchase of its own
    Workers,    \* runs of the refund sweep that may overlap
    Nobody,     \* the holder of an attempt nobody has claimed
    MaxGen      \* largest provider execution generation (100 in the database)

ASSUME StoreConstants ==
    /\ Nobody \notin Workers
    /\ MaxGen \in Nat \ {0}

VARIABLES
    cases,      \* refund_cases: status and nayax_refund_execution_status
    attempts,   \* refund_case_nayax_refund_attempts, one per case
    journal,    \* refund_nayax_provider_stage_journal
    proofs,     \* refund_nayax_no_refund_proofs
    enabled     \* the case's machine is active and has refunds enabled

store == <<cases, attempts, journal, proofs, enabled>>

Generations == 1..MaxGen
Stages == {"request", "approve"}
Plans == {"request_and_approve", "approve_only"}
Outcomes == {"success", "rejected", "timeout", "unknown"}
StageOutcomes == {"accepted", "succeeded", "rejected", "timeout", "unknown"}

Attempt == [status : {"none", "created", "in_progress", "manual_review", "succeeded"},
            gen : Generations,
            plan : Plans,
            holder : Workers \cup {Nobody},
            lease : {"none", "live", "expired", "consumed"},
            outcome : Outcomes \cup {"none"},
            referenced : BOOLEAN]    \* provider_reference is not null
Case == [status : {"needs_review", "card_refund_pending", "completed"},
         exec : {"not_requested", "requested", "ambiguous", "approved"}]
Row == [case : Cases, gen : Generations, stage : Stages,
        event : {"started", "result"}, outcome : StageOutcomes \cup {"none"}]
Proof == [case : Cases, source : Generations, plan : Plans]

StoreTypeOK ==
    /\ cases \in [Cases -> Case]
    /\ attempts \in [Cases -> Attempt]
    /\ journal \subseteq Row
    /\ proofs \subseteq Proof
    /\ enabled \in [Cases -> BOOLEAN]

NoAttempt == [status |-> "none", gen |-> 1, plan |-> "request_and_approve",
              holder |-> Nobody, lease |-> "none", outcome |-> "none",
              referenced |-> FALSE]

\* The shapes an attempt takes; a is the attempt before the step.
Queued(g, plan) ==
    [status |-> "created", gen |-> g, plan |-> plan, holder |-> Nobody,
     lease |-> "none", outcome |-> "none", referenced |-> FALSE]

Claimed(a, w, lease) ==
    [status |-> "in_progress", gen |-> a.gen, plan |-> a.plan, holder |-> w,
     lease |-> lease, outcome |-> a.outcome, referenced |-> a.referenced]

HeldWith(a, outcome) ==
    [status |-> "manual_review", gen |-> a.gen, plan |-> a.plan, holder |-> a.holder,
     lease |-> "consumed", outcome |-> outcome, referenced |-> a.referenced]

Succeeded(a, referenced) ==
    [status |-> "succeeded", gen |-> a.gen, plan |-> a.plan, holder |-> a.holder,
     lease |-> "consumed", outcome |-> "success", referenced |-> referenced]

Pending(exec) == [status |-> "card_refund_pending", exec |-> exec]

Completed == [status |-> "completed", exec |-> "approved"]

StoreInit ==
    /\ cases = [c \in Cases |-> [status |-> "needs_review", exec |-> "not_requested"]]
    /\ attempts = [c \in Cases |-> NoAttempt]
    /\ journal = {}
    /\ proofs = {}
    /\ enabled = [c \in Cases |-> TRUE]

----------------------------------------------------------------------------
(* Rows of the stage journal.  A trigger stamps every row with the         *)
(* attempt's current generation, whatever the writer believes it is.       *)

StartedRow(c, g, stage) ==
    [case |-> c, gen |-> g, stage |-> stage, event |-> "started", outcome |-> "none"]

ResultRow(c, g, stage, outcome) ==
    [case |-> c, gen |-> g, stage |-> stage, event |-> "result", outcome |-> outcome]

TransportStarted(c) ==
    \E stage \in Stages : StartedRow(c, attempts[c].gen, stage) \in journal

\* Fault: any recorded result counts as an accepted request.
AnsweredRequest(c, gens) ==
    \E g \in gens, outcome \in StageOutcomes :
        ResultRow(c, g, "request", outcome) \in journal

\* The database authorizes an approval exactly when the request's result is an
\* exact accepted answer, so "accepted" stands for approval_authorized as well.
AcceptedRequest(c, gens) ==
    \E g \in gens : ResultRow(c, g, "request", "accepted") \in journal

Held(c) == attempts[c].status = "manual_review"

\* One no-refund proof binds the current generation to the one before it.
ContinuationProved(c) ==
    [case |-> c, source |-> attempts[c].gen - 1, plan |-> attempts[c].plan] \in proofs

GenerationProved(c) ==
    IF attempts[c].gen = 1
    THEN attempts[c].plan = "request_and_approve"
    ELSE ContinuationProved(c)

\* The generations whose accepted request lets the current plan approve.
RequestGenerations(c) ==
    IF attempts[c].plan = "request_and_approve"
    THEN {attempts[c].gen}
    ELSE 1..(attempts[c].gen - 1)

\* Writers present the token of their claim; the store keeps its digest.
ClaimIsLive(w, c) ==
    /\ attempts[c].status = "in_progress"
    /\ attempts[c].outcome = "none"
    /\ attempts[c].lease = "live"
    /\ attempts[c].holder = w

----------------------------------------------------------------------------
(* Approval, the lease and the hold.                                       *)

\* A manager approves the selected transaction of a case under review.
Approve(c) ==
    /\ cases[c] = [status |-> "needs_review", exec |-> "not_requested"]
    /\ attempts[c].status = "none"
    /\ enabled[c]
    /\ cases' = [cases EXCEPT ![c] = Pending("not_requested")]
    /\ attempts' = [attempts EXCEPT ![c] = Queued(1, "request_and_approve")]
    /\ UNCHANGED <<journal, proofs, enabled>>

\* A sweep leases a due attempt with a fresh token for fifteen minutes.
Claim(w, c) ==
    /\ attempts[c].status = "created"
    /\ enabled[c]
    /\ cases[c].status = "card_refund_pending"
    /\ GenerationProved(c)
    /\ attempts' = [attempts EXCEPT ![c] = Claimed(attempts[c], w, "live")]
    /\ cases' = [cases EXCEPT ![c] =
                   IF cases[c].exec = "not_requested" THEN Pending("requested") ELSE @]
    /\ UNCHANGED <<journal, proofs, enabled>>

Expire(c) ==
    /\ attempts[c].status = "in_progress"
    /\ attempts[c].lease = "live"
    /\ attempts' = [attempts EXCEPT ![c] =
                      Claimed(attempts[c], attempts[c].holder, "expired")]
    /\ UNCHANGED <<cases, journal, proofs, enabled>>

\* An attempt leaves the queue until somebody presents evidence about it.
HoldAs(c, outcome) ==
    /\ attempts' = [attempts EXCEPT ![c] = HeldWith(attempts[c], outcome)]
    /\ cases' = [cases EXCEPT ![c].exec = "ambiguous"]
    /\ UNCHANGED <<journal, proofs, enabled>>

ClaimExpired(c) ==
    /\ attempts[c].status = "in_progress"
    /\ attempts[c].outcome = "none"
    /\ attempts[c].lease = "expired"

\* Reclaim, when this generation may already have reached the provider.
ReclaimHolds(c) ==
    /\ ClaimExpired(c)
    /\ TransportStarted(c)
    /\ HoldAs(c, "unknown")

\* Fault: a started transport is requeued as well.
ReclaimRequeuesStarted(c) ==
    /\ ClaimExpired(c)
    /\ attempts' = [attempts EXCEPT ![c] = Queued(attempts[c].gen, attempts[c].plan)]
    /\ cases' = [cases EXCEPT ![c].exec =
                   IF cases[c].exec = "requested" THEN "not_requested" ELSE @]
    /\ UNCHANGED <<journal, proofs, enabled>>

\* Fault: the case still says that its refund is requested.
ReclaimForgetsCase(c) ==
    /\ ClaimExpired(c)
    /\ ~TransportStarted(c)
    /\ attempts' = [attempts EXCEPT ![c] = Queued(attempts[c].gen, attempts[c].plan)]
    /\ UNCHANGED <<cases, journal, proofs, enabled>>

\* Reclaim, when no provider call of this generation can have begun.
ReclaimRequeues(c) ==
    /\ ClaimExpired(c)
    /\ ~TransportStarted(c)
    /\ attempts' = [attempts EXCEPT ![c] = Queued(attempts[c].gen, attempts[c].plan)]
    /\ cases' = [cases EXCEPT ![c].exec =
                   IF cases[c].exec = "requested" THEN "not_requested" ELSE @]
    /\ UNCHANGED <<journal, proofs, enabled>>

\* Fault: everything that was ever claimed can be held.
HoldAnyClaimed(c) ==
    /\ attempts[c].lease # "none"
    /\ HoldAs(c, "unknown")

\* The hold names the attempt only: neither token nor generation is checked.
HoldAttempt(c) ==
    /\ attempts[c].status = "in_progress"
    /\ HoldAs(c, "unknown")

AlreadyHeldOrSettled(c) == Held(c) \/ attempts[c].status = "succeeded"

----------------------------------------------------------------------------
(* The stage journal.  Both checks of an insert are conjoined: those of    *)
(* the recording function and those of the generation-plan trigger, and    *)
(* the unique index admits one row per generation, stage and event.        *)

MayJournal(w, c, stage) ==
    /\ ClaimIsLive(w, c)
    /\ GenerationProved(c)
    /\ attempts[c].plan = "approve_only" => stage = "approve"

MayStart(w, c, stage) ==
    /\ MayJournal(w, c, stage)
    /\ stage = "approve" => AcceptedRequest(c, RequestGenerations(c))
    /\ StartedRow(c, attempts[c].gen, stage) \notin journal

JournalStarted(w, c, stage) ==
    /\ MayStart(w, c, stage)
    /\ journal' = journal \cup {StartedRow(c, attempts[c].gen, stage)}
    /\ UNCHANGED <<cases, attempts, proofs, enabled>>

MayRecordResult(w, c, stage) ==
    /\ MayJournal(w, c, stage)
    /\ StartedRow(c, attempts[c].gen, stage) \in journal
    /\ \A outcome \in StageOutcomes :
          ResultRow(c, attempts[c].gen, stage, outcome) \notin journal

JournalResult(w, c, stage, outcome) ==
    /\ MayRecordResult(w, c, stage)
    /\ journal' = journal \cup {ResultRow(c, attempts[c].gen, stage, outcome)}
    /\ UNCHANGED <<cases, attempts, proofs, enabled>>

----------------------------------------------------------------------------
(* Settlement by the worker that holds the claim.                          *)

\* Fault: an accepted request alone counts as proof of a refund.
SuccessByRequestAlone(c) == AcceptedRequest(c, RequestGenerations(c))

\* Success needs this generation's approval and an authorized request.
SuccessProved(c) ==
    /\ ResultRow(c, attempts[c].gen, "approve", "succeeded") \in journal
    /\ AcceptedRequest(c, RequestGenerations(c))

\* Case completed, adjustment and receipt written, attempt succeeded: one commit.
CompleteAs(c, referenced) ==
    /\ cases' = [cases EXCEPT ![c] = Completed]
    /\ attempts' = [attempts EXCEPT ![c] = Succeeded(attempts[c], referenced)]
    /\ UNCHANGED <<journal, proofs, enabled>>

\* g stands for the idempotency key the worker was given with its claim.
SettlesAgain(c, g, outcome) ==
    /\ attempts[c].gen = g
    /\ attempts[c].outcome = outcome
    /\ \/ attempts[c].status = "succeeded" /\ outcome = "success" /\ attempts[c].referenced
       \/ Held(c)

MaySettle(w, c, g, outcome) ==
    /\ ClaimIsLive(w, c)
    /\ attempts[c].gen = g
    /\ cases[c] = Pending("requested")
    /\ outcome = "success" => SuccessProved(c)

Settle(w, c, g, outcome) ==
    /\ MaySettle(w, c, g, outcome)
    /\ IF outcome = "success" THEN CompleteAs(c, TRUE) ELSE HoldAs(c, outcome)

----------------------------------------------------------------------------
(* What ends a hold.  The caller supplies the evidence and has checked its *)
(* time; the guards here are about the held row.                           *)

EvidenceAllowed(c) ==
    /\ cases[c] = Pending("ambiguous")
    /\ Held(c)
    /\ attempts[c].outcome \in {"rejected", "timeout", "unknown"}

\* Fault: every continuation starts over with a request.
ContinuationStartsOver(c) == "request_and_approve"

\* A request Nayax already accepted is approved, never requested again.
ContinuationPlan(c) ==
    IF AcceptedRequest(c, 1..attempts[c].gen)
    THEN "approve_only"
    ELSE "request_and_approve"

\* Fault: the limit on generations is missing.
NoRefundEvidenceUnlimited(c) ==
    /\ EvidenceAllowed(c)
    /\ proofs' = proofs \cup {[case |-> c, source |-> attempts[c].gen,
                               plan |-> ContinuationPlan(c)]}
    /\ attempts' = [attempts EXCEPT ![c] =
                      Queued(attempts[c].gen + 1, ContinuationPlan(c))]
    /\ cases' = [cases EXCEPT ![c] = Pending("not_requested")]
    /\ UNCHANGED <<journal, enabled>>

\* The same attempt goes back to the queue in a new generation of its own.
NoRefundEvidence(c) ==
    /\ EvidenceAllowed(c)
    /\ attempts[c].gen < MaxGen
    /\ proofs' = proofs \cup {[case |-> c, source |-> attempts[c].gen,
                               plan |-> ContinuationPlan(c)]}
    /\ attempts' = [attempts EXCEPT ![c] =
                      Queued(attempts[c].gen + 1, ContinuationPlan(c))]
    /\ cases' = [cases EXCEPT ![c] = Pending("not_requested")]
    /\ UNCHANGED <<journal, enabled>>

SuccessEvidence(c) ==
    /\ EvidenceAllowed(c)
    /\ CompleteAs(c, FALSE)

\* The service recovery of a held attempt whose own journal proves success.
ReconcileProved(c) ==
    /\ EvidenceAllowed(c)
    /\ attempts[c].outcome = "unknown"
    /\ attempts[c].gen = 1
    /\ attempts[c].plan = "request_and_approve"
    /\ SuccessProved(c)
    /\ CompleteAs(c, TRUE)

SetMachine(c, on) ==
    /\ enabled[c] # on
    /\ enabled' = [enabled EXCEPT ![c] = on]
    /\ UNCHANGED <<cases, attempts, journal, proofs>>

=============================================================================
