------------------------ MODULE NayaxRefundAttempt -------------------------
(***************************************************************************)
(* A Nayax card refund from the manager's approval to its completion:      *)
(* overlapping runs of the refund sweep (Workers) lease the attempt in the *)
(* store, drive the provider's request and approve calls, journal them,    *)
(* settle or hold; a person who looked at Nayax ends a hold.               *)
(*                                                                         *)
(* A worker crashes, stalls past its lease, loses RPC requests and RPC     *)
(* responses (a transaction Postgres aborts to break a deadlock is a lost  *)
(* request), and receives payloads it cannot parse.  Every such mishap     *)
(* takes one of the MaxFaults units of `faults`; slow and lost provider    *)
(* calls are not limited.                                                  *)
(***************************************************************************)
EXTENDS NayaxAttemptStore, NayaxProvider

CONSTANTS
    MaxFaults,              \* bound on the mishaps of one behaviour
    SettledBeforeLooking,   \* people look at Nayax only when no call is under way
    EvidenceTime            \* the time entered with evidence of a refund:
                            \* "looked" (when it was seen) or "refunded" (when
                            \* Nayax made the refund)

ASSUME AttemptConstants ==
    /\ Cases # {}
    /\ MaxFaults \in Nat
    /\ SettledBeforeLooking \in BOOLEAN
    /\ EvidenceTime \in {"looked", "refunded"}

VARIABLES
    workers,    \* what each run of the sweep is doing
    seen,       \* what a person last saw at Nayax about a held case
    late,       \* cases whose latest refund happened while they were held
    faults      \* mishaps left

vars == <<cases, attempts, journal, proofs, enabled,
          sent, answered, asked, paid, workers, seen, late, faults>>

Steps == {"idle", "start", "send", "wait", "result",
          "settle", "settle_again", "hold", "hold_again"}

Job == [at : Steps, case : Cases, gen : Generations, plan : Plans,
        stage : Stages, answer : StageOutcomes \cup {"none", "success"}]

Call == [case : Cases, gen : Generations, stage : Stages]

\* What a worker carries to the journal, and what it carries to settlement.
AnswersFit ==
    \A w \in Workers :
        /\ workers[w].at = "result" => workers[w].answer \in StageOutcomes
        /\ workers[w].at \in {"settle", "settle_again"} => workers[w].answer \in Outcomes

\* The generation somebody's look belongs to; 0 when nobody has looked.
Look == [gen : 0..MaxGen, refunded : BOOLEAN]

TypeOK ==
    /\ StoreTypeOK
    /\ sent \subseteq Call
    /\ answered \subseteq sent
    /\ asked \in [Cases -> Nat]
    /\ paid \in [Cases -> Nat]
    /\ workers \in [Workers -> Job]
    /\ AnswersFit
    /\ seen \in [Cases -> Look]
    /\ late \subseteq Cases
    /\ faults \in 0..MaxFaults

\* An idle worker remembers nothing; the other fields are then arbitrary.
Idle == [at |-> "idle", case |-> CHOOSE c \in Cases : TRUE, gen |-> 1,
         plan |-> "request_and_approve", stage |-> "request", answer |-> "none"]

Init ==
    /\ StoreInit
    /\ ProviderInit(Cases)
    /\ workers = [w \in Workers |-> Idle]
    /\ seen = [c \in Cases |-> [gen |-> 0, refunded |-> FALSE]]
    /\ late = {}
    /\ faults = MaxFaults

----------------------------------------------------------------------------

MyCall(w) == [case |-> workers[w].case, gen |-> workers[w].gen, stage |-> workers[w].stage]

Busy(w, c) == workers[w].at # "idle" /\ workers[w].case = c

\* Some worker may still send or receive a call about c, or one is in flight.
CallsUnderWay(c) ==
    \/ \E w \in Workers : workers[w].case = c /\ workers[w].at \in {"send", "wait"}
    \/ \E call \in InFlight : call.case = c

Moves(w, at, stage, answer) ==
    workers' = [workers EXCEPT ![w] =
                  [at |-> at, case |-> workers[w].case, gen |-> workers[w].gen,
                   plan |-> workers[w].plan, stage |-> stage, answer |-> answer]]

Goes(w, at) == Moves(w, at, workers[w].stage, workers[w].answer)

Becomes(w, at, answer) == Moves(w, at, workers[w].stage, answer)

Fault == faults > 0 /\ faults' = faults - 1

\* The mishap that hits this step, if it is one: ok says it is not.
Unless(ok) == IF ok THEN UNCHANGED faults ELSE Fault

\* executeProvider turns every thrown error into the outcome "unknown".
GivesUpStage(w) == Becomes(w, "settle", "unknown")

\* What a worker does when its settlement or hold RPC fails: two tries each.
AfterFailure(at) == CASE at = "settle" -> "settle_again"
                      [] at = "settle_again" -> "hold"
                      [] at = "hold" -> "hold_again"
                      [] OTHER -> "idle"

Finishes(w) == workers' = [workers EXCEPT ![w] = Idle]

Retries(w) ==
    IF AfterFailure(workers[w].at) = "idle"
    THEN Finishes(w)
    ELSE Goes(w, AfterFailure(workers[w].at))

----------------------------------------------------------------------------
(* Steps of a worker.                                                      *)

\* The claim reaches the worker, or its response is lost or cannot be parsed
\* and the row stays leased.
WorkerClaims(w, c, usable) ==
    /\ workers[w].at = "idle"
    /\ Claim(w, c)
    /\ IF usable
       THEN workers' = [workers EXCEPT ![w] =
              [at |-> "start", case |-> c, gen |-> attempts[c].gen,
               plan |-> attempts[c].plan, answer |-> "none",
               stage |-> IF attempts[c].plan = "approve_only" THEN "approve" ELSE "request"]]
       ELSE UNCHANGED workers
    /\ Unless(usable)
    /\ UNCHANGED <<sent, answered, asked, paid, seen, late>>

\* The claim's frozen context is not this deployment's: thrown, then held.
WorkerRefusesContext(w) ==
    /\ workers[w].at = "start"
    /\ workers[w].stage = "request" \/ workers[w].plan = "approve_only"
    /\ Goes(w, "hold")
    /\ Fault
    /\ UNCHANGED <<store, provider, seen, late>>

\* A stage is journaled before it is sent; heard: the response came back.
WorkerStarts(w, heard) ==
    /\ workers[w].at = "start"
    /\ JournalStarted(w, workers[w].case, workers[w].stage)
    /\ IF heard THEN Goes(w, "send") ELSE GivesUpStage(w)
    /\ Unless(heard)
    /\ UNCHANGED <<provider, seen, late>>

WorkerSends(w) ==
    /\ workers[w].at = "send"
    /\ Send(MyCall(w))
    /\ Goes(w, "wait")
    /\ UNCHANGED <<store, seen, late, faults>>

\* The ten-second timer, or a network error, ends the wait; the call may live on.
WorkerStopsWaiting(w, answer) ==
    /\ workers[w].at = "wait"
    /\ answer \in {"timeout", "unknown"}
    /\ Becomes(w, "result", answer)
    /\ UNCHANGED <<store, provider, seen, late, faults>>

\* Only the database's authorization leads on to the approve stage.
WorkerRecordsResult(w, heard) ==
    /\ workers[w].at = "result"
    /\ JournalResult(w, workers[w].case, workers[w].stage, workers[w].answer)
    /\ \/ /\ ~heard
          /\ GivesUpStage(w)
       \/ /\ heard
          /\ workers[w].answer = "accepted"
          /\ Moves(w, "start", "approve", "none")
       \/ /\ heard
          /\ workers[w].answer # "accepted"
          /\ Becomes(w, "settle", IF workers[w].answer = "succeeded" THEN "success"
                                  ELSE workers[w].answer)
    /\ Unless(heard)
    /\ UNCHANGED <<provider, seen, late>>

\* Fault: a worker goes on although the journal refused the row.
WorkerIgnoresRefusal(w) ==
    /\ workers[w].at = "start"
    /\ ~MayStart(w, workers[w].case, workers[w].stage)
    /\ Goes(w, "send")
    /\ UNCHANGED <<store, provider, seen, late, faults>>

\* The journal refuses the row: the claim is no longer this worker's.
WorkerIsFenced(w) ==
    /\ \/ workers[w].at = "start" /\ ~MayStart(w, workers[w].case, workers[w].stage)
       \/ workers[w].at = "result" /\ ~MayRecordResult(w, workers[w].case, workers[w].stage)
    /\ GivesUpStage(w)
    /\ UNCHANGED <<store, provider, seen, late, faults>>

WorkerSettles(w, heard) ==
    /\ workers[w].at \in {"settle", "settle_again"}
    /\ ~SettlesAgain(workers[w].case, workers[w].gen, workers[w].answer)
    /\ Settle(w, workers[w].case, workers[w].gen, workers[w].answer)
    /\ IF heard THEN Finishes(w) ELSE Retries(w)
    /\ Unless(heard)
    /\ UNCHANGED <<provider, seen, late>>

\* The settlement is already recorded, or its guards refuse it.
WorkerSettlementRead(w) ==
    /\ workers[w].at \in {"settle", "settle_again"}
    /\ IF SettlesAgain(workers[w].case, workers[w].gen, workers[w].answer)
       THEN Finishes(w)
       ELSE /\ ~MaySettle(w, workers[w].case, workers[w].gen, workers[w].answer)
            /\ Retries(w)
    /\ UNCHANGED <<store, provider, seen, late, faults>>

WorkerHolds(w, heard) ==
    /\ workers[w].at \in {"hold", "hold_again"}
    /\ HoldAttempt(workers[w].case)
    /\ IF heard THEN Finishes(w) ELSE Retries(w)
    /\ Unless(heard)
    /\ UNCHANGED <<provider, seen, late>>

\* Held or settled already, or not claimed any more (which raises).
WorkerHoldRead(w) ==
    /\ workers[w].at \in {"hold", "hold_again"}
    /\ attempts[workers[w].case].status # "in_progress"
    /\ IF AlreadyHeldOrSettled(workers[w].case) THEN Finishes(w) ELSE Retries(w)
    /\ UNCHANGED <<store, provider, seen, late, faults>>

\* An RPC that never reached the database.
WorkerLosesRequest(w) ==
    /\ \/ workers[w].at \in {"start", "result"} /\ GivesUpStage(w)
       \/ workers[w].at \in {"settle", "settle_again", "hold", "hold_again"} /\ Retries(w)
    /\ Fault
    /\ UNCHANGED <<store, provider, seen, late>>

WorkerCrashes(w) ==
    /\ workers[w].at # "idle"
    /\ Finishes(w)
    /\ Fault
    /\ UNCHANGED <<store, provider, seen, late>>

WorkerStep(w) ==
    \/ \E heard \in BOOLEAN : \/ WorkerStarts(w, heard)
                              \/ WorkerRecordsResult(w, heard)
                              \/ WorkerSettles(w, heard)
                              \/ WorkerHolds(w, heard)
    \/ WorkerSends(w)
    \/ \E answer \in {"timeout", "unknown"} : WorkerStopsWaiting(w, answer)
    \/ WorkerIsFenced(w)
    \/ WorkerSettlementRead(w)
    \/ WorkerHoldRead(w)

WorkerMishap(w) == WorkerRefusesContext(w) \/ WorkerLosesRequest(w) \/ WorkerCrashes(w)

----------------------------------------------------------------------------
(* The provider, seen with the worker that may still be waiting.           *)

Waiting(w, call) == workers[w].at = "wait" /\ MyCall(w) = call

\* The answer reaches whoever waits for the call, or is lost on the way.
Answers(call, answer) ==
    \/ UNCHANGED workers
    \/ \E w \in Workers : Waiting(w, call) /\ Becomes(w, "result", answer)

ProviderAcceptsRequest(call) ==
    /\ AcceptRequest(call)
    /\ \E answer \in {"accepted", "unknown"} : Answers(call, answer)
    /\ UNCHANGED <<store, seen, late, faults>>

ProviderPays(call) ==
    /\ PayApproval(call)
    /\ \E answer \in {"succeeded", "unknown"} : Answers(call, answer)
    /\ late' = IF Held(call.case) THEN late \cup {call.case} ELSE late \ {call.case}
    /\ UNCHANGED <<store, seen, faults>>

\* Turned down, a duplicate, or lost; a request already open is accepted again.
ProviderDoesNothing(call) ==
    /\ NoEffect(call)
    /\ \/ \E answer \in {"rejected", "unknown"} : Answers(call, answer)
       \/ call.stage = "request" /\ asked[call.case] > 0 /\ Answers(call, "accepted")
    /\ UNCHANGED <<store, seen, late, faults>>

----------------------------------------------------------------------------
(* Managers, the sweep's reclaimer and the service's recovery.             *)

ManagerApproves(c) == Approve(c) /\ UNCHANGED <<provider, workers, seen, late, faults>>

\* Nobody works under this claim any more.
Orphaned(c) == \A w \in Workers : ~(Busy(w, c) /\ attempts[c].holder = w)

\* A lease that ends under a live worker is a mishap: the worker has stalled.
LeaseExpires(c) ==
    /\ Expire(c)
    /\ Unless(Orphaned(c))
    /\ UNCHANGED <<provider, workers, seen, late>>

\* Fault: leases whose transport has started are left alone.
SweepSkipsStarted(c) ==
    /\ ReclaimRequeues(c)
    /\ UNCHANGED <<provider, workers, seen, late, faults>>

\* Each claim of a sweep is preceded by one reclaim, oldest expiry first.
SweepReclaims(c) ==
    /\ ReclaimHolds(c) \/ ReclaimRequeues(c)
    /\ UNCHANGED <<provider, workers, seen, late, faults>>

\* Somebody with access to the case looks its transaction up at Nayax.
PersonLooks(c) ==
    /\ Held(c)
    /\ SettledBeforeLooking => ~CallsUnderWay(c)
    /\ seen[c] # [gen |-> attempts[c].gen, refunded |-> paid[c] > 0]
    /\ seen' = [seen EXCEPT ![c] = [gen |-> attempts[c].gen, refunded |-> paid[c] > 0]]
    /\ UNCHANGED <<store, provider, workers, late, faults>>

\* Fault: evidence about any earlier hold will do.
EvidenceOfAnyHold(c) == seen[c].gen > 0

\* The evidence must not be older than the hold it is to end.
EvidenceIsFresh(c) == seen[c].gen = attempts[c].gen

\* Fault: the refund itself must not be older than the hold.
RefundFollowsHold(c) == c \in late

SuccessTimeAccepted(c) == EvidenceTime = "looked" \/ c \in late

PersonRecordsNoRefund(c) ==
    /\ EvidenceIsFresh(c) /\ ~seen[c].refunded
    /\ NoRefundEvidence(c)
    /\ UNCHANGED <<provider, workers, seen, late, faults>>

PersonRecordsSuccess(c) ==
    /\ EvidenceIsFresh(c) /\ seen[c].refunded
    /\ SuccessTimeAccepted(c)
    /\ SuccessEvidence(c)
    /\ UNCHANGED <<provider, workers, seen, late, faults>>

ServiceReconciles(c) ==
    /\ ReconcileProved(c)
    /\ UNCHANGED <<provider, workers, seen, late, faults>>

MachineDisabled(c) ==
    /\ SetMachine(c, FALSE) /\ Fault
    /\ UNCHANGED <<provider, workers, seen, late>>

MachineEnabled(c) ==
    /\ SetMachine(c, TRUE)
    /\ UNCHANGED <<provider, workers, seen, late, faults>>

CaseStep(c) ==
    \/ ManagerApproves(c)
    \/ LeaseExpires(c)
    \/ SweepReclaims(c)
    \/ PersonLooks(c)
    \/ PersonRecordsNoRefund(c)
    \/ PersonRecordsSuccess(c)
    \/ ServiceReconciles(c)
    \/ MachineDisabled(c)
    \/ MachineEnabled(c)

ProviderStep ==
    \E call \in InFlight : \/ ProviderAcceptsRequest(call)
                           \/ ProviderPays(call)
                           \/ ProviderDoesNothing(call)

Next ==
    \/ \E w \in Workers, c \in Cases, usable \in BOOLEAN : WorkerClaims(w, c, usable)
    \/ \E w \in Workers : WorkerStep(w) \/ WorkerMishap(w)
    \/ ProviderStep
    \/ \E c \in Cases : CaseStep(c)

Spec == Init /\ [][Next]_vars

\* The sweep runs on a schedule, claims the oldest due attempt and runs its
\* workers to an end; clocks advance; somebody turns a machine on again.
SystemFairness ==
    /\ \A w \in Workers : WF_vars(WorkerStep(w))
    /\ \A c \in Cases : /\ WF_vars(\E w \in Workers : WorkerClaims(w, c, TRUE))
                        /\ WF_vars(Orphaned(c) /\ LeaseExpires(c))
                        /\ WF_vars(SweepReclaims(c))
                        /\ WF_vars(MachineEnabled(c))

\* People work the list of held refunds, and run the recovery where it applies.
PeopleFairness ==
    \A c \in Cases : /\ WF_vars(PersonLooks(c))
                     /\ WF_vars(PersonRecordsSuccess(c))
                     /\ WF_vars(ServiceReconciles(c))

FairSpec == Spec /\ SystemFairness
StaffedSpec == FairSpec /\ PeopleFairness

----------------------------------------------------------------------------
(* Safety.                                                                 *)

\* The customer's money is refunded at most once for a case, over all workers,
\* generations, lost answers and late calls.
MoneyOnce == \A c \in Cases : paid[c] <= 1

\* A case is completed (its adjustment and receipt written, its customer told)
\* only when Nayax has refunded it, whichever of the three ways completed it.
CompletedIsPaid == \A c \in Cases : cases[c].status = "completed" => paid[c] > 0

\* The case's state and its attempt's state, written by different statements of
\* seven functions, never drift apart; claims, evidence and settlement test both.
CaseMatchesAttempt ==
    \A c \in Cases :
        /\ attempts[c].status = "none" => cases[c].status = "needs_review"
        /\ attempts[c].status = "created" => cases[c] = Pending("not_requested")
        /\ attempts[c].status = "in_progress" => cases[c] = Pending("requested")
        /\ attempts[c].status = "manual_review" => cases[c] = Pending("ambiguous")
        /\ attempts[c].status = "succeeded" => cases[c] = Completed

\* Whatever waits in the queue has not reached Nayax in its current generation:
\* no row, no call, no worker about to call.  This is what lets a sweep run it.
QueuedIsUntouched ==
    \A c \in Cases : attempts[c].status = "created" =>
        /\ \A row \in journal : row.case = c => row.gen # attempts[c].gen
        /\ \A call \in sent : call.case = c => call.gen # attempts[c].gen
        /\ \A w \in Workers : ~(workers[w].at = "send" /\ workers[w].case = c
                                 /\ workers[w].gen = attempts[c].gen)

\* A call of one generation and stage goes out once, however many workers held
\* the claim, stalled, crashed or were reclaimed.
SendsOnce ==
    \A w \in Workers : workers[w].at = "send" =>
        /\ MyCall(w) \notin sent
        /\ \A v \in Workers \ {w} : workers[v].at = "send" => MyCall(v) # MyCall(w)

\* The approve call, which moves the money, is only ever made for a request the
\* database recorded as accepted in this or an earlier generation.
ApprovalNeedsAcceptance ==
    \A row \in journal : row.stage = "approve" =>
        \E g \in 1..row.gen : ResultRow(row.case, g, "request", "accepted") \in journal

\* Once the database has recorded an accepted request, no later generation
\* opens another refund request on the same purchase.
NoRequestAfterAcceptance ==
    \A row, later \in journal :
        /\ row = ResultRow(row.case, row.gen, "request", "accepted")
        /\ later.case = row.case /\ later.stage = "request"
        => later.gen <= row.gen

----------------------------------------------------------------------------
(* Why MoneyOnce holds: the parts of its inductive invariant.              *)

\* Every call that can still reach Nayax belongs to the current generation.
CallsAreCurrent ==
    /\ \A call \in InFlight : call.gen = attempts[call.case].gen
    /\ \A w \in Workers : workers[w].at \in {"send", "wait"} =>
          workers[w].gen = attempts[workers[w].case].gen

\* A worker under whose token an attempt is in progress knows its generation.
ClaimsAreCurrent ==
    \A w \in Workers :
        LET a == attempts[workers[w].case] IN
        workers[w].at # "idle" /\ a.status = "in_progress" /\ a.holder = w
        => workers[w].gen = a.gen

\* What somebody saw about the current hold is still so: nothing was under way.
LooksAreTrue ==
    \A c \in Cases :
        /\ seen[c].gen <= attempts[c].gen
        /\ seen[c].gen = attempts[c].gen =>
              /\ attempts[c].status \in {"manual_review", "succeeded"}
              /\ ~CallsUnderWay(c)
              /\ ~seen[c].refunded => paid[c] = 0

\* The one refund of a case answered the approve call of its current generation.
PaidOnce ==
    \A c \in Cases :
        \/ paid[c] = 0
        \/ paid[c] = 1 /\ [case |-> c, gen |-> attempts[c].gen, stage |-> "approve"] \in answered

\* Nothing happens to a case before its approval.
UnapprovedIsUntouched ==
    \A c \in Cases : attempts[c].status = "none" =>
        attempts[c] = NoAttempt /\ ~CallsUnderWay(c)

MoneyInv == /\ CallsAreCurrent /\ ClaimsAreCurrent /\ LooksAreTrue
            /\ PaidOnce /\ UnapprovedIsUntouched

\* What the journal tells of an attempt: every row is of a generation it has had,
\* and nothing is journaled of a stage before its start.
RowsArePast ==
    \A row \in journal :
        /\ attempts[row.case].status # "none" /\ row.gen <= attempts[row.case].gen
        /\ StartedRow(row.case, row.gen, row.stage) \in journal

FirstIsFirst == \A c \in Cases : attempts[c].status = "none" => attempts[c].gen = 1

QueuedHasNoRows ==
    \A row \in journal :
        attempts[row.case].status = "created" => row.gen # attempts[row.case].gen

\* A generation after an accepted request only approves.
AcceptedIsOnlyApproved ==
    \A row \in journal :
        row = ResultRow(row.case, row.gen, "request", "accepted") /\ row.gen < attempts[row.case].gen
        => attempts[row.case].plan = "approve_only"

\* Whatever went or is about to go to Nayax was journaled as started before.
JournaledAsStarted(call) == StartedRow(call.case, call.gen, call.stage) \in journal
CallsAreJournaled ==
    /\ \A call \in sent : JournaledAsStarted(call)
    /\ \A w \in Workers : workers[w].at = "send" => JournaledAsStarted(MyCall(w))

JournalInv == /\ RowsArePast /\ FirstIsFirst /\ QueuedHasNoRows /\ AcceptedIsOnlyApproved
              /\ ApprovalNeedsAcceptance /\ NoRequestAfterAcceptance
SendInv == ClaimsAreCurrent /\ CallsAreJournaled /\ SendsOnce

\* Everything that claims a refund happened rests on a refund: the journal, the
\* answer a worker carries to it, what somebody saw, and the completed case.
ClaimsOfRefundAreTrue ==
    /\ \A row \in journal : row.outcome = "succeeded" => paid[row.case] > 0
    /\ \A w \in Workers : workers[w].answer = "succeeded" => paid[workers[w].case] > 0
    /\ \A c \in Cases : seen[c].refunded => paid[c] > 0
    /\ CompletedIsPaid

----------------------------------------------------------------------------
(* What a step may never do.                                               *)

\* A continuation generation begins only while Nayax has not refunded the case.
ContinuesUnpaid ==
    [][\A c \in Cases : attempts'[c].gen # attempts[c].gen => paid[c] = 0]_vars

\* A settled refund stays settled against late holds, reclaims and settlements.
FinalStays ==
    [][\A c \in Cases : attempts[c].status = "succeeded" =>
          attempts'[c] = attempts[c] /\ cases'[c] = cases[c]]_vars

----------------------------------------------------------------------------
(* What must happen.                                                       *)

\* An approved refund is settled or handed to people; it is never forgotten in
\* the queue or in a dead worker's lease.
ApprovedSettles ==
    \A c \in Cases : attempts[c].status \in {"created", "in_progress"} ~>
                       (Held(c) \/ attempts[c].status = "succeeded")

\* A held refund that Nayax did make is confirmed by the people who look at it.
PaidIsConfirmed ==
    \A c \in Cases : (Held(c) /\ paid[c] > 0) ~> cases[c].status = "completed"
StaffConfirmsPaid == PeopleFairness => PaidIsConfirmed

----------------------------------------------------------------------------
(* The promise to the customer, as a specification of its own.             *)

PromiseState ==
    [c \in Cases |-> IF cases[c].status = "needs_review" THEN "open"
                    ELSE IF cases[c].status = "card_refund_pending" THEN "approved" ELSE "done"]

Promise == INSTANCE RefundPromise WITH state <- PromiseState

\* Each step of the system is a step of the promise, or invisible to it.
KeepsPromise == Promise!Spec
=============================================================================
