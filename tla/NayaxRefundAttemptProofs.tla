--------------------- MODULE NayaxRefundAttemptProofs ----------------------
(***************************************************************************)
(* Theorems about NayaxRefundAttempt, for every set of cases and workers,  *)
(* every limit on generations, every amount and every number of mishaps:   *)
(* first the money, then the database side, then the promise.              *)
(***************************************************************************)
EXTENDS NayaxRefundAttempt, TLAPS

----------------------------------------------------------------------------
(* Types.                                                                  *)

\* The idle worker is a worker.
LEMMA IdleType == Idle \in Job /\ Idle.at = "idle"
<1>1. (CHOOSE c \in Cases : TRUE) \in Cases
  BY AttemptConstants
<1> QED
  BY <1>1, StoreConstants DEF Idle, Job, Steps, Generations, Plans, Stages, StageOutcomes

\* The missing attempt is an attempt.
LEMMA NoAttemptType == NoAttempt \in Attempt
  BY StoreConstants DEF NoAttempt, Attempt, Generations, Plans

\* The first state is typed.
LEMMA InitType == Init => TypeOK
<1> SUFFICES ASSUME Init PROVE TypeOK
  OBVIOUS
<1>1. StoreTypeOK
  BY NoAttemptType DEF Init, StoreInit, StoreTypeOK, Case
<1>2. workers \in [Workers -> Job]
  BY IdleType DEF Init
<1>3. seen \in [Cases -> Look]
  BY StoreConstants DEF Init, Look
<1>4. AnswersFit
  BY IdleType DEF Init, AnswersFit
<1> QED
  BY <1>1, <1>2, <1>3, <1>4, AttemptConstants DEF Init, ProviderInit, TypeOK

JobsOK == workers \in [Workers -> Job] /\ AnswersFit

\* Where a worker may go: every one of its assignments yields a job again.
LEMMA WorkerTypes ==
    ASSUME JobsOK, NEW w \in Workers
    PROVE  /\ \A at \in Steps, stage \in Stages,
                 answer \in StageOutcomes \cup {"none", "success"} :
                 /\ at = "result" => answer \in StageOutcomes
                 /\ at \in {"settle", "settle_again"} => answer \in Outcomes
                 /\ Moves(w, at, stage, answer)
                 => JobsOK'
           /\ \A at \in Steps \ {"result", "settle", "settle_again"} :
                 Goes(w, at) => JobsOK'
           /\ GivesUpStage(w) => JobsOK'
           /\ Finishes(w) => JobsOK'
           /\ workers[w].at \in {"settle", "settle_again", "hold", "hold_again"} =>
                 (Retries(w) => JobsOK')
<1> USE DEF JobsOK
<1>0. /\ workers[w] \in Job
      /\ workers[w].stage \in Stages
      /\ workers[w].answer \in StageOutcomes \cup {"none", "success"}
  BY DEF Job
<1>1. ASSUME NEW at \in Steps, NEW stage \in Stages,
             NEW answer \in StageOutcomes \cup {"none", "success"},
             at = "result" => answer \in StageOutcomes,
             at \in {"settle", "settle_again"} => answer \in Outcomes,
             Moves(w, at, stage, answer)
      PROVE  JobsOK'
  <2>1. workers' \in [Workers -> Job]
    BY <1>1 DEF Moves, Job
  <2>2. \A v \in Workers : v # w => workers'[v] = workers[v]
    BY <1>1 DEF Moves
  <2>3. workers'[w].at = at /\ workers'[w].answer = answer
    BY <1>1 DEF Moves
  <2> QED
    BY <1>1, <2>1, <2>2, <2>3 DEF AnswersFit
<1>2. \A at \in Steps \ {"result", "settle", "settle_again"} : Goes(w, at) => JobsOK'
  BY <1>0, <1>1 DEF Goes
<1>3. GivesUpStage(w) => JobsOK'
  BY <1>0, <1>1 DEF GivesUpStage, Becomes, Steps, StageOutcomes, Outcomes
<1>4. Finishes(w) => JobsOK'
  BY IdleType DEF Finishes, AnswersFit, Idle
<1>5. ASSUME workers[w].at \in {"settle", "settle_again", "hold", "hold_again"}, Retries(w)
      PROVE  JobsOK'
  <2>1. CASE workers[w].at = "settle"
    <3>1. AfterFailure(workers[w].at) = "settle_again"
      BY <2>1 DEF AfterFailure
    <3> QED
      BY <1>5, <3>1, <2>1, <1>0, <1>1 DEF Retries, Goes, AnswersFit, Steps
  <2>2. CASE workers[w].at # "settle"
    <3>1. AfterFailure(workers[w].at) \in {"hold", "hold_again", "idle"}
      BY <1>5, <2>2 DEF AfterFailure
    <3> QED
      BY <1>5, <3>1, <1>2, <1>4 DEF Retries, Steps
  <2> QED
    BY <2>1, <2>2
<1> QED
  BY <1>1, <1>2, <1>3, <1>4, <1>5

\* The store's updates of one case and its attempt.
LEMMA StoreTypes ==
    ASSUME StoreTypeOK, NEW c \in Cases
    PROVE  /\ \A outcome \in Outcomes : HoldAs(c, outcome) => StoreTypeOK'
           /\ \A referenced \in BOOLEAN : CompleteAs(c, referenced) => StoreTypeOK'
           /\ Approve(c) => StoreTypeOK'
           /\ \A w \in Workers : Claim(w, c) => StoreTypeOK'
           /\ Expire(c) => StoreTypeOK'
           /\ ReclaimRequeues(c) => StoreTypeOK'
           /\ NoRefundEvidence(c) => StoreTypeOK'
           /\ \A on \in BOOLEAN : SetMachine(c, on) => StoreTypeOK'
<1> USE DEF StoreTypeOK, Attempt, Case, Pending, Completed
<1>1. \A outcome \in Outcomes : HoldAs(c, outcome) => StoreTypeOK'
  BY DEF HoldAs, HeldWith, Outcomes
<1>2. \A referenced \in BOOLEAN : CompleteAs(c, referenced) => StoreTypeOK'
  BY DEF CompleteAs, Succeeded, Outcomes
<1>3. Approve(c) => StoreTypeOK'
  BY StoreConstants DEF Approve, Queued, Generations, Plans
<1>4. \A w \in Workers : Claim(w, c) => StoreTypeOK'
  BY DEF Claim, Claimed
<1>5. Expire(c) => StoreTypeOK'
  BY DEF Expire, Claimed
<1>6. ReclaimRequeues(c) => StoreTypeOK'
  BY DEF ReclaimRequeues, Queued
<1>7. NoRefundEvidence(c) => StoreTypeOK'
  <2> SUFFICES ASSUME NoRefundEvidence(c) PROVE StoreTypeOK'
    OBVIOUS
  <2>1. ContinuationPlan(c) \in Plans
    BY DEF ContinuationPlan, Plans
  <2>2. attempts[c].gen + 1 \in Generations
    BY StoreConstants DEF NoRefundEvidence, Generations
  <2>3. Queued(attempts[c].gen + 1, ContinuationPlan(c)) \in Attempt
    BY <2>1, <2>2 DEF Queued
  <2>4. attempts' \in [Cases -> Attempt]
    BY <2>3 DEF NoRefundEvidence
  <2>5. proofs' \subseteq Proof
    BY <2>1 DEF NoRefundEvidence, Proof
  <2> QED
    BY <2>4, <2>5 DEF NoRefundEvidence
<1>8. \A on \in BOOLEAN : SetMachine(c, on) => StoreTypeOK'
  BY DEF SetMachine
<1> QED
  BY <1>1, <1>2, <1>3, <1>4, <1>5, <1>6, <1>7, <1>8

\* Every step keeps the types.
LEMMA TypeStep == TypeOK /\ [Next]_vars => TypeOK'
<1> SUFFICES ASSUME TypeOK, [Next]_vars PROVE TypeOK'
  OBVIOUS
<1> USE DEF TypeOK
<1> USE AttemptConstants
<1>0. \A w \in Workers : /\ workers[w].case \in Cases
                          /\ workers[w].stage \in Stages
                          /\ workers[w].gen \in Generations
                          /\ workers[w].answer \in StageOutcomes \cup {"none", "success"}
  BY DEF Job
<1>1. ASSUME NEW w \in Workers, NEW c \in Cases, NEW usable \in BOOLEAN,
             WorkerClaims(w, c, usable)
      PROVE  TypeOK'
  <2>1. StoreTypeOK'
    BY <1>1, StoreTypes DEF WorkerClaims
  <2>2. workers' \in [Workers -> Job]
    BY <1>1 DEF WorkerClaims, Job, Steps, Stages, StageOutcomes, StoreTypeOK, Attempt
  <2>3. AnswersFit'
    BY <1>1 DEF WorkerClaims, AnswersFit
  <2> QED
    BY <1>1, <2>1, <2>2, <2>3 DEF WorkerClaims, Unless, Fault
<1>2. ASSUME NEW w \in Workers, NEW heard \in BOOLEAN, WorkerStarts(w, heard)
      PROVE  TypeOK'
  <2>1. StoreTypeOK'
    BY <1>0, <1>2 DEF WorkerStarts, JournalStarted, StartedRow, StoreTypeOK, Row, Attempt
  <2>2. JobsOK'
    BY <1>2, WorkerTypes DEF WorkerStarts, Steps, JobsOK
  <2> QED
    BY <1>2, <2>1, <2>2 DEF WorkerStarts, provider, Unless, Fault, JobsOK
<1>3. ASSUME NEW w \in Workers, NEW heard \in BOOLEAN, WorkerRecordsResult(w, heard)
      PROVE  TypeOK'
  <2>1. workers[w].answer \in StageOutcomes
    BY <1>3 DEF WorkerRecordsResult, AnswersFit
  <2>2. StoreTypeOK'
    BY <1>0, <1>3, <2>1 DEF WorkerRecordsResult, JournalResult, ResultRow, StoreTypeOK, Row, Attempt
  <2>3. JobsOK'
    <3>1. CASE GivesUpStage(w)
      BY <3>1, WorkerTypes DEF JobsOK
    <3>2. CASE Moves(w, "start", "approve", "none")
      BY <3>2, WorkerTypes DEF JobsOK, Steps, Stages
    <3>3. CASE /\ workers[w].answer # "accepted"
               /\ Becomes(w, "settle", IF workers[w].answer = "succeeded" THEN "success"
                                       ELSE workers[w].answer)
      BY <1>0, <2>1, <3>3, WorkerTypes DEF JobsOK, Becomes, Steps, StageOutcomes, Outcomes
    <3> QED
      BY <1>3, <3>1, <3>2, <3>3 DEF WorkerRecordsResult
  <2> QED
    BY <1>3, <2>2, <2>3 DEF WorkerRecordsResult, provider, Unless, Fault, JobsOK
<1>4. ASSUME NEW w \in Workers, NEW heard \in BOOLEAN, WorkerSettles(w, heard)
      PROVE  TypeOK'
  <2>1. workers[w].answer \in Outcomes
    BY <1>4 DEF WorkerSettles, AnswersFit
  <2>2. StoreTypeOK'
    BY <1>0, <1>4, <2>1, StoreTypes DEF WorkerSettles, Settle
  <2>3. JobsOK'
    BY <1>4, WorkerTypes DEF WorkerSettles, JobsOK
  <2> QED
    BY <1>4, <2>2, <2>3 DEF WorkerSettles, provider, Unless, Fault, JobsOK
<1>5. ASSUME NEW w \in Workers, NEW heard \in BOOLEAN, WorkerHolds(w, heard)
      PROVE  TypeOK'
  <2>1. StoreTypeOK'
    BY <1>0, <1>5, StoreTypes DEF WorkerHolds, HoldAttempt, Outcomes
  <2>2. JobsOK'
    BY <1>5, WorkerTypes DEF WorkerHolds, JobsOK
  <2> QED
    BY <1>5, <2>1, <2>2 DEF WorkerHolds, provider, Unless, Fault, JobsOK
<1>6. ASSUME NEW w \in Workers, WorkerSends(w)
      PROVE  TypeOK'
  <2>1. JobsOK'
    BY <1>6, WorkerTypes DEF WorkerSends, JobsOK, Steps
  <2>2. sent' \subseteq Call /\ answered' \subseteq sent'
    BY <1>0, <1>6 DEF WorkerSends, Send, MyCall, Call
  <2> QED
    BY <1>6, <2>1, <2>2 DEF WorkerSends, Send, store, StoreTypeOK, JobsOK
<1>7. ASSUME NEW w \in Workers, NEW answer \in {"timeout", "unknown"},
             WorkerStopsWaiting(w, answer)
      PROVE  TypeOK'
  <2>1. JobsOK'
    BY <1>0, <1>7, WorkerTypes
    DEF WorkerStopsWaiting, Becomes, JobsOK, Steps, StageOutcomes
  <2> QED
    BY <1>7, <2>1 DEF WorkerStopsWaiting, store, provider, StoreTypeOK, JobsOK
<1>8. ASSUME NEW w \in Workers, WorkerIsFenced(w) \/ WorkerSettlementRead(w) \/ WorkerHoldRead(w)
      PROVE  TypeOK'
  <2>1. JobsOK'
    BY <1>8, WorkerTypes DEF WorkerIsFenced, WorkerSettlementRead, WorkerHoldRead, JobsOK
  <2> QED
    BY <1>8, <2>1
    DEF WorkerIsFenced, WorkerSettlementRead, WorkerHoldRead, store, provider, StoreTypeOK, JobsOK
<1>9. ASSUME NEW w \in Workers, WorkerMishap(w)
      PROVE  TypeOK'
  <2>1. JobsOK'
    BY <1>9, WorkerTypes
    DEF WorkerMishap, WorkerRefusesContext, WorkerLosesRequest, WorkerCrashes, JobsOK, Steps
  <2> QED
    BY <1>9, <2>1
    DEF WorkerMishap, WorkerRefusesContext, WorkerLosesRequest, WorkerCrashes, Fault,
        store, provider, StoreTypeOK, JobsOK
<1>10. ASSUME NEW call \in InFlight,
              ProviderAcceptsRequest(call) \/ ProviderPays(call) \/ ProviderDoesNothing(call)
       PROVE  TypeOK'
  <2>1. call \in sent /\ call.case \in Cases
    BY DEF InFlight, Call
  <2>2. \A answer \in {"accepted", "succeeded", "rejected", "unknown"} :
           Answers(call, answer) => JobsOK'
    <3> SUFFICES ASSUME NEW answer \in {"accepted", "succeeded", "rejected", "unknown"},
                        Answers(call, answer)
                 PROVE  JobsOK'
      OBVIOUS
    <3>1. CASE UNCHANGED workers
      BY <3>1 DEF JobsOK, AnswersFit
    <3>2. ASSUME NEW w \in Workers, Becomes(w, "result", answer)
          PROVE  JobsOK'
      BY <1>0, <3>2, WorkerTypes DEF Becomes, JobsOK, Steps, StageOutcomes
    <3> QED
      BY <3>1, <3>2 DEF Answers
  <2>3. JobsOK'
    BY <1>10, <2>2 DEF ProviderAcceptsRequest, ProviderPays, ProviderDoesNothing
  <2>4. late' \subseteq Cases
    BY <1>10, <2>1 DEF ProviderAcceptsRequest, ProviderPays, ProviderDoesNothing
  <2>5. /\ sent' \subseteq Call /\ answered' \subseteq sent'
        /\ asked' \in [Cases -> Nat] /\ paid' \in [Cases -> Nat]
    BY <1>10, <2>1
    DEF ProviderAcceptsRequest, ProviderPays, ProviderDoesNothing,
        AcceptRequest, PayApproval, NoEffect
  <2> QED
    BY <1>10, <2>3, <2>4, <2>5
    DEF ProviderAcceptsRequest, ProviderPays, ProviderDoesNothing, store, StoreTypeOK, JobsOK
<1>11. ASSUME NEW c \in Cases, CaseStep(c)
       PROVE  TypeOK'
  <2>1. StoreTypeOK'
    <3>1. CASE PersonLooks(c)
      BY <3>1 DEF PersonLooks, store, StoreTypeOK
    <3>2. CASE SweepReclaims(c)
      BY <3>2, StoreTypes DEF SweepReclaims, ReclaimHolds, Outcomes
    <3>3. CASE PersonRecordsSuccess(c) \/ ServiceReconciles(c)
      BY <3>3, StoreTypes DEF PersonRecordsSuccess, ServiceReconciles, SuccessEvidence, ReconcileProved
    <3>4. CASE MachineDisabled(c) \/ MachineEnabled(c)
      BY <3>4, StoreTypes DEF MachineDisabled, MachineEnabled
    <3>5. CASE ManagerApproves(c) \/ LeaseExpires(c) \/ PersonRecordsNoRefund(c)
      BY <3>5, StoreTypes DEF ManagerApproves, LeaseExpires, PersonRecordsNoRefund
    <3> QED
      BY <1>11, <3>1, <3>2, <3>3, <3>4, <3>5 DEF CaseStep
  <2>2. /\ UNCHANGED <<provider, workers, late>>
        /\ seen' \in [Cases -> Look]
        /\ faults' \in 0..MaxFaults
    <3>1. CASE PersonLooks(c)
      <4>1. attempts[c].gen \in 0..MaxGen
        BY StoreConstants DEF StoreTypeOK, Attempt, Generations
      <4>2. (paid[c] > 0) \in BOOLEAN
        OBVIOUS
      <4>3. [gen |-> attempts[c].gen, refunded |-> paid[c] > 0] \in Look
        BY <4>1, <4>2, Zenon DEF Look
      <4>4. \A look \in Look : [seen EXCEPT ![c] = look] \in [Cases -> Look]
        OBVIOUS
      <4>5. seen' \in [Cases -> Look]
        BY <3>1, <4>3, <4>4, Zenon DEF PersonLooks
      <4>6. UNCHANGED <<provider, workers, late, faults>>
        BY <3>1 DEF PersonLooks
      <4> QED
        BY <4>5, <4>6
    <3>2. CASE LeaseExpires(c) \/ MachineDisabled(c)
      <4>1. UNCHANGED <<provider, workers, seen, late>>
        BY <3>2, Zenon DEF LeaseExpires, MachineDisabled
      <4>2. UNCHANGED faults \/ Fault
        BY <3>2, Zenon DEF LeaseExpires, MachineDisabled, Unless
      <4>3. faults' \in 0..MaxFaults
        BY <4>2 DEF Fault
      <4> QED
        BY <4>1, <4>3 DEF provider
    <3>3. CASE \/ ManagerApproves(c) \/ SweepReclaims(c) \/ PersonRecordsNoRefund(c)
               \/ PersonRecordsSuccess(c) \/ ServiceReconciles(c) \/ MachineEnabled(c)
      BY <3>3
      DEF ManagerApproves, SweepReclaims, PersonRecordsNoRefund, PersonRecordsSuccess,
          ServiceReconciles, MachineEnabled
    <3> QED
      BY <1>11, <3>1, <3>2, <3>3 DEF CaseStep
  <2>3. AnswersFit'
    BY <2>2 DEF AnswersFit
  <2> QED
    BY <2>1, <2>2, <2>3 DEF provider
<1>12. CASE UNCHANGED vars
  BY <1>12 DEF vars, StoreTypeOK, AnswersFit
<1> QED
  BY <1>1, <1>2, <1>3, <1>4, <1>5, <1>6, <1>7, <1>8, <1>9, <1>10, <1>11, <1>12
  DEF Next, WorkerStep, ProviderStep

\* The state stays within its types: in particular no attempt passes the last
\* generation the table admits, and settlement only ever gets a final outcome.
THEOREM TypeCorrect == Spec => []TypeOK
<1>1. Init => TypeOK
  BY InitType
<1>2. TypeOK /\ [Next]_vars => TypeOK'
  BY TypeStep
<1> QED
  BY <1>1, <1>2, PTL DEF Spec

----------------------------------------------------------------------------
(* One refund at most.                                                     *)

\* Most steps neither call Nayax nor look at it, keep every attempt in its
\* generation, and at most take workers out of their calls.
LEMMA QuietStep ==
    ASSUME TypeOK, MoneyInv, TypeOK',
           UNCHANGED <<sent, answered, paid, seen>>,
           \A c \in Cases :
              \/ attempts'[c] = attempts[c]
              \/ /\ attempts'[c].gen = attempts[c].gen
                 /\ attempts'[c].status # "none"
                 /\ attempts[c].status \in {"manual_review", "succeeded"} =>
                       attempts'[c].status \in {"manual_review", "succeeded"}
                 /\ attempts'[c].status = "in_progress" =>
                       attempts[c].status = "in_progress"
                       /\ attempts'[c].holder = attempts[c].holder,
           \A w \in Workers :
              \/ workers'[w] = workers[w]
              \/ workers'[w].at = "idle"
              \/ /\ workers'[w].at \notin {"send", "wait"}
                 /\ workers[w].at # "idle"
                 /\ workers'[w].case = workers[w].case
                 /\ workers'[w].gen = workers[w].gen
    PROVE  MoneyInv'
<1> USE DEF MoneyInv
<1>0. /\ \A w \in Workers : workers[w].case \in Cases /\ workers'[w].case \in Cases
      /\ \A call \in InFlight : call.case \in Cases
      /\ \A c \in Cases : attempts'[c].gen = attempts[c].gen
      /\ InFlight' = InFlight
  BY DEF TypeOK, Job, Call, InFlight
<1>1. CallsAreCurrent'
  BY <1>0 DEF CallsAreCurrent
<1>2. ClaimsAreCurrent'
  BY <1>0 DEF ClaimsAreCurrent
<1>3. \A c \in Cases : CallsUnderWay(c)' => CallsUnderWay(c)
  BY <1>0 DEF CallsUnderWay
<1>4. LooksAreTrue'
  BY <1>0, <1>3 DEF LooksAreTrue
<1>5. PaidOnce'
  BY <1>0 DEF PaidOnce
<1>6. UnapprovedIsUntouched'
  BY <1>0, <1>3 DEF UnapprovedIsUntouched
<1> QED
  BY <1>1, <1>2, <1>4, <1>5, <1>6

\* Before approval nothing is called, seen or paid.
LEMMA MoneyInit == Init => MoneyInv
<1> SUFFICES ASSUME Init PROVE MoneyInv
  OBVIOUS
<1>1. /\ InFlight = {} /\ \A w \in Workers : workers[w].at = "idle"
      /\ \A c \in Cases : attempts[c] = NoAttempt /\ seen[c].gen = 0 /\ paid[c] = 0
  BY IdleType DEF Init, StoreInit, ProviderInit, InFlight
<1>2. \A c \in Cases : ~CallsUnderWay(c)
  BY <1>1 DEF CallsUnderWay
<1>3. \A c \in Cases : attempts[c].gen = 1
  <2>1. NoAttempt.gen = 1
    BY DEF NoAttempt
  <2> QED
    BY <1>1, <2>1, Zenon
<1>4. CallsAreCurrent /\ ClaimsAreCurrent
  BY <1>1, Zenon DEF CallsAreCurrent, ClaimsAreCurrent
<1>5. LooksAreTrue /\ PaidOnce
  BY <1>1, <1>3 DEF LooksAreTrue, PaidOnce
<1>6. UnapprovedIsUntouched
  BY <1>1, <1>2, Zenon DEF UnapprovedIsUntouched
<1> QED
  BY <1>4, <1>5, <1>6 DEF MoneyInv

\* Where a worker goes when it neither starts a job nor calls Nayax.
LEMMA WorkerLeaves ==
    ASSUME TypeOK, NEW w \in Workers, workers[w].at # "idle",
           \/ \E at \in Steps \ {"send", "wait"} : \E stage, answer : Moves(w, at, stage, answer)
           \/ Finishes(w)
    PROVE  \A v \in Workers :
              \/ workers'[v] = workers[v]
              \/ workers'[v].at = "idle"
              \/ /\ workers'[v].at \notin {"send", "wait"}
                 /\ workers[v].at # "idle"
                 /\ workers'[v].case = workers[v].case
                 /\ workers'[v].gen = workers[v].gen
<1>1. CASE Finishes(w)
  BY <1>1, IdleType DEF Finishes, TypeOK
<1>2. ASSUME NEW at \in Steps \ {"send", "wait"}, NEW stage, NEW answer, Moves(w, at, stage, answer)
      PROVE  /\ workers'[w].at = at /\ workers'[w].case = workers[w].case
             /\ workers'[w].gen = workers[w].gen
             /\ \A v \in Workers : v # w => workers'[v] = workers[v]
  BY <1>2 DEF Moves, TypeOK
<1> QED
  BY <1>1, <1>2

\* A second try of settlement or hold is one of the ways WorkerLeaves describes.
LEMMA RetriesLeaves ==
    ASSUME NEW w \in Workers, Retries(w),
           workers[w].at \in {"settle", "settle_again", "hold", "hold_again"}
    PROVE  \/ \E at \in Steps \ {"send", "wait"} : \E stage, answer : Moves(w, at, stage, answer)
           \/ Finishes(w)
<1>1. AfterFailure(workers[w].at) \in {"settle_again", "hold", "hold_again", "idle"}
  BY DEF AfterFailure
<1> QED
  BY <1>1 DEF Retries, Goes, Steps
\* The steps of a worker that leave Nayax alone.
LEMMA WorkerIsQuiet ==
    ASSUME TypeOK, MoneyInv, TypeOK', NEW w \in Workers,
           \/ \E heard \in BOOLEAN : \/ WorkerRecordsResult(w, heard)
                                     \/ WorkerStarts(w, heard) /\ ~heard
                                     \/ WorkerSettles(w, heard)
                                     \/ WorkerHolds(w, heard)
           \/ \E answer \in {"timeout", "unknown"} : WorkerStopsWaiting(w, answer)
           \/ WorkerIsFenced(w) \/ WorkerSettlementRead(w) \/ WorkerHoldRead(w)
           \/ WorkerMishap(w)
    PROVE  MoneyInv'
<1>0. workers[w].case \in Cases
  BY DEF TypeOK, Job
<1>1. UNCHANGED <<sent, answered, paid, seen>>
  BY DEF WorkerRecordsResult, WorkerStarts, WorkerSettles, WorkerHolds, WorkerStopsWaiting,
         WorkerIsFenced, WorkerSettlementRead, WorkerHoldRead, WorkerMishap,
         WorkerRefusesContext, WorkerLosesRequest, WorkerCrashes, provider
<1>2. \/ UNCHANGED attempts
      \/ /\ attempts[workers[w].case].status = "in_progress"
         /\ \/ \E outcome : HoldAs(workers[w].case, outcome)
            \/ CompleteAs(workers[w].case, TRUE)
  BY DEF WorkerRecordsResult, JournalResult, WorkerStarts, JournalStarted, WorkerSettles, Settle,
         MaySettle, ClaimIsLive, WorkerHolds, HoldAttempt, WorkerStopsWaiting, WorkerIsFenced,
         WorkerSettlementRead, WorkerHoldRead, WorkerMishap, WorkerRefusesContext,
         WorkerLosesRequest, WorkerCrashes, store
<1>3. workers[w].at # "idle"
  BY DEF WorkerRecordsResult, WorkerStarts, WorkerSettles, WorkerHolds, WorkerStopsWaiting,
         WorkerIsFenced, WorkerSettlementRead, WorkerHoldRead, WorkerMishap,
         WorkerRefusesContext, WorkerLosesRequest, WorkerCrashes
<1>4. \/ \E at \in Steps \ {"send", "wait"} : \E stage, answer : Moves(w, at, stage, answer)
      \/ Finishes(w)
  <2>1. \/ GivesUpStage(w) \/ Finishes(w) \/ Goes(w, "hold") \/ Moves(w, "start", "approve", "none")
        \/ \E answer : Becomes(w, "result", answer) \/ Becomes(w, "settle", answer)
        \/ /\ workers[w].at \in {"settle", "settle_again", "hold", "hold_again"}
           /\ Retries(w)
    BY DEF WorkerRecordsResult, WorkerStarts, WorkerSettles, WorkerHolds, WorkerStopsWaiting,
           WorkerIsFenced, WorkerSettlementRead, WorkerHoldRead, WorkerMishap,
           WorkerRefusesContext, WorkerLosesRequest, WorkerCrashes
  <2> QED
    BY <2>1, RetriesLeaves DEF GivesUpStage, Becomes, Goes, Steps
<1>5. \A v \in Workers :
         \/ workers'[v] = workers[v]
         \/ workers'[v].at = "idle"
         \/ /\ workers'[v].at \notin {"send", "wait"}
            /\ workers[v].at # "idle"
            /\ workers'[v].case = workers[v].case
            /\ workers'[v].gen = workers[v].gen
  BY <1>3, <1>4, WorkerLeaves
<1>6. \A c \in Cases :
         \/ attempts'[c] = attempts[c]
         \/ /\ attempts'[c].gen = attempts[c].gen
            /\ attempts'[c].status # "none"
            /\ attempts[c].status \in {"manual_review", "succeeded"} =>
                  attempts'[c].status \in {"manual_review", "succeeded"}
            /\ attempts'[c].status = "in_progress" =>
                  attempts[c].status = "in_progress" /\ attempts'[c].holder = attempts[c].holder
  <2> DEFINE Ended(c) == /\ attempts'[c].gen = attempts[c].gen
                         /\ attempts'[c].status \in {"manual_review", "succeeded"}
                         /\ \A d \in Cases \ {c} : attempts'[d] = attempts[d]
  <2>1. \A outcome : HoldAs(workers[w].case, outcome) => Ended(workers[w].case)
    BY <1>0 DEF HoldAs, HeldWith, TypeOK, StoreTypeOK
  <2>2. CompleteAs(workers[w].case, TRUE) => Ended(workers[w].case)
    <3>1. \A a : /\ Succeeded(a, TRUE).gen = a.gen
                 /\ Succeeded(a, TRUE).status = "succeeded"
      BY DEF Succeeded
    <3> SUFFICES ASSUME CompleteAs(workers[w].case, TRUE)
                 PROVE  Ended(workers[w].case)
      OBVIOUS
    <3>2. attempts' = [attempts EXCEPT ![workers[w].case] =
                         Succeeded(attempts[workers[w].case], TRUE)]
      BY Zenon DEF CompleteAs
    <3> HIDE DEF Succeeded
    <3> QED
      BY <1>0, <3>1, <3>2 DEF TypeOK, StoreTypeOK
  <2>3. UNCHANGED attempts \/ Ended(workers[w].case)
    BY <1>2, <2>1, <2>2
  <2> QED
    BY <2>3
<1> QED
  BY <1>1, <1>5, <1>6, QuietStep
\* What the case's own steps do to attempts when they end no hold with a proof.
LEMMA CaseIsQuiet ==
    ASSUME TypeOK, MoneyInv, TypeOK', NEW c \in Cases,
           \/ ManagerApproves(c) \/ LeaseExpires(c) \/ SweepReclaims(c)
           \/ PersonRecordsSuccess(c) \/ ServiceReconciles(c)
           \/ MachineDisabled(c) \/ MachineEnabled(c)
    PROVE  MoneyInv'
<1>1. UNCHANGED <<sent, answered, paid, seen, workers>>
  BY Zenon DEF ManagerApproves, LeaseExpires, SweepReclaims, PersonRecordsSuccess, ServiceReconciles,
               MachineDisabled, MachineEnabled, provider
<1> DEFINE Keeps ==
       /\ attempts'[c].gen = attempts[c].gen
       /\ attempts'[c].status # "none"
       /\ attempts[c].status \in {"manual_review", "succeeded"} =>
             attempts'[c].status \in {"manual_review", "succeeded"}
       /\ attempts'[c].status = "in_progress" =>
             attempts[c].status = "in_progress" /\ attempts'[c].holder = attempts[c].holder
       /\ \A d \in Cases \ {c} : attempts'[d] = attempts[d]
<1> USE DEF TypeOK, StoreTypeOK
<1>2. ASSUME ManagerApproves(c) PROVE Keeps
  <2>1. NoAttempt.gen = 1 /\ NoAttempt.status = "none"
    BY DEF NoAttempt
  <2>2. attempts[c].gen = 1 /\ attempts[c].status = "none"
    BY <1>2, <2>1, Zenon DEF ManagerApproves, Approve, MoneyInv, UnapprovedIsUntouched
  <2>3. attempts' = [attempts EXCEPT ![c] = Queued(1, "request_and_approve")]
    BY <1>2, Zenon DEF ManagerApproves, Approve
  <2> QED
    BY <2>2, <2>3 DEF Queued
<1>3. ASSUME LeaseExpires(c) PROVE Keeps
  BY <1>3 DEF LeaseExpires, Expire, Claimed
<1>4. ASSUME SweepReclaims(c) PROVE Keeps
  BY <1>4 DEF SweepReclaims, ReclaimHolds, ReclaimRequeues, ClaimExpired, HoldAs, HeldWith, Queued
<1>5. ASSUME PersonRecordsSuccess(c) \/ ServiceReconciles(c) PROVE Keeps
  <2>1. PICK referenced \in BOOLEAN : CompleteAs(c, referenced)
    BY <1>5, Zenon DEF PersonRecordsSuccess, SuccessEvidence, ServiceReconciles, ReconcileProved
  <2>2. attempts' = [attempts EXCEPT ![c] = Succeeded(attempts[c], referenced)]
    BY <2>1, Zenon DEF CompleteAs
  <2>3. \A a : Succeeded(a, referenced).gen = a.gen /\ Succeeded(a, referenced).status = "succeeded"
    BY DEF Succeeded
  <2> HIDE DEF Succeeded
  <2> QED
    BY <2>2, <2>3
<1>6. MachineDisabled(c) \/ MachineEnabled(c) => UNCHANGED attempts
  BY Zenon DEF MachineDisabled, MachineEnabled, SetMachine
<1>7. UNCHANGED attempts \/ Keeps
  BY <1>2, <1>3, <1>4, <1>5, <1>6
<1> HIDE DEF TypeOK
<1> QED
  BY <1>1, <1>7, QuietStep

\* A provider call that is handled takes at most one worker out of its wait.
LEMMA HandledCall ==
    ASSUME TypeOK, TypeOK', CallsAreCurrent, ClaimsAreCurrent, UnapprovedIsUntouched,
           NEW call \in InFlight, NEW answer, Answers(call, answer),
           UNCHANGED <<sent, attempts>>, answered' = answered \cup {call}
    PROVE  /\ CallsAreCurrent' /\ ClaimsAreCurrent' /\ UnapprovedIsUntouched'
           /\ \A c \in Cases : CallsUnderWay(c)' => CallsUnderWay(c)
<1>1. \A v \in Workers :
         \/ workers'[v] = workers[v]
         \/ /\ workers'[v].at = "result" /\ workers[v].at = "wait"
            /\ workers'[v].case = workers[v].case /\ workers'[v].gen = workers[v].gen
  BY DEF Answers, Waiting, Becomes, Moves, TypeOK
<1>2. InFlight' \subseteq InFlight
  BY DEF InFlight
<1>3. \A v \in Workers : workers'[v].case \in Cases
  BY DEF TypeOK, Job
<1>4. CallsAreCurrent'
  BY <1>1, <1>2 DEF CallsAreCurrent
<1>5. ClaimsAreCurrent'
  BY <1>1 DEF ClaimsAreCurrent
<1>6. \A c \in Cases : CallsUnderWay(c)' => CallsUnderWay(c)
  BY <1>1, <1>2 DEF CallsUnderWay
<1>7. UnapprovedIsUntouched'
  BY <1>6 DEF UnapprovedIsUntouched
<1> QED
  BY <1>4, <1>5, <1>6, <1>7

\* Every step keeps MoneyInv, given that people look only when calls are settled.
LEMMA MoneyStep ==
    ASSUME SettledBeforeLooking
    PROVE  TypeOK /\ MoneyInv /\ [Next]_vars => MoneyInv'
<1> SUFFICES ASSUME TypeOK, MoneyInv, [Next]_vars PROVE MoneyInv'
  OBVIOUS
<1>0. TypeOK'
  BY TypeStep
<1> USE DEF MoneyInv
<1>t. /\ \A w \in Workers : workers[w].case \in Cases
      /\ \A c \in Cases : attempts[c].gen \in Nat /\ paid[c] \in Nat
      /\ \A call \in InFlight : call.case \in Cases
      /\ attempts \in [Cases -> Attempt] /\ workers \in [Workers -> Job]
      /\ paid \in [Cases -> Nat] /\ seen \in [Cases -> Look]
  BY StoreConstants DEF TypeOK, StoreTypeOK, Attempt, Generations, Job, Call, InFlight
<1>1. ASSUME NEW w \in Workers, NEW c \in Cases, NEW usable \in BOOLEAN, WorkerClaims(w, c, usable)
      PROVE  MoneyInv'
  <2>1. /\ workers[w].at = "idle"
        /\ attempts[c].status = "created"
        /\ attempts' = [attempts EXCEPT ![c] = Claimed(attempts[c], w, "live")]
        /\ UNCHANGED <<sent, answered, paid, seen>>
    BY <1>1, Zenon DEF WorkerClaims, Claim
  <2>2. \/ UNCHANGED workers
        \/ /\ workers'[w].at = "start"
           /\ workers'[w].case = c /\ workers'[w].gen = attempts[c].gen
           /\ \A v \in Workers \ {w} : workers'[v] = workers[v]
    BY <1>1, <1>t DEF WorkerClaims
  <2>3. /\ attempts'[c].status = "in_progress" /\ attempts'[c].holder = w
        /\ attempts'[c].gen = attempts[c].gen
        /\ \A d \in Cases \ {c} : attempts'[d] = attempts[d]
    BY <2>1, <1>t DEF Claimed
  <2>4. CallsAreCurrent'
    BY <1>t, <2>1, <2>2, <2>3 DEF CallsAreCurrent, InFlight
  <2>5. ClaimsAreCurrent'
    BY <1>t, <2>1, <2>2, <2>3 DEF ClaimsAreCurrent
  <2>6. \A d \in Cases : CallsUnderWay(d)' => CallsUnderWay(d)
    BY <2>1, <2>2 DEF CallsUnderWay, InFlight
  <2>7. LooksAreTrue'
    BY <1>t, <2>1, <2>3, <2>6 DEF LooksAreTrue
  <2>8. PaidOnce'
    BY <1>t, <2>1, <2>3 DEF PaidOnce
  <2>9. UnapprovedIsUntouched'
    BY <2>1, <2>3, <2>6 DEF UnapprovedIsUntouched
  <2> QED
    BY <2>4, <2>5, <2>7, <2>8, <2>9
<1>2. ASSUME NEW w \in Workers, WorkerStarts(w, TRUE)
      PROVE  MoneyInv'
  <2> DEFINE c == workers[w].case
  <2>1. /\ workers[w].at = "start" /\ attempts[c].status = "in_progress" /\ attempts[c].holder = w
        /\ UNCHANGED <<attempts, sent, answered, paid, seen>>
        /\ Goes(w, "send")
    BY <1>2 DEF WorkerStarts, JournalStarted, MayStart, MayJournal, ClaimIsLive, provider
  <2>2. /\ workers'[w].case = c /\ workers'[w].gen = workers[w].gen
        /\ \A v \in Workers \ {w} : workers'[v] = workers[v]
    BY <2>1, <1>t DEF Goes, Moves
  <2>3. workers[w].gen = attempts[c].gen
    BY <2>1 DEF ClaimsAreCurrent
  <2>4. CallsAreCurrent' /\ ClaimsAreCurrent'
    BY <2>1, <2>2, <2>3 DEF CallsAreCurrent, ClaimsAreCurrent, InFlight
  <2>5. \A d \in Cases : d # c /\ CallsUnderWay(d)' => CallsUnderWay(d)
    BY <2>1, <2>2 DEF CallsUnderWay, InFlight
  <2>6. LooksAreTrue' /\ PaidOnce'
    BY <1>t, <2>1, <2>5 DEF LooksAreTrue, PaidOnce
  <2>7. UnapprovedIsUntouched'
    BY <2>1, <2>5 DEF UnapprovedIsUntouched
  <2> QED
    BY <2>4, <2>6, <2>7
<1>3. ASSUME NEW w \in Workers, WorkerSends(w)
      PROVE  MoneyInv'
  <2>1. /\ workers[w].at = "send" /\ sent' = sent \cup {MyCall(w)}
        /\ UNCHANGED <<attempts, answered, paid, seen>>
        /\ Goes(w, "wait")
    BY <1>3 DEF WorkerSends, Send, store
  <2>2. /\ workers'[w].at = "wait"
        /\ workers'[w].case = workers[w].case /\ workers'[w].gen = workers[w].gen
        /\ \A v \in Workers \ {w} : workers'[v] = workers[v]
    BY <2>1, <1>t DEF Goes, Moves
  <2>3. /\ InFlight' \subseteq InFlight \cup {MyCall(w)}
        /\ MyCall(w).case = workers[w].case /\ MyCall(w).gen = workers[w].gen
    BY <2>1 DEF InFlight, MyCall
  <2>4. CallsAreCurrent' /\ ClaimsAreCurrent'
    BY <2>1, <2>2, <2>3 DEF CallsAreCurrent, ClaimsAreCurrent
  <2>5. \A d \in Cases : CallsUnderWay(d)' => CallsUnderWay(d)
    BY <2>1, <2>2, <2>3 DEF CallsUnderWay
  <2>6. LooksAreTrue' /\ PaidOnce'
    BY <2>1, <2>5 DEF LooksAreTrue, PaidOnce
  <2>7. UnapprovedIsUntouched'
    BY <2>1, <2>5 DEF UnapprovedIsUntouched
  <2> QED
    BY <2>4, <2>6, <2>7
<1>4. ASSUME NEW call \in InFlight, ProviderAcceptsRequest(call) \/ ProviderDoesNothing(call)
      PROVE  MoneyInv'
  <2>1. /\ UNCHANGED <<sent, attempts, paid, seen>> /\ answered' = answered \cup {call}
        /\ \E answer : Answers(call, answer)
    BY <1>4 DEF ProviderAcceptsRequest, ProviderDoesNothing, AcceptRequest, NoEffect, store
  <2>2. /\ CallsAreCurrent' /\ ClaimsAreCurrent' /\ UnapprovedIsUntouched'
        /\ \A c \in Cases : CallsUnderWay(c)' => CallsUnderWay(c)
    BY <1>0, <2>1, HandledCall
  <2>3. LooksAreTrue' /\ PaidOnce'
    BY <2>1, <2>2 DEF LooksAreTrue, PaidOnce
  <2> QED
    BY <2>2, <2>3
<1>5. ASSUME NEW call \in InFlight, ProviderPays(call)
      PROVE  MoneyInv'
  <2> DEFINE c == call.case
  <2>1. /\ UNCHANGED <<sent, attempts, seen>> /\ answered' = answered \cup {call}
        /\ call.stage = "approve"
        /\ paid' = [paid EXCEPT ![c] = @ + 1]
        /\ \E answer : Answers(call, answer)
    BY <1>5 DEF ProviderPays, PayApproval, store
  <2>2. /\ CallsAreCurrent' /\ ClaimsAreCurrent' /\ UnapprovedIsUntouched'
        /\ \A d \in Cases : CallsUnderWay(d)' => CallsUnderWay(d)
    BY <1>0, <2>1, HandledCall
  <2>3. call = [case |-> c, gen |-> attempts[c].gen, stage |-> "approve"] /\ call \notin answered
    BY <2>1 DEF CallsAreCurrent, InFlight, TypeOK, Call
  <2>4. paid[c] = 0
    BY <1>t, <2>3 DEF PaidOnce
  <2>5. PaidOnce'
    BY <1>t, <2>1, <2>3, <2>4 DEF PaidOnce
  <2>6. CallsUnderWay(c)
    BY DEF CallsUnderWay
  <2>7. LooksAreTrue'
    BY <1>t, <2>1, <2>2, <2>6 DEF LooksAreTrue
  <2> QED
    BY <2>2, <2>5, <2>7
<1>6. ASSUME NEW c \in Cases, PersonLooks(c)
      PROVE  MoneyInv'
  <2>1. /\ Held(c) /\ ~CallsUnderWay(c)
        /\ UNCHANGED <<attempts, sent, answered, paid, workers>>
    BY <1>6, Zenon DEF PersonLooks, store, provider
  <2>2. /\ seen'[c].gen = attempts[c].gen
        /\ ~seen'[c].refunded => ~(paid[c] > 0)
        /\ \A d \in Cases \ {c} : seen'[d] = seen[d]
    <3>1. seen' = [seen EXCEPT ![c] = [gen |-> attempts[c].gen, refunded |-> paid[c] > 0]]
      BY <1>6, Zenon DEF PersonLooks
    <3> DEFINE look == [gen |-> attempts[c].gen, refunded |-> paid[c] > 0]
    <3>2. look.gen = attempts[c].gen
      OBVIOUS
    <3>3. look.refunded <=> paid[c] > 0
      BY Zenon
    <3> HIDE DEF look
    <3>4. seen'[c] = look /\ \A d \in Cases \ {c} : seen'[d] = seen[d]
      BY <1>t, <3>1 DEF look
    <3> QED
      BY <3>2, <3>3, <3>4, Zenon
  <2>3. /\ CallsAreCurrent' /\ ClaimsAreCurrent' /\ PaidOnce' /\ UnapprovedIsUntouched'
        /\ \A d \in Cases : CallsUnderWay(d)' => CallsUnderWay(d)
    BY <2>1 DEF CallsAreCurrent, ClaimsAreCurrent, PaidOnce, UnapprovedIsUntouched, CallsUnderWay,
                InFlight
  <2>4. LooksAreTrue'
    BY <1>t, <2>1, <2>2, <2>3 DEF LooksAreTrue, Held
  <2> QED
    BY <2>3, <2>4
<1>7. ASSUME NEW c \in Cases, PersonRecordsNoRefund(c)
      PROVE  MoneyInv'
  <2>1. /\ seen[c].gen = attempts[c].gen /\ ~seen[c].refunded
        /\ UNCHANGED <<sent, answered, paid, workers, seen>>
        /\ attempts' = [attempts EXCEPT ![c] = Queued(attempts[c].gen + 1, ContinuationPlan(c))]
    BY <1>7, Zenon DEF PersonRecordsNoRefund, EvidenceIsFresh, NoRefundEvidence, provider
  <2>2. /\ attempts'[c].gen = attempts[c].gen + 1 /\ attempts'[c].status = "created"
        /\ \A d \in Cases \ {c} : attempts'[d] = attempts[d]
    BY <1>t, <2>1 DEF Queued
  <2>3. paid[c] = 0 /\ ~CallsUnderWay(c)
    BY <2>1 DEF LooksAreTrue
  <2>4. \A d \in Cases : CallsUnderWay(d)' => CallsUnderWay(d)
    BY <2>1 DEF CallsUnderWay, InFlight
  <2>5. CallsAreCurrent' /\ ClaimsAreCurrent'
    BY <1>t, <2>1, <2>2, <2>3 DEF CallsAreCurrent, ClaimsAreCurrent, CallsUnderWay, InFlight
  <2>6. LooksAreTrue' /\ PaidOnce'
    BY <1>t, <2>1, <2>2, <2>3, <2>4 DEF LooksAreTrue, PaidOnce
  <2>7. UnapprovedIsUntouched'
    BY <2>2, <2>4 DEF UnapprovedIsUntouched
  <2> QED
    BY <2>5, <2>6, <2>7
<1>8. CASE UNCHANGED vars
  BY <1>8, <1>0, QuietStep DEF vars
<1> QED
  BY <1>0, <1>1, <1>2, <1>3, <1>4, <1>5, <1>6, <1>7, <1>8, WorkerIsQuiet, CaseIsQuiet
  DEF Next, WorkerStep, ProviderStep, CaseStep
\* A case's purchase is refunded at most once, whatever workers, leases, RPCs
\* and the network do, provided people look at Nayax for evidence only when no
\* call of the case is under way.
THEOREM MoneySafe == SettledBeforeLooking => (Spec => []MoneyOnce)
<1> SUFFICES ASSUME SettledBeforeLooking PROVE Spec => []MoneyOnce
  OBVIOUS
<1>1. Init => TypeOK /\ MoneyInv
  BY InitType, MoneyInit
<1>2. TypeOK /\ MoneyInv /\ [Next]_vars => (TypeOK /\ MoneyInv)'
  BY TypeStep, MoneyStep
<1>3. MoneyInv => MoneyOnce
  <2>1. MoneyInv => \A c \in Cases : paid[c] \in {0, 1}
    BY Zenon DEF MoneyInv, PaidOnce
  <2>2. \A n \in {0, 1} : n <= 1
    OBVIOUS
  <2> QED
    BY <2>1, <2>2, Zenon DEF MoneyOnce
<1> QED
  BY <1>1, <1>2, <1>3, PTL DEF Spec

----------------------------------------------------------------------------
(* A claim of a refund is true.                                            *)

\* A step keeps the claims true when what it adds to them is true and it takes
\* no refund back.
LEMMA TruthfulStep ==
    ASSUME TypeOK, ClaimsOfRefundAreTrue,
           \A c \in Cases : paid[c] > 0 => paid'[c] > 0,
           \A row \in journal' \ journal : row.outcome = "succeeded" => paid'[row.case] > 0,
           \A w \in Workers :
              workers'[w].answer = "succeeded" =>
                 \/ workers[w].answer = "succeeded" /\ workers'[w].case = workers[w].case
                 \/ paid'[workers'[w].case] > 0,
           UNCHANGED seen,
           \A c \in Cases : cases'[c].status = "completed" =>
              cases[c].status = "completed" \/ paid'[c] > 0
    PROVE  ClaimsOfRefundAreTrue'
<1>1. /\ \A row \in journal : row.case \in Cases
      /\ \A w \in Workers : workers[w].case \in Cases
  BY DEF TypeOK, StoreTypeOK, Row, Job
<1>2. \A row \in journal' : row.outcome = "succeeded" => paid'[row.case] > 0
  BY <1>1 DEF ClaimsOfRefundAreTrue
<1>3. \A w \in Workers : workers'[w].answer = "succeeded" => paid'[workers'[w].case] > 0
  BY <1>1 DEF ClaimsOfRefundAreTrue
<1>4. \A c \in Cases : seen'[c].refunded => paid'[c] > 0
  <2> SUFFICES ASSUME NEW c \in Cases, seen'[c].refunded PROVE paid'[c] > 0
    OBVIOUS
  <2>1. seen[c].refunded
    BY Zenon
  <2>2. paid[c] > 0
    BY <2>1, Zenon DEF ClaimsOfRefundAreTrue
  <2> QED
    BY <2>2
<1>5. CompletedIsPaid'
  BY DEF ClaimsOfRefundAreTrue, CompletedIsPaid
<1> QED
  BY <1>2, <1>3, <1>4, <1>5, Zenon DEF ClaimsOfRefundAreTrue

\* A worker's own steps: only a result it was given makes its answer succeeded.
LEMMA WorkerAnswers ==
    ASSUME TypeOK, NEW w \in Workers,
           \/ \E at, stage : Moves(w, at, stage, workers[w].answer)
           \/ \E at, stage, answer : answer # "succeeded" /\ Moves(w, at, stage, answer)
           \/ Finishes(w)
    PROVE  \A v \in Workers :
              workers'[v].answer = "succeeded" =>
                 workers[v].answer = "succeeded" /\ workers'[v].case = workers[v].case
<1>1. Idle.answer = "none"
  BY DEF Idle
<1>2. CASE Finishes(w)
  BY <1>1, <1>2 DEF Finishes, TypeOK
<1>3. ASSUME NEW at, NEW stage, NEW answer, Moves(w, at, stage, answer)
      PROVE  /\ workers'[w].answer = answer /\ workers'[w].case = workers[w].case
             /\ \A v \in Workers \ {w} : workers'[v] = workers[v]
  BY <1>3 DEF Moves, TypeOK
<1> QED
  BY <1>2, <1>3

\* At first nothing claims a refund.
LEMMA TruthInit == Init => ClaimsOfRefundAreTrue
<1> SUFFICES ASSUME Init PROVE ClaimsOfRefundAreTrue
  OBVIOUS
<1>1. \A w \in Workers : workers[w].answer = "none"
  BY DEF Init, Idle
<1>2. \A c \in Cases : ~seen[c].refunded
  BY Zenon DEF Init
<1>3. CompletedIsPaid
  BY DEF Init, StoreInit, CompletedIsPaid
<1>4. journal = {}
  BY DEF Init, StoreInit
<1> QED
  BY <1>1, <1>2, <1>3, <1>4, Zenon DEF ClaimsOfRefundAreTrue

\* Every step keeps all claims of a refund true.
LEMMA TruthStep == TypeOK /\ ClaimsOfRefundAreTrue /\ [Next]_vars => ClaimsOfRefundAreTrue'
<1> SUFFICES ASSUME TypeOK, ClaimsOfRefundAreTrue, [Next]_vars PROVE ClaimsOfRefundAreTrue'
  OBVIOUS
<1>t. /\ \A w \in Workers : workers[w].case \in Cases /\ workers[w].stage \in Stages
      /\ workers \in [Workers -> Job]
      /\ paid \in [Cases -> Nat] /\ cases \in [Cases -> Case]
  BY DEF TypeOK, StoreTypeOK, Job
<1>p. /\ \A c \in Cases : \A outcome : HoldAs(c, outcome) =>
            \A d \in Cases : cases'[d].status = cases[d].status
      /\ \A c \in Cases : \A referenced : CompleteAs(c, referenced) =>
            \A d \in Cases \ {c} : cases'[d] = cases[d]
  BY <1>t, SMT DEF HoldAs, CompleteAs, Case
<1>s. \A c \in Cases : SuccessProved(c) => paid[c] > 0
  <2> SUFFICES ASSUME NEW c \in Cases, SuccessProved(c) PROVE paid[c] > 0
    OBVIOUS
  <2> DEFINE row == ResultRow(c, attempts[c].gen, "approve", "succeeded")
  <2>1. row \in journal
    BY DEF SuccessProved
  <2>2. row.case = c /\ row.outcome = "succeeded"
    BY DEF ResultRow
  <2> HIDE DEF row
  <2> QED
    BY <2>1, <2>2, Zenon DEF ClaimsOfRefundAreTrue
<1>1. ASSUME NEW w \in Workers, NEW c \in Cases, NEW usable \in BOOLEAN, WorkerClaims(w, c, usable)
      PROVE  ClaimsOfRefundAreTrue'
  <2>1. UNCHANGED <<journal, paid, seen>>
    BY <1>1, Zenon DEF WorkerClaims, Claim
  <2>2. \A v \in Workers : workers'[v] = workers[v] \/ workers'[v].answer = "none"
    BY <1>1, <1>t DEF WorkerClaims
  <2>3. cases' = [cases EXCEPT ![c] =
                    IF cases[c].exec = "not_requested" THEN Pending("requested") ELSE @]
    BY <1>1, Zenon DEF WorkerClaims, Claim
  <2>4. \A d \in Cases : cases'[d].status = "completed" => cases[d].status = "completed"
    BY <1>t, <2>3 DEF Pending
  <2> QED
    BY <2>1, <2>2, <2>4, TruthfulStep
<1>2. ASSUME NEW w \in Workers, NEW heard \in BOOLEAN, WorkerStarts(w, heard)
      PROVE  ClaimsOfRefundAreTrue'
  <2>1. /\ UNCHANGED <<cases, paid, seen>>
        /\ \A row \in journal' \ journal : row.outcome = "none"
    BY <1>2 DEF WorkerStarts, JournalStarted, StartedRow, provider
  <2>2. \/ \E at, stage : Moves(w, at, stage, workers[w].answer)
        \/ \E at, stage, answer : answer # "succeeded" /\ Moves(w, at, stage, answer)
    BY <1>2 DEF WorkerStarts, GivesUpStage, Becomes, Goes
  <2> QED
    BY <2>1, <2>2, WorkerAnswers, TruthfulStep
<1>3. ASSUME NEW w \in Workers, NEW heard \in BOOLEAN, WorkerRecordsResult(w, heard)
      PROVE  ClaimsOfRefundAreTrue'
  <2>1. UNCHANGED <<cases, paid, seen>>
    BY <1>3 DEF WorkerRecordsResult, JournalResult, provider
  <2>2. \A row \in journal' \ journal :
           row.case = workers[w].case /\ row.outcome = workers[w].answer
    BY <1>3 DEF WorkerRecordsResult, JournalResult, ResultRow
  <2>3. workers[w].answer = "succeeded" => paid[workers[w].case] > 0
    BY Zenon DEF ClaimsOfRefundAreTrue
  <2>4. \E at, stage, answer : answer # "succeeded" /\ Moves(w, at, stage, answer)
    BY <1>3 DEF WorkerRecordsResult, GivesUpStage, Becomes
  <2> QED
    BY <2>1, <2>2, <2>3, <2>4, WorkerAnswers, TruthfulStep
<1>4. ASSUME NEW w \in Workers,
             \/ \E heard \in BOOLEAN : WorkerSettles(w, heard) \/ WorkerHolds(w, heard)
             \/ WorkerIsFenced(w) \/ WorkerSettlementRead(w) \/ WorkerHoldRead(w)
             \/ WorkerMishap(w)
      PROVE  ClaimsOfRefundAreTrue'
  <2>1. UNCHANGED <<journal, paid, seen>>
    BY <1>4 DEF WorkerSettles, Settle, HoldAs, CompleteAs, WorkerHolds, HoldAttempt, WorkerIsFenced,
         WorkerSettlementRead, WorkerHoldRead, WorkerMishap, WorkerRefusesContext,
         WorkerLosesRequest, WorkerCrashes, store, provider
  <2>2. \/ UNCHANGED cases
        \/ \E outcome : HoldAs(workers[w].case, outcome)
        \/ SuccessProved(workers[w].case) /\ CompleteAs(workers[w].case, TRUE)
    BY <1>4 DEF WorkerSettles, Settle, MaySettle, WorkerHolds, HoldAttempt, WorkerIsFenced,
         WorkerSettlementRead, WorkerHoldRead, WorkerMishap, WorkerRefusesContext,
         WorkerLosesRequest, WorkerCrashes, store
  <2>3. \A d \in Cases : cases'[d].status = "completed" =>
           cases[d].status = "completed" \/ paid[d] > 0
    BY <1>t, <1>p, <1>s, <2>2
  <2>4. \/ \E at, stage : Moves(w, at, stage, workers[w].answer)
        \/ \E at, stage, answer : answer # "succeeded" /\ Moves(w, at, stage, answer)
        \/ Finishes(w)
    <3>1. Finishes(w) \/ Retries(w) \/ GivesUpStage(w) \/ Goes(w, "hold")
      BY <1>4 DEF WorkerSettles, WorkerHolds, WorkerIsFenced, WorkerSettlementRead, WorkerHoldRead,
           WorkerMishap, WorkerRefusesContext, WorkerLosesRequest, WorkerCrashes
    <3> QED
      BY <3>1 DEF Retries, GivesUpStage, Becomes, Goes
  <2> QED
    BY <2>1, <2>3, <2>4, WorkerAnswers, TruthfulStep
<1>5. ASSUME NEW w \in Workers,
             \/ WorkerSends(w)
             \/ \E answer \in {"timeout", "unknown"} : WorkerStopsWaiting(w, answer)
      PROVE  ClaimsOfRefundAreTrue'
  <2>1. UNCHANGED <<cases, journal, paid, seen>>
    BY <1>5 DEF WorkerSends, Send, WorkerStopsWaiting, store, provider
  <2>2. \/ \E at, stage : Moves(w, at, stage, workers[w].answer)
        \/ \E at, stage, answer : answer # "succeeded" /\ Moves(w, at, stage, answer)
    BY <1>5 DEF WorkerSends, WorkerStopsWaiting, Becomes, Goes
  <2> QED
    BY <2>1, <2>2, WorkerAnswers, TruthfulStep
<1>6. ASSUME NEW call \in InFlight,
             ProviderAcceptsRequest(call) \/ ProviderPays(call) \/ ProviderDoesNothing(call)
      PROVE  ClaimsOfRefundAreTrue'
  <2>1. call.case \in Cases
    BY DEF InFlight, TypeOK, Call
  <2>2. UNCHANGED <<cases, journal, seen>> /\ \A c \in Cases : paid[c] > 0 => paid'[c] > 0
    BY <1>6, <1>t, <2>1
    DEF ProviderAcceptsRequest, ProviderPays, ProviderDoesNothing, AcceptRequest, PayApproval,
        NoEffect, store
  <2>3. \E answer : /\ Answers(call, answer)
                    /\ answer = "succeeded" => paid'[call.case] > 0
    BY <1>6, <1>t, <2>1
    DEF ProviderAcceptsRequest, ProviderPays, ProviderDoesNothing, PayApproval
  <2>4. \A v \in Workers : workers'[v].answer = "succeeded" =>
           \/ workers[v].answer = "succeeded" /\ workers'[v].case = workers[v].case
           \/ paid'[workers'[v].case] > 0
    BY <1>t, <2>3 DEF Answers, Waiting, MyCall, Becomes, Moves
  <2> QED
    BY <2>2, <2>4, TruthfulStep
<1>7. ASSUME NEW c \in Cases, CaseStep(c), ~PersonLooks(c)
      PROVE  ClaimsOfRefundAreTrue'
  <2>1. UNCHANGED <<journal, paid, seen, workers>>
    BY <1>7, Zenon
    DEF CaseStep, ManagerApproves, Approve, LeaseExpires, Expire, SweepReclaims, ReclaimHolds,
        ReclaimRequeues, HoldAs, PersonRecordsNoRefund, NoRefundEvidence, PersonRecordsSuccess,
        SuccessEvidence, ServiceReconciles, ReconcileProved, CompleteAs, MachineDisabled,
        MachineEnabled, SetMachine, provider
  <2>2. \/ UNCHANGED cases
        \/ cases' = [cases EXCEPT ![c] = Pending("not_requested")]
        \/ HoldAs(c, "unknown")
        \/ ReclaimRequeues(c)
        \/ SuccessProved(c) /\ CompleteAs(c, TRUE)
        \/ seen[c].refunded /\ CompleteAs(c, FALSE)
    BY <1>7, Zenon
    DEF CaseStep, ManagerApproves, Approve, LeaseExpires, Expire, SweepReclaims, ReclaimHolds,
        PersonRecordsNoRefund, NoRefundEvidence, PersonRecordsSuccess, SuccessEvidence,
        ServiceReconciles, ReconcileProved, MachineDisabled, MachineEnabled, SetMachine
  <2>3. ReclaimRequeues(c) => \A d \in Cases : cases'[d].status = cases[d].status
    BY <1>t DEF ReclaimRequeues, Case
  <2>4. seen[c].refunded => paid[c] > 0
    BY Zenon DEF ClaimsOfRefundAreTrue
  <2>5. \A d \in Cases : cases'[d].status = "completed" =>
           cases[d].status = "completed" \/ paid[d] > 0
    <3>1. CASE cases' = [cases EXCEPT ![c] = Pending("not_requested")]
      BY <1>t, <3>1 DEF Pending
    <3>2. CASE seen[c].refunded /\ CompleteAs(c, FALSE)
      BY <1>p, <2>4, <3>2, Zenon
    <3>3. CASE SuccessProved(c) /\ CompleteAs(c, TRUE)
      BY <1>p, <1>s, <3>3, Zenon
    <3>4. CASE HoldAs(c, "unknown")
      BY <1>p, <3>4
    <3> QED
      BY <2>2, <2>3, <3>1, <3>2, <3>3, <3>4, Zenon
  <2> QED
    BY <2>1, <2>5, TruthfulStep
<1>8. ASSUME NEW c \in Cases, PersonLooks(c)
      PROVE  ClaimsOfRefundAreTrue'
  <2> DEFINE look == [gen |-> attempts[c].gen, refunded |-> paid[c] > 0]
  <2>1. UNCHANGED <<cases, journal, paid, workers>> /\ seen' = [seen EXCEPT ![c] = look]
    BY <1>8, Zenon DEF PersonLooks, store, provider
  <2>2. look.refunded <=> paid[c] > 0
    BY Zenon
  <2>3. seen \in [Cases -> Look]
    BY DEF TypeOK
  <2> HIDE DEF look
  <2>4. \A d \in Cases : seen'[d] = IF d = c THEN look ELSE seen[d]
    BY <2>1, <2>3
  <2>5. \A d \in Cases : seen'[d].refunded => paid[d] > 0
    BY <2>2, <2>4, Zenon DEF ClaimsOfRefundAreTrue
  <2> QED
    BY <2>1, <2>5, Zenon DEF ClaimsOfRefundAreTrue, CompletedIsPaid
<1>9. CASE UNCHANGED vars
  BY <1>9, TruthfulStep DEF vars
<1> QED
  BY <1>1, <1>2, <1>3, <1>4, <1>5, <1>6, <1>7, <1>8, <1>9
  DEF Next, WorkerStep, ProviderStep

\* No case is completed, by settlement, by evidence or by the recovery, unless
\* Nayax has refunded it: in any order of looks, late answers and late calls.
THEOREM CompletionIsTrue == Spec => []CompletedIsPaid
<1>1. Init => TypeOK /\ ClaimsOfRefundAreTrue
  BY InitType, TruthInit
<1>2. TypeOK /\ ClaimsOfRefundAreTrue /\ [Next]_vars => (TypeOK /\ ClaimsOfRefundAreTrue)'
  BY TypeStep, TruthStep
<1>3. ClaimsOfRefundAreTrue => CompletedIsPaid
  BY DEF ClaimsOfRefundAreTrue
<1> QED
  BY <1>1, <1>2, <1>3, PTL DEF Spec

----------------------------------------------------------------------------
(* The database side: the case and its attempt never drift apart, a        *)
(* settled refund stays settled, and the stage journal fences what goes to *)
(* Nayax.  Nothing is assumed of the people who look at Nayax.             *)

\* The functions that write a case or its attempt, other than the claim.
Rewrites(c) ==
    \/ Approve(c)
    \/ Expire(c)
    \/ ReclaimHolds(c)
    \/ ReclaimRequeues(c)
    \/ HoldAttempt(c)
    \/ \E w \in Workers, g \in Generations, outcome \in Outcomes : Settle(w, c, g, outcome)
    \/ PersonRecordsNoRefund(c)
    \/ PersonRecordsSuccess(c)
    \/ ServiceReconciles(c)

WritesCase(c) == Rewrites(c) \/ \E w \in Workers : Claim(w, c)

\* The functions that write the journal, with the worker that calls them.
WritesJournal(w) ==
    \/ JournalStarted(w, workers[w].case, workers[w].stage)
    \/ JournalResult(w, workers[w].case, workers[w].stage, workers[w].answer)

\* Who writes cases, attempts and journal: one worker its journal, or one of the store functions a case.
LEMMA StoreSteps ==
    ASSUME TypeOK, [Next]_vars
    PROVE  \/ UNCHANGED <<cases, attempts, journal>>
           \/ \E w \in Workers : WritesJournal(w)
           \/ \E c \in Cases : Rewrites(c)
           \/ \E w \in Workers, c \in Cases, usable \in BOOLEAN : WorkerClaims(w, c, usable)
<1> USE DEF Rewrites, WritesJournal
<1>0. \A w \in Workers : workers[w].case \in Cases /\ workers[w].gen \in Generations
  BY DEF TypeOK, Job
<1>1. ASSUME NEW w \in Workers, WorkerStep(w)
      PROVE  \/ UNCHANGED <<cases, attempts, journal>>
             \/ WritesJournal(w)
             \/ Rewrites(workers[w].case)
  <2>1. ASSUME NEW heard \in BOOLEAN, WorkerStarts(w, heard)
        PROVE  WritesJournal(w)
    BY <2>1, Zenon DEF WorkerStarts
  <2>2. ASSUME NEW heard \in BOOLEAN, WorkerRecordsResult(w, heard)
        PROVE  WritesJournal(w)
    BY <2>2, Zenon DEF WorkerRecordsResult
  <2>3. ASSUME NEW heard \in BOOLEAN, WorkerSettles(w, heard)
        PROVE  Rewrites(workers[w].case)
    <3>1. workers[w].answer \in Outcomes
      BY <2>3 DEF WorkerSettles, TypeOK, AnswersFit
    <3> QED
      BY <1>0, <2>3, <3>1, Zenon DEF WorkerSettles
  <2>4. ASSUME NEW heard \in BOOLEAN, WorkerHolds(w, heard)
        PROVE  Rewrites(workers[w].case)
    BY <2>4, Zenon DEF WorkerHolds
  <2>5. CASE \/ WorkerSends(w) \/ WorkerIsFenced(w) \/ WorkerSettlementRead(w) \/ WorkerHoldRead(w)
             \/ \E answer \in {"timeout", "unknown"} : WorkerStopsWaiting(w, answer)
    BY <2>5 DEF WorkerSends, WorkerIsFenced, WorkerSettlementRead, WorkerHoldRead,
                WorkerStopsWaiting, store
  <2> QED
    BY <1>1, <2>1, <2>2, <2>3, <2>4, <2>5, Zenon DEF WorkerStep
<1>2. ASSUME NEW w \in Workers, WorkerMishap(w)
      PROVE  UNCHANGED <<cases, attempts, journal>>
  BY <1>2 DEF WorkerMishap, WorkerRefusesContext, WorkerLosesRequest, WorkerCrashes, store
<1>3. ProviderStep => UNCHANGED <<cases, attempts, journal>>
  BY DEF ProviderStep, ProviderAcceptsRequest, ProviderPays, ProviderDoesNothing, store
<1>4. ASSUME NEW c \in Cases, CaseStep(c)
      PROVE  UNCHANGED <<cases, attempts, journal>> \/ Rewrites(c)
  <2>1. CASE PersonLooks(c) \/ MachineDisabled(c) \/ MachineEnabled(c)
    BY <2>1 DEF PersonLooks, MachineDisabled, MachineEnabled, SetMachine, store
  <2>2. CASE ManagerApproves(c) \/ LeaseExpires(c) \/ SweepReclaims(c)
    BY <2>2, Zenon DEF ManagerApproves, LeaseExpires, SweepReclaims
  <2>3. CASE PersonRecordsNoRefund(c) \/ PersonRecordsSuccess(c) \/ ServiceReconciles(c)
    BY <2>3, Zenon
  <2> QED
    BY <1>4, <2>1, <2>2, <2>3, Zenon DEF CaseStep
<1>5. UNCHANGED vars => UNCHANGED <<cases, attempts, journal>>
  BY DEF vars
<1> HIDE DEF Rewrites, WritesJournal
<1> QED
  BY <1>0, <1>1, <1>2, <1>3, <1>4, <1>5, Zenon DEF Next

\* The same, with the store functions named by WritesCase.
LEMMA CaseWrites ==
    ASSUME TypeOK, [Next]_vars
    PROVE  \/ UNCHANGED <<cases, attempts, journal>>
           \/ \E w \in Workers : WritesJournal(w)
           \/ \E c \in Cases : WritesCase(c)
BY StoreSteps, Zenon DEF WritesCase, WorkerClaims

----------------------------------------------------------------------------
(* The case and its attempt.                                               *)

MatchesAt(c) ==
    /\ attempts[c].status = "none" => cases[c].status = "needs_review"
    /\ attempts[c].status = "created" => cases[c] = Pending("not_requested")
    /\ attempts[c].status = "in_progress" => cases[c] = Pending("requested")
    /\ attempts[c].status = "manual_review" => cases[c] = Pending("ambiguous")
    /\ attempts[c].status = "succeeded" => cases[c] = Completed

\* Every function that writes a case leaves it in agreement with its attempt.
LEMMA WritesMatch ==
    ASSUME TypeOK, NEW c \in Cases, WritesCase(c), MatchesAt(c)
    PROVE  /\ MatchesAt(c)'
           /\ \A d \in Cases \ {c} : attempts'[d] = attempts[d] /\ cases'[d] = cases[d]
           /\ attempts[c].status # "succeeded"
<1> USE DEF TypeOK, StoreTypeOK, Pending, Completed, MatchesAt
<1>1. CASE Approve(c)
  BY <1>1 DEF Approve, Queued
<1>2. ASSUME NEW w \in Workers, Claim(w, c)
      PROVE  /\ MatchesAt(c)'
             /\ \A d \in Cases \ {c} : attempts'[d] = attempts[d] /\ cases'[d] = cases[d]
             /\ attempts[c].status # "succeeded"
  BY <1>2 DEF Claim, Claimed
<1>3. CASE Expire(c)
  BY <1>3 DEF Expire, Claimed
<1>4. ASSUME NEW outcome \in Outcomes, HoldAs(c, outcome), attempts[c].status = "in_progress"
      PROVE  /\ MatchesAt(c)'
             /\ \A d \in Cases \ {c} : attempts'[d] = attempts[d] /\ cases'[d] = cases[d]
  <2>1. cases' \in [Cases -> Case] /\ \A d \in Cases \ {c} : cases'[d] = cases[d]
    BY <1>4 DEF HoldAs, Case
  <2>2. cases'[c].status = cases[c].status /\ cases'[c].exec = "ambiguous"
    BY <1>4 DEF HoldAs, Case
  <2>3. cases'[c] = [status |-> "card_refund_pending", exec |-> "ambiguous"]
    BY <1>4, <2>1, <2>2 DEF Case
  <2> QED
    BY <1>4, <2>1, <2>3 DEF HoldAs, HeldWith
<1>5. CASE ReclaimHolds(c)
  BY <1>4, <1>5 DEF ReclaimHolds, ClaimExpired, Outcomes
<1>6. CASE ReclaimRequeues(c)
  <2>1. cases' \in [Cases -> Case] /\ \A d \in Cases \ {c} : cases'[d] = cases[d]
    BY <1>6 DEF ReclaimRequeues, Case
  <2>2. cases'[c].status = cases[c].status /\ cases'[c].exec = "not_requested"
    BY <1>6 DEF ReclaimRequeues, ClaimExpired, Case
  <2>3. cases'[c] = [status |-> "card_refund_pending", exec |-> "not_requested"]
    BY <1>6, <2>1, <2>2 DEF ReclaimRequeues, ClaimExpired, Case
  <2> QED
    BY <1>6, <2>1, <2>3 DEF ReclaimRequeues, ClaimExpired, Queued
<1>7. CASE HoldAttempt(c)
  BY <1>4, <1>7 DEF HoldAttempt, Outcomes
<1>8. ASSUME NEW referenced \in BOOLEAN, CompleteAs(c, referenced)
      PROVE  /\ MatchesAt(c)'
             /\ \A d \in Cases \ {c} : attempts'[d] = attempts[d] /\ cases'[d] = cases[d]
  BY <1>8 DEF CompleteAs, Succeeded
<1>9. ASSUME NEW w \in Workers, NEW g \in Generations, NEW outcome \in Outcomes,
             Settle(w, c, g, outcome)
      PROVE  /\ MatchesAt(c)'
             /\ \A d \in Cases \ {c} : attempts'[d] = attempts[d] /\ cases'[d] = cases[d]
             /\ attempts[c].status # "succeeded"
  BY <1>4, <1>8, <1>9 DEF Settle, MaySettle, ClaimIsLive
<1>10. CASE PersonRecordsNoRefund(c)
  BY <1>10 DEF PersonRecordsNoRefund, NoRefundEvidence, EvidenceAllowed, Held, Queued
<1>11. CASE PersonRecordsSuccess(c) \/ ServiceReconciles(c)
  BY <1>8, <1>11 DEF PersonRecordsSuccess, ServiceReconciles, SuccessEvidence, ReconcileProved, EvidenceAllowed, Held
<1> HIDE DEF TypeOK, MatchesAt
<1> QED
  BY <1>1, <1>2, <1>3, <1>5, <1>6, <1>7, <1>9, <1>10, <1>11, Zenon DEF WritesCase, Rewrites

\* Case and attempt agree after every step.
LEMMA MatchStep == TypeOK /\ CaseMatchesAttempt /\ [Next]_vars => CaseMatchesAttempt'
<1> SUFFICES ASSUME TypeOK, CaseMatchesAttempt, [Next]_vars PROVE CaseMatchesAttempt'
  OBVIOUS
<1>0. \A c \in Cases : MatchesAt(c)
  BY Zenon DEF CaseMatchesAttempt, MatchesAt
<1>1. ASSUME UNCHANGED <<cases, attempts>> PROVE CaseMatchesAttempt'
  BY <1>1 DEF CaseMatchesAttempt
<1>2. ASSUME NEW c \in Cases, WritesCase(c) PROVE CaseMatchesAttempt'
  <2>1. /\ MatchesAt(c)'
        /\ \A d \in Cases \ {c} : attempts'[d] = attempts[d] /\ cases'[d] = cases[d]
    BY <1>0, <1>2, WritesMatch
  <2>2. \A d \in Cases : MatchesAt(d)'
    BY <1>0, <2>1 DEF MatchesAt
  <2> QED
    BY <2>2, Zenon DEF CaseMatchesAttempt, MatchesAt
<1>3. ASSUME NEW w \in Workers, WritesJournal(w) PROVE UNCHANGED <<cases, attempts>>
  BY <1>3 DEF WritesJournal, JournalStarted, JournalResult
<1> QED
  BY <1>1, <1>2, <1>3, CaseWrites

\* The case and its attempt, which seven functions write, agree in every state.
THEOREM CaseMatches == Spec => []CaseMatchesAttempt
<1>1. Init => TypeOK /\ CaseMatchesAttempt
  BY InitType DEF Init, StoreInit, CaseMatchesAttempt, NoAttempt
<1>2. TypeOK /\ CaseMatchesAttempt /\ [Next]_vars => (TypeOK /\ CaseMatchesAttempt)'
  BY TypeStep, MatchStep
<1> QED
  BY <1>1, <1>2, PTL DEF Spec

\* No step of anyone changes a settled refund or its case.
THEOREM SettledIsFinal == Spec => FinalStays
<1>1. Init => TypeOK /\ CaseMatchesAttempt
  BY InitType DEF Init, StoreInit, CaseMatchesAttempt, NoAttempt
<1>2. TypeOK /\ CaseMatchesAttempt /\ [Next]_vars => (TypeOK /\ CaseMatchesAttempt)'
  BY TypeStep, MatchStep
<1>3. TypeOK /\ CaseMatchesAttempt /\ [Next]_vars =>
        [\A c \in Cases : attempts[c].status = "succeeded" =>
            attempts'[c] = attempts[c] /\ cases'[c] = cases[c]]_vars
  <2> SUFFICES ASSUME TypeOK, CaseMatchesAttempt, [Next]_vars,
                      NEW d \in Cases, attempts[d].status = "succeeded"
               PROVE  attempts'[d] = attempts[d] /\ cases'[d] = cases[d]
    BY Zenon
  <2>0. \A c \in Cases : MatchesAt(c)
    BY Zenon DEF CaseMatchesAttempt, MatchesAt
  <2>1. ASSUME NEW c \in Cases, WritesCase(c)
        PROVE  attempts'[d] = attempts[d] /\ cases'[d] = cases[d]
    BY <2>0, <2>1, WritesMatch
  <2>2. ASSUME NEW w \in Workers, WritesJournal(w) PROVE UNCHANGED <<cases, attempts>>
    BY <2>2 DEF WritesJournal, JournalStarted, JournalResult
  <2> QED
    BY <2>1, <2>2, CaseWrites
<1> QED
  BY <1>1, <1>2, <1>3, PTL DEF Spec, FinalStays

----------------------------------------------------------------------------
(* The journal.                                                            *)

\* What a write to the case of c leaves for the journal to agree with.
LEMMA AttemptWrites ==
    ASSUME TypeOK, NEW c \in Cases, WritesCase(c), FirstIsFirst
    PROVE  /\ journal' = journal
           /\ \A d \in Cases \ {c} : attempts'[d] = attempts[d]
           /\ attempts'[c].status # "none"
           /\ \/ attempts[c].status = "none" /\ attempts'[c].gen = 1
              \/ /\ attempts[c].status # "none"
                 /\ attempts'[c].gen = attempts[c].gen /\ attempts'[c].plan = attempts[c].plan
                 /\ attempts'[c].status = "created" => ~TransportStarted(c)
              \/ /\ attempts[c].status # "none"
                 /\ attempts'[c].gen = attempts[c].gen + 1
                 /\ attempts'[c].plan = ContinuationPlan(c)
<1> USE DEF TypeOK, StoreTypeOK
<1>1. CASE Approve(c)
  BY <1>1 DEF Approve, Queued
<1>2. CASE \E w \in Workers : Claim(w, c)
  BY <1>2 DEF Claim, Claimed
<1>3. CASE Expire(c)
  BY <1>3 DEF Expire, Claimed
<1>4. ASSUME NEW outcome, HoldAs(c, outcome), attempts[c].status # "none"
      PROVE  /\ journal' = journal
             /\ \A d \in Cases \ {c} : attempts'[d] = attempts[d]
             /\ attempts'[c].status = "manual_review"
             /\ attempts'[c].gen = attempts[c].gen /\ attempts'[c].plan = attempts[c].plan
  BY <1>4 DEF HoldAs, HeldWith
<1>5. ASSUME NEW referenced, CompleteAs(c, referenced), attempts[c].status # "none"
      PROVE  /\ journal' = journal
             /\ \A d \in Cases \ {c} : attempts'[d] = attempts[d]
             /\ attempts'[c].status = "succeeded"
             /\ attempts'[c].gen = attempts[c].gen /\ attempts'[c].plan = attempts[c].plan
  BY <1>5 DEF CompleteAs, Succeeded
<1>6. CASE ReclaimHolds(c) \/ HoldAttempt(c)
  BY <1>4, <1>6 DEF ReclaimHolds, ClaimExpired, HoldAttempt
<1>7. CASE ReclaimRequeues(c)
  BY <1>7 DEF ReclaimRequeues, ClaimExpired, Queued
<1>8. CASE \E w \in Workers, g \in Generations, outcome \in Outcomes : Settle(w, c, g, outcome)
  BY <1>4, <1>5, <1>8 DEF Settle, MaySettle, ClaimIsLive
<1>9. CASE PersonRecordsNoRefund(c)
  BY <1>9 DEF PersonRecordsNoRefund, NoRefundEvidence, EvidenceAllowed, Held, Queued
<1>10. CASE PersonRecordsSuccess(c) \/ ServiceReconciles(c)
  BY <1>5, <1>10 DEF PersonRecordsSuccess, ServiceReconciles, SuccessEvidence, ReconcileProved, EvidenceAllowed, Held
<1> HIDE DEF TypeOK, StoreTypeOK
<1> QED
  BY <1>1, <1>2, <1>3, <1>6, <1>7, <1>8, <1>9, <1>10, Zenon DEF WritesCase, Rewrites

\* A write to a case leaves the journal in agreement with the attempt.
LEMMA JournalAfterCaseWrite ==
    ASSUME TypeOK, TypeOK', JournalInv, NEW c \in Cases, WritesCase(c)
    PROVE  JournalInv'
<1> USE DEF JournalInv
<1>0. /\ journal \subseteq Row
      /\ \A row \in journal : row.case \in Cases /\ row.gen \in Nat /\ row.gen >= 1
      /\ \A d \in Cases : attempts[d].gen \in Nat /\ attempts'[d].gen \in Nat
  BY StoreConstants DEF TypeOK, StoreTypeOK, Row, Generations, Attempt
<1>1. /\ journal' = journal
      /\ \A d \in Cases \ {c} : attempts'[d] = attempts[d]
      /\ attempts'[c].status # "none"
  BY AttemptWrites
<1>2. \A row \in journal : row.case # c => attempts'[row.case] = attempts[row.case]
  BY <1>0, <1>1
<1>3. FirstIsFirst'
  BY <1>1 DEF FirstIsFirst
<1>4. \A row \in journal : row.case = c => attempts[c].status # "none"
  BY DEF RowsArePast
<1>5. \A row \in journal : row.case = c =>
         \/ attempts'[c].gen = attempts[c].gen /\ attempts'[c].plan = attempts[c].plan
         \/ attempts'[c].gen = attempts[c].gen + 1 /\ attempts'[c].plan = ContinuationPlan(c)
  BY <1>4, AttemptWrites
<1>6. RowsArePast'
  <2> SUFFICES ASSUME NEW row \in journal
               PROVE  /\ attempts'[row.case].status # "none" /\ row.gen <= attempts'[row.case].gen
                      /\ StartedRow(row.case, row.gen, row.stage) \in journal
    BY <1>1 DEF RowsArePast, StartedRow
  <2>1. /\ attempts[row.case].status # "none" /\ row.gen <= attempts[row.case].gen
        /\ StartedRow(row.case, row.gen, row.stage) \in journal
    BY DEF RowsArePast
  <2>2. CASE row.case = c
    BY <1>0, <1>1, <1>5, <2>1, <2>2
  <2>3. CASE row.case # c
    BY <1>2, <2>1, <2>3
  <2> QED
    BY <2>2, <2>3
<1>7. QueuedHasNoRows'
  <2> SUFFICES ASSUME NEW row \in journal, row.case = c, attempts'[c].status = "created"
               PROVE  row.gen # attempts'[c].gen
    BY <1>0, <1>1, <1>2 DEF QueuedHasNoRows
  <2>1. row.gen <= attempts[c].gen
    BY DEF RowsArePast
  <2>2. CASE attempts'[c].gen = attempts[c].gen + 1
    BY <1>0, <2>1, <2>2
  <2>3. CASE attempts'[c].gen = attempts[c].gen /\ ~TransportStarted(c)
    <3>1. row \in Row
      BY <1>0
    <3>2. StartedRow(c, row.gen, row.stage) \in journal
      BY DEF RowsArePast
    <3> QED
      BY <2>3, <3>1, <3>2 DEF TransportStarted, Row
  <2> QED
    BY <1>0, <1>4, <2>2, <2>3, AttemptWrites
<1>8. AcceptedIsOnlyApproved'
  <2> SUFFICES ASSUME NEW row \in journal, row.case = c,
                      row = ResultRow(c, row.gen, "request", "accepted"),
                      row.gen < attempts'[c].gen
               PROVE  attempts'[c].plan = "approve_only"
    BY <1>0, <1>1, <1>2 DEF AcceptedIsOnlyApproved, ResultRow
  <2>1. CASE attempts'[c].gen = attempts[c].gen /\ attempts'[c].plan = attempts[c].plan
    BY <2>1 DEF AcceptedIsOnlyApproved
  <2>2. CASE attempts'[c].gen = attempts[c].gen + 1 /\ attempts'[c].plan = ContinuationPlan(c)
    <3>1. row.gen \in 1..attempts[c].gen
      BY <1>0, <2>2
    <3>2. AcceptedRequest(c, 1..attempts[c].gen)
      BY <3>1 DEF AcceptedRequest
    <3> QED
      BY <2>2, <3>2 DEF ContinuationPlan
  <2> QED
    BY <1>5, <2>1, <2>2
<1>9. ApprovalNeedsAcceptance' /\ NoRequestAfterAcceptance'
  BY <1>1 DEF ApprovalNeedsAcceptance, NoRequestAfterAcceptance, ResultRow
<1> QED
  BY <1>3, <1>6, <1>7, <1>8, <1>9

\* A worker's journal call writes one row, of the claim it holds.
LEMMA JournalAfterOwnWrite ==
    ASSUME TypeOK, TypeOK', JournalInv, NEW w \in Workers, WritesJournal(w)
    PROVE  JournalInv'
<1> USE DEF JournalInv
<1> DEFINE c == workers[w].case
           g == attempts[c].gen
           stage == workers[w].stage
<1>0. /\ journal \subseteq Row /\ c \in Cases /\ stage \in Stages
      /\ \A row \in journal : row.case \in Cases /\ row.gen \in Nat /\ row.gen >= 1
      /\ g \in Nat /\ g >= 1 /\ g \in Generations
  BY StoreConstants DEF TypeOK, StoreTypeOK, Row, Generations, Attempt, Job
<1>1. /\ MayJournal(w, c, stage)
      /\ attempts' = attempts
  BY DEF WritesJournal, JournalStarted, JournalResult, MayStart, MayRecordResult
<1>2. attempts[c].status = "in_progress"
  BY <1>1 DEF MayJournal, ClaimIsLive
<1>3. PICK new : /\ journal' = journal \cup {new}
                 /\ \/ /\ new = StartedRow(c, g, stage)
                       /\ stage = "approve" => AcceptedRequest(c, RequestGenerations(c))
                    \/ /\ \E answer : new = ResultRow(c, g, stage, answer)
                       /\ StartedRow(c, g, stage) \in journal
  BY DEF WritesJournal, JournalStarted, JournalResult, MayStart, MayRecordResult
<1>4. new.case = c /\ new.gen = g /\ new.stage = stage
  BY <1>3 DEF StartedRow, ResultRow
<1> HIDE DEF c, g, stage
<1>5. FirstIsFirst'
  BY <1>1 DEF FirstIsFirst
<1>6. RowsArePast'
  <2>1. StartedRow(c, g, stage) \in journal'
    BY <1>3
  <2> QED
    BY <1>0, <1>1, <1>2, <1>3, <1>4, <2>1 DEF RowsArePast, g
<1>7. QueuedHasNoRows'
  BY <1>1, <1>2, <1>3, <1>4 DEF QueuedHasNoRows
<1>8. AcceptedIsOnlyApproved'
  BY <1>0, <1>1, <1>3, <1>4 DEF AcceptedIsOnlyApproved, g
<1>9. ApprovalNeedsAcceptance'
  <2> SUFFICES ASSUME NEW row \in journal', row.stage = "approve"
               PROVE  \E k \in 1..row.gen : ResultRow(row.case, k, "request", "accepted") \in journal'
    BY DEF ApprovalNeedsAcceptance, ResultRow
  <2>1. CASE row \in journal
    BY <1>3, <2>1 DEF ApprovalNeedsAcceptance
  <2>2. CASE row = StartedRow(c, g, stage) /\ AcceptedRequest(c, RequestGenerations(c))
    <3>1. RequestGenerations(c) \subseteq 1..g
      BY <1>0 DEF RequestGenerations, g
    <3> QED
      BY <1>3, <2>2, <3>1 DEF AcceptedRequest, StartedRow
  <2>3. CASE row = new /\ StartedRow(c, g, stage) \in journal
    <3>1. \E k \in 1..g : ResultRow(c, k, "request", "accepted") \in journal
      BY <1>4, <2>3 DEF ApprovalNeedsAcceptance, StartedRow
    <3> QED
      BY <1>3, <1>4, <2>3, <3>1
  <2> QED
    BY <1>3, <1>4, <2>1, <2>2, <2>3
<1>10. NoRequestAfterAcceptance'
  <2> SUFFICES ASSUME NEW row \in journal', NEW later \in journal',
                      row = ResultRow(row.case, row.gen, "request", "accepted"),
                      later.case = row.case, later.stage = "request"
               PROVE  later.gen <= row.gen
    BY DEF NoRequestAfterAcceptance, ResultRow
  <2>1. CASE row \in journal /\ later \in journal
    BY <2>1 DEF NoRequestAfterAcceptance
  <2>2. CASE row = new
    <3>1. CASE later = new
      BY <1>0, <1>4, <2>2, <3>1
    <3>2. CASE later \in journal
      BY <1>4, <2>2, <3>2 DEF RowsArePast, g
    <3> QED
      BY <1>3, <3>1, <3>2
  <2>3. CASE row \in journal /\ later = new
    <3>1. attempts[c].plan # "approve_only"
      BY <1>1, <1>4, <2>3 DEF MayJournal
    <3>2. ~(row.gen < g)
      BY <1>4, <2>3, <3>1 DEF AcceptedIsOnlyApproved, g
    <3> QED
      BY <1>0, <1>4, <2>3, <3>2
  <2> QED
    BY <1>3, <2>1, <2>2, <2>3
<1> QED
  BY <1>5, <1>6, <1>7, <1>8, <1>9, <1>10

\* Every step keeps the journal in agreement with the attempts.
LEMMA JournalStep == TypeOK /\ JournalInv /\ [Next]_vars => JournalInv'
<1> SUFFICES ASSUME TypeOK, JournalInv, [Next]_vars PROVE JournalInv'
  OBVIOUS
<1>0. TypeOK'
  BY TypeStep
<1>1. CASE UNCHANGED <<cases, attempts, journal>>
  BY <1>1
  DEF JournalInv, RowsArePast, FirstIsFirst, QueuedHasNoRows, AcceptedIsOnlyApproved,
      ApprovalNeedsAcceptance, NoRequestAfterAcceptance
<1> QED
  BY <1>0, <1>1, CaseWrites, JournalAfterCaseWrite, JournalAfterOwnWrite

\* An empty journal agrees with cases nobody approved.
LEMMA JournalInit == Init => JournalInv
BY DEF Init, StoreInit, NoAttempt, JournalInv, RowsArePast, FirstIsFirst, QueuedHasNoRows,
       AcceptedIsOnlyApproved, ApprovalNeedsAcceptance, NoRequestAfterAcceptance

\* No approve call without a request the database recorded as accepted.
THEOREM ApprovalIsAuthorized == Spec => []ApprovalNeedsAcceptance
<1>1. Init => TypeOK /\ JournalInv
  BY InitType, JournalInit
<1>2. TypeOK /\ JournalInv /\ [Next]_vars => (TypeOK /\ JournalInv)'
  BY TypeStep, JournalStep
<1>3. JournalInv => ApprovalNeedsAcceptance
  BY DEF JournalInv
<1> QED
  BY <1>1, <1>2, <1>3, PTL DEF Spec

\* No second refund request after one the database recorded as accepted.
THEOREM RequestsEndWithAcceptance == Spec => []NoRequestAfterAcceptance
<1>1. Init => TypeOK /\ JournalInv
  BY InitType, JournalInit
<1>2. TypeOK /\ JournalInv /\ [Next]_vars => (TypeOK /\ JournalInv)'
  BY TypeStep, JournalStep
<1>3. JournalInv => NoRequestAfterAcceptance
  BY DEF JournalInv
<1> QED
  BY <1>1, <1>2, <1>3, PTL DEF Spec

----------------------------------------------------------------------------
(* What the workers send.                                                  *)

\* A worker stays, goes idle, goes on with its claim, is about to send what it
\* has just journaled, or takes a new claim.
WorkerGoes(v) ==
    \/ workers'[v] = workers[v]
    \/ workers'[v].at = "idle"
    \/ /\ workers[v].at # "idle" /\ workers'[v].at # "send"
       /\ workers'[v].case = workers[v].case /\ workers'[v].gen = workers[v].gen
    \/ /\ workers[v].at = "start" /\ workers'[v].at = "send"
       /\ workers'[v].case = workers[v].case /\ workers'[v].gen = workers[v].gen
       /\ workers'[v].stage = workers[v].stage
       /\ JournalStarted(v, workers[v].case, workers[v].stage)

Sends(v) ==
    /\ workers[v].at = "send" /\ workers'[v].at = "wait"
    /\ sent' = sent \cup {MyCall(v)}
    /\ UNCHANGED <<attempts, journal>>

\* A worker that moves to anything but a call carries no new one.
LEMMA OneWorkerMoves ==
    ASSUME TypeOK, NEW w \in Workers, NEW at, NEW stage, NEW answer,
           Moves(w, at, stage, answer), workers[w].at # "idle", at # "send"
    PROVE  \A v \in Workers : WorkerGoes(v)
BY DEF TypeOK, Moves, WorkerGoes

\* A worker that finishes leaves the others where they are.
LEMMA OneWorkerFinishes ==
    ASSUME TypeOK, NEW w \in Workers, Finishes(w)
    PROVE  \A v \in Workers : WorkerGoes(v)
BY IdleType DEF TypeOK, Finishes, WorkerGoes

\* A worker that tries settlement or hold again calls nobody.
LEMMA OneWorkerRetries ==
    ASSUME TypeOK, NEW w \in Workers, Retries(w),
           workers[w].at \in {"settle", "settle_again", "hold", "hold_again"}
    PROVE  \A v \in Workers : WorkerGoes(v)
<1>1. AfterFailure(workers[w].at) \in {"settle_again", "hold", "hold_again", "idle"}
  BY DEF AfterFailure
<1> QED
  BY <1>1, OneWorkerMoves, OneWorkerFinishes DEF Retries, Goes

\* Only a claim brings a worker to a case; all other steps move or free it.
LEMMA WorkersGo ==
    ASSUME TypeOK, [Next]_vars,
           ~\E w \in Workers, c \in Cases, usable \in BOOLEAN : WorkerClaims(w, c, usable)
    PROVE  /\ \A v \in Workers : WorkerGoes(v)
           /\ sent' = sent \/ \E v \in Workers : Sends(v)
<1>0. UNCHANGED workers => \A v \in Workers : WorkerGoes(v)
  BY DEF WorkerGoes
<1>1. ASSUME NEW w \in Workers, WorkerStep(w)
      PROVE  /\ \A v \in Workers : WorkerGoes(v)
             /\ sent' = sent \/ Sends(w)
  <2>1. ASSUME NEW heard \in BOOLEAN, WorkerStarts(w, heard)
        PROVE  (\A v \in Workers : WorkerGoes(v)) /\ sent' = sent
    <3>1. CASE heard
      BY <2>1, <3>1 DEF WorkerStarts, Goes, Moves, TypeOK, provider, WorkerGoes
    <3>2. CASE ~heard
      BY <2>1, <3>2, OneWorkerMoves DEF WorkerStarts, GivesUpStage, Becomes, provider
    <3> QED
      BY <3>1, <3>2
  <2>2. ASSUME NEW heard \in BOOLEAN, WorkerRecordsResult(w, heard)
        PROVE  (\A v \in Workers : WorkerGoes(v)) /\ sent' = sent
    BY <2>2, OneWorkerMoves DEF WorkerRecordsResult, GivesUpStage, Becomes, provider
  <2>3. ASSUME NEW heard \in BOOLEAN, WorkerSettles(w, heard) \/ WorkerHolds(w, heard)
        PROVE  (\A v \in Workers : WorkerGoes(v)) /\ sent' = sent
    BY <2>3, OneWorkerFinishes, OneWorkerRetries DEF WorkerSettles, WorkerHolds, provider
  <2>4. CASE WorkerSends(w)
    <3>1. \A v \in Workers : WorkerGoes(v)
      BY <2>4, OneWorkerMoves DEF WorkerSends, Goes
    <3>2. Sends(w)
      BY <2>4 DEF WorkerSends, Goes, Moves, Send, Sends, store, TypeOK
    <3> QED
      BY <3>1, <3>2
  <2>5. ASSUME NEW answer \in {"timeout", "unknown"}, WorkerStopsWaiting(w, answer)
        PROVE  (\A v \in Workers : WorkerGoes(v)) /\ sent' = sent
    BY <2>5, OneWorkerMoves DEF WorkerStopsWaiting, Becomes, provider
  <2>6. CASE WorkerIsFenced(w) \/ WorkerSettlementRead(w) \/ WorkerHoldRead(w)
    BY <2>6, OneWorkerMoves, OneWorkerFinishes, OneWorkerRetries
    DEF WorkerIsFenced, WorkerSettlementRead, WorkerHoldRead, GivesUpStage, Becomes, provider
  <2> QED
    BY <1>1, <2>1, <2>2, <2>3, <2>4, <2>5, <2>6, Zenon DEF WorkerStep
<1>2. ASSUME NEW w \in Workers, WorkerMishap(w)
      PROVE  (\A v \in Workers : WorkerGoes(v)) /\ sent' = sent
  BY <1>2, OneWorkerMoves, OneWorkerFinishes, OneWorkerRetries
  DEF WorkerMishap, WorkerRefusesContext, WorkerLosesRequest, WorkerCrashes,
      GivesUpStage, Becomes, Goes, provider
<1>3. ASSUME NEW call \in InFlight,
             ProviderAcceptsRequest(call) \/ ProviderPays(call) \/ ProviderDoesNothing(call)
      PROVE  (\A v \in Workers : WorkerGoes(v)) /\ sent' = sent
  <2>1. sent' = sent
    BY <1>3 DEF ProviderAcceptsRequest, ProviderPays, ProviderDoesNothing,
                AcceptRequest, PayApproval, NoEffect
  <2>2. \E answer : Answers(call, answer)
    BY <1>3, Zenon DEF ProviderAcceptsRequest, ProviderPays, ProviderDoesNothing
  <2> QED
    BY <1>0, <2>1, <2>2, OneWorkerMoves DEF Answers, Waiting, Becomes
<1>4. ASSUME NEW c \in Cases, CaseStep(c) PROVE UNCHANGED <<workers, sent>>
  BY <1>4
  DEF CaseStep, ManagerApproves, LeaseExpires, SweepReclaims, PersonLooks, PersonRecordsNoRefund,
      PersonRecordsSuccess, ServiceReconciles, MachineDisabled, MachineEnabled, provider
<1>5. UNCHANGED vars => UNCHANGED <<workers, sent>>
  BY DEF vars
<1> QED
  BY <1>0, <1>1, <1>2, <1>3, <1>4, <1>5, Zenon DEF Next, ProviderStep

\* Rewriting a case never hands its attempt to a worker.
LEMMA RewritesKeepHolder ==
    ASSUME TypeOK, NEW c \in Cases, Rewrites(c), attempts'[c].status = "in_progress"
    PROVE  /\ attempts[c].status = "in_progress"
           /\ attempts'[c].holder = attempts[c].holder /\ attempts'[c].gen = attempts[c].gen
<1> USE DEF TypeOK, StoreTypeOK
<1>1. CASE Approve(c) \/ ReclaimRequeues(c) \/ PersonRecordsNoRefund(c)
  BY <1>1 DEF Approve, ReclaimRequeues, PersonRecordsNoRefund, NoRefundEvidence, Queued
<1>2. CASE Expire(c)
  BY <1>2 DEF Expire, Claimed
<1>3. CASE ReclaimHolds(c) \/ HoldAttempt(c)
  BY <1>3 DEF ReclaimHolds, HoldAttempt, HoldAs, HeldWith
<1>4. CASE \/ \E w \in Workers, g \in Generations, outcome \in Outcomes : Settle(w, c, g, outcome)
           \/ PersonRecordsSuccess(c) \/ ServiceReconciles(c)
  BY <1>4 DEF Settle, PersonRecordsSuccess, ServiceReconciles, SuccessEvidence, ReconcileProved, HoldAs, HeldWith, CompleteAs, Succeeded
<1> HIDE DEF TypeOK, StoreTypeOK
<1> QED
  BY <1>1, <1>2, <1>3, <1>4, Zenon DEF Rewrites

\* Rewriting one case leaves the journal and the other attempts alone.
LEMMA RewritesElsewhere ==
    ASSUME TypeOK, NEW c \in Cases, Rewrites(c)
    PROVE  journal' = journal /\ \A d \in Cases \ {c} : attempts'[d] = attempts[d]
<1> USE DEF TypeOK, StoreTypeOK
<1>1. CASE \/ Approve(c) \/ ReclaimRequeues(c) \/ PersonRecordsNoRefund(c) \/ Expire(c)
           \/ ReclaimHolds(c) \/ HoldAttempt(c)
  BY <1>1 DEF Approve, ReclaimRequeues, PersonRecordsNoRefund, NoRefundEvidence, Expire, ReclaimHolds, HoldAttempt, HoldAs
<1>2. CASE \/ \E w \in Workers, g \in Generations, outcome \in Outcomes : Settle(w, c, g, outcome)
           \/ PersonRecordsSuccess(c) \/ ServiceReconciles(c)
  BY <1>2 DEF Settle, PersonRecordsSuccess, ServiceReconciles, SuccessEvidence, ReconcileProved, HoldAs, CompleteAs
<1> HIDE DEF TypeOK, StoreTypeOK
<1> QED
  BY <1>1, <1>2, Zenon DEF Rewrites

\* A claim takes a queued attempt, whose generation has not been called yet.
LEMMA ClaimStep ==
    ASSUME TypeOK, ClaimsAreCurrent, CallsAreJournaled, SendsOnce,
           NEW w \in Workers, NEW c \in Cases, NEW usable \in BOOLEAN, WorkerClaims(w, c, usable)
    PROVE  ClaimsAreCurrent' /\ CallsAreJournaled' /\ SendsOnce'
<1>1. /\ journal' = journal /\ sent' = sent
      /\ \A v \in Workers \ {w} : workers'[v] = workers[v]
      /\ workers'[w].at # "send"
      /\ workers'[w].at # "idle" => workers'[w].case = c /\ workers'[w].gen = attempts[c].gen
  BY DEF WorkerClaims, Claim, TypeOK
<1>2. /\ attempts'[c].gen = attempts[c].gen /\ attempts'[c].holder = w
      /\ \A d \in Cases \ {c} : attempts'[d] = attempts[d]
  BY DEF WorkerClaims, Claim, Claimed, TypeOK, StoreTypeOK
<1>3. \A v \in Workers : workers[v].case \in Cases
  BY DEF TypeOK, Job
<1>4. ClaimsAreCurrent'
  BY <1>1, <1>2, <1>3 DEF ClaimsAreCurrent
<1>5. \A v \in Workers : workers'[v].at = "send" => workers'[v] = workers[v]
  BY <1>1
<1> QED
  BY <1>1, <1>4, <1>5 DEF CallsAreJournaled, SendsOnce, JournaledAsStarted, StartedRow, MyCall

\* Every step keeps a generation's calls journaled and sent once.
LEMMA SendStep == TypeOK /\ SendInv /\ [Next]_vars => SendInv'
<1> SUFFICES ASSUME TypeOK, SendInv, [Next]_vars PROVE SendInv'
  OBVIOUS
<1> USE DEF SendInv
<1>1. CASE \E w \in Workers, c \in Cases, usable \in BOOLEAN : WorkerClaims(w, c, usable)
  BY <1>1, ClaimStep
<1>2. CASE ~\E w \in Workers, c \in Cases, usable \in BOOLEAN : WorkerClaims(w, c, usable)
  <2>1. (\A v \in Workers : WorkerGoes(v)) /\ (sent' = sent \/ \E v \in Workers : Sends(v))
    BY <1>2, WorkersGo
  <2>2. \A v \in Workers : workers[v].case \in Cases
    BY DEF TypeOK, Job
  <2>3. \A c \in Cases : attempts'[c].status = "in_progress" =>
           /\ attempts[c].status = "in_progress"
           /\ attempts'[c].holder = attempts[c].holder /\ attempts'[c].gen = attempts[c].gen
    <3>1. CASE attempts' = attempts
      BY <3>1
    <3>2. ASSUME NEW c \in Cases, Rewrites(c)
          PROVE  \A d \in Cases \ {c} : attempts'[d] = attempts[d]
      BY <3>2, RewritesElsewhere
    <3>3. ASSUME NEW w \in Workers, WritesJournal(w) PROVE attempts' = attempts
      BY <3>3 DEF WritesJournal, JournalStarted, JournalResult
    <3> QED
      BY <1>2, <3>1, <3>2, <3>3, StoreSteps, RewritesKeepHolder
  <2>4. ClaimsAreCurrent'
    BY <2>1, <2>2, <2>3 DEF ClaimsAreCurrent, WorkerGoes
  <2>5. journal \subseteq journal'
    <3>1. ASSUME NEW c \in Cases, Rewrites(c) PROVE journal' = journal
      BY <3>1, RewritesElsewhere
    <3> QED
      BY <1>2, <3>1, StoreSteps DEF WritesJournal, JournalStarted, JournalResult
  <2>6. ASSUME NEW v \in Workers, JournalStarted(v, workers[v].case, workers[v].stage),
               workers[v].at = "start"
        PROVE  /\ ~JournaledAsStarted(MyCall(v))
               /\ StartedRow(workers[v].case, workers[v].gen, workers[v].stage) \in journal'
               /\ attempts[workers[v].case].holder = v /\ journal' # journal
    <3>1. attempts[workers[v].case].status = "in_progress" /\ attempts[workers[v].case].holder = v
      BY <2>6 DEF JournalStarted, MayStart, MayJournal, ClaimIsLive
    <3>2. workers[v].gen = attempts[workers[v].case].gen
      BY <2>6, <3>1 DEF ClaimsAreCurrent
    <3> QED
      BY <2>6, <3>1, <3>2 DEF JournalStarted, MayStart, JournaledAsStarted, MyCall
  <2>7. \A v \in Workers : workers'[v].at = "send" =>
           /\ MyCall(v)' = MyCall(v)
           /\ \/ workers[v].at = "send"
              \/ workers[v].at = "start" /\ JournalStarted(v, workers[v].case, workers[v].stage)
    BY <2>1 DEF WorkerGoes, MyCall
  <2>8. CallsAreJournaled'
    <3>1. ASSUME NEW v \in Workers, workers'[v].at = "send" PROVE JournaledAsStarted(MyCall(v))'
      <4>1. MyCall(v)' = MyCall(v)
        BY <2>7, <3>1
      <4>2. StartedRow(workers[v].case, workers[v].gen, workers[v].stage) \in journal'
        BY <2>5, <2>6, <2>7, <3>1 DEF CallsAreJournaled, JournaledAsStarted, MyCall
      <4> QED
        BY <4>1, <4>2 DEF JournaledAsStarted, MyCall, StartedRow
    <3>2. ASSUME NEW call \in sent' PROVE JournaledAsStarted(call)'
      <4>1. call \in sent \/ \E v \in Workers : workers[v].at = "send" /\ call = MyCall(v)
        BY <2>1, <3>2 DEF Sends
      <4> QED
        BY <2>5, <4>1 DEF CallsAreJournaled, JournaledAsStarted, StartedRow
    <3> QED
      BY <3>1, <3>2 DEF CallsAreJournaled
  <2>9. SendsOnce'
    <3> SUFFICES ASSUME NEW w \in Workers, workers'[w].at = "send"
                 PROVE  /\ MyCall(w)' \notin sent'
                        /\ \A v \in Workers \ {w} : workers'[v].at = "send" => MyCall(v)' # MyCall(w)'
      BY DEF SendsOnce
    <3>1. MyCall(w)' = MyCall(w)
      BY <2>7
    <3>2. MyCall(w) \notin sent
      BY <2>6, <2>7 DEF SendsOnce, CallsAreJournaled
    <3>3. MyCall(w) \notin sent'
      <4>1. ASSUME NEW v \in Workers, Sends(v) PROVE MyCall(v) # MyCall(w)
        <5>1. v # w /\ workers[v].at = "send"
          BY <4>1 DEF Sends
        <5>2. workers[w].at = "send"
          BY <2>6, <2>7, <4>1 DEF Sends
        <5> QED
          BY <5>1, <5>2 DEF SendsOnce
      <4> QED
        BY <2>1, <3>2, <4>1 DEF Sends
    <3>4. ASSUME NEW v \in Workers \ {w}, workers'[v].at = "send" PROVE MyCall(v) # MyCall(w)
      <4>1. CASE workers[v].at = "send" /\ workers[w].at = "send"
        BY <4>1 DEF SendsOnce
      <4>2. CASE workers[v].at = "send" /\ workers[w].at # "send"
        BY <2>6, <2>7, <4>2 DEF CallsAreJournaled
      <4>3. CASE workers[v].at # "send" /\ workers[w].at = "send"
        BY <2>6, <2>7, <3>4, <4>3 DEF CallsAreJournaled
      <4>4. CASE workers[v].at # "send" /\ workers[w].at # "send"
        <5>1. attempts[workers[v].case].holder = v /\ attempts[workers[w].case].holder = w
          BY <2>6, <2>7, <3>4, <4>4
        <5> QED
          BY <5>1 DEF MyCall
      <4> QED
        BY <4>1, <4>2, <4>3, <4>4
    <3> QED
      BY <2>7, <3>1, <3>3, <3>4
  <2> QED
    BY <2>4, <2>8, <2>9
<1> QED
  BY <1>1, <1>2

\* Nothing has been sent at first.
LEMMA SendInit == Init => SendInv
<1>1. Init => sent = {} /\ \A w \in Workers : workers[w].at = "idle"
  BY IdleType DEF Init, ProviderInit
<1>2. sent = {} /\ (\A w \in Workers : workers[w].at = "idle") => SendInv
  BY DEF SendInv, ClaimsAreCurrent, CallsAreJournaled, SendsOnce
<1> QED
  BY <1>1, <1>2

\* Every provider call goes out once per generation and stage.
THEOREM CallsGoOutOnce == Spec => []SendsOnce
<1>1. Init => TypeOK /\ SendInv
  BY InitType, SendInit
<1>2. TypeOK /\ SendInv /\ [Next]_vars => (TypeOK /\ SendInv)'
  BY TypeStep, SendStep
<1>3. SendInv => SendsOnce
  BY DEF SendInv
<1> QED
  BY <1>1, <1>2, <1>3, PTL DEF Spec

\* What waits in the queue has not reached Nayax in its current generation.
THEOREM QueueIsClean == Spec => []QueuedIsUntouched
<1>1. Init => TypeOK /\ JournalInv /\ SendInv
  BY InitType, JournalInit, SendInit
<1>2. TypeOK /\ JournalInv /\ SendInv /\ [Next]_vars => (TypeOK /\ JournalInv /\ SendInv)'
  BY TypeStep, JournalStep, SendStep
<1>3. JournalInv /\ SendInv => QueuedIsUntouched
  BY DEF JournalInv, SendInv, QueuedHasNoRows, CallsAreJournaled, JournaledAsStarted,
         StartedRow, MyCall, QueuedIsUntouched
<1> QED
  BY <1>1, <1>2, <1>3, PTL DEF Spec

----------------------------------------------------------------------------
(* The promise to the customer, as long as people look at Nayax only when  *)
(* no call about the case is under way.                                    *)

\* Everything proved of the states of an instance whose people wait.
AllInv == /\ TypeOK /\ MoneyInv /\ ClaimsOfRefundAreTrue
          /\ CaseMatchesAttempt /\ JournalInv

\* All invariants of the card refund together.
LEMMA AllInvHolds == SettledBeforeLooking => (Spec => []AllInv)
<1> SUFFICES ASSUME SettledBeforeLooking PROVE Spec => []AllInv
  OBVIOUS
<1>1. Init => AllInv
  BY InitType, MoneyInit, TruthInit, JournalInit
  DEF AllInv, Init, StoreInit, CaseMatchesAttempt, NoAttempt
<1>2. AllInv /\ [Next]_vars => AllInv'
  BY TypeStep, MoneyStep, TruthStep, MatchStep, JournalStep DEF AllInv
<1> QED
  BY <1>1, <1>2, PTL DEF Spec

\* The generation of an attempt moves only when a person records that Nayax shows no refund.
LEMMA OnlyContinuationsAdvance ==
    ASSUME TypeOK, NEW c \in Cases, WritesCase(c), attempts[c].status # "none",
           attempts'[c].gen # attempts[c].gen
    PROVE  PersonRecordsNoRefund(c)
<1> USE DEF TypeOK, StoreTypeOK
<1>1. CASE Approve(c) \/ (\E w \in Workers : Claim(w, c)) \/ Expire(c) \/ ReclaimRequeues(c)
  BY <1>1 DEF Approve, Claim, Expire, ReclaimRequeues, Claimed, Queued
<1>2. CASE ReclaimHolds(c) \/ HoldAttempt(c)
  BY <1>2 DEF ReclaimHolds, HoldAttempt, HoldAs, HeldWith
<1>3. CASE \/ \E w \in Workers, g \in Generations, outcome \in Outcomes : Settle(w, c, g, outcome)
           \/ PersonRecordsSuccess(c) \/ ServiceReconciles(c)
  BY <1>3
  DEF Settle, PersonRecordsSuccess, ServiceReconciles, SuccessEvidence, ReconcileProved,
      HoldAs, HeldWith, CompleteAs, Succeeded
<1> HIDE DEF TypeOK, StoreTypeOK
<1> QED
  BY <1>1, <1>2, <1>3, Zenon DEF WritesCase, Rewrites

\* A continuation generation begins only while Nayax has not refunded the case.
THEOREM ContinuesOnlyUnpaid == SettledBeforeLooking => (Spec => ContinuesUnpaid)
<1> SUFFICES ASSUME SettledBeforeLooking PROVE Spec => ContinuesUnpaid
  OBVIOUS
<1>1. AllInv /\ [Next]_vars =>
        [\A c \in Cases : attempts'[c].gen # attempts[c].gen => paid[c] = 0]_vars
  <2> SUFFICES ASSUME AllInv, [Next]_vars, NEW d \in Cases, attempts'[d].gen # attempts[d].gen
               PROVE  paid[d] = 0
    BY Zenon
  <2> USE DEF AllInv
  <2>1. PICK c \in Cases : WritesCase(c)
    BY CaseWrites DEF WritesJournal, JournalStarted, JournalResult
  <2>2. d = c /\ attempts[c].status # "none"
    <3>1. FirstIsFirst
      BY DEF JournalInv
    <3>2. d = c
      BY <2>1, <3>1, AttemptWrites
    <3>3. attempts[c].status = "none" => attempts[c].gen = 1 /\ attempts'[c].gen = 1
      <4> SUFFICES ASSUME attempts[c].status = "none" PROVE attempts'[c].gen = 1
        BY <3>1 DEF FirstIsFirst
      <4> QED
        BY <2>1, <3>1, AttemptWrites
    <3> QED
      BY <3>2, <3>3
  <2>3. PersonRecordsNoRefund(c)
    BY <2>1, <2>2, OnlyContinuationsAdvance
  <2>4. seen[c].gen = attempts[c].gen /\ ~seen[c].refunded
    BY <2>3 DEF PersonRecordsNoRefund, EvidenceIsFresh
  <2> QED
    BY <2>2, <2>4 DEF MoneyInv, LooksAreTrue
<1> QED
  BY <1>1, AllInvHolds, PTL DEF Spec, ContinuesUnpaid

----------------------------------------------------------------------------
(* The refinement: every step is a step of the promise or leaves it alone. *)

\* How the status of a case may move: it is approved, completed, or as before.
LEMMA StatusMoves ==
    ASSUME TypeOK, NEW c \in Cases, WritesCase(c)
    PROVE  /\ \A d \in Cases \ {c} : cases'[d] = cases[d]
           /\ \/ cases'[c].status = cases[c].status
              \/ cases[c].status = "needs_review" /\ cases'[c].status = "card_refund_pending"
              \/ cases[c].status = "card_refund_pending" /\ cases'[c].status = "completed"
<1> USE DEF TypeOK, StoreTypeOK, Pending
<1>1. CASE Approve(c) \/ PersonRecordsNoRefund(c)
  BY <1>1 DEF Approve, PersonRecordsNoRefund, NoRefundEvidence, EvidenceAllowed
<1>2. CASE \E w \in Workers : Claim(w, c)
  BY <1>2 DEF Claim
<1>3. CASE Expire(c)
  BY <1>3 DEF Expire
<1>4. ASSUME NEW outcome, HoldAs(c, outcome)
      PROVE  (\A d \in Cases \ {c} : cases'[d] = cases[d]) /\ cases'[c].status = cases[c].status
  BY <1>4 DEF HoldAs, Case
<1>5. ASSUME NEW referenced, CompleteAs(c, referenced), cases[c].status = "card_refund_pending"
      PROVE  (\A d \in Cases \ {c} : cases'[d] = cases[d]) /\ cases'[c].status = "completed"
  BY <1>5 DEF CompleteAs, Completed
<1>6. CASE ReclaimHolds(c) \/ HoldAttempt(c)
  BY <1>4, <1>6 DEF ReclaimHolds, HoldAttempt
<1>7. CASE ReclaimRequeues(c)
  BY <1>7 DEF ReclaimRequeues, Case
<1>8. CASE \E w \in Workers, g \in Generations, outcome \in Outcomes : Settle(w, c, g, outcome)
  <2>1. cases[c].status = "card_refund_pending"
    BY <1>8 DEF Settle, MaySettle
  <2>2. (\E outcome : HoldAs(c, outcome)) \/ \E referenced : CompleteAs(c, referenced)
    BY <1>8, Zenon DEF Settle
  <2>3. CASE \E outcome : HoldAs(c, outcome)
    BY <1>4, <2>3
  <2>4. CASE \E referenced : CompleteAs(c, referenced)
    BY <1>5, <2>1, <2>4
  <2> QED
    BY <2>2, <2>3, <2>4
<1>9. CASE PersonRecordsSuccess(c) \/ ServiceReconciles(c)
  <2>0. EvidenceAllowed(c)
    BY <1>9, Zenon DEF PersonRecordsSuccess, ServiceReconciles, SuccessEvidence, ReconcileProved
  <2>1. cases[c].status = "card_refund_pending"
    BY <2>0 DEF EvidenceAllowed
  <2>2. \E referenced : CompleteAs(c, referenced)
    BY <1>9, Zenon DEF PersonRecordsSuccess, ServiceReconciles, SuccessEvidence, ReconcileProved
  <2> QED
    BY <1>5, <2>1, <2>2
<1> HIDE DEF TypeOK, StoreTypeOK, Pending
<1> QED
  BY <1>1, <1>2, <1>3, <1>6, <1>7, <1>8, <1>9, Zenon DEF WritesCase, Rewrites

\* Money moves in the steps of Nayax only, and those leave the store alone.
LEMMA MoneyMoves ==
    ASSUME TypeOK, [Next]_vars
    PROVE  \/ UNCHANGED paid
           \/ UNCHANGED <<cases, attempts>> /\ \E call \in InFlight : ProviderPays(call)
<1>1. ASSUME NEW w \in Workers, NEW c \in Cases, NEW usable \in BOOLEAN, WorkerClaims(w, c, usable)
      PROVE  UNCHANGED paid
  BY <1>1 DEF WorkerClaims
<1>2. ASSUME NEW w \in Workers, WorkerStep(w) \/ WorkerMishap(w)
      PROVE  UNCHANGED paid
  BY <1>2
  DEF WorkerStep, WorkerMishap, WorkerStarts, WorkerRecordsResult, WorkerSettles, WorkerHolds,
      WorkerSends, Send, WorkerStopsWaiting, WorkerIsFenced, WorkerSettlementRead, WorkerHoldRead,
      WorkerRefusesContext, WorkerLosesRequest, WorkerCrashes, provider
<1>3. ASSUME NEW call \in InFlight, ProviderAcceptsRequest(call) \/ ProviderDoesNothing(call)
      PROVE  UNCHANGED paid
  BY <1>3 DEF ProviderAcceptsRequest, ProviderDoesNothing, AcceptRequest, NoEffect
<1>4. ASSUME NEW call \in InFlight, ProviderPays(call) PROVE UNCHANGED <<cases, attempts>>
  BY <1>4 DEF ProviderPays, store
<1>5. ASSUME NEW c \in Cases, CaseStep(c) PROVE UNCHANGED paid
  BY <1>5
  DEF CaseStep, ManagerApproves, LeaseExpires, SweepReclaims, PersonLooks, PersonRecordsNoRefund,
      PersonRecordsSuccess, ServiceReconciles, MachineDisabled, MachineEnabled, provider
<1>6. UNCHANGED vars => UNCHANGED paid
  BY DEF vars
<1> QED
  BY <1>1, <1>2, <1>3, <1>4, <1>5, <1>6, Zenon DEF Next, ProviderStep

\* Every step is one of RefundPromise or leaves its variables alone.
LEMMA PromiseStep ==
    ASSUME AllInv, AllInv', [Next]_vars
    PROVE  [Promise!Next]_<<PromiseState, paid>>
<1> USE DEF AllInv
<1>0. /\ paid \in [Cases -> Nat] /\ paid' \in [Cases -> Nat]
      /\ \A c \in Cases : cases[c].status \in {"needs_review", "card_refund_pending", "completed"}
      /\ \A c \in Cases : paid[c] \in {0, 1} /\ paid'[c] \in {0, 1}
  <2>1. \A c \in Cases : paid[c] \in {0, 1}
    BY Zenon DEF MoneyInv, PaidOnce
  <2>2. \A c \in Cases : paid'[c] \in {0, 1}
    BY Zenon DEF MoneyInv, PaidOnce
  <2> QED
    BY <2>1, <2>2 DEF TypeOK, StoreTypeOK, Case
<1>1. ASSUME UNCHANGED paid, UNCHANGED cases PROVE UNCHANGED <<PromiseState, paid>>
  BY <1>1 DEF PromiseState
<1>2. ASSUME UNCHANGED paid, NEW c \in Cases, WritesCase(c)
      PROVE  [Promise!Next]_<<PromiseState, paid>>
  <2>1. \A d \in Cases \ {c} : cases'[d] = cases[d]
    BY <1>2, StatusMoves
  <2>2. CASE cases'[c].status = cases[c].status
    <3>1. PromiseState' = PromiseState
      BY <2>1, <2>2 DEF PromiseState
    <3> QED
      BY <1>2, <3>1
  <2>3. CASE cases[c].status = "needs_review" /\ cases'[c].status = "card_refund_pending"
    <3>1. PromiseState[c] = "open" /\ PromiseState' = [PromiseState EXCEPT ![c] = "approved"]
      BY <2>1, <2>3 DEF PromiseState
    <3> QED
      BY <1>2, <3>1 DEF Promise!Next, Promise!Approve
  <2>4. CASE cases[c].status = "card_refund_pending" /\ cases'[c].status = "completed"
    <3>1. PromiseState[c] = "approved" /\ PromiseState' = [PromiseState EXCEPT ![c] = "done"]
      BY <2>1, <2>4 DEF PromiseState
    <3>2. paid'[c] > 0
      BY <2>4 DEF ClaimsOfRefundAreTrue, CompletedIsPaid
    <3>3. paid[c] = 1
      BY <1>0, <1>2, <3>2
    <3> QED
      BY <1>2, <3>1, <3>3 DEF Promise!Next, Promise!Finish
  <2> QED
    BY <1>2, <2>2, <2>3, <2>4, StatusMoves
<1>3. ASSUME UNCHANGED <<cases, attempts>>, NEW call \in InFlight, ProviderPays(call)
      PROVE  [Promise!Next]_<<PromiseState, paid>>
  <2> DEFINE c == call.case
  <2>1. c \in Cases
    BY DEF TypeOK, InFlight, Call
  <2>2. paid' = [paid EXCEPT ![c] = paid[c] + 1]
    BY <1>3 DEF ProviderPays, PayApproval
  <2>3. paid[c] = 0 /\ paid' = [paid EXCEPT ![c] = 1]
    <3>1. paid'[c] = paid[c] + 1 /\ paid[c] \in {0, 1} /\ paid'[c] \in {0, 1}
      BY <1>0, <2>1, <2>2
    <3>2. paid[c] = 0 /\ paid[c] + 1 = 1
      BY <3>1
    <3> QED
      BY <2>2, <3>2, Zenon
  <2>4. attempts[c].status # "none"
    BY <2>1 DEF MoneyInv, UnapprovedIsUntouched, CallsUnderWay
  <2>5. cases[c].status # "completed"
    BY <2>1, <2>3 DEF ClaimsOfRefundAreTrue, CompletedIsPaid
  <2>6. cases[c].status = "card_refund_pending"
    <3>1. attempts[c].status \in {"none", "created", "in_progress", "manual_review", "succeeded"}
      BY <2>1 DEF TypeOK, StoreTypeOK, Attempt
    <3> QED
      BY <2>1, <2>4, <2>5, <3>1 DEF CaseMatchesAttempt, Pending, Completed
  <2>7. PromiseState[c] = "approved" /\ PromiseState' = PromiseState
    BY <1>3, <2>1, <2>6 DEF PromiseState
  <2> QED
    BY <2>1, <2>3, <2>7 DEF Promise!Next, Promise!Pay
<1>4. ASSUME NEW w \in Workers, WritesJournal(w) PROVE UNCHANGED cases
  BY <1>4 DEF WritesJournal, JournalStarted, JournalResult
<1> QED
  BY <1>1, <1>2, <1>3, <1>4, CaseWrites, MoneyMoves

\* Each step of sweeps, people and Nayax is a step of the promise or invisible to
\* it: nothing is paid before approval, at most one refund, done only after it.
THEOREM PromiseIsKept == SettledBeforeLooking => (Spec => KeepsPromise)
<1> SUFFICES ASSUME SettledBeforeLooking PROVE Spec => KeepsPromise
  OBVIOUS
<1>1. Init => Promise!Init
  BY DEF Init, StoreInit, ProviderInit, Promise!Init, PromiseState
<1>2. AllInv /\ AllInv' /\ [Next]_vars => [Promise!Next]_<<PromiseState, paid>>
  BY PromiseStep
<1> QED
  BY <1>1, <1>2, AllInvHolds, PTL DEF Spec, KeepsPromise, Promise!Spec

=============================================================================
