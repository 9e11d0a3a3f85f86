------------------------------ MODULE PayStubs ------------------------------
(***************************************************************************)
(* The monthly pay stubs of one contractor in one calendar year: the queue *)
(* of generation requests, the runs of the generator that overlap, die and *)
(* lose answers, and the year-to-date amounts a stub takes from the stubs  *)
(* of earlier months.  Claims are serialized by contractor and year, so    *)
(* other contractors and years add nothing.                                *)
(*                                                                         *)
(* req[m] is the latest request of month m: only that one is retried, and  *)
(* an earlier one never becomes active again.                              *)
(***************************************************************************)
EXTENDS Naturals, Functions

CONSTANTS
    LastMonth,    \* bound: months of the year
    Runs,         \* runs of the generator, scheduled or interactive
    Outlives,     \* a run may go on after its claim counts as interrupted
    MaxChanges,   \* bound: changes of sources and wishes of managers
    MaxMishaps    \* bound: crashes, failed calls and lost answers

ASSUME PayStubAssumption == LastMonth \in Nat \ {0} /\ Outlives \in BOOLEAN

VARIABLES
    closed,    \* months whose edit cutoff has passed
    earned,    \* what the report calculates for a month
    audited,   \* audited changes of a month's time entries
    ready,     \* months with complete sales
    req,       \* pay_stub_generation_requests
    draft,     \* the draft statement of a month; preparing replaces it
    stub,      \* the issued statement of a month
    run,       \* what each run is doing
    edits, mishaps

payVars == <<closed, earned, audited, ready, req, draft, stub, run, edits, mishaps>>

Months == 1..LastMonth
NoRequest == [no |-> 0, status |-> "none", statement |-> 0, old |-> FALSE, due |-> FALSE]
NoDraft == [id |-> 0, current |-> 0, ytd |-> 0, revision |-> 0]
NotIssued == [issued |-> FALSE, current |-> 0, ytd |-> 0]
Resting == [pc |-> "idle", month |-> 1, no |-> 0, statement |-> 0]

PayInit ==
    /\ closed = 0
    /\ earned = [m \in Months |-> 1] /\ audited = [m \in Months |-> 0]
    /\ ready = [m \in Months |-> TRUE]
    /\ req = [m \in Months |-> NoRequest]
    /\ draft = [m \in Months |-> NoDraft]
    /\ stub = [m \in Months |-> NotIssued]
    /\ run = [r \in Runs |-> Resting]
    /\ edits = 0 /\ mishaps = 0

Active(m) == req[m].status \in {"queued", "processing"}
Open(m) == req[m].status \notin {"none", "completed"}
Mine(r) == LET q == req[run[r].month] IN q.no = run[r].no /\ q.status = "processing"
\* private.operator_pay_time_source_revision: any change up to the month moves it.
Revision(m) == SumFunction([k \in 1..m |-> audited[k]])
IssuedBefore(m) == SumFunction([k \in 1..(m - 1) |-> stub[k].current])

Asked(q) == [NoRequest EXCEPT !.no = q.no + 1, !.status = "queued"]
Outcome(q, status) == [q EXCEPT !.status = status, !.due = FALSE, !.old = FALSE]
Rests(r) == run' = [run EXCEPT ![r] = Resting]
Fails(r) == run' = [run EXCEPT ![r].pc = "fail"]
Mishap == mishaps < MaxMishaps /\ mishaps' = mishaps + 1
Unless(ok) == IF ok THEN UNCHANGED mishaps ELSE Mishap

----------------------------------------------------------------------------
(* The queue.                                                              *)

\* Fault: an interrupted request is not looked for.
Forgotten(q) == FALSE
Interrupted(q) == q.status = "processing" /\ q.old

\* service_enqueue_automatic_pay_stubs; the trigger of the retry clock delays what
\* it has just found interrupted.
Enqueue ==
    /\ req' = [m \in Months |->
         LET q == req[m]
         IN CASE Interrupted(q) -> Outcome(q, "failed")
              [] q.status \in {"blocked", "failed"} /\ q.due -> [q EXCEPT !.status = "queued"]
              [] q.status = "none" /\ m <= closed -> Asked(q)
              [] OTHER -> q]
    /\ req' # req
    /\ UNCHANGED <<closed, earned, audited, ready, draft, stub, run, edits, mishaps>>

Claims(r, m, heard) ==
    /\ run[r].pc = "idle" /\ req[m].status = "queued" /\ m <= closed
    /\ req' = [req EXCEPT ![m].status = "processing", ![m].old = FALSE]
    /\ run' = IF heard THEN [run EXCEPT ![r] = [pc |-> "prepare", month |-> m,
                                                 no |-> req[m].no, statement |-> 0]]
              ELSE run
    /\ Unless(heard)
    /\ UNCHANGED <<closed, earned, audited, ready, draft, stub, edits>>

\* Fault: only the month itself must be free.
YearMayRun(m) == req[m].status # "processing"
YearIsFree(m) == \A k \in Months : req[k].status # "processing"

\* service_claim_pay_stub_generation_requests: one at a time, in the order of months.
ClaimNext(r, heard) ==
    \E m \in Months :
        YearIsFree(m) /\ (\A k \in 1..(m - 1) : ~Active(k)) /\ Claims(r, m, heard)

\* service_claim_pay_stub_generation_request: the one a manager asks for.
ClaimThis(r, m, heard) == YearIsFree(m) /\ Claims(r, m, heard)

\* admin_request_pay_stub_generation
ManagerAsks(m) ==
    /\ edits < MaxChanges /\ edits' = edits + 1
    /\ m <= closed /\ ~Active(m)
    /\ req' = [req EXCEPT ![m] = Asked(@)]
    /\ UNCHANGED <<closed, earned, audited, ready, draft, stub, run, mishaps>>

----------------------------------------------------------------------------
(* A run works on its request.                                             *)

\* service_prepare_pay_stub
Prepare(r, heard) ==
    LET m == run[r].month
        id == draft[m].id + 1
    IN /\ run[r].pc = "prepare"
       /\ \/ ~Mine(r) /\ Fails(r) /\ UNCHANGED <<req, draft>>
          \/ /\ Mine(r) /\ ~ready[m]
             /\ req' = [req EXCEPT ![m] = Outcome(@, "blocked")]
             /\ Rests(r) /\ UNCHANGED draft
          \/ /\ Mine(r) /\ ready[m]
             /\ draft' = [draft EXCEPT ![m] =
                            [id |-> id, current |-> earned[m],
                             ytd |-> IssuedBefore(m) + earned[m], revision |-> Revision(m)]]
             /\ req' = [req EXCEPT ![m].statement = id]
             /\ IF heard THEN run' = [run EXCEPT ![r].pc = "complete", ![r].statement = id]
                ELSE Fails(r)
       /\ Unless(heard)
       /\ UNCHANGED <<closed, earned, audited, ready, stub, edits>>

\* The draft is still the request's, whoever prepared it.
Publishable(r) ==
    LET m == run[r].month
    IN Mine(r) /\ req[m].statement = run[r].statement /\ draft[m].id = run[r].statement

\* Fault: the first stub of a month leaves later ones alone.
RevisedBy(m) == {k \in Months : stub[m].issued /\ k > m /\ stub[k].issued}
\* Issued stubs of later months carry the month in their year to date.
OutdatedBy(m) == {k \in Months : k > m /\ stub[k].issued}

\* service_complete_pay_stub
Complete(r, heard) ==
    LET m == run[r].month
        again == {k \in OutdatedBy(m) : ~Active(k)}
    IN /\ run[r].pc = "complete"
       /\ \/ /\ ~Publishable(r) \/ (ready[m] /\ draft[m].revision # Revision(m))
             /\ Fails(r) /\ UNCHANGED <<req, stub>>
          \/ /\ Publishable(r) /\ ~ready[m]
             /\ req' = [req EXCEPT ![m] = Outcome(@, "blocked")]
             /\ Rests(r) /\ UNCHANGED stub
          \/ /\ Publishable(r) /\ ready[m] /\ draft[m].revision = Revision(m)
             /\ stub' = [stub EXCEPT ![m] = [issued |-> TRUE, current |-> draft[m].current,
                                             ytd |-> draft[m].ytd]]
             /\ req' = [k \in Months |-> CASE k = m -> Outcome(req[k], "completed")
                                           [] k \in again -> Asked(req[k])
                                           [] OTHER -> req[k]]
             /\ IF heard THEN Rests(r) ELSE Fails(r)
       /\ Unless(heard)
       /\ UNCHANGED <<closed, earned, audited, ready, draft, edits>>

\* service_fail_pay_stub: it names the request and not the claim.
Fail(r) ==
    /\ run[r].pc = "fail"
    /\ req' = IF Mine(r) THEN [req EXCEPT ![run[r].month] = Outcome(@, "failed")] ELSE req
    /\ Rests(r)
    /\ UNCHANGED <<closed, earned, audited, ready, draft, stub, edits, mishaps>>

\* A call does not get through, or the upload of the document fails.
CallFails(r) ==
    /\ Mishap
    /\ \/ run[r].pc \in {"prepare", "complete"} /\ Fails(r)
       \/ run[r].pc = "fail" /\ Rests(r)
    /\ UNCHANGED <<closed, earned, audited, ready, req, draft, stub, edits>>

RunDies(r) ==
    /\ run[r].pc # "idle" /\ Mishap /\ Rests(r)
    /\ UNCHANGED <<closed, earned, audited, ready, req, draft, stub, edits>>

----------------------------------------------------------------------------
(* Time, sources and sales.                                                *)

Worked(m) == \E r \in Runs : run[r].pc # "idle" /\ run[r].month = m /\ run[r].no = req[m].no

\* Ten minutes pass since a claim; a run is ended by its platform before that.
ClaimGrowsOld(m) ==
    /\ req[m].status = "processing" /\ ~req[m].old
    /\ Outlives \/ ~Worked(m)
    /\ req' = [req EXCEPT ![m].old = TRUE]
    /\ UNCHANGED <<closed, earned, audited, ready, draft, stub, run, edits, mishaps>>

RetryIsDue(m) ==
    /\ req[m].status \in {"blocked", "failed"} /\ ~req[m].due
    /\ req' = [req EXCEPT ![m].due = TRUE]
    /\ UNCHANGED <<closed, earned, audited, ready, draft, stub, run, edits, mishaps>>

MonthCloses ==
    /\ closed < LastMonth /\ closed' = closed + 1
    /\ UNCHANGED <<earned, audited, ready, req, draft, stub, run, edits, mishaps>>

\* Time entries are audited, sales are not.
SourcesChange(m, isTime) ==
    /\ edits < MaxChanges /\ edits' = edits + 1
    /\ earned' = [earned EXCEPT ![m] = @ + 1]
    /\ audited' = IF isTime THEN [audited EXCEPT ![m] = @ + 1] ELSE audited
    /\ UNCHANGED <<closed, ready, req, draft, stub, run, mishaps>>

SalesGoMissing(m) ==
    /\ edits < MaxChanges /\ edits' = edits + 1
    /\ ready[m] /\ ready' = [ready EXCEPT ![m] = FALSE]
    /\ UNCHANGED <<closed, earned, audited, req, draft, stub, run, mishaps>>

SalesArrive(m) ==
    /\ ~ready[m] /\ ready' = [ready EXCEPT ![m] = TRUE]
    /\ UNCHANGED <<closed, earned, audited, req, draft, stub, run, edits, mishaps>>

RunStep(r) == Prepare(r, TRUE) \/ Complete(r, TRUE) \/ Fail(r)

PayNext ==
    \/ Enqueue \/ MonthCloses
    \/ \E r \in Runs, heard \in BOOLEAN :
         \/ ClaimNext(r, heard) \/ Prepare(r, heard) \/ Complete(r, heard)
         \/ \E m \in Months : ClaimThis(r, m, heard)
    \/ \E r \in Runs : Fail(r) \/ CallFails(r) \/ RunDies(r)
    \/ \E m \in Months : \/ ManagerAsks(m) \/ ClaimGrowsOld(m) \/ RetryIsDue(m)
                         \/ SalesGoMissing(m) \/ SalesArrive(m)
                         \/ \E isTime \in BOOLEAN : SourcesChange(m, isTime)

PaySpec == PayInit /\ [][PayNext]_payVars
\* The generator is dispatched every minute, its runs end, and clocks advance.
PayFairness ==
    /\ WF_payVars(Enqueue) /\ WF_payVars(\E r \in Runs : ClaimNext(r, TRUE))
    /\ \A r \in Runs : WF_payVars(RunStep(r))
    /\ \A m \in Months : WF_payVars(ClaimGrowsOld(m)) /\ WF_payVars(RetryIsDue(m))
FairPaySpec == PaySpec /\ PayFairness

----------------------------------------------------------------------------
(* Properties.                                                             *)

\* The year to date of an issued stub is its own amount and those of the issued stubs
\* before it, or the stub is on its way to be issued again; months are published out
\* of order, late or again, by runs that overlap.
Agrees(m) == stub[m].ytd = IssuedBefore(m) + stub[m].current
YtdAgrees == \A m \in Months : stub[m].issued /\ ~Agrees(m) => Open(m)

\* Each month that is over ends with an issued stub that agrees with the others,
\* although runs die in the middle and answers are lost, once its sales are in.
StubsSettle ==
    (\A m \in Months : <>[]ready[m])
        => \A m \in Months : <>[](m <= closed => stub[m].issued /\ Agrees(m))
=============================================================================
