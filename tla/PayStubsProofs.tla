--------------------------- MODULE PayStubsProofs ---------------------------
(***************************************************************************)
(* The pay stubs of a year agree with each other, or are on their way to,  *)
(* for every number of months, every set of runs and every number of       *)
(* changes and mishaps, as long as no run outlives its claim.              *)
(*                                                                         *)
(* A draft takes its year to date when it is prepared and is published     *)
(* later.  What it was prepared from stays true in between because only    *)
(* one month of the year is being processed, by one run: a request is only *)
(* queued again when nobody works on it.                                   *)
(***************************************************************************)
EXTENDS PayStubs, TLAPS

Request == [no : Nat, status : {"none", "queued", "processing", "blocked", "failed", "completed"},
            statement : Nat, old : BOOLEAN, due : BOOLEAN]
Worker == [pc : {"idle", "prepare", "complete", "fail"}, month : Months, no : Nat, statement : Nat]

\* A run works on the current request of a month.
Working(x, m) == x.pc # "idle" /\ x.month = m /\ x.no = req[m].no

\* What is known of amounts is only which ones are equal.
Types ==
    /\ req \in [Months -> Request] /\ run \in [Runs -> Worker]
    /\ draft = [m \in Months |-> draft[m]] /\ \A m \in Months : draft[m].id \in Nat
    /\ stub = [m \in Months |-> stub[m]]

\* One month is being processed, and one run works on a request.
OneMonth == \A m, k \in Months :
    req[m].status = "processing" /\ req[k].status = "processing" => m = k
OneRun == \A r, s \in Runs, m \in Months :
    Working(run[r], m) /\ Working(run[s], m) => r = s

\* What a run may rely on: its request is no later one, nobody queues it again, and
\* the draft it is about to publish was made of the stubs as they are.
Fresh(x) ==
    x.pc = "complete" /\ x.no = req[x.month].no /\ req[x.month].status = "processing" =>
        draft[x.month].ytd = IssuedBefore(x.month) + draft[x.month].current
RunOK(x) ==
    x.pc # "idle" =>
        /\ x.no <= req[x.month].no
        /\ x.no = req[x.month].no =>
              \/ req[x.month].status = "completed"
              \/ req[x.month].status = "processing" /\ ~req[x.month].old
        /\ Fresh(x)

\* The inductive invariant.
PayInv == /\ Types /\ OneMonth /\ OneRun
          /\ \A r \in Runs : RunOK(run[r])
          /\ YtdAgrees

----------------------------------------------------------------------------
(* What becomes of a request and of a run.                                 *)

\* Asking makes a later request, which is queued.
LEMMA AskedGives ==
    ASSUME NEW q \in Request
    PROVE  Asked(q) \in Request /\ Asked(q).no = q.no + 1 /\ Asked(q).status = "queued"
<1> DEFINE x == [NoRequest EXCEPT !.no = q.no + 1]
           y == [x EXCEPT !.status = "queued"]
<1>0. NoRequest \in Request /\ q.no + 1 \in Nat
    BY DEF NoRequest, Request
<1>1. x \in Request /\ x.no = q.no + 1
    BY <1>0 DEF Request
<1>2. Asked(q) = y
    BY DEF Asked
<1> HIDE DEF x
<1>3. y \in Request /\ y.no = q.no + 1 /\ y.status = "queued"
    BY <1>1 DEF Request
<1> HIDE DEF y
<1> QED BY <1>2, <1>3

\* An outcome is written to the same request.
LEMMA OutcomeGives ==
    ASSUME NEW q \in Request, NEW status \in {"blocked", "failed", "completed"}
    PROVE  LET x == Outcome(q, status)
           IN x \in Request /\ x.no = q.no /\ x.status = status
<1> DEFINE x == [q EXCEPT !.status = status]
           y == [x EXCEPT !.due = FALSE]
           z == [y EXCEPT !.old = FALSE]
<1>1. x \in Request /\ x.no = q.no /\ x.status = status
    BY DEF Request
<1>2. Outcome(q, status) = z
    BY DEF Outcome
<1> HIDE DEF x
<1>3. y \in Request /\ y.no = q.no /\ y.status = status
    BY <1>1 DEF Request
<1> HIDE DEF y
<1>4. z \in Request /\ z.no = q.no /\ z.status = status
    BY <1>3 DEF Request
<1> HIDE DEF z
<1> QED BY <1>2, <1>4

\* A run that gives up, one way or the other.
Calms(x, y) ==
    \/ y = x
    \/ y.pc = "idle"
    \/ x.pc # "idle" /\ y.pc = "fail" /\ y.month = x.month /\ y.no = x.no

\* Resting and failing are giving up, and leave the other runs alone.
LEMMA GivesUp ==
    ASSUME PayStubAssumption, run \in [Runs -> Worker], NEW r \in Runs,
           Rests(r) \/ (Fails(r) /\ run[r].pc # "idle")
    PROVE  /\ run' \in [Runs -> Worker] /\ Calms(run[r], run'[r])
           /\ \A s \in Runs : s # r => run'[s] = run[s]
           /\ Rests(r) => run'[r].pc = "idle"
<1>1. CASE Rests(r)
    <2>1. Resting \in Worker /\ Resting.pc = "idle"
        BY DEF PayStubAssumption, Resting, Worker, Months
    <2>2. QED BY <1>1, <2>1 DEF Rests, Calms
<1>2. CASE Fails(r) /\ run[r].pc # "idle" /\ ~Rests(r)
    <2> DEFINE x == [run[r] EXCEPT !.pc = "fail"]
    <2>1. run[r] \in Worker
        OBVIOUS
    <2>2. x \in Worker /\ x.pc = "fail" /\ x.month = run[r].month /\ x.no = run[r].no
        BY <2>1 DEF Worker
    <2>3. run' = [run EXCEPT ![r] = x]
        BY <1>2 DEF Fails
    <2> HIDE DEF x
    <2>4. QED BY <1>2, <2>2, <2>3 DEF Calms
<1> QED BY <1>1, <1>2

----------------------------------------------------------------------------
(* The queue moves.                                                        *)

\* A request stays as it is for who works on it, or nobody works on it afterwards; it
\* is never closed.
SameWork(m) == /\ req'[m].no = req[m].no /\ req'[m].status = req[m].status
               /\ req'[m].old = req[m].old
LeftAlone(m) == /\ req'[m].no >= req[m].no
                /\ \A r \in Runs : ~Working(run[r], m)'
                /\ req'[m].status = "processing" => req[m].status = "processing"
                /\ Open(m) => Open(m)'

\* Moves of the queue and runs that give up keep the invariant.
LEMMA QueueMoves ==
    ASSUME PayInv, UNCHANGED <<draft, stub>>,
           req' \in [Months -> Request], run' \in [Runs -> Worker],
           \A r \in Runs : Calms(run[r], run'[r]),
           \A m \in Months : SameWork(m) \/ LeftAlone(m)
    PROVE  PayInv'
<1>1. Types'
    BY DEF PayInv, Types
<1>2. OneMonth'
    BY DEF PayInv, OneMonth, SameWork, LeftAlone
<1>3. OneRun'
    <2> SUFFICES ASSUME NEW r \in Runs, NEW s \in Runs, NEW m \in Months,
                        Working(run[r], m)', Working(run[s], m)'
                 PROVE  r = s
        BY DEF OneRun
    <2>1. req'[m].no = req[m].no
        BY DEF LeftAlone, SameWork
    <2>2. Working(run[r], m) /\ Working(run[s], m)
        BY <2>1 DEF Working, Calms
    <2>3. QED BY <2>2 DEF PayInv, OneRun
<1>4. ASSUME NEW r \in Runs PROVE RunOK(run[r])'
    <2> SUFFICES ASSUME run'[r].pc # "idle" PROVE RunOK(run[r])'
        BY DEF RunOK
    <2>0. PICK m \in Months : m = run'[r].month
        BY DEF Worker
    <2>1. /\ run'[r].month = m /\ run[r].pc # "idle" /\ run[r].month = m /\ run[r].no = run'[r].no
          /\ run[r].no \in Nat /\ req[m].no \in Nat /\ req'[m].no \in Nat
        BY <2>0 DEF Calms, Worker, PayInv, Types, Request
    <2>2. RunOK(run[r])
        BY DEF PayInv
    <2>3. CASE SameWork(m)
        <3>1. run'[r].pc = "complete" => run'[r] = run[r]
            BY DEF Calms
        <3>2. Fresh(run[r])'
            BY <2>1, <2>2, <2>3, <3>1 DEF RunOK, Fresh, SameWork, IssuedBefore
        <3>3. QED BY <2>1, <2>2, <2>3, <3>2 DEF RunOK, SameWork
    <2>4. CASE LeftAlone(m)
        <3>1. run'[r].no # req'[m].no
            BY <2>1, <2>4 DEF LeftAlone, Working
        <3>2. run'[r].no <= req'[m].no
            BY <2>1, <2>2, <2>4 DEF RunOK, LeftAlone
        <3>3. QED BY <2>1, <3>1, <3>2 DEF RunOK, Fresh
    <2>5. QED BY <2>3, <2>4
<1>5. YtdAgrees'
    <2>1. \A m \in Months : Agrees(m)' = Agrees(m)
        BY DEF Agrees, IssuedBefore
    <2>2. \A m \in Months : Open(m) => Open(m)'
        BY DEF SameWork, LeftAlone, Open
    <2>3. QED BY <2>1, <2>2 DEF PayInv, YtdAgrees
<1> QED BY <1>1, <1>2, <1>3, <1>4, <1>5 DEF PayInv

\* Whoever works on a request has it in process, or has just completed it.
LEMMA WorkedStatus ==
    ASSUME PayInv, NEW m \in Months, NEW r \in Runs, Working(run[r], m)
    PROVE  \/ req[m].status = "completed"
           \/ req[m].status = "processing" /\ ~req[m].old
BY DEF PayInv, RunOK, Working

\* A request that nobody works on is left alone when it changes and no run starts.
LEMMA IdleRequest ==
    ASSUME PayInv, NEW m \in Months, NEW q \in Request, req'[m] = q,
           \A r \in Runs : Calms(run[r], run'[r]),
           \A r \in Runs : Working(run[r], m) => run'[r].pc = "idle" \/ q.no # req[m].no,
           q.no >= req[m].no,
           q.status = "processing" => req[m].status = "processing",
           q.status \notin {"none", "completed"}
    PROVE  LeftAlone(m)
<1>1. q.no \in Nat /\ req[m].no \in Nat
    BY DEF Request, PayInv, Types
<1>2. ASSUME NEW r \in Runs, Working(run[r], m)' PROVE FALSE
    <2>1. run'[r].pc # "idle" /\ run'[r].month = m /\ run'[r].no = q.no
        BY <1>2 DEF Working
    <2>2. run[r].pc # "idle" /\ run[r].month = m /\ run[r].no = q.no
        BY <2>1 DEF Calms
    <2>3. run[r].no <= req[m].no
        BY <2>2 DEF PayInv, RunOK
    <2>4. run[r].no = req[m].no
        BY <2>2, <2>3, <1>1
    <2>5. QED BY <2>1, <2>2, <2>4 DEF Working
<1>3. Open(m)'
    BY DEF Open
<1> QED BY <1>2, <1>3 DEF LeftAlone

\* Queueing starts nobody: what it queues or fails has no run on it.
LEMMA EnqueueKeeps ==
    ASSUME PayInv, Enqueue
    PROVE  PayInv'
<1>1. UNCHANGED <<draft, stub, run>>
    BY DEF Enqueue
<1>2. /\ run' \in [Runs -> Worker] /\ req \in [Months -> Request]
      /\ \A r \in Runs : Calms(run[r], run'[r])
    BY <1>1 DEF PayInv, Types, Calms
<1>3. ASSUME NEW m \in Months PROVE req'[m] \in Request /\ (SameWork(m) \/ LeftAlone(m))
    <2>0. req[m] \in Request
        BY <1>2
    <2>1. CASE Interrupted(req[m])
        <3>1. req'[m] = Outcome(req[m], "failed")
            BY <2>1 DEF Enqueue, Interrupted
        <3>2. \A r \in Runs : ~Working(run[r], m)
            BY <2>1, WorkedStatus DEF Interrupted
        <3>3. /\ req'[m] \in Request /\ req'[m].no = req[m].no /\ req'[m].status = "failed"
            BY <2>0, <3>1, OutcomeGives
        <3>4. QED BY <1>2, <2>0, <3>2, <3>3, IdleRequest DEF Request
    <2>2. CASE ~Interrupted(req[m]) /\ req[m].status \in {"blocked", "failed"} /\ req[m].due
        <3>1. req'[m] = [req[m] EXCEPT !.status = "queued"]
            BY <2>2 DEF Enqueue
        <3>2. \A r \in Runs : ~Working(run[r], m)
            BY <2>2, WorkedStatus
        <3>3. req'[m] \in Request /\ req'[m].no = req[m].no /\ req'[m].status = "queued"
            BY <2>0, <3>1 DEF Request
        <3>4. QED BY <1>2, <2>0, <3>2, <3>3, IdleRequest DEF Request
    <2>3. CASE req[m].status = "none" /\ m <= closed
        <3>1. req'[m] = Asked(req[m])
            BY <2>3 DEF Enqueue, Interrupted
        <3>2. \A r \in Runs : ~Working(run[r], m)
            BY <2>3, WorkedStatus
        <3>3. req'[m] \in Request /\ req'[m].no = req[m].no + 1 /\ req'[m].status = "queued"
            BY <2>0, <3>1, AskedGives
        <3>4. QED BY <1>2, <2>0, <3>2, <3>3, IdleRequest DEF Request
    <2>4. CASE /\ ~Interrupted(req[m])
               /\ ~(req[m].status \in {"blocked", "failed"} /\ req[m].due)
               /\ ~(req[m].status = "none" /\ m <= closed)
        <3>1. req'[m] = req[m]
            BY <2>4 DEF Enqueue
        <3>2. QED BY <2>0, <3>1 DEF SameWork
    <2>5. QED BY <2>1, <2>2, <2>3, <2>4
<1>4. req' \in [Months -> Request]
    <2>1. \E f : req' = [m \in Months |-> f[m]]
        <3> DEFINE f == [m \in Months |-> req'[m]]
        <3>1. req' = [m \in Months |-> f[m]]
            BY DEF Enqueue
        <3>2. QED BY <3>1
    <2>2. QED BY <1>3, <2>1
<1> QED BY <1>1, <1>2, <1>3, <1>4, QueueMoves

\* A manager asks again when the request is over; whoever still holds it is late.
LEMMA ManagerAsksKeeps ==
    ASSUME PayInv, NEW n \in Months, ManagerAsks(n)
    PROVE  PayInv'
<1>1. UNCHANGED <<draft, stub, run>> /\ req' = [req EXCEPT ![n] = Asked(req[n])]
    BY DEF ManagerAsks
<1>2. /\ run' \in [Runs -> Worker] /\ req \in [Months -> Request]
      /\ \A r \in Runs : Calms(run[r], run'[r])
    BY <1>1 DEF PayInv, Types, Calms
<1>3. /\ Asked(req[n]) \in Request /\ Asked(req[n]).no = req[n].no + 1
      /\ Asked(req[n]).status = "queued"
    BY <1>2, AskedGives
<1>4. req[n].no \in Nat
    BY <1>2 DEF Request
<1> HIDE DEF Asked
<1>5. req' \in [Months -> Request] /\ req'[n] = Asked(req[n])
    BY <1>1, <1>2, <1>3
<1>6. LeftAlone(n)
    BY <1>2, <1>3, <1>4, <1>5, IdleRequest
<1>7. \A m \in Months : m # n => SameWork(m)
    BY <1>1, <1>2 DEF SameWork
<1> QED BY <1>1, <1>2, <1>5, <1>6, <1>7, QueueMoves

\* A claim only grows old when no run works on its request, and a retry falls due only
\* for a request that is blocked or failed.
LEMMA ClocksKeep ==
    ASSUME PayInv, ~Outlives, NEW n \in Months, ClaimGrowsOld(n) \/ RetryIsDue(n)
    PROVE  PayInv'
<1>1. /\ UNCHANGED <<draft, stub, run>>
      /\ \E x \in Request : /\ req' = [req EXCEPT ![n] = x]
                            /\ x.no = req[n].no /\ x.status = req[n].status
    <2>1. req[n] \in Request
        BY DEF PayInv, Types
    <2>2. CASE ClaimGrowsOld(n)
        <3> DEFINE x == [req[n] EXCEPT !.old = TRUE]
        <3>1. req' = [req EXCEPT ![n] = x]
            BY <2>2 DEF ClaimGrowsOld
        <3>2. x \in Request /\ x.no = req[n].no /\ x.status = req[n].status
            BY <2>1 DEF Request
        <3>3. QED BY <2>2, <3>1, <3>2 DEF ClaimGrowsOld
    <2>3. CASE RetryIsDue(n)
        <3> DEFINE x == [req[n] EXCEPT !.due = TRUE]
        <3>1. req' = [req EXCEPT ![n] = x]
            BY <2>3 DEF RetryIsDue
        <3>2. x \in Request /\ x.no = req[n].no /\ x.status = req[n].status
            BY <2>1 DEF Request
        <3>3. QED BY <2>3, <3>1, <3>2 DEF RetryIsDue
    <2>4. QED BY <2>2, <2>3
<1>2. /\ run' \in [Runs -> Worker] /\ req \in [Months -> Request]
      /\ \A r \in Runs : Calms(run[r], run'[r])
    BY <1>1 DEF PayInv, Types, Calms
<1>3. \A r \in Runs : ~Working(run[r], n)
    <2>1. CASE ClaimGrowsOld(n)
        BY <2>1 DEF ClaimGrowsOld, Worked, Working
    <2>2. CASE RetryIsDue(n)
        BY <2>2, WorkedStatus DEF RetryIsDue
    <2>3. QED BY <2>1, <2>2
<1>4. req[n].status \notin {"none", "completed"}
    BY DEF ClaimGrowsOld, RetryIsDue
<1>5. LeftAlone(n) /\ req' \in [Months -> Request]
    BY <1>1, <1>2, <1>3, <1>4, IdleRequest DEF Request
<1>6. \A m \in Months : m # n => SameWork(m)
    BY <1>1, <1>2 DEF SameWork
<1> QED BY <1>1, <1>2, <1>5, <1>6, QueueMoves

\* Steps that touch neither requests nor runs nor stubs keep the invariant.
LEMMA SourcesKeep ==
    ASSUME PayInv, UNCHANGED <<req, draft, stub, run>>
    PROVE  PayInv'
<1>1. \A m \in Months : SameWork(m)
    BY DEF SameWork
<1>2. /\ req' \in [Months -> Request] /\ run' \in [Runs -> Worker]
      /\ \A r \in Runs : Calms(run[r], run'[r])
    BY DEF PayInv, Types, Calms
<1> QED BY <1>1, <1>2, QueueMoves

----------------------------------------------------------------------------
(* The runs move.                                                          *)

\* A run that gives up without a word keeps the invariant.
LEMMA SilenceKeeps ==
    ASSUME PayInv, NEW r \in Runs, Rests(r) \/ (Fails(r) /\ run[r].pc # "idle"),
           UNCHANGED <<req, draft, stub>>
    PROVE  PayInv'
<1>1. /\ run' \in [Runs -> Worker] /\ Calms(run[r], run'[r])
      /\ \A s \in Runs : s # r => run'[s] = run[s]
    BY GivesUp, PayStubAssumption DEF PayInv, Types
<1>2. \A s \in Runs : Calms(run[s], run'[s])
    BY <1>1 DEF Calms
<1>3. (\A m \in Months : SameWork(m)) /\ req' \in [Months -> Request]
    BY DEF SameWork, PayInv, Types
<1> QED BY <1>1, <1>2, <1>3, QueueMoves

\* A run that fails or blocks its own request and rests leaves nobody working on it.
LEMMA GivingBackKeeps ==
    ASSUME PayInv, NEW r \in Runs, run[r].pc # "idle", Mine(r), Rests(r),
           NEW status \in {"blocked", "failed"},
           req' = [req EXCEPT ![run[r].month] = Outcome(@, status)],
           UNCHANGED <<draft, stub>>
    PROVE  PayInv'
<1>1. PICK n \in Months : n = run[r].month
    BY DEF PayInv, Types, Worker
<1>2. /\ run' \in [Runs -> Worker] /\ run'[r].pc = "idle"
      /\ \A s \in Runs : Calms(run[s], run'[s])
    <2>1. /\ run' \in [Runs -> Worker] /\ Calms(run[r], run'[r]) /\ run'[r].pc = "idle"
          /\ \A s \in Runs : s # r => run'[s] = run[s]
        BY GivesUp, PayStubAssumption DEF PayInv, Types
    <2>2. QED BY <2>1 DEF Calms
<1>3. req \in [Months -> Request] /\ req[n] \in Request
    BY DEF PayInv, Types
<1>4. /\ Outcome(req[n], status) \in Request /\ Outcome(req[n], status).no = req[n].no
      /\ Outcome(req[n], status).status = status
    BY <1>3, OutcomeGives
<1> HIDE DEF Outcome
<1>5. /\ req' \in [Months -> Request] /\ req'[n] = Outcome(req[n], status)
      /\ \A m \in Months : m # n => req'[m] = req[m]
    BY <1>1, <1>3, <1>4
<1>6. \A s \in Runs : Working(run[s], n) => s = r
    <2>1. Working(run[r], n)
        BY <1>1 DEF Working, Mine
    <2>2. QED BY <2>1 DEF PayInv, OneRun
<1>7. LeftAlone(n)
    BY <1>2, <1>3, <1>4, <1>5, <1>6, IdleRequest DEF Request
<1>8. \A m \in Months : m # n => SameWork(m)
    BY <1>5 DEF SameWork
<1> QED BY <1>2, <1>5, <1>7, <1>8, QueueMoves

\* Failing calls, deaths and reports of failure keep the invariant.
LEMMA FailuresKeep ==
    ASSUME PayInv, NEW r \in Runs, Fail(r) \/ CallFails(r) \/ RunDies(r)
    PROVE  PayInv'
<1>1. CASE Fail(r) /\ Mine(r)
    <2>1. /\ run[r].pc # "idle" /\ Rests(r) /\ UNCHANGED <<draft, stub>>
          /\ req' = [req EXCEPT ![run[r].month] = Outcome(@, "failed")]
        BY <1>1 DEF Fail
    <2>2. QED BY <1>1, <2>1, GivingBackKeeps
<1>2. CASE Fail(r) /\ ~Mine(r)
    <2>1. Rests(r) /\ UNCHANGED <<req, draft, stub>>
        BY <1>2 DEF Fail
    <2>2. QED BY <2>1, SilenceKeeps
<1>3. CASE CallFails(r)
    <2>1. /\ Rests(r) \/ (Fails(r) /\ run[r].pc # "idle")
          /\ UNCHANGED <<req, draft, stub>>
        BY <1>3 DEF CallFails
    <2>2. QED BY <2>1, SilenceKeeps
<1>4. CASE RunDies(r)
    <2>1. Rests(r) /\ UNCHANGED <<req, draft, stub>>
        BY <1>4 DEF RunDies
    <2>2. QED BY <2>1, SilenceKeeps
<1> QED BY <1>1, <1>2, <1>3, <1>4

\* A claim takes a request nobody works on while no month of the year is in process.
LEMMA ClaimKeeps ==
    ASSUME PayInv, NEW r \in Runs, NEW n \in Months, NEW heard \in BOOLEAN,
           YearIsFree(n), Claims(r, n, heard)
    PROVE  PayInv'
<1> DEFINE a == [req[n] EXCEPT !.status = "processing"]
           q == [a EXCEPT !.old = FALSE]
           x == [pc |-> "prepare", month |-> n, no |-> req[n].no, statement |-> 0]
<1>1. /\ run[r].pc = "idle" /\ req[n].status = "queued" /\ UNCHANGED <<draft, stub>>
      /\ req' = [req EXCEPT ![n] = q]
      /\ run' = run \/ run' = [run EXCEPT ![r] = x]
    BY DEF Claims
<1>2. req[n] \in Request /\ req \in [Months -> Request] /\ run \in [Runs -> Worker]
    BY DEF PayInv, Types
<1>3. a \in Request /\ a.status = "processing" /\ a.no = req[n].no
    BY <1>2 DEF Request
<1>4. x \in Worker /\ x.pc = "prepare" /\ x.month = n /\ x.no = req[n].no
    BY <1>2 DEF Worker, Request
<1> HIDE DEF a, x
<1>5. q \in Request /\ q.status = "processing" /\ q.no = req[n].no /\ ~q.old
    BY <1>3 DEF Request
<1> HIDE DEF q
<1>6. /\ req' \in [Months -> Request] /\ req'[n] = q
      /\ \A m \in Months : m # n => req'[m] = req[m]
    BY <1>1, <1>2, <1>5
<1>7. /\ run' \in [Runs -> Worker]
      /\ \A s \in Runs : s # r => run'[s] = run[s]
      /\ run'[r] = run[r] \/ run'[r] = x
    BY <1>1, <1>2, <1>4
<1>8. Types'
    BY <1>1, <1>6, <1>7 DEF PayInv, Types
<1>9. OneMonth'
    BY <1>6 DEF YearIsFree, OneMonth
<1>10. \A s \in Runs : ~Working(run[s], n)
    BY <1>1, WorkedStatus
<1>11. OneRun'
    <2> SUFFICES ASSUME NEW s \in Runs, NEW t \in Runs, NEW m \in Months,
                        Working(run[s], m)', Working(run[t], m)'
                 PROVE  s = t
        BY DEF OneRun
    <2>1. req'[m].no = req[m].no
        BY <1>5, <1>6
    <2>2. \A u \in Runs : Working(run[u], m)' => Working(run[u], m) \/ (u = r /\ m = n)
        BY <1>4, <1>7, <2>1 DEF Working
    <2>3. CASE m = n
        BY <1>10, <2>2, <2>3
    <2>4. CASE m # n
        BY <2>2, <2>4 DEF PayInv, OneRun
    <2>5. QED BY <2>3, <2>4
<1>12. ASSUME NEW s \in Runs PROVE RunOK(run[s])'
    <2>1. CASE run'[s] = x
        <3>1. Fresh(run[s])'
            BY <1>4, <2>1 DEF Fresh
        <3>2. req[n].no <= req[n].no
            BY <1>2 DEF Request
        <3>3. QED BY <1>4, <1>5, <1>6, <2>1, <3>1, <3>2 DEF RunOK
    <2>2. CASE run'[s] = run[s] /\ run[s].pc # "idle"
        <3>1. PICK m \in Months : m = run[s].month
            BY DEF PayInv, Types, Worker
        <3>2. RunOK(run[s])
            BY DEF PayInv
        <3>3. m = n => run[s].no # req[n].no
            BY <1>10, <2>2, <3>1 DEF Working
        <3>4. req'[m].no = req[m].no
            BY <1>5, <1>6
        <3>5. m # n => req'[m] = req[m]
            BY <1>6
        <3>6. Fresh(run[s])'
            BY <1>1, <2>2, <3>1, <3>2, <3>3, <3>4, <3>5 DEF RunOK, Fresh, IssuedBefore
        <3>7. QED BY <2>2, <3>1, <3>2, <3>3, <3>4, <3>5, <3>6 DEF RunOK
    <2>3. CASE run'[s] = run[s] /\ run[s].pc = "idle"
        BY <2>3 DEF RunOK
    <2>4. QED BY <1>7, <2>1, <2>2, <2>3
<1>13. YtdAgrees'
    <2>1. \A m \in Months : Agrees(m)' = Agrees(m)
        BY <1>1 DEF Agrees, IssuedBefore
    <2>2. \A m \in Months : Open(m) => Open(m)'
        BY <1>5, <1>6 DEF Open
    <2>3. QED BY <1>1, <2>1, <2>2 DEF PayInv, YtdAgrees
<1> QED BY <1>8, <1>9, <1>11, <1>12, <1>13 DEF PayInv

\* A draft takes the stubs as they are; the month is in nobody else's hands.
LEMMA DraftKeeps ==
    ASSUME PayInv, NEW r \in Runs, NEW n \in Months, n = run[r].month,
           run[r].pc = "prepare", Mine(r), UNCHANGED stub, NEW id, id = draft[n].id + 1,
           NEW revision,
           draft' = [draft EXCEPT ![n] = [id |-> id, current |-> earned[n],
                                          ytd |-> IssuedBefore(n) + earned[n],
                                          revision |-> revision]],
           req' = [req EXCEPT ![n].statement = id],
           \/ run' = [run EXCEPT ![r].pc = "complete", ![r].statement = id]
           \/ Fails(r)
    PROVE  PayInv'
<1> DEFINE q == [req[n] EXCEPT !.statement = id]
           a == [run[r] EXCEPT !.pc = "complete"]
           b == [a EXCEPT !.statement = id]
           c == [run[r] EXCEPT !.pc = "fail"]
<1>1. /\ req[n] \in Request /\ req \in [Months -> Request] /\ run \in [Runs -> Worker]
      /\ run[r] \in Worker /\ id \in Nat
    BY DEF PayInv, Types
<1>2. q \in Request /\ q.no = req[n].no /\ q.status = req[n].status /\ q.old = req[n].old
    BY <1>1 DEF Request
<1>3. c \in Worker /\ c.pc = "fail" /\ c.month = n /\ c.no = run[r].no
    BY <1>1 DEF Worker
<1>4. a \in Worker /\ a.pc = "complete" /\ a.month = n /\ a.no = run[r].no
    BY <1>1 DEF Worker
<1>5. /\ req' = [req EXCEPT ![n] = q]
      /\ run' = [run EXCEPT ![r] = b] \/ run' = [run EXCEPT ![r] = c]
    BY DEF Fails
<1> HIDE DEF a, c, q
<1>6. b \in Worker /\ b.pc = "complete" /\ b.month = n /\ b.no = run[r].no
    BY <1>1, <1>4 DEF Worker
<1> HIDE DEF b
<1>7. /\ req' \in [Months -> Request]
      /\ \A m \in Months : /\ req'[m].no = req[m].no /\ req'[m].status = req[m].status
                           /\ req'[m].old = req[m].old
    BY <1>1, <1>2, <1>5
<1>8. /\ run' \in [Runs -> Worker]
      /\ \A s \in Runs : s # r => run'[s] = run[s]
      /\ run'[r].pc \in {"complete", "fail"} /\ run'[r].month = n /\ run'[r].no = run[r].no
    BY <1>1, <1>3, <1>5, <1>6
<1>9. /\ draft'[n].id = id /\ draft'[n].current = earned[n]
      /\ draft'[n].ytd = IssuedBefore(n) + earned[n]
      /\ \A m \in Months : m # n => draft'[m] = draft[m]
      /\ draft' = [m \in Months |-> draft'[m]]
    BY DEF PayInv, Types
<1>10. Types'
    <2>1. \A m \in Months : draft'[m].id \in Nat
        BY <1>1, <1>9 DEF PayInv, Types
    <2>2. stub' = [m \in Months |-> stub'[m]]
        BY DEF PayInv, Types
    <2>3. QED BY <1>7, <1>8, <1>9, <2>1, <2>2 DEF Types
<1>11. OneMonth'
    BY <1>7 DEF PayInv, OneMonth
<1>12. \A s \in Runs, m \in Months : Working(run[s], m)' => Working(run[s], m)
    BY <1>7, <1>8 DEF Working
<1>13. OneRun'
    BY <1>12 DEF PayInv, OneRun
<1>14. ASSUME NEW s \in Runs PROVE RunOK(run[s])'
    <2> SUFFICES ASSUME run'[s].pc # "idle" PROVE RunOK(run[s])'
        BY DEF RunOK
    <2>1. PICK m \in Months : m = run'[s].month
        BY <1>8 DEF Worker
    <2>2. run[s].pc # "idle" /\ run[s].month = m /\ run[s].no = run'[s].no
        BY <1>8, <2>1
    <2>3. RunOK(run[s])
        BY DEF PayInv
    <2>4. CASE s = r
        <3>1. m = n
            BY <1>8, <2>1, <2>4
        <3>2. draft'[m].ytd = IssuedBefore(m) + draft'[m].current
            BY <1>9, <3>1
        <3>3. Fresh(run[s])'
            BY <2>1, <3>2 DEF Fresh, IssuedBefore
        <3>4. QED BY <1>7, <2>1, <2>2, <2>3, <3>3 DEF RunOK
    <2>5. CASE s # r
        <3>1. run'[s] = run[s]
            BY <1>8, <2>5
        <3>2. m = n => run[s].no # req[m].no
            <4>1. Working(run[r], n)
                BY DEF Working, Mine
            <4>2. QED BY <2>2, <2>5, <4>1 DEF Working, PayInv, OneRun
        <3>3. m # n => draft'[m] = draft[m]
            BY <1>9
        <3>4. Fresh(run[s])'
            BY <1>7, <2>1, <2>2, <2>3, <3>1, <3>2, <3>3 DEF RunOK, Fresh, IssuedBefore
        <3>5. QED BY <1>7, <2>1, <2>2, <2>3, <3>1, <3>4 DEF RunOK
    <2>6. QED BY <2>4, <2>5
<1>15. YtdAgrees'
    <2>1. \A m \in Months : Agrees(m)' = Agrees(m)
        BY DEF Agrees, IssuedBefore
    <2>2. \A m \in Months : Open(m) => Open(m)'
        BY <1>7 DEF Open
    <2>3. QED BY <2>1, <2>2 DEF PayInv, YtdAgrees
<1> QED BY <1>10, <1>11, <1>13, <1>14, <1>15 DEF PayInv

\* Preparing keeps the invariant, whether or not its answer is heard.
LEMMA PrepareKeeps ==
    ASSUME PayInv, NEW r \in Runs, NEW heard \in BOOLEAN, Prepare(r, heard)
    PROVE  PayInv'
<1>1. PICK n \in Months : n = run[r].month
    BY DEF PayInv, Types, Worker
<1>2. run[r].pc = "prepare" /\ UNCHANGED stub
    BY DEF Prepare
<1>3. CASE Fails(r) /\ UNCHANGED <<req, draft>>
    BY <1>2, <1>3, SilenceKeeps
<1>4. CASE /\ Mine(r) /\ Rests(r) /\ UNCHANGED draft
           /\ req' = [req EXCEPT ![n] = Outcome(@, "blocked")]
    BY <1>1, <1>2, <1>4, GivingBackKeeps
<1>5. CASE /\ Mine(r)
           /\ draft' = [draft EXCEPT ![n] = [id |-> draft[n].id + 1, current |-> earned[n],
                                             ytd |-> IssuedBefore(n) + earned[n],
                                             revision |-> Revision(n)]]
           /\ req' = [req EXCEPT ![n].statement = draft[n].id + 1]
           /\ \/ run' = [run EXCEPT ![r].pc = "complete", ![r].statement = draft[n].id + 1]
              \/ Fails(r)
    <2> DEFINE id == draft[n].id + 1
    <2> HIDE DEF id
    <2>1. id = draft[n].id + 1
        BY DEF id
    <2>2. QED BY <1>1, <1>2, <1>5, <2>1, DraftKeeps
<1> QED BY <1>1, <1>3, <1>4, <1>5 DEF Prepare

\* The requests after the stub of month n was issued: n is completed, and those of
\* "again" are asked for again.
Reordered(n, again) ==
    /\ req' \in [Months -> Request] /\ n \notin again
    /\ req'[n].no = req[n].no /\ req'[n].status = "completed"
    /\ \A k \in again : /\ k \in Months
                        /\ req'[k].no = req[k].no + 1 /\ req'[k].status = "queued"
    /\ \A k \in Months : k # n /\ k \notin again => req'[k] = req[k]

\* Completing a month leads there.
LEMMA CompletionReorders ==
    ASSUME req \in [Months -> Request], NEW n \in Months,
           NEW again, again = {k \in OutdatedBy(n) : ~Active(k)},
           req' = [k \in Months |-> CASE k = n -> Outcome(req[k], "completed")
                                      [] k \in again -> Asked(req[k])
                                      [] OTHER -> req[k]]
    PROVE  Reordered(n, again)
<1>1. \A m \in Months : req[m] \in Request /\ req[m].no \in Nat
    BY DEF Request
<1>2. n \notin again
    BY DEF OutdatedBy, Months
<1>3. /\ req'[n] \in Request /\ req'[n].no = req[n].no /\ req'[n].status = "completed"
    <2>1. req'[n] = Outcome(req[n], "completed")
        BY <1>2
    <2>2. QED BY <1>1, <2>1, OutcomeGives
<1>4. ASSUME NEW k \in again
      PROVE  /\ k \in Months /\ k # n
             /\ req'[k] \in Request /\ req'[k].no = req[k].no + 1 /\ req'[k].status = "queued"
    <2>1. k \in Months /\ k # n
        BY <1>2 DEF OutdatedBy
    <2>2. req'[k] = Asked(req[k])
        BY <1>4, <2>1
    <2>3. QED BY <1>1, <2>1, <2>2, AskedGives
<1>5. \A k \in Months : k # n /\ k \notin again => req'[k] = req[k]
    OBVIOUS
<1>6. req' \in [Months -> Request]
    <2> DEFINE f == [k \in Months |-> CASE k = n -> Outcome(req[k], "completed")
                                        [] k \in again -> Asked(req[k])
                                        [] OTHER -> req[k]]
    <2>1. req' = [k \in Months |-> f[k]] /\ req' = f
        OBVIOUS
    <2> HIDE DEF f
    <2>2. \A k \in Months : req'[k] \in Request
        BY <1>1, <1>3, <1>4, <1>5
    <2>3. QED BY <2>1, <2>2
<1> QED BY <1>2, <1>3, <1>4, <1>5, <1>6 DEF Reordered

\* A published draft is true, and every later stub it makes untrue is on its way again.
LEMMA PublishKeeps ==
    ASSUME PayInv, NEW r \in Runs, NEW n \in Months, n = run[r].month,
           run[r].pc = "complete", Mine(r), UNCHANGED draft,
           stub' = [stub EXCEPT ![n] = [issued |-> TRUE, current |-> draft[n].current,
                                        ytd |-> draft[n].ytd]],
           NEW again, again = {k \in OutdatedBy(n) : ~Active(k)}, Reordered(n, again),
           Rests(r) \/ Fails(r)
    PROVE  PayInv'
<1>1. /\ req \in [Months -> Request] /\ run \in [Runs -> Worker]
      /\ \A m \in Months : req[m] \in Request /\ req[m].no \in Nat
    BY DEF PayInv, Types, Request
<1>2. n \notin again
    BY DEF Reordered
<1>3. req'[n].no = req[n].no /\ req'[n].status = "completed"
    BY DEF Reordered
<1>4. \A k \in again : /\ k \in Months /\ req'[k].no = req[k].no + 1
                       /\ req'[k].status = "queued"
    BY DEF Reordered
<1>5. \A k \in Months : k # n /\ k \notin again => req'[k] = req[k]
    BY DEF Reordered
<1>6. req' \in [Months -> Request]
    BY DEF Reordered
<1>7. /\ run' \in [Runs -> Worker] /\ Calms(run[r], run'[r]) /\ run'[r].pc # "complete"
      /\ \A s \in Runs : s # r => run'[s] = run[s]
    <2>1. /\ run' \in [Runs -> Worker] /\ Calms(run[r], run'[r])
          /\ \A s \in Runs : s # r => run'[s] = run[s]
        BY GivesUp, PayStubAssumption DEF PayInv, Types
    <2>2. run'[r].pc # "complete"
        <3>1. CASE Rests(r)
            BY <3>1, GivesUp, PayStubAssumption DEF PayInv, Types
        <3>2. CASE Fails(r)
            <4>1. run[r] \in Worker
                BY <1>1
            <4>2. run'[r] = [run[r] EXCEPT !.pc = "fail"]
                BY <1>1, <3>2 DEF Fails
            <4>3. QED BY <4>1, <4>2 DEF Worker
        <3>3. QED BY <3>1, <3>2
    <2>3. QED BY <2>1, <2>2
<1>8. /\ stub'[n].issued /\ stub'[n].current = draft[n].current /\ stub'[n].ytd = draft[n].ytd
      /\ \A m \in Months : m # n => stub'[m] = stub[m]
      /\ stub' = [m \in Months |-> stub'[m]]
    BY DEF PayInv, Types
<1>9. Types'
    BY <1>6, <1>7, <1>8 DEF PayInv, Types
<1>10. req[n].status = "processing" /\ \A m \in Months : m # n => req[m].status # "processing"
    BY DEF Mine, PayInv, OneMonth
<1>11. \A m \in Months : req'[m].status # "processing"
    BY <1>3, <1>4, <1>5, <1>10
<1>12. OneMonth'
    BY <1>11 DEF OneMonth
<1>13. \A s \in Runs, m \in Months : Working(run[s], m)' => Working(run[s], m)
    <2> SUFFICES ASSUME NEW s \in Runs, NEW m \in Months, Working(run[s], m)'
                 PROVE  Working(run[s], m)
        OBVIOUS
    <2>1. /\ run[s].pc # "idle" /\ run[s].month = m /\ run[s].no = req'[m].no
        BY <1>7 DEF Working, Calms
    <2>2. run[s].no <= req[m].no /\ run[s].no \in Nat
        BY <1>1, <2>1 DEF PayInv, RunOK, Worker
    <2>3. req'[m].no = req[m].no
        BY <1>1, <1>3, <1>4, <1>5, <2>1, <2>2
    <2>4. QED BY <2>1, <2>3 DEF Working
<1>14. OneRun'
    BY <1>13 DEF PayInv, OneRun
<1>15. ASSUME NEW s \in Runs PROVE RunOK(run[s])'
    <2> SUFFICES ASSUME run'[s].pc # "idle" PROVE RunOK(run[s])'
        BY DEF RunOK
    <2>1. PICK m \in Months : m = run'[s].month
        BY <1>7 DEF Worker
    <2>2. run[s].pc # "idle" /\ run[s].month = m /\ run[s].no = run'[s].no /\ run[s].no \in Nat
        BY <1>1, <1>7, <2>1 DEF Calms, Worker
    <2>3. RunOK(run[s])
        BY DEF PayInv
    <2>4. run'[s].no <= req'[m].no
        BY <1>1, <1>3, <1>4, <1>5, <2>2, <2>3 DEF RunOK
    <2>5. run'[s].no = req'[m].no => req'[m].status = "completed"
        <3>1. SUFFICES ASSUME run'[s].no = req'[m].no PROVE req'[m].status = "completed"
            OBVIOUS
        <3>2. Working(run[s], m)
            BY <1>13, <2>1, <3>1 DEF Working
        <3>3. m \notin again
            BY <1>1, <1>4, <2>2, <3>1, <3>2 DEF Working
        <3>4. m # n => req[m].status = "completed"
            BY <1>10, <3>2, WorkedStatus
        <3>5. QED BY <1>3, <1>5, <3>3, <3>4
    <2>6. Fresh(run[s])'
        BY <1>11, <2>1 DEF Fresh
    <2>7. QED BY <2>1, <2>4, <2>5, <2>6 DEF RunOK
<1>16. YtdAgrees'
    <2> SUFFICES ASSUME NEW m \in Months, stub'[m].issued, ~Agrees(m)' PROVE Open(m)'
        BY DEF YtdAgrees
    <2>1. m # n
        <3>1. RunOK(run[r]) /\ run[r].no = req[n].no
            BY DEF PayInv, Mine
        <3>2. draft[n].ytd = IssuedBefore(n) + draft[n].current
            BY <1>10, <3>1 DEF RunOK, Fresh
        <3>3. IssuedBefore(n)' = IssuedBefore(n)
            <4>1. \A k \in 1..(n - 1) : k \in Months /\ k # n
                BY PayStubAssumption DEF Months, PayStubAssumption
            <4>2. [k \in 1..(n - 1) |-> stub'[k].current] = [k \in 1..(n - 1) |-> stub[k].current]
                BY <1>8, <4>1
            <4>3. QED BY <4>2 DEF IssuedBefore
        <3>4. Agrees(n)'
            BY <1>8, <3>2, <3>3 DEF Agrees
        <3>5. QED BY <3>4
    <2>2. CASE m < n
        <3>1. IssuedBefore(m)' = IssuedBefore(m)
            <4>1. \A k \in 1..(m - 1) : k \in Months /\ k # n
                BY <2>2, PayStubAssumption DEF Months, PayStubAssumption
            <4>2. [k \in 1..(m - 1) |-> stub'[k].current] = [k \in 1..(m - 1) |-> stub[k].current]
                BY <1>8, <4>1
            <4>3. QED BY <4>2 DEF IssuedBefore
        <3>2. Open(m)
            BY <1>8, <2>1, <3>1 DEF Agrees, PayInv, YtdAgrees
        <3>3. m \notin again
            BY <2>2 DEF OutdatedBy, Months
        <3>4. QED BY <1>5, <2>1, <3>2, <3>3 DEF Open
    <2>3. CASE m > n
        <3>1. m \in OutdatedBy(n)
            BY <1>8, <2>1, <2>3 DEF OutdatedBy
        <3>2. CASE m \in again
            BY <1>4, <3>2 DEF Open
        <3>3. CASE m \notin again
            <4>1. Active(m)
                BY <3>1, <3>3
            <4>2. QED BY <1>5, <2>1, <3>3, <4>1 DEF Active, Open
        <3>4. QED BY <3>2, <3>3
    <2>4. m < n \/ m = n \/ m > n
        BY DEF Months
    <2>5. QED BY <2>1, <2>2, <2>3, <2>4
<1> QED BY <1>9, <1>12, <1>14, <1>15, <1>16 DEF PayInv

\* Publishing keeps the invariant, whether or not its answer is heard.
LEMMA CompleteKeeps ==
    ASSUME PayInv, NEW r \in Runs, NEW heard \in BOOLEAN, Complete(r, heard)
    PROVE  PayInv'
<1>1. PICK n \in Months : n = run[r].month
    BY DEF PayInv, Types, Worker
<1>2. run[r].pc = "complete" /\ UNCHANGED draft
    BY DEF Complete
<1>3. CASE Fails(r) /\ UNCHANGED <<req, stub>>
    BY <1>2, <1>3, SilenceKeeps
<1>4. CASE /\ Publishable(r) /\ Rests(r) /\ UNCHANGED stub
           /\ req' = [req EXCEPT ![n] = Outcome(@, "blocked")]
    <2>1. Mine(r)
        BY <1>4 DEF Publishable
    <2>2. QED BY <1>1, <1>2, <1>4, <2>1, GivingBackKeeps
<1>5. PICK again : again = {k \in OutdatedBy(n) : ~Active(k)}
    OBVIOUS
<1>6. CASE /\ Publishable(r)
           /\ stub' = [stub EXCEPT ![n] = [issued |-> TRUE, current |-> draft[n].current,
                                           ytd |-> draft[n].ytd]]
           /\ req' = [k \in Months |-> CASE k = n -> Outcome(req[k], "completed")
                                         [] k \in again -> Asked(req[k])
                                         [] OTHER -> req[k]]
           /\ Rests(r) \/ Fails(r)
    <2>1. Mine(r)
        BY <1>6 DEF Publishable
    <2>2. Reordered(n, again)
        BY <1>5, <1>6, CompletionReorders DEF PayInv, Types
    <2>3. /\ stub' = [stub EXCEPT ![n] = [issued |-> TRUE, current |-> draft[n].current,
                                          ytd |-> draft[n].ytd]]
          /\ Rests(r) \/ Fails(r)
        BY <1>6
    <2>4. QED BY <1>1, <1>2, <1>5, <2>1, <2>2, <2>3, PublishKeeps
<1>7. \/ Fails(r) /\ UNCHANGED <<req, stub>>
      \/ /\ Publishable(r) /\ Rests(r) /\ UNCHANGED stub
         /\ req' = [req EXCEPT ![n] = Outcome(@, "blocked")]
      \/ /\ Publishable(r)
         /\ stub' = [stub EXCEPT ![n] = [issued |-> TRUE, current |-> draft[n].current,
                                         ytd |-> draft[n].ytd]]
         /\ req' = [k \in Months |-> CASE k = n -> Outcome(req[k], "completed")
                                       [] k \in again -> Asked(req[k])
                                       [] OTHER -> req[k]]
         /\ Rests(r) \/ Fails(r)
    BY <1>1, <1>5 DEF Complete
<1> QED BY <1>3, <1>4, <1>6, <1>7

----------------------------------------------------------------------------
(* The theorem.                                                            *)

\* A year begins without requests and stubs.
LEMMA PayStarts == PayInit => PayInv
<1> SUFFICES ASSUME PayInit PROVE PayInv
    OBVIOUS
<1>1. NoRequest \in Request /\ NoRequest.status = "none"
    BY DEF NoRequest, Request
<1>2. Resting \in Worker /\ Resting.pc = "idle"
    BY PayStubAssumption DEF PayStubAssumption, Resting, Worker, Months
<1>3. NoDraft.id \in Nat /\ ~NotIssued.issued
    BY DEF NoDraft, NotIssued
<1>4. Types
    BY <1>1, <1>2, <1>3 DEF PayInit, Types
<1>5. (\A r \in Runs : run[r].pc = "idle") /\ (\A m \in Months : req[m].status = "none")
    BY <1>1, <1>2 DEF PayInit
<1>6. OneMonth /\ OneRun /\ \A r \in Runs : RunOK(run[r])
    BY <1>5 DEF OneMonth, OneRun, Working, RunOK
<1>7. YtdAgrees
    BY <1>3 DEF PayInit, YtdAgrees
<1> QED BY <1>4, <1>6, <1>7 DEF PayInv

\* Every step keeps the invariant while no run outlives its claim.
LEMMA PayStep == ~Outlives => (PayInv /\ [PayNext]_payVars => PayInv')
<1> SUFFICES ASSUME ~Outlives, PayInv, [PayNext]_payVars PROVE PayInv'
    OBVIOUS
<1>1. ASSUME NEW r \in Runs, NEW heard \in BOOLEAN, NEW m \in Months, ClaimThis(r, m, heard)
      PROVE  PayInv'
    BY <1>1, ClaimKeeps DEF ClaimThis
<1>2. ASSUME NEW r \in Runs, NEW heard \in BOOLEAN, ClaimNext(r, heard) PROVE PayInv'
    BY <1>2, ClaimKeeps DEF ClaimNext
<1>3. ASSUME NEW m \in Months,
             \/ SalesGoMissing(m) \/ SalesArrive(m)
             \/ \E isTime \in BOOLEAN : SourcesChange(m, isTime)
      PROVE  PayInv'
    BY <1>3, SourcesKeep DEF SalesGoMissing, SalesArrive, SourcesChange
<1>4. CASE MonthCloses \/ UNCHANGED payVars
    BY <1>4, SourcesKeep DEF MonthCloses, payVars
<1> QED BY <1>1, <1>2, <1>3, <1>4, EnqueueKeeps, PrepareKeeps, CompleteKeeps, FailuresKeep,
           ManagerAsksKeeps, ClocksKeep, Zenon
        DEF PayNext

\* For any number of months and runs, the year to date of every issued stub is its own
\* amount and those of the issued stubs before it, or the stub is on its way to be
\* issued again, as long as a run ends before its claim counts as interrupted.
THEOREM YearsAgree == ~Outlives => (PaySpec => []YtdAgrees)
<1> SUFFICES ASSUME ~Outlives PROVE PaySpec => []YtdAgrees
    OBVIOUS
<1>1. PayInv /\ [PayNext]_payVars => PayInv'
    BY PayStep
<1>2. PayInv => YtdAgrees
    BY DEF PayInv
<1> QED BY PayStarts, <1>1, <1>2, PTL DEF PaySpec
=============================================================================
