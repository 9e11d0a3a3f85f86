------------------------ MODULE MachineEmailAlerts -------------------------
(***************************************************************************)
(* E-mail alerts of one person: the jobs of the dispatcher, one per slot   *)
(* (a day's digest, a request, a signal), the dispatch runs that claim,    *)
(* start, send and complete them, and the earlier sender of the managers'  *)
(* daily digest, whose batch of the day both senders share.                *)
(*                                                                         *)
(* Jobs, locks and settings are per person, so people do not interact.  A  *)
(* transaction that waits inside is two actions, with the locks it holds   *)
(* in between; every other transaction is one action.  A projection is the *)
(* state of the world it was made from, and so is its fingerprint.         *)
(***************************************************************************)
EXTENDS Naturals, FiniteSets

CONSTANTS
    Runs,           \* invocations of the dispatcher that may overlap
    Slots,          \* slots that come due
    DailySlot,      \* the slot of the day's digest
    Facts,          \* what a projection shows of the machines
    MaxChanges,     \* bound: changes of preferences, of access, or of facts
    MaxMishaps      \* bound: crashes and lost answers


VARIABLES
    settings,   \* email_alert_delivery_settings
    world,      \* preferences, access and facts
    due,        \* slots whose window is open
    jobs,       \* email_alert_jobs
    batch,      \* refund_manager_digest_batches, the row of this person and day
    runs,       \* dispatch runs
    userLock,   \* who holds the advisory lock of the person
    old,        \* the run of the earlier digest sender
    mails,      \* mails the provider accepted
    shown,      \* the world when a slot, or the earlier digest, was started
    changes, mishaps

alertVars == <<settings, world, due, jobs, batch, runs, userLock, old, mails, shown,
               changes, mishaps>>

Nobody == "nobody"
Earlier == "earlier"

\* The day's digest is a slot; nobody is not a run, and the earlier sender not a slot.
AlertAssumption ==
    /\ DailySlot \in Slots /\ Earlier \notin Slots /\ Nobody \notin Runs
    /\ Facts # {} /\ MaxChanges \in Nat /\ MaxMishaps \in Nat
ASSUME AlertAssumption

World == [wanted : BOOLEAN, manager : BOOLEAN, facts : Facts]
Nothing == [wanted |-> FALSE, manager |-> FALSE, facts |-> CHOOSE f \in Facts : TRUE]
MaxAttempts == 3
JobState == {"none", "reserved", "known_not_sent", "delivery_unknown", "sent"}
Job == [state : JobState, attempts : 0..MaxAttempts, shows : World, batch : BOOLEAN,
        fresh : BOOLEAN]
NoJob == [state |-> "none", attempts |-> 0, shows |-> Nothing, batch |-> FALSE,
          fresh |-> FALSE]
\* "by" is whose claim token the batch has.
Batch == [state : JobState, tries : 0..MaxAttempts, by : {Nobody, Earlier, "personal"}]
NoRun == [pc |-> "idle", slot |-> DailySlot, token |-> 0, shows |-> Nothing,
          left |-> {}, rows |-> {}, outcome |-> "known_not_sent"]
NoOld == [pc |-> "idle", token |-> 0, shows |-> Nothing, outcome |-> "known_not_sent"]

AlertInit ==
    /\ settings = [enabled |-> FALSE, activated |-> FALSE]
    /\ \E m \in BOOLEAN : world = [Nothing EXCEPT !.wanted = TRUE, !.manager = m]
    /\ due = {}
    /\ jobs = [s \in Slots |-> NoJob]
    /\ batch = [state |-> "none", tries |-> 0, by |-> Nobody]
    /\ runs = [r \in Runs |-> NoRun]
    /\ userLock = Nobody
    /\ old = NoOld
    /\ mails = {}
    /\ shown = [x \in Slots \cup {Earlier} |-> Nothing]
    /\ changes = 0 /\ mishaps = 0

Was(s) == jobs[s].state
Started(s) == Was(s) \in {"sent", "delivery_unknown"}
To(r, pc) == runs' = [runs EXCEPT ![r].pc = pc]
Rows(s) == {r \in Runs : s \in runs[r].rows}
Due == {s \in due : world.wanted}

----------------------------------------------------------------------------
(* Dispatch runs: service_claim_next_email_alert.                          *)

\* private.dispatch_machine_email_alerts starts a run while delivery is enabled.
Tick(r) ==
    /\ runs[r].pc = "idle" /\ settings.enabled
    /\ To(r, "claiming_next")
    /\ UNCHANGED <<settings, world, due, jobs, batch, userLock, old, mails, shown, changes,
                   mishaps>>

\* The claim begins: it skips a person another transaction has locked.
ClaimBegins(r) ==
    /\ runs[r].pc = "claiming_next" /\ settings.enabled /\ Due # {} /\ userLock = Nobody
    /\ userLock' = r
    /\ runs' = [runs EXCEPT ![r].pc = "claiming", ![r].left = Due]
    /\ UNCHANGED <<settings, world, due, jobs, batch, old, mails, shown, changes, mishaps>>

ClaimFindsNothing(r) ==
    /\ runs[r].pc = "claiming_next"
    /\ \/ ~settings.enabled
       \/ Due = {}
       \/ userLock # Nobody
    /\ runs' = [runs EXCEPT ![r] = NoRun]
    /\ UNCHANGED <<settings, world, due, jobs, batch, userLock, old, mails, shown, changes,
                   mishaps>>

\* Fault: a reservation is never taken from a run that died.
WaitsForever(s) ==
    Started(s) \/ jobs[s].attempts >= MaxAttempts \/ Was(s) = "reserved" \/ jobs[s].fresh
Waits(s) ==
    \/ Started(s)
    \/ jobs[s].attempts >= MaxAttempts
    \/ Was(s) \in {"reserved", "known_not_sent"} /\ jobs[s].fresh

\* The batch of the day, for a manager's digest.
UsesBatch(s) == s = DailySlot /\ world.manager
\* Fault: the batch of the earlier sender is not looked at.
BatchIsMine(s) == jobs[s].batch /\ batch.state \in {"sent", "delivery_unknown"}
BatchIsTaken(s) ==
    IF jobs[s].batch
    THEN batch.state \in {"sent", "delivery_unknown"}
    ELSE batch.state # "none"
         /\ (batch.state \notin {"reserved", "known_not_sent"} \/ batch.tries >= MaxAttempts)

\* Fault: a reservation that was started is claimed again.
SkipsFresh(s) == jobs[s].attempts >= MaxAttempts \/ (Was(s) # "none" /\ jobs[s].fresh)
\* Fault: attempts are not counted.
SkipsStarted(s) == Started(s) \/ (Was(s) # "none" /\ jobs[s].fresh)
SkipsSlot(s) == Waits(s) \/ ~world.wanted \/ (UsesBatch(s) /\ BatchIsTaken(s))

\* The row of the job is locked for the whole transaction; no row, no lock.
RowIsFree(r, s) == Was(s) = "none" \/ Rows(s) \subseteq {r}

SkipSlot(r, s) ==
    /\ runs[r].pc = "claiming" /\ s \in runs[r].left /\ RowIsFree(r, s)
    /\ SkipsSlot(s)
    /\ runs' = [runs EXCEPT ![r].left = @ \ {s},
                            ![r].rows = IF Was(s) = "none" THEN @ ELSE @ \cup {s}]
    /\ UNCHANGED <<settings, world, due, jobs, batch, userLock, old, mails, shown, changes,
                   mishaps>>

ClaimSlot(r, s) ==
    /\ runs[r].pc = "claiming" /\ s \in runs[r].left /\ RowIsFree(r, s)
    /\ ~SkipsSlot(s)
    /\ jobs' = [jobs EXCEPT ![s] =
            [state |-> "reserved", attempts |-> @.attempts + 1, shows |-> world,
             batch |-> UsesBatch(s), fresh |-> TRUE]]
    /\ batch' = IF UsesBatch(s)
                THEN [state |-> "reserved", by |-> "personal",
                      tries |-> IF jobs[s].batch THEN jobs[s].attempts + 1 ELSE batch.tries + 1]
                ELSE batch
    /\ runs' = [runs EXCEPT ![r] = [NoRun EXCEPT !.pc = "claimed", !.slot = s, !.shows = world,
                                                 !.token = jobs[s].attempts + 1]]
    /\ userLock' = Nobody
    /\ UNCHANGED <<settings, world, due, old, mails, shown, changes, mishaps>>

ClaimEndsEmpty(r) ==
    /\ runs[r].pc = "claiming" /\ runs[r].left = {}
    /\ runs' = [runs EXCEPT ![r] = NoRun]
    /\ userLock' = Nobody
    /\ UNCHANGED <<settings, world, due, jobs, batch, old, mails, shown, changes, mishaps>>

----------------------------------------------------------------------------
(* deliverMachineEmailClaim, and the two RPCs it calls.                    *)

\* The claim token is an attempt of the job: every claim draws a new one.
\* Fault: the token is not compared.
AnyToken(r) == TRUE
HasToken(r) == runs[r].token = jobs[runs[r].slot].attempts

\* service_mark_email_alert_provider_started: first the row, then the lock of the person.
MarkBegins(r) ==
    LET s == runs[r].slot IN
    /\ runs[r].pc = "claimed" /\ Rows(s) = {}
    /\ runs' = [runs EXCEPT
            ![r].pc = IF HasToken(r) /\ Was(s) = "reserved" THEN "marking" ELSE "claiming_next",
            ![r].rows = IF HasToken(r) /\ Was(s) = "reserved" THEN {s} ELSE {}]
    /\ UNCHANGED <<settings, world, due, jobs, batch, userLock, old, mails, shown, changes,
                   mishaps>>

\* Fault: the projection is not compared again.
IsEnabled(s) == settings.enabled
IsCurrent(s) == settings.enabled /\ world.wanted /\ jobs[s].shows = world

\* Fault: the batch of the day is not told.
LeaveBatch(s, state) == batch
SettleBatch(s, state) == IF jobs[s].batch THEN [batch EXCEPT !.state = state] ELSE batch
SetJob(s, state) ==
    /\ jobs' = [jobs EXCEPT ![s].state = state, ![s].fresh = TRUE]
    /\ batch' = SettleBatch(s, state)

\* Fault: the mail is called sent before it is.
SentAtStart(s) == "sent"
StartState(s) == "delivery_unknown"

\* The answer that the start was recorded may be lost; the run then takes it as not sent.
MarkEnds(r) ==
    LET s == runs[r].slot IN
    /\ runs[r].pc = "marking" /\ userLock = Nobody
    /\ IF IsCurrent(s)
       THEN /\ SetJob(s, StartState(s))
            /\ shown' = [shown EXCEPT ![s] = world]
            /\ \/ /\ runs' = [runs EXCEPT ![r].pc = "sending", ![r].rows = {},
                                          ![r].outcome = "delivery_unknown"]
                  /\ UNCHANGED mishaps
               \/ /\ mishaps < MaxMishaps /\ mishaps' = mishaps + 1
                  /\ runs' = [runs EXCEPT ![r].pc = "failing", ![r].rows = {}]
       ELSE /\ SetJob(s, "known_not_sent")
            /\ runs' = [runs EXCEPT ![r].pc = "claiming_next", ![r].rows = {}]
            /\ UNCHANGED <<shown, mishaps>>
    /\ UNCHANGED <<settings, world, due, userLock, old, mails, changes>>

\* sendEmail: the provider accepts it or not, and its answer may be lost.
Send(r) ==
    /\ runs[r].pc = "sending"
    /\ \/ /\ mails' = mails \cup {[by |-> runs[r].slot, token |-> runs[r].token,
                                   shows |-> runs[r].shows]}
          /\ \/ /\ runs' = [runs EXCEPT ![r].pc = "completing", ![r].outcome = "sent"]
                /\ UNCHANGED mishaps
             \/ /\ mishaps < MaxMishaps /\ mishaps' = mishaps + 1
                /\ To(r, "failing")
       \/ mishaps < MaxMishaps /\ mishaps' = mishaps + 1 /\ To(r, "failing") /\ UNCHANGED mails
    /\ UNCHANGED <<settings, world, due, jobs, batch, userLock, old, shown, changes>>

\* service_complete_email_alert.  A settlement that was refused or lost is sent once more.
CompletionStands(s, outcome) ==
    \/ Was(s) = "sent"
    \/ Started(s) # (outcome # "known_not_sent")

Complete(r) ==
    LET s == runs[r].slot
        outcome == runs[r].outcome
    IN
    /\ runs[r].pc \in {"completing", "failing"} /\ Rows(s) = {}
    /\ IF HasToken(r) /\ ~CompletionStands(s, outcome)
       THEN SetJob(s, outcome)
       ELSE UNCHANGED <<jobs, batch>>
    /\ \/ To(r, "claiming_next") /\ UNCHANGED mishaps
       \/ /\ runs[r].pc = "completing" /\ mishaps < MaxMishaps
          /\ mishaps' = mishaps + 1
          /\ To(r, "failing")
    /\ UNCHANGED <<settings, world, due, userLock, old, mails, shown, changes>>

\* A call is lost on its way: the run goes on as after an error.
CallIsLost(r) ==
    /\ runs[r].pc \in {"claimed", "completing", "failing"} /\ mishaps < MaxMishaps
    /\ mishaps' = mishaps + 1
    /\ To(r, IF runs[r].pc = "failing" THEN "claiming_next" ELSE "failing")
    /\ UNCHANGED <<settings, world, due, jobs, batch, userLock, old, mails, shown, changes>>

\* The run ends where it is, and its open transaction with it.
Crash(r) ==
    /\ runs[r].pc # "idle" /\ mishaps < MaxMishaps
    /\ mishaps' = mishaps + 1
    /\ runs' = [runs EXCEPT ![r] = NoRun]
    /\ userLock' = IF userLock = r THEN Nobody ELSE userLock
    /\ UNCHANGED <<settings, world, due, jobs, batch, old, mails, shown, changes>>

\* A claim has the lock of the person and waits for a row; a start has that row and
\* waits for the lock.  The database ends one of the two.
Deadlocked(r, q) ==
    /\ runs[r].pc = "claiming" /\ runs[q].pc = "marking"
    /\ runs[q].slot \in runs[r].left
BreakDeadlock(r, q) ==
    /\ Deadlocked(r, q)
    /\ \/ runs' = [runs EXCEPT ![r] = NoRun] /\ userLock' = Nobody
       \/ runs' = [runs EXCEPT ![q].pc = "failing", ![q].rows = {}] /\ UNCHANGED userLock
    /\ UNCHANGED <<settings, world, due, jobs, batch, old, mails, shown, changes, mishaps>>

----------------------------------------------------------------------------
(* The earlier sender: runManagerDigestSweep.                              *)

OldUnchanged == UNCHANGED <<settings, world, due, jobs, runs, userLock, changes, mishaps>>

OldLooks ==
    /\ old.pc = "idle" /\ ~settings.activated /\ world.manager
    /\ old' = [old EXCEPT !.pc = "looking"]
    /\ OldUnchanged /\ UNCHANGED <<batch, mails, shown>>

\* service_begin_next_refund_manager_digest
OldReserves ==
    /\ old.pc = "looking"
    /\ IF /\ world.manager
          /\ \/ batch.state = "none"
             \/ batch.state = "known_not_sent" /\ batch.tries < MaxAttempts
       THEN /\ batch' = [state |-> "reserved", by |-> Earlier, tries |-> batch.tries + 1]
            /\ old' = [old EXCEPT !.pc = "reserved", !.shows = world, !.token = batch.tries + 1]
       ELSE old' = NoOld /\ UNCHANGED batch
    /\ OldUnchanged /\ UNCHANGED <<mails, shown>>

OldHasToken == batch.by = Earlier /\ batch.tries = old.token

\* service_mark_refund_manager_digest_provider_started
OldMarks ==
    /\ old.pc = "reserved"
    /\ IF settings.activated \/ ~OldHasToken \/ batch.state # "reserved"
       THEN old' = NoOld /\ UNCHANGED <<batch, shown>>
       ELSE IF old.shows.facts = world.facts /\ world.manager
       THEN /\ batch' = [batch EXCEPT !.state = "delivery_unknown"]
            /\ shown' = [shown EXCEPT ![Earlier] = world]
            /\ old' = [old EXCEPT !.pc = "sending", !.outcome = "delivery_unknown"]
       ELSE /\ batch' = [batch EXCEPT !.state = "known_not_sent"]
            /\ old' = NoOld
            /\ UNCHANGED shown
    /\ OldUnchanged /\ UNCHANGED mails

OldSends ==
    /\ old.pc = "sending"
    /\ \/ /\ mails' = mails \cup {[by |-> Earlier, token |-> old.token, shows |-> old.shows]}
          /\ \E outcome \in {"sent", "delivery_unknown"} :
                old' = [old EXCEPT !.pc = "completing", !.outcome = outcome]
       \/ old' = [old EXCEPT !.pc = "completing"] /\ UNCHANGED mails
    /\ OldUnchanged /\ UNCHANGED <<batch, shown>>

\* Before its start was recorded, the sender may fail on its own: it reports no mail.
OldFails ==
    /\ old.pc = "reserved"
    /\ old' = [old EXCEPT !.pc = "completing"]
    /\ OldUnchanged /\ UNCHANGED <<batch, mails, shown>>

\* service_complete_refund_manager_digest
OldCompletes ==
    /\ old.pc = "completing"
    /\ batch' = IF /\ OldHasToken
                   /\ batch.state = IF old.outcome = "known_not_sent" THEN "reserved"
                                                                      ELSE "delivery_unknown"
                THEN [batch EXCEPT !.state = old.outcome]
                ELSE batch
    /\ old' = NoOld
    /\ OldUnchanged /\ UNCHANGED <<mails, shown>>

OldCrashes ==
    /\ old.pc # "idle"
    /\ old' = NoOld
    /\ OldUnchanged /\ UNCHANGED <<batch, mails, shown>>

----------------------------------------------------------------------------
(* People, facts, and time.                                                *)

\* service_set_email_alert_delivery_enabled waits for the starts under way.
SetEnabled ==
    /\ changes < MaxChanges /\ changes' = changes + 1
    /\ \A r \in Runs : runs[r].pc # "marking"
    /\ settings' = [enabled |-> ~settings.enabled,
                    activated |-> settings.activated \/ ~settings.enabled]
    /\ UNCHANGED <<world, due, jobs, batch, runs, userLock, old, mails, shown, mishaps>>

\* save_my_email_alert_preferences takes the lock of the person.
SavePreferences ==
    /\ changes < MaxChanges /\ changes' = changes + 1
    /\ userLock = Nobody
    /\ world' = [world EXCEPT !.wanted = ~@]
    /\ UNCHANGED <<settings, due, jobs, batch, runs, userLock, old, mails, shown, mishaps>>

\* Access is changed by others; facts are cases, sales and signals.
WorldChanges ==
    /\ changes < MaxChanges /\ changes' = changes + 1
    /\ \/ world' = [world EXCEPT !.manager = ~@]
       \/ \E f \in Facts : f # world.facts /\ world' = [world EXCEPT !.facts = f]
    /\ UNCHANGED <<settings, due, jobs, batch, runs, userLock, old, mails, shown, mishaps>>

SlotComesDue(s) ==
    /\ s \notin due /\ Was(s) = "none"
    /\ due' = due \cup {s}
    /\ UNCHANGED <<settings, world, jobs, batch, runs, userLock, old, mails, shown, changes,
                   mishaps>>

\* Ten minutes after a reservation, or one after a refused start.
Ages(s) ==
    /\ jobs[s].fresh
    /\ jobs' = [jobs EXCEPT ![s].fresh = FALSE]
    /\ UNCHANGED <<settings, world, due, batch, runs, userLock, old, mails, shown, changes,
                   mishaps>>

----------------------------------------------------------------------------
RunStep(r) ==
    \/ Tick(r) \/ ClaimBegins(r) \/ ClaimFindsNothing(r) \/ ClaimEndsEmpty(r)
    \/ \E s \in Slots : SkipSlot(r, s) \/ ClaimSlot(r, s)
    \/ MarkBegins(r) \/ MarkEnds(r) \/ Send(r) \/ Complete(r)
    \/ \E q \in Runs : BreakDeadlock(r, q)
OldStep == OldLooks \/ OldReserves \/ OldMarks \/ OldSends \/ OldFails \/ OldCompletes

AlertNext ==
    \/ \E r \in Runs : RunStep(r) \/ CallIsLost(r) \/ Crash(r)
    \/ OldStep \/ OldCrashes
    \/ SetEnabled \/ SavePreferences \/ WorldChanges
    \/ \E s \in Slots : SlotComesDue(s) \/ Ages(s)

AlertSpec == AlertInit /\ [][AlertNext]_alertVars

\* The clock starts runs and ages reservations; a run that is not ended goes on.  Locks
\* are granted in turn, so a start that keeps finding the person locked gets the lock.
FairAlertSpec ==
    /\ AlertSpec
    /\ \A r \in Runs : WF_alertVars(RunStep(r)) /\ SF_alertVars(MarkEnds(r))
    /\ \A s \in Slots : WF_alertVars(Ages(s))
    /\ WF_alertVars(OldReserves \/ OldMarks \/ OldSends \/ OldCompletes)

----------------------------------------------------------------------------
\* Types of the tables and of the runs.
AlertTypeOK ==
    /\ world \in World /\ due \subseteq Slots
    /\ jobs \in [Slots -> Job]
    /\ batch \in Batch
    /\ userLock \in Runs \cup {Nobody}
    /\ \A m \in mails : m.by \in Slots \cup {Earlier} /\ m.shows \in World
    /\ changes \in 0..MaxChanges /\ mishaps \in 0..MaxMishaps

\* A slot is mailed at most once, however often it is claimed, and whatever answer of the
\* database or of the provider is lost.
OneMailPerSlot ==
    \A m, n \in mails : m.by = n.by /\ m.by # Earlier => m = n

\* The managers' digest of a day leaves once, through whichever of the two senders.
IsManagerDigest(m) == m.by = Earlier \/ (m.by = DailySlot /\ m.shows.manager)
ManagerDigestOnce ==
    \A m, n \in mails : IsManagerDigest(m) /\ IsManagerDigest(n) => m = n

\* What a job says is so: "sent" was accepted by the provider, and of a slot that may be
\* claimed again nothing has left.
JobsTellTheTruth ==
    \A s \in Slots :
        /\ Was(s) = "sent" => \E m \in mails : m.by = s
        /\ ~Started(s) => \A m \in mails : m.by # s

\* What is mailed shows the machines, and the person's access, as they were when the mail
\* was started, although it was written before, at the claim.
MailsWereCurrent ==
    \A m \in mails :
        /\ m.by # Earlier => m.shows = shown[m.by] /\ m.shows.wanted
        /\ m.by = Earlier => m.shows.facts = shown[Earlier].facts

\* Of what has left, the shared batch of the day and its job say the same; a late answer
\* of the earlier sender, or a reservation it began before the cutover, does not part them.
BatchFollowsJob ==
    jobs[DailySlot].batch =>
        \/ batch.state = Was(DailySlot)
        \/ {batch.state, Was(DailySlot)} \subseteq {"reserved", "known_not_sent"}

\* A slot that stays due is started, or has had its attempts.
GoesOut(s) ==
    \/ Started(s) \/ jobs[s].attempts = MaxAttempts
    \/ s = DailySlot /\ batch.state \in {"sent", "delivery_unknown"}
    \/ s = DailySlot /\ batch.tries = MaxAttempts
DueSlotsGoOut ==
    \A s \in Slots :
        <>[](s \in due /\ world.wanted /\ settings.enabled) => <>GoesOut(s)
=============================================================================
