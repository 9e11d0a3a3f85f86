--------------------- MODULE MachineEmailAlertsProofs ----------------------
(***************************************************************************)
(* Proofs about e-mail alerts.  What keeps a slot from being mailed twice  *)
(* is that a job, once it was started, is never claimed again, and that of *)
(* the runs that claimed it only the last has its token.  What keeps the   *)
(* managers' digest from leaving twice is the batch of the day: the        *)
(* earlier sender starts nothing after the cutover, and a personal digest  *)
(* takes no batch that was started.  AlertInv says so in every state.      *)
(***************************************************************************)
EXTENDS MachineEmailAlerts, TLAPS

Outcomes == {"known_not_sent", "delivery_unknown", "sent"}
Run == [pc : {"idle", "claiming_next", "claiming", "claimed", "marking", "sending",
              "completing", "failing"},
        slot : Slots, token : 0..MaxAttempts, shows : World,
        left : SUBSET Slots, rows : SUBSET Slots, outcome : Outcomes]
OldRun == [pc : {"idle", "looking", "reserved", "sending", "completing"},
           token : 0..MaxAttempts, shows : World, outcome : Outcomes]
Mail == [by : Slots \cup {Earlier}, token : 0..MaxAttempts, shows : World]

Types ==
    /\ settings \in [enabled : BOOLEAN, activated : BOOLEAN]
    /\ world \in World /\ due \in SUBSET Slots
    /\ jobs \in [Slots -> Job] /\ batch \in Batch
    /\ runs \in [Runs -> Run]
    /\ userLock \in Runs \cup {Nobody}
    /\ old \in OldRun
    /\ mails \in SUBSET Mail
    /\ shown \in [Slots \cup {Earlier} -> World]
    /\ changes \in 0..MaxChanges /\ mishaps \in 0..MaxMishaps

\* A job shows what its mail shows, and took the batch of the day if it is a manager's
\* digest; a sent job has its mail, and only a started one has.
JobOK(s) ==
    /\ Was(s) = "none" => ~jobs[s].batch
    /\ Was(s) # "none" => (jobs[s].batch <=> s = DailySlot /\ jobs[s].shows.manager)
    /\ Started(s) => shown[s] = jobs[s].shows /\ jobs[s].shows.wanted
    /\ Was(s) = "sent" => \E m \in mails : m.by = s
    /\ \A m \in mails : m.by = s => Started(s) /\ m.shows = jobs[s].shows

\* A run that has claimed a job and not yet given it up.
Active(run) == run.pc \in {"claimed", "marking", "sending", "completing", "failing"}
Holds(run) == run.token = jobs[run.slot].attempts

\* Who has the token of a job has what it shows, and only its last claimant has it; a
\* start keeps the row, and what is being sent was started and has not left.
RunOK(run) ==
    /\ run.pc # "idle" => settings.activated
    /\ \A s \in run.rows : Was(s) # "none"
    /\ Active(run) => run.token <= jobs[run.slot].attempts /\ Was(run.slot) # "none"
    /\ Active(run) /\ Holds(run) => run.shows = jobs[run.slot].shows
    /\ Active(run) /\ run.outcome = "sent" => \E m \in mails : m.by = run.slot
    /\ run.pc = "marking" => Holds(run) /\ Was(run.slot) = "reserved" /\ run.slot \in run.rows
    /\ run.pc = "sending" =>
         /\ Holds(run) /\ Started(run.slot)
         /\ \A m \in mails : m.by # run.slot

\* No two runs have the same row, or the same token of a job.
Apart(run, other) ==
    /\ run.rows \cap other.rows = {}
    /\ Active(run) /\ Active(other) /\ run.slot = other.slot => run.token # other.token

\* A digest that has the batch has been claimed since the cutover.  Either the batch says
\* what the job says, or the earlier sender took it back from a job that was not sent.
BatchOK ==
    /\ batch.state = "none" => batch.tries = 0
    /\ jobs[DailySlot].batch =>
         /\ settings.activated
         /\ \/ batch.by = "personal" /\ batch.state = Was(DailySlot)
            \/ /\ batch.by = Earlier /\ batch.state \in {"reserved", "known_not_sent"}
               /\ Was(DailySlot) = "known_not_sent"
    /\ batch.state \in {"sent", "delivery_unknown"} /\ ~jobs[DailySlot].batch =>
         batch.by = Earlier

\* The earlier sender mails what it started, under its own batch.
OldOK ==
    /\ \A m \in mails : m.by = Earlier =>
         /\ batch.by = Earlier /\ batch.state \in {"sent", "delivery_unknown"}
         /\ m.shows.facts = shown[Earlier].facts
    /\ old.pc = "sending" =>
         /\ batch.by = Earlier /\ batch.state \in {"sent", "delivery_unknown"}
         /\ old.shows.facts = shown[Earlier].facts
         /\ \A m \in mails : m.by # Earlier

AlertInv ==
    /\ Types
    /\ settings.enabled => settings.activated
    /\ \A m, n \in mails : m.by = n.by => m = n
    /\ \A s \in Slots : JobOK(s)
    /\ \A r \in Runs : RunOK(runs[r])
    /\ \A r, q \in Runs : r # q => Apart(runs[r], runs[q])
    /\ BatchOK
    /\ OldOK

----------------------------------------------------------------------------
(* One field of a run changes, and the rest stays.                         *)

\* What a run can be at.
Places == {"idle", "claiming_next", "claiming", "claimed", "marking", "sending",
           "completing", "failing"}

\* A run's "pc" changes.
LEMMA SetPc ==
    ASSUME NEW n \in [Runs -> Run], NEW r \in Runs, NEW v \in Places
    PROVE  LET g == [n EXCEPT ![r].pc = v]
           IN /\ g \in [Runs -> Run] /\ g[r].pc = v
              /\ \A q \in Runs : q # r => g[q] = n[q]
              /\ g[r].slot = n[r].slot /\ g[r].token = n[r].token /\ g[r].shows = n[r].shows
              /\ g[r].left = n[r].left /\ g[r].rows = n[r].rows /\ g[r].outcome = n[r].outcome
<1> DEFINE x == [n[r] EXCEPT !.pc = v]
           g == [n EXCEPT ![r].pc = v]
<1>1. n[r] \in Run
    OBVIOUS
<1>2. /\ x \in Run /\ x.pc = v
      /\ x.slot = n[r].slot /\ x.token = n[r].token /\ x.shows = n[r].shows
      /\ x.left = n[r].left /\ x.rows = n[r].rows /\ x.outcome = n[r].outcome
    BY <1>1 DEF Run, Places
<1>3. g = [n EXCEPT ![r] = x]
    OBVIOUS
<1> HIDE DEF x
<1>4. g \in [Runs -> Run] /\ g[r] = x /\ \A q \in Runs : q # r => g[q] = n[q]
    BY <1>2, <1>3
<1>5. QED BY <1>2, <1>4

\* A run's "left" changes.
LEMMA SetLeft ==
    ASSUME NEW n \in [Runs -> Run], NEW r \in Runs, NEW v \in SUBSET Slots
    PROVE  LET g == [n EXCEPT ![r].left = v]
           IN /\ g \in [Runs -> Run] /\ g[r].left = v
              /\ \A q \in Runs : q # r => g[q] = n[q]
              /\ g[r].pc = n[r].pc /\ g[r].slot = n[r].slot /\ g[r].token = n[r].token
              /\ g[r].shows = n[r].shows /\ g[r].rows = n[r].rows /\ g[r].outcome = n[r].outcome
<1> DEFINE x == [n[r] EXCEPT !.left = v]
           g == [n EXCEPT ![r].left = v]
<1>1. n[r] \in Run
    OBVIOUS
<1>2. /\ x \in Run /\ x.left = v
      /\ x.pc = n[r].pc /\ x.slot = n[r].slot /\ x.token = n[r].token
      /\ x.shows = n[r].shows /\ x.rows = n[r].rows /\ x.outcome = n[r].outcome
    BY <1>1 DEF Run, Places
<1>3. g = [n EXCEPT ![r] = x]
    OBVIOUS
<1> HIDE DEF x
<1>4. g \in [Runs -> Run] /\ g[r] = x /\ \A q \in Runs : q # r => g[q] = n[q]
    BY <1>2, <1>3
<1>5. QED BY <1>2, <1>4

\* A run's "rows" changes.
LEMMA SetRows ==
    ASSUME NEW n \in [Runs -> Run], NEW r \in Runs, NEW v \in SUBSET Slots
    PROVE  LET g == [n EXCEPT ![r].rows = v]
           IN /\ g \in [Runs -> Run] /\ g[r].rows = v
              /\ \A q \in Runs : q # r => g[q] = n[q]
              /\ g[r].pc = n[r].pc /\ g[r].slot = n[r].slot /\ g[r].token = n[r].token
              /\ g[r].shows = n[r].shows /\ g[r].left = n[r].left /\ g[r].outcome = n[r].outcome
<1> DEFINE x == [n[r] EXCEPT !.rows = v]
           g == [n EXCEPT ![r].rows = v]
<1>1. n[r] \in Run
    OBVIOUS
<1>2. /\ x \in Run /\ x.rows = v
      /\ x.pc = n[r].pc /\ x.slot = n[r].slot /\ x.token = n[r].token
      /\ x.shows = n[r].shows /\ x.left = n[r].left /\ x.outcome = n[r].outcome
    BY <1>1 DEF Run, Places
<1>3. g = [n EXCEPT ![r] = x]
    OBVIOUS
<1> HIDE DEF x
<1>4. g \in [Runs -> Run] /\ g[r] = x /\ \A q \in Runs : q # r => g[q] = n[q]
    BY <1>2, <1>3
<1>5. QED BY <1>2, <1>4

\* A run's "outcome" changes.
LEMMA SetOutcome ==
    ASSUME NEW n \in [Runs -> Run], NEW r \in Runs, NEW v \in Outcomes
    PROVE  LET g == [n EXCEPT ![r].outcome = v]
           IN /\ g \in [Runs -> Run] /\ g[r].outcome = v
              /\ \A q \in Runs : q # r => g[q] = n[q]
              /\ g[r].pc = n[r].pc /\ g[r].slot = n[r].slot /\ g[r].token = n[r].token
              /\ g[r].shows = n[r].shows /\ g[r].left = n[r].left /\ g[r].rows = n[r].rows
<1> DEFINE x == [n[r] EXCEPT !.outcome = v]
           g == [n EXCEPT ![r].outcome = v]
<1>1. n[r] \in Run
    OBVIOUS
<1>2. /\ x \in Run /\ x.outcome = v
      /\ x.pc = n[r].pc /\ x.slot = n[r].slot /\ x.token = n[r].token
      /\ x.shows = n[r].shows /\ x.left = n[r].left /\ x.rows = n[r].rows
    BY <1>1 DEF Run, Places
<1>3. g = [n EXCEPT ![r] = x]
    OBVIOUS
<1> HIDE DEF x
<1>4. g \in [Runs -> Run] /\ g[r] = x /\ \A q \in Runs : q # r => g[q] = n[q]
    BY <1>2, <1>3
<1>5. QED BY <1>2, <1>4

\* A run that ends or is started anew has nothing.
LEMMA NothingHeld ==
    /\ Nothing \in World /\ NoRun \in Run
    /\ NoRun.pc = "idle" /\ NoRun.rows = {} /\ NoRun.outcome = "known_not_sent"
    /\ ~Active(NoRun)
<1>1. Nothing \in World
    BY AlertAssumption DEF AlertAssumption, Nothing, World
<1>2. DailySlot \in Slots /\ 0 \in 0..MaxAttempts
    BY AlertAssumption DEF AlertAssumption, MaxAttempts
<1>3. NoRun \in Run
    BY <1>1, <1>2 DEF NoRun, Run, Outcomes
<1>4. QED BY <1>1, <1>3 DEF NoRun, Active

----------------------------------------------------------------------------
(* Steps of a run that change nothing but the run.                         *)

\* A run that only moves: it keeps its claim or gives it up, and locks no row that
\* another has.
Moves(r) ==
    /\ runs' \in [Runs -> Run] /\ \A q \in Runs : q # r => runs'[q] = runs[q]
    /\ runs'[r].pc # "idle" => settings.activated
    /\ \A s \in runs'[r].rows : Was(s) # "none" /\ Rows(s) \subseteq {r}
    /\ Active(runs'[r]) =>
         /\ Active(runs[r]) /\ runs'[r].slot = runs[r].slot /\ runs'[r].token = runs[r].token
         /\ runs'[r].shows = runs[r].shows /\ runs'[r].outcome = runs[r].outcome
    /\ runs'[r].pc = "marking" =>
         Holds(runs[r]) /\ Was(runs[r].slot) = "reserved" /\ runs[r].slot \in runs'[r].rows
    /\ runs'[r].pc # "sending"
    /\ userLock' \in Runs \cup {Nobody}
    /\ UNCHANGED <<settings, world, due, jobs, batch, old, mails, shown, changes>>

\* Then everything stays in order.
LEMMA MovesKeeps ==
    ASSUME AlertInv, NEW r \in Runs, Moves(r), mishaps' \in 0..MaxMishaps
    PROVE  AlertInv'
<1>1. Types' BY DEF AlertInv, Types, Moves
<1>2. \A s \in Slots : JobOK(s)'
    BY DEF AlertInv, Moves, JobOK, Was, Started
<1>3. ASSUME NEW q \in Runs PROVE RunOK(runs[q])'
    <2>1. CASE q # r
        <3>1. RunOK(runs'[q])
            BY <2>1 DEF AlertInv, Moves
        <3>2. QED BY <3>1 DEF RunOK, Active, Holds, Moves, Was, Started
    <2>2. CASE q = r
        <3>1. RunOK(runs[r]) BY DEF AlertInv
        <3>2. RunOK(runs'[r])
            BY <3>1 DEF RunOK, Moves, Holds, Active
        <3>3. QED BY <2>2, <3>2 DEF RunOK, Active, Holds, Moves, Was, Started
    <2>3. QED BY <2>1, <2>2
<1>4. ASSUME NEW p \in Runs, NEW q \in Runs, p # q PROVE Apart(runs[p], runs[q])'
    <2>1. Apart(runs[p], runs[q]) /\ Apart(runs[q], runs[p])
        BY <1>4 DEF AlertInv
    <2>2. Apart(runs'[p], runs'[q])
        <3>1. CASE p = r
            <4>1. runs'[q] = runs[q] BY <1>4, <3>1 DEF Moves
            <4>2. \A s \in runs'[r].rows : s \notin runs[q].rows
                BY <1>4, <3>1 DEF Moves, Rows
            <4>3. QED BY <2>1, <3>1, <4>1, <4>2 DEF Apart, Moves
        <3>2. CASE q = r
            <4>1. runs'[p] = runs[p] BY <1>4, <3>2 DEF Moves
            <4>2. \A s \in runs'[r].rows : s \notin runs[p].rows
                BY <1>4, <3>2 DEF Moves, Rows
            <4>3. QED BY <2>1, <3>2, <4>1, <4>2 DEF Apart, Moves
        <3>3. CASE p # r /\ q # r
            BY <2>1, <3>3 DEF Moves
        <3>4. QED BY <3>1, <3>2, <3>3
    <2>3. QED BY <2>2 DEF Apart, Active
<1>5. BatchOK' /\ OldOK'
    BY DEF AlertInv, Moves, BatchOK, OldOK, Was
<1>6. settings' = settings /\ mails' = mails BY DEF Moves
<1>7. QED BY <1>1, <1>2, <1>3, <1>4, <1>5, <1>6 DEF AlertInv

\* Rows that a run has are locked by it alone, and have a job.
LEMMA OwnRows ==
    ASSUME AlertInv, NEW r \in Runs, NEW s \in runs[r].rows
    PROVE  Was(s) # "none" /\ Rows(s) \subseteq {r}
<1>1. Was(s) # "none" BY DEF AlertInv, RunOK
<1>2. ASSUME NEW q \in Runs, s \in runs[q].rows PROVE q = r
    BY <1>2 DEF AlertInv, Apart
<1>3. QED BY <1>1, <1>2 DEF Rows

\* A run that ends, of its own accord or not.
LEMMA EndKeeps ==
    ASSUME AlertInv, NEW r \in Runs,
           runs' = [runs EXCEPT ![r] = NoRun], userLock' \in Runs \cup {Nobody},
           mishaps' \in 0..MaxMishaps,
           UNCHANGED <<settings, world, due, jobs, batch, old, mails, shown, changes>>
    PROVE  AlertInv'
<1>1. runs \in [Runs -> Run] BY DEF AlertInv, Types
<1>2. /\ runs' \in [Runs -> Run] /\ runs'[r] = NoRun
      /\ \A q \in Runs : q # r => runs'[q] = runs[q]
    BY <1>1, NothingHeld
<1>3. Moves(r)
    BY <1>2, NothingHeld DEF Moves
<1>4. QED BY <1>3, MovesKeeps

\* A run that goes on to another place, and claims nothing there.
LEMMA GoesOn ==
    ASSUME AlertInv, NEW r \in Runs, NEW pc \in Places \ {"marking", "sending"}, To(r, pc),
           settings.activated, pc \in {"claimed", "completing", "failing"} => Active(runs[r]),
           mishaps' \in 0..MaxMishaps,
           UNCHANGED <<settings, world, due, jobs, batch, userLock, old, mails, shown, changes>>
    PROVE  AlertInv'
<1>1. runs \in [Runs -> Run] /\ userLock' \in Runs \cup {Nobody} BY DEF AlertInv, Types
<1>2. /\ runs' \in [Runs -> Run] /\ runs'[r].pc = pc
      /\ \A q \in Runs : q # r => runs'[q] = runs[q]
      /\ runs'[r].slot = runs[r].slot /\ runs'[r].token = runs[r].token
      /\ runs'[r].shows = runs[r].shows /\ runs'[r].rows = runs[r].rows
      /\ runs'[r].outcome = runs[r].outcome
    BY <1>1, SetPc DEF To
<1>3. Moves(r)
    BY <1>1, <1>2, OwnRows DEF Moves, Active, Places
<1>4. QED BY <1>3, MovesKeeps

\* The dispatcher is started only while delivery is enabled.
LEMMA TickKeeps ==
    ASSUME AlertInv, NEW r \in Runs, Tick(r)
    PROVE  AlertInv'
<1>1. settings.activated /\ mishaps' \in 0..MaxMishaps BY DEF AlertInv, Tick, Types
<1>2. QED BY <1>1, GoesOn DEF Tick, Places

\* A claim begins.
LEMMA ClaimBeginsKeeps ==
    ASSUME AlertInv, NEW r \in Runs, ClaimBegins(r)
    PROVE  AlertInv'
<1> DEFINE n == [runs EXCEPT ![r].pc = "claiming"]
           g == [n EXCEPT ![r].left = Due]
<1>1. /\ runs \in [Runs -> Run] /\ settings.activated /\ Due \in SUBSET Slots
      /\ mishaps' \in 0..MaxMishaps /\ "claiming" \in Places
    BY DEF AlertInv, Types, ClaimBegins, Due, Places
<1>2. /\ n \in [Runs -> Run] /\ n[r].pc = "claiming" /\ n[r].rows = runs[r].rows
      /\ \A q \in Runs : q # r => n[q] = runs[q]
    BY <1>1, SetPc
<1>3. runs' = g BY DEF ClaimBegins
<1> HIDE DEF n
<1>4. /\ g \in [Runs -> Run] /\ g[r].pc = "claiming" /\ g[r].rows = runs[r].rows
      /\ \A q \in Runs : q # r => g[q] = runs[q]
    BY <1>1, <1>2, SetLeft
<1> HIDE DEF g
<1>5. Moves(r)
    BY <1>1, <1>3, <1>4, OwnRows DEF Moves, Active, ClaimBegins
<1>6. QED BY <1>1, <1>5, MovesKeeps

\* A slot that waits or is not wanted is passed over, with its row locked.
LEMMA SkipSlotKeeps ==
    ASSUME AlertInv, NEW r \in Runs, NEW s \in Slots, SkipSlot(r, s)
    PROVE  AlertInv'
<1> DEFINE left == runs[r].left \ {s}
           rows == IF Was(s) = "none" THEN runs[r].rows ELSE runs[r].rows \cup {s}
           n == [runs EXCEPT ![r].left = left]
           g == [n EXCEPT ![r].rows = rows]
<1>1. /\ runs \in [Runs -> Run] /\ runs[r] \in Run /\ mishaps' \in 0..MaxMishaps
      /\ runs[r].pc = "claiming" /\ settings.activated
      /\ userLock' \in Runs \cup {Nobody}
    BY DEF AlertInv, Types, SkipSlot, RunOK
<1>2. left \in SUBSET Slots /\ rows \in SUBSET Slots
    BY <1>1 DEF Run
<1>3. runs' = g
    BY DEF SkipSlot
<1>4. \A x \in rows : Was(x) # "none" /\ Rows(x) \subseteq {r}
    BY OwnRows DEF SkipSlot, RowIsFree
<1> HIDE DEF left, rows
<1>5. /\ n \in [Runs -> Run] /\ n[r].pc = "claiming"
      /\ \A q \in Runs : q # r => n[q] = runs[q]
    BY <1>1, <1>2, SetLeft
<1> HIDE DEF n
<1>6. /\ g \in [Runs -> Run] /\ g[r].pc = "claiming" /\ g[r].rows = rows
      /\ \A q \in Runs : q # r => g[q] = runs[q]
    BY <1>2, <1>5, SetRows
<1> HIDE DEF g
<1>7. Moves(r)
    BY <1>1, <1>3, <1>4, <1>6 DEF Moves, Active, SkipSlot
<1>8. QED BY <1>1, <1>7, MovesKeeps

\* A start begins with the row of its job, or finds that it is too late.
LEMMA MarkBeginsKeeps ==
    ASSUME AlertInv, NEW r \in Runs, MarkBegins(r)
    PROVE  AlertInv'
<1> DEFINE s == runs[r].slot
           may == HasToken(r) /\ Was(s) = "reserved"
           pc == IF may THEN "marking" ELSE "claiming_next"
           rows == IF may THEN {s} ELSE {}
           n == [runs EXCEPT ![r].pc = pc]
           g == [n EXCEPT ![r].rows = rows]
<1>1. /\ runs \in [Runs -> Run] /\ s \in Slots /\ mishaps' \in 0..MaxMishaps
      /\ runs[r].pc = "claimed" /\ settings.activated /\ Rows(s) = {}
      /\ userLock' \in Runs \cup {Nobody}
    BY DEF AlertInv, Types, MarkBegins, RunOK, Run
<1>2. runs' = g
    BY DEF MarkBegins
<1>3. pc \in Places /\ rows \in SUBSET Slots /\ pc # "idle" /\ pc # "sending"
    BY <1>1 DEF Places
<1>4. \A x \in rows : Was(x) # "none" /\ Rows(x) \subseteq {r}
    BY <1>1
<1>5. pc = "marking" => Holds(runs[r]) /\ Was(s) = "reserved" /\ s \in rows
    BY DEF HasToken, Holds
<1>6. pc \in {"marking", "claiming_next"}
    OBVIOUS
<1> HIDE DEF may, pc, rows
<1>7. /\ n \in [Runs -> Run] /\ n[r].pc = pc
      /\ n[r].slot = s /\ n[r].token = runs[r].token /\ n[r].shows = runs[r].shows
      /\ n[r].outcome = runs[r].outcome
      /\ \A q \in Runs : q # r => n[q] = runs[q]
    BY <1>1, <1>3, SetPc
<1> HIDE DEF n
<1>8. /\ g \in [Runs -> Run] /\ g[r].pc = pc /\ g[r].rows = rows
      /\ g[r].slot = s /\ g[r].token = runs[r].token /\ g[r].shows = runs[r].shows
      /\ g[r].outcome = runs[r].outcome
      /\ \A q \in Runs : q # r => g[q] = runs[q]
    BY <1>3, <1>7, SetRows
<1> HIDE DEF g
<1>9. Moves(r)
    BY <1>1, <1>2, <1>3, <1>4, <1>5, <1>8 DEF Moves, Active, MarkBegins
<1>10. QED BY <1>1, <1>9, MovesKeeps

\* A lost call, and whatever else only ends or moves a run.
LEMMA EndsAndLostCallsKeep ==
    ASSUME AlertInv, NEW r \in Runs,
           ClaimFindsNothing(r) \/ ClaimEndsEmpty(r) \/ CallIsLost(r) \/ Crash(r)
    PROVE  AlertInv'
<1>1. /\ userLock \in Runs \cup {Nobody} /\ mishaps \in 0..MaxMishaps /\ MaxMishaps \in Nat
      /\ RunOK(runs[r])
    BY AlertAssumption DEF AlertInv, Types, AlertAssumption
<1>2. CASE ClaimFindsNothing(r)
    BY <1>1, <1>2, EndKeeps DEF ClaimFindsNothing
<1>3. CASE ClaimEndsEmpty(r)
    BY <1>1, <1>3, EndKeeps DEF ClaimEndsEmpty
<1>4. CASE Crash(r)
    <2>1. mishaps' \in 0..MaxMishaps /\ userLock' \in Runs \cup {Nobody}
        BY <1>1, <1>4 DEF Crash
    <2>2. QED BY <1>4, <2>1, EndKeeps DEF Crash
<1>5. CASE CallIsLost(r)
    <2>1. mishaps' \in 0..MaxMishaps /\ settings.activated
        BY <1>1, <1>5 DEF CallIsLost, RunOK
    <2>2. runs[r].pc \in {"claimed", "completing", "failing"}
        BY <1>5 DEF CallIsLost
    <2>3. PICK pc \in {"failing", "claiming_next"} : To(r, pc)
        BY <1>5 DEF CallIsLost
    <2>4. Active(runs[r]) BY <2>2 DEF Active
    <2>5. pc \in Places \ {"marking", "sending"} BY <2>3 DEF Places
    <2>6. UNCHANGED <<settings, world, due, jobs, batch, userLock, old, mails, shown, changes>>
        BY <1>5 DEF CallIsLost
    <2>7. QED BY <2>1, <2>3, <2>4, <2>5, <2>6, GoesOn
<1>6. QED BY <1>2, <1>3, <1>4, <1>5

\* The database ends a claim, or a start, that wait for each other.
LEMMA BreakDeadlockKeeps ==
    ASSUME AlertInv, NEW r \in Runs, NEW p \in Runs, BreakDeadlock(r, p)
    PROVE  AlertInv'
<1> DEFINE n == [runs EXCEPT ![p].pc = "failing"]
           g == [n EXCEPT ![p].rows = {}]
<1>1. /\ runs \in [Runs -> Run] /\ mishaps' \in 0..MaxMishaps
      /\ userLock \in Runs \cup {Nobody} /\ "failing" \in Places
    BY DEF AlertInv, Types, BreakDeadlock, Places
<1>2. UNCHANGED <<settings, world, due, jobs, batch, old, mails, shown, changes>>
    BY DEF BreakDeadlock
<1>3. CASE runs' = [runs EXCEPT ![r] = NoRun] /\ userLock' = Nobody
    BY <1>1, <1>2, <1>3, EndKeeps
<1>4. CASE runs' = g /\ userLock' = userLock
    <2>1. runs[p].pc = "marking" /\ settings.activated
        BY DEF BreakDeadlock, Deadlocked, AlertInv, RunOK
    <2>2. /\ n \in [Runs -> Run] /\ n[p].pc = "failing"
          /\ n[p].slot = runs[p].slot /\ n[p].token = runs[p].token
          /\ n[p].shows = runs[p].shows /\ n[p].outcome = runs[p].outcome
          /\ \A q \in Runs : q # p => n[q] = runs[q]
        BY <1>1, SetPc
    <2> HIDE DEF n
    <2>3. /\ g \in [Runs -> Run] /\ g[p].pc = "failing" /\ g[p].rows = {}
          /\ g[p].slot = runs[p].slot /\ g[p].token = runs[p].token
          /\ g[p].shows = runs[p].shows /\ g[p].outcome = runs[p].outcome
          /\ \A q \in Runs : q # p => g[q] = runs[q]
        BY <2>2, SetRows
    <2> HIDE DEF g
    <2>4. Moves(p)
        BY <1>1, <1>2, <1>4, <2>1, <2>3 DEF Moves, Active
    <2>5. QED BY <1>1, <2>4, MovesKeeps
<1>5. QED BY <1>3, <1>4 DEF BreakDeadlock

----------------------------------------------------------------------------
(* Steps that settle a job.                                                *)

\* What settling a job changes of it.
LEMMA JobSet ==
    ASSUME jobs \in [Slots -> Job], batch \in Batch, NEW s \in Slots, NEW st \in JobState,
           SetJob(s, st)
    PROVE  /\ jobs' \in [Slots -> Job] /\ batch' \in Batch
           /\ jobs'[s].state = st /\ jobs'[s].attempts = jobs[s].attempts
           /\ jobs'[s].shows = jobs[s].shows /\ jobs'[s].batch = jobs[s].batch
           /\ \A t \in Slots : t # s => jobs'[t] = jobs[t]
           /\ ~jobs[s].batch => batch' = batch
           /\ jobs[s].batch =>
                batch'.state = st /\ batch'.by = batch.by /\ batch'.tries = batch.tries
<1> DEFINE a == [jobs[s] EXCEPT !.state = st]
           b == [a EXCEPT !.fresh = TRUE]
<1>1. jobs[s] \in Job
    OBVIOUS
<1>2. /\ a \in Job /\ a.state = st /\ a.attempts = jobs[s].attempts
      /\ a.shows = jobs[s].shows /\ a.batch = jobs[s].batch
    BY <1>1 DEF Job
<1>3. jobs' = [jobs EXCEPT ![s] = b]
    BY DEF SetJob
<1> HIDE DEF a
<1>4. /\ b \in Job /\ b.state = st /\ b.attempts = jobs[s].attempts
      /\ b.shows = jobs[s].shows /\ b.batch = jobs[s].batch
    BY <1>2 DEF Job
<1> HIDE DEF b
<1>5. /\ jobs' \in [Slots -> Job] /\ jobs'[s] = b
      /\ \A t \in Slots : t # s => jobs'[t] = jobs[t]
    BY <1>3, <1>4
<1>6. batch' = IF jobs[s].batch THEN [batch EXCEPT !.state = st] ELSE batch
    BY DEF SetJob, SettleBatch
<1>7. /\ batch' \in Batch
      /\ ~jobs[s].batch => batch' = batch
      /\ jobs[s].batch => batch'.state = st /\ batch'.by = batch.by /\ batch'.tries = batch.tries
    BY <1>6 DEF Batch
<1>8. QED BY <1>4, <1>5, <1>7

\* A run settles its job: not back from a start, to "sent" only with a mail, and with
\* nobody else at the row.
Settles(r, st) ==
    LET s == runs[r].slot IN
    /\ Active(runs[r]) /\ Rows(s) \subseteq {r} /\ Was(s) # "none"
    /\ SetJob(s, st) /\ st \in Outcomes
    /\ Started(s) => st # "known_not_sent"
    /\ Was(s) = "known_not_sent" => st = "known_not_sent"
    /\ st = "sent" => \E m \in mails : m.by = s
    /\ shown' \in [Slots \cup {Earlier} -> World]
    /\ \A x \in Slots \cup {Earlier} : x # s => shown'[x] = shown[x]
    /\ Started(s) => shown'[s] = shown[s]
    /\ ~Started(s) /\ st # "known_not_sent" =>
         shown'[s] = jobs[s].shows /\ jobs[s].shows.wanted
    /\ runs' \in [Runs -> Run] /\ \A q \in Runs : q # r => runs'[q] = runs[q]
    /\ runs'[r].rows \subseteq runs[r].rows
    /\ runs'[r].slot = s /\ runs'[r].token = runs[r].token /\ runs'[r].shows = runs[r].shows
    /\ runs'[r].pc \in {"sending", "failing", "claiming_next"}
    /\ runs'[r].outcome = "sent" => \E m \in mails : m.by = s
    /\ runs'[r].pc = "sending" =>
         Holds(runs[r]) /\ st # "known_not_sent" /\ \A m \in mails : m.by # s
    /\ UNCHANGED <<settings, world, due, userLock, old, mails, changes>>

\* Then everything stays in order.
LEMMA SettlesKeeps ==
    ASSUME AlertInv, NEW r \in Runs, NEW st, Settles(r, st), mishaps' \in 0..MaxMishaps
    PROVE  AlertInv'
<1> DEFINE s == runs[r].slot
<1>1. s \in Slots /\ st \in JobState /\ jobs \in [Slots -> Job] /\ batch \in Batch
    BY DEF AlertInv, Types, Run, Settles, Outcomes, JobState
<1>2. /\ jobs' \in [Slots -> Job] /\ batch' \in Batch
      /\ jobs'[s].state = st /\ jobs'[s].attempts = jobs[s].attempts
      /\ jobs'[s].shows = jobs[s].shows /\ jobs'[s].batch = jobs[s].batch
      /\ \A t \in Slots : t # s => jobs'[t] = jobs[t]
      /\ ~jobs[s].batch => batch' = batch
      /\ jobs[s].batch =>
           batch'.state = st /\ batch'.by = batch.by /\ batch'.tries = batch.tries
    BY <1>1, JobSet DEF Settles
<1>3. \A t \in Slots : jobs'[t].attempts = jobs[t].attempts /\ jobs'[t].shows = jobs[t].shows
    BY <1>2
<1>4. Types' BY <1>2 DEF AlertInv, Types, Settles
<1>5. ASSUME NEW t \in Slots PROVE JobOK(t)'
    <2>1. JobOK(t) BY DEF AlertInv
    <2>2. CASE t # s
        BY <1>2, <2>1, <2>2 DEF JobOK, Was, Started, Settles
    <2>3. CASE t = s
        BY <1>2, <2>1, <2>3 DEF JobOK, Was, Started, Settles, Outcomes
    <2>4. QED BY <2>2, <2>3
<1>6. ASSUME NEW q \in Runs PROVE RunOK(runs[q])'
    <2>1. RunOK(runs[q]) /\ runs[q] \in Run /\ runs'[q] \in Run
        BY DEF AlertInv, Types, Settles
    <2>2. runs[q].slot \in Slots /\ runs[q].rows \subseteq Slots
        BY <2>1 DEF Run
    <2>3. \A t \in Slots : Was(t) # "none" => jobs'[t].state # "none"
        BY <1>2 DEF Was, Settles, Outcomes
    <2>4. \A t \in Slots : Started(t) => jobs'[t].state \in {"sent", "delivery_unknown"}
        BY <1>2 DEF Was, Started, Settles, Outcomes
    <2>5. CASE q # r
        <3>1. runs'[q] = runs[q] BY <2>5 DEF Settles
        <3>2. runs[q].pc = "marking" => runs[q].slot # s
            BY <2>1, <2>5 DEF RunOK, Settles, Rows
        <3>3. QED
            BY <1>2, <1>3, <2>1, <2>2, <2>3, <2>4, <3>1, <3>2
            DEF RunOK, Active, Holds, Was, Started, Settles
    <2>6. CASE q = r
        BY <1>2, <1>3, <2>1, <2>2, <2>3, <2>4, <2>6
        DEF RunOK, Active, Holds, Was, Started, Settles, Outcomes
    <2>7. QED BY <2>5, <2>6
<1>7. ASSUME NEW p \in Runs, NEW q \in Runs, p # q PROVE Apart(runs[p], runs[q])'
    <2>1. Apart(runs[p], runs[q])
        BY <1>7 DEF AlertInv
    <2>2. QED BY <1>7, <2>1 DEF Apart, Active, Settles
<1>8. BatchOK'
    <2>1. BatchOK /\ JobOK(DailySlot) /\ JobOK(s)
        BY <1>1, AlertAssumption DEF AlertInv, AlertAssumption
    <2>2. CASE s # DailySlot
        <3>1. jobs'[DailySlot] = jobs[DailySlot]
            BY <1>2, <2>2, AlertAssumption DEF AlertAssumption
        <3>2. batch' = batch
            BY <1>2, <2>1, <2>2 DEF JobOK, Was
        <3>3. QED BY <2>1, <3>1, <3>2 DEF BatchOK, Was, Settles
    <2>3. CASE s = DailySlot
        BY <1>2, <2>1, <2>3 DEF BatchOK, Was, Started, Settles, Outcomes
    <2>4. QED BY <2>2, <2>3
<1>9. OldOK'
    <2>1. OldOK /\ BatchOK /\ JobOK(s)
        BY <1>1 DEF AlertInv
    <2>2. shown'[Earlier] = shown[Earlier]
        BY <1>1, AlertAssumption DEF Settles, AlertAssumption
    <2>3. jobs[s].batch => s = DailySlot
        BY <2>1 DEF JobOK
    <2>4. CASE batch' = batch
        BY <2>1, <2>2, <2>4 DEF OldOK, Settles
    <2>5. CASE jobs[s].batch
        <3>1. ~(batch.by = Earlier /\ batch.state \in {"sent", "delivery_unknown"})
            BY <2>1, <2>3, <2>5 DEF BatchOK, Earlier
        <3>2. QED BY <2>1, <3>1 DEF OldOK, Settles
    <2>6. QED BY <1>2, <2>4, <2>5
<1>10. settings' = settings /\ mails' = mails BY DEF Settles
<1>11. QED BY <1>4, <1>5, <1>6, <1>7, <1>8, <1>9, <1>10 DEF AlertInv

\* A run is moved, gives up its rows, and perhaps notes an outcome.
AfterStart(f, r, pc, outcome) ==
    \/ f = [runs EXCEPT ![r].pc = pc, ![r].rows = {}] /\ outcome = runs[r].outcome
    \/ f = [runs EXCEPT ![r].pc = pc, ![r].rows = {}, ![r].outcome = outcome]

\* The fields of such a run.
LEMMA RunAfterStart ==
    ASSUME runs \in [Runs -> Run], NEW r \in Runs, NEW pc \in Places, NEW outcome \in Outcomes,
           NEW f, AfterStart(f, r, pc, outcome)
    PROVE  /\ f \in [Runs -> Run] /\ \A q \in Runs : q # r => f[q] = runs[q]
           /\ f[r].pc = pc /\ f[r].rows = {} /\ f[r].outcome = outcome
           /\ f[r].slot = runs[r].slot /\ f[r].token = runs[r].token
           /\ f[r].shows = runs[r].shows
<1> DEFINE n == [runs EXCEPT ![r].pc = pc]
           g == [n EXCEPT ![r].rows = {}]
           h == [g EXCEPT ![r].outcome = outcome]
<1>1. (f = g /\ outcome = runs[r].outcome) \/ f = h
    BY DEF AfterStart
<1>2. /\ n \in [Runs -> Run] /\ \A q \in Runs : q # r => n[q] = runs[q]
      /\ n[r].pc = pc /\ n[r].outcome = runs[r].outcome
      /\ n[r].slot = runs[r].slot /\ n[r].token = runs[r].token
      /\ n[r].shows = runs[r].shows
    BY SetPc
<1> HIDE DEF n
<1>3. /\ g \in [Runs -> Run] /\ \A q \in Runs : q # r => g[q] = runs[q]
      /\ g[r].pc = pc /\ g[r].rows = {} /\ g[r].outcome = runs[r].outcome
      /\ g[r].slot = runs[r].slot /\ g[r].token = runs[r].token
      /\ g[r].shows = runs[r].shows
    BY <1>2, SetRows
<1> HIDE DEF g
<1>4. /\ h \in [Runs -> Run] /\ \A q \in Runs : q # r => h[q] = runs[q]
      /\ h[r].pc = pc /\ h[r].rows = {} /\ h[r].outcome = outcome
      /\ h[r].slot = runs[r].slot /\ h[r].token = runs[r].token
      /\ h[r].shows = runs[r].shows
    BY <1>3, SetOutcome
<1> HIDE DEF h
<1>5. QED BY <1>1, <1>3, <1>4

\* A start is recorded, or refused because what the mail shows has changed.
LEMMA MarkEndsKeeps ==
    ASSUME AlertInv, NEW r \in Runs, MarkEnds(r)
    PROVE  AlertInv'
<1> DEFINE s == runs[r].slot
<1>1. /\ runs \in [Runs -> Run] /\ s \in Slots /\ RunOK(runs[r]) /\ JobOK(s)
      /\ runs[r].pc = "marking" /\ runs[r].outcome \in Outcomes
      /\ shown \in [Slots \cup {Earlier} -> World] /\ world \in World
      /\ mishaps \in 0..MaxMishaps /\ MaxMishaps \in Nat
    BY AlertAssumption DEF AlertInv, Types, MarkEnds, Run, AlertAssumption
<1>2. /\ Holds(runs[r]) /\ Was(s) = "reserved" /\ s \in runs[r].rows /\ Active(runs[r])
      /\ ~Started(s)
    BY <1>1 DEF RunOK, Active, Started
<1>3. Rows(s) \subseteq {r} BY <1>2, OwnRows
<1>4. \A m \in mails : m.by # s BY <1>1, <1>2 DEF JobOK
<1>5. runs[r].outcome # "sent"
    BY <1>1, <1>2, <1>4 DEF RunOK
<1>6. UNCHANGED <<settings, world, due, userLock, old, mails, changes>>
    BY DEF MarkEnds
<1>7. CASE IsCurrent(s)
    <2>1. SetJob(s, "delivery_unknown") /\ shown' = [shown EXCEPT ![s] = world]
        BY <1>7 DEF MarkEnds, StartState
    <2>2. /\ shown' \in [Slots \cup {Earlier} -> World] /\ shown'[s] = jobs[s].shows
          /\ jobs[s].shows.wanted
          /\ \A x \in Slots \cup {Earlier} : x # s => shown'[x] = shown[x]
        BY <1>1, <1>7, <2>1 DEF IsCurrent
    <2>3. PICK pc \in {"sending", "failing"}, outcome \in Outcomes \ {"sent"} :
            AfterStart(runs', r, pc, outcome) /\ mishaps' \in 0..MaxMishaps
        <3>1. CASE /\ runs' = [runs EXCEPT ![r].pc = "sending", ![r].rows = {},
                                           ![r].outcome = "delivery_unknown"]
                   /\ UNCHANGED mishaps
            <4>1. "delivery_unknown" \in Outcomes \ {"sent"} /\ mishaps' \in 0..MaxMishaps
                BY <1>1, <3>1 DEF Outcomes
            <4>2. QED BY <3>1, <4>1 DEF AfterStart
        <3>2. CASE /\ mishaps < MaxMishaps /\ mishaps' = mishaps + 1
                   /\ runs' = [runs EXCEPT ![r].pc = "failing", ![r].rows = {}]
            <4>1. runs[r].outcome \in Outcomes \ {"sent"} /\ mishaps' \in 0..MaxMishaps
                BY <1>1, <1>5, <3>2
            <4>2. QED BY <3>2, <4>1 DEF AfterStart
        <3>3. QED BY <1>7, <3>1, <3>2 DEF MarkEnds
    <2>4. pc \in Places BY <2>3 DEF Places
    <2>5. /\ runs' \in [Runs -> Run] /\ \A q \in Runs : q # r => runs'[q] = runs[q]
          /\ runs'[r].pc = pc /\ runs'[r].rows = {} /\ runs'[r].outcome = outcome
          /\ runs'[r].slot = s /\ runs'[r].token = runs[r].token
          /\ runs'[r].shows = runs[r].shows
        BY <1>1, <2>3, <2>4, RunAfterStart
    <2>6. Settles(r, "delivery_unknown")
        BY <1>1, <1>2, <1>3, <1>4, <1>6, <2>1, <2>2, <2>3, <2>5 DEF Settles, Outcomes, Started
    <2>7. QED BY <2>3, <2>6, SettlesKeeps
<1>8. CASE ~IsCurrent(s)
    <2>1. /\ SetJob(s, "known_not_sent") /\ shown' = shown
          /\ AfterStart(runs', r, "claiming_next", runs[r].outcome)
          /\ mishaps' \in 0..MaxMishaps
        BY <1>1, <1>8 DEF MarkEnds, AfterStart
    <2>2. "claiming_next" \in Places BY DEF Places
    <2>3. /\ runs' \in [Runs -> Run] /\ \A q \in Runs : q # r => runs'[q] = runs[q]
          /\ runs'[r].pc = "claiming_next" /\ runs'[r].rows = {}
          /\ runs'[r].outcome = runs[r].outcome
          /\ runs'[r].slot = s /\ runs'[r].token = runs[r].token
          /\ runs'[r].shows = runs[r].shows
        BY <1>1, <2>1, <2>2, RunAfterStart
    <2>4. Settles(r, "known_not_sent")
        BY <1>1, <1>2, <1>3, <1>5, <1>6, <2>1, <2>3 DEF Settles, Outcomes, Started
    <2>5. QED BY <2>1, <2>4, SettlesKeeps
<1>9. QED BY <1>7, <1>8

\* A settlement arrives, perhaps late, and counts only with the job's token.
LEMMA CompleteKeeps ==
    ASSUME AlertInv, NEW r \in Runs, Complete(r)
    PROVE  AlertInv'
<1> DEFINE s == runs[r].slot
           outcome == runs[r].outcome
<1>1. /\ runs \in [Runs -> Run] /\ s \in Slots /\ RunOK(runs[r]) /\ JobOK(s)
      /\ runs[r].pc \in {"completing", "failing"} /\ outcome \in Outcomes
      /\ shown \in [Slots \cup {Earlier} -> World]
      /\ mishaps \in 0..MaxMishaps /\ MaxMishaps \in Nat
    BY AlertAssumption DEF AlertInv, Types, Complete, Run, AlertAssumption
<1>2. Active(runs[r]) /\ Rows(s) = {} /\ settings.activated
    BY <1>1 DEF Active, Complete, RunOK
<1>3. PICK pc \in {"claiming_next", "failing"} : To(r, pc) /\ mishaps' \in 0..MaxMishaps
    <2>1. CASE To(r, "claiming_next") /\ UNCHANGED mishaps BY <1>1, <2>1
    <2>2. CASE mishaps < MaxMishaps /\ mishaps' = mishaps + 1 /\ To(r, "failing")
        BY <1>1, <2>2
    <2>3. QED BY <2>1, <2>2 DEF Complete
<1>4. pc \in Places /\ pc \in Places \ {"marking", "sending"} BY <1>3 DEF Places
<1>5. UNCHANGED <<settings, world, due, userLock, old, mails, shown, changes>>
    BY DEF Complete
<1>6. CASE ~(HasToken(r) /\ ~CompletionStands(s, outcome))
    <2>1. UNCHANGED <<jobs, batch>> BY <1>6 DEF Complete
    <2>2. QED BY <1>2, <1>3, <1>4, <1>5, <2>1, GoesOn
<1>7. CASE HasToken(r) /\ ~CompletionStands(s, outcome)
    <2>1. SetJob(s, outcome) BY <1>7 DEF Complete
    <2>2. Was(s) # "sent" /\ (Started(s) <=> outcome # "known_not_sent")
        BY <1>7 DEF CompletionStands, Started
    <2>3. Was(s) # "none"
        BY <1>1, <1>2 DEF RunOK
    <2>4. /\ runs' \in [Runs -> Run] /\ runs'[r].pc = pc
          /\ \A q \in Runs : q # r => runs'[q] = runs[q]
          /\ runs'[r].slot = s /\ runs'[r].token = runs[r].token
          /\ runs'[r].shows = runs[r].shows /\ runs'[r].rows = runs[r].rows
          /\ runs'[r].outcome = outcome
        BY <1>1, <1>3, <1>4, SetPc DEF To
    <2>5. outcome = "sent" => \E m \in mails : m.by = s
        BY <1>1, <1>2 DEF RunOK
    <2>6. Settles(r, outcome)
        BY <1>1, <1>2, <1>3, <1>5, <2>1, <2>2, <2>3, <2>4, <2>5 DEF Settles, Started, Outcomes
    <2>7. QED BY <1>3, <2>6, SettlesKeeps
<1>8. QED BY <1>6, <1>7

----------------------------------------------------------------------------
(* A mail leaves.                                                          *)

\* The mail of a run that was sending what it started: the slot's first.
LEMMA MailLeaves ==
    ASSUME AlertInv, NEW r \in Runs, runs[r].pc = "sending", NEW m,
           m = [by |-> runs[r].slot, token |-> runs[r].token, shows |-> runs[r].shows],
           mails' = mails \cup {m}, mishaps' \in 0..MaxMishaps,
           runs' \in [Runs -> Run], \A q \in Runs : q # r => runs'[q] = runs[q],
           runs'[r].pc \in {"completing", "failing"}, runs'[r].rows = runs[r].rows,
           runs'[r].slot = runs[r].slot, runs'[r].token = runs[r].token,
           runs'[r].shows = runs[r].shows,
           UNCHANGED <<settings, world, due, jobs, batch, userLock, old, shown, changes>>
    PROVE  AlertInv'
<1> DEFINE s == runs[r].slot
<1>1. /\ runs[r] \in Run /\ s \in Slots /\ RunOK(runs[r]) /\ JobOK(s) /\ Earlier \notin Slots
    BY AlertAssumption DEF AlertInv, Types, Run, AlertAssumption
<1>2. m.by = s /\ m.shows = runs[r].shows /\ m \in Mail
    BY <1>1 DEF Mail, Run
<1>3. /\ Active(runs[r]) /\ Holds(runs[r]) /\ Started(s) /\ m.shows = jobs[s].shows
      /\ \A n \in mails : n.by # s
    BY <1>1, <1>2 DEF RunOK, Active
<1>4. Types' BY <1>2 DEF AlertInv, Types
<1>5. \A x, y \in mails' : x.by = y.by => x = y
    BY <1>2, <1>3 DEF AlertInv
<1>6. ASSUME NEW t \in Slots PROVE JobOK(t)'
    <2>1. JobOK(t) BY DEF AlertInv
    <2>2. QED BY <1>2, <1>3, <2>1 DEF JobOK, Was, Started
<1>7. ASSUME NEW q \in Runs PROVE RunOK(runs[q])'
    <2>1. RunOK(runs[q]) BY DEF AlertInv
    <2>2. CASE q # r
        <3>1. Apart(runs[q], runs[r]) /\ runs'[q] = runs[q]
            BY <2>2 DEF AlertInv
        <3>2. runs[q].pc = "sending" => runs[q].slot # s
            BY <1>3, <2>1, <3>1 DEF RunOK, Apart, Active, Holds
        <3>3. QED BY <1>2, <2>1, <3>1, <3>2 DEF RunOK, Active, Holds, Was, Started
    <2>3. CASE q = r
        BY <1>2, <1>3, <2>1, <2>3 DEF RunOK, Active, Holds, Was, Started
    <2>4. QED BY <2>2, <2>3
<1>8. ASSUME NEW p \in Runs, NEW q \in Runs, p # q PROVE Apart(runs[p], runs[q])'
    <2>1. Apart(runs[p], runs[q]) BY <1>8 DEF AlertInv
    <2>2. QED BY <1>3, <1>8, <2>1 DEF Apart, Active
<1>9. BatchOK' BY DEF AlertInv, BatchOK, Was
<1>10. OldOK'
    BY <1>1, <1>2 DEF AlertInv, OldOK
<1>11. settings' = settings OBVIOUS
<1>12. QED BY <1>4, <1>5, <1>6, <1>7, <1>8, <1>9, <1>10, <1>11 DEF AlertInv

\* The provider is called; its answer may be lost, and so may the mail.
LEMMA SendKeeps ==
    ASSUME AlertInv, NEW r \in Runs, Send(r)
    PROVE  AlertInv'
<1> DEFINE m == [by |-> runs[r].slot, token |-> runs[r].token, shows |-> runs[r].shows]
<1>1. /\ runs \in [Runs -> Run] /\ RunOK(runs[r]) /\ runs[r].pc = "sending"
      /\ mishaps \in 0..MaxMishaps /\ MaxMishaps \in Nat
      /\ "completing" \in Places /\ "failing" \in Places /\ "sent" \in Outcomes
    BY AlertAssumption DEF AlertInv, Types, Send, AlertAssumption, Places, Outcomes
<1>2. UNCHANGED <<settings, world, due, jobs, batch, userLock, old, shown, changes>>
    BY DEF Send
<1>3. CASE /\ mails' = mails \cup {m} /\ UNCHANGED mishaps
           /\ runs' = [runs EXCEPT ![r].pc = "completing", ![r].outcome = "sent"]
    <2> DEFINE n == [runs EXCEPT ![r].pc = "completing"]
               g == [n EXCEPT ![r].outcome = "sent"]
    <2>1. /\ n \in [Runs -> Run] /\ n[r].pc = "completing" /\ n[r].rows = runs[r].rows
          /\ \A q \in Runs : q # r => n[q] = runs[q]
          /\ n[r].slot = runs[r].slot /\ n[r].token = runs[r].token
          /\ n[r].shows = runs[r].shows
        BY <1>1, SetPc
    <2>2. runs' = g BY <1>3
    <2> HIDE DEF n
    <2>3. /\ g \in [Runs -> Run] /\ g[r].pc = "completing" /\ g[r].rows = runs[r].rows
          /\ \A q \in Runs : q # r => g[q] = runs[q]
          /\ g[r].slot = runs[r].slot /\ g[r].token = runs[r].token
          /\ g[r].shows = runs[r].shows
        BY <1>1, <2>1, SetOutcome
    <2> HIDE DEF g, m
    <2>4. mishaps' \in 0..MaxMishaps BY <1>1, <1>3
    <2>5. m = [by |-> runs[r].slot, token |-> runs[r].token, shows |-> runs[r].shows]
        BY DEF m
    <2>6. QED BY <1>1, <1>2, <1>3, <2>2, <2>3, <2>4, <2>5, MailLeaves
<1>4. CASE mails' = mails \cup {m} /\ mishaps' \in 0..MaxMishaps /\ To(r, "failing")
    <2>1. /\ runs' \in [Runs -> Run] /\ runs'[r].pc = "failing" /\ runs'[r].rows = runs[r].rows
          /\ \A q \in Runs : q # r => runs'[q] = runs[q]
          /\ runs'[r].slot = runs[r].slot /\ runs'[r].token = runs[r].token
          /\ runs'[r].shows = runs[r].shows
        BY <1>1, <1>4, SetPc DEF To
    <2>2. m = [by |-> runs[r].slot, token |-> runs[r].token, shows |-> runs[r].shows]
        OBVIOUS
    <2> HIDE DEF m
    <2>3. QED BY <1>1, <1>2, <1>4, <2>1, <2>2, MailLeaves
<1>5. CASE mails' = mails /\ mishaps' \in 0..MaxMishaps /\ To(r, "failing")
    <2>1. Active(runs[r]) /\ settings.activated /\ "failing" \in Places \ {"marking", "sending"}
        BY <1>1 DEF Active, RunOK
    <2>2. QED BY <1>2, <1>5, <2>1, GoesOn
<1>6. mishaps < MaxMishaps /\ mishaps' = mishaps + 1 => mishaps' \in 0..MaxMishaps
    BY <1>1
<1>7. QED BY <1>3, <1>4, <1>5, <1>6 DEF Send

----------------------------------------------------------------------------
(* A job is claimed.                                                       *)

\* The run that claimed a job.
Claimed(s, shows, token) ==
    [NoRun EXCEPT !.pc = "claimed", !.slot = s, !.shows = shows, !.token = token]

\* Its fields.
LEMMA RunAfterClaim ==
    ASSUME NEW s \in Slots, NEW shows \in World, NEW token \in 0..MaxAttempts
    PROVE  LET x == Claimed(s, shows, token)
           IN /\ x \in Run /\ x.pc = "claimed" /\ x.slot = s /\ x.shows = shows
              /\ x.token = token /\ x.rows = {} /\ x.outcome = "known_not_sent"
<1> DEFINE a == [NoRun EXCEPT !.pc = "claimed"]
           b == [a EXCEPT !.slot = s]
           c == [b EXCEPT !.shows = shows]
           d == [c EXCEPT !.token = token]
<1>1. a \in Run /\ a.pc = "claimed" /\ a.rows = {} /\ a.outcome = "known_not_sent"
    BY NothingHeld DEF Run
<1> HIDE DEF a
<1>2. /\ b \in Run /\ b.pc = "claimed" /\ b.rows = {} /\ b.outcome = "known_not_sent"
      /\ b.slot = s
    BY <1>1 DEF Run
<1> HIDE DEF b
<1>3. /\ c \in Run /\ c.pc = "claimed" /\ c.rows = {} /\ c.outcome = "known_not_sent"
      /\ c.slot = s /\ c.shows = shows
    BY <1>2 DEF Run
<1> HIDE DEF c
<1>4. /\ d \in Run /\ d.pc = "claimed" /\ d.rows = {} /\ d.outcome = "known_not_sent"
      /\ d.slot = s /\ d.shows = shows /\ d.token = token
    BY <1>3 DEF Run
<1>5. QED BY <1>4 DEF a, b, c, d, Claimed

\* A batch that may be taken was not started, and has a try left.
LEMMA BatchMayBeTaken ==
    ASSUME AlertInv, ~BatchIsTaken(DailySlot)
    PROVE  /\ batch.state \notin {"sent", "delivery_unknown"}
           /\ ~jobs[DailySlot].batch => batch.tries + 1 \in 0..MaxAttempts
<1>1. batch.state \in JobState /\ batch.tries \in 0..MaxAttempts /\ BatchOK
    BY DEF AlertInv, Types, Batch
<1>2. batch.state \notin {"sent", "delivery_unknown"}
    BY DEF BatchIsTaken
<1>3. ~jobs[DailySlot].batch => batch.tries = 0 \/ ~(batch.tries >= MaxAttempts)
    BY <1>1 DEF BatchIsTaken, BatchOK
<1>4. QED BY <1>1, <1>2, <1>3 DEF MaxAttempts

\* A job is claimed while nothing of it was started and nobody starts it; its earlier
\* claimants have lost its token.
LEMMA ClaimSlotKeeps ==
    ASSUME AlertInv, NEW r \in Runs, NEW s \in Slots, ClaimSlot(r, s)
    PROVE  AlertInv'
<1> DEFINE j == [state |-> "reserved", attempts |-> jobs[s].attempts + 1, shows |-> world,
                 batch |-> UsesBatch(s), fresh |-> TRUE]
           tries == IF jobs[s].batch THEN jobs[s].attempts + 1 ELSE batch.tries + 1
           x == Claimed(s, world, jobs[s].attempts + 1)
<1>1. /\ jobs \in [Slots -> Job] /\ jobs[s] \in Job /\ world \in World /\ batch \in Batch
      /\ runs \in [Runs -> Run] /\ JobOK(s) /\ RunOK(runs[r]) /\ BatchOK /\ OldOK
      /\ DailySlot \in Slots /\ Earlier \notin Slots
    BY AlertAssumption DEF AlertInv, Types, AlertAssumption
<1>2. /\ jobs' = [jobs EXCEPT ![s] = j] /\ runs' = [runs EXCEPT ![r] = x]
      /\ batch' = IF UsesBatch(s) THEN [state |-> "reserved", by |-> "personal", tries |-> tries]
                  ELSE batch
      /\ userLock' = Nobody
      /\ UNCHANGED <<settings, world, due, old, mails, shown, changes, mishaps>>
    BY DEF ClaimSlot, Claimed
<1>3. /\ ~Started(s) /\ ~(jobs[s].attempts >= MaxAttempts) /\ world.wanted
      /\ UsesBatch(s) => ~BatchIsTaken(s)
      /\ RowIsFree(r, s) /\ runs[r].pc = "claiming"
    BY DEF ClaimSlot, SkipsSlot, Waits
<1>4. jobs[s].attempts + 1 \in 0..MaxAttempts /\ jobs[s].attempts \in Nat
    BY <1>1, <1>3 DEF Job, MaxAttempts
<1>5. /\ j.state = "reserved" /\ j.attempts = jobs[s].attempts + 1 /\ j.shows = world
      /\ j.batch = UsesBatch(s)
    OBVIOUS
<1>6. j \in Job
    <2>1. UsesBatch(s) \in BOOLEAN BY DEF UsesBatch
    <2>2. QED BY <1>1, <1>4, <2>1 DEF Job, JobState
<1> HIDE DEF j
<1>7. /\ jobs' \in [Slots -> Job] /\ jobs'[s] = j
      /\ \A t \in Slots : t # s => jobs'[t] = jobs[t]
    BY <1>1, <1>2, <1>6
<1>8. /\ x \in Run /\ x.pc = "claimed" /\ x.slot = s /\ x.shows = world
      /\ x.token = jobs[s].attempts + 1 /\ x.rows = {} /\ x.outcome = "known_not_sent"
    BY <1>1, <1>4, RunAfterClaim
<1> HIDE DEF x
<1>9. /\ runs' \in [Runs -> Run] /\ runs'[r] = x
      /\ \A q \in Runs : q # r => runs'[q] = runs[q]
    BY <1>1, <1>2, <1>8
<1>10. UsesBatch(s) <=> s = DailySlot /\ world.manager
    BY DEF UsesBatch
<1>11. UsesBatch(s) => tries \in 0..MaxAttempts
    BY <1>3, <1>4, <1>10, BatchMayBeTaken
<1> HIDE DEF tries
<1>12. batch' \in Batch
    BY <1>1, <1>2, <1>11 DEF Batch, JobState
<1>13. Types' BY <1>2, <1>7, <1>9, <1>12 DEF AlertInv, Types
<1>14. ASSUME NEW t \in Slots PROVE JobOK(t)'
    <2>1. JobOK(t) BY DEF AlertInv
    <2>2. CASE t # s BY <1>2, <1>7, <2>1, <2>2 DEF JobOK, Was, Started
    <2>3. CASE t = s
        BY <1>2, <1>3, <1>5, <1>7, <1>10, <2>1, <2>3 DEF JobOK, Was, Started
    <2>4. QED BY <2>2, <2>3
<1>15. \A q \in Runs : Active(runs[q]) /\ runs[q].slot = s =>
          runs[q].token \in Nat /\ runs[q].token < jobs[s].attempts + 1
    <2>1. ASSUME NEW q \in Runs, Active(runs[q]), runs[q].slot = s
          PROVE  runs[q].token \in Nat /\ runs[q].token < jobs[s].attempts + 1
        <3>1. RunOK(runs[q]) /\ runs[q] \in Run BY DEF AlertInv, Types
        <3>2. runs[q].token \in Nat /\ runs[q].token <= jobs[s].attempts
            BY <2>1, <3>1 DEF RunOK, Run, MaxAttempts
        <3>3. QED BY <1>4, <3>2
    <2>2. QED BY <2>1
<1>16. ASSUME NEW q \in Runs PROVE RunOK(runs[q])'
    <2>1. CASE q # r
        <3>1. RunOK(runs[q]) /\ runs'[q] = runs[q] /\ runs[q] \in Run
            BY <1>9, <2>1 DEF AlertInv, Types
        <3>2. runs[q].slot \in Slots /\ runs[q].rows \subseteq Slots
            BY <3>1 DEF Run
        <3>3. runs[q].pc \in {"marking", "sending"} => runs[q].slot # s
            <4>1. runs[q].pc = "sending" => runs[q].slot # s
                BY <1>3, <3>1 DEF RunOK
            <4>2. runs[q].pc = "marking" => runs[q].slot # s
                BY <1>3, <2>1, <3>1 DEF RunOK, RowIsFree, Rows
            <4>3. QED BY <4>1, <4>2
        <3>4. CASE runs[q].slot # s
            BY <1>2, <1>5, <1>7, <3>1, <3>2, <3>3, <3>4 DEF RunOK, Active, Holds, Was, Started
        <3>5. CASE runs[q].slot = s
            <4>1. Active(runs[q]) => runs[q].token <= jobs'[s].attempts
                                     /\ runs[q].token # jobs'[s].attempts
                BY <1>4, <1>5, <1>7, <1>15, <3>5
            <4>2. QED
                BY <1>2, <1>5, <1>7, <3>1, <3>2, <3>3, <3>5, <4>1
                DEF RunOK, Active, Holds, Was, Started
        <3>6. QED BY <3>4, <3>5
    <2>2. CASE q = r
        <3>1. settings'.activated
            BY <1>1, <1>2, <1>3 DEF RunOK
        <3>2. x.token <= jobs'[s].attempts
            BY <1>4, <1>5, <1>7, <1>8
        <3>3. QED
            BY <1>2, <1>5, <1>7, <1>8, <1>9, <2>2, <3>1, <3>2 DEF RunOK, Active, Holds, Was
    <2>3. QED BY <2>1, <2>2
<1>17. ASSUME NEW p \in Runs, NEW q \in Runs, p # q PROVE Apart(runs[p], runs[q])'
    <2>1. Apart(runs[p], runs[q]) BY <1>17 DEF AlertInv
    <2>2. \A o \in Runs : Active(runs[o]) /\ runs[o].slot = s => runs[o].token # x.token
        BY <1>4, <1>8, <1>15
    <2>3. Apart(runs'[p], runs'[q])
        <3>1. CASE p = r
            BY <1>8, <1>9, <1>17, <2>2, <3>1 DEF Apart
        <3>2. CASE q = r
            BY <1>8, <1>9, <1>17, <2>2, <3>2 DEF Apart
        <3>3. CASE p # r /\ q # r
            BY <1>9, <2>1, <3>3
        <3>4. QED BY <3>1, <3>2, <3>3
    <2>4. QED BY <2>3 DEF Apart, Active
<1>18. BatchOK'
    <2>1. CASE s # DailySlot
        BY <1>1, <1>2, <1>7, <1>10, <2>1 DEF BatchOK, Was
    <2>2. CASE s = DailySlot /\ UsesBatch(s)
        <3>1. settings'.activated BY <1>1, <1>2, <1>3 DEF RunOK
        <3>2. batch'.state = "reserved" /\ batch'.by = "personal"
            BY <1>2, <2>2
        <3>3. QED BY <1>5, <1>7, <2>2, <3>1, <3>2 DEF BatchOK, Was
    <2>3. CASE s = DailySlot /\ ~UsesBatch(s)
        BY <1>1, <1>2, <1>3, <1>5, <1>7, <2>3 DEF BatchOK, Was, Started
    <2>4. QED BY <2>1, <2>2, <2>3
<1>19. OldOK'
    <2>1. batch.state \in {"sent", "delivery_unknown"} => batch' = batch
        BY <1>2, <1>3, <1>10, BatchMayBeTaken
    <2>2. QED BY <1>1, <1>2, <2>1 DEF OldOK
<1>20. QED BY <1>2, <1>13, <1>14, <1>16, <1>17, <1>18, <1>19 DEF AlertInv

----------------------------------------------------------------------------
(* The earlier sender of the managers' digest.                             *)

\* The earlier sender changes no job and no run; what it mails is its only mail.
LEMMA OldKeeps ==
    ASSUME AlertInv, OldUnchanged, batch' \in Batch, old' \in OldRun,
           shown' \in [Slots \cup {Earlier} -> World],
           \A s \in Slots : shown'[s] = shown[s],
           \/ mails' = mails
           \/ \E m \in Mail : /\ m.by = Earlier /\ mails' = mails \cup {m}
                              /\ \A n \in mails : n.by # Earlier,
           BatchOK', OldOK'
    PROVE  AlertInv'
<1>1. Earlier \notin Slots
    BY AlertAssumption DEF AlertAssumption
<1>2. /\ mails' \in SUBSET Mail /\ mails \subseteq mails'
      /\ \A m \in mails' : m \in mails \/ m.by = Earlier
      /\ \A m, n \in mails' : m.by = n.by => m = n
    BY DEF AlertInv, Types
<1>3. Types' BY <1>2 DEF AlertInv, Types, OldUnchanged
<1>4. ASSUME NEW s \in Slots PROVE JobOK(s)'
    <2>1. JobOK(s) BY DEF AlertInv
    <2>2. QED BY <1>1, <1>2, <2>1 DEF JobOK, Was, Started, OldUnchanged
<1>5. ASSUME NEW r \in Runs PROVE RunOK(runs[r])'
    <2>1. RunOK(runs[r]) /\ runs[r].slot \in Slots BY DEF AlertInv, Types, Run
    <2>2. QED BY <1>1, <1>2, <2>1 DEF RunOK, Active, Holds, Was, Started, OldUnchanged
<1>6. \A r, q \in Runs : r # q => Apart(runs[r], runs[q])'
    BY DEF AlertInv, Apart, Active, OldUnchanged
<1>7. settings' = settings BY DEF OldUnchanged
<1>8. QED BY <1>2, <1>3, <1>4, <1>5, <1>6, <1>7 DEF AlertInv

\* A digest that was not started by the earlier sender has left no mail of it.
LEMMA NoOldMail ==
    ASSUME AlertInv, batch.state \notin {"sent", "delivery_unknown"}
    PROVE  \A m \in mails : m.by # Earlier
BY DEF AlertInv, OldOK

\* The earlier sender that stops, or has not begun.
LEMMA NoOldIsOld ==
    /\ NoOld \in OldRun /\ NoOld.pc = "idle"
    /\ \A x \in OldRun, pc \in {"idle", "looking", "reserved", "sending", "completing"} :
         LET y == [x EXCEPT !.pc = pc]
         IN y \in OldRun /\ y.pc = pc /\ y.shows = x.shows /\ y.token = x.token
            /\ y.outcome = x.outcome
<1>1. 0 \in 0..MaxAttempts BY DEF MaxAttempts
<1>2. NoOld \in OldRun /\ NoOld.pc = "idle"
    BY <1>1, NothingHeld DEF NoOld, OldRun, Outcomes
<1>3. QED BY <1>2 DEF OldRun

\* The earlier sender looks, fails, or stops.
LEMMA OldMovesKeeps ==
    ASSUME AlertInv, OldLooks \/ OldFails \/ OldCrashes
    PROVE  AlertInv'
<1>1. old \in OldRun /\ batch \in Batch /\ shown \in [Slots \cup {Earlier} -> World]
    BY DEF AlertInv, Types
<1>2. UNCHANGED <<batch, mails, shown>> /\ OldUnchanged
    BY DEF OldLooks, OldFails, OldCrashes
<1>3. \/ old' = [old EXCEPT !.pc = "looking"]
      \/ old' = [old EXCEPT !.pc = "completing"]
      \/ old' = NoOld
    BY DEF OldLooks, OldFails, OldCrashes
<1>4. old' \in OldRun /\ old'.pc # "sending"
    BY <1>1, <1>3, NoOldIsOld
<1>5. BatchOK' BY <1>2 DEF AlertInv, BatchOK, Was, OldUnchanged
<1>6. OldOK' BY <1>2, <1>4 DEF AlertInv, OldOK
<1>7. QED BY <1>1, <1>2, <1>4, <1>5, <1>6, OldKeeps

\* The earlier sender takes the batch of the day, or takes it back.
LEMMA OldReservesKeeps ==
    ASSUME AlertInv, OldReserves
    PROVE  AlertInv'
<1>1. /\ old \in OldRun /\ batch \in Batch /\ shown \in [Slots \cup {Earlier} -> World]
      /\ world \in World /\ BatchOK /\ OldOK /\ JobOK(DailySlot)
    BY AlertAssumption DEF AlertInv, Types, AlertAssumption
<1>2. UNCHANGED <<mails, shown>> /\ OldUnchanged
    BY DEF OldReserves
<1>3. CASE old' = NoOld /\ UNCHANGED batch
    <2>1. BatchOK' BY <1>1, <1>2, <1>3 DEF BatchOK, Was, OldUnchanged
    <2>2. OldOK' BY <1>1, <1>2, <1>3, NoOldIsOld DEF OldOK
    <2>3. QED BY <1>1, <1>2, <1>3, <2>1, <2>2, NoOldIsOld, OldKeeps
<1>4. CASE /\ \/ batch.state = "none"
              \/ batch.state = "known_not_sent" /\ batch.tries < MaxAttempts
           /\ batch' = [state |-> "reserved", by |-> Earlier, tries |-> batch.tries + 1]
           /\ old' = [old EXCEPT !.pc = "reserved", !.shows = world, !.token = batch.tries + 1]
    <2>1. batch.tries \in 0..MaxAttempts /\ batch.tries + 1 \in 0..MaxAttempts
        BY <1>1, <1>4 DEF Batch, BatchOK, MaxAttempts
    <2>2. batch' \in Batch /\ batch'.state = "reserved" /\ batch'.by = Earlier
        BY <1>4, <2>1 DEF Batch, JobState
    <2> DEFINE tries == batch.tries + 1
               a == [old EXCEPT !.pc = "reserved"]
               b == [a EXCEPT !.shows = world]
               c == [b EXCEPT !.token = tries]
    <2>3. old' = c /\ tries \in 0..MaxAttempts BY <1>4, <2>1
    <2>4. a \in OldRun /\ a.pc = "reserved" BY <1>1 DEF OldRun
    <2> HIDE DEF a, tries
    <2>5. b \in OldRun /\ b.pc = "reserved" BY <1>1, <2>4 DEF OldRun
    <2> HIDE DEF b
    <2>6. c \in OldRun /\ c.pc = "reserved" BY <2>3, <2>5 DEF OldRun
    <2> HIDE DEF c
    <2>7. jobs[DailySlot].batch => Was(DailySlot) = "known_not_sent"
        BY <1>1, <1>4 DEF BatchOK, JobOK
    <2>8. BatchOK'
        BY <1>1, <1>2, <2>2, <2>7 DEF BatchOK, Was, OldUnchanged
    <2>9. \A m \in mails : m.by # Earlier BY <1>4, NoOldMail
    <2>10. OldOK' BY <1>2, <2>3, <2>6, <2>9 DEF OldOK
    <2>11. QED BY <1>1, <1>2, <2>2, <2>3, <2>6, <2>8, <2>10, OldKeeps
<1>5. QED BY <1>3, <1>4 DEF OldReserves

\* The earlier sender starts its digest only before the cutover.
LEMMA OldMarksKeeps ==
    ASSUME AlertInv, OldMarks
    PROVE  AlertInv'
<1>1. /\ old \in OldRun /\ batch \in Batch /\ shown \in [Slots \cup {Earlier} -> World]
      /\ world \in World /\ BatchOK /\ OldOK /\ Earlier \notin Slots
    BY AlertAssumption DEF AlertInv, Types, AlertAssumption
<1>2. mails' = mails /\ OldUnchanged
    BY DEF OldMarks
<1>3. CASE old' = NoOld /\ UNCHANGED <<batch, shown>>
    <2>1. BatchOK' BY <1>1, <1>2, <1>3 DEF BatchOK, Was, OldUnchanged
    <2>2. OldOK' BY <1>1, <1>2, <1>3, NoOldIsOld DEF OldOK
    <2>3. QED BY <1>1, <1>2, <1>3, <2>1, <2>2, NoOldIsOld, OldKeeps
<1>4. ASSUME ~settings.activated, OldHasToken, batch.state = "reserved"
      PROVE  /\ batch.by = Earlier /\ ~jobs[DailySlot].batch
             /\ \A m \in mails : m.by # Earlier
    BY <1>1, <1>4, NoOldMail DEF OldHasToken, BatchOK
<1>5. CASE /\ ~settings.activated /\ OldHasToken /\ batch.state = "reserved"
           /\ old.shows.facts = world.facts
           /\ batch' = [batch EXCEPT !.state = "delivery_unknown"]
           /\ shown' = [shown EXCEPT ![Earlier] = world]
           /\ old' = [old EXCEPT !.pc = "sending", !.outcome = "delivery_unknown"]
    <2> DEFINE a == [old EXCEPT !.pc = "sending"]
               b == [a EXCEPT !.outcome = "delivery_unknown"]
    <2>1. old' = b BY <1>5
    <2>2. a \in OldRun /\ a.pc = "sending" /\ a.shows = old.shows BY <1>1 DEF OldRun
    <2> HIDE DEF a
    <2>3. b \in OldRun /\ b.pc = "sending" /\ b.shows = old.shows
        BY <2>2 DEF OldRun, Outcomes
    <2> HIDE DEF b
    <2>4. batch' \in Batch /\ batch'.state = "delivery_unknown" /\ batch'.by = Earlier
        BY <1>1, <1>4, <1>5 DEF Batch, JobState
    <2>5. /\ shown' \in [Slots \cup {Earlier} -> World] /\ shown'[Earlier] = world
          /\ \A s \in Slots : shown'[s] = shown[s]
        BY <1>1, <1>5
    <2>6. BatchOK' BY <1>2, <1>4, <1>5, <2>4 DEF BatchOK, Was, OldUnchanged
    <2>7. OldOK' BY <1>2, <1>4, <1>5, <2>1, <2>3, <2>4, <2>5 DEF OldOK
    <2>8. QED BY <1>2, <2>1, <2>3, <2>4, <2>5, <2>6, <2>7, OldKeeps
<1>6. CASE /\ ~settings.activated /\ OldHasToken /\ batch.state = "reserved"
           /\ batch' = [batch EXCEPT !.state = "known_not_sent"]
           /\ old' = NoOld /\ UNCHANGED shown
    <2>1. batch' \in Batch /\ batch'.state = "known_not_sent"
        BY <1>1, <1>6 DEF Batch, JobState
    <2>2. BatchOK' BY <1>2, <1>4, <1>6, <2>1 DEF BatchOK, Was, OldUnchanged
    <2>3. OldOK' BY <1>2, <1>4, <1>6, NoOldIsOld DEF OldOK
    <2>4. QED BY <1>1, <1>2, <1>6, <2>1, <2>2, <2>3, NoOldIsOld, OldKeeps
<1>7. QED BY <1>3, <1>5, <1>6 DEF OldMarks

\* The earlier sender sends what it started.
LEMMA OldSendsKeeps ==
    ASSUME AlertInv, OldSends
    PROVE  AlertInv'
<1>1. /\ old \in OldRun /\ batch \in Batch /\ shown \in [Slots \cup {Earlier} -> World]
      /\ BatchOK /\ OldOK /\ old.pc = "sending"
    BY DEF AlertInv, Types, OldSends
<1>2. UNCHANGED <<batch, shown>> /\ OldUnchanged
    BY DEF OldSends
<1>3. BatchOK' BY <1>1, <1>2 DEF BatchOK, Was, OldUnchanged
<1>4. CASE old' = [old EXCEPT !.pc = "completing"] /\ UNCHANGED mails
    <2>1. old' \in OldRun /\ old'.pc # "sending" BY <1>1, <1>4, NoOldIsOld
    <2>2. OldOK' BY <1>1, <1>2, <1>4, <2>1 DEF OldOK
    <2>3. QED BY <1>1, <1>2, <1>3, <1>4, <2>1, <2>2, OldKeeps
<1>5. ASSUME NEW outcome \in {"sent", "delivery_unknown"},
             mails' = mails \cup {[by |-> Earlier, token |-> old.token, shows |-> old.shows]},
             old' = [old EXCEPT !.pc = "completing", !.outcome = outcome]
      PROVE  AlertInv'
    <2> DEFINE a == [old EXCEPT !.pc = "completing"]
               b == [a EXCEPT !.outcome = outcome]
               m == [by |-> Earlier, token |-> old.token, shows |-> old.shows]
    <2>1. old' = b BY <1>5
    <2>2. a \in OldRun /\ a.pc = "completing" BY <1>1 DEF OldRun
    <2> HIDE DEF a
    <2>3. b \in OldRun /\ b.pc = "completing" BY <2>2 DEF OldRun, Outcomes
    <2> HIDE DEF b
    <2>4. m \in Mail /\ m.by = Earlier /\ m.shows = old.shows BY <1>1 DEF OldRun, Mail
    <2>5. mails' = mails \cup {m} BY <1>5
    <2> HIDE DEF m
    <2>6. \A n \in mails : n.by # Earlier BY <1>1 DEF OldOK
    <2>7. OldOK' BY <1>1, <1>2, <2>1, <2>3, <2>4, <2>5 DEF OldOK
    <2>8. QED BY <1>1, <1>2, <1>3, <2>1, <2>3, <2>4, <2>5, <2>6, <2>7, OldKeeps
<1>6. QED BY <1>4, <1>5 DEF OldSends

\* A completion of the earlier sender settles only its own batch, and as far as it was.
LEMMA OldCompletesKeeps ==
    ASSUME AlertInv, OldCompletes
    PROVE  AlertInv'
<1>1. /\ old \in OldRun /\ batch \in Batch /\ shown \in [Slots \cup {Earlier} -> World]
      /\ BatchOK /\ OldOK /\ old.outcome \in Outcomes
    BY DEF AlertInv, Types, OldRun
<1>2. UNCHANGED <<mails, shown>> /\ OldUnchanged /\ old' = NoOld
    BY DEF OldCompletes
<1>3. CASE UNCHANGED batch
    <2>1. BatchOK' BY <1>1, <1>2, <1>3 DEF BatchOK, Was, OldUnchanged
    <2>2. OldOK' BY <1>1, <1>2, <1>3, NoOldIsOld DEF OldOK
    <2>3. QED BY <1>1, <1>2, <1>3, <2>1, <2>2, NoOldIsOld, OldKeeps
<1>4. CASE /\ OldHasToken
           /\ batch.state = IF old.outcome = "known_not_sent" THEN "reserved"
                                                              ELSE "delivery_unknown"
           /\ batch' = [batch EXCEPT !.state = old.outcome]
    <2>1. batch.by = Earlier BY <1>4 DEF OldHasToken
    <2>2. /\ batch' \in Batch /\ batch'.state = old.outcome /\ batch'.by = Earlier
          /\ batch'.tries = batch.tries
        BY <1>1, <1>4, <2>1 DEF Batch, JobState, Outcomes
    <2>3. BatchOK'
        <3>1. jobs[DailySlot].batch =>
                /\ settings.activated /\ Was(DailySlot) = "known_not_sent"
                /\ batch.state \in {"reserved", "known_not_sent"}
            BY <1>1, <2>1 DEF BatchOK, Earlier
        <3>2. jobs[DailySlot].batch => old.outcome = "known_not_sent"
            BY <1>4, <3>1
        <3>3. QED BY <1>1, <1>2, <2>2, <3>1, <3>2 DEF BatchOK, Was, OldUnchanged, Outcomes
    <2>4. OldOK'
        BY <1>1, <1>2, <1>4, <2>2, NoOldIsOld DEF OldOK, Outcomes
    <2>5. QED BY <1>1, <1>2, <2>2, <2>3, <2>4, NoOldIsOld, OldKeeps
<1>5. QED BY <1>3, <1>4 DEF OldCompletes

----------------------------------------------------------------------------
(* People, facts and time.                                                 *)

\* What people, machines and the clock change leaves the mails in order.
LEMMA SurroundingsKeep ==
    ASSUME AlertInv, settings' \in [enabled : BOOLEAN, activated : BOOLEAN],
           settings'.enabled => settings'.activated,
           settings.activated => settings'.activated,
           world' \in World, due' \in SUBSET Slots, changes' \in 0..MaxChanges,
           UNCHANGED <<jobs, batch, runs, userLock, old, mails, shown, mishaps>>
    PROVE  AlertInv'
<1>1. Types' BY DEF AlertInv, Types
<1>2. \A s \in Slots : JobOK(s)' BY DEF AlertInv, JobOK, Was, Started
<1>3. \A r \in Runs : RunOK(runs[r])'
    BY DEF AlertInv, RunOK, Active, Holds, Was, Started
<1>4. \A r, q \in Runs : r # q => Apart(runs[r], runs[q])'
    BY DEF AlertInv, Apart, Active
<1>5. BatchOK' /\ OldOK'
    BY DEF AlertInv, BatchOK, OldOK, Was
<1>6. mails' = mails OBVIOUS
<1>7. QED BY <1>1, <1>2, <1>3, <1>4, <1>5, <1>6 DEF AlertInv

\* A reservation, or a refusal, gets old.
LEMMA AgesKeeps ==
    ASSUME AlertInv, NEW s \in Slots, Ages(s)
    PROVE  AlertInv'
<1> DEFINE j == [jobs[s] EXCEPT !.fresh = FALSE]
<1>1. jobs \in [Slots -> Job] /\ jobs[s] \in Job BY DEF AlertInv, Types
<1>2. /\ j \in Job /\ j.state = jobs[s].state /\ j.attempts = jobs[s].attempts
      /\ j.shows = jobs[s].shows /\ j.batch = jobs[s].batch
    BY <1>1 DEF Job
<1>3. jobs' = [jobs EXCEPT ![s] = j]
    BY DEF Ages
<1> HIDE DEF j
<1>4. jobs' \in [Slots -> Job] BY <1>1, <1>2, <1>3
<1>5. \A t \in Slots : /\ jobs'[t].state = jobs[t].state
                       /\ jobs'[t].attempts = jobs[t].attempts
                       /\ jobs'[t].shows = jobs[t].shows /\ jobs'[t].batch = jobs[t].batch
    BY <1>1, <1>2, <1>3
<1>6. UNCHANGED <<settings, world, due, batch, runs, userLock, old, mails, shown, changes,
                  mishaps>>
    BY DEF Ages
<1>7. Types' BY <1>4, <1>6 DEF AlertInv, Types
<1>8. ASSUME NEW t \in Slots PROVE JobOK(t)'
    <2>1. JobOK(t) BY DEF AlertInv
    <2>2. QED BY <1>5, <1>6, <2>1 DEF JobOK, Was, Started
<1>9. ASSUME NEW r \in Runs PROVE RunOK(runs[r])'
    <2>1. RunOK(runs[r]) /\ runs[r] \in Run BY DEF AlertInv, Types
    <2>2. runs[r].slot \in Slots /\ runs[r].rows \subseteq Slots BY <2>1 DEF Run
    <2>3. QED BY <1>5, <1>6, <2>1, <2>2 DEF RunOK, Active, Holds, Was, Started
<1>10. \A r, q \in Runs : r # q => Apart(runs[r], runs[q])'
    BY <1>6 DEF AlertInv, Apart, Active
<1>11. BatchOK' /\ OldOK'
    <2>1. DailySlot \in Slots BY AlertAssumption DEF AlertAssumption
    <2>2. QED BY <1>5, <1>6, <2>1 DEF AlertInv, BatchOK, OldOK, Was
<1>12. QED BY <1>6, <1>7, <1>8, <1>9, <1>10, <1>11 DEF AlertInv

\* Settings, preferences, access, facts, and the clock's slots.
LEMMA PeopleKeep ==
    ASSUME AlertInv, \/ SetEnabled \/ SavePreferences \/ WorldChanges
                     \/ \E s \in Slots : SlotComesDue(s)
    PROVE  AlertInv'
<1>1. /\ settings \in [enabled : BOOLEAN, activated : BOOLEAN] /\ world \in World
      /\ settings.enabled => settings.activated
      /\ due \in SUBSET Slots /\ changes \in 0..MaxChanges /\ MaxChanges \in Nat
    BY AlertAssumption DEF AlertInv, Types, AlertAssumption
<1>2. CASE SetEnabled
    <2>1. settings'.enabled = ~settings.enabled
          /\ settings'.activated = (settings.activated \/ ~settings.enabled)
        BY <1>2 DEF SetEnabled
    <2>2. settings' \in [enabled : BOOLEAN, activated : BOOLEAN]
        <3>1. (~settings.enabled) \in BOOLEAN
              /\ (settings.activated \/ ~settings.enabled) \in BOOLEAN
            OBVIOUS
        <3>2. QED BY <1>2, <3>1 DEF SetEnabled
    <2>3. /\ settings'.enabled => settings'.activated
          /\ settings.activated => settings'.activated
        BY <2>1
    <2>4. changes' \in 0..MaxChanges BY <1>1, <1>2 DEF SetEnabled
    <2>5. QED BY <1>1, <1>2, <2>2, <2>3, <2>4, SurroundingsKeep DEF SetEnabled
<1>3. CASE SavePreferences
    <2>1. world' \in World
        <3>1. (~world.wanted) \in BOOLEAN OBVIOUS
        <3>2. QED BY <1>1, <1>3, <3>1 DEF SavePreferences, World
    <2>2. changes' \in 0..MaxChanges BY <1>1, <1>3 DEF SavePreferences
    <2>3. QED BY <1>1, <1>3, <2>1, <2>2, SurroundingsKeep DEF SavePreferences
<1>4. CASE WorldChanges
    <2>1. world' \in World
        <3>1. CASE world' = [world EXCEPT !.manager = ~@]
            <4>1. (~world.manager) \in BOOLEAN OBVIOUS
            <4>2. QED BY <1>1, <3>1, <4>1 DEF World
        <3>2. CASE \E f \in Facts : world' = [world EXCEPT !.facts = f]
            BY <1>1, <3>2 DEF World
        <3>3. QED BY <1>4, <3>1, <3>2 DEF WorldChanges
    <2>2. changes' \in 0..MaxChanges BY <1>1, <1>4 DEF WorldChanges
    <2>3. QED BY <1>1, <1>4, <2>1, <2>2, SurroundingsKeep DEF WorldChanges
<1>5. CASE \E s \in Slots : SlotComesDue(s)
    BY <1>1, <1>5, SurroundingsKeep DEF SlotComesDue
<1>6. QED BY <1>2, <1>3, <1>4, <1>5

----------------------------------------------------------------------------
(* The invariant.                                                          *)

\* Nothing is claimed or mailed at first.
LEMMA InitKeeps ==
    ASSUME AlertInit
    PROVE  AlertInv
<1>1. /\ DailySlot \in Slots /\ Earlier \notin Slots
      /\ MaxChanges \in Nat /\ MaxMishaps \in Nat
    BY AlertAssumption DEF AlertAssumption
<1>2. settings \in [enabled : BOOLEAN, activated : BOOLEAN] /\ ~settings.enabled
    BY DEF AlertInit
<1>3. world \in World
    <2>1. PICK m \in BOOLEAN : world = [Nothing EXCEPT !.wanted = TRUE, !.manager = m]
        BY DEF AlertInit
    <2> DEFINE a == [Nothing EXCEPT !.wanted = TRUE]
    <2>2. world = [a EXCEPT !.manager = m] BY <2>1
    <2>3. a \in World BY NothingHeld DEF World
    <2> HIDE DEF a
    <2>4. QED BY <2>2, <2>3 DEF World
<1>4. NoJob \in Job /\ NoJob.state = "none" /\ ~NoJob.batch
    BY NothingHeld DEF NoJob, Job, JobState, MaxAttempts
<1>5. /\ jobs = [s \in Slots |-> NoJob] /\ runs = [r \in Runs |-> NoRun]
      /\ mails = {} /\ old = NoOld /\ due = {} /\ userLock = Nobody
      /\ batch = [state |-> "none", tries |-> 0, by |-> Nobody]
      /\ shown = [x \in Slots \cup {Earlier} |-> Nothing]
      /\ changes = 0 /\ mishaps = 0
    BY DEF AlertInit
<1>6. batch \in Batch /\ batch.state = "none" /\ batch.tries = 0
    BY <1>5 DEF Batch, JobState, MaxAttempts
<1>7. /\ jobs \in [Slots -> Job] /\ runs \in [Runs -> Run] /\ old \in OldRun
      /\ shown \in [Slots \cup {Earlier} -> World]
    BY <1>4, <1>5, NothingHeld, NoOldIsOld
<1>8. Types
    BY <1>1, <1>2, <1>3, <1>5, <1>6, <1>7 DEF Types
<1>9. \A s \in Slots : JobOK(s)
    BY <1>4, <1>5 DEF JobOK, Was, Started
<1>10. \A r \in Runs : RunOK(runs[r])
    BY <1>5, NothingHeld DEF RunOK, Active
<1>11. \A r, q \in Runs : Apart(runs[r], runs[q])
    BY <1>5, NothingHeld DEF Apart
<1>12. BatchOK /\ OldOK
    BY <1>1, <1>4, <1>5, <1>6, NoOldIsOld DEF BatchOK, OldOK
<1>13. QED BY <1>2, <1>5, <1>8, <1>9, <1>10, <1>11, <1>12 DEF AlertInv

\* Every step keeps it.
LEMMA StepKeeps ==
    ASSUME AlertInv, [AlertNext]_alertVars
    PROVE  AlertInv'
<1>1. ASSUME NEW r \in Runs, RunStep(r) PROVE AlertInv'
    <2>1. CASE Tick(r) BY <2>1, TickKeeps
    <2>2. CASE ClaimBegins(r) BY <2>2, ClaimBeginsKeeps
    <2>3. CASE ClaimFindsNothing(r) \/ ClaimEndsEmpty(r) BY <2>3, EndsAndLostCallsKeep
    <2>4. CASE \E s \in Slots : SkipSlot(r, s) \/ ClaimSlot(r, s)
        BY <2>4, SkipSlotKeeps, ClaimSlotKeeps
    <2>5. CASE MarkBegins(r) BY <2>5, MarkBeginsKeeps
    <2>6. CASE MarkEnds(r) BY <2>6, MarkEndsKeeps
    <2>7. CASE Send(r) BY <2>7, SendKeeps
    <2>8. CASE Complete(r) BY <2>8, CompleteKeeps
    <2>9. CASE \E q \in Runs : BreakDeadlock(r, q) BY <2>9, BreakDeadlockKeeps
    <2>10. QED
        BY <1>1, <2>1, <2>2, <2>3, <2>4, <2>5, <2>6, <2>7, <2>8, <2>9, Zenon DEF RunStep
<1>2. ASSUME NEW r \in Runs, CallIsLost(r) \/ Crash(r) PROVE AlertInv'
    BY <1>2, EndsAndLostCallsKeep
<1>3. CASE OldStep \/ OldCrashes
    <2>1. CASE OldLooks \/ OldFails \/ OldCrashes BY <2>1, OldMovesKeeps
    <2>2. CASE OldReserves BY <2>2, OldReservesKeeps
    <2>3. CASE OldMarks BY <2>3, OldMarksKeeps
    <2>4. CASE OldSends BY <2>4, OldSendsKeeps
    <2>5. CASE OldCompletes BY <2>5, OldCompletesKeeps
    <2>6. QED BY <1>3, <2>1, <2>2, <2>3, <2>4, <2>5, Zenon DEF OldStep
<1>4. CASE SetEnabled \/ SavePreferences \/ WorldChanges BY <1>4, PeopleKeep
<1>5. ASSUME NEW s \in Slots, SlotComesDue(s) \/ Ages(s) PROVE AlertInv'
    BY <1>5, PeopleKeep, AgesKeeps
<1>6. CASE UNCHANGED alertVars
    <2>1. UNCHANGED <<settings, world, due, changes>>
          /\ UNCHANGED <<jobs, batch, runs, userLock, old, mails, shown, mishaps>>
        BY <1>6 DEF alertVars
    <2>2. /\ settings \in [enabled : BOOLEAN, activated : BOOLEAN] /\ world \in World
          /\ due \in SUBSET Slots /\ changes \in 0..MaxChanges
          /\ settings.enabled => settings.activated
        BY DEF AlertInv, Types
    <2>3. QED BY <2>1, <2>2, SurroundingsKeep
<1>7. QED BY <1>1, <1>2, <1>3, <1>4, <1>5, <1>6, Zenon DEF AlertNext

\* Jobs, runs, the batch and the mails agree, for any number of runs and of slots.
THEOREM AlertInvariant == AlertSpec => []AlertInv
<1>1. AlertInit => AlertInv BY InitKeeps
<1>2. AlertInv /\ [AlertNext]_alertVars => AlertInv' BY StepKeeps
<1>3. QED BY <1>1, <1>2, PTL DEF AlertSpec

\* The tables hold what they are declared to hold.
THEOREM AlertTypesHold == AlertSpec => []AlertTypeOK
<1>1. ASSUME AlertInv PROVE AlertTypeOK
    <2>1. \A m \in mails : m.by \in Slots \cup {Earlier} /\ m.shows \in World
        BY <1>1 DEF AlertInv, Types, Mail
    <2>2. QED BY <1>1, <2>1 DEF AlertInv, Types, AlertTypeOK
<1>2. QED BY <1>1, AlertInvariant, PTL

\* A slot is mailed at most once, however many runs claim it and whatever is lost.
THEOREM SlotsAreMailedOnce == AlertSpec => []OneMailPerSlot
<1>1. ASSUME AlertInv PROVE OneMailPerSlot
    BY <1>1 DEF AlertInv, OneMailPerSlot
<1>2. QED BY <1>1, AlertInvariant, PTL

\* Of the two senders of the managers' digest, one sends it, once.
THEOREM DigestLeavesOnce == AlertSpec => []ManagerDigestOnce
<1>1. ASSUME AlertInv PROVE ManagerDigestOnce
    <2>1. /\ DailySlot \in Slots /\ JobOK(DailySlot) /\ BatchOK /\ OldOK
          /\ \A m, n \in mails : m.by = n.by => m = n
        BY <1>1, AlertAssumption DEF AlertInv, AlertAssumption
    <2>2. ASSUME NEW m \in mails, NEW n \in mails, m.by = Earlier, n.by = DailySlot,
                 n.shows.manager
          PROVE  FALSE
        <3>1. Started(DailySlot) /\ jobs[DailySlot].batch
            BY <2>1, <2>2 DEF JobOK, Started, Was
        <3>2. batch.by = Earlier /\ batch.state \in {"sent", "delivery_unknown"}
            BY <2>1, <2>2 DEF OldOK
        <3>3. QED BY <2>1, <3>1, <3>2 DEF BatchOK, Earlier
    <2>3. QED BY <2>1, <2>2 DEF ManagerDigestOnce, IsManagerDigest
<1>2. QED BY <1>1, AlertInvariant, PTL

\* What a job says of its mail is so.
THEOREM JobsAreTruthful == AlertSpec => []JobsTellTheTruth
<1>1. ASSUME AlertInv PROVE JobsTellTheTruth
    BY <1>1 DEF AlertInv, JobOK, JobsTellTheTruth
<1>2. QED BY <1>1, AlertInvariant, PTL

\* What is mailed was so when the mail was started.
THEOREM MailsShowTheirStart == AlertSpec => []MailsWereCurrent
<1>1. ASSUME AlertInv PROVE MailsWereCurrent
    <2>1. ASSUME NEW m \in mails, m.by # Earlier
          PROVE  m.shows = shown[m.by] /\ m.shows.wanted
        <3>1. m.by \in Slots BY <1>1, <2>1 DEF AlertInv, Types, Mail
        <3>2. JobOK(m.by) BY <1>1, <3>1 DEF AlertInv
        <3>3. QED BY <3>2 DEF JobOK
    <2>2. QED BY <1>1, <2>1 DEF AlertInv, OldOK, MailsWereCurrent
<1>2. QED BY <1>1, AlertInvariant, PTL

\* The batch of the day and its job never part in what has left.
THEOREM BatchAndJobAgree == AlertSpec => []BatchFollowsJob
<1>1. ASSUME AlertInv PROVE BatchFollowsJob
    BY <1>1 DEF AlertInv, BatchOK, BatchFollowsJob
<1>2. QED BY <1>1, AlertInvariant, PTL
=============================================================================
