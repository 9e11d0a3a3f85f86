------------------------ MODULE ReportScheduleProofs ------------------------
(***************************************************************************)
(* Theorems about ReportSchedule, for any number of recipients, settings,  *)
(* invocations, runs and hitches.                                          *)
(***************************************************************************)
EXTENDS ReportSchedule, SequenceTheorems, TLAPS

----------------------------------------------------------------------------
(* What a step does to the runs.                                           *)

\* An invocation or time rewrites one row; it never touches what a run was made
\* for, nor what is validated.
RowStep(n, row) ==
    /\ n \in 1..Len(reports) /\ row \in ReportRows
    /\ reports' = [reports EXCEPT ![n] = row]
    /\ row.hash = reports[n].hash /\ row.version = reports[n].version
    /\ \/ row.status = reports[n].status /\ row.gate = reports[n].gate
       \/ reports[n].status # "validated" /\ row.status # "validated"

\* An administrator adds a run made for the present configuration.
AddStep(row) ==
    /\ Exists /\ row \in ReportRows
    /\ reports' = Append(reports, row)
    /\ row.hash = schedule.config /\ row.version = schedule.version
    /\ row.key = "nobody" /\ row.status # "artifact_ready"

\* A row that was rewritten, and the others.
LEMMA RowWritten ==
    ASSUME ReportTypeOK, NEW n, NEW row, RowStep(n, row)
    PROVE  /\ reports' \in Seq(ReportRows) /\ Len(reports') = Len(reports)
           /\ \A k \in 1..Len(reports) : reports'[k] = IF k = n THEN row ELSE reports[k]
BY ExceptSeq DEF ReportTypeOK, RowStep

\* A row that was added, and the others.
LEMMA RowAdded ==
    ASSUME ReportTypeOK, NEW row, AddStep(row)
    PROVE  /\ reports' \in Seq(ReportRows) /\ Len(reports') = Len(reports) + 1
           /\ \A k \in 1..Len(reports) : reports'[k] = reports[k]
           /\ reports'[Len(reports) + 1] = row
BY AppendProperties DEF ReportTypeOK, AddStep

\* What types say of rows, invocations and keys.
LEMMA Typed ==
    ASSUME ReportTypeOK
    PROVE  /\ DOMAIN reports = 1..Len(reports) /\ Len(reports) \in Nat
           /\ \A n \in 1..Len(reports) : reports[n] \in ReportRows
           /\ \A x \in Exporters :
                /\ Key(x) \in Exporters \union {"default"}
                /\ export[x].pc # "idle" => /\ export[x].report \in 1..Len(reports)
                                            /\ Taken(x) \in ReportRows
BY DEF ReportTypeOK, Key, Taken, Free

\* A new row of an administrator is a row.
LEMMA NewRow ==
    ASSUME ReportTypeOK, NEW t \in {"dry_run", "manual_retry"},
           NEW s \in Live \union {"blocked", "failed", "cancelled", "validated"},
           NEW g \in {"passed", "blocked", "not_checked"}
    PROVE  /\ Report(t, s, g) \in ReportRows
           /\ Report(t, s, g).hash = schedule.config
           /\ Report(t, s, g).version = schedule.version
           /\ Report(t, s, g).status = s /\ Report(t, s, g).gate = g
           /\ Report(t, s, g).key = "nobody"
BY DEF ReportTypeOK, Report, ReportRows

\* The administrators' actions, by what they do to the rows.
AdminStep ==
    \/ \E c \in Configurations : CreateSchedule(c) \/ Reconfigure(c)
    \/ PauseSchedule \/ ResumeSchedule \/ ArchiveSchedule \/ ArchivePartnership
    \/ \E st \in {"draft", "active"} : SavePartnership(st)
RunStep ==
    \/ \E r \in DryRunResults : RecordDryRun(r[1], r[2])
    \/ \E n \in DOMAIN reports : RetryReport(n)

\* An update and a change of recipients are reconfigurations to a configuration.
LEMMA ChangesAreAdminSteps ==
    ASSUME ReportTypeOK, NEW s \in Settings, NEW a \in Addresses,
           UpdateSchedule(s) \/ AddRecipient(a) \/ RemoveRecipient(a)
    PROVE  AdminStep
<1> schedule.config \in Configurations
  BY DEF ReportTypeOK
<1> /\ schedule.config[1] \in Settings /\ schedule.config[2] \in SUBSET Addresses
  BY DEF Configurations
<1> DEFINE c1 == <<s, schedule.config[2]>>
           c2 == <<schedule.config[1], schedule.config[2] \union {a}>>
           c3 == <<schedule.config[1], schedule.config[2] \ {a}>>
<1>1. c1 \in Configurations /\ c2 \in Configurations /\ c3 \in Configurations
  BY DEF Configurations
<1>2. Reconfigure(c1) \/ Reconfigure(c2) \/ Reconfigure(c3)
  BY DEF UpdateSchedule, AddRecipient, RemoveRecipient
<1> QED BY <1>1, <1>2, Zenon DEF AdminStep

\* Every step is one of an administrator, of an invocation, or of time.
LEMMA Steps ==
    ASSUME ReportTypeOK, ReportNext
    PROVE  \/ AdminStep \/ RunStep
           \/ \E x \in Exporters : ExportStep(x)
           \/ \E n \in DOMAIN reports : ReportLeaseEnds(n)
<1>1. CASE Administer
  <2>1. CASE \E s \in Settings : UpdateSchedule(s)
    <3>1. CASE Addresses = {}
      <4>1. PICK s \in Settings : UpdateSchedule(s)
        BY <2>1
      <4>2. <<s, schedule.config[2]>> \in Configurations
        BY DEF ReportTypeOK, Configurations
      <4> QED BY <4>1, <4>2, Zenon DEF UpdateSchedule, AdminStep
    <3>2. CASE Addresses # {}
      BY <2>1, <3>2, ChangesAreAdminSteps
    <3> QED BY <3>1, <3>2
  <2>2. CASE \E a \in Addresses : AddRecipient(a) \/ RemoveRecipient(a)
    BY <2>2, ReportConstants, ChangesAreAdminSteps
  <2> QED BY <1>1, <2>1, <2>2, Zenon DEF Administer, AdminStep, RunStep
<1>2. CASE ~Administer
  BY <1>2, Zenon DEF ReportNext
<1> QED BY <1>1, <1>2

\* A dry run or a retry adds one row and leaves the rest, but for the validation.
LEMMA RunStepAdds ==
    ASSUME ReportTypeOK, RunStep
    PROVE  /\ \E row \in ReportRows : AddStep(row)
           /\ UNCHANGED <<partnership, export, revisions, hitches>>
<1>1. ASSUME NEW r \in DryRunResults, RecordDryRun(r[1], r[2])
      PROVE  /\ \E row \in ReportRows : AddStep(row)
             /\ UNCHANGED <<partnership, export, revisions, hitches>>
  <2>1. /\ r[1] \in Live \union {"blocked", "failed", "cancelled", "validated"}
        /\ r[1] # "artifact_ready"
        /\ r[2] \in {"passed", "blocked", "not_checked"}
    BY DEF DryRunResults, Live
  <2>2. AddStep(Report("dry_run", r[1], r[2])) /\ Report("dry_run", r[1], r[2]) \in ReportRows
    BY <1>1, <2>1, NewRow DEF RecordDryRun, AddStep
  <2> QED BY <1>1, <2>2, Zenon DEF RecordDryRun
<1>2. ASSUME NEW n \in DOMAIN reports, RetryReport(n)
      PROVE  /\ \E row \in ReportRows : AddStep(row)
             /\ UNCHANGED <<partnership, export, revisions, hitches>>
  <2>1. /\ "queued" \in Live \union {"blocked", "failed", "cancelled", "validated"}
    BY DEF Live
  <2>2. /\ AddStep(Report("manual_retry", "queued", "not_checked"))
        /\ Report("manual_retry", "queued", "not_checked") \in ReportRows
    BY <1>2, <2>1, NewRow DEF RetryReport, AddStep
  <2> QED BY <1>2, <2>2, Zenon DEF RetryReport
<1> QED BY <1>1, <1>2, Zenon DEF RunStep

----------------------------------------------------------------------------
(* What the step of an invocation does.                                    *)

\* To the runs: one row at most.
RowsKept == UNCHANGED reports \/ \E n, row : RowStep(n, row)

\* To the invocation: it is set free, or it is at a row that is not validated.
Placed(x, pc, n) ==
    /\ export' \in [Exporters -> [pc : ReportPoints, report : Nat]]
    /\ \A y \in Exporters : y # x => export'[y] = export[y]
    /\ export'[x].pc = pc /\ export'[x].report = n
    /\ n \in 1..Len(reports) /\ reports[n].status # "validated"
Freed(x) ==
    /\ export' \in [Exporters -> [pc : ReportPoints, report : Nat]]
    /\ \A y \in Exporters : y # x => export'[y] = export[y]
    /\ export'[x] = Free

\* Moving on keeps the run; setting free forgets it.
LEMMA Moving ==
    ASSUME ReportTypeOK, ValidationStands, NEW x \in Exporters, export[x].pc # "idle",
           NEW pc \in ReportPoints, export' = [export EXCEPT ![x].pc = pc]
    PROVE  Placed(x, pc, export[x].report)
BY Typed DEF ReportTypeOK, ValidationStands, Placed

\* Who is set free is at no run.
LEMMA Freeing ==
    ASSUME ReportTypeOK, NEW x \in Exporters, export' = [export EXCEPT ![x] = Free]
    PROVE  Freed(x)
BY DEF ReportTypeOK, ReportPoints, Free, Freed

\* A heard or lost answer counts at most one hitch.
LEMMA Hears ==
    ASSUME ReportTypeOK, NEW ok \in BOOLEAN, Heard(ok)
    PROVE  hitches' \in Nat
BY DEF ReportTypeOK, Heard, Hitch

\* An update that leaves the columns of RowStep alone.
LEMMA Updating ==
    ASSUME ReportTypeOK, ValidationStands, NEW x \in Exporters, export[x].pc # "idle",
           NEW row \in ReportRows, NEW next \in ReportPoints, NEW ok \in BOOLEAN,
           Updates(x, row, next, ok),
           row.hash = Taken(x).hash, row.version = Taken(x).version, row.status # "validated"
    PROVE  /\ RowStep(export[x].report, row)
           /\ Placed(x, IF ok THEN next ELSE "fail", export[x].report)
           /\ hitches' \in Nat /\ UNCHANGED <<partnership, schedule, revisions>>
<1>1. Placed(x, IF ok THEN next ELSE "fail", export[x].report)
  <2> DEFINE pc == IF ok THEN next ELSE "fail"
  <2>1. pc \in ReportPoints
    BY DEF ReportPoints
  <2>2. export' = [export EXCEPT ![x].pc = pc]
    BY DEF Updates, Moves
  <2> HIDE DEF pc
  <2>3. Placed(x, pc, export[x].report)
    BY <2>1, <2>2, Moving
  <2> QED BY <2>3 DEF pc
<1>2. RowStep(export[x].report, row)
  BY Typed DEF Updates, RowStep, ValidationStands, Taken
<1> QED BY <1>1, <1>2, Hears DEF Updates

\* What the rows look like after an action writes its columns.
LEMMA Rewritten ==
    ASSUME NEW r \in ReportRows
    PROVE  /\ LET row == [r EXCEPT !.status = "checking_warnings", !.gate = "not_checked"]
              IN /\ row \in ReportRows /\ row.hash = r.hash /\ row.version = r.version
                 /\ row.status = "checking_warnings" /\ row.key = r.key /\ row.leased = r.leased
           /\ LET row == [r EXCEPT !.gate = "blocked", !.artifact = FALSE]
              IN /\ row \in ReportRows /\ row.hash = r.hash /\ row.version = r.version
                 /\ row.status = r.status /\ row.key = r.key /\ row.leased = r.leased
           /\ LET row == [r EXCEPT !.status = "generating", !.gate = "passed"]
              IN /\ row \in ReportRows /\ row.hash = r.hash /\ row.version = r.version
                 /\ row.status = "generating" /\ row.gate = "passed"
                 /\ row.key = r.key /\ row.leased = r.leased
           /\ LET row == [r EXCEPT !.artifact = TRUE, !.gate = "passed"]
              IN /\ row \in ReportRows /\ row.hash = r.hash /\ row.version = r.version
                 /\ row.status = r.status /\ row.gate = "passed" /\ row.artifact
                 /\ row.key = r.key /\ row.leased = r.leased
BY DEF ReportRows, Live

\* The law of an invocation's step: it leaves the schedule, it rewrites at most
\* the row it is at, and it stays at that row or is set free.
Lawful(x) ==
    /\ RowsKept /\ hitches' \in Nat /\ UNCHANGED <<partnership, schedule, revisions>>
    /\ UNCHANGED export \/ Freed(x) \/ \E pc, n : Placed(x, pc, n)

\* The claim rewrites key and lease, and places the invocation at the run when heard.
LEMMA ClaimIsLawful ==
    ASSUME ReportTypeOK, NEW x \in Exporters, NEW n \in DOMAIN reports, NEW ok \in BOOLEAN,
           ClaimReport(x, n, ok)
    PROVE  /\ Lawful(x)
           /\ RowStep(n, [reports[n] EXCEPT !.key = Key(x), !.leased = TRUE])
           /\ IF ok THEN Placed(x, "start", n) ELSE UNCHANGED export
<1> DEFINE row == [reports[n] EXCEPT !.key = Key(x), !.leased = TRUE]
<1>1. n \in 1..Len(reports) /\ reports[n] \in ReportRows
  BY Typed
<1>2. /\ row \in ReportRows /\ row.hash = reports[n].hash /\ row.version = reports[n].version
      /\ row.status = reports[n].status /\ row.gate = reports[n].gate
  BY <1>1, Typed DEF ReportRows
<1>3. reports' = [reports EXCEPT ![n] = row]
  BY <1>1 DEF ClaimReport, ReportRows
<1>4. RowStep(n, row)
  BY <1>1, <1>2, <1>3 DEF RowStep
<1>5. ASSUME ok PROVE Placed(x, "start", n)
  BY <1>1, <1>5 DEF ClaimReport, Claimable, Live, Placed, ReportTypeOK, ReportPoints
<1>6. ASSUME ~ok PROVE UNCHANGED export
  BY <1>6 DEF ClaimReport
<1>7. hitches' \in Nat /\ UNCHANGED <<partnership, schedule, revisions>>
  BY Hears DEF ClaimReport
<1>8. RowsKept
  BY <1>4, Zenon DEF RowsKept
<1> QED BY <1>4, <1>5, <1>6, <1>7, <1>8, Zenon DEF Lawful

\* The four updates.
LEMMA UpdatesAreLawful ==
    ASSUME ReportTypeOK, ValidationStands, NEW x \in Exporters, NEW ok \in BOOLEAN,
           StartExport(x, ok) \/ MarkBlocked(x, ok) \/ MarkPassed(x, ok) \/ StoreArtifact(x, ok)
    PROVE  Lawful(x)
<1> DEFINE r == Taken(x)
           row1 == [r EXCEPT !.status = "checking_warnings", !.gate = "not_checked"]
           row2 == [r EXCEPT !.gate = "blocked", !.artifact = FALSE]
           row3 == [r EXCEPT !.status = "generating", !.gate = "passed"]
           row4 == [r EXCEPT !.artifact = TRUE, !.gate = "passed"]
<1>1. /\ export[x].pc # "idle" /\ r \in ReportRows /\ r.status # "validated"
  BY Typed DEF StartExport, MarkBlocked, MarkPassed, StoreArtifact, ValidationStands, Taken
<1>2. /\ row1 \in ReportRows /\ row1.hash = r.hash /\ row1.version = r.version /\ row1.status # "validated"
      /\ row2 \in ReportRows /\ row2.hash = r.hash /\ row2.version = r.version /\ row2.status # "validated"
      /\ row3 \in ReportRows /\ row3.hash = r.hash /\ row3.version = r.version /\ row3.status # "validated"
      /\ row4 \in ReportRows /\ row4.hash = r.hash /\ row4.version = r.version /\ row4.status # "validated"
  BY <1>1, Rewritten
<1>3. PICK row \in ReportRows, next \in ReportPoints :
          /\ Updates(x, row, next, ok)
          /\ row.hash = r.hash /\ row.version = r.version /\ row.status # "validated"
  <2>1. /\ "fail" \in ReportPoints /\ "preview" \in ReportPoints /\ "blocked" \in ReportPoints
        /\ "store" \in ReportPoints /\ "artifact_ready" \in ReportPoints
    BY DEF ReportPoints
  <2>2. \/ Updates(x, r, "fail", ok) \/ Updates(x, row1, "preview", ok)
        \/ Updates(x, row2, "blocked", ok) \/ Updates(x, row3, "store", ok)
        \/ Updates(x, row4, "artifact_ready", ok)
    BY Zenon DEF StartExport, MarkBlocked, MarkPassed, StoreArtifact
  <2> HIDE DEF r, row1, row2, row3, row4
  <2> QED BY <1>1, <1>2, <2>1, <2>2, Zenon
<1>4. /\ RowStep(export[x].report, row)
      /\ Placed(x, IF ok THEN next ELSE "fail", export[x].report)
      /\ hitches' \in Nat /\ UNCHANGED <<partnership, schedule, revisions>>
  BY <1>1, <1>3, Updating
<1> QED BY <1>4, Zenon DEF Lawful, RowsKept

\* The release: its row keeps what it was made for.
LEMMA ReleaseIsLawful ==
    ASSUME ReportTypeOK, ValidationStands, NEW x \in Exporters, NEW ok \in BOOLEAN,
           ReleaseReport(x, ok)
    PROVE  Lawful(x)
<1> DEFINE n == export[x].report
           row == [reports[n] EXCEPT !.status = Verdict(x), !.key = "nobody", !.leased = FALSE]
<1>1. /\ export[x].pc # "idle" /\ n \in 1..Len(reports) /\ reports[n] \in ReportRows
      /\ reports[n].status # "validated"
  BY Typed DEF ReleaseReport, Verdict, Outcomes, ValidationStands, Taken
<1>2. /\ row \in ReportRows /\ row.hash = reports[n].hash /\ row.version = reports[n].version
      /\ row.status # "validated"
  BY <1>1 DEF ReleaseReport, Outcomes, ReportRows, Live
<1>3. UNCHANGED reports \/ reports' = [reports EXCEPT ![n] = row]
  BY DEF ReleaseReport, Taken
<1>4. RowsKept
  <2>1. CASE reports' = [reports EXCEPT ![n] = row]
    <3>1. RowStep(n, row)
      BY <1>1, <1>2, <2>1 DEF RowStep
    <3> QED BY <3>1, Zenon DEF RowsKept
  <2> QED BY <1>3, <2>1, Zenon DEF RowsKept
<1>5. Freed(x) \/ Placed(x, "fail", n)
  <2>1. CASE export' = [export EXCEPT ![x] = Free]
    BY <2>1, Freeing
  <2>2. CASE export' = [export EXCEPT ![x].pc = "fail"]
    <3>1. "fail" \in ReportPoints
      BY DEF ReportPoints
    <3> QED BY <1>1, <2>2, <3>1, Moving
  <2> QED BY <2>1, <2>2 DEF ReleaseReport
<1>6. hitches' \in Nat /\ UNCHANGED <<partnership, schedule, revisions>>
  BY Hears DEF ReleaseReport
<1> QED BY <1>4, <1>5, <1>6, Zenon DEF Lawful

\* Every step of an invocation is lawful.
LEMMA ExportIsLawful ==
    ASSUME ReportTypeOK, ValidationStands, NEW x \in Exporters, ExportStep(x)
    PROVE  Lawful(x)
<1>1. ASSUME NEW ok \in BOOLEAN, NEW n \in DOMAIN reports, ClaimReport(x, n, ok)
      PROVE  Lawful(x)
  BY <1>1, ClaimIsLawful
<1>2. ASSUME NEW next \in {"block", "pass"}, Preview(x, next)
      PROVE  Lawful(x)
  <2>1. next \in ReportPoints /\ export[x].pc # "idle" /\ export' = [export EXCEPT ![x].pc = next]
    BY <1>2 DEF Preview, Moves, ReportPoints
  <2>2. Placed(x, next, export[x].report)
    BY <2>1, Moving
  <2>3. RowsKept /\ hitches' \in Nat /\ UNCHANGED <<partnership, schedule, revisions>>
    BY <1>2 DEF Preview, RowsKept, ReportTypeOK
  <2> QED BY <2>2, <2>3, Zenon DEF Lawful
<1>3. CASE ExportCallFails(x) \/ ExporterDies(x)
  <2>1. RowsKept /\ hitches' \in Nat /\ UNCHANGED <<partnership, schedule, revisions>>
    BY <1>3 DEF ExportCallFails, ExporterDies, Hitch, RowsKept, ReportTypeOK
  <2>2. Freed(x) \/ Placed(x, "fail", export[x].report)
    <3>1. CASE export' = [export EXCEPT ![x] = Free]
      BY <3>1, Freeing
    <3>2. CASE export' = [export EXCEPT ![x].pc = "fail"]
      <4>1. "fail" \in ReportPoints /\ export[x].pc # "idle"
        BY <1>3 DEF ReportPoints, ExportCallFails, ExporterDies
      <4> QED BY <3>2, <4>1, Moving
    <3> QED BY <1>3, <3>1, <3>2 DEF ExportCallFails, ExporterDies
  <2> QED BY <2>1, <2>2, Zenon DEF Lawful
<1> QED BY <1>1, <1>2, <1>3, UpdatesAreLawful, ReleaseIsLawful, Zenon DEF ExportStep

----------------------------------------------------------------------------
(* Types.                                                                  *)

ScheduleRows ==
    [status : {"none", "paused", "active", "archived"}, config : Configurations,
     hash : Configurations, version : Nat, validated : Nat]

\* Every step keeps the types, given that nothing works on a validated run.
LEMMA TypeStep ==
    ASSUME ReportTypeOK, ValidationStands, [ReportNext]_reportVars
    PROVE  ReportTypeOK'
<1> SUFFICES ASSUME ReportNext PROVE ReportTypeOK'
  BY DEF reportVars, ReportTypeOK
<1>1. CASE AdminStep
  <2>1. ASSUME NEW c \in Configurations, CreateSchedule(c)
        PROVE  ReportTypeOK'
    BY <2>1 DEF CreateSchedule, Schedule, ReportTypeOK
  <2>2. ASSUME NEW c \in Configurations, Reconfigure(c)
        PROVE  ReportTypeOK'
    <3>1. /\ NextVersion(c) \in Nat /\ PausedBy(c) \in {"none", "paused", "active", "archived"}
          /\ schedule.version \in Nat /\ schedule.validated \in Nat
      BY DEF NextVersion, PausedBy, ReportTypeOK
    <3>2. schedule' = [status |-> PausedBy(c), config |-> c, hash |-> c,
                       version |-> NextVersion(c), validated |-> schedule.validated]
      BY <2>2 DEF Reconfigure, ReportTypeOK
    <3>3. /\ schedule' \in ScheduleRows /\ schedule'.validated = schedule.validated
      BY <3>1, <3>2 DEF ScheduleRows
    <3> QED BY <2>2, <3>3 DEF Reconfigure, ScheduleRows, ReportTypeOK
  <2>3. CASE PauseSchedule \/ ResumeSchedule \/ ArchiveSchedule \/ ArchivePartnership
    BY <2>3 DEF PauseSchedule, ResumeSchedule, ArchiveSchedule, ArchivePartnership, Exists, ReportTypeOK
  <2>4. ASSUME NEW st \in {"draft", "active"}, SavePartnership(st)
        PROVE  ReportTypeOK'
    BY <2>4 DEF SavePartnership, ReportTypeOK
  <2> QED BY <1>1, <2>1, <2>2, <2>3, <2>4 DEF AdminStep
<1>2. CASE RunStep
  <2>1. PICK row \in ReportRows : AddStep(row)
    BY <1>2, RunStepAdds
  <2>2. UNCHANGED <<partnership, export, revisions, hitches>>
    BY <1>2, RunStepAdds
  <2>3. reports' \in Seq(ReportRows) /\ Len(reports') = Len(reports) + 1
    BY <2>1, RowAdded
  <2>4. schedule' = schedule \/ schedule' = [schedule EXCEPT !.validated = Len(reports) + 1]
    BY <1>2 DEF RunStep, RecordDryRun, RetryReport
  <2>5. schedule \in ScheduleRows /\ schedule.validated \in 0..Len(reports) /\ Len(reports) \in Nat
    BY Typed DEF ScheduleRows, ReportTypeOK
  <2>6. schedule' \in ScheduleRows /\ schedule'.validated \in 0..(Len(reports) + 1)
    BY <2>4, <2>5 DEF ScheduleRows
  <2>7. /\ export' \in [Exporters -> [pc : ReportPoints, report : Nat]]
        /\ \A y \in Exporters : export'[y].report \in 1..Len(reports') \/ export'[y] = Free
    BY <2>2, <2>3, <2>5 DEF ReportTypeOK
  <2> QED BY <2>2, <2>3, <2>6, <2>7 DEF ScheduleRows, ReportTypeOK
<1>3. ASSUME NEW x \in Exporters, ExportStep(x)
      PROVE  ReportTypeOK'
  <2>1. Lawful(x)
    BY <1>3, ExportIsLawful
  <2>2. reports' \in Seq(ReportRows) /\ Len(reports') = Len(reports)
    BY <2>1, RowWritten DEF Lawful, RowsKept, ReportTypeOK
  <2>3. /\ export' \in [Exporters -> [pc : ReportPoints, report : Nat]]
        /\ \A y \in Exporters : export'[y].report \in 1..Len(reports') \/ export'[y] = Free
    <3>1. CASE UNCHANGED export
      BY <2>2, <3>1 DEF ReportTypeOK
    <3>2. CASE Freed(x)
      BY <2>2, <3>2 DEF Freed, ReportTypeOK
    <3>3. ASSUME NEW pc, NEW n, Placed(x, pc, n)
          PROVE  /\ export' \in [Exporters -> [pc : ReportPoints, report : Nat]]
                 /\ \A y \in Exporters : export'[y].report \in 1..Len(reports') \/ export'[y] = Free
      BY <2>2, <3>3 DEF Placed, ReportTypeOK
    <3> QED BY <2>1, <3>1, <3>2, <3>3 DEF Lawful
  <2>4. /\ partnership' = partnership /\ schedule' = schedule /\ revisions' = revisions
        /\ hitches' \in Nat
    BY <2>1 DEF Lawful
  <2> QED BY <2>2, <2>3, <2>4 DEF ReportTypeOK
<1>4. ASSUME NEW n \in DOMAIN reports, ReportLeaseEnds(n)
      PROVE  ReportTypeOK'
  <2>1. reports[n] \in ReportRows /\ n \in 1..Len(reports)
    BY Typed
  <2>2. [reports[n] EXCEPT !.leased = FALSE] \in ReportRows
    BY <2>1 DEF ReportRows
  <2>3. reports' \in Seq(ReportRows) /\ Len(reports') = Len(reports)
    BY <1>4, <2>1, <2>2, ExceptSeq DEF ReportLeaseEnds, ReportTypeOK
  <2> QED BY <1>4, <2>3 DEF ReportLeaseEnds, ReportTypeOK
<1> QED BY <1>1, <1>2, <1>3, <1>4, Steps

\* The first state is typed: there is a configuration to begin with.
LEMMA ReportInitTyped == ReportInit => ReportTypeOK
<1> SUFFICES ASSUME ReportInit PROVE ReportTypeOK
  OBVIOUS
<1>1. Configurations # {}
  <2>1. PICK s : s \in Settings
    BY ReportConstants
  <2>2. <<s, {}>> \in Configurations
    BY <2>1 DEF Configurations
  <2> QED BY <2>2
<1>2. (CHOOSE c \in Configurations : TRUE) \in Configurations
  BY <1>1
<1>3. schedule \in [status : {"none", "paused", "active", "archived"}, config : Configurations,
                    hash : Configurations, version : Nat, validated : Nat]
      /\ schedule.validated = 0
  BY <1>2 DEF ReportInit, Schedule
<1>4. reports \in Seq(ReportRows) /\ Len(reports) = 0
  BY DEF ReportInit
<1> QED BY <1>3, <1>4 DEF ReportInit, ReportTypeOK, Free, ReportPoints

----------------------------------------------------------------------------
(* What validates an active schedule stands.                               *)

\* The end of a lease rewrites the lease only.
LEMMA TimeKeepsRows ==
    ASSUME ReportTypeOK, NEW n \in DOMAIN reports, ReportLeaseEnds(n)
    PROVE  /\ RowStep(n, [reports[n] EXCEPT !.leased = FALSE])
           /\ UNCHANGED <<partnership, schedule, export, revisions, hitches>>
<1> DEFINE row == [reports[n] EXCEPT !.leased = FALSE]
<1>1. n \in 1..Len(reports) /\ reports[n] \in ReportRows
  BY Typed
<1>2. /\ row \in ReportRows /\ row.hash = reports[n].hash /\ row.version = reports[n].version
      /\ row.status = reports[n].status /\ row.gate = reports[n].gate
  BY <1>1 DEF ReportRows
<1>3. reports' = [reports EXCEPT ![n] = row]
  BY <1>1 DEF ReportLeaseEnds, ReportRows
<1> QED BY <1>1, <1>2, <1>3 DEF RowStep, ReportLeaseEnds

\* However rows are rewritten, what is validated is as it was, and nothing becomes so.
LEMMA ValidatedKept ==
    ASSUME ReportTypeOK, RowsKept
    PROVE  /\ Len(reports') = Len(reports) /\ DOMAIN reports' = DOMAIN reports
           /\ \A k \in 1..Len(reports) :
                /\ reports'[k].hash = reports[k].hash /\ reports'[k].version = reports[k].version
                /\ (reports'[k].status = "validated") = (reports[k].status = "validated")
                /\ reports[k].status = "validated" => reports'[k].gate = reports[k].gate
<1>1. CASE UNCHANGED reports
  BY <1>1
<1>2. ASSUME NEW n, NEW row, RowStep(n, row)
      PROVE  /\ Len(reports') = Len(reports) /\ DOMAIN reports' = DOMAIN reports
             /\ \A k \in 1..Len(reports) :
                  /\ reports'[k].hash = reports[k].hash /\ reports'[k].version = reports[k].version
                  /\ (reports'[k].status = "validated") = (reports[k].status = "validated")
                  /\ reports[k].status = "validated" => reports'[k].gate = reports[k].gate
  BY <1>2, RowWritten DEF RowStep
<1> QED BY <1>1, <1>2 DEF RowsKept

SafeSchedule == ReportTypeOK /\ HashIsCurrent /\ ValidationStands

\* The stored hash follows the configuration, and no run precedes the schedule.
LEMMA HashStep ==
    ASSUME SafeSchedule, ReportNext
    PROVE  HashIsCurrent'
<1>1. CASE AdminStep
  <2>1. ASSUME NEW c \in Configurations, CreateSchedule(c) PROVE HashIsCurrent'
    BY <2>1 DEF CreateSchedule, Schedule, SafeSchedule, HashIsCurrent
  <2>2. ASSUME NEW c \in Configurations, Reconfigure(c) PROVE HashIsCurrent'
    <3>1. schedule.status # "none" /\ PausedBy(c) # "none"
      BY <2>2 DEF Reconfigure, Exists, PausedBy
    <3> QED BY <2>2, <3>1 DEF Reconfigure, SafeSchedule, HashIsCurrent, ReportTypeOK
  <2>3. CASE PauseSchedule \/ ResumeSchedule \/ ArchiveSchedule \/ ArchivePartnership
    BY <2>3 DEF PauseSchedule, ResumeSchedule, ArchiveSchedule, ArchivePartnership, Exists,
         SafeSchedule, HashIsCurrent, ReportTypeOK
  <2>4. ASSUME NEW st \in {"draft", "active"}, SavePartnership(st) PROVE HashIsCurrent'
    BY <2>4 DEF SavePartnership, SafeSchedule, HashIsCurrent
  <2> QED BY <1>1, <2>1, <2>2, <2>3, <2>4 DEF AdminStep
<1>2. CASE RunStep
  BY <1>2 DEF RunStep, RecordDryRun, RetryReport, Exists, SafeSchedule, HashIsCurrent, ReportTypeOK
<1>3. ASSUME NEW x \in Exporters, ExportStep(x)
      PROVE  HashIsCurrent'
  <2>1. Lawful(x)
    BY <1>3, ExportIsLawful DEF SafeSchedule
  <2>2. reports = <<>> => reports' = <<>>
    BY <2>1 DEF Lawful, RowsKept, RowStep
  <2> QED BY <2>1, <2>2 DEF Lawful, SafeSchedule, HashIsCurrent
<1>4. ASSUME NEW n \in DOMAIN reports, ReportLeaseEnds(n)
      PROVE  HashIsCurrent'
  BY <1>4, Typed DEF ReportLeaseEnds, SafeSchedule, HashIsCurrent
<1> QED BY <1>1, <1>2, <1>3, <1>4, Steps DEF SafeSchedule

\* The two halves of ValidationStands.
ScheduleStands ==
    schedule.status = "active" =>
        /\ schedule.config[2] # {} /\ schedule.validated # 0
        /\ LET r == reports[schedule.validated]
           IN r.status = "validated" /\ r.gate = "passed" /\ r.hash = schedule.hash
ExportsStand ==
    \A x \in Exporters : export[x].pc # "idle" => reports[export[x].report].status # "validated"

\* Lawful changes of rows leave the validation of the schedule as it is.
LEMMA StandsByRows ==
    ASSUME SafeSchedule, RowsKept, UNCHANGED schedule
    PROVE  ScheduleStands'
<1>1. schedule.status = "active" => schedule.validated \in 1..Len(reports)
  BY Typed DEF SafeSchedule, ValidationStands, ReportTypeOK
<1> QED BY <1>1, ValidatedKept DEF SafeSchedule, ValidationStands, ScheduleStands

\* What administrators do to schedules and partnerships touches no run.
LEMMA AdminKeepsRows ==
    ASSUME AdminStep
    PROVE  UNCHANGED <<reports, export, hitches>>
BY DEF AdminStep, CreateSchedule, Reconfigure, PauseSchedule, ResumeSchedule, ArchiveSchedule,
       ArchivePartnership, SavePartnership

\* Activation checks the validation, every change of the configuration pauses.
LEMMA ScheduleStandsStep ==
    ASSUME SafeSchedule, ReportNext
    PROVE  ScheduleStands'
<1>1. CASE AdminStep
  <2> UNCHANGED reports
    BY <1>1, AdminKeepsRows
  <2>1. ASSUME NEW c \in Configurations, CreateSchedule(c) PROVE ScheduleStands'
    BY <2>1 DEF CreateSchedule, Schedule, ScheduleStands
  <2>2. ASSUME NEW c \in Configurations, Reconfigure(c) PROVE ScheduleStands'
    <3>1. CASE schedule.hash = c
      BY <2>2, <3>1 DEF Reconfigure, PausedBy, NextVersion, SafeSchedule, HashIsCurrent,
           ValidationStands, ScheduleStands, ReportTypeOK
    <3>2. CASE schedule.hash # c
      BY <2>2, <3>2 DEF Reconfigure, PausedBy, ScheduleStands, SafeSchedule, ReportTypeOK
    <3> QED BY <3>1, <3>2
  <2>3. CASE PauseSchedule \/ ArchiveSchedule \/ ArchivePartnership
    BY <2>3 DEF PauseSchedule, ArchiveSchedule, ArchivePartnership, Exists, ScheduleStands,
         SafeSchedule, ReportTypeOK
  <2>4. CASE ResumeSchedule
    <3>1. /\ schedule' = [schedule EXCEPT !.status = "active"]
          /\ schedule.config[2] # {} /\ schedule.validated # 0
      BY <2>4 DEF ResumeSchedule, CanActivate
    <3>2. LET r == reports[schedule.validated]
          IN r.hash = schedule.hash /\ r.status \in {"validated", "sent"} /\ r.gate = "passed"
      BY <2>4 DEF ResumeSchedule, CanActivate
    <3>3. reports[schedule.validated].status # "sent"
      <4>1. schedule.validated \in 1..Len(reports)
        BY <3>1, Typed DEF SafeSchedule, ReportTypeOK
      <4> QED BY <4>1, Typed DEF SafeSchedule, ReportRows, Live
    <3> QED BY <3>1, <3>2, <3>3 DEF ScheduleStands, SafeSchedule, ReportTypeOK
  <2>5. ASSUME NEW st \in {"draft", "active"}, SavePartnership(st) PROVE ScheduleStands'
    BY <2>5 DEF SavePartnership, SafeSchedule, ValidationStands, ScheduleStands
  <2> QED BY <1>1, <2>1, <2>2, <2>3, <2>4, <2>5 DEF AdminStep
<1>2. CASE RunStep
  <2>1. ASSUME NEW r \in DryRunResults, RecordDryRun(r[1], r[2]) PROVE ScheduleStands'
    <3> DEFINE row == Report("dry_run", r[1], r[2])
    <3>1. /\ r[1] \in Live \union {"blocked", "failed", "cancelled", "validated"}
          /\ r[1] # "artifact_ready"
          /\ r[2] \in {"passed", "blocked", "not_checked"}
          /\ r[1] = "validated" => r[2] = "passed"
      BY DEF DryRunResults, Live
    <3>2. /\ AddStep(row) /\ row \in ReportRows /\ row.status = r[1] /\ row.gate = r[2]
          /\ row.hash = schedule.config
      BY <2>1, <3>1, NewRow DEF RecordDryRun, AddStep, SafeSchedule
    <3>3. /\ \A k \in 1..Len(reports) : reports'[k] = reports[k]
          /\ reports'[Len(reports) + 1] = row
      BY <3>2, RowAdded DEF SafeSchedule
    <3> HIDE DEF row
    <3>4. CASE r[1] # "validated"
      BY <2>1, <3>3, <3>4, Typed DEF RecordDryRun, SafeSchedule, ValidationStands, ScheduleStands,
           ReportTypeOK
    <3>5. CASE r[1] = "validated"
      <4>1. schedule' = [schedule EXCEPT !.validated = Len(reports) + 1]
        BY <2>1, <3>5 DEF RecordDryRun
      <4>2. /\ schedule'.validated = Len(reports) + 1 /\ schedule'.config = schedule.config
            /\ schedule'.hash = schedule.hash /\ schedule'.status = schedule.status
        BY <4>1 DEF SafeSchedule, ReportTypeOK
      <4>3. Len(reports) + 1 # 0
        BY Typed DEF SafeSchedule
      <4> QED BY <3>1, <3>2, <3>3, <3>5, <4>2, <4>3 DEF SafeSchedule, HashIsCurrent,
                  ValidationStands, ScheduleStands
    <3> QED BY <3>4, <3>5
  <2>2. ASSUME NEW n \in DOMAIN reports, RetryReport(n) PROVE ScheduleStands'
    <3>1. PICK row \in ReportRows : AddStep(row)
      BY <2>2, RunStepAdds DEF RunStep, SafeSchedule
    <3>2. \A k \in 1..Len(reports) : reports'[k] = reports[k]
      BY <3>1, RowAdded DEF SafeSchedule
    <3> QED BY <2>2, <3>2, Typed DEF RetryReport, SafeSchedule, ValidationStands, ScheduleStands,
                ReportTypeOK
  <2> QED BY <1>2, <2>1, <2>2 DEF RunStep
<1>3. ASSUME NEW x \in Exporters, ExportStep(x)
      PROVE  ScheduleStands'
  BY <1>3, ExportIsLawful, StandsByRows DEF Lawful, SafeSchedule
<1>4. ASSUME NEW n \in DOMAIN reports, ReportLeaseEnds(n)
      PROVE  ScheduleStands'
  <2>1. RowsKept /\ UNCHANGED schedule
    BY <1>4, TimeKeepsRows, Zenon DEF RowsKept, SafeSchedule
  <2> QED BY <2>1, StandsByRows
<1> QED BY <1>1, <1>2, <1>3, <1>4, Steps DEF SafeSchedule

\* No invocation is at a validated run: claims take live ones only.
LEMMA ExportsStandStep ==
    ASSUME SafeSchedule, ReportNext
    PROVE  ExportsStand'
<1> USE DEF SafeSchedule
<1>1. CASE AdminStep
  BY <1>1, AdminKeepsRows DEF ValidationStands, ExportsStand
<1>2. CASE RunStep
  <2>1. PICK row \in ReportRows : AddStep(row)
    BY <1>2, RunStepAdds
  <2>2. \A k \in 1..Len(reports) : reports'[k] = reports[k]
    BY <2>1, RowAdded
  <2>3. UNCHANGED export
    BY <1>2, RunStepAdds
  <2> QED BY <2>2, <2>3, Typed DEF ValidationStands, ExportsStand
<1>3. ASSUME NEW x \in Exporters, ExportStep(x)
      PROVE  ExportsStand'
  <2>1. Lawful(x)
    BY <1>3, ExportIsLawful
  <2>2. \A k \in 1..Len(reports) :
           (reports'[k].status = "validated") = (reports[k].status = "validated")
    BY <2>1, ValidatedKept DEF Lawful
  <2>3. \A y \in Exporters : export[y].pc # "idle" => reports'[export[y].report].status # "validated"
    BY <2>2, Typed DEF ValidationStands
  <2>4. CASE UNCHANGED export
    BY <2>3, <2>4 DEF ExportsStand
  <2>5. CASE Freed(x)
    BY <2>3, <2>5 DEF Freed, Free, ExportsStand
  <2>6. ASSUME NEW pc, NEW n, Placed(x, pc, n) PROVE ExportsStand'
    BY <2>2, <2>3, <2>6 DEF Placed, ExportsStand
  <2> QED BY <2>1, <2>4, <2>5, <2>6 DEF Lawful
<1>4. ASSUME NEW n \in DOMAIN reports, ReportLeaseEnds(n)
      PROVE  ExportsStand'
  <2>1. RowsKept /\ UNCHANGED export
    BY <1>4, TimeKeepsRows, Zenon DEF RowsKept
  <2> QED BY <2>1, ValidatedKept, Typed DEF ValidationStands, ExportsStand
<1> QED BY <1>1, <1>2, <1>3, <1>4, Steps

\* The invariant behind both safety theorems about configurations.
LEMMA SafeScheduleHolds == ReportSpec => []SafeSchedule
<1>1. ReportInit => SafeSchedule
  <2> SUFFICES ASSUME ReportInit PROVE HashIsCurrent /\ ValidationStands
    BY ReportInitTyped DEF SafeSchedule
  <2> QED BY DEF ReportInit, Schedule, Free, HashIsCurrent, ValidationStands
<1>2. SafeSchedule /\ [ReportNext]_reportVars => SafeSchedule'
  <2> SUFFICES ASSUME SafeSchedule, [ReportNext]_reportVars PROVE SafeSchedule'
    OBVIOUS
  <2>1. ReportTypeOK'
    BY TypeStep DEF SafeSchedule
  <2>2. CASE ReportNext
    <3>1. HashIsCurrent' /\ ScheduleStands' /\ ExportsStand'
      BY <2>2, HashStep, ScheduleStandsStep, ExportsStandStep
    <3> QED BY <2>1, <3>1 DEF SafeSchedule, ValidationStands, ScheduleStands, ExportsStand
  <2>3. CASE UNCHANGED reportVars
    BY <2>1, <2>3 DEF reportVars, SafeSchedule, HashIsCurrent, ValidationStands
  <2> QED BY <2>2, <2>3
<1> QED BY <1>1, <1>2, PTL DEF ReportSpec

(* The columns keep their types, whatever administrators and invocations do, *)
(* for any number of them.                                                  *)
THEOREM ReportTypeCorrect == ReportSpec => []ReportTypeOK
<1>1. SafeSchedule => ReportTypeOK
  BY DEF SafeSchedule
<1> QED BY <1>1, SafeScheduleHolds, PTL

(* An active schedule has recipients and a passed dry run of exactly the     *)
(* configuration it has now.                                                *)
THEOREM ActiveIsSafe == ReportSpec => []ActiveIsValidated
<1>1. SafeSchedule => ActiveIsValidated
  <2> SUFFICES ASSUME SafeSchedule, schedule.status = "active"
               PROVE  /\ schedule.config[2] # {}
                      /\ \E n \in DOMAIN reports :
                            reports[n].status = "validated" /\ reports[n].gate = "passed"
                              /\ reports[n].hash = schedule.config
    BY DEF ActiveIsValidated
  <2>1. schedule.validated \in DOMAIN reports
    BY Typed DEF SafeSchedule, ValidationStands, ReportTypeOK
  <2> QED BY <2>1 DEF SafeSchedule, HashIsCurrent, ValidationStands
<1> QED BY <1>1, SafeScheduleHolds, PTL

----------------------------------------------------------------------------
(* Versions.                                                               *)

VersionsSafe == SafeSchedule /\ VersionsArePast /\ VersionsNameConfigurations

\* Rows that keep what they were made for under a schedule that keeps its own.
LEMMA VersionsByRows ==
    ASSUME VersionsSafe, RowsKept, UNCHANGED schedule
    PROVE  VersionsArePast' /\ VersionsNameConfigurations'
BY ValidatedKept, Typed DEF VersionsSafe, SafeSchedule, VersionsArePast, VersionsNameConfigurations

\* A change of the configuration moves the version on, past every recorded run.
LEMMA VersionsStep ==
    ASSUME VersionsSafe, ReportNext
    PROVE  VersionsArePast' /\ VersionsNameConfigurations'
<1> USE DEF VersionsSafe, SafeSchedule
<1>1. CASE AdminStep
  <2>1. UNCHANGED reports
    BY <1>1, AdminKeepsRows
  <2>2. ASSUME NEW c \in Configurations, CreateSchedule(c) PROVE VersionsArePast'
    BY <2>1, <2>2 DEF CreateSchedule, HashIsCurrent, VersionsArePast
  <2>3. ASSUME NEW c \in Configurations, Reconfigure(c) PROVE VersionsArePast'
    <3>1. /\ schedule'.version = NextVersion(c) /\ schedule'.hash = c
      BY <2>3 DEF Reconfigure, ReportTypeOK
    <3>2. schedule.version \in Nat /\ \A n \in DOMAIN reports : reports[n].version \in Nat
      BY Typed DEF ReportTypeOK, ReportRows
    <3> QED BY <2>1, <3>1, <3>2 DEF NextVersion, VersionsArePast
  <2>4. ASSUME PauseSchedule \/ ResumeSchedule \/ ArchiveSchedule \/ ArchivePartnership
        PROVE  VersionsArePast'
    <3>1. schedule' = schedule \/ \E st : schedule' = [schedule EXCEPT !.status = st]
      BY <2>4, Zenon DEF PauseSchedule, ResumeSchedule, ArchiveSchedule, ArchivePartnership
    <3>2. schedule'.version = schedule.version /\ schedule'.hash = schedule.hash
      BY <3>1 DEF ReportTypeOK
    <3> QED BY <2>1, <3>2 DEF VersionsArePast
  <2>5. ASSUME NEW st \in {"draft", "active"}, SavePartnership(st) PROVE VersionsArePast'
    BY <2>1, <2>5 DEF SavePartnership, VersionsArePast
  <2>6. VersionsNameConfigurations'
    BY <2>1 DEF VersionsNameConfigurations
  <2> QED BY <1>1, <2>2, <2>3, <2>4, <2>5, <2>6 DEF AdminStep
<1>2. CASE RunStep
  <2>1. PICK row \in ReportRows : AddStep(row)
    BY <1>2, RunStepAdds
  <2>2. /\ DOMAIN reports' = 1..(Len(reports) + 1)
        /\ \A k \in 1..Len(reports) : reports'[k] = reports[k]
        /\ reports'[Len(reports) + 1] = row
    BY <2>1, RowAdded
  <2>3. schedule'.version = schedule.version /\ schedule'.hash = schedule.hash
    BY <1>2 DEF RunStep, RecordDryRun, RetryReport, ReportTypeOK
  <2>4. row.version = schedule.version /\ row.hash = schedule.hash
    BY <2>1 DEF AddStep, HashIsCurrent
  <2>5. DOMAIN reports = 1..Len(reports) /\ Len(reports) \in Nat /\ schedule.version \in Nat
    BY Typed DEF ReportTypeOK
  <2>6. VersionsArePast'
    BY <2>2, <2>3, <2>4, <2>5 DEF VersionsArePast
  <2>7. VersionsNameConfigurations'
    BY <2>2, <2>4, <2>5 DEF VersionsArePast, VersionsNameConfigurations
  <2> QED BY <2>6, <2>7
<1>3. ASSUME NEW x \in Exporters, ExportStep(x)
      PROVE  VersionsArePast' /\ VersionsNameConfigurations'
  BY <1>3, ExportIsLawful, VersionsByRows DEF Lawful
<1>4. ASSUME NEW n \in DOMAIN reports, ReportLeaseEnds(n)
      PROVE  VersionsArePast' /\ VersionsNameConfigurations'
  <2>1. RowsKept /\ UNCHANGED schedule
    BY <1>4, TimeKeepsRows, Zenon DEF RowsKept
  <2> QED BY <2>1, VersionsByRows
<1> QED BY <1>1, <1>2, <1>3, <1>4, Steps

(* Runs with the same configuration version were made for the same          *)
(* configuration.                                                           *)
THEOREM VersionsAreSafe == ReportSpec => []VersionsNameConfigurations
<1>1. ReportInit => VersionsArePast /\ VersionsNameConfigurations
  BY DEF ReportInit, VersionsArePast, VersionsNameConfigurations
<1>2. /\ SafeSchedule /\ VersionsArePast /\ VersionsNameConfigurations
      /\ [ReportNext]_reportVars
      => VersionsArePast' /\ VersionsNameConfigurations'
  <2>1. ASSUME VersionsSafe, UNCHANGED reportVars
        PROVE  VersionsArePast' /\ VersionsNameConfigurations'
    BY <2>1 DEF reportVars, VersionsSafe, VersionsArePast, VersionsNameConfigurations
  <2> QED BY <2>1, VersionsStep DEF VersionsSafe
<1> QED BY <1>1, <1>2, SafeScheduleHolds, PTL DEF ReportSpec

----------------------------------------------------------------------------
(* Leases: with a key of its own, an invocation writes alone.              *)

Writer(x) == Writing(x) => HoldsLease(x) /\ AsLeft(x)
LeasesSafe == SafeSchedule /\ WritersHold /\ ReadyHasPassed

\* Who has the run under its key, or finds it free, is alone with it.
LEMMA Alone ==
    ASSUME LeasesSafe, NEW x \in Exporters, NEW n,
           ~reports[n].leased \/ reports[n].key = x
    PROVE  \A y \in Exporters : y # x /\ Writing(y) => export[y].report # n
BY DEF LeasesSafe, WritersHold, HoldsLease, Taken

\* A row none of the others writes to leaves them as they were.
LEMMA OthersHold ==
    ASSUME LeasesSafe, NEW x \in Exporters, NEW n, NEW row, RowStep(n, row),
           \A y \in Exporters : y # x => export'[y] = export[y],
           \A y \in Exporters : y # x /\ Writing(y) => export[y].report # n
    PROVE  \A y \in Exporters : y # x => Writer(y)'
<1> SUFFICES ASSUME NEW y \in Exporters, y # x, Writing(y)'
             PROVE  HoldsLease(y)' /\ AsLeft(y)'
  BY DEF Writer
<1>1. Writing(y) /\ export'[y] = export[y] /\ export[y].report # n
  BY DEF Writing
<1>2. export[y].report \in 1..Len(reports)
  BY <1>1, Typed DEF LeasesSafe, SafeSchedule, Writing
<1>3. Taken(y)' = Taken(y)
  BY <1>1, <1>2, RowWritten DEF LeasesSafe, SafeSchedule, Taken
<1>4. HoldsLease(y) /\ AsLeft(y)
  BY <1>1 DEF LeasesSafe, WritersHold
<1> QED BY <1>1, <1>3, <1>4 DEF HoldsLease, AsLeft

\* A row that is not offered, or rightly so.
LEMMA ReadyByRow ==
    ASSUME LeasesSafe, NEW n, NEW row, RowStep(n, row),
           row.status = "artifact_ready" => row.artifact /\ row.gate = "passed"
    PROVE  ReadyHasPassed'
BY RowWritten, Typed DEF LeasesSafe, SafeSchedule, ReadyHasPassed

\* Rows nobody rewrites, and invocations that stop writing.
LEMMA StillHeld ==
    ASSUME LeasesSafe, UNCHANGED reports, NEW x \in Exporters,
           \A y \in Exporters : y # x => export'[y] = export[y],
           export'[x] = export[x] \/ export'[x].pc \in {"idle", "fail"}
    PROVE  WritersHold' /\ ReadyHasPassed'
<1>1. ReadyHasPassed'
  BY DEF LeasesSafe, ReadyHasPassed
<1>2. ASSUME NEW y \in Exporters, Writing(y)' PROVE HoldsLease(y)' /\ AsLeft(y)'
  <2>1. export'[y] = export[y]
    BY <1>2 DEF Writing
  <2>2. HoldsLease(y) /\ AsLeft(y) /\ Taken(y)' = Taken(y)
    BY <1>2, <2>1 DEF LeasesSafe, WritersHold, Writing, Taken
  <2> QED BY <2>1, <2>2 DEF HoldsLease, AsLeft
<1> QED BY <1>1, <1>2 DEF WritersHold

\* An update: what it must know of the row, and what it must leave for the next.
LEMMA UpdateHeld ==
    ASSUME LeasesSafe, NEW x \in Exporters, Writing(x),
           NEW row \in ReportRows, NEW next \in ReportPoints, NEW ok \in BOOLEAN,
           Updates(x, row, next, ok),
           row.hash = Taken(x).hash, row.version = Taken(x).version, row.status # "validated",
           row.key = Taken(x).key, row.leased = Taken(x).leased, row.status # "artifact_ready",
           next \in {"preview", "block", "pass", "blocked"} => row.status = "checking_warnings",
           next \in {"store", "artifact_ready"} => row.gate = "passed" /\ row.status = "generating",
           next = "artifact_ready" => row.artifact
    PROVE  WritersHold' /\ ReadyHasPassed'
<1> DEFINE n == export[x].report
<1>1. export[x].pc # "idle"
  BY DEF Writing
<1>2. RowStep(n, row) /\ Placed(x, IF ok THEN next ELSE "fail", n)
  BY <1>1, Updating DEF LeasesSafe, SafeSchedule
<1>3. ReadyHasPassed'
  BY <1>2, ReadyByRow
<1>4. HoldsLease(x)
  BY DEF LeasesSafe, WritersHold
<1>5. \A y \in Exporters : y # x => Writer(y)'
  <2>1. \A y \in Exporters : y # x /\ Writing(y) => export[y].report # n
    BY <1>4, Alone DEF HoldsLease, Taken
  <2> QED BY <1>2, <2>1, OthersHold DEF Placed
<1>6. Writer(x)'
  <2>1. Taken(x)' = row
    BY <1>2, RowWritten DEF LeasesSafe, SafeSchedule, RowStep, Placed, Taken
  <2>2. export'[x].pc = next \/ export'[x].pc = "fail"
    BY <1>2 DEF Placed
  <2> QED BY <1>4, <2>1, <2>2 DEF Writer, Writing, HoldsLease, AsLeft
<1> QED BY <1>3, <1>5, <1>6 DEF Writer, WritersHold

\* A claim finds the run free or its own, hence is alone with it.
LEMMA ClaimHeld ==
    ASSUME LeasesSafe, ~SharedKey, NEW x \in Exporters, NEW n \in DOMAIN reports,
           NEW ok \in BOOLEAN, ClaimReport(x, n, ok)
    PROVE  WritersHold' /\ ReadyHasPassed'
<1> DEFINE row == [reports[n] EXCEPT !.key = Key(x), !.leased = TRUE]
<1>1. /\ n \in 1..Len(reports) /\ reports[n] \in ReportRows /\ Key(x) = x
  BY Typed DEF LeasesSafe, SafeSchedule, Key
<1>2. RowStep(n, row) /\ (IF ok THEN Placed(x, "start", n) ELSE UNCHANGED export)
  BY ClaimIsLawful DEF LeasesSafe, SafeSchedule
<1>3. /\ row.key = x /\ row.leased /\ row.status = reports[n].status
      /\ row.gate = reports[n].gate /\ row.artifact = reports[n].artifact
  BY <1>1 DEF ReportRows
<1> HIDE DEF row
<1>4. ReadyHasPassed'
  <2>1. row.status = "artifact_ready" => row.artifact /\ row.gate = "passed"
    BY <1>3 DEF LeasesSafe, ReadyHasPassed
  <2> QED BY <1>2, <2>1, ReadyByRow
<1>5. \A y \in Exporters : y # x => Writer(y)'
  <2>1. \A y \in Exporters : y # x /\ Writing(y) => export[y].report # n
    BY <1>1, Alone DEF ClaimReport, Claimable
  <2>2. \A y \in Exporters : y # x => export'[y] = export[y]
    BY <1>2 DEF Placed
  <2> QED BY <1>2, <2>1, <2>2, OthersHold
<1>6. Writer(x)'
  <2>1. CASE ~ok
    BY <1>2, <2>1 DEF ClaimReport, Writer, Writing
  <2>2. CASE ok
    <3>1. export'[x].pc = "start" /\ export'[x].report = n
      BY <1>2, <2>2 DEF Placed
    <3>2. Taken(x)' = row
      BY <1>1, <1>2, <3>1, RowWritten DEF LeasesSafe, SafeSchedule, Taken
    <3> QED BY <1>3, <3>1, <3>2 DEF Writer, HoldsLease, AsLeft
  <2> QED BY <2>1, <2>2
<1> QED BY <1>4, <1>5, <1>6 DEF Writer, WritersHold

\* A release writes under the own key only, and offers what the row has become.
LEMMA ReleaseHeld ==
    ASSUME LeasesSafe, ~SharedKey, NEW x \in Exporters, NEW ok \in BOOLEAN, ReleaseReport(x, ok)
    PROVE  WritersHold' /\ ReadyHasPassed'
<1> DEFINE n == export[x].report
           row == [reports[n] EXCEPT !.status = Verdict(x), !.key = "nobody", !.leased = FALSE]
<1>1. /\ export[x].pc # "idle" /\ n \in 1..Len(reports) /\ reports[n] \in ReportRows
      /\ reports[n].status # "validated" /\ Key(x) = x
  BY Typed DEF ReleaseReport, Verdict, Outcomes, LeasesSafe, SafeSchedule, ValidationStands, Taken, Key
<1>2. /\ row \in ReportRows /\ row.hash = reports[n].hash /\ row.version = reports[n].version
      /\ row.status = Verdict(x) /\ row.status # "validated"
      /\ row.gate = reports[n].gate /\ row.artifact = reports[n].artifact
  BY <1>1 DEF ReleaseReport, Outcomes, ReportRows, Live
<1>3. \A y \in Exporters : y # x => export'[y] = export[y]
  BY DEF ReleaseReport, LeasesSafe, SafeSchedule, ReportTypeOK
<1>4. export'[x].pc \in {"idle", "fail"}
  BY DEF ReleaseReport, LeasesSafe, SafeSchedule, ReportTypeOK, Free
<1>5. CASE UNCHANGED reports
  BY <1>3, <1>4, <1>5, StillHeld
<1>6. CASE Taken(x).key = x /\ reports' = [reports EXCEPT ![n] = row]
  <2>1. RowStep(n, row)
    BY <1>1, <1>2, <1>6 DEF RowStep
  <2>2. row.status = "artifact_ready" => row.artifact /\ row.gate = "passed"
    BY <1>1, <1>2 DEF Verdict, Writing, LeasesSafe, WritersHold, AsLeft, Taken
  <2>3. ReadyHasPassed'
    BY <2>1, <2>2, ReadyByRow
  <2>4. \A y \in Exporters : y # x /\ Writing(y) => export[y].report # n
    BY <1>6, Alone DEF Taken
  <2>5. \A y \in Exporters : y # x => Writer(y)'
    BY <1>3, <2>1, <2>4, OthersHold
  <2>6. Writer(x)'
    BY <1>4 DEF Writer, Writing
  <2> QED BY <2>3, <2>5, <2>6 DEF Writer, WritersHold
<1>7. UNCHANGED reports \/ (Taken(x).key = x /\ reports' = [reports EXCEPT ![n] = row])
  BY <1>1 DEF ReleaseReport, Taken
<1> QED BY <1>5, <1>6, <1>7

\* Every step of an invocation keeps the writers alone and the offers passed.
LEMMA ExportHeld ==
    ASSUME LeasesSafe, ~SharedKey, NEW x \in Exporters, ExportStep(x)
    PROVE  WritersHold' /\ ReadyHasPassed'
<1> DEFINE r == Taken(x)
           row1 == [r EXCEPT !.status = "checking_warnings", !.gate = "not_checked"]
           row2 == [r EXCEPT !.gate = "blocked", !.artifact = FALSE]
           row3 == [r EXCEPT !.status = "generating", !.gate = "passed"]
           row4 == [r EXCEPT !.artifact = TRUE, !.gate = "passed"]
<1>1. ASSUME export[x].pc # "idle"
      PROVE  /\ r \in ReportRows /\ r.status # "validated" /\ export[x] \in [pc : ReportPoints, report : Nat]
             /\ Writing(x) => HoldsLease(x) /\ AsLeft(x)
  BY <1>1, Typed DEF LeasesSafe, SafeSchedule, ReportTypeOK, ValidationStands, WritersHold, Taken
<1>2. ASSUME NEW ok \in BOOLEAN, StartExport(x, ok)
      PROVE  WritersHold' /\ ReadyHasPassed'
  <2>1. export[x].pc # "idle" /\ Writing(x)
    BY <1>2 DEF StartExport, Writing
  <2>2. CASE r.trigger # "dry_run"
    <3>1. Updates(x, row1, "preview", ok)
      BY <1>2, <2>2 DEF StartExport
    <3>2. /\ row1 \in ReportRows /\ row1.hash = r.hash /\ row1.version = r.version
          /\ row1.status = "checking_warnings" /\ row1.key = r.key /\ row1.leased = r.leased
      BY <1>1, <2>1, Rewritten
    <3> HIDE DEF row1
    <3> QED BY <2>1, <3>1, <3>2, UpdateHeld DEF ReportPoints
  <2>3. CASE r.trigger = "dry_run"
    <3>1. ok /\ Updates(x, r, "fail", ok)
      BY <1>2, <2>3 DEF StartExport
    <3>2. UNCHANGED reports
      BY <3>1, <2>1, Typed DEF Updates, Taken, LeasesSafe, SafeSchedule, ReportTypeOK
    <3>3. /\ \A y \in Exporters : y # x => export'[y] = export[y]
          /\ export'[x].pc = "fail"
      BY <3>1 DEF Updates, Moves, LeasesSafe, SafeSchedule, ReportTypeOK
    <3> QED BY <3>2, <3>3, StillHeld
  <2> QED BY <2>2, <2>3
<1>3. ASSUME NEW ok \in BOOLEAN, MarkBlocked(x, ok)
      PROVE  WritersHold' /\ ReadyHasPassed'
  <2>1. export[x].pc = "block" /\ Writing(x) /\ Updates(x, row2, "blocked", ok)
    BY <1>3 DEF MarkBlocked, Writing
  <2>2. r.status = "checking_warnings"
    BY <1>1, <2>1 DEF AsLeft
  <2>3. /\ row2 \in ReportRows /\ row2.hash = r.hash /\ row2.version = r.version
        /\ row2.status = r.status /\ row2.key = r.key /\ row2.leased = r.leased
    BY <1>1, <2>1, Rewritten
  <2> HIDE DEF row2
  <2> QED BY <2>1, <2>2, <2>3, UpdateHeld DEF ReportPoints
<1>4. ASSUME NEW ok \in BOOLEAN, MarkPassed(x, ok)
      PROVE  WritersHold' /\ ReadyHasPassed'
  <2>1. export[x].pc = "pass" /\ Writing(x) /\ Updates(x, row3, "store", ok)
    BY <1>4 DEF MarkPassed, Writing
  <2>2. /\ row3 \in ReportRows /\ row3.hash = r.hash /\ row3.version = r.version
        /\ row3.status = "generating" /\ row3.gate = "passed"
        /\ row3.key = r.key /\ row3.leased = r.leased
    BY <1>1, <2>1, Rewritten
  <2> HIDE DEF row3
  <2> QED BY <2>1, <2>2, UpdateHeld DEF ReportPoints
<1>5. ASSUME NEW ok \in BOOLEAN, StoreArtifact(x, ok)
      PROVE  WritersHold' /\ ReadyHasPassed'
  <2>1. export[x].pc = "store" /\ Writing(x) /\ Updates(x, row4, "artifact_ready", ok)
    BY <1>5 DEF StoreArtifact, Writing
  <2>2. r.status = "generating"
    BY <1>1, <2>1 DEF AsLeft
  <2>3. /\ row4 \in ReportRows /\ row4.hash = r.hash /\ row4.version = r.version
        /\ row4.status = r.status /\ row4.gate = "passed" /\ row4.artifact
        /\ row4.key = r.key /\ row4.leased = r.leased
    BY <1>1, <2>1, Rewritten
  <2> HIDE DEF row4
  <2> QED BY <2>1, <2>2, <2>3, UpdateHeld DEF ReportPoints
<1>6. ASSUME NEW next \in {"block", "pass"}, Preview(x, next)
      PROVE  WritersHold' /\ ReadyHasPassed'
  <2>1. /\ export[x].pc = "preview" /\ Writing(x) /\ UNCHANGED reports
    BY <1>6 DEF Preview, Writing
  <2>2. /\ \A y \in Exporters : y # x => export'[y] = export[y]
        /\ export'[x].pc = next /\ export'[x].report = export[x].report
    BY <1>6 DEF Preview, Moves, LeasesSafe, SafeSchedule, ReportTypeOK
  <2>3. \A y \in Exporters : Taken(y)' = Taken(y)
    BY <2>1, <2>2 DEF Taken
  <2>4. ReadyHasPassed'
    BY <2>1 DEF LeasesSafe, ReadyHasPassed
  <2>5. Writer(x)'
    BY <2>1, <2>2, <2>3 DEF LeasesSafe, WritersHold, Writer, HoldsLease, AsLeft
  <2>6. ASSUME NEW y \in Exporters, y # x PROVE Writer(y)'
    BY <2>2, <2>3, <2>6 DEF LeasesSafe, WritersHold, Writer, Writing, HoldsLease, AsLeft
  <2> QED BY <2>4, <2>5, <2>6 DEF Writer, WritersHold
<1>7. CASE ExportCallFails(x) \/ ExporterDies(x)
  <2>1. /\ UNCHANGED reports
        /\ \A y \in Exporters : y # x => export'[y] = export[y]
        /\ export'[x].pc \in {"idle", "fail"}
    BY <1>7 DEF ExportCallFails, ExporterDies, Free, LeasesSafe, SafeSchedule, ReportTypeOK
  <2> QED BY <2>1, StillHeld
<1> QED BY <1>2, <1>3, <1>4, <1>5, <1>6, <1>7, ClaimHeld, ReleaseHeld, Zenon DEF ExportStep

\* Administrators add runs nobody holds; leases end only where nobody is at work.
LEMMA LeasesStep ==
    ASSUME LeasesSafe, ~SharedKey, ReportNext
    PROVE  WritersHold' /\ ReadyHasPassed'
<1>1. CASE AdminStep
  <2>1. UNCHANGED <<reports, export>>
    BY <1>1, AdminKeepsRows
  <2> QED BY <2>1 DEF LeasesSafe, WritersHold, ReadyHasPassed, Writing, HoldsLease, AsLeft, Taken
<1>2. CASE RunStep
  <2>1. PICK row \in ReportRows : AddStep(row)
    BY <1>2, RunStepAdds DEF LeasesSafe, SafeSchedule
  <2>2. /\ DOMAIN reports' = 1..(Len(reports) + 1)
        /\ \A k \in 1..Len(reports) : reports'[k] = reports[k]
        /\ reports'[Len(reports) + 1] = row /\ row.status # "artifact_ready"
    BY <2>1, RowAdded DEF LeasesSafe, SafeSchedule, AddStep
  <2>3. UNCHANGED export
    BY <1>2, RunStepAdds DEF LeasesSafe, SafeSchedule
  <2>4. DOMAIN reports = 1..Len(reports) /\ Len(reports) \in Nat
    BY Typed DEF LeasesSafe, SafeSchedule
  <2>5. ReadyHasPassed'
    BY <2>2, <2>4 DEF LeasesSafe, ReadyHasPassed
  <2>6. ASSUME NEW y \in Exporters, Writing(y)' PROVE HoldsLease(y)' /\ AsLeft(y)'
    <3>1. Writing(y) /\ export'[y] = export[y]
      BY <2>3, <2>6 DEF Writing
    <3>2. Taken(y)' = Taken(y)
      BY <2>2, <3>1, Typed DEF LeasesSafe, SafeSchedule, Writing, Taken
    <3>3. HoldsLease(y) /\ AsLeft(y)
      BY <3>1 DEF LeasesSafe, WritersHold
    <3> QED BY <3>1, <3>2, <3>3 DEF HoldsLease, AsLeft
  <2> QED BY <2>5, <2>6 DEF WritersHold
<1>3. ASSUME NEW x \in Exporters, ExportStep(x)
      PROVE  WritersHold' /\ ReadyHasPassed'
  BY <1>3, ExportHeld
<1>4. ASSUME NEW n \in DOMAIN reports, ReportLeaseEnds(n)
      PROVE  WritersHold' /\ ReadyHasPassed'
  <2> DEFINE row == [reports[n] EXCEPT !.leased = FALSE]
  <2>1. RowStep(n, row) /\ UNCHANGED export
    BY <1>4, TimeKeepsRows DEF LeasesSafe, SafeSchedule
  <2>2. /\ reports[n] \in ReportRows
        /\ row.status = reports[n].status /\ row.gate = reports[n].gate
        /\ row.artifact = reports[n].artifact
    BY Typed DEF LeasesSafe, SafeSchedule, ReportRows
  <2> HIDE DEF row
  <2>3. ReadyHasPassed'
    <3>1. row.status = "artifact_ready" => row.artifact /\ row.gate = "passed"
      BY <2>2 DEF LeasesSafe, ReadyHasPassed
    <3> QED BY <2>1, <3>1, ReadyByRow
  <2>4. ASSUME NEW y \in Exporters, Writing(y)' PROVE HoldsLease(y)' /\ AsLeft(y)'
    <3>1. Writing(y) /\ export'[y] = export[y] /\ export[y].report # n
      BY <1>4, <2>1, <2>4 DEF Writing, ReportLeaseEnds
    <3>2. Taken(y)' = Taken(y)
      BY <2>1, <3>1, Typed, RowWritten DEF LeasesSafe, SafeSchedule, Writing, Taken
    <3>3. HoldsLease(y) /\ AsLeft(y)
      BY <3>1 DEF LeasesSafe, WritersHold
    <3> QED BY <3>1, <3>2, <3>3 DEF HoldsLease, AsLeft
  <2> QED BY <2>3, <2>4 DEF WritersHold
<1> QED BY <1>1, <1>2, <1>3, <1>4, Steps DEF LeasesSafe, SafeSchedule

(* With a worker key of its own per invocation, a run offered for mailing    *)
(* has an artifact and a passed gate.                                       *)
THEOREM ReadyIsSafe == ~SharedKey => (ReportSpec => []ReadyHasPassed)
<1> SUFFICES ASSUME ~SharedKey PROVE ReportSpec => []ReadyHasPassed
  OBVIOUS
<1>1. ReportInit => WritersHold /\ ReadyHasPassed
  BY DEF ReportInit, Free, WritersHold, Writing, ReadyHasPassed
<1>2. SafeSchedule /\ WritersHold /\ ReadyHasPassed /\ [ReportNext]_reportVars
      => WritersHold' /\ ReadyHasPassed'
  <2>1. ASSUME LeasesSafe, UNCHANGED reportVars
        PROVE  WritersHold' /\ ReadyHasPassed'
    BY <2>1 DEF reportVars, LeasesSafe, WritersHold, ReadyHasPassed, Writing, HoldsLease, AsLeft, Taken
  <2> QED BY <2>1, LeasesStep DEF LeasesSafe
<1> QED BY <1>1, <1>2, SafeScheduleHolds, PTL DEF ReportSpec
=============================================================================
