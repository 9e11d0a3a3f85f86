--------------------------- MODULE ReportSchedule ---------------------------
(***************************************************************************)
(* The schedule of one partner report: its configuration and the dry run   *)
(* that must validate it, and the report runs the export function works on *)
(* under a lease.  Schedules share nothing but the partnership.            *)
(*                                                                         *)
(* A configuration hash is the configuration itself: the settings and the  *)
(* e-mail addresses of the active recipients.                              *)
(***************************************************************************)
EXTENDS Naturals, Sequences

CONSTANTS
    Addresses,   \* recipients there may be
    Settings,    \* cadence, send time, sender: everything else that is hashed
    Exporters,   \* invocations of partner-report-export that may overlap
    SharedKey,   \* callers leave the worker key to its default
    MaxReports,  \* bound: runs ever recorded
    MaxRevisions, \* bound: changes of the configuration
    MaxHitches   \* bound: deaths, failed calls and lost answers

ASSUME ReportConstants ==
    /\ Settings # {} /\ SharedKey \in BOOLEAN
    /\ "default" \notin Exporters /\ "nobody" \notin Exporters
    /\ MaxReports \in Nat /\ MaxRevisions \in Nat /\ MaxHitches \in Nat

VARIABLES
    partnership,  \* reporting_partnerships.status
    schedule,     \* the row of partner_report_schedules with its active recipients
    reports,      \* partner_report_schedule_runs, in the order of creation
    export,       \* what each invocation is doing, with which report
    revisions, hitches

reportVars == <<partnership, schedule, reports, export, revisions, hitches>>

Configurations == Settings \X SUBSET Addresses
Live == {"queued", "checking_warnings", "generating", "artifact_ready", "sending"}
Free == [pc |-> "idle", report |-> 0]

Schedule(status, c, version) ==
    [status |-> status, config |-> c, hash |-> c, version |-> version, validated |-> 0]

ReportInit ==
    /\ partnership = "draft"
    /\ schedule = Schedule("none", CHOOSE c \in Configurations : TRUE, 0)
    /\ reports = <<>>
    /\ export = [x \in Exporters |-> Free]
    /\ revisions = 0 /\ hitches = 0

Exists == schedule.status \in {"paused", "active"}
Hitch == hitches < MaxHitches /\ hitches' = hitches + 1
Heard(ok) == IF ok THEN UNCHANGED hitches ELSE Hitch

----------------------------------------------------------------------------
(* Administrators.                                                         *)

CreateSchedule(c) ==
    /\ schedule.status = "none"
    /\ schedule' = Schedule("paused", c, 1)
    /\ UNCHANGED <<partnership, reports, export, revisions, hitches>>

\* Fault: an active schedule stays active under its new configuration.
StillActive(c) == schedule.status
PausedBy(c) == IF schedule.hash # c THEN "paused" ELSE schedule.status
\* partner_report_schedule_refresh_configuration
NextVersion(c) == IF schedule.hash # c THEN schedule.version + 1 ELSE schedule.version

\* The end that updating and changing recipients have in common.
Reconfigure(c) ==
    /\ Exists /\ revisions < MaxRevisions /\ revisions' = revisions + 1
    /\ schedule' = [schedule EXCEPT !.config = c, !.hash = c, !.version = NextVersion(c),
                                    !.status = PausedBy(c)]
    /\ UNCHANGED <<partnership, reports, export, hitches>>

\* An update that changes nothing hashed has no effect here.
UpdateSchedule(s) == s # schedule.config[1] /\ Reconfigure(<<s, schedule.config[2]>>)

AddRecipient(a) ==
    a \notin schedule.config[2] /\ Reconfigure(<<schedule.config[1], schedule.config[2] \union {a}>>)

RemoveRecipient(a) ==
    a \in schedule.config[2] /\ Reconfigure(<<schedule.config[1], schedule.config[2] \ {a}>>)

PauseSchedule ==
    /\ Exists
    /\ schedule' = [schedule EXCEPT !.status = "paused"]
    /\ UNCHANGED <<partnership, reports, export, revisions, hitches>>

\* partner_report_schedule_assert_can_activate
CanActivate ==
    /\ partnership = "active"
    /\ schedule.config[2] # {}
    /\ schedule.validated # 0
    /\ LET r == reports[schedule.validated]
       IN r.hash = schedule.hash /\ r.status \in {"validated", "sent"} /\ r.gate = "passed"

ResumeSchedule ==
    /\ Exists /\ CanActivate
    /\ schedule' = [schedule EXCEPT !.status = "active"]
    /\ UNCHANGED <<partnership, reports, export, revisions, hitches>>

ArchiveSchedule ==
    /\ Exists
    /\ schedule' = [schedule EXCEPT !.status = "archived"]
    /\ UNCHANGED <<partnership, reports, export, revisions, hitches>>

\* The configuration was refreshed just before, so the hash is the current one.
Report(trigger, status, gate) ==
    [trigger |-> trigger, status |-> status, gate |-> gate, hash |-> schedule.config,
     version |-> schedule.version, artifact |-> FALSE, key |-> "nobody", leased |-> FALSE]

DryRunResults ==
    ({"queued", "checking_warnings", "blocked", "failed", "cancelled"}
        \X {"passed", "blocked", "not_checked"}) \union {<<"validated", "passed">>}

\* admin_record_partner_report_schedule_dry_run
RecordDryRun(status, gate) ==
    /\ Exists /\ Len(reports) < MaxReports
    /\ reports' = Append(reports, Report("dry_run", status, gate))
    /\ schedule' = IF status # "validated" THEN schedule
                   ELSE [schedule EXCEPT !.validated = Len(reports) + 1]
    /\ UNCHANGED <<partnership, export, revisions, hitches>>

\* partner_report_schedule_retry_eligibility: again, or again from the stored artifact.
RetryEligible(r) ==
    \/ r.status \in {"blocked", "failed", "cancelled"}
    \/ r.status \in {"artifact_ready", "failed"} /\ r.artifact /\ r.gate = "passed"

\* admin_create_partner_report_schedule_retry_run
RetryReport(n) ==
    /\ Exists /\ Len(reports) < MaxReports
    /\ RetryEligible(reports[n])
    /\ reports' = Append(reports, Report("manual_retry", "queued", "not_checked"))
    /\ UNCHANGED <<partnership, schedule, export, revisions, hitches>>

\* admin_upsert_reporting_partnership: archiving has a call of its own.
SavePartnership(status) ==
    /\ status # partnership
    /\ partnership' = status
    /\ UNCHANGED <<schedule, reports, export, revisions, hitches>>

\* admin_archive_reporting_partnership: nothing that has been reported is archived.
ArchivePartnership ==
    /\ partnership # "archived" /\ reports = <<>>
    /\ partnership' = "archived"
    /\ schedule' = IF Exists THEN [schedule EXCEPT !.status = "archived"] ELSE schedule
    /\ UNCHANGED <<reports, export, revisions, hitches>>

----------------------------------------------------------------------------
(* An invocation of the export function.                                   *)

Key(x) == IF SharedKey THEN "default" ELSE x

\* Fault: the lease is not looked at.
AnyLive(x, n) == reports[n].status \in Live
Claimable(x, n) ==
    /\ reports[n].status \in Live
    /\ ~reports[n].leased \/ reports[n].key = Key(x)

\* partner_report_schedule_claim_run
ClaimReport(x, n, ok) ==
    /\ export[x].pc = "idle" /\ Claimable(x, n)
    /\ reports' = [reports EXCEPT ![n].key = Key(x), ![n].leased = TRUE]
    /\ export' = IF ok THEN [export EXCEPT ![x] = [pc |-> "start", report |-> n]] ELSE export
    /\ Heard(ok)
    /\ UNCHANGED <<partnership, schedule, revisions>>

Moves(x, pc) == export' = [export EXCEPT ![x].pc = pc]
\* updateScheduleRun: by the run's id alone, whoever holds the lease.
Updates(x, row, next, ok) ==
    /\ reports' = [reports EXCEPT ![export[x].report] = row]
    /\ Moves(x, IF ok THEN next ELSE "fail")
    /\ Heard(ok)
    /\ UNCHANGED <<partnership, schedule, revisions>>
Taken(x) == reports[export[x].report]

\* scheduleRunToExportRequest refuses dry runs; the others lose their gate.
StartExport(x, ok) ==
    /\ export[x].pc = "start"
    /\ IF Taken(x).trigger = "dry_run"
       THEN ok /\ Updates(x, Taken(x), "fail", ok)
       ELSE Updates(x, [Taken(x) EXCEPT !.status = "checking_warnings", !.gate = "not_checked"],
                    "preview", ok)

\* loadPartnerReportPreview, with or without blocking warnings.
Preview(x, next) ==
    /\ export[x].pc = "preview" /\ Moves(x, next)
    /\ UNCHANGED <<partnership, schedule, reports, revisions, hitches>>

MarkBlocked(x, ok) ==
    /\ export[x].pc = "block"
    /\ Updates(x, [Taken(x) EXCEPT !.gate = "blocked", !.artifact = FALSE], "blocked", ok)

MarkPassed(x, ok) ==
    /\ export[x].pc = "pass"
    /\ Updates(x, [Taken(x) EXCEPT !.status = "generating", !.gate = "passed"], "store", ok)

\* After buildPartnerReportArtifact.
StoreArtifact(x, ok) ==
    /\ export[x].pc = "store"
    /\ Updates(x, [Taken(x) EXCEPT !.artifact = TRUE, !.gate = "passed"], "artifact_ready", ok)

Outcomes == {"blocked", "artifact_ready", "failed"}
Verdict(x) == IF export[x].pc = "fail" THEN "failed" ELSE export[x].pc

\* partner_report_schedule_release_run: refused when another key or none holds the run.
ReleaseReport(x, ok) ==
    LET heard == ok /\ Taken(x).key = Key(x)
    IN /\ Verdict(x) \in Outcomes
       /\ reports' = IF Taken(x).key # Key(x) THEN reports
                     ELSE [reports EXCEPT ![export[x].report] =
                            [@ EXCEPT !.status = Verdict(x), !.key = "nobody", !.leased = FALSE]]
       /\ export' = [export EXCEPT ![x] =
                       IF heard \/ export[x].pc = "fail" THEN Free ELSE [@ EXCEPT !.pc = "fail"]]
       /\ Heard(ok)
       /\ UNCHANGED <<partnership, schedule, revisions>>

\* A call does not get through, or building the artifact fails.
ExportCallFails(x) ==
    /\ export[x].pc # "idle" /\ Hitch
    /\ export' = [export EXCEPT ![x] = IF @.pc = "fail" THEN Free ELSE [@ EXCEPT !.pc = "fail"]]
    /\ UNCHANGED <<partnership, schedule, reports, revisions>>

ExporterDies(x) ==
    /\ export[x].pc # "idle" /\ Hitch
    /\ export' = [export EXCEPT ![x] = Free]
    /\ UNCHANGED <<partnership, schedule, reports, revisions>>

\* Ten minutes pass since a claim; an invocation is ended by its platform before that.
ReportLeaseEnds(n) ==
    /\ reports[n].leased /\ \A x \in Exporters : export[x].report # n
    /\ reports' = [reports EXCEPT ![n].leased = FALSE]
    /\ UNCHANGED <<partnership, schedule, export, revisions, hitches>>

----------------------------------------------------------------------------
Administer ==
    \/ \E c \in Configurations : CreateSchedule(c)
    \/ PauseSchedule \/ ResumeSchedule \/ ArchiveSchedule \/ ArchivePartnership
    \/ \E s \in Settings : UpdateSchedule(s)
    \/ \E a \in Addresses : AddRecipient(a) \/ RemoveRecipient(a)
    \/ \E r \in DryRunResults : RecordDryRun(r[1], r[2])
    \/ \E n \in DOMAIN reports : RetryReport(n)
    \/ \E st \in {"draft", "active"} : SavePartnership(st)

ExportStep(x) ==
    \/ \E ok \in BOOLEAN :
        \/ \E n \in DOMAIN reports : ClaimReport(x, n, ok)
        \/ StartExport(x, ok) \/ MarkBlocked(x, ok) \/ MarkPassed(x, ok) \/ StoreArtifact(x, ok)
        \/ ReleaseReport(x, ok)
    \/ \E next \in {"block", "pass"} : Preview(x, next)
    \/ ExportCallFails(x) \/ ExporterDies(x)

ReportNext ==
    \/ Administer
    \/ \E x \in Exporters : ExportStep(x)
    \/ \E n \in DOMAIN reports : ReportLeaseEnds(n)

ReportSpec == ReportInit /\ [][ReportNext]_reportVars

----------------------------------------------------------------------------
(* Properties.                                                             *)

ReportRows ==
    [trigger : {"dry_run", "manual_retry"},
     status : Live \union {"blocked", "failed", "cancelled", "validated"},
     gate : {"passed", "blocked", "not_checked"}, hash : Configurations, version : Nat,
     artifact : BOOLEAN, key : Exporters \union {"default", "nobody"}, leased : BOOLEAN]
ReportPoints ==
    {"idle", "start", "preview", "block", "pass", "store", "fail", "blocked", "artifact_ready"}

\* The columns and the invocations keep their types.
ReportTypeOK ==
    /\ partnership \in {"draft", "active", "archived"}
    /\ schedule \in [status : {"none", "paused", "active", "archived"}, config : Configurations,
                     hash : Configurations, version : Nat, validated : Nat]
    /\ schedule.validated \in 0..Len(reports)
    /\ reports \in Seq(ReportRows)
    /\ export \in [Exporters -> [pc : ReportPoints, report : Nat]]
    /\ \A x \in Exporters :
          export[x].report \in 1..Len(reports) \/ export[x] = Free
    /\ revisions \in Nat /\ hitches \in Nat

(* A schedule is active only with recipients and a passed dry run of the    *)
(* configuration it has now, whatever was changed, changed back, retried or *)
(* exported since: assert_can_activate and the automatic pauses.            *)
ActiveIsValidated ==
    schedule.status = "active" =>
        /\ schedule.config[2] # {}
        /\ \E n \in DOMAIN reports :
              reports[n].status = "validated" /\ reports[n].gate = "passed"
                /\ reports[n].hash = schedule.config

(* Runs that carry the same configuration version were made for the same    *)
(* configuration: no path changes it and leaves the version to a refresh    *)
(* that does not count.                                                     *)
VersionsNameConfigurations ==
    \A n, k \in DOMAIN reports :
        reports[n].version = reports[k].version => reports[n].hash = reports[k].hash

(* A run offered for mailing has an artifact and a passed gate, though rows *)
(* are updated by their id alone: claim and release must keep invocations   *)
(* apart.  With the default worker key (SharedKey) they do not.             *)
ReadyHasPassed ==
    \A n \in DOMAIN reports :
        reports[n].status = "artifact_ready" => reports[n].artifact /\ reports[n].gate = "passed"

(* Why the three hold.                                                      *)
HashIsCurrent ==
    /\ schedule.hash = schedule.config
    /\ schedule.status = "none" => reports = <<>>

\* What validated the configuration is never worked on.
ValidationStands ==
    /\ schedule.status = "active" =>
          /\ schedule.config[2] # {} /\ schedule.validated # 0
          /\ LET r == reports[schedule.validated]
             IN r.status = "validated" /\ r.gate = "passed" /\ r.hash = schedule.hash
    /\ \A x \in Exporters :
          export[x].pc # "idle" => reports[export[x].report].status # "validated"

VersionsArePast ==
    \A n \in DOMAIN reports :
        /\ reports[n].version <= schedule.version
        /\ reports[n].version = schedule.version => reports[n].hash = schedule.hash

\* Whoever is to write holds the lease, and the row is as it left it.
Writing(x) == export[x].pc \notin {"idle", "fail"}
HoldsLease(x) == Taken(x).key = x /\ Taken(x).leased
AsLeft(x) ==
    /\ export[x].pc \in {"preview", "block", "pass", "blocked"} => Taken(x).status = "checking_warnings"
    /\ export[x].pc \in {"store", "artifact_ready"} => Taken(x).gate = "passed" /\ Taken(x).status = "generating"
    /\ export[x].pc = "artifact_ready" => Taken(x).artifact
WritersHold == \A x \in Exporters : Writing(x) => HoldsLease(x) /\ AsLeft(x)

(* What Docs/SCHEDULED_PARTNER_REPORT_EMAIL_DESIGN.md says of partnerships in *)
(* draft or archived: schedules target them only while paused.              *)
ActiveTargetsActive == schedule.status = "active" => partnership = "active"
=============================================================================
