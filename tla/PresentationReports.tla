------------------------- MODULE PresentationReports -------------------------
(* The report of a finished Presentation: the row that a trigger adds when    *)
(* the session finishes, and the workers that claim it under a lease token,   *)
(* rebuild the report and complete, retry or fail it                          *)
(* (presentation-session-postgres.ts, presentation-report-worker.ts).         *)
EXTENDS Naturals

CONSTANTS
    Reporters,          \* runs of PresentationReportWorker.runOnce
    ReportAttempts,     \* attempts before a failure is final (5)
    MaxStalls           \* bound on workers lost and leases outlived

ASSUME ReportsAssumption == ReportAttempts \in Nat \ {0} /\ MaxStalls \in Nat

VARIABLES
    sessionIs,  \* "live", "finished" or "deleted"
    report,     \* the row of presentation_session_reports; "none" when there is none
    reporter,   \* per worker: what it does, the attempt and the token of its claim
    tokens,     \* lease tokens drawn so far
    stalls

reportsVars == << sessionIs, report, reporter, tokens, stalls >>

NoRow == [status |-> "none", attempts |-> 0, available |-> FALSE, token |-> 0, by |-> 0]

AtRest == [pc |-> "idle", attempt |-> 0, token |-> 0]

ReportsInit ==
    /\ sessionIs = "live" /\ report = NoRow /\ tokens = 0 /\ stalls = 0
    /\ reporter = [w \in Reporters |-> AtRest]

\* A finishing command; enqueue_presentation_session_report adds the row.
FinishSession ==
    /\ sessionIs = "live" /\ sessionIs' = "finished"
    /\ report' = [NoRow EXCEPT !.status = "pending", !.available = TRUE]
    /\ UNCHANGED << reporter, tokens, stalls >>

\* The session is deleted or its retention ends; the row goes with it.
DeleteSession ==
    /\ sessionIs # "deleted" /\ sessionIs' = "deleted" /\ report' = NoRow
    /\ UNCHANGED << reporter, tokens, stalls >>

\* claimReportJob.
ClaimReport(w) ==
    /\ reporter[w].pc = "idle" /\ report.status = "pending" /\ report.available
    /\ tokens' = tokens + 1
    /\ report' = [report EXCEPT !.attempts = @ + 1, !.available = FALSE,
                                !.token = tokens + 1]
    /\ reporter' = [reporter EXCEPT ![w] = [pc |-> "claimed", token |-> tokens + 1,
                                            attempt |-> report.attempts + 1]]
    /\ UNCHANGED << sessionIs, stalls >>

\* Mistaken: the worker's UPDATE asks for the row only.
LeasesRow(w) == report.status # "none"

\* The condition of the worker's UPDATE.
Leases(w) == report.status = "pending" /\ report.token = reporter[w].token

\* completeReportJob.
CompleteReport(w) ==
    /\ reporter[w].pc = "claimed" /\ Leases(w)
    /\ report' = [report EXCEPT !.status = "ready", !.token = 0, !.by = reporter[w].attempt]
    /\ reporter' = [reporter EXCEPT ![w] = AtRest]
    /\ UNCHANGED << sessionIs, tokens, stalls >>

\* The session is gone, reading or generating fails, or so does the completion,
\* and then retryReportJob. Without the lease it changes nothing.
ReportFails(w) ==
    /\ reporter[w].pc = "claimed"
    /\ report' =
          IF ~Leases(w) THEN report
          ELSE [report EXCEPT
                  !.status = IF reporter[w].attempt >= ReportAttempts THEN "failed" ELSE @,
                  !.token = 0, !.available = FALSE]
    /\ reporter' = [reporter EXCEPT ![w] = AtRest]
    /\ UNCHANGED << sessionIs, tokens, stalls >>

\* The process is lost, or it cannot record its failure.
LoseReporter(w) ==
    /\ reporter[w].pc # "idle" /\ stalls < MaxStalls
    /\ reporter' = [reporter EXCEPT ![w] = AtRest] /\ stalls' = stalls + 1
    /\ UNCHANGED << sessionIs, report, tokens >>

Leased == \E w \in Reporters : reporter[w].pc # "idle" /\ Leases(w)

\* A back-off passes, or the lease of a worker that is lost.
ReportElapses ==
    /\ report.status = "pending" /\ ~report.available /\ ~Leased
    /\ report' = [report EXCEPT !.available = TRUE]
    /\ UNCHANGED << sessionIs, reporter, tokens, stalls >>

\* A worker outlives its lease.
ReporterStalls ==
    /\ Leased /\ ~report.available /\ stalls < MaxStalls
    /\ report' = [report EXCEPT !.available = TRUE] /\ stalls' = stalls + 1
    /\ UNCHANGED << sessionIs, reporter, tokens >>

ReporterWorks(w) == ClaimReport(w) \/ CompleteReport(w) \/ ReportFails(w)

ReportsNext ==
    \/ FinishSession \/ DeleteSession \/ ReportElapses \/ ReporterStalls
    \/ \E w \in Reporters : ReporterWorks(w) \/ LoseReporter(w)

\* The timer of every process runs its worker again and again, and time passes.
ReportsFairness ==
    /\ WF_reportsVars(ReportElapses)
    /\ \A w \in Reporters : WF_reportsVars(ReporterWorks(w))

ReportsSpec == ReportsInit /\ [][ReportsNext]_reportsVars /\ ReportsFairness

-------------------------------------------------------------------------------

ReportsTypeOK ==
    /\ sessionIs \in {"live", "finished", "deleted"}
    /\ report \in [status : {"none", "pending", "ready", "failed"}, attempts : Nat,
                   available : BOOLEAN, token : Nat, by : Nat]
    /\ reporter \in [Reporters -> [pc : {"idle", "claimed"}, attempt : Nat, token : Nat]]
    /\ tokens \in Nat /\ stalls \in 0..MaxStalls

\* A row exists exactly for a finished session: no late worker brings one back.
RowOfFinishedSession == report.status = "none" <=> sessionIs # "finished"

\* No two workers hold the row's lease.
OneLease ==
    \A w, v \in Reporters :
        reporter[w].pc # "idle" /\ Leases(w) /\ reporter[v].pc # "idle" /\ Leases(v)
            => w = v

\* A report is by the last worker that claimed it, or the row would not be open, and
\* attempts are only given up when all of them were made.
LastClaimSettles ==
    /\ report.status = "ready" => report.by = report.attempts
    /\ report.status = "failed" => report.attempts >= ReportAttempts

ReportsInv == ReportsTypeOK /\ RowOfFinishedSession /\ OneLease /\ LastClaimSettles

\* The report is settled once and stays as it is until the session is deleted.
ReportIs == INSTANCE LeasedJob WITH
    status <- IF sessionIs = "deleted" THEN "gone"
              ELSE IF report.status = "pending" THEN "open" ELSE report.status,
    request <- IF sessionIs = "live" THEN 0 ELSE 1

PresentationReportIsLeased == ReportIs!Spec

\* The report of a finished session gets ready or fails for good, when only so many
\* workers are lost and leases outlived.
PresentationReportSettles == report.status = "pending" ~> report.status # "pending"
===============================================================================
