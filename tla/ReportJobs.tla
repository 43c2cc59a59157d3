------------------------------ MODULE ReportJobs ------------------------------
(***************************************************************************)
(* The report of a finished Round: the row that saveSession inserts with   *)
(* the finishing command, and the workers that claim it, rebuild the       *)
(* report from durable evidence and complete, retry or fail it             *)
(* (packages/db/src/postgres.ts, apps/server/src/report-worker.ts).        *)
(*                                                                         *)
(* A worker's lease is only the time before which the row is not claimed   *)
(* again: nothing ties a completion or a retry to it, so a worker that     *)
(* outlives its lease races its successor.  Durations are abstracted: a    *)
(* lease or a back-off ends at any moment (Elapse).                        *)
(***************************************************************************)
EXTENDS Integers

CONSTANTS Workers,     \* runs of ReportWorker.runOnce
          NoReport,    \* there is no row for the session
          MaxAttempts, \* attempts before a failure is final (5)
          MaxRequests, \* bound on the reports requested for the session
          MaxCrashes   \* bound on lost workers

ASSUME JobsAssumption ==
  /\ MaxAttempts \in Nat \ {0} /\ MaxRequests \in Nat /\ MaxCrashes \in Nat
  /\ NoReport \notin [id : Nat, status : {"pending", "ready", "failed"}, attempts : Nat,
                      available : BOOLEAN, since : Nat, made : Nat]

VARIABLES
  session,  \* "live", "finished" or "deleted"
  evidence, \* version of the durable evidence and of the session's state
  requests, \* reports requested so far; the last one's number is its id
  row,      \* the session's row of reports, or NoReport
  worker,   \* per worker: what it is doing, for which claim
  crashes

vars == <<session, evidence, requests, row, worker, crashes>>

IdleWorker == [pc |-> "idle", id |-> 0, attempt |-> 0, evidence |-> 0]

RequestedSameId ==
  [id |-> IF row = NoReport THEN requests + 1 ELSE row.id, status |-> "pending",
   attempts |-> 0, available |-> TRUE, since |-> evidence + 1, made |-> 0]

\* A new request: the row is inserted, or reset with a new id.
Requested == [id |-> requests + 1, status |-> "pending", attempts |-> 0,
              available |-> TRUE, since |-> evidence + 1, made |-> 0]

-----------------------------------------------------------------------------
(* The host *)

\* hostCommand with a finishing transition, and with any command a finished
\* session still takes (lock_lobby, unlock_lobby): state, evidence and the
\* pending report commit together.
Request ==
  /\ session \in {"live", "finished"} /\ requests < MaxRequests
  /\ session' = "finished"
  /\ row' = Requested
  /\ requests' = requests + 1
  /\ evidence' = evidence + 1
  /\ UNCHANGED <<worker, crashes>>

\* deleteSession: the row goes with the session's tree.
Delete ==
  /\ session # "deleted"
  /\ session' = "deleted"
  /\ row' = NoReport
  /\ UNCHANGED <<evidence, requests, worker, crashes>>

-----------------------------------------------------------------------------
(* A worker *)

Pending == row # NoReport /\ row.status = "pending"

\* claimReportJob.
Claim(w) ==
  /\ worker[w].pc = "idle"
  /\ Pending /\ row.available
  /\ row' = [row EXCEPT !.attempts = @ + 1, !.available = FALSE]
  /\ worker' = [worker EXCEPT ![w] = [pc |-> "claimed", id |-> row.id,
                                      attempt |-> row.attempts + 1, evidence |-> 0]]
  /\ UNCHANGED <<session, evidence, requests, crashes>>

\* getSessionById and getSessionEvidence, then generateReport.
Generate(w) ==
  /\ worker[w].pc = "claimed" /\ session # "deleted"
  /\ worker' = [worker EXCEPT ![w].pc = "generated", ![w].evidence = evidence]
  /\ UNCHANGED <<session, evidence, requests, row, crashes>>

\* The session is gone, or reading or generating fails.
GenerateFails(w) ==
  /\ worker[w].pc = "claimed"
  /\ worker' = [worker EXCEPT ![w].pc = "failed"]
  /\ UNCHANGED <<session, evidence, requests, row, crashes>>

\* A faulty variant: the status is not asked for.
FindsAnyStatus(w) == row # NoReport /\ row.id = worker[w].id

\* The row a worker's UPDATE finds: its own request's, while it is pending.
Finds(w) == Pending /\ row.id = worker[w].id

\* completeReportJob.
Complete(w) ==
  /\ worker[w].pc = "generated" /\ Finds(w)
  /\ row' = [row EXCEPT !.status = "ready", !.made = worker[w].evidence]
  /\ worker' = [worker EXCEPT ![w] = IdleWorker]
  /\ UNCHANGED <<session, evidence, requests, crashes>>

\* The row is not pending any more, or the UPDATE fails.
CompleteFails(w) ==
  /\ worker[w].pc = "generated"
  /\ worker' = [worker EXCEPT ![w].pc = "failed"]
  /\ UNCHANGED <<session, evidence, requests, row, crashes>>

LastAttempt(w) == worker[w].attempt >= MaxAttempts

\* retryReportJob: the last attempt fails the report for good.
Retry(w) ==
  /\ worker[w].pc = "failed"
  /\ row' = IF ~Finds(w) THEN row
            ELSE [row EXCEPT !.status = IF LastAttempt(w) THEN "failed" ELSE "pending",
                             !.available = FALSE]
  /\ worker' = [worker EXCEPT ![w] = IdleWorker]
  /\ UNCHANGED <<session, evidence, requests, crashes>>

\* The process, or its connection before the retry is recorded, is lost.
Crash(w) ==
  /\ worker[w].pc # "idle" /\ crashes < MaxCrashes
  /\ worker' = [worker EXCEPT ![w] = IdleWorker]
  /\ crashes' = crashes + 1
  /\ UNCHANGED <<session, evidence, requests, row>>

\* available_at passes: the end of a lease or of a back-off.
Elapse ==
  /\ Pending /\ ~row.available
  /\ row' = [row EXCEPT !.available = TRUE]
  /\ UNCHANGED <<session, evidence, requests, worker, crashes>>

Init ==
  /\ session = "live" /\ evidence = 0 /\ requests = 0 /\ row = NoReport
  /\ worker = [w \in Workers |-> IdleWorker]
  /\ crashes = 0

Work(w) == Claim(w) \/ Generate(w) \/ GenerateFails(w) \/ Complete(w)
           \/ CompleteFails(w) \/ Retry(w)

Next ==
  \/ Request \/ Delete \/ Elapse
  \/ \E w \in Workers : Work(w) \/ Crash(w)

(***************************************************************************)
(* The interval of the server's process runs the worker again and again,   *)
(* and time passes.  A failure may always be the outcome of a step.        *)
(***************************************************************************)
Fairness == WF_vars(Elapse) /\ \A w \in Workers : WF_vars(Work(w))

Spec == Init /\ [][Next]_vars
FairSpec == Spec /\ Fairness

-----------------------------------------------------------------------------
(* Properties *)

Report == [id : 1..MaxRequests, status : {"pending", "ready", "failed"},
           attempts : Nat, available : BOOLEAN, since : Nat, made : Nat]

TypeOK ==
  /\ session \in {"live", "finished", "deleted"}
  /\ evidence \in Nat /\ requests \in 0..MaxRequests /\ crashes \in 0..MaxCrashes
  /\ row = NoReport \/ row \in Report
  /\ worker \in [Workers -> [pc : {"idle", "claimed", "generated", "failed"},
                             id : 0..MaxRequests, attempt : Nat, evidence : Nat]]

\* A ready report is built from evidence at least as new as the request it
\* answers, also when a slow worker of an earlier request or an earlier lease
\* completes (completeReportJob's id and status).
ReadyIsCurrent ==
  row # NoReport /\ row.status = "ready" => row.made >= row.since

\* Only a new request or a deletion changes a report that is ready: a worker
\* that lost its lease neither replaces it nor fails it (retryReportJob).
ReadyIsKept ==
  [][row # NoReport /\ row.status = "ready" /\ row' # row
       => row' = NoReport \/ row'.id > row.id]_vars

\* The report of a deleted session never comes back, however late a worker
\* completes or retries (deleteSession, completeReportJob).
DeletedStaysDeleted == session = "deleted" => row = NoReport

(* What a claim, an old one too, says of the row it was made on. *)

\* The row belongs to the latest request, and is no newer than the evidence.
RowIsLatest ==
  row # NoReport => row.id = requests /\ row.since <= evidence

\* A worker's claim is of a request already made.
ClaimsArePast == \A w \in Workers : worker[w].id <= requests

\* A worker that has rebuilt the report of the current request has read evidence the
\* request covers: an earlier request would have an earlier id.
GeneratedIsCurrent ==
  \A w \in Workers :
    worker[w].pc = "generated" /\ row # NoReport /\ worker[w].id = row.id
      => worker[w].evidence >= row.since

\* The inductive invariant: reports are current, and the deleted stay deleted.
JobsInv == /\ TypeOK /\ DeletedStaysDeleted /\ ReadyIsCurrent
           /\ RowIsLatest /\ ClaimsArePast /\ GeneratedIsCurrent

\* A ready or failed report changes only with a new request or the deletion: a worker
\* that lost its lease neither replaces, revives nor fails it (completeReportJob,
\* retryReportJob).
Job == INSTANCE LeasedJob WITH
  status <- IF session = "deleted" THEN "gone" ELSE IF row = NoReport THEN "none"
            ELSE IF row.status = "pending" THEN "open" ELSE row.status,
  request <- requests

ReportIsLeased == Job!Spec

\* A requested report ends ready or failed, or is deleted: lost workers and
\* expired leases make it claimable again (docs/architecture.md, "Failure
\* behavior": report worker loss).
ReportSettles ==
  Pending ~> (row = NoReport \/ row.status \in {"ready", "failed"})
=============================================================================
