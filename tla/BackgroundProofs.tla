---------------------------- MODULE BackgroundProofs ----------------------------
(* What is proved of the server's background activities: the work done under  *)
(* leases (the reports of Rounds, the authoring jobs, the reports of           *)
(* Presentations), for any number of workers, attempts, requests and leases    *)
(* outlived; the audience's outbox and the broadcasts of a Presentation's      *)
(* room, for any number of processes, sockets, events and failures; and at the *)
(* end all of them together.                                                   *)
EXTENDS MCBackground, FiniteSetTheorems, SequenceTheorems, TLAPS

-------------------------------------------------------------------------------
(* The reports of Rounds *)

\* A row is never the absence of one.
LEMMA ReportIsARow ==
  ASSUME NEW r \in Report
  PROVE  r # NoReport
<1>1. Report \subseteq [id : Nat, status : {"pending", "ready", "failed"}, attempts : Nat,
                        available : BOOLEAN, since : Nat, made : Nat]
  BY JobsAssumption DEF Report
<1> QED
  BY <1>1, JobsAssumption

LEMMA InitInv == Init => JobsInv
BY JobsAssumption DEF Init, JobsInv, TypeOK, DeletedStaysDeleted, ReadyIsCurrent, RowIsLatest,
   ClaimsArePast, GeneratedIsCurrent, IdleWorker

LEMMA RequestInv ==
  ASSUME JobsInv, Request
  PROVE  JobsInv'
<1> USE DEF JobsInv
<1>1. row' \in Report /\ row' # NoReport
  <2>1. row' \in Report
    BY JobsAssumption DEF Request, Requested, TypeOK, Report
  <2> QED
    BY <2>1, ReportIsARow
<1>2. TypeOK'
  BY <1>1, JobsAssumption DEF Request, TypeOK
<1>3. row'.id = requests' /\ row'.since = evidence' /\ row'.status = "pending"
  BY DEF Request, Requested
<1>4. \A w \in Workers : worker'[w].id < requests' /\ worker'[w].id \in Nat /\ requests' \in Nat
  BY JobsAssumption DEF Request, TypeOK, ClaimsArePast
<1>5. GeneratedIsCurrent'
  BY <1>3, <1>4 DEF GeneratedIsCurrent
<1>6. DeletedStaysDeleted' /\ ReadyIsCurrent' /\ RowIsLatest'
  BY <1>2, <1>3 DEF Request, DeletedStaysDeleted, ReadyIsCurrent, RowIsLatest, TypeOK
<1> QED
  BY <1>2, <1>4, <1>5, <1>6 DEF ClaimsArePast

LEMMA DeleteInv ==
  ASSUME JobsInv, Delete
  PROVE  JobsInv'
BY DEF Delete, JobsInv, TypeOK, DeletedStaysDeleted, ReadyIsCurrent, RowIsLatest,
       ClaimsArePast, GeneratedIsCurrent

-------------------------------------------------------------------------------
(* The row's own steps *)

LEMMA ElapseInv ==
  ASSUME JobsInv, Elapse
  PROVE  JobsInv'
<1> USE DEF JobsInv
<1>1. row \in Report
  BY DEF Elapse, Pending, TypeOK
<1>2. row' \in Report /\ row' # NoReport
  BY <1>1, ReportIsARow DEF Elapse, Report
<1>3. row'.id = row.id /\ row'.since = row.since /\ row'.status = "pending"
  BY <1>1 DEF Elapse, Pending, Report
<1> QED
  BY <1>1, <1>2, <1>3 DEF Elapse, Pending, TypeOK, DeletedStaysDeleted, ReadyIsCurrent,
     RowIsLatest, ClaimsArePast, GeneratedIsCurrent

LEMMA ClaimInv ==
  ASSUME JobsInv, NEW w \in Workers, Claim(w)
  PROVE  JobsInv'
<1> USE DEF JobsInv
<1>0. row \in Report /\ row.attempts + 1 \in Nat
  BY DEF Claim, Pending, TypeOK, Report
<1>1. row \in Report /\ row' \in Report
  BY <1>0 DEF Claim, Report
<1>2. row' # NoReport /\ row'.id = row.id /\ row'.since = row.since /\ row'.status = "pending"
  BY <1>1, ReportIsARow DEF Claim, Pending, Report
<1>3. \A v \in Workers : v # w => worker'[v] = worker[v]
  BY DEF Claim, TypeOK
<1>4. worker'[w].id = row.id /\ worker'[w].pc = "claimed"
  BY DEF Claim, TypeOK
<1>5. TypeOK'
  BY <1>1 DEF Claim, TypeOK, Report
<1>6. GeneratedIsCurrent'
  BY <1>2, <1>3, <1>4, <1>1 DEF GeneratedIsCurrent, Claim, Pending
<1>7. ClaimsArePast'
  BY <1>1, <1>3, <1>4 DEF ClaimsArePast, RowIsLatest, Claim, Pending, TypeOK, Report
<1> QED
  BY <1>1, <1>2, <1>5, <1>6, <1>7 DEF Claim, Pending, DeletedStaysDeleted, ReadyIsCurrent,
     RowIsLatest

\* A worker's step that leaves the row alone, and its claim or none.
LEMMA OwnStepInv ==
  ASSUME JobsInv, NEW w \in Workers,
         UNCHANGED <<session, evidence, requests, row, crashes>>,
         NEW next, worker' = [worker EXCEPT ![w] = next],
         next \in [pc : {"idle", "claimed", "generated", "failed"}, id : {0, worker[w].id},
                   attempt : Nat, evidence : Nat],
         next.pc = "generated" => next.evidence = evidence
  PROVE  JobsInv'
<1> USE DEF JobsInv
<1>1. \A v \in Workers : v # w => worker'[v] = worker[v]
  BY DEF TypeOK
<1>2. worker'[w] = next
  BY DEF TypeOK
<1>3. worker[w].id \in 0..MaxRequests /\ 0 \in 0..MaxRequests
  BY JobsAssumption DEF TypeOK
<1>4. TypeOK'
  BY <1>3 DEF TypeOK
<1>5. ClaimsArePast'
  BY <1>1, <1>2, <1>3 DEF ClaimsArePast, TypeOK
<1>6. GeneratedIsCurrent'
  BY <1>1, <1>2 DEF GeneratedIsCurrent, RowIsLatest, TypeOK, Report
<1> QED
  BY <1>4, <1>5, <1>6 DEF DeletedStaysDeleted, ReadyIsCurrent, RowIsLatest

LEMMA GenerateInv ==
  ASSUME JobsInv, NEW w \in Workers, Generate(w) \/ GenerateFails(w) \/ CompleteFails(w)
  PROVE  JobsInv'
<1> DEFINE next == IF Generate(w)
                   THEN [worker[w] EXCEPT !.pc = "generated", !.evidence = evidence]
                   ELSE [worker[w] EXCEPT !.pc = "failed"]
<1>1. worker' = [worker EXCEPT ![w] = next]
  BY DEF Generate, GenerateFails, CompleteFails, JobsInv, TypeOK
<1>2. next \in [pc : {"idle", "claimed", "generated", "failed"}, id : {0, worker[w].id},
                attempt : Nat, evidence : Nat]
  BY DEF JobsInv, TypeOK
<1>3. next.pc = "generated" => next.evidence = evidence
  BY DEF JobsInv, TypeOK
<1>4. UNCHANGED <<session, evidence, requests, row, crashes>>
  BY DEF Generate, GenerateFails, CompleteFails
<1> HIDE DEF next
<1> QED
  BY <1>1, <1>2, <1>3, <1>4, OwnStepInv

\* A worker that goes idle having changed the pending row of its own request.
LEMMA RowStepInv ==
  ASSUME JobsInv, NEW w \in Workers, Finds(w),
         worker' = [worker EXCEPT ![w] = IdleWorker],
         UNCHANGED <<session, evidence, requests, crashes>>,
         row' \in Report, row'.id = row.id, row'.since = row.since,
         row'.status = "ready" => row'.made >= row.since
  PROVE  JobsInv'
<1> USE DEF JobsInv
<1>1. row' # NoReport /\ row # NoReport /\ row \in Report
  BY ReportIsARow DEF Finds, Pending, TypeOK
<1>2. \A v \in Workers : v # w => worker'[v] = worker[v]
  BY DEF TypeOK
<1>3. worker'[w] = IdleWorker
  BY DEF TypeOK
<1>4. TypeOK'
  BY JobsAssumption DEF TypeOK, IdleWorker
<1>5. ClaimsArePast'
  BY <1>2, <1>3 DEF ClaimsArePast, TypeOK, IdleWorker
<1>6. GeneratedIsCurrent'
  BY <1>1, <1>2, <1>3 DEF GeneratedIsCurrent, IdleWorker
<1> QED
  BY <1>1, <1>4, <1>5, <1>6 DEF DeletedStaysDeleted, ReadyIsCurrent, RowIsLatest

LEMMA CompleteInv ==
  ASSUME JobsInv, NEW w \in Workers, Complete(w)
  PROVE  JobsInv'
<1>1. row \in Report /\ Finds(w)
  BY DEF Complete, Finds, Pending, JobsInv, TypeOK
<1>2. worker[w].evidence >= row.since /\ worker[w].evidence \in Nat
  BY <1>1 DEF Complete, Finds, Pending, JobsInv, GeneratedIsCurrent, TypeOK
<1>3. row' \in Report /\ row'.id = row.id /\ row'.since = row.since
      /\ row'.made = worker[w].evidence
  BY <1>1, <1>2 DEF Complete, Report
<1> QED
  BY <1>1, <1>2, <1>3, RowStepInv DEF Complete

LEMMA RetryInv ==
  ASSUME JobsInv, NEW w \in Workers, Retry(w)
  PROVE  JobsInv'
<1>1. CASE Finds(w)
  <2>1. row \in Report
    BY <1>1 DEF Finds, Pending, JobsInv, TypeOK
  <2>2. row' \in Report /\ row'.id = row.id /\ row'.since = row.since /\ row'.status # "ready"
    BY <1>1, <2>1 DEF Retry, Report
  <2> QED
    BY <1>1, <2>2, RowStepInv DEF Retry
<1>2. CASE ~Finds(w)
  <2>1. IdleWorker \in [pc : {"idle", "claimed", "generated", "failed"},
                        id : {0, worker[w].id}, attempt : Nat, evidence : Nat]
        /\ IdleWorker.pc # "generated"
    BY DEF IdleWorker
  <2> QED
    BY <1>2, <2>1, OwnStepInv DEF Retry
<1> QED
  BY <1>1, <1>2

LEMMA CrashInv ==
  ASSUME JobsInv, NEW w \in Workers, Crash(w)
  PROVE  JobsInv'
<1>1. crashes' \in 0..MaxCrashes
  BY JobsAssumption DEF Crash, JobsInv, TypeOK
<1>2. worker' \in [Workers -> [pc : {"idle", "claimed", "generated", "failed"},
                               id : 0..MaxRequests, attempt : Nat, evidence : Nat]]
  BY JobsAssumption DEF Crash, JobsInv, TypeOK, IdleWorker
<1>3. \A v \in Workers : worker'[v] = IF v = w THEN IdleWorker ELSE worker[v]
  BY DEF Crash, JobsInv, TypeOK
<1> QED
  BY <1>1, <1>2, <1>3 DEF Crash, JobsInv, TypeOK, DeletedStaysDeleted, ReadyIsCurrent,
     RowIsLatest, ClaimsArePast, GeneratedIsCurrent, IdleWorker

-------------------------------------------------------------------------------
(* Theorems *)

LEMMA NextInv ==
  ASSUME JobsInv, [Next]_vars
  PROVE  JobsInv'
<1>1. CASE UNCHANGED vars
  BY <1>1 DEF vars, JobsInv, TypeOK, DeletedStaysDeleted, ReadyIsCurrent, RowIsLatest,
     ClaimsArePast, GeneratedIsCurrent
<1>2. CASE Request \/ Delete \/ Elapse
  BY <1>2, RequestInv, DeleteInv, ElapseInv
<1>3. CASE \E w \in Workers : Work(w) \/ Crash(w)
  BY <1>3, ClaimInv, GenerateInv, CompleteInv, RetryInv, CrashInv DEF Work
<1> QED
  BY <1>1, <1>2, <1>3 DEF Next

\* The inductive invariant holds for any number of workers, attempts and requests.
THEOREM JobsInvariant == Spec => []JobsInv
<1>1. Init => JobsInv
  BY InitInv
<1>2. JobsInv /\ [Next]_vars => JobsInv'
  BY NextInv
<1> QED
  BY <1>1, <1>2, PTL DEF Spec

\* The row and the claims keep their types under every step of the host and the workers.
THEOREM TypeCorrect == Spec => []TypeOK
<1>1. JobsInv => TypeOK
  BY DEF JobsInv
<1> QED
  BY <1>1, JobsInvariant, PTL

\* A ready report covers the evidence of the request it answers, whichever of the workers
\* that claimed the session's job completes it (completeReportJob).
THEOREM ReadyReportsAreCurrent == Spec => []ReadyIsCurrent
<1>1. JobsInv => ReadyIsCurrent
  BY DEF JobsInv
<1> QED
  BY <1>1, JobsInvariant, PTL

\* No worker brings back the report of a deleted session (deleteSession).
THEOREM NoReportAfterDeletion == Spec => []DeletedStaysDeleted
<1>1. JobsInv => DeletedStaysDeleted
  BY DEF JobsInv
<1> QED
  BY <1>1, JobsInvariant, PTL

\* A ready report is final until a new request or a deletion: completions and retries of
\* workers that lost their lease find no pending row (retryReportJob).
THEOREM ReadyReportsAreKept == Spec => ReadyIsKept
<1> DEFINE Kept == row # NoReport /\ row.status = "ready" /\ row' # row
                     => row' = NoReport \/ row'.id > row.id
<1>1. JobsInv /\ [Next]_vars => [Kept]_vars
  <2> SUFFICES ASSUME JobsInv, Next, row # NoReport, row.status = "ready", row' # row
               PROVE  row' = NoReport \/ row'.id > row.id
    OBVIOUS
  <2>1. CASE Request
    BY <2>1 DEF Request, Requested, JobsInv, RowIsLatest, TypeOK
  <2>2. CASE Delete
    BY <2>2 DEF Delete
  <2>3. ~Pending
    BY DEF Pending
  <2>4. ASSUME NEW w \in Workers, Work(w) \/ Crash(w)
        PROVE  FALSE
    BY <2>3, <2>4 DEF Work, Crash, Claim, Generate, GenerateFails, Complete, CompleteFails,
       Retry, Finds
  <2> QED
    BY <2>1, <2>2, <2>3, <2>4 DEF Next, Elapse
<1> QED
  BY <1>1, JobsInvariant, PTL DEF Spec, ReadyIsKept

\* The row goes through the life of leased work: whoever settles it, and however late, it is
\* settled once for each request and stays settled (completeReportJob, retryReportJob).
THEOREM ReportsAreLeased == Spec => ReportIsLeased
<1> DEFINE status == IF session = "deleted" THEN "gone" ELSE IF row = NoReport THEN "none"
                     ELSE IF row.status = "pending" THEN "open" ELSE row.status
<1>1. Init => Job!Init
  BY DEF Init, Job!Init
<1>2. JobsInv /\ [Next]_vars => [Job!Next]_(Job!vars)
  <2> SUFFICES ASSUME JobsInv, [Next]_vars
               PROVE  Job!Next \/ UNCHANGED <<status, requests>>
    BY DEF Job!vars
  <2> USE DEF JobsInv
  <2>1. row = NoReport \/ row \in Report
    BY DEF TypeOK
  <2>2. CASE UNCHANGED vars
    BY <2>2 DEF vars
  <2>3. CASE Request
    <3>1. row' \in Report /\ row'.status = "pending" /\ session' = "finished"
      BY <2>3, JobsAssumption DEF Request, Requested, TypeOK, Report
    <3>2. status # "gone"
      BY <2>1, <2>3 DEF Request, Report
    <3>3. status' = "open"
      BY <3>1, ReportIsARow
    <3> QED
      BY <2>3, <3>2, <3>3 DEF Request, Job!Next, Job!Request
  <2>4. CASE Delete
    <3>1. status # "gone" /\ status' = "gone"
      BY <2>1, <2>4 DEF Delete, Report
    <3> QED
      BY <2>4, <3>1 DEF Delete, Job!Next, Job!Remove, TypeOK
  <2>5. ASSUME Pending, row' \in Report, UNCHANGED <<session, requests>>
        PROVE  Job!Next \/ UNCHANGED <<status, requests>>
    <3>1. row' # NoReport /\ row # NoReport
      BY <2>5, ReportIsARow DEF Pending
    <3>2. status = "open"
      BY <2>5, <3>1 DEF Pending, DeletedStaysDeleted
    <3>3. status' \in {"open", "ready", "failed"}
      BY <2>5, <3>1, <3>2 DEF Report
    <3> QED
      BY <2>5, <3>2, <3>3 DEF Job!Next, Job!Settle
  <2>6. CASE Elapse
    <3>1. row' \in Report
      BY <2>1, <2>6 DEF Elapse, Pending, Report
    <3> QED
      BY <2>5, <2>6, <3>1 DEF Elapse
  <2>7. ASSUME NEW w \in Workers, Claim(w)
        PROVE  Job!Next \/ UNCHANGED <<status, requests>>
    <3>1. row \in Report /\ row.attempts + 1 \in Nat
      BY <2>1, <2>7 DEF Claim, Pending, Report
    <3>2. row' \in Report
      BY <2>7, <3>1 DEF Claim, Report
    <3> QED
      BY <2>5, <2>7, <3>2 DEF Claim
  <2>8. ASSUME NEW w \in Workers, Complete(w)
        PROVE  Job!Next \/ UNCHANGED <<status, requests>>
    <3>1. row \in Report /\ Pending /\ worker[w].evidence \in Nat
      BY <2>1, <2>8 DEF Complete, Finds, Pending, TypeOK
    <3>2. row' \in Report
      BY <2>8, <3>1 DEF Complete, Report
    <3> QED
      BY <2>5, <2>8, <3>1, <3>2 DEF Complete
  <2>9. ASSUME NEW w \in Workers, Retry(w), Finds(w)
        PROVE  Job!Next \/ UNCHANGED <<status, requests>>
    <3>1. row \in Report /\ Pending
      BY <2>1, <2>9 DEF Finds, Pending
    <3>2. row' \in Report
      BY <2>9, <3>1 DEF Retry, Report
    <3> QED
      BY <2>5, <2>9, <3>1, <3>2 DEF Retry
  <2>10. ASSUME NEW w \in Workers,
                Generate(w) \/ GenerateFails(w) \/ CompleteFails(w) \/ Crash(w)
                  \/ (Retry(w) /\ ~Finds(w))
         PROVE  UNCHANGED <<status, requests>>
    BY <2>10 DEF Generate, GenerateFails, CompleteFails, Crash, Retry
  <2> QED
    BY <2>2, <2>3, <2>4, <2>6, <2>7, <2>8, <2>9, <2>10 DEF Next, Work
<1> QED
  BY <1>1, <1>2, JobsInvariant, PTL DEF Spec, ReportIsLeased, Job!Spec

-------------------------------------------------------------------------------
(* Authoring jobs: the attempt fences the workers. *)

\* Nobody works on a job that was not created; a claim is of an attempt that was made,
\* and no two workers made the same one.
AttemptsAreClaims ==
    /\ job.status = "none" => job = NoJob
    /\ \A a \in Authors : author[a].pc # "idle" =>
           /\ author[a].attempt > 0
           /\ job.status # "gone" => author[a].attempt <= job.attempts
    /\ \A a, b \in Authors :
           author[a].pc # "idle" /\ author[b].pc # "idle"
               /\ author[a].attempt = author[b].attempt => a = b

\* Only a ready job is applied, and a quiz of it is known until the job is purged.
QuizOfReadyJob == job.status \notin {"ready", "gone"} => quizzes = {} /\ job.applied = 0

AuthoringIInv == AuthoringInv /\ AttemptsAreClaims /\ QuizOfReadyJob

JobRow == [status : {"none", "pending", "processing", "ready", "failed", "gone"},
           attempts : Nat, available : BOOLEAN, source : BOOLEAN,
           output : Nat, applied : 0..MaxQuizzes]

AuthoringParts ==
    AuthoringTypeOK /\ SourceWhileOpen /\ DraftOfLatestAttempt /\ OneQuiz
        /\ AttemptsAreClaims /\ QuizOfReadyJob

\* That one worker holds the attempt follows from the claims being different.
LEMMA PartsSuffice ==
  (AuthoringParts => AuthoringIInv) /\ (AuthoringParts' => AuthoringIInv')
<1>1. AuthoringParts => AuthoringIInv
  BY DEF AuthoringParts, AuthoringIInv, AuthoringInv, OneHolder, Holds, AttemptsAreClaims
<1>2. AuthoringParts' => AuthoringIInv'
  BY DEF AuthoringParts, AuthoringIInv, AuthoringInv, OneHolder, Holds, AttemptsAreClaims
<1> QED
  BY <1>1, <1>2

LEMMA EmptyQuizzes == Cardinality({}) = 0 /\ \A q : Cardinality({q}) = 1
BY FS_EmptySet, FS_Singleton

LEMMA AuthoringInitInv == AuthoringInit => AuthoringIInv
<1> SUFFICES ASSUME AuthoringInit PROVE AuthoringParts
  BY PartsSuffice
<1>1. AuthoringTypeOK
  BY AuthoringAssumption DEF AuthoringInit, AuthoringTypeOK, NoJob, Resting
<1>2. OneQuiz
  BY EmptyQuizzes DEF AuthoringInit, OneQuiz, NoJob
<1> QED
  BY <1>1, <1>2 DEF AuthoringInit, AuthoringParts, SourceWhileOpen, JobOpen, NoJob, Resting,
     DraftOfLatestAttempt, AttemptsAreClaims, QuizOfReadyJob

\* A step of one worker that leaves the quizzes alone, and the worker with its claim or none.
LEMMA AuthorStepInv ==
  ASSUME AuthoringIInv, NEW a \in Authors,
         NEW next, author' = [author EXCEPT ![a] = next],
         next = Resting \/ (author[a].pc # "idle" /\ next = [author[a] EXCEPT !.pc = "generate"]),
         UNCHANGED << quizzes, made >>, lost' \in 0..MaxLost,
         job' \in JobRow, job'.attempts = job.attempts, job'.applied = job.applied,
         job'.source <=> job'.status \in {"pending", "processing"},
         job'.status = "none" <=> job.status = "none",
         job.status \in {"none", "ready", "gone"} => job' = job,
         job'.status = "gone" <=> job.status = "gone",
         job'.status = "ready" => job'.output = job'.attempts
  PROVE  AuthoringIInv'
<1> USE DEF AuthoringIInv, AuthoringInv
<1>1. \A b \in Authors : b # a => author'[b] = author[b]
  BY DEF AuthoringTypeOK
<1>2. author'[a] = next
  BY DEF AuthoringTypeOK
<1>3. AuthoringTypeOK'
  BY DEF AuthoringTypeOK, JobRow, Resting
<1>4. AttemptsAreClaims'
  BY <1>1, <1>2 DEF AttemptsAreClaims, AuthoringTypeOK, Resting
<1>5. OneQuiz' /\ QuizOfReadyJob'
  BY EmptyQuizzes DEF OneQuiz, QuizOfReadyJob
<1> QED
  BY <1>3, <1>4, <1>5, PartsSuffice DEF AuthoringParts, SourceWhileOpen, JobOpen,
     DraftOfLatestAttempt

LEMMA AuthorWorksInv ==
  ASSUME AuthoringIInv, NEW a \in Authors,
         Extracted(a) \/ ExtractionFails(a) \/ CompleteJob(a) \/ GenerationFails(a)
           \/ LoseAuthor(a)
  PROVE  AuthoringIInv'
<1> USE DEF AuthoringIInv, AuthoringInv
<1>1. job \in JobRow /\ lost \in 0..MaxLost /\ author[a].attempt \in Nat
  BY DEF AuthoringTypeOK, JobRow
<1>2. CASE Extracted(a)
  <2>1. author' = [author EXCEPT ![a] = [author[a] EXCEPT !.pc = "generate"]]
    BY <1>2 DEF Extracted, AuthoringTypeOK
  <2> QED
    BY <1>1, <1>2, <2>1, AuthorStepInv
       DEF Extracted, SourceWhileOpen, JobOpen, DraftOfLatestAttempt
<1>3. CASE LoseAuthor(a)
  <2>1. lost' \in 0..MaxLost
    BY <1>1, <1>3, AuthoringAssumption DEF LoseAuthor
  <2> QED
    BY <1>1, <1>3, <2>1, AuthorStepInv
       DEF LoseAuthor, SourceWhileOpen, JobOpen, DraftOfLatestAttempt
<1>4. CASE (ExtractionFails(a) \/ CompleteJob(a) \/ GenerationFails(a)) /\ ~Holds(a)
  BY <1>1, <1>4, AuthorStepInv DEF ExtractionFails, CompleteJob, GenerationFails,
     SourceWhileOpen, JobOpen, DraftOfLatestAttempt
<1>5. CASE (ExtractionFails(a) \/ CompleteJob(a) \/ GenerationFails(a)) /\ Holds(a)
  <2>1. job.status = "processing" /\ job.attempts = author[a].attempt
    BY <1>5 DEF Holds
  <2>2. author' = [author EXCEPT ![a] = Resting] /\ UNCHANGED << quizzes, made, lost >>
    BY <1>5 DEF ExtractionFails, CompleteJob, GenerationFails
  <2>3. job.source /\ job' \in {Failed, Again, [job EXCEPT !.status = "ready",
                                !.source = FALSE, !.output = author[a].attempt]}
    BY <1>5, <2>1 DEF ExtractionFails, CompleteJob, GenerationFails, SourceWhileOpen, JobOpen
  <2>4. job' \in JobRow /\ job'.attempts = job.attempts /\ job'.applied = job.applied
        /\ job'.status \in {"pending", "failed", "ready"}
        /\ (job'.source <=> job'.status = "pending")
        /\ (job'.status = "ready" => job'.output = job'.attempts)
    BY <1>1, <2>1, <2>3 DEF Failed, Again, JobRow
  <2> QED
    BY <1>1, <2>1, <2>2, <2>4, AuthorStepInv
<1> QED
  BY <1>2, <1>3, <1>4, <1>5

LEMMA ClaimJobInv ==
  ASSUME AuthoringIInv, NEW a \in Authors, ClaimJob(a)
  PROVE  AuthoringIInv'
<1> USE DEF AuthoringIInv, AuthoringInv
<1>1. job \in JobRow /\ job.attempts + 1 \in Nat /\ job.status \in {"pending", "processing"}
  BY DEF ClaimJob, Claimable, AuthoringTypeOK, JobRow
<1>2. job' \in JobRow /\ job'.attempts = job.attempts + 1 /\ job'.status = "processing"
      /\ job'.source = job.source /\ job'.applied = job.applied
  BY <1>1 DEF ClaimJob, JobRow
<1>3. \A b \in Authors :
          author'[b] = IF b = a THEN [pc |-> "extract", attempt |-> job.attempts + 1]
                                ELSE author[b]
  BY DEF ClaimJob, AuthoringTypeOK
<1>4. AuthoringTypeOK'
  BY <1>1, <1>2 DEF ClaimJob, AuthoringTypeOK, JobRow
<1>5. AttemptsAreClaims'
  BY <1>1, <1>2, <1>3 DEF AttemptsAreClaims, AuthoringTypeOK
<1>6. OneQuiz' /\ QuizOfReadyJob'
  BY <1>1, <1>2 DEF ClaimJob, OneQuiz, QuizOfReadyJob
<1>7. job.source /\ SourceWhileOpen' /\ DraftOfLatestAttempt'
  BY <1>1, <1>2 DEF SourceWhileOpen, JobOpen, DraftOfLatestAttempt
<1> QED
  BY <1>4, <1>5, <1>6, <1>7, PartsSuffice DEF AuthoringParts

\* The steps of the row itself.
LEMMA RowInv ==
  ASSUME AuthoringIInv, CreateJob \/ JobElapses \/ LeaseOutlived \/ PurgeJob
  PROVE  AuthoringIInv'
<1> USE DEF AuthoringIInv, AuthoringInv
<1>1. job \in JobRow /\ NoJob \in JobRow
  BY AuthoringAssumption DEF AuthoringTypeOK, JobRow, NoJob
<1>2. UNCHANGED << author, quizzes, made >> /\ lost' \in 0..MaxLost
  BY AuthoringAssumption
     DEF CreateJob, JobElapses, LeaseOutlived, PurgeJob, AuthoringTypeOK
<1>3. CASE CreateJob \/ PurgeJob
  <2>1. job' \in JobRow /\ job'.status \in {"pending", "gone"} /\ job'.attempts = 0
        /\ (job'.source <=> job'.status = "pending") /\ job'.applied = 0
        /\ (job'.status = "pending" => CreateJob)
    BY <1>1, <1>3 DEF CreateJob, PurgeJob, JobRow, NoJob
  <2>2. CreateJob => job.attempts = 0 /\ job.status = "none"
    BY DEF CreateJob, AttemptsAreClaims, NoJob
  <2>3. AuthoringTypeOK'
    BY <1>2, <2>1 DEF AuthoringTypeOK, JobRow
  <2>4. AttemptsAreClaims'
    BY <1>2, <2>1, <2>2 DEF AttemptsAreClaims
  <2>5. OneQuiz' /\ QuizOfReadyJob'
    BY <1>2, <2>1, <2>2 DEF OneQuiz, QuizOfReadyJob
  <2> QED
    BY <2>1, <2>3, <2>4, <2>5, PartsSuffice
       DEF AuthoringParts, SourceWhileOpen, JobOpen, DraftOfLatestAttempt
<1>4. CASE JobElapses \/ LeaseOutlived
  <2>1. job' = [job EXCEPT !.available = TRUE] /\ job.status \in {"pending", "processing"}
    BY <1>4 DEF JobElapses, LeaseOutlived, Held, Holds
  <2>2. job' \in JobRow /\ job'.status = job.status /\ job'.attempts = job.attempts
        /\ job'.source = job.source /\ job'.applied = job.applied
    BY <1>1, <2>1 DEF JobRow
  <2>3. AuthoringTypeOK' /\ AttemptsAreClaims'
    BY <1>2, <2>1, <2>2 DEF AuthoringTypeOK, JobRow, AttemptsAreClaims
  <2>4. OneQuiz' /\ QuizOfReadyJob'
    BY <1>2, <2>1, <2>2 DEF OneQuiz, QuizOfReadyJob
  <2> QED
    BY <2>1, <2>2, <2>3, <2>4, PartsSuffice
       DEF AuthoringParts, SourceWhileOpen, JobOpen, DraftOfLatestAttempt
<1> QED
  BY <1>3, <1>4

\* Fewer quizzes are no more quizzes.
LEMMA FewerQuizzes ==
  ASSUME AuthoringTypeOK, NEW fewer \in SUBSET quizzes, Cardinality(quizzes) <= 1
  PROVE  Cardinality(fewer) <= 1
<1>1. IsFiniteSet(1..made) /\ quizzes \subseteq 1..made
  BY FS_Interval DEF AuthoringTypeOK
<1>2. IsFiniteSet(quizzes)
  BY <1>1, FS_Subset
<1>3. IsFiniteSet(fewer) /\ Cardinality(fewer) <= Cardinality(quizzes)
  BY <1>2, FS_Subset
<1>4. Cardinality(fewer) \in Nat /\ Cardinality(quizzes) \in Nat
  BY <1>2, <1>3, FS_CardinalityType
<1> QED
  BY <1>3, <1>4

LEMMA QuizzesInv ==
  ASSUME AuthoringIInv, Apply \/ DeleteQuiz
  PROVE  AuthoringIInv'
<1> USE DEF AuthoringIInv, AuthoringInv
<1>1. job \in JobRow
  BY DEF AuthoringTypeOK, JobRow
<1>2. CASE Apply
  <2>1. made + 1 \in 1..MaxQuizzes /\ made' = made + 1 /\ 1..made \subseteq 1..(made + 1)
    BY <1>2, AuthoringAssumption DEF Apply, AuthoringTypeOK
  <2>2. quizzes' = {made + 1}
    BY <1>2 DEF Apply, OneQuiz
  <2>3. job' \in JobRow /\ job'.status = "ready" /\ job'.attempts = job.attempts
        /\ job'.source = job.source /\ job'.applied = made + 1 /\ job'.output = job.output
    BY <1>1, <1>2, <2>1 DEF Apply, JobRow
  <2>4. AuthoringTypeOK'
    BY <1>2, <2>1, <2>2, <2>3 DEF Apply, AuthoringTypeOK, JobRow
  <2>5. AttemptsAreClaims' /\ QuizOfReadyJob'
    BY <1>2, <2>3 DEF Apply, AttemptsAreClaims, QuizOfReadyJob
  <2>6. OneQuiz'
    <3>1. Cardinality(quizzes') = 1
      BY <2>2, EmptyQuizzes
    <3>2. {made + 1} = {job'.applied} \ {0}
      BY <2>1, <2>3
    <3> QED
      BY <2>2, <3>1, <3>2 DEF OneQuiz
  <2> QED
    BY <1>2, <2>3, <2>4, <2>5, <2>6, PartsSuffice
       DEF Apply, AuthoringParts, SourceWhileOpen, JobOpen, DraftOfLatestAttempt
<1>3. ASSUME NEW q \in quizzes, quizzes' = quizzes \ {q},
             job' = IF job.applied = q THEN [job EXCEPT !.applied = 0] ELSE job,
             UNCHANGED << author, made, lost >>
      PROVE  AuthoringIInv'
  <2>1. job' \in JobRow /\ job'.status = job.status /\ job'.attempts = job.attempts
        /\ job'.source = job.source /\ job'.output = job.output
        /\ job'.applied = (IF job.applied = q THEN 0 ELSE job.applied)
    BY <1>1, <1>3, AuthoringAssumption DEF JobRow
  <2>2. job.status # "none"
    BY <1>3 DEF QuizOfReadyJob
  <2>3. AuthoringTypeOK'
    BY <1>3, <2>1 DEF AuthoringTypeOK, JobRow
  <2>4. AttemptsAreClaims' /\ QuizOfReadyJob'
    BY <1>3, <2>1, <2>2 DEF AttemptsAreClaims, QuizOfReadyJob
  <2>5. q # 0
    BY <1>3 DEF AuthoringTypeOK
  <2>6. OneQuiz'
    <3>1. Cardinality(quizzes') <= 1
      BY <1>3, FewerQuizzes DEF OneQuiz
    <3>2. ASSUME job.status = "ready"
          PROVE  quizzes' = {job'.applied} \ {0}
      BY <1>3, <2>1, <2>5, <3>2 DEF OneQuiz
    <3> QED
      BY <2>1, <3>1, <3>2 DEF OneQuiz
  <2> QED
    BY <1>3, <2>1, <2>3, <2>4, <2>6, PartsSuffice
       DEF AuthoringParts, SourceWhileOpen, JobOpen, DraftOfLatestAttempt
<1> QED
  BY <1>2, <1>3 DEF DeleteQuiz

LEMMA AuthoringNextInv ==
  ASSUME AuthoringIInv, [AuthoringNext]_authoringVars
  PROVE  AuthoringIInv'
<1>1. CASE UNCHANGED authoringVars
  BY <1>1 DEF authoringVars, AuthoringIInv, AuthoringInv, AuthoringTypeOK, SourceWhileOpen,
     JobOpen, DraftOfLatestAttempt, OneHolder, Holds, OneQuiz, AttemptsAreClaims, QuizOfReadyJob
<1>2. CASE CreateJob \/ JobElapses \/ LeaseOutlived \/ PurgeJob
  BY <1>2, RowInv
<1>3. CASE Apply \/ DeleteQuiz
  BY <1>3, QuizzesInv
<1>4. CASE \E a \in Authors : AuthorWorks(a) \/ LoseAuthor(a)
  BY <1>4, ClaimJobInv, AuthorWorksInv DEF AuthorWorks
<1> QED
  BY <1>1, <1>2, <1>3, <1>4 DEF AuthoringNext

LEMMA AuthoringInductive == AuthoringSpec => []AuthoringIInv
<1>1. AuthoringInit => AuthoringIInv
  BY AuthoringInitInv
<1>2. AuthoringIInv /\ [AuthoringNext]_authoringVars => AuthoringIInv'
  BY AuthoringNextInv
<1> QED
  BY <1>1, <1>2, PTL DEF AuthoringSpec

\* However the workers of a job overlap, only the one that made its latest attempt has a hold
\* of it, a ready draft is that worker's, the source outlives every attempt to come and no
\* longer, and applying the draft makes at most one quiz (completeAuthoringJob,
\* retryAuthoringJob, applyAuthoringJobDraft).
THEOREM AuthoringInvariant == AuthoringSpec => []AuthoringInv
<1>1. AuthoringIInv => AuthoringInv
  BY DEF AuthoringIInv
<1> QED
  BY <1>1, AuthoringInductive, PTL

\* The step of leased work that a step of an authoring job is.
LEMMA AuthoringStep ==
  ASSUME AuthoringIInv, [AuthoringNext]_authoringVars
  PROVE  [JobIs!Next]_(JobIs!vars)
<1> DEFINE status == IF JobOpen THEN "open" ELSE job.status
           request == IF job.status = "none" THEN 0 ELSE 1
<1> SUFFICES JobIs!Next \/ UNCHANGED << status, request >>
  BY DEF JobIs!vars
<1> USE DEF AuthoringIInv, AuthoringInv
<1>1. job \in JobRow
  BY DEF AuthoringTypeOK, JobRow
<1>2. CASE UNCHANGED authoringVars
  BY <1>2 DEF authoringVars, JobOpen
<1>3. CASE CreateJob
  <2>1. status = "none" /\ request = 0 /\ status' = "open" /\ request' = 1
    BY <1>3 DEF CreateJob, NoJob, JobOpen
  <2> QED
    BY <2>1 DEF JobIs!Next, JobIs!Request
<1>4. CASE PurgeJob
  <2>1. status # "gone" /\ status' = "gone" /\ request' = 1
    BY <1>4 DEF PurgeJob, NoJob, JobOpen
  <2> QED
    BY <2>1 DEF JobIs!Next, JobIs!Remove
<1>5. ASSUME JobOpen, job'.status \in {"pending", "processing", "ready", "failed"}
      PROVE  JobIs!Next \/ UNCHANGED << status, request >>
  <2>1. status = "open" /\ request = 1 /\ request' = 1
    BY <1>5 DEF JobOpen
  <2>2. status' \in {"open", "ready", "failed"}
    BY <1>5 DEF JobOpen
  <2> QED
    BY <2>1, <2>2 DEF JobIs!Next, JobIs!Settle
<1>6. ASSUME job'.status = job.status
      PROVE  UNCHANGED << status, request >>
  BY <1>6 DEF JobOpen
<1>7. CASE JobElapses \/ LeaseOutlived \/ Apply \/ DeleteQuiz
  <2>1. job'.status = job.status
    BY <1>1, <1>7 DEF JobElapses, LeaseOutlived, Apply, DeleteQuiz, JobRow
  <2> QED
    BY <1>6, <2>1
<1>8. ASSUME NEW a \in Authors, ClaimJob(a)
      PROVE  JobIs!Next \/ UNCHANGED << status, request >>
  <2>1. JobOpen /\ job'.status = "processing"
    BY <1>1, <1>8 DEF ClaimJob, Claimable, JobOpen, JobRow
  <2> QED
    BY <1>5, <2>1
<1>9. ASSUME NEW a \in Authors, AuthorWorks(a) \/ LoseAuthor(a), ~ClaimJob(a)
      PROVE  JobIs!Next \/ UNCHANGED << status, request >>
  <2>1. CASE job' = job
    BY <1>6, <2>1
  <2>2. CASE job' # job
    <3>1. Holds(a) /\ job' \in {Failed, Again, [job EXCEPT !.status = "ready",
                                !.source = FALSE, !.output = author[a].attempt]}
      BY <1>9, <2>2 DEF AuthorWorks, LoseAuthor, Extracted, ExtractionFails, CompleteJob,
         GenerationFails
    <3>2. JobOpen /\ job'.status \in {"pending", "ready", "failed"}
      BY <1>1, <3>1 DEF Holds, JobOpen, Failed, Again, JobRow
    <3> QED
      BY <1>5, <3>2
  <2> QED
    BY <2>1, <2>2
<1> QED
  BY <1>2, <1>3, <1>4, <1>7, <1>8, <1>9 DEF AuthoringNext

\* A job of the authoring assistant is settled once: a worker that lost its lease neither
\* revives nor replaces it, and a purged job does not come back (completeAuthoringJob,
\* retryAuthoringJob, purgeExpired).
THEOREM AuthoringJobsAreLeased == AuthoringSpec => AuthoringIsLeased
<1>1. AuthoringInit => JobIs!Init
  BY DEF AuthoringInit, NoJob, JobOpen, JobIs!Init
<1>2. AuthoringIInv /\ [AuthoringNext]_authoringVars => [JobIs!Next]_(JobIs!vars)
  BY AuthoringStep
<1> QED
  BY <1>1, <1>2, AuthoringInductive, PTL DEF AuthoringSpec, AuthoringIsLeased, JobIs!Spec

-------------------------------------------------------------------------------
(* Reports of Presentations: the lease token fences the workers. *)

\* A token is drawn for one claim, and the row's token is that of its latest attempt.
TokensAreClaims ==
    /\ report.token <= tokens
    /\ \A w \in Reporters : reporter[w].pc # "idle" =>
           /\ reporter[w].token \in 1..tokens
           /\ Leases(w) => reporter[w].attempt = report.attempts
    /\ \A w, v \in Reporters :
           reporter[w].pc # "idle" /\ reporter[v].pc # "idle"
               /\ reporter[w].token = reporter[v].token => w = v

ReportsIInv ==
    ReportsTypeOK /\ RowOfFinishedSession /\ LastClaimSettles /\ TokensAreClaims

ReportRow == [status : {"none", "pending", "ready", "failed"}, attempts : Nat,
              available : BOOLEAN, token : Nat, by : Nat]

LEMMA ReportsInitInv == ReportsInit => ReportsIInv
BY ReportsAssumption DEF ReportsInit, NoRow, AtRest, ReportsIInv, ReportsTypeOK,
   RowOfFinishedSession, LastClaimSettles, TokensAreClaims

\* A worker that goes idle, having settled or given up the row it leases, or nothing.
LEMMA ReporterStepInv ==
  ASSUME ReportsIInv, NEW w \in Reporters, reporter' = [reporter EXCEPT ![w] = AtRest],
         UNCHANGED << sessionIs, tokens >>, stalls' \in 0..MaxStalls,
         report' = report \/
           /\ report' \in ReportRow /\ report.status = "pending"
           /\ report'.token = 0 /\ report'.status # "none"
           /\ report'.status = "ready" => report'.by = report'.attempts
           /\ report'.status = "failed" => report'.attempts >= ReportAttempts
  PROVE  ReportsIInv'
<1> USE DEF ReportsIInv
<1>1. \A v \in Reporters : reporter'[v] = IF v = w THEN AtRest ELSE reporter[v]
  BY DEF ReportsTypeOK
<1>2. ReportsTypeOK'
  BY DEF ReportsTypeOK, ReportRow, AtRest
<1>3. RowOfFinishedSession' /\ LastClaimSettles'
  BY DEF RowOfFinishedSession, LastClaimSettles
<1>4. TokensAreClaims'
  <2>1. report'.token <= tokens' /\ report'.token \in Nat
    BY DEF ReportsTypeOK, TokensAreClaims
  <2>2. ASSUME NEW v \in Reporters, reporter'[v].pc # "idle"
        PROVE  /\ v # w /\ reporter'[v] = reporter[v] /\ reporter'[v].token \in 1..tokens'
               /\ Leases(v)' => reporter'[v].attempt = report'.attempts
    BY <1>1, <2>2 DEF ReportsTypeOK, TokensAreClaims, AtRest, Leases
  <2> QED
    BY <2>1, <2>2 DEF TokensAreClaims
<1> QED
  BY <1>2, <1>3, <1>4

LEMMA ReporterWorksInv ==
  ASSUME ReportsIInv, NEW w \in Reporters,
         CompleteReport(w) \/ ReportFails(w) \/ LoseReporter(w)
  PROVE  ReportsIInv'
<1> USE DEF ReportsIInv
<1>1. report \in ReportRow /\ stalls' \in 0..MaxStalls /\ reporter[w].attempt \in Nat
  BY ReportsAssumption
     DEF ReportsTypeOK, ReportRow, CompleteReport, ReportFails, LoseReporter
<1>2. Leases(w) /\ reporter[w].pc = "claimed" => reporter[w].attempt = report.attempts
  BY DEF TokensAreClaims
<1>3. CASE LoseReporter(w) \/ (ReportFails(w) /\ ~Leases(w))
  BY <1>1, <1>3, ReporterStepInv DEF LoseReporter, ReportFails
<1>4. CASE CompleteReport(w)
  <2>1. /\ report' \in ReportRow /\ report.status = "pending" /\ report'.status = "ready"
        /\ report'.token = 0 /\ report'.by = report'.attempts
    BY <1>1, <1>2, <1>4 DEF CompleteReport, Leases, ReportRow
  <2> QED
    BY <1>1, <1>4, <2>1, ReporterStepInv DEF CompleteReport
<1>5. CASE ReportFails(w) /\ Leases(w)
  <2>1. /\ report' \in ReportRow /\ report.status = "pending"
        /\ report'.status \in {"pending", "failed"}
        /\ report'.token = 0 /\ report'.attempts = report.attempts
        /\ report'.status = "failed" => reporter[w].attempt >= ReportAttempts
    BY <1>1, <1>5 DEF ReportFails, Leases, ReportRow
  <2> QED
    BY <1>1, <1>2, <1>5, <2>1, ReporterStepInv DEF ReportFails
<1> QED
  BY <1>3, <1>4, <1>5

LEMMA ClaimReportInv ==
  ASSUME ReportsIInv, NEW w \in Reporters, ClaimReport(w)
  PROVE  ReportsIInv'
<1> USE DEF ReportsIInv
<1>1. report \in ReportRow /\ tokens \in Nat /\ tokens + 1 \in Nat
      /\ report.attempts + 1 \in Nat
  BY DEF ReportsTypeOK, ReportRow
<1>2. report' \in ReportRow /\ report'.status = "pending" /\ report'.token = tokens + 1
      /\ report'.attempts = report.attempts + 1 /\ report.status = "pending"
  BY <1>1 DEF ClaimReport, ReportRow
<1>3. \A v \in Reporters :
          reporter'[v] = IF v = w THEN [pc |-> "claimed", token |-> tokens + 1,
                                        attempt |-> report.attempts + 1]
                         ELSE reporter[v]
  BY DEF ClaimReport, ReportsTypeOK
<1>4. ReportsTypeOK'
  BY <1>1, <1>2 DEF ClaimReport, ReportsTypeOK, ReportRow
<1>5. TokensAreClaims'
  BY <1>1, <1>2, <1>3 DEF ClaimReport, ReportsTypeOK, TokensAreClaims, Leases
<1> QED
  BY <1>2, <1>4, <1>5 DEF ClaimReport, RowOfFinishedSession, LastClaimSettles

\* The steps of the session and of time.
LEMMA ReportRowInv ==
  ASSUME ReportsIInv, FinishSession \/ DeleteSession \/ ReportElapses \/ ReporterStalls
  PROVE  ReportsIInv'
<1> USE DEF ReportsIInv
<1>1. report \in ReportRow /\ NoRow \in ReportRow
  BY DEF ReportsTypeOK, ReportRow, NoRow
<1>2. UNCHANGED << reporter, tokens >> /\ stalls' \in 0..MaxStalls
  BY ReportsAssumption
     DEF FinishSession, DeleteSession, ReportElapses, ReporterStalls, ReportsTypeOK
<1>3. CASE FinishSession \/ DeleteSession
  <2>1. /\ report' \in ReportRow /\ report'.token = 0
        /\ sessionIs' \in {"finished", "deleted"}
        /\ report'.status = IF sessionIs' = "finished" THEN "pending" ELSE "none"
    <3>1. CASE FinishSession
      BY <1>1, <3>1 DEF FinishSession, ReportRow, NoRow
    <3>2. CASE DeleteSession
      BY <1>1, <3>2 DEF DeleteSession, NoRow
    <3> QED
      BY <1>3, <3>1, <3>2
  <2>2. ReportsTypeOK' /\ RowOfFinishedSession' /\ LastClaimSettles'
    BY <1>2, <2>1 DEF ReportsTypeOK, ReportRow, RowOfFinishedSession, LastClaimSettles
  <2>3. TokensAreClaims'
    BY <1>2, <2>1 DEF ReportsTypeOK, TokensAreClaims, Leases
  <2> QED
    BY <2>2, <2>3
<1>4. CASE ReportElapses \/ ReporterStalls
  <2>1. /\ report' \in ReportRow /\ report'.token = report.token
        /\ report'.status = report.status /\ report'.attempts = report.attempts
        /\ report'.by = report.by /\ sessionIs' = sessionIs
    BY <1>1, <1>4 DEF ReportElapses, ReporterStalls, ReportRow
  <2>2. ReportsTypeOK' /\ RowOfFinishedSession' /\ LastClaimSettles'
    BY <1>2, <2>1 DEF ReportsTypeOK, ReportRow, RowOfFinishedSession, LastClaimSettles
  <2>3. TokensAreClaims'
    BY <1>2, <2>1 DEF ReportsTypeOK, TokensAreClaims, Leases
  <2> QED
    BY <2>2, <2>3
<1> QED
  BY <1>3, <1>4

LEMMA ReportsNextInv ==
  ASSUME ReportsIInv, [ReportsNext]_reportsVars
  PROVE  ReportsIInv'
<1>1. CASE UNCHANGED reportsVars
  BY <1>1 DEF reportsVars, ReportsIInv, ReportsTypeOK, RowOfFinishedSession,
     LastClaimSettles, TokensAreClaims, Leases
<1>2. CASE FinishSession \/ DeleteSession \/ ReportElapses \/ ReporterStalls
  BY <1>2, ReportRowInv
<1>3. CASE \E w \in Reporters : ReporterWorks(w) \/ LoseReporter(w)
  BY <1>3, ClaimReportInv, ReporterWorksInv DEF ReporterWorks
<1> QED
  BY <1>1, <1>2, <1>3 DEF ReportsNext

LEMMA ReportsInductive == ReportsSpec => []ReportsIInv
<1>1. ReportsInit => ReportsIInv
  BY ReportsInitInv
<1>2. ReportsIInv /\ [ReportsNext]_reportsVars => ReportsIInv'
  BY ReportsNextInv
<1> QED
  BY <1>1, <1>2, PTL DEF ReportsSpec

LEMMA ReportsSafe == ReportsIInv => ReportsInv
BY DEF ReportsIInv, ReportsInv, OneLease, Leases, TokensAreClaims

\* A Presentation's report exists exactly while its session is finished, is held by one worker
\* at a time, is ready by the last one that claimed it and fails only when every attempt was
\* made (enqueue_presentation_session_report, completeReportJob, retryReportJob).
THEOREM ReportsInvariant == ReportsSpec => []ReportsInv
BY ReportsSafe, ReportsInductive, PTL

\* The step of leased work that a step of a Presentation's report is.
LEMMA ReportsStep ==
  ASSUME ReportsIInv, [ReportsNext]_reportsVars
  PROVE  [ReportIs!Next]_(ReportIs!vars)
<1> DEFINE status == IF sessionIs = "deleted" THEN "gone"
                     ELSE IF report.status = "pending" THEN "open" ELSE report.status
           request == IF sessionIs = "live" THEN 0 ELSE 1
<1> SUFFICES ReportIs!Next \/ UNCHANGED << status, request >>
  BY DEF ReportIs!vars
<1> USE DEF ReportsIInv
<1>1. report \in ReportRow
  BY DEF ReportsTypeOK, ReportRow
<1>2. CASE UNCHANGED reportsVars
  BY <1>2 DEF reportsVars
<1>3. CASE FinishSession
  <2>1. status = "none" /\ request = 0 /\ status' = "open" /\ request' = 1
    BY <1>3 DEF FinishSession, NoRow, RowOfFinishedSession
  <2> QED
    BY <2>1 DEF ReportIs!Next, ReportIs!Request
<1>4. CASE DeleteSession
  <2>1. status # "gone" /\ status' = "gone" /\ request' \in Nat
    BY <1>1, <1>4 DEF DeleteSession, ReportRow
  <2> QED
    BY <2>1 DEF ReportIs!Next, ReportIs!Remove
<1>5. ASSUME UNCHANGED sessionIs, report.status = "pending",
             report'.status \in {"pending", "ready", "failed"}
      PROVE  ReportIs!Next \/ UNCHANGED << status, request >>
  <2>1. status = "open" /\ status' \in {"open", "ready", "failed"} /\ request' = request
    BY <1>5 DEF RowOfFinishedSession
  <2> QED
    BY <2>1 DEF ReportIs!Next, ReportIs!Settle
<1>6. CASE ReportElapses \/ ReporterStalls
  BY <1>1, <1>6 DEF ReportElapses, ReporterStalls, ReportRow
<1>7. ASSUME NEW w \in Reporters, LoseReporter(w) \/ (ReportFails(w) /\ ~Leases(w))
      PROVE  UNCHANGED << status, request >>
  BY <1>7 DEF LoseReporter, ReportFails
<1>8. ASSUME NEW w \in Reporters,
             ClaimReport(w) \/ CompleteReport(w) \/ (ReportFails(w) /\ Leases(w))
      PROVE  ReportIs!Next \/ UNCHANGED << status, request >>
  <2>1. UNCHANGED sessionIs /\ report.status = "pending"
        /\ report'.status \in {"pending", "ready", "failed"}
    BY <1>1, <1>8 DEF ClaimReport, CompleteReport, ReportFails, Leases, ReportRow
  <2> QED
    BY <1>5, <2>1
<1> QED
  BY <1>2, <1>3, <1>4, <1>6, <1>7, <1>8 DEF ReportsNext, ReporterWorks

\* A Presentation's report is settled once and stays as it is until its session goes
\* (completeReportJob, retryReportJob).
THEOREM PresentationReportsAreLeased == ReportsSpec => PresentationReportIsLeased
<1>1. ReportsInit => ReportIs!Init
  BY DEF ReportsInit, NoRow, ReportIs!Init
<1>2. ReportsIInv /\ [ReportsNext]_reportsVars => [ReportIs!Next]_(ReportIs!vars)
  BY ReportsStep
<1> QED
  BY <1>1, <1>2, ReportsInductive, PTL
     DEF ReportsSpec, PresentationReportIsLeased, ReportIs!Spec

-------------------------------------------------------------------------------
(* The audience's outbox *)

OutboxEvent == [summarized : BOOLEAN, claimed : BOOLEAN, delivered : BOOLEAN]

\* What a publication that has got so far has done for its events.
Sent(w, e) ==
    /\ w.at \in {"summarize", "complete"} => e \in shown
    /\ w.at = "complete" /\ outbox[e].summarized => e \in counted

\* What is on its way is as far as it says: events that wait for a summary were sent.
OnTheWay ==
    /\ \A w \in publishing : \A e \in w.events : Sent(w, e)
    /\ \A p \in Processes : pending[p] \subseteq shown

OutboxIInv == OutboxInv /\ OnTheWay

LEMMA OutboxInitInv == OutboxInit => OutboxIInv
<1>1. << >> \in Seq(OutboxEvent) /\ Len(<< >>) = 0
  BY EmptySeq
<1> QED
  BY <1>1, OutboxAssumption DEF OutboxInit, OutboxIInv, OutboxInv, OutboxTypeOK, Events,
     DeliveredWasShown, OnTheWay, OutboxEvent

\* A publication of the type, with what it has done.
Publications ==
    [events : SUBSET Events, process : Processes, by : {"author", "relay", "timer"},
     at : {"emit", "summarize", "complete"}]

\* A step that changes neither what the outbox holds nor who delivered what.
LEMMA TransitInv ==
  ASSUME OutboxIInv, UNCHANGED outbox, faults' \in 0..MaxFaults,
         shown \subseteq shown', shown' \subseteq Events,
         counted \subseteq counted', counted' \subseteq Events,
         recent' \subseteq Processes, pending' \in [Processes -> SUBSET Events],
         \A p \in Processes : pending'[p] \subseteq shown',
         \A w \in publishing' : w \in publishing \/ (w \in Publications
                                                     /\ \A e \in w.events : Sent(w, e)')
  PROVE  OutboxIInv'
<1> USE DEF OutboxIInv, OutboxInv
<1>1. Events' = Events
  BY DEF Events
<1>2. OutboxTypeOK'
  BY <1>1 DEF OutboxTypeOK, Publications
<1>3. DeliveredWasShown'
  BY <1>1 DEF DeliveredWasShown
<1>4. OnTheWay'
  BY DEF OnTheWay, Sent
<1> QED
  BY <1>2, <1>3, <1>4

\* A step that changes one event of the outbox, which it says is delivered only if it was sent.
LEMMA RemarkInv ==
  ASSUME OutboxIInv, NEW e \in Events, NEW marked \in OutboxEvent,
         outbox' = [outbox EXCEPT ![e] = marked], marked.summarized = outbox[e].summarized,
         marked.delivered => e \in shown /\ (marked.summarized => e \in counted),
         UNCHANGED << pending, recent, shown, counted >>, faults' \in 0..MaxFaults,
         \A w \in publishing' : \/ w \in publishing
                                \/ w \in Publications /\ w.at = "emit"
                                \/ \E v \in publishing : w.events \subseteq v.events
                                       /\ w = [v EXCEPT !.events = w.events]
  PROVE  OutboxIInv'
<1> USE DEF OutboxIInv, OutboxInv
<1>1. /\ outbox' \in Seq(OutboxEvent) /\ Len(outbox') = Len(outbox)
      /\ \A f \in Events : outbox'[f] = IF f = e THEN marked ELSE outbox[f]
  BY ExceptSeq DEF OutboxTypeOK, Events, OutboxEvent
<1>2. Events' = Events
  BY <1>1 DEF Events
<1>3. \A w \in publishing' : w \in Publications
  BY DEF OutboxTypeOK, Publications
<1>4. OutboxTypeOK'
  BY <1>1, <1>2, <1>3 DEF OutboxTypeOK, OutboxEvent, Publications
<1>5. DeliveredWasShown'
  BY <1>1, <1>2 DEF DeliveredWasShown
<1>6. ASSUME NEW w \in publishing', NEW f \in w.events
      PROVE  Sent(w, f)'
  <2>1. f \in Events /\ outbox'[f].summarized = outbox[f].summarized
    BY <1>1, <1>3, <1>6 DEF Publications
  <2>2. CASE w.at = "emit"
    BY <2>2 DEF Sent
  <2>3. CASE \E v \in publishing : f \in v.events /\ v.at = w.at
    BY <2>1, <2>3 DEF OnTheWay, Sent
  <2>4. CASE \E v \in publishing : w.events \subseteq v.events
                                     /\ w = [v EXCEPT !.events = w.events]
    BY <1>6, <2>3, <2>4 DEF OutboxTypeOK
  <2> QED
    BY <1>6, <2>2, <2>3, <2>4
<1> QED
  BY <1>4, <1>5, <1>6 DEF OnTheWay

LEMMA RecordInv ==
  ASSUME OutboxIInv, NEW p \in Processes, NEW summarized \in BOOLEAN, Record(p, summarized)
  PROVE  OutboxIInv'
<1> USE DEF OutboxIInv, OutboxInv
<1> DEFINE event == [summarized |-> summarized, claimed |-> FALSE, delivered |-> FALSE]
           n == Len(outbox)
<1>1. event \in OutboxEvent /\ outbox \in Seq(OutboxEvent) /\ n \in Nat
  BY LenProperties DEF OutboxTypeOK, OutboxEvent
<1>2. /\ outbox' \in Seq(OutboxEvent) /\ Len(outbox') = n + 1 /\ n + 1 <= MaxEvents
      /\ \A f \in Events : outbox'[f] = outbox[f]
      /\ outbox'[n + 1] = event
  BY <1>1, OutboxAssumption DEF Record, Events
<1>3. Events \subseteq Events' /\ Events' = 1..(n + 1) /\ n + 1 \in Events'
      /\ \A f \in Events' : f \in Events \/ f = n + 1
  BY <1>1, <1>2 DEF Events
<1>4. publishing' = publishing \cup {Publication({n + 1}, p, "author", "emit")}
      /\ UNCHANGED << pending, recent, shown, counted, faults >>
  BY DEF Record
<1>5. \A w \in publishing' : w \in Publications'
  <2>1. \A w \in publishing : w \in Publications'
    BY <1>3 DEF OutboxTypeOK, Publications
  <2>2. Publication({n + 1}, p, "author", "emit") \in Publications'
    BY <1>3 DEF Publication, Publications
  <2> QED
    BY <1>4, <2>1, <2>2
<1>6. OutboxTypeOK'
  <2>1. pending' \in [Processes -> SUBSET Events'] /\ shown' \subseteq Events'
        /\ counted' \subseteq Events'
    BY <1>3, <1>4 DEF OutboxTypeOK
  <2> QED
    BY <1>2, <1>4, <1>5, <2>1 DEF OutboxTypeOK, Publications, OutboxEvent
<1>7. DeliveredWasShown'
  BY <1>2, <1>3, <1>4 DEF DeliveredWasShown
<1>8. OnTheWay'
  <2>1. ASSUME NEW w \in publishing, NEW f \in w.events
        PROVE  Sent(w, f)'
    <3>1. f \in Events
      BY <2>1 DEF OutboxTypeOK
    <3> QED
      BY <1>2, <1>4, <2>1, <3>1 DEF OnTheWay, Sent
  <2>2. ASSUME NEW w \in publishing', w.at = "emit", NEW f
        PROVE  Sent(w, f)'
    BY <2>2 DEF Sent
  <2>3. \A w \in publishing' : w \in publishing \/ w.at = "emit"
    BY <1>4 DEF Publication
  <2>4. \A w \in publishing' : \A f \in w.events : Sent(w, f)'
    BY <2>1, <2>2, <2>3
  <2>5. \A q \in Processes : pending'[q] \subseteq shown'
    BY <1>4 DEF OnTheWay
  <2> QED
    BY <2>4, <2>5 DEF OnTheWay
<1> QED
  BY <1>6, <1>7, <1>8

LEMMA RelayInv ==
  ASSUME OutboxIInv, NEW p \in Processes, Relay(p)
  PROVE  OutboxIInv'
<1> USE DEF OutboxIInv, OutboxInv
<1>1. PICK e \in Events : /\ Due(e) /\ outbox' = [outbox EXCEPT ![e].claimed = TRUE]
                          /\ publishing' = publishing \cup {Publication({e}, p, "relay", "emit")}
  BY DEF Relay
<1>2. outbox[e] \in OutboxEvent
  BY ElementOfSeq DEF OutboxTypeOK, OutboxEvent, Events
<1>3. /\ [outbox[e] EXCEPT !.claimed = TRUE] \in OutboxEvent
      /\ outbox' = [outbox EXCEPT ![e] = [outbox[e] EXCEPT !.claimed = TRUE]]
  BY <1>1, <1>2 DEF OutboxEvent
<1>4. Publication({e}, p, "relay", "emit") \in Publications
      /\ Publication({e}, p, "relay", "emit").at = "emit"
  BY DEF Publication, Publications
<1>5. UNCHANGED << pending, recent, shown, counted >> /\ faults' \in 0..MaxFaults
  BY DEF Relay, OutboxTypeOK
<1>6. \A w \in publishing' : w \in publishing \/ (w \in Publications /\ w.at = "emit")
  BY <1>1, <1>4
<1> HIDE DEF OutboxIInv, OutboxInv
<1>7. /\ [outbox[e] EXCEPT !.claimed = TRUE].summarized = outbox[e].summarized
      /\ [outbox[e] EXCEPT !.claimed = TRUE].delivered = FALSE
  BY <1>1, <1>2 DEF Due, OutboxEvent
<1> QED
  BY <1>3, <1>5, <1>6, <1>7, RemarkInv

LEMMA StaleInv ==
  ASSUME OutboxIInv, NEW e \in Events, GoesStale(e)
  PROVE  OutboxIInv'
<1>1. outbox[e] \in OutboxEvent
  BY ElementOfSeq DEF OutboxTypeOK, OutboxEvent, Events, OutboxIInv, OutboxInv
<1>2. /\ [outbox[e] EXCEPT !.claimed = FALSE] \in OutboxEvent
      /\ outbox' = [outbox EXCEPT ![e] = [outbox[e] EXCEPT !.claimed = FALSE]]
      /\ [outbox[e] EXCEPT !.claimed = FALSE].summarized = outbox[e].summarized
      /\ [outbox[e] EXCEPT !.claimed = FALSE].delivered = outbox[e].delivered
  BY <1>1 DEF OutboxEvent, GoesStale
<1>3. UNCHANGED << publishing, pending, recent, shown, counted >> /\ faults' \in 0..MaxFaults
  BY OutboxAssumption DEF GoesStale, Fault, OutboxIInv, OutboxInv, OutboxTypeOK
<1>4. outbox[e].delivered => e \in shown /\ (outbox[e].summarized => e \in counted)
  BY DEF OutboxIInv, OutboxInv, DeliveredWasShown
<1> QED
  BY <1>2, <1>3, <1>4, RemarkInv

LEMMA CompleteEventInv ==
  ASSUME OutboxIInv, NEW w \in publishing, NEW e \in w.events,
         CompleteEvent(w, e) \/ CompletionFails(w, e)
  PROVE  OutboxIInv'
<1>1. w \in Publications /\ e \in Events /\ outbox[e] \in OutboxEvent
  BY ElementOfSeq
     DEF OutboxTypeOK, OutboxEvent, Events, OutboxIInv, OutboxInv, Publications
<1>2. \A v \in publishing' : \/ v \in publishing
                             \/ w.events \ {e} \subseteq w.events
                                /\ v = [w EXCEPT !.events = w.events \ {e}]
  BY <1>1 DEF CompleteEvent, CompletionFails, Without
<1>3. \A v \in publishing' : \/ v \in publishing
                             \/ \E u \in publishing : v.events \subseteq u.events
                                    /\ v = [u EXCEPT !.events = v.events]
  BY <1>1, <1>2 DEF Publications
<1>4. e \in shown /\ (outbox[e].summarized => e \in counted)
  BY DEF CompleteEvent, CompletionFails, OutboxIInv, OnTheWay, Sent
<1>5. UNCHANGED << pending, recent, shown, counted >> /\ faults' \in 0..MaxFaults
  BY OutboxAssumption
     DEF CompleteEvent, CompletionFails, Fault, OutboxIInv, OutboxInv, OutboxTypeOK
<1> DEFINE marked == IF CompletionFails(w, e) \/ outbox[e].delivered THEN outbox[e]
                     ELSE [outbox[e] EXCEPT !.delivered = TRUE, !.claimed = FALSE]
<1>6. /\ marked \in OutboxEvent /\ marked.summarized = outbox[e].summarized
      /\ outbox' = [outbox EXCEPT ![e] = marked]
  <2>1. outbox = [outbox EXCEPT ![e] = outbox[e]]
    BY DEF OutboxIInv, OutboxInv, OutboxTypeOK
  <2> QED
    BY <1>1, <2>1 DEF OutboxEvent, CompleteEvent, CompletionFails
<1> HIDE DEF marked
<1> QED
  BY <1>1, <1>3, <1>4, <1>5, <1>6, RemarkInv

LEMMA EmitEventInv ==
  ASSUME OutboxIInv, NEW w \in publishing, EmitEvent(w)
  PROVE  OutboxIInv'
<1>1. w \in Publications /\ w.at = "emit" /\ shown' = shown \cup w.events
      /\ UNCHANGED << outbox, counted, faults >>
  BY DEF EmitEvent, OutboxIInv, OutboxInv, OutboxTypeOK, Publications
<1>2. /\ shown' \subseteq Events /\ shown \subseteq shown' /\ counted \subseteq Events
      /\ faults \in 0..MaxFaults /\ recent \subseteq Processes
      /\ pending \in [Processes -> SUBSET Events]
      /\ \A p \in Processes : pending[p] \subseteq shown'
  BY <1>1 DEF OutboxIInv, OutboxInv, OutboxTypeOK, OnTheWay, Publications
<1>3. ASSUME NEW at \in {"summarize", "complete"}, Moves(w, at),
             at = "complete" => \A e \in w.events : ~outbox[e].summarized
      PROVE  \A v \in publishing' : v \in publishing \/ (v \in Publications
                                                         /\ \A e \in v.events : Sent(v, e)')
  <2>1. [w EXCEPT !.at = at] \in Publications /\ [w EXCEPT !.at = at].events = w.events
        /\ [w EXCEPT !.at = at].at = at
    BY <1>1 DEF Publications
  <2>2. \A e \in w.events : Sent([w EXCEPT !.at = at], e)'
    BY <1>1, <1>3, <2>1 DEF Sent
  <2> QED
    BY <1>3, <2>1, <2>2 DEF Moves
<1>4. CASE Moves(w, "complete") /\ UNCHANGED << pending, recent >>
           /\ ~\E e \in w.events : outbox[e].summarized
  BY <1>1, <1>2, <1>3, <1>4, TransitInv
<1>5. CASE Merge(w)
  <2>1. /\ pending' \in [Processes -> SUBSET Events]
        /\ \A p \in Processes : pending'[p] \subseteq shown'
    BY <1>1, <1>2, <1>5 DEF Merge, Publications
  <2>2. publishing' \subseteq publishing /\ recent' = recent
    BY <1>5 DEF Merge
  <2> QED
    BY <1>1, <1>2, <2>1, <2>2, TransitInv
<1>6. CASE SummarizeNow(w)
  <2>1. recent' \subseteq Processes /\ pending' = pending /\ Moves(w, "summarize")
    BY <1>1, <1>2, <1>6 DEF SummarizeNow, Publications
  <2> QED
    BY <1>1, <1>2, <1>3, <2>1, TransitInv
<1> QED
  BY <1>4, <1>5, <1>6 DEF EmitEvent

LEMMA EmitSummaryInv ==
  ASSUME OutboxIInv, NEW w \in publishing, EmitSummary(w)
  PROVE  OutboxIInv'
<1>1. w \in Publications /\ w.at = "summarize" /\ counted' = Events /\ Moves(w, "complete")
      /\ UNCHANGED << outbox, pending, recent, shown, faults >>
  BY DEF EmitSummary, OutboxIInv, OutboxInv, OutboxTypeOK, Publications
<1>2. /\ shown \subseteq Events /\ counted \subseteq Events /\ recent \subseteq Processes
      /\ faults \in 0..MaxFaults /\ pending \in [Processes -> SUBSET Events]
      /\ \A p \in Processes : pending[p] \subseteq shown
  BY DEF OutboxIInv, OutboxInv, OutboxTypeOK, OnTheWay
<1> DEFINE done == [w EXCEPT !.at = "complete"]
<1>3. done \in Publications /\ done.events = w.events
  BY <1>1 DEF Publications
<1>4. \A e \in w.events : Sent(done, e)'
  BY <1>1 DEF OutboxIInv, OnTheWay, Sent, Publications
<1>5. \A v \in publishing' : v \in publishing \/ (v \in Publications
                                                  /\ \A e \in v.events : Sent(v, e)')
  BY <1>1, <1>3, <1>4 DEF Moves
<1> QED
  BY <1>1, <1>2, <1>5, TransitInv

LEMMA SummaryTimerInv ==
  ASSUME OutboxIInv, NEW p \in Processes, SummaryTimer(p)
  PROVE  OutboxIInv'
<1>1. /\ shown \subseteq Events /\ counted \subseteq Events /\ recent' \subseteq Processes
      /\ faults \in 0..MaxFaults /\ pending \in [Processes -> SUBSET Events]
      /\ UNCHANGED << outbox, shown, counted, faults >>
  BY DEF SummaryTimer, OutboxIInv, OutboxInv, OutboxTypeOK
<1>2. /\ pending' \in [Processes -> SUBSET Events]
      /\ \A q \in Processes : pending'[q] \subseteq shown'
  BY <1>1 DEF SummaryTimer, OutboxIInv, OnTheWay
<1> DEFINE timed == Publication(pending[p], p, "timer", "summarize")
<1>3. timed \in Publications /\ timed.events = pending[p] /\ timed.at = "summarize"
  BY <1>1 DEF Publication, Publications
<1>4. ASSUME NEW v \in Publications, v.events = pending[p], v.at = "summarize"
      PROVE  \A e \in v.events : Sent(v, e)'
  BY <1>1, <1>4 DEF Sent, OutboxIInv, OnTheWay
<1>5. \A v \in publishing' : v \in publishing \/ v = timed
  BY DEF SummaryTimer
<1> HIDE DEF timed
<1>6. \A v \in publishing' : v \in publishing \/ (v \in Publications
                                                  /\ \A e \in v.events : Sent(v, e)')
  BY <1>3, <1>4, <1>5
<1> QED
  BY <1>1, <1>2, <1>6, TransitInv

\* The steps that only end, forget or lose something.
LEMMA LossInv ==
  ASSUME OutboxIInv,
         \/ \E p \in Processes : SummaryInterval(p) \/ ProcessDies(p)
         \/ \E w \in publishing : PublicationFails(w)
  PROVE  OutboxIInv'
<1>1. /\ shown \subseteq Events /\ counted \subseteq Events /\ recent' \subseteq Processes
      /\ UNCHANGED << outbox, shown, counted >> /\ publishing' \subseteq publishing
  BY DEF SummaryInterval, ProcessDies, PublicationFails, OutboxIInv, OutboxInv, OutboxTypeOK
<1>2. faults' \in 0..MaxFaults
  BY OutboxAssumption
     DEF SummaryInterval, ProcessDies, PublicationFails, Fault, OutboxIInv, OutboxInv,
         OutboxTypeOK
<1>3. /\ pending' \in [Processes -> SUBSET Events]
      /\ \A p \in Processes : pending'[p] \subseteq shown'
  BY <1>1 DEF SummaryInterval, ProcessDies, PublicationFails, OutboxIInv, OutboxInv,
     OutboxTypeOK, OnTheWay
<1> QED
  BY <1>1, <1>2, <1>3, TransitInv

LEMMA OutboxNextInv ==
  ASSUME OutboxIInv, [OutboxNext]_outboxVars
  PROVE  OutboxIInv'
<1>1. CASE UNCHANGED outboxVars
  BY <1>1 DEF outboxVars, OutboxIInv, OutboxInv, OutboxTypeOK, Events, DeliveredWasShown,
     OnTheWay, Sent
<1>2. CASE OutboxNext
  BY <1>2, RecordInv, RelayInv, StaleInv, CompleteEventInv, EmitEventInv, EmitSummaryInv,
     SummaryTimerInv, LossInv DEF OutboxNext
<1> QED
  BY <1>1, <1>2

\* No event of the audience counts as delivered before the room was sent it and, when it bears
\* on the summary, a summary that includes it: whoever publishes or relays it, how often, and
\* whatever fails on the way (completeAudienceOutbox, scheduleAudienceSummary).
THEOREM OutboxInvariant == OutboxSpec => []OutboxInv
<1>1. OutboxInit => OutboxIInv
  BY OutboxInitInv
<1>2. OutboxIInv /\ [OutboxNext]_outboxVars => OutboxIInv'
  BY OutboxNextInv
<1>3. OutboxIInv => OutboxInv
  BY DEF OutboxIInv
<1> QED
  BY <1>1, <1>2, <1>3, PTL DEF OutboxSpec

-------------------------------------------------------------------------------
(* Broadcasts of a Presentation's room *)

Flight == [stage : {"none", "begun", "fetched", "read"}, to : SUBSET Sockets,
           read : 0..MaxChanges]
ServerState == [open : BOOLEAN, timer : BOOLEAN, recent : BOOLEAN, queued : BOOLEAN,
                flight : Flight]

\* A process in this state will yet send socket s the room as it is now, or as it will be.
Owes(sv, p, s) ==
    \/ sv.timer
    \/ sv.flight # Idle /\ sv.queued
    \/ sv.flight.stage = "begun" /\ (s \in sv.flight.to \/ Home[s] # p)
    \/ sv.flight.stage = "fetched" /\ s \in sv.flight.to
    \/ sv.flight.stage = "read" /\ s \in sv.flight.to /\ sv.flight.read = version

\* A broadcast that is fetching the room's sockets has its process's own, or another follows.
OwnSocketsOwed(sv, p) ==
    sv.open /\ sv.flight.stage = "begun" =>
        \A s \in Sockets : socket[s].is = "in" /\ Home[s] = p => Owes(sv, p, s)

\* A process that sent nothing more is known for it.
ClosedIsSkipped == \A p \in Servers : ~server[p].open => p \in skipped

\* Nothing is shown or read that is newer than the room.
NothingAhead ==
    /\ \A s \in Sockets : socket[s].shows <= version
    /\ \A p \in Servers : server[p].flight.read <= version

\* A socket that is behind is owed a broadcast by some process.
BehindIsOwed ==
    skipped = {} => \A s \in Sockets : socket[s].is = "in" /\ socket[s].shows # version
                        => \E p \in Servers : Owes(server[p], p, s)

BroadcastsIInv ==
    /\ BroadcastsTypeOK /\ ClosedIsSkipped /\ NothingAhead /\ BehindIsOwed
    /\ \A p \in Servers : OwnSocketsOwed(server[p], p)

LEMMA BroadcastsInitInv == BroadcastsInit => BroadcastsIInv
BY BroadcastsAssumption DEF BroadcastsInit, BroadcastsIInv, BroadcastsTypeOK, ClosedIsSkipped,
   NothingAhead, BehindIsOwed, OwnSocketsOwed, Idle

\* When nobody has anything in flight or due, nobody owes anything.
LEMMA BroadcastsSafe == BroadcastsIInv => BroadcastsInv
<1> SUFFICES ASSUME BroadcastsIInv, skipped = {}, \A p \in Servers : Quiet(p),
                    NEW s \in Sockets, socket[s].is = "in"
             PROVE  socket[s].shows = version
  BY DEF BroadcastsIInv, BroadcastsInv, QuietRoomIsCurrent
<1>1. \A p \in Servers : ~Owes(server[p], p, s)
  BY DEF Owes, Quiet, Idle
<1> QED
  BY <1>1 DEF BroadcastsIInv, BehindIsOwed

\* Broadcast owes the room to every socket in it, and drops nothing that was owed.
LEMMA BroadcastOwes ==
  ASSUME BroadcastsTypeOK, NEW p \in Servers, NEW sv \in ServerState
  PROVE  /\ Broadcast(p, sv) \in ServerState
         /\ Broadcast(p, sv).open = sv.open
         /\ Broadcast(p, sv).flight.read \in {0, sv.flight.read}
         /\ \A s \in InRoom : Owes(Broadcast(p, sv), p, s)
<1>1. Begun(p) \in Flight /\ Begun(p) # Idle
  <2>1. Begun(p).stage = "begun" /\ Idle.stage = "none"
    BY DEF Begun, Idle
  <2>2. Begun(p) \in Flight
    BY BroadcastsAssumption DEF Begun, Flight, InRoom
  <2> QED
    BY <2>1, <2>2
<1>2. CASE sv.flight # Idle
  BY <1>2 DEF Broadcast, ServerState, Owes
<1>3. CASE sv.flight = Idle
  BY <1>1, <1>3 DEF Broadcast, ServerState, Owes, Begun
<1> QED
  BY <1>2, <1>3

\* So does scheduleBroadcast, on a process that is open.
LEMMA ScheduledOwes ==
  ASSUME BroadcastsTypeOK, NEW p \in Servers, NEW immediate \in BOOLEAN
  PROVE  /\ Scheduled(p, immediate) \in ServerState
         /\ Scheduled(p, immediate).open = server[p].open
         /\ Scheduled(p, immediate).flight.read \in {0, server[p].flight.read}
         /\ server[p].open => \A s \in InRoom : Owes(Scheduled(p, immediate), p, s)
<1> DEFINE sv == IF immediate THEN [server[p] EXCEPT !.timer = FALSE] ELSE server[p]
<1>1. server[p] \in ServerState /\ sv \in ServerState /\ sv.open = server[p].open
      /\ sv.flight = server[p].flight
  BY DEF BroadcastsTypeOK, ServerState, Flight
<1>2. CASE ~server[p].open
  BY <1>1, <1>2 DEF Scheduled
<1>3. CASE server[p].open /\ (immediate \/ ~sv.recent)
  <2> DEFINE noted == [sv EXCEPT !.recent = TRUE]
  <2>1. noted \in ServerState /\ noted.open = server[p].open
        /\ noted.flight.read = server[p].flight.read
    BY <1>1 DEF ServerState
  <2>2. Scheduled(p, immediate) = Broadcast(p, noted)
    BY <1>1, <1>3 DEF Scheduled
  <2> HIDE DEF noted
  <2> QED
    BY <2>1, <2>2, BroadcastOwes
<1>4. CASE server[p].open /\ ~(immediate \/ ~sv.recent)
  <2>1. Scheduled(p, immediate) = [sv EXCEPT !.timer = TRUE]
    BY <1>4 DEF Scheduled
  <2> QED
    BY <1>1, <2>1 DEF ServerState, Owes
<1> QED
  BY <1>2, <1>3, <1>4

SocketState == [is : {"out", "binding", "joined", "in"}, shows : 0..MaxChanges]

\* A step of one process, and perhaps of sockets, that does not change the room.
LEMMA ServerStepInv ==
  ASSUME BroadcastsIInv, NEW p \in Servers, NEW next \in ServerState,
         server' = [server EXCEPT ![p] = next], UNCHANGED version,
         mishaps' \in 0..MaxMishaps, skipped' \subseteq Servers,
         \A q \in skipped \ {p} : q \in skipped', ~next.open => p \in skipped',
         next.flight.read <= version,
         socket' \in [Sockets -> SocketState], \A s \in Sockets : socket'[s].shows <= version,
         \A s \in Sockets : socket'[s].is = "in" /\ Home[s] # p => socket[s].is = "in",
         next.open /\ next.flight.stage = "begun" =>
             \A s \in Sockets : socket'[s].is = "in" /\ Home[s] = p => Owes(next, p, s),
         skipped' = {} => \A s \in Sockets : socket'[s].is = "in" /\ socket'[s].shows # version =>
             \/ Owes(next, p, s)
             \/ /\ skipped = {} /\ ~Owes(server[p], p, s)
                /\ socket[s].is = "in" /\ socket[s].shows # version
  PROVE  BroadcastsIInv'
<1> USE DEF BroadcastsIInv
<1>1. \A q \in Servers : server'[q] = IF q = p THEN next ELSE server[q]
  BY DEF BroadcastsTypeOK
<1>2. BroadcastsTypeOK'
  BY DEF BroadcastsTypeOK, ServerState, Flight, SocketState
<1>3. ClosedIsSkipped' /\ NothingAhead'
  BY <1>1 DEF ClosedIsSkipped, NothingAhead
<1>4. \A sv, q, s : Owes(sv, q, s)' <=> Owes(sv, q, s)
  BY DEF Owes
<1>5. ASSUME NEW q \in Servers
      PROVE  OwnSocketsOwed(server[q], q)'
  <2>1. CASE q = p
    BY <1>1, <1>4, <2>1 DEF OwnSocketsOwed, Owes
  <2>2. CASE q # p
    BY <1>1, <1>4, <2>2 DEF OwnSocketsOwed, Owes
  <2> QED
    BY <2>1, <2>2
<1>6. BehindIsOwed'
  <2> SUFFICES ASSUME skipped' = {}, NEW s \in Sockets,
                      socket'[s].is = "in", socket'[s].shows # version
               PROVE  \E q \in Servers : Owes(server'[q], q, s)
    BY DEF BehindIsOwed, Owes
  <2>1. CASE Owes(next, p, s)
    BY <1>1, <2>1
  <2>2. CASE ~Owes(next, p, s)
    <3>1. PICK q \in Servers : Owes(server[q], q, s)
      BY <2>2 DEF BehindIsOwed
    <3>2. q # p
      BY <2>2, <3>1
    <3> QED
      BY <1>1, <3>1, <3>2
  <2> QED
    BY <2>1, <2>2
<1> QED
  BY <1>2, <1>3, <1>5, <1>6

LEMMA ServerTyped ==
  ASSUME BroadcastsIInv
  PROVE  /\ \A p \in Servers : server[p] \in ServerState /\ server[p].flight.read <= version
         /\ socket \in [Sockets -> SocketState] /\ version \in 0..MaxChanges
         /\ mishaps \in 0..MaxMishaps /\ skipped \subseteq Servers
         /\ \A s \in Sockets : Home[s] \in Servers /\ socket[s].shows <= version
BY BroadcastsAssumption
   DEF BroadcastsIInv, BroadcastsTypeOK, NothingAhead, ServerState, Flight, SocketState

\* A reader of the room, before it is in it.
LEMMA SyncInv ==
  ASSUME BroadcastsIInv, NEW s \in Sockets, Sync(s) \/ Bind(s)
  PROVE  BroadcastsIInv'
<1> DEFINE p == Home[s]
<1>1. p \in Servers /\ server[p] \in ServerState /\ server[p].flight.read <= version
  BY ServerTyped
<1>2. server' = [server EXCEPT ![p] = server[p]] /\ UNCHANGED << version, skipped, mishaps >>
  BY DEF Sync, Bind, BroadcastsIInv, BroadcastsTypeOK
<1>3. /\ socket' \in [Sockets -> SocketState] /\ \A r \in Sockets : socket'[r].shows <= version
      /\ \A r \in Sockets : socket'[r].is = "in" => socket'[r] = socket[r]
  BY ServerTyped DEF Sync, Bind, SocketState
<1>4. ~server[p].open => p \in skipped
  BY <1>1 DEF BroadcastsIInv, ClosedIsSkipped
<1>5. server[p].open /\ server[p].flight.stage = "begun" =>
          \A r \in Sockets : socket'[r].is = "in" /\ Home[r] = p => Owes(server[p], p, r)
  BY <1>1, <1>3 DEF BroadcastsIInv, OwnSocketsOwed
<1> HIDE DEF p
<1> QED
  BY <1>1, <1>2, <1>3, <1>4, <1>5, ServerTyped, ServerStepInv

\* Scheduling a broadcast drops nothing that the process owes a socket in the room.
LEMMA ScheduleKeeps ==
  ASSUME BroadcastsIInv, NEW p \in Servers
  PROVE  /\ \A s \in Sockets : Owes(server[p], p, s) => Owes(Scheduled(p, FALSE), p, s)
         /\ Scheduled(p, FALSE).open /\ Scheduled(p, FALSE).flight.stage = "begun" =>
                \A s \in Sockets : socket[s].is \in {"joined", "in"} /\ Home[s] = p
                    => Owes(Scheduled(p, FALSE), p, s)
<1> USE DEF BroadcastsIInv
<1>1. server[p] \in ServerState /\ server[p].flight \in Flight
  BY ServerTyped DEF ServerState
<1>2. CASE ~server[p].open
  BY <1>1, <1>2 DEF Scheduled, OwnSocketsOwed
<1>3. CASE server[p].open
  <2>1. \A s \in InRoom : Owes(Scheduled(p, FALSE), p, s)
    BY <1>3, ScheduledOwes
  <2>2. ASSUME NEW s \in Sockets, Owes(server[p], p, s)
        PROVE  Owes(Scheduled(p, FALSE), p, s)
    <3>1. CASE server[p].recent
      BY <1>1, <1>3, <2>2, <3>1 DEF Scheduled, Owes, ServerState
    <3>2. CASE ~server[p].recent /\ server[p].flight # Idle
      BY <1>1, <1>3, <2>2, <3>2 DEF Scheduled, Broadcast, Owes, ServerState
    <3>3. CASE ~server[p].recent /\ server[p].flight = Idle
      <4>1. server[p].timer
        BY <2>2, <3>3 DEF Owes, Idle
      <4> QED
        BY <1>1, <1>3, <3>3, <4>1 DEF Scheduled, Broadcast, Owes, ServerState
    <3> QED
      BY <3>1, <3>2, <3>3
  <2> QED
    BY <2>1, <2>2 DEF InRoom
<1> QED
  BY <1>2, <1>3

LEMMA AcknowledgeInv ==
  ASSUME BroadcastsIInv, NEW s \in Sockets, Acknowledge(s) \/ Leave(s)
  PROVE  BroadcastsIInv'
<1> DEFINE p == Home[s]
           next == Scheduled(p, FALSE)
<1> USE DEF BroadcastsIInv
<1>1. p \in Servers /\ server[p].flight.read <= version /\ 0 <= version
  BY ServerTyped
<1>2. next \in ServerState /\ next.open = server[p].open /\ next.flight.read <= version
  BY <1>1, ScheduledOwes
<1>3. server' = [server EXCEPT ![p] = next] /\ UNCHANGED << version, skipped >>
  BY DEF Acknowledge, Leave
<1>4. mishaps' \in 0..MaxMishaps
  <2>1. mishaps \in 0..MaxMishaps /\ MaxMishaps \in Nat
    BY BroadcastsAssumption DEF BroadcastsTypeOK
  <2>2. mishaps' = mishaps \/ (mishaps < MaxMishaps /\ mishaps' = mishaps + 1)
    BY DEF Acknowledge, Leave
  <2> QED
    BY <2>1, <2>2
<1>5. /\ socket' \in [Sockets -> SocketState] /\ \A r \in Sockets : socket'[r].shows <= version
      /\ \A r \in Sockets : socket'[r].is = "in" =>
             \/ socket'[r] = socket[r]
             \/ r = s /\ Acknowledge(s) /\ socket[s].is = "joined"
  <2>1. socket \in [Sockets -> SocketState] /\ \A r \in Sockets : socket[r].shows <= version
    BY ServerTyped
  <2>2. PICK now \in {"in", "out"} :
            /\ socket' = [socket EXCEPT ![s].is = now]
            /\ now = "in" => Acknowledge(s) /\ socket[s].is = "joined"
    BY DEF Acknowledge, Leave
  <2>3. \A r \in Sockets : socket'[r] = IF r = s THEN [socket[s] EXCEPT !.is = now] ELSE socket[r]
    BY <2>1, <2>2
  <2>4. [socket[s] EXCEPT !.is = now] \in SocketState
        /\ [socket[s] EXCEPT !.is = now].is = now
        /\ [socket[s] EXCEPT !.is = now].shows = socket[s].shows
    BY <2>1 DEF SocketState
  <2>5. socket' \in [Sockets -> SocketState]
    BY <2>1, <2>2, <2>4
  <2> QED
    BY <2>1, <2>2, <2>3, <2>4, <2>5
<1>6. ~next.open => p \in skipped
  BY <1>1, <1>2 DEF ClosedIsSkipped
<1>7. next.open /\ next.flight.stage = "begun" =>
          \A r \in Sockets : socket'[r].is = "in" /\ Home[r] = p => Owes(next, p, r)
  BY <1>1, <1>5, ScheduleKeeps
<1>8. \A r \in Sockets : Owes(server[p], p, r) => Owes(next, p, r)
  BY <1>1, ScheduleKeeps
<1>9. socket[s].is = "joined" /\ skipped = {} => Owes(next, p, s)
  BY <1>1, ScheduledOwes DEF ClosedIsSkipped, InRoom
<1> HIDE DEF p, next
<1>10. skipped' = {} => \A r \in Sockets : socket'[r].is = "in" /\ socket'[r].shows # version =>
          \/ Owes(next, p, r)
          \/ /\ skipped = {} /\ ~Owes(server[p], p, r)
             /\ socket[r].is = "in" /\ socket[r].shows # version
  BY <1>3, <1>5, <1>8, <1>9
<1>11. \A r \in Sockets : socket'[r].is = "in" /\ Home[r] # p => socket[r].is = "in"
  BY <1>5 DEF p
<1> QED
  BY <1>1, <1>2, <1>3, <1>5, <1>6, <1>7, <1>10, <1>11, <1>4, ServerTyped, ServerStepInv

\* A step of a broadcast in flight that has been asked for again keeps what it owes, or sends it.
LEMMA NextOwes ==
  ASSUME BroadcastsIInv, NEW p \in Servers, NEW sv \in ServerState
  PROVE  /\ NextBroadcast(p, sv) \in ServerState
         /\ NextBroadcast(p, sv).open = sv.open /\ NextBroadcast(p, sv).timer = sv.timer
         /\ NextBroadcast(p, sv).flight.read = 0
         /\ NextBroadcast(p, sv).flight.stage = "begun" =>
                \A s \in InRoom : Owes(NextBroadcast(p, sv), p, s)
         /\ sv.queued /\ sv.open => \A s \in InRoom : Owes(NextBroadcast(p, sv), p, s)
<1>1. Begun(p) \in Flight /\ Idle \in Flight
  <2>1. 0 \in 0..MaxChanges
    BY BroadcastsAssumption
  <2> QED
    BY <2>1 DEF Begun, Flight, Idle, InRoom
<1>2. CASE sv.queued /\ sv.open
  BY <1>1, <1>2 DEF NextBroadcast, ServerState, Begun, Owes, InRoom
<1>3. CASE ~(sv.queued /\ sv.open)
  BY <1>1, <1>3 DEF NextBroadcast, ServerState, Idle
<1> QED
  BY <1>2, <1>3

\* A step of one process that leaves the sockets alone.
LEMMA OwnStepInvB ==
  ASSUME BroadcastsIInv, NEW p \in Servers, NEW next \in ServerState,
         server' = [server EXCEPT ![p] = next], UNCHANGED << version, socket >>,
         mishaps' \in 0..MaxMishaps, skipped' \subseteq Servers,
         \A q \in skipped \ {p} : q \in skipped', ~next.open => p \in skipped',
         next.flight.read <= version,
         next.open /\ next.flight.stage = "begun" =>
             \A s \in Sockets : socket[s].is = "in" /\ Home[s] = p => Owes(next, p, s),
         skipped' = {} => \A s \in Sockets : socket[s].is = "in" =>
             \/ Owes(next, p, s)
             \/ skipped = {} /\ ~Owes(server[p], p, s)
  PROVE  BroadcastsIInv'
BY ServerTyped, ServerStepInv

LEMMA TimersInv ==
  ASSUME BroadcastsIInv, NEW p \in Servers, IntervalPasses(p) \/ TimerFires(p)
  PROVE  BroadcastsIInv'
<1> USE DEF BroadcastsIInv
<1>1. server[p] \in ServerState /\ server[p].flight.read <= version /\ 0 <= version
      /\ mishaps \in 0..MaxMishaps /\ skipped \subseteq Servers
      /\ (~server[p].open => p \in skipped)
  BY ServerTyped DEF ClosedIsSkipped
<1>2. CASE IntervalPasses(p)
  <2> DEFINE next == [server[p] EXCEPT !.recent = FALSE]
  <2>1. next \in ServerState /\ next.open = server[p].open /\ next.timer = server[p].timer
        /\ next.queued = server[p].queued /\ next.flight = server[p].flight
    BY <1>1 DEF ServerState
  <2>2. server' = [server EXCEPT ![p] = next]
        /\ UNCHANGED << version, socket, skipped, mishaps >>
    BY <1>2 DEF IntervalPasses
  <2>3. \A s \in Sockets : Owes(next, p, s) <=> Owes(server[p], p, s)
    BY <2>1 DEF Owes
  <2>4. next.open /\ next.flight.stage = "begun" =>
             \A s \in Sockets : socket[s].is = "in" /\ Home[s] = p => Owes(next, p, s)
    BY <2>1, <2>3 DEF OwnSocketsOwed
  <2> HIDE DEF next
  <2> QED
    BY <1>1, <2>1, <2>2, <2>3, <2>4, OwnStepInvB
<1>3. CASE TimerFires(p)
  <2> DEFINE fired == [server[p] EXCEPT !.timer = FALSE, !.recent = TRUE]
             next == Broadcast(p, fired)
  <2>1. fired \in ServerState /\ fired.open = server[p].open /\ fired.flight = server[p].flight
    BY <1>1 DEF ServerState
  <2>2. server' = [server EXCEPT ![p] = next]
        /\ UNCHANGED << version, socket, skipped, mishaps >>
    BY <1>1, <1>3 DEF TimerFires, ServerState
  <2> HIDE DEF fired
  <2>3. /\ next \in ServerState /\ next.open = server[p].open /\ next.flight.read <= version
        /\ \A s \in InRoom : Owes(next, p, s)
    BY <1>1, <2>1, BroadcastOwes
  <2>4. \A s \in Sockets : socket[s].is = "in" => Owes(next, p, s)
    BY <2>3 DEF InRoom
  <2> HIDE DEF next
  <2> QED
    BY <1>1, <2>2, <2>3, <2>4, OwnStepInvB
<1> QED
  BY <1>2, <1>3

\* The broadcast in flight asks for the other processes' sockets, and reads the room.
LEMMA FlightInv ==
  ASSUME BroadcastsIInv, NEW p \in Servers, Fetch(p) \/ Read(p)
  PROVE  BroadcastsIInv'
<1> USE DEF BroadcastsIInv
<1>1. server[p] \in ServerState /\ server[p].flight \in Flight
      /\ server[p].flight.read <= version /\ version \in 0..MaxChanges
      /\ mishaps \in 0..MaxMishaps /\ skipped \subseteq Servers
      /\ (~server[p].open => p \in skipped)
  BY ServerTyped DEF ClosedIsSkipped, ServerState
<1>2. CASE Fetch(p)
  <2> DEFINE flight == [server[p].flight EXCEPT
                          !.stage = "fetched", !.to = @ \cup {s \in InRoom : Home[s] # p}]
             next == [server[p] EXCEPT !.flight = flight]
  <2>1. flight \in Flight /\ flight.stage = "fetched" /\ flight.read = server[p].flight.read
        /\ flight.to = server[p].flight.to \cup {s \in InRoom : Home[s] # p}
    BY <1>1 DEF Flight, InRoom
  <2>2. server' = [server EXCEPT ![p] = next]
    BY <1>1, <1>2 DEF Fetch, BroadcastsTypeOK
  <2>3. server[p].flight.stage = "begun" /\ server[p].flight # Idle
    BY <1>2 DEF Fetch, Idle
  <2> HIDE DEF flight
  <2>4. next \in ServerState /\ next.open = server[p].open /\ next.timer = server[p].timer
        /\ next.queued = server[p].queued /\ next.flight = flight
    BY <1>1, <2>1 DEF ServerState
  <2> HIDE DEF next
  <2>5. flight # Idle
    BY <2>1 DEF Idle
  <2>6. ASSUME server[p].open, NEW s \in Sockets, socket[s].is = "in"
        PROVE  Owes(next, p, s)
    <3>1. CASE Home[s] = p
      <4>1. Owes(server[p], p, s)
        BY <2>3, <2>6, <3>1 DEF OwnSocketsOwed
      <4> QED
        BY <2>1, <2>3, <2>4, <2>5, <3>1, <4>1 DEF Owes
    <3>2. CASE Home[s] # p
      BY <2>1, <2>4, <2>6, <3>2 DEF Owes, InRoom
    <3> QED
      BY <3>1, <3>2
  <2>7. skipped' \subseteq Servers /\ (\A q \in skipped \ {p} : q \in skipped')
        /\ (~server[p].open => p \in skipped')
        /\ UNCHANGED << version, socket, mishaps >>
    BY <1>1, <1>2 DEF Fetch
  <2> QED
    BY <1>1, <2>1, <2>2, <2>4, <2>6, <2>7, OwnStepInvB
<1>3. CASE Read(p)
  <2> DEFINE flight == [server[p].flight EXCEPT !.stage = "read", !.read = version]
             next == [server[p] EXCEPT !.flight = flight]
  <2>1. flight \in Flight /\ flight.stage = "read" /\ flight.read = version
        /\ flight.to = server[p].flight.to
    BY <1>1 DEF Flight
  <2>2. server' = [server EXCEPT ![p] = next] /\ server[p].flight.stage = "fetched"
        /\ UNCHANGED << version, socket, skipped, mishaps >>
    BY <1>1, <1>3 DEF Read, BroadcastsTypeOK
  <2> HIDE DEF flight
  <2>3. next \in ServerState /\ next.open = server[p].open /\ next.timer = server[p].timer
        /\ next.queued = server[p].queued /\ next.flight = flight
    BY <1>1, <2>1 DEF ServerState
  <2> HIDE DEF next
  <2>4. flight # Idle
    BY <2>1 DEF Idle
  <2>5. \A s \in Sockets : Owes(server[p], p, s) => Owes(next, p, s)
    BY <2>1, <2>2, <2>3, <2>4 DEF Owes
  <2>6. next.flight.read <= version /\ next.flight.stage # "begun"
    BY <1>1, <2>1, <2>3
  <2>7. skipped' = skipped /\ mishaps' \in 0..MaxMishaps /\ UNCHANGED << version, socket >>
        /\ (~next.open => p \in skipped')
    BY <1>1, <2>2, <2>3
  <2> HIDE DEF BroadcastsIInv
  <2> QED
    BY <1>1, <2>2, <2>3, <2>5, <2>6, <2>7, OwnStepInvB
<1> QED
  BY <1>2, <1>3

LEMMA EmitInv ==
  ASSUME BroadcastsIInv, NEW p \in Servers, Emit(p)
  PROVE  BroadcastsIInv'
<1> DEFINE f == server[p].flight
           next == NextBroadcast(p, server[p])
<1>1. server[p] \in ServerState /\ f \in Flight /\ f.read <= version /\ version \in 0..MaxChanges
      /\ mishaps \in 0..MaxMishaps /\ skipped \subseteq Servers /\ f.stage = "read"
  BY ServerTyped DEF ServerState, Emit
<1>2. /\ next \in ServerState /\ next.open = server[p].open /\ next.timer = server[p].timer
      /\ next.flight.read = 0
      /\ next.flight.stage = "begun" => \A s \in InRoom : Owes(next, p, s)
      /\ server[p].queued /\ server[p].open => \A s \in InRoom : Owes(next, p, s)
  BY <1>1, NextOwes
<1>3. server' = [server EXCEPT ![p] = next] /\ UNCHANGED << version, skipped, mishaps >>
  BY DEF Emit
<1>4. \A s \in Sockets :
         socket'[s] = IF s \in f.to \cap InRoom /\ f.read > socket[s].shows
                      THEN [socket[s] EXCEPT !.shows = f.read] ELSE socket[s]
  BY DEF Emit
<1>5. /\ \A s \in Sockets : socket[s] \in SocketState /\ socket[s].shows <= version
      /\ f.read \in 0..MaxChanges
  BY <1>1, ServerTyped DEF Flight
<1>6. \A s \in Sockets : /\ socket'[s] \in SocketState /\ socket'[s].is = socket[s].is
                         /\ socket'[s].shows <= version
                         /\ socket'[s].shows \in {socket[s].shows, f.read}
                         /\ s \in f.to \cap InRoom /\ f.read = version =>
                                socket'[s].shows = version
  <2> SUFFICES ASSUME NEW s \in Sockets
               PROVE  /\ socket'[s] \in SocketState /\ socket'[s].is = socket[s].is
                      /\ socket'[s].shows <= version
                      /\ socket'[s].shows \in {socket[s].shows, f.read}
                      /\ s \in f.to \cap InRoom /\ f.read = version =>
                             socket'[s].shows = version
    OBVIOUS
  <2>1. socket[s] \in SocketState /\ socket[s].shows <= version /\ socket[s].shows \in Nat
    BY <1>5 DEF SocketState
  <2>2. /\ [socket[s] EXCEPT !.shows = f.read] \in SocketState
        /\ [socket[s] EXCEPT !.shows = f.read].is = socket[s].is
        /\ [socket[s] EXCEPT !.shows = f.read].shows = f.read
    BY <1>5, <2>1 DEF SocketState
  <2> HIDE DEF f
  <2>3. CASE s \in f.to \cap InRoom /\ f.read > socket[s].shows
    BY <1>1, <1>4, <2>2, <2>3
  <2>4. CASE ~(s \in f.to \cap InRoom /\ f.read > socket[s].shows)
    <3>1. socket'[s] = socket[s]
      BY <1>4, <2>4
    <3>2. s \in f.to \cap InRoom /\ f.read = version => socket[s].shows = version
      BY <1>1, <2>1, <2>4
    <3> QED
      BY <2>1, <3>1, <3>2
  <2> QED
    BY <2>3, <2>4
<1>7. socket' \in [Sockets -> SocketState]
  BY <1>6 DEF Emit
<1>8. ~server[p].open => p \in skipped
  BY DEF BroadcastsIInv, ClosedIsSkipped
<1>9. ASSUME skipped' = {}, NEW s \in Sockets, socket'[s].is = "in", socket'[s].shows # version
      PROVE  \/ Owes(next, p, s)
             \/ /\ skipped = {} /\ ~Owes(server[p], p, s)
                /\ socket[s].is = "in" /\ socket[s].shows # version
  <2>1. s \in InRoom /\ server[p].open /\ skipped = {} /\ socket[s].is = "in"
    BY <1>3, <1>6, <1>8, <1>9 DEF InRoom
  <2>2. ~(s \in f.to /\ f.read = version)
    BY <1>6, <1>9, <2>1
  <2>3. socket[s].shows # version
    <3>1. ~(f.read > version) /\ socket'[s].shows # version
      BY <1>1, <1>5, <1>9
    <3>2. f.read > socket[s].shows \/ socket'[s] = socket[s]
      BY <1>4
    <3> HIDE DEF f
    <3> QED
      BY <3>1, <3>2
  <2>4. Owes(server[p], p, s) => server[p].timer \/ server[p].queued
    BY <1>1, <2>2 DEF Owes
  <2>5. server[p].timer => Owes(next, p, s)
    BY <1>2 DEF Owes
  <2> QED
    BY <1>2, <2>1, <2>3, <2>4, <2>5
<1>10. next.open /\ next.flight.stage = "begun" =>
           \A s \in Sockets : socket'[s].is = "in" /\ Home[s] = p => Owes(next, p, s)
  BY <1>2, <1>6 DEF InRoom
<1>11. next.flight.read <= version
  BY <1>1, <1>2
<1> HIDE DEF f, next
<1> QED
  BY <1>1, <1>2, <1>3, <1>6, <1>7, <1>8, <1>9, <1>10, <1>11, ServerStepInv

\* A broadcast that ends without being sent: another follows, or the process counts as skipped.
LEMMA FlightEnds ==
  ASSUME BroadcastsIInv, NEW p \in Servers, NEW sv \in ServerState, sv.open = server[p].open,
         server' = [server EXCEPT ![p] = NextBroadcast(p, sv)],
         UNCHANGED << version, socket >>, mishaps' \in 0..MaxMishaps,
         skipped' = skipped \/ skipped' = skipped \cup {p},
         skipped' = {} => \A s \in Sockets : socket[s].is = "in" =>
             \/ sv.timer \/ (sv.queued /\ sv.open) \/ ~Owes(server[p], p, s)
  PROVE  BroadcastsIInv'
<1> DEFINE next == NextBroadcast(p, sv)
<1>1. /\ next \in ServerState /\ next.open = server[p].open /\ next.timer = sv.timer
      /\ next.flight.read = 0
      /\ next.flight.stage = "begun" => \A s \in InRoom : Owes(next, p, s)
      /\ sv.queued /\ sv.open => \A s \in InRoom : Owes(next, p, s)
  BY NextOwes
<1>2. (~server[p].open => p \in skipped) /\ skipped \subseteq Servers /\ 0 <= version
  BY ServerTyped DEF BroadcastsIInv, ClosedIsSkipped
<1>3. sv.timer => \A s \in Sockets : Owes(next, p, s)
  BY <1>1 DEF Owes
<1>4. next.open /\ next.flight.stage = "begun" =>
          \A s \in Sockets : socket[s].is = "in" /\ Home[s] = p => Owes(next, p, s)
  BY <1>1 DEF InRoom
<1>5. skipped' = {} => \A s \in Sockets : socket[s].is = "in" =>
          \/ Owes(next, p, s)
          \/ skipped = {} /\ ~Owes(server[p], p, s)
  BY <1>1, <1>3 DEF InRoom
<1>6. next.flight.read <= version
  BY <1>1, <1>2
<1> HIDE DEF next
<1> QED
  BY <1>1, <1>2, <1>4, <1>5, <1>6, OwnStepInvB DEF next

LEMMA FlightEndsInv ==
  ASSUME BroadcastsIInv, NEW p \in Servers, NobodyThere(p) \/ Inconsistent(p) \/ BroadcastFails(p)
  PROVE  BroadcastsIInv'
<1>1. server[p] \in ServerState /\ mishaps \in 0..MaxMishaps /\ MaxMishaps \in Nat
      /\ server \in [Servers -> ServerState]
  BY ServerTyped, BroadcastsAssumption
     DEF BroadcastsIInv, BroadcastsTypeOK, ServerState, Flight
<1>2. CASE NobodyThere(p)
  <2> DEFINE sv == Cleared(server[p])
  <2>1. sv \in ServerState /\ sv.open = server[p].open
    BY <1>1 DEF Cleared, ServerState
  <2>2. server' = [server EXCEPT ![p] = NextBroadcast(p, sv)]
        /\ UNCHANGED << version, socket, mishaps >>
        /\ (skipped' = skipped \/ skipped' = skipped \cup {p})
    BY <1>1, <1>2 DEF NobodyThere
  <2>3. skipped' = {} => \A s \in Sockets : ~Owes(server[p], p, s)
    BY <1>2 DEF NobodyThere, Owes
  <2> HIDE DEF sv
  <2> QED
    BY <1>1, <2>1, <2>2, <2>3, FlightEnds
<1>3. CASE Inconsistent(p)
  <2> DEFINE sv == [server[p] EXCEPT !.timer = server[p].open]
  <2>1. sv \in ServerState /\ sv.open = server[p].open /\ sv.timer = server[p].open
    BY <1>1 DEF ServerState
  <2>2. server' = [server EXCEPT ![p] = NextBroadcast(p, sv)]
        /\ UNCHANGED << version, socket, skipped >>
    BY <1>1, <1>3 DEF Inconsistent
  <2>3. mishaps' \in 0..MaxMishaps
    BY <1>1, <1>3 DEF Inconsistent
  <2>4. skipped = {} => sv.timer
    BY <2>1 DEF BroadcastsIInv, ClosedIsSkipped
  <2> HIDE DEF sv
  <2> QED
    BY <2>1, <2>2, <2>3, <2>4, FlightEnds
<1>4. CASE BroadcastFails(p)
  <2>1. server' = [server EXCEPT ![p] = NextBroadcast(p, server[p])]
        /\ UNCHANGED << version, socket >> /\ skipped' = skipped \cup {p}
    BY <1>1, <1>4 DEF BroadcastFails
  <2>2. mishaps' \in 0..MaxMishaps
    BY <1>1, <1>4 DEF BroadcastFails
  <2> QED
    BY <1>1, <2>1, <2>2, FlightEnds
<1> QED
  BY <1>2, <1>3, <1>4

LEMMA CloseInv ==
  ASSUME BroadcastsIInv, NEW p \in Servers, Close(p)
  PROVE  BroadcastsIInv'
<1> DEFINE next == [Cleared(server[p]) EXCEPT !.open = FALSE]
<1>1. server[p] \in ServerState /\ mishaps \in 0..MaxMishaps /\ MaxMishaps \in Nat
      /\ server[p].flight.read <= version /\ skipped \subseteq Servers
  BY ServerTyped, BroadcastsAssumption
<1>2. next \in ServerState /\ ~next.open /\ next.flight = server[p].flight
  BY <1>1 DEF Cleared, ServerState
<1>3. server' = [server EXCEPT ![p] = next] /\ version' = version
      /\ skipped' = skipped \cup {p}
  BY <1>1 DEF Close
<1>4. mishaps' \in 0..MaxMishaps
  BY <1>1 DEF Close
<1>5. \A s \in Sockets : /\ socket[s] \in SocketState /\ socket[s].shows <= version
                         /\ socket'[s] = IF Home[s] = p THEN [socket[s] EXCEPT !.is = "out"]
                                         ELSE socket[s]
  BY ServerTyped DEF Close
<1>6. /\ socket' \in [Sockets -> SocketState] /\ \A s \in Sockets : socket'[s].shows <= version
      /\ \A s \in Sockets : socket'[s].is = "in" => socket[s].is = "in"
  <2>1. \A s \in Sockets : /\ socket'[s] \in SocketState /\ socket'[s].shows = socket[s].shows
                           /\ socket'[s].is = "in" => socket[s].is = "in"
    BY <1>5 DEF SocketState
  <2>2. socket' \in [Sockets -> SocketState]
    BY <2>1 DEF Close
  <2> QED
    BY <1>5, <2>1, <2>2
<1> HIDE DEF next
<1> QED
  BY <1>1, <1>2, <1>3, <1>4, <1>6, ServerStepInv

\* The process that changed the room owes the change to every socket in it.
LEMMA ChangeInv ==
  ASSUME BroadcastsIInv, NEW p \in Servers, NEW immediate \in BOOLEAN, Change(p, immediate)
  PROVE  BroadcastsIInv'
<1> DEFINE next == Scheduled(p, immediate)
<1> USE DEF BroadcastsIInv
<1>1. /\ server[p] \in ServerState /\ version \in 0..MaxChanges /\ version' = version + 1
      /\ version' \in 0..MaxChanges /\ MaxChanges \in Nat
      /\ server[p].flight.read <= version /\ server[p].open
      /\ UNCHANGED << socket, skipped, mishaps >>
  BY ServerTyped, BroadcastsAssumption DEF Change
<1>2. /\ next \in ServerState /\ next.open /\ next.flight.read \in {0, server[p].flight.read}
      /\ \A s \in InRoom : Owes(next, p, s)
  BY <1>1, ScheduledOwes
<1>3. \A q \in Servers : server'[q] = IF q = p THEN next ELSE server[q]
  BY DEF Change, BroadcastsTypeOK
<1>4. server' \in [Servers -> ServerState]
  BY <1>2 DEF Change, BroadcastsTypeOK, ServerState, Flight
<1>5. BroadcastsTypeOK' /\ ClosedIsSkipped'
  BY <1>1, <1>2, <1>3, <1>4 DEF BroadcastsTypeOK, ClosedIsSkipped, ServerState, Flight
<1>6. NothingAhead'
  <2>1. \A s \in Sockets : socket[s].shows \in Nat /\ socket[s].shows <= version
    BY ServerTyped DEF SocketState
  <2>2. \A q \in Servers : server[q].flight.read \in Nat /\ server[q].flight.read <= version
    BY ServerTyped DEF ServerState, Flight
  <2> QED
    BY <1>1, <1>2, <1>3, <2>1, <2>2 DEF NothingAhead
<1>7. ASSUME NEW sv, NEW q, NEW s, Owes(sv, q, s), sv.flight.stage # "read" \/ sv.flight.read = version'
      PROVE  Owes(sv, q, s)'
  BY <1>7 DEF Owes
<1>8. \A s \in InRoom : Owes(server[p], p, s)'
  <2> SUFFICES ASSUME NEW s \in InRoom PROVE Owes(server[p], p, s)'
    OBVIOUS
  <2>1. next.timer \/ (next.flight # Idle /\ next.queued)
        \/ (next.flight.stage = "begun" /\ (s \in next.flight.to \/ Home[s] # p))
    BY <1>1 DEF Scheduled, Broadcast, Begun, ServerState, InRoom
  <2> QED
    BY <1>3, <2>1 DEF Owes
<1>9. ASSUME NEW q \in Servers
      PROVE  OwnSocketsOwed(server[q], q)'
  <2>1. CASE q = p
    BY <1>1, <1>8, <2>1 DEF OwnSocketsOwed, InRoom
  <2>2. CASE q # p
    <3>1. OwnSocketsOwed(server[q], q)
      BY DEF OwnSocketsOwed
    <3> QED
      BY <1>1, <1>3, <2>2, <3>1 DEF OwnSocketsOwed, Owes
  <2> QED
    BY <2>1, <2>2
<1>10. BehindIsOwed'
  BY <1>1, <1>8 DEF BehindIsOwed, InRoom
<1> QED
  BY <1>5, <1>6, <1>9, <1>10

LEMMA BroadcastsNextInv ==
  ASSUME BroadcastsIInv, [BroadcastsNext]_broadcastVars
  PROVE  BroadcastsIInv'
<1>1. CASE UNCHANGED broadcastVars
  BY <1>1 DEF broadcastVars, BroadcastsIInv, BroadcastsTypeOK, ClosedIsSkipped, NothingAhead,
     BehindIsOwed, OwnSocketsOwed, Owes
<1>2. CASE BroadcastsNext
  BY <1>2, TimersInv, FlightInv, EmitInv, FlightEndsInv, CloseInv, ChangeInv, SyncInv,
     AcknowledgeInv DEF BroadcastsNext, Steps
<1> QED
  BY <1>1, <1>2

\* Coalescing loses nothing: once no process has a broadcast in flight or due, every socket in
\* the room shows its latest change, unless a broadcast failed or was dropped
\* (scheduleBroadcast, broadcastSession, clearRoomBroadcasts).
THEOREM BroadcastsInvariant == BroadcastsSpec => []BroadcastsInv
<1>1. BroadcastsInit => BroadcastsIInv
  BY BroadcastsInitInv
<1>2. BroadcastsIInv /\ [BroadcastsNext]_broadcastVars => BroadcastsIInv'
  BY BroadcastsNextInv
<1> QED
  BY <1>1, <1>2, BroadcastsSafe, PTL DEF BroadcastsSpec

-------------------------------------------------------------------------------
(* All of them *)

everyVars == << vars, authoringVars, reportsVars, broadcastVars, outboxVars, activity >>

\* A step is a step of every activity, or leaves it alone.
LEMMA EveryStep ==
  ASSUME [MCNext]_everyVars
  PROVE  /\ [Next]_vars /\ [AuthoringNext]_authoringVars /\ [ReportsNext]_reportsVars
         /\ [BroadcastsNext]_broadcastVars /\ [OutboxNext]_outboxVars
BY DEF MCNext, everyVars

EveryIInv == JobsInv /\ AuthoringIInv /\ ReportsIInv /\ BroadcastsIInv /\ OutboxIInv

LEMMA EveryInductive == MCSpec => []EveryIInv
<1>1. MCInit => EveryIInv
  BY InitInv, AuthoringInitInv, ReportsInitInv, BroadcastsInitInv, OutboxInitInv
     DEF MCInit, EveryIInv
<1>2. EveryIInv /\ [MCNext]_everyVars => EveryIInv'
  <2> SUFFICES ASSUME EveryIInv, [MCNext]_everyVars PROVE EveryIInv'
    OBVIOUS
  <2>1. JobsInv' /\ AuthoringIInv'
    BY EveryStep, NextInv, AuthoringNextInv DEF EveryIInv
  <2>2. ReportsIInv' /\ BroadcastsIInv' /\ OutboxIInv'
    BY EveryStep, ReportsNextInv, BroadcastsNextInv, OutboxNextInv DEF EveryIInv
  <2> QED
    BY <2>1, <2>2 DEF EveryIInv
<1> QED
  BY <1>1, <1>2, PTL DEF MCSpec, everyVars

\* The invariants of the background activities hold together: one holder of every job and
\* report, no socket left behind, nothing delivered that was not shown.
THEOREM ActivitiesInvariant == MCSpec => []ActivitiesInv
<1>1. EveryIInv => ActivitiesInv
  BY ReportsSafe, BroadcastsSafe DEF EveryIInv, ActivitiesInv, AuthoringIInv, OutboxIInv
<1> QED
  BY <1>1, EveryInductive, PTL

\* Authoring jobs and Presentation reports are each settled once and stay settled.
THEOREM OtherJobsLeased == MCSpec => OtherJobsAreLeased
<1>1. MCInit => JobIs!Init /\ ReportIs!Init
  BY DEF MCInit, AuthoringInit, NoJob, JobOpen, JobIs!Init, ReportsInit, NoRow, ReportIs!Init
<1>2. EveryIInv /\ [MCNext]_everyVars
          => [JobIs!Next]_(JobIs!vars) /\ [ReportIs!Next]_(ReportIs!vars)
  BY EveryStep, AuthoringStep, ReportsStep DEF EveryIInv
<1> QED
  BY <1>1, <1>2, EveryInductive, PTL
     DEF MCSpec, everyVars, OtherJobsAreLeased, AuthoringIsLeased, PresentationReportIsLeased,
         JobIs!Spec, ReportIs!Spec
===============================================================================
