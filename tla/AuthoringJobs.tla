---------------------------- MODULE AuthoringJobs ----------------------------
(* A job of the authoring assistant: the row of authoring_jobs, the workers   *)
(* that claim it, extract its source and generate a draft, and the authors    *)
(* who make a quiz of the draft (authoring-worker.ts, authoring-service.ts,   *)
(* packages/db/src/postgres.ts). Unlike a Round's report, a completion or a   *)
(* failure must name the attempt that is still the row's latest.              *)
EXTENDS Naturals, FiniteSets

CONSTANTS
    Authors,            \* runs of AuthoringWorker.runOnce
    Generations,        \* attempts before a failed generation is final (3)
    MaxQuizzes,         \* bound on the quizzes made of the draft
    MaxLost             \* bound on workers lost and leases outlived

ASSUME AuthoringAssumption ==
    Generations \in Nat \ {0} /\ MaxQuizzes \in Nat /\ MaxLost \in Nat

VARIABLES
    job,        \* the row; its status is "none" before and "gone" after
    author,     \* per worker: what it does, and the attempt of its claim
    quizzes,    \* the quizzes made of the draft that still exist
    made,       \* how many were ever made
    lost        \* workers lost and leases outlived so far

authoringVars == << job, author, quizzes, made, lost >>

NoJob == [status |-> "none", attempts |-> 0, available |-> FALSE, source |-> FALSE,
          output |-> 0, applied |-> 0]

Resting == [pc |-> "idle", attempt |-> 0]

AuthoringInit ==
    /\ job = NoJob /\ author = [a \in Authors |-> Resting]
    /\ quizzes = {} /\ made = 0 /\ lost = 0

\* createAuthoringJobWithinLimit, when the month's allowance is not used up.
CreateJob ==
    /\ job.status = "none"
    /\ job' = [NoJob EXCEPT !.status = "pending", !.available = TRUE, !.source = TRUE]
    /\ UNCHANGED << author, quizzes, made, lost >>

\* Mistaken: only jobs that nobody has begun are claimed.
ClaimablePending == job.status = "pending" /\ job.available

Claimable == job.status \in {"pending", "processing"} /\ job.available

\* claimAuthoringJob: also the job of a worker that was lost.
ClaimJob(a) ==
    /\ author[a].pc = "idle" /\ Claimable
    /\ job' = [job EXCEPT !.status = "processing", !.attempts = @ + 1, !.available = FALSE]
    /\ author' = [author EXCEPT ![a] = [pc |-> "extract", attempt |-> job.attempts + 1]]
    /\ UNCHANGED << quizzes, made, lost >>

Extracted(a) ==
    /\ author[a].pc = "extract"
    /\ author' = [author EXCEPT ![a].pc = "generate"]
    /\ UNCHANGED << job, quizzes, made, lost >>

\* The condition of the worker's UPDATE; otherwise it is superseded.
Holds(a) == job.status = "processing" /\ job.attempts = author[a].attempt

\* The source is kept for as long as another attempt may need it.
Failed == [job EXCEPT !.status = "failed", !.source = FALSE]

Again == [job EXCEPT !.status = "pending", !.available = FALSE]

\* retryAuthoringJob after a failed extraction, which is final.
ExtractionFails(a) ==
    /\ author[a].pc = "extract"
    /\ job' = IF Holds(a) THEN Failed ELSE job
    /\ author' = [author EXCEPT ![a] = Resting]
    /\ UNCHANGED << quizzes, made, lost >>

\* completeAuthoringJob.
CompleteJob(a) ==
    /\ author[a].pc = "generate"
    /\ job' = IF ~Holds(a) THEN job
              ELSE [job EXCEPT !.status = "ready", !.source = FALSE,
                               !.output = author[a].attempt]
    /\ author' = [author EXCEPT ![a] = Resting]
    /\ UNCHANGED << quizzes, made, lost >>

\* retryAuthoringJob after a failed generation, validation or completion.
GenerationFails(a) ==
    /\ author[a].pc = "generate"
    /\ job' = IF ~Holds(a) THEN job
              ELSE IF author[a].attempt >= Generations THEN Failed ELSE Again
    /\ author' = [author EXCEPT ![a] = Resting]
    /\ UNCHANGED << quizzes, made, lost >>

\* The process is lost, or it cannot record its failure.
LoseAuthor(a) ==
    /\ author[a].pc # "idle" /\ lost < MaxLost
    /\ author' = [author EXCEPT ![a] = Resting] /\ lost' = lost + 1
    /\ UNCHANGED << job, quizzes, made >>

Held == \E a \in Authors : author[a].pc # "idle" /\ Holds(a)

\* A back-off passes, or the lease of a worker that is lost.
JobElapses ==
    /\ job.status \in {"pending", "processing"} /\ ~job.available /\ ~Held
    /\ job' = [job EXCEPT !.available = TRUE]
    /\ UNCHANGED << author, quizzes, made, lost >>

\* A worker outlives its lease: config.ts asks for a lease longer than the
\* extraction and the generation may take, but a process can stall.
LeaseOutlived ==
    /\ Held /\ ~job.available /\ lost < MaxLost
    /\ job' = [job EXCEPT !.available = TRUE] /\ lost' = lost + 1
    /\ UNCHANGED << author, quizzes, made >>

\* applyAuthoringJobDraft. A job that has been applied answers with its quiz.
Apply ==
    /\ job.status = "ready" /\ job.applied = 0 /\ made < MaxQuizzes
    /\ made' = made + 1 /\ quizzes' = quizzes \cup {made + 1}
    /\ job' = [job EXCEPT !.applied = made + 1]
    /\ UNCHANGED << author, lost >>

\* A quiz is deleted; the job's reference to it becomes NULL.
DeleteQuiz ==
    \E q \in quizzes :
        /\ quizzes' = quizzes \ {q}
        /\ job' = IF job.applied = q THEN [job EXCEPT !.applied = 0] ELSE job
        /\ UNCHANGED << author, made, lost >>

\* purgeExpired, whatever the job's workers are doing.
PurgeJob ==
    /\ job.status \notin {"none", "gone"}
    /\ job' = [NoJob EXCEPT !.status = "gone"]
    /\ UNCHANGED << author, quizzes, made, lost >>

AuthorWorks(a) ==
    \/ ClaimJob(a) \/ Extracted(a) \/ ExtractionFails(a)
    \/ CompleteJob(a) \/ GenerationFails(a)

AuthoringNext ==
    \/ CreateJob \/ JobElapses \/ LeaseOutlived \/ Apply \/ DeleteQuiz \/ PurgeJob
    \/ \E a \in Authors : AuthorWorks(a) \/ LoseAuthor(a)

\* The timer of every process runs its worker again and again, and time passes.
AuthoringFairness ==
    /\ WF_authoringVars(JobElapses)
    /\ \A a \in Authors : WF_authoringVars(AuthorWorks(a))

AuthoringSpec == AuthoringInit /\ [][AuthoringNext]_authoringVars /\ AuthoringFairness

-------------------------------------------------------------------------------

JobOpen == job.status \in {"pending", "processing"}

AuthoringTypeOK ==
    /\ job \in [status : {"none", "pending", "processing", "ready", "failed", "gone"},
                attempts : Nat, available : BOOLEAN, source : BOOLEAN,
                output : Nat, applied : 0..MaxQuizzes]
    /\ author \in [Authors -> [pc : {"idle", "extract", "generate"}, attempt : Nat]]
    /\ quizzes \subseteq 1..made /\ made \in 0..MaxQuizzes /\ lost \in 0..MaxLost

\* The source is there for every attempt still to come, and is erased as soon as
\* no attempt can follow, also when workers overlap.
SourceWhileOpen == job.source <=> JobOpen

\* The draft of a ready job is the one of the latest attempt; a worker whose lease
\* another one has taken over leaves no trace.
DraftOfLatestAttempt == job.status = "ready" => job.output = job.attempts

\* No two workers hold the job's attempt, however many of them work on it.
OneHolder ==
    \A a, b \in Authors :
        author[a].pc # "idle" /\ Holds(a) /\ author[b].pc # "idle" /\ Holds(b) => a = b

\* However often it is applied, at most one quiz made of the draft exists, and the
\* job knows it until the job is purged.
OneQuiz ==
    /\ Cardinality(quizzes) <= 1
    /\ job.status = "ready" => quizzes = {job.applied} \ {0}

AuthoringInv ==
    AuthoringTypeOK /\ SourceWhileOpen /\ DraftOfLatestAttempt /\ OneHolder /\ OneQuiz

\* A job is settled once, whoever is late, and what was purged does not come back.
JobIs == INSTANCE LeasedJob WITH
    status <- IF JobOpen THEN "open" ELSE job.status,
    request <- IF job.status = "none" THEN 0 ELSE 1

AuthoringIsLeased == JobIs!Spec

\* A job that was created gets its draft, fails for good or is purged, when only so
\* many workers are lost and leases outlived.
JobSettles == JobOpen ~> ~JobOpen
===============================================================================
