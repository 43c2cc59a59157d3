-------------------------- MODULE PresentationAnswers --------------------------
(* A participant's page (presentation-realtime.ts of the web application) and *)
(* what the server does for it: it saves answers                              *)
(* (PresentationLiveMutationService.submitResponse), answers the page's       *)
(* synchronizations and sends it snapshots (PresentationSessionService). An   *)
(* answer that is not acknowledged in time is reconciled with a snapshot and  *)
(* sent at most once more. Only the page's socket carries answers here.       *)
EXTENDS PresentationRoom

CONSTANTS
    Me,                 \* the participant whose page is modelled
    Keys,               \* its submissions, each with a key of its own
    ReadAttempts,       \* 3 in the code
    MaxMail             \* bound: snapshots on their way

ASSUME AnswersAssumption ==
    /\ Me \in Participants /\ ReadAttempts \in Nat \ {0} /\ MaxMail \in Nat
    /\ None \notin Keys \cup {"saved", "different", "failed"}

VARIABLES
    client,     \* what the page shows, and the submission it waits for
    reconc,     \* the single reconciliation under way
    emission,   \* each submission as sent, and as replayed
    reading,    \* the projection that the server is collecting
    mail        \* snapshots on their way to the page

answersVars == << client, reconc, emission, reading, mail >>

Emissions == Keys \X {1, 2}

NoEmission == [stage |-> "none", block |-> None, expected |-> None, at |-> None,
               elapsed |-> None, snap |-> None]

NoSubmission == [key |-> None, block |-> None, expected |-> None, replayed |-> FALSE,
                 timer |-> "none"]

NoReading == [for |-> "none", row |-> None, seq |-> None, data |-> None, attempt |-> 0]

NoReconciliation == [stage |-> "none", waiters |-> {}]

-------------------------------------------------------------------------------
(* Snapshots.                                                                 *)

MineAmong(r, answers) ==
    {a.key : a \in {b \in answers : b.p = Me /\ b.block = CurrentId(r)}}

\* The participant's snapshot of a row read with sequence number seq.
Snapshot(r, seq, joined, answers) ==
    [seq |-> seq, rev |-> r.revision, joined |-> Cardinality(joined),
     answers |-> Cardinality(answers), phase |-> r.phase, block |-> CurrentId(r),
     mine |-> MineAmong(r, answers), closes |-> r.closes, at |-> clock,
     accepting |-> r.phase = "question_open" /\ (r.closes = None \/ clock <= r.closes)]

SnapshotNow == Snapshot(room, EventSeq(room, roster, responses), roster, responses)

\* sync, a broadcast, or the REST snapshot: the row is read first. A reconciliation
\* asks for one answer.
StartReading(for) ==
    /\ reading = NoReading /\ Cardinality(mail) < MaxMail
    /\ for # "broadcast" => \A m \in mail : m.for # for
    /\ for = "sync" => reconc.stage = "sync"
    /\ for = "rest" => reconc.stage = "rest"
    /\ reading' = [for |-> for, row |-> room, seq |-> EventSeq(room, roster, responses),
                   data |-> None, attempt |-> 1]
    /\ UNCHANGED << client, reconc, emission, mail >> /\ UNCHANGED roomVars

ReadData ==
    /\ reading # NoReading /\ reading.data = None
    /\ reading' = [reading EXCEPT !.data = [joined |-> roster, answers |-> responses]]
    /\ UNCHANGED << client, reconc, emission, mail >> /\ UNCHANGED roomVars

Post(snap) ==
    /\ mail' = mail \cup {[for |-> reading.for, snap |-> snap]}
    /\ reading' = NoReading

\* Mistaken: what was read is shown whatever was committed meanwhile.
Unconfirmed ==
    /\ reading # NoReading /\ reading.data # None
    /\ Post(Snapshot(reading.row, reading.seq, reading.data.joined, reading.data.answers))
    /\ UNCHANGED << client, reconc, emission >> /\ UNCHANGED roomVars

\* The sequence is read again; the REST snapshot is not confirmed.
Confirm ==
    /\ reading # NoReading /\ reading.data # None
    /\ IF reading.for = "rest" \/ EventSeq(room, roster, responses) = reading.seq
       THEN Post(Snapshot(reading.row, reading.seq, reading.data.joined, reading.data.answers))
       ELSE IF reading.attempt < ReadAttempts
       THEN /\ reading' = [reading EXCEPT !.row = room, !.data = None, !.attempt = @ + 1,
                                          !.seq = EventSeq(room, roster, responses)]
            /\ UNCHANGED mail
       ELSE Post(None)
    /\ UNCHANGED << client, reconc, emission >> /\ UNCHANGED roomVars

-------------------------------------------------------------------------------
(* The server's side of a submission.                                         *)

EmissionAt(e, stage) == emission[e].stage = stage

SubmissionKeeps ==
    UNCHANGED << client, reconc, reading, mail, room, timeline, receipts, roster, fenced, clock >>

\* The time of receipt is taken before anything is read.
ReceiveSubmission(e) ==
    /\ EmissionAt(e, "sent")
    /\ emission' = [emission EXCEPT ![e].stage = "received", ![e].at = clock]
    /\ SubmissionKeeps /\ UNCHANGED responses

Least(a, b) == IF a < b THEN a ELSE b

\* presentationResponseTiming of the session that getResponseContext returns.
Elapsed(at) ==
    LET since == IF at < room.opened THEN 0 ELSE at - room.opened
    IN  IF room.opened = None THEN IF room.flex THEN 0 ELSE TimeLimit
        ELSE IF room.flex THEN since ELSE Least(TimeLimit, since)

ReadContext(e) ==
    /\ EmissionAt(e, "received")
    /\ emission' = [emission EXCEPT ![e].stage = IF emission[e].at >= LiveExpiresAt
                                                 THEN "refused" ELSE "ready",
                                    ![e].elapsed = Elapsed(emission[e].at)]
    /\ SubmissionKeeps /\ UNCHANGED responses

Submitted(e) ==
    [p |-> Me, key |-> e[1], block |-> emission[e].block, expected |-> emission[e].expected,
     at |-> emission[e].at, elapsed |-> emission[e].elapsed]

KeyIsSaved(e) == \E a \in responses : a.p = Me /\ a.key = e[1]

\* acceptResponse, whose lock serializes the emissions of one key.
AcceptResponse(e) ==
    /\ EmissionAt(e, "ready")
    /\ LET saves == /\ ~KeyIsSaved(e) /\ ~fenced
                    /\ ResponseWindowOpen(Submitted(e)) /\ Unanswered(Submitted(e))
       IN  /\ responses' = IF saves THEN responses \cup {Submitted(e)} ELSE responses
           /\ emission' = [emission EXCEPT ![e].stage =
                              IF saves \/ KeyIsSaved(e) THEN "saved" ELSE "refused"]
    /\ SubmissionKeeps

\* responseAcknowledgementState, after the commit.
ReadAcknowledgement(e) ==
    /\ EmissionAt(e, "saved")
    /\ emission' = [emission EXCEPT ![e].stage = "replied", ![e].snap = SnapshotNow]
    /\ SubmissionKeeps /\ UNCHANGED responses

\* A request that fails after its commit or before it answers with an error.
SubmissionFails(e) ==
    /\ emission[e].stage \in {"received", "ready", "saved"}
    /\ emission' = [emission EXCEPT ![e].stage = "refused"]
    /\ SubmissionKeeps /\ UNCHANGED responses

-------------------------------------------------------------------------------
(* What the page does with snapshots.                                         *)

\* shouldApplyPresentationSnapshot.
Applies(fence, snap) ==
    \/ snap.seq > fence.seq
    \/ snap.seq = fence.seq /\ snap.rev > fence.rev
    \/ snap.seq = fence.seq /\ snap.rev = fence.rev /\ snap.at > fence.at

Fence(snap) == [seq |-> snap.seq, rev |-> snap.rev, at |-> snap.at]

Shown(c, snap) ==
    IF Applies(c.fence, snap) THEN [c EXCEPT !.view = snap, !.fence = Fence(snap)] ELSE c

\* The submission ends and its user is told so.
Ended(c, told) == [c EXCEPT !.sub = NoSubmission, !.told[c.sub.key] = told]

Replayed(c, timer) == [c EXCEPT !.sub.replayed = TRUE, !.sub.timer = timer]

\* Mistaken: any answer of the participant to the question is this one.
ReconciledByBlock(c) ==
    LET same == c.view.block = c.sub.block
    IN  CASE c.sub.key = None -> c
          [] c.sub.key # None /\ same /\ c.view.mine # {} -> Ended(c, "saved")
          [] c.sub.key # None /\ same /\ c.view.mine = {} /\ ~c.sub.replayed
                /\ c.view.accepting -> Replayed(c, "ack")
          [] OTHER -> Ended(c, "failed")

\* Mistaken: a question shown as closed is not asked about once more.
ReconciledWhileOpen(c) ==
    LET same == c.view.block = c.sub.block
    IN  CASE c.sub.key = None -> c
          [] c.sub.key # None /\ same /\ c.sub.key \in c.view.mine -> Ended(c, "saved")
          [] c.sub.key # None /\ same /\ c.view.phase = "question_open" ->
                IF c.view.accepting /\ ~c.sub.replayed /\ c.link # "down"
                THEN Replayed(c, "ack") ELSE c
          [] OTHER -> Ended(c, "failed")

\* reconcileSubmission.
Reconciled(c) ==
    LET same == c.view.block = c.sub.block
        open == c.view.phase = "question_open"
    IN  CASE c.sub.key = None -> c
          [] c.sub.key # None /\ same /\ c.sub.key \in c.view.mine -> Ended(c, "saved")
          [] c.sub.key # None /\ same /\ c.view.mine # {} /\ c.sub.key \notin c.view.mine ->
                Ended(c, "different")
          [] c.sub.key # None /\ same /\ c.view.mine = {} /\ open ->
                CASE ~c.sub.replayed /\ c.view.accepting /\ c.link # "down" -> Replayed(c, "ack")
                  [] ~c.sub.replayed /\ ~c.view.accepting -> Replayed(c, "confirm")
                  [] c.sub.replayed /\ ~c.view.accepting -> Ended(c, "failed")
                  [] OTHER -> c
          [] c.sub.key # None /\ (~same \/ ~open) /\ ~(same /\ c.view.mine # {}) ->
                Ended(c, "failed")

\* It emits the submission again when it starts the acknowledgement's timer.
Emits(c, d) == d.sub.replayed /\ ~c.sub.replayed /\ d.sub.timer = "ack"

Sent(e, sub) == [emission EXCEPT ![e] = [NoEmission EXCEPT !.stage = "sent",
                                            !.block = sub.block, !.expected = sub.expected]]

\* The page goes from c, with an incoming snapshot applied, to d.
PageGoes(c, d) ==
    /\ client' = d
    /\ emission' = IF Emits(c, d) THEN Sent(<< c.sub.key, 2 >>, c.sub) ELSE emission

\* Those who wait for a reconciliation wait for the end of one submission.
StillWaiting(d) == IF d.sub.key = client.sub.key THEN reconc.waiters ELSE {}

\* A broadcast arrives, late or out of order, or is lost.
OnEnvelope(m) ==
    /\ m \in mail /\ m.for = "broadcast" /\ client.link # "down" /\ m.snap # None
    /\ LET c == Shown(client, m.snap)
           d == IF c = client THEN c ELSE Reconciled(c)
       IN  PageGoes(c, d) /\ reconc' = [reconc EXCEPT !.waiters = StillWaiting(d)]
    /\ mail' = mail \ {m}
    /\ UNCHANGED reading /\ UNCHANGED roomVars

MailLost(m) ==
    /\ m \in mail /\ m.for = "broadcast" /\ mail' = mail \ {m}
    /\ UNCHANGED << client, reconc, emission, reading >> /\ UNCHANGED roomVars

\* Mistaken: the question is shown as closed and the fence is left as it was.
DeadlineOnlyShown ==
    /\ client.view.accepting /\ client.view.closes # None /\ clock > client.view.closes
    /\ client' = [client EXCEPT !.view.accepting = FALSE]
    /\ UNCHANGED << reconc, emission, reading, mail >> /\ UNCHANGED roomVars

\* One millisecond after the deadline of the snapshot shown, relative to its
\* server time. The fence keeps a delayed snapshot of the same sequence out.
DeadlineExpires ==
    /\ client.view.accepting /\ client.view.closes # None /\ clock > client.view.closes
    /\ client' = [client EXCEPT !.view.accepting = FALSE,
                     !.fence.at = IF @ < client.view.closes + 1 THEN client.view.closes + 1 ELSE @]
    /\ UNCHANGED << reconc, emission, reading, mail >> /\ UNCHANGED roomVars

-------------------------------------------------------------------------------
(* Reconciliation: single-flight, over the socket and else over REST.         *)

WithoutAnswersFor(stage) == {m \in mail : m.for # stage}

\* reconcile, joined by those who wait for its result.
Reconcile(d, waiters) ==
    IF reconc.stage # "none"
    THEN /\ client' = d /\ reconc' = [reconc EXCEPT !.waiters = @ \cup waiters]
    ELSE /\ reconc' = [stage |-> IF d.link = "down" THEN "rest" ELSE "sync",
                       waiters |-> waiters]
         /\ client' = IF d.link = "ready" THEN [d EXCEPT !.link = "up"] ELSE d

GivesUp(d, done) ==
    \E w \in reconc.waiters :
        w.key = d.sub.key /\ (~done \/ (w.timer = "ack" /\ (w.replayed \/ d.link = "down")))

\* It returns what the page now shows, even if the answer was stale.
ReconciliationEnds(c, done) ==
    LET d == IF done THEN Reconciled(c) ELSE c
    IN  /\ PageGoes(c, IF d.sub.key # None /\ GivesUp(d, done) THEN Ended(d, "failed") ELSE d)
        /\ reconc' = NoReconciliation

SyncAnswered(m) ==
    /\ m \in mail /\ m.for = "sync" /\ m.snap # None /\ client.link # "down"
    /\ ReconciliationEnds([Shown(client, m.snap) EXCEPT !.link = "ready"], TRUE)
    /\ mail' = WithoutAnswersFor("sync") /\ UNCHANGED reading /\ UNCHANGED roomVars

\* An error, no answer in time, or the socket lost: the REST snapshot instead.
SyncFallsBack ==
    /\ reconc.stage = "sync"
    /\ reconc' = [reconc EXCEPT !.stage = "rest"]
    /\ mail' = WithoutAnswersFor("sync")
    /\ reading' = IF reading.for = "sync" THEN NoReading ELSE reading
    /\ UNCHANGED << client, emission >> /\ UNCHANGED roomVars

RestAnswered(m) ==
    /\ m \in mail /\ m.for = "rest"
    /\ ReconciliationEnds(Shown(client, m.snap), TRUE)
    /\ mail' = WithoutAnswersFor("rest") /\ UNCHANGED reading /\ UNCHANGED roomVars

RestFails ==
    /\ reconc.stage = "rest"
    /\ ReconciliationEnds(client, FALSE)
    /\ mail' = WithoutAnswersFor("rest")
    /\ reading' = IF reading.for = "rest" THEN NoReading ELSE reading
    /\ UNCHANGED roomVars

Connect ==
    /\ client.link = "down"
    /\ Reconcile([client EXCEPT !.link = "up"], {})
    /\ UNCHANGED << emission, reading, mail >> /\ UNCHANGED roomVars

Disconnect ==
    /\ client.link # "down"
    /\ client' = [client EXCEPT !.link = "down"]
    /\ UNCHANGED << reconc, emission, reading, mail >> /\ UNCHANGED roomVars

\* The page polls while the socket is up and its last answer was not a sync.
FallbackPolls ==
    /\ client.link = "up" /\ reconc.stage = "none"
    /\ Reconcile(client, {})
    /\ UNCHANGED << emission, reading, mail >> /\ UNCHANGED roomVars

-------------------------------------------------------------------------------
(* Submissions.                                                               *)

SubmitResponse(k) ==
    /\ client.sub.key = None /\ client.link = "ready" /\ client.told[k] = None
    /\ client.view.accepting /\ client.view.mine = {}
    /\ LET sub == [key |-> k, block |-> client.view.block, expected |-> client.view.rev,
                   replayed |-> FALSE, timer |-> "ack"]
       IN  client' = [client EXCEPT !.sub = sub] /\ emission' = Sent(<< k, 1 >>, sub)
    /\ UNCHANGED << reconc, reading, mail >> /\ UNCHANGED roomVars

Heard(e) == emission' = [emission EXCEPT ![e] = [NoEmission EXCEPT !.stage = "over"]]

\* An acknowledgement settles the submission that the page waits for, and only if
\* it is that submission's; an error ends it, whichever emission it answers.
HearReply(e) ==
    /\ client.link # "down" /\ emission[e].stage \in {"replied", "refused"}
    /\ Heard(e)
    /\ client' = IF client.sub.key = None THEN client
                 ELSE IF EmissionAt(e, "replied") /\ e[1] = client.sub.key
                 THEN Shown(Ended(client, "saved"), emission[e].snap)
                 ELSE Ended(client, "failed")
    /\ reconc' = [reconc EXCEPT !.waiters = {}]
    /\ UNCHANGED << reading, mail >> /\ UNCHANGED roomVars

AckTimesOut ==
    /\ client.sub.timer = "ack"
    /\ Reconcile([client EXCEPT !.sub.timer = "none"],
                 {[key |-> client.sub.key, timer |-> "ack", replayed |-> client.sub.replayed]})
    /\ UNCHANGED << emission, reading, mail >> /\ UNCHANGED roomVars

ConfirmTimesOut ==
    /\ client.sub.timer = "confirm"
    /\ Reconcile([client EXCEPT !.sub.timer = "none"],
                 {[key |-> client.sub.key, timer |-> "confirm", replayed |-> TRUE]})
    /\ UNCHANGED << emission, reading, mail >> /\ UNCHANGED roomVars

-------------------------------------------------------------------------------
\* The others join and answer with no delay.
RivalAnswers(p) ==
    LET a == [p |-> p, key |-> None, block |-> CurrentId(room), expected |-> room.revision,
              at |-> clock, elapsed |-> Elapsed(clock)]
    IN  /\ p \in roster /\ ~fenced /\ ResponseWindowOpen(a) /\ Unanswered(a)
        /\ responses' = responses \cup {a}
        /\ UNCHANGED << room, timeline, receipts, roster, fenced, clock >>

RoomGoesOn ==
    /\ \/ AdvanceByRest \/ Tick \/ StartWorkspaceDeletion
       \/ \E p \in Participants \ {Me} : JoinParticipantWithinLimit(p) \/ RivalAnswers(p)
    /\ UNCHANGED answersVars

\* The page has joined and shown a first snapshot.
AnswersInit ==
    /\ client = [link |-> "up", sub |-> NoSubmission, told |-> [k \in Keys |-> None],
                 view |-> SnapshotNow, fence |-> Fence(SnapshotNow)]
    /\ reconc = [NoReconciliation EXCEPT !.stage = "sync"]
    /\ emission = [e \in Emissions |-> NoEmission]
    /\ reading = NoReading /\ mail = {}

AnswersNext ==
    \/ \E for \in {"sync", "broadcast", "rest"} : StartReading(for)
    \/ ReadData \/ Confirm
    \/ \E e \in Emissions :
          \/ ReceiveSubmission(e) \/ ReadContext(e) \/ AcceptResponse(e)
          \/ ReadAcknowledgement(e) \/ SubmissionFails(e) \/ HearReply(e)
    \/ \E m \in mail : OnEnvelope(m) \/ MailLost(m) \/ SyncAnswered(m) \/ RestAnswered(m)
    \/ DeadlineExpires \/ SyncFallsBack \/ RestFails
    \/ Connect \/ Disconnect \/ FallbackPolls
    \/ \E k \in Keys : SubmitResponse(k)
    \/ AckTimesOut \/ ConfirmTimesOut \/ RoomGoesOn

-------------------------------------------------------------------------------
AnswersTypeOK ==
    /\ client.link \in {"down", "up", "ready"}
    /\ client.told \in [Keys -> {None, "saved", "different", "failed"}]
    /\ reconc.stage \in {"none", "sync", "rest"}

\* A participant who is told that an answer is saved has that answer saved, for
\* the question it was given to; one who is told that a different answer is saved
\* has not had this one saved, and never will.
SavesAreTrue ==
    \A k \in Keys :
        LET saved == \E a \in responses : a.p = Me /\ a.key = k
        IN  /\ client.told[k] = "saved" => saved
            /\ client.told[k] = "different" => ~saved

\* Acknowledgements, synchronizations and broadcasts show the room at one moment:
\* their sequence counts exactly the commits, joins and answers they show.
SnapshotsAreExact ==
    \A snap \in {m.snap : m \in {n \in mail : n.for # "rest"}}
                \cup {emission[e].snap : e \in Emissions} :
        snap # None => snap.seq = snap.rev + snap.joined + snap.answers

\* The page never goes back to an earlier state of the room, however late its
\* snapshots arrive, and at one state it does not open a question again that it
\* has shown as closed.
ViewNeverGoesBack ==
    [][ /\ client'.view.rev >= client.view.rev /\ client'.view.seq >= client.view.seq
        /\ (client'.view.seq = client.view.seq /\ ~client.view.accepting)
              => ~client'.view.accepting ]_client

\* A submission that is neither saved nor refused is watched: a timer runs for it,
\* or a reconciliation will decide about it. So it is not left unconfirmed for
\* ever: timers fire, and a reconciliation over REST ends.
SubmissionIsWatched ==
    client.sub.key # None =>
        client.sub.timer # "none" \/ \E w \in reconc.waiters : w.key = client.sub.key

\* The page's state is well formed and its submission is watched.
AnswersInv == AnswersTypeOK /\ SubmissionIsWatched
===============================================================================
