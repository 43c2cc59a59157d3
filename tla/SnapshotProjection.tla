-------------------------- MODULE SnapshotProjection --------------------------
(***************************************************************************)
(* snapshotForRole: what a live Round snapshot discloses to a host, a      *)
(* presenter or a participant in every state of the engine.  A view keeps  *)
(* the fields that depend on correctness, standings and evidence; wording, *)
(* theming and media are left out.                                         *)
(***************************************************************************)
EXTENDS GameEngine, FiniteSetsExt

CONSTANT ResultVisibility       \* "private" or "leaderboard"

ASSUME VisibilityAssumption == ResultVisibility \in {"private", "leaderboard"}

\* Participant identifiers are totally ordered (localeCompare of their text).
ASSUME IdentifierAssumption == Participants \subseteq Nat

Ranked == {p \in Participants : participants[p].status = "active"}

\* leaderboard: the order of the sort, its ties resolved down to the identifier.
Outranks(p, q) ==
    LET a == participants[p]
        b == participants[q]
        sameResult == a.score = b.score /\ a.correctCount = b.correctCount
        sameTime == Flex \/ a.acceptedResponseMs = b.acceptedResponseMs
    IN  \/ a.score > b.score
        \/ a.score = b.score /\ a.correctCount > b.correctCount
        \/ sameResult /\ ~Flex /\ a.acceptedResponseMs < b.acceptedResponseMs
        \/ sameResult /\ sameTime /\ p < q

Rank(p) == 1 + Cardinality({q \in Ranked : Outranks(q, p)})

\* Mistaken: also in a discussion held before the reveal.
RevealedWheneverClosed ==
    phase \in {"question_reveal", "leaderboard", "finished", "intervention"}

AnswersRevealed ==
    \/ phase \in {"question_reveal", "leaderboard", "finished"}
    \/ phase = "intervention" /\ interventionReturnPhase = "question_reveal"

CurrentAnswersOf(p) == {a \in answers : a.participant = p /\ a.roundId = current.roundId}

\* Mistaken: evidence is shown to the room while answers are collected.
EvidenceVisibleOnceOpen(role) == role # "participant" /\ phase # "lobby"

\* insight and responseDistribution
EvidenceVisible(role) ==
    /\ role # "participant"
    /\ phase \notin {"lobby", "question_open", "paused"}

HiddenFrom(viewer, p) == ResultVisibility = "private" /\ viewer # p

\* The snapshot of a participant.
ParticipantView(viewer) ==
    [scores |-> [p \in Ranked |-> IF HiddenFrom(viewer, p) THEN 0 ELSE participants[p].score],
     ranks |-> [p \in Ranked |-> IF HiddenFrom(viewer, p) THEN None ELSE Rank(p)],
     myCorrect |-> IF AnswersRevealed THEN {a.right : a \in CurrentAnswersOf(viewer)} ELSE {},
     explanation |-> AnswersRevealed,
     evidence |-> EvidenceVisible("participant"),
     recoveryPackCard |-> IF /\ phase = "intervention"
                             /\ interventionReturnPhase = "question_reveal"
                             /\ ActiveIntervention
                             /\ intervention.sourceRoundId = current.roundId
                             /\ intervention.type \in {"explain", "example"}
                             /\ intervention.card \in FrozenRecoveryPackCards
                          THEN intervention.card ELSE NoRound]

\* The snapshot of a host, and of the presenter view the room sees.
StaffView(role) ==
    [ranks |-> [p \in Ranked |-> Rank(p)],
     correctResponse |-> role = "host" /\ AnswersRevealed,
     explanation |-> AnswersRevealed,
     evidence |-> EvidenceVisible(role)]

-------------------------------------------------------------------------------
(* Properties *)

\* The score of a participant is the sum of the effects of the answers accepted from them:
\* each counts once, also after retries, rechecks and rounds that forgot it.  And within a
\* round the earlier of two right answers never scores less, however often it was paused.
\* A participant who was kicked is not taken for connected again by a late reconnection.
StandingsInv ==
    \A p \in Participants :
        LET given == {a \in accepted : a.participant = p}
        IN  /\ participants[p].status = "kicked" => ~participants[p].connected
            /\ participants[p].score = MapThenSumSet(LAMBDA a : a.score, given)
            /\ \A a \in given, b \in accepted :
                   a.roundId = b.roundId /\ a.right /\ a.acceptedAtMs <= b.acceptedAtMs
                       => a.score >= b.score

RoundClosed == current.roundId # NoRound /\ rounds[current.roundId].lockedAtMs # None

\* Open-checkpoint payloads omit correctness, explanations and distributions: nothing of the
\* kind reaches anyone until the round is locked for good, or the session was ended.
NothingDisclosedWhileOpen ==
    phase # "finished" /\ ~RoundClosed =>
        /\ \A p \in Ranked :
               LET view == ParticipantView(p)
               IN  view.myCorrect = {} /\ ~view.explanation /\ ~view.evidence
                   /\ view.recoveryPackCard = NoRound
        /\ \A role \in {"host", "presenter"} :
               LET view == StaffView(role)
               IN  ~view.correctResponse /\ ~view.explanation /\ ~view.evidence

\* What a participant learns of their answer by the reveal, they did not learn before: until
\* the current round was revealed, an intervention before reveal included, no view says
\* whether the answer was right.
CorrectnessAfterReveal ==
    [][ \A p \in Ranked :
            /\ ParticipantView(p).myCorrect = {}
            /\ ParticipantView(p)'.myCorrect # {}
            => phase = "question_locked" /\ phase' = "question_reveal" ]_vars
===============================================================================
