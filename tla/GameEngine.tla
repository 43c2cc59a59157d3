------------------------------ MODULE GameEngine ------------------------------
(***************************************************************************)
(* The live Round engine, packages/game-engine/src/index.ts: the pure      *)
(* transition function a session's canonical state is folded through.      *)
(* Every exported function that returns a new GameState is an action;      *)
(* an input the engine rejects (an EngineError) or recognises as a         *)
(* duplicate returns the state it was given, which is a stuttering step.   *)
(*                                                                         *)
(* A round, intervention or command identifier is a fresh UUID in the      *)
(* code and the next unused number here.  Response payloads are abstracted *)
(* to whether they are right, interventions keep no times, and the value   *)
(* stored with a processed command is dropped: the code only asks whether  *)
(* there is one.                                                           *)
(*                                                                         *)
(* A definition commented "Mistaken:" is no part of the specification: it  *)
(* is a plausible bug in the definition after it, kept to show that a      *)
(* property of this module can fail.                                       *)
(***************************************************************************)
EXTENDS Integers, Sequences, FiniteSets

CONSTANTS
    Participants,     \* the guests that may join
    Keys,             \* idempotency keys of answers
    Quiz,             \* the frozen checkpoints, in order
    TimeMode,         \* "timed" or "flex"
    ScoringMode,      \* "speed" or "accuracy", as requested at creation
    MaxVersion,       \* bound: the last session version explored
    MaxNow,           \* bound: the last instant of the clock
    MaxInterventions  \* bound: interventions started in one session

None == -1            \* null, for an instant or a duration
NoRound == 0          \* null, for a round or an intervention identifier

Phases == {"lobby", "question_open", "paused", "question_locked",
           "question_reveal", "intervention", "leaderboard", "finished"}
RoundKinds == {"main", "linked_recheck", "revote"}
InterventionTypes == {"peer_discussion", "explain", "example", "break"}

ASSUME QuizAssumption ==
    Quiz \in Seq([delivery : {"main", "recheck"}, scored : BOOLEAN,
               basePoints : Nat, timeLimit : Nat \ {0}, hasCard : BOOLEAN])
ASSUME ModeAssumption ==
    TimeMode \in {"timed", "flex"} /\ ScoringMode \in {"speed", "accuracy"}
ASSUME BoundAssumption ==
    MaxVersion \in Nat /\ MaxNow \in Nat /\ MaxInterventions \in Nat

VARIABLES
    now,              \* the server clock
    version, seq,     \* session version; sequence number of the last event
    phase,
    current,          \* questionIndex, roundId, roundKind, sourceRoundId, openedAtMs
    deadlineMs,
    pausedRemainingMs,
    interventionReturnPhase,
    intervention,     \* the latest intervention, or NoIntervention
    interventions,    \* every intervention, by identifier
    lobbyLocked,
    participants,
    answers,          \* the answers of the current round
    rounds,           \* every round, by identifier
    processedCommands,
    accepted,         \* history: every answer ever accepted, the rows commitAnswers inserts
    openMs            \* history: how long the current round has been open to answers

clockVars == <<now, openMs>>
pauseVars == <<deadlineMs, pausedRemainingMs>>
interventionVars == <<interventionReturnPhase, intervention, interventions>>
roomVars == <<lobbyLocked, participants>>
answerVars == <<answers, accepted>>
vars == <<now, version, seq, phase, current, deadlineMs, pausedRemainingMs,
          interventionReturnPhase, intervention, interventions, lobbyLocked,
          participants, answers, rounds, processedCommands, accepted, openMs>>

-------------------------------------------------------------------------------
(* Helpers *)

AtLeastZero(n) == IF n < 0 THEN 0 ELSE n

Flex == TimeMode = "flex"

\* resolvedSettings: an untimed room cannot award a speed advantage.
ResolvedScoring == IF Flex THEN "accuracy" ELSE ScoringMode

MainQuestions == {i \in DOMAIN Quiz : Quiz[i].delivery = "main"}
RecheckQuestions == {i \in DOMAIN Quiz : Quiz[i].delivery = "recheck"}

\* Mistaken: checkpoints of any delivery.
LaterQuestions(after) == {i \in DOMAIN Quiz : i > after}
LaterMainQuestions(after) == {i \in MainQuestions : i > after}

\* nextMainQuestionIndex: the first main checkpoint after a position, if there is one.
NextMainQuestions(after) ==
    {i \in LaterMainQuestions(after) : \A j \in LaterMainQuestions(after) : i <= j}

\* calculateScore, with Math.round in integer arithmetic:
\* round(base * (0.6 + 0.4 * max(0, 1 - elapsed / limit))).
CalculateScore(right, base, elapsed, limit) ==
    IF ~right THEN 0
    ELSE IF ResolvedScoring = "accuracy" THEN base
    ELSE (2 * base * (6 * limit + 4 * AtLeastZero(limit - elapsed)) + 10 * limit)
             \div (20 * limit)

NoIntervention == [id |-> NoRound, type |-> "none", sourceRoundId |-> NoRound,
                   card |-> NoRound, finished |-> TRUE]

ActiveIntervention == intervention # NoIntervention /\ ~intervention.finished

\* frozenRecoveryPackCards: the Recovery Pack cards of the current main diagnostic,
\* each named by the diagnostic that owns it.
FrozenRecoveryPackCards ==
    {i \in {current.questionIndex} \ {NoRound} :
        /\ current.roundKind = "main"
        /\ Quiz[i].delivery = "main"
        /\ Quiz[i].hasCard}

\* Mistaken: from the recheck checkpoint itself.
SourcePositionOfCurrent == current.questionIndex

\* The position `next` advances from: that of the main checkpoint, also after a recheck.
SourcePosition ==
    IF current.roundKind = "main" THEN current.questionIndex
    ELSE rounds[current.sourceRoundId].questionIndex

-------------------------------------------------------------------------------
(* The two constructors every transition goes through *)

\* nextState: one more version, and a sequence number per event.
NextState(events) ==
    /\ version < MaxVersion
    /\ version' = version + 1
    /\ seq' = seq + events

\* applyHostCommand, around its switch: a command not seen before, with the current
\* version (any other input leaves the state alone), is remembered once applied.
HostCommand(events) ==
    LET commandId == Cardinality(processedCommands) + 1
    IN  /\ processedCommands' = processedCommands \cup {commandId}
        /\ NextState(events)

\* openQuestion
DeadlineFrom(index) == IF Flex THEN None ELSE now + Quiz[index].timeLimit

AnswersAtOpen == {}

OpenQuestion(index, kind, sourceRoundId, interventionId) ==
    LET roundId == Len(rounds) + 1
    IN  /\ phase' = "question_open"
        /\ current' = [questionIndex |-> index, roundId |-> roundId, roundKind |-> kind,
                       sourceRoundId |-> sourceRoundId, openedAtMs |-> now]
        /\ deadlineMs' = DeadlineFrom(index)
        /\ pausedRemainingMs' = None
        /\ interventionReturnPhase' = "none"
        /\ intervention' = IF kind = "main" THEN NoIntervention ELSE intervention
        /\ answers' = AnswersAtOpen
        /\ rounds' = Append(rounds,
              [questionIndex |-> index, kind |-> kind, sourceRoundId |-> sourceRoundId,
               interventionId |-> interventionId, openedAtMs |-> now,
               deadlineMs |-> DeadlineFrom(index), lockedAtMs |-> None])
        /\ openMs' = 0
        /\ HostCommand(IF kind = "main" THEN 1 ELSE 2)
        /\ UNCHANGED <<now, interventions, roomVars, accepted>>

Finish ==
    /\ phase' = "finished"
    /\ deadlineMs' = None
    /\ answers' = {}
    /\ HostCommand(1)
    /\ UNCHANGED <<clockVars, current, pausedRemainingMs, interventionVars,
                   roomVars, rounds, accepted>>

-------------------------------------------------------------------------------
(* Host commands: the cases of applyHostCommand *)

Start ==
    /\ phase = "lobby"
    /\ \E index \in NextMainQuestions(0) : OpenQuestion(index, "main", NoRound, NoRound)

RemainingMs == AtLeastZero(deadlineMs - now)

Pause ==
    /\ phase = "question_open"
    /\ Flex \/ deadlineMs # None
    /\ phase' = "paused"
    /\ pausedRemainingMs' = IF deadlineMs = None THEN None ELSE RemainingMs
    /\ deadlineMs' = None
    /\ HostCommand(1)
    /\ UNCHANGED <<clockVars, current, interventionVars, roomVars, answerVars, rounds>>

\* Mistaken: the limit starts over.
FreshDeadline == DeadlineFrom(current.questionIndex)
ResumeDeadline == IF Flex THEN None ELSE now + pausedRemainingMs

RoundsOnResume(deadline) == [rounds EXCEPT ![current.roundId].deadlineMs = deadline]

Resume ==
    LET deadline == ResumeDeadline
    IN  /\ phase = "paused"
        /\ Flex \/ pausedRemainingMs # None
        /\ phase' = "question_open"
        /\ deadlineMs' = deadline
        /\ pausedRemainingMs' = None
        /\ rounds' = RoundsOnResume(deadline)
        /\ HostCommand(1)
        /\ UNCHANGED <<clockVars, current, interventionVars, roomVars, answerVars>>

\* Also the lock autoLock applies at the deadline, under the command id deadline:<roundId>.
Lock ==
    /\ phase \in {"question_open", "paused"}
    /\ phase' = "question_locked"
    /\ deadlineMs' = None
    /\ pausedRemainingMs' = None
    /\ rounds' = [rounds EXCEPT ![current.roundId].lockedAtMs = now]
    /\ HostCommand(2)
    /\ UNCHANGED <<clockVars, current, interventionVars, roomVars, answerVars>>

Reveal ==
    /\ phase = "question_locked"
    /\ phase' = "question_reveal"
    /\ HostCommand(1)
    /\ UNCHANGED <<clockVars, current, pauseVars, interventionVars, roomVars,
                   answerVars, rounds>>

\* When each type of intervention may start.
StartsIn(type) ==
    CASE type = "peer_discussion" -> {"question_locked"}
      [] type = "break" -> {"question_locked", "question_reveal"}
      [] OTHER -> {"question_reveal"}

InterventionStart(type, card) ==
    LET started == [id |-> Len(interventions) + 1, type |-> type,
                    sourceRoundId |-> current.roundId, card |-> card, finished |-> FALSE]
    IN  /\ Len(interventions) < MaxInterventions
        /\ current.roundId # NoRound
        /\ ~ActiveIntervention
        /\ phase \in StartsIn(type)
        /\ card # NoRound => type \in {"explain", "example"} /\ card \in FrozenRecoveryPackCards
        /\ phase' = "intervention"
        /\ interventionReturnPhase' = phase
        /\ intervention' = started
        /\ interventions' = Append(interventions, started)
        /\ HostCommand(1)
        /\ UNCHANGED <<clockVars, current, pauseVars, roomVars, answerVars, rounds>>

InterventionsFinished(done) == [interventions EXCEPT ![done.id] = done]

InterventionFinish ==
    LET done == [intervention EXCEPT !.finished = TRUE]
    IN  /\ phase = "intervention"
        /\ ActiveIntervention
        /\ interventionReturnPhase # "none"
        /\ phase' = interventionReturnPhase
        /\ interventionReturnPhase' = "none"
        /\ intervention' = done
        /\ interventions' = InterventionsFinished(done)
        /\ HostCommand(2)
        /\ UNCHANGED <<clockVars, current, pauseVars, roomVars, answerVars, rounds>>

\* Mistaken: also while answers are collected.
RecheckWhileOpen ==
    /\ phase \in {"question_open", "question_locked", "question_reveal"}
    /\ current.roundKind = "main"

RecheckAllowed ==
    /\ phase \in {"question_locked", "question_reveal"}
    /\ current.roundId # NoRound
    /\ current.roundKind = "main"

\* mode "linked": the linked checkpoint, or another recheck checkpoint the host names.
OpenLinkedRecheck(target) ==
    /\ RecheckAllowed
    /\ OpenQuestion(target, "linked_recheck", current.roundId, intervention.id)

OpenRevote ==
    /\ RecheckAllowed
    /\ OpenQuestion(current.questionIndex, "revote", current.roundId, intervention.id)

ShowLeaderboard ==
    /\ phase = "question_reveal"
    /\ phase' = "leaderboard"
    /\ HostCommand(1)
    /\ UNCHANGED <<clockVars, current, pauseVars, interventionVars, roomVars,
                   answerVars, rounds>>

AdvancesFrom == {"question_reveal", "leaderboard"}

\* next, with a main checkpoint left and without one
NextQuestion ==
    /\ phase \in AdvancesFrom
    /\ \E index \in NextMainQuestions(SourcePosition) :
           OpenQuestion(index, "main", NoRound, NoRound)

NextFinishes ==
    /\ phase \in AdvancesFrom
    /\ LaterMainQuestions(SourcePosition) = {}
    /\ Finish

End ==
    /\ phase # "finished"
    /\ Finish

\* lock_lobby and unlock_lobby, in any phase
SetLobbyLock(locked) ==
    /\ lobbyLocked' = locked
    /\ HostCommand(1)
    /\ UNCHANGED <<clockVars, phase, current, pauseVars, interventionVars, participants,
                   answerVars, rounds>>

Kick(p) ==
    /\ phase # "finished"
    /\ participants[p].status = "active"
    /\ participants' = [participants EXCEPT ![p].status = "kicked", ![p].connected = FALSE]
    /\ HostCommand(1)
    /\ UNCHANGED <<clockVars, phase, current, pauseVars, interventionVars, lobbyLocked,
                   answerVars, rounds>>

-------------------------------------------------------------------------------
(* Participants *)

\* addParticipant: a join gives every participant a fresh identifier.
AddParticipant(p) ==
    /\ ~lobbyLocked
    /\ phase # "finished"                 \* processJoinBatch
    /\ participants[p].status = "absent"
    /\ participants' = [participants EXCEPT ![p].status = "active", ![p].connected = TRUE]
    /\ NextState(1)
    /\ UNCHANGED <<clockVars, phase, current, pauseVars, interventionVars, lobbyLocked,
                   answerVars, rounds, processedCommands>>

\* reconnectParticipant revokes a kicked participant; a kicked one is already disconnected.
MayChangeConnection(p) == participants[p].status = "active"

SetParticipantConnection(p) ==
    /\ MayChangeConnection(p)
    /\ participants' = [participants EXCEPT ![p].connected = ~@]
    /\ NextState(1)
    /\ UNCHANGED <<clockVars, phase, current, pauseVars, interventionVars, lobbyLocked,
                   answerVars, rounds, processedCommands>>

-------------------------------------------------------------------------------
(* Answers *)

\* Rechecks, revotes, opinion checkpoints, polls and ratings carry no score.
Scored == current.roundKind = "main" /\ Quiz[current.questionIndex].scored

\* Mistaken: only the retried key is recognised.
HasNotUsedKey(p, key) == \A a \in answers : a.key # key
HasNotAnswered(p, key) ==
    /\ \A a \in answers : a.key # key
    /\ \A a \in answers : a.participant # p \/ a.roundId # current.roundId

\* Mistaken: the phase alone closes a round.
OnTimeIfOpen(receivedAt) == TRUE
OnTime(receivedAt) == deadlineMs # None => receivedAt <= deadlineMs

\* Mistaken: the answer's score replaces the participant's.
CreditReplacing(p, score, right, responseMs) ==
    [participants EXCEPT ![p].score = score]

Credit(p, score, right, responseMs) ==
    [participants EXCEPT
        ![p].score = @ + score,
        ![p].correctCount = @ + (IF Scored /\ right THEN 1 ELSE 0),
        ![p].acceptedResponseMs = @ + (IF Scored THEN responseMs ELSE 0)]

\* acceptAnswer, for an answer received at receivedAt and evaluated now.
AcceptAnswer(p, key, right, receivedAt) ==
    LET responseMs == receivedAt - current.openedAtMs
        question == Quiz[current.questionIndex]
        score == IF Scored
                 THEN CalculateScore(right, question.basePoints, responseMs, question.timeLimit)
                 ELSE 0
        answer == [participant |-> p, roundId |-> current.roundId, key |-> key,
                   right |-> right, score |-> score, acceptedAtMs |-> receivedAt]
    IN  /\ phase = "question_open"
        /\ Flex \/ deadlineMs # None
        /\ OnTime(receivedAt)
        /\ participants[p].status = "active"
        /\ HasNotAnswered(p, key)
        /\ answers' = answers \cup {answer}
        /\ accepted' = accepted \cup {answer}
        /\ participants' = Credit(p, score, right, responseMs)
        /\ NextState(1)
        /\ UNCHANGED <<clockVars, phase, current, pauseVars, interventionVars, lobbyLocked,
                       rounds, processedCommands>>

-------------------------------------------------------------------------------

Tick ==
    /\ now < MaxNow
    /\ now' = now + 1
    /\ openMs' = IF phase = "question_open" THEN openMs + 1 ELSE openMs
    /\ UNCHANGED <<version, seq, phase, current, pauseVars, interventionVars, roomVars,
                   answerVars, rounds, processedCommands>>

NewParticipant == [status |-> "absent", connected |-> FALSE, score |-> 0,
                   correctCount |-> 0, acceptedResponseMs |-> 0]

\* createGameState
Init ==
    /\ now = 0 /\ openMs = 0
    /\ version = 0 /\ seq = 0
    /\ phase = "lobby"
    /\ current = [questionIndex |-> NoRound, roundId |-> NoRound, roundKind |-> "main",
                  sourceRoundId |-> NoRound, openedAtMs |-> None]
    /\ deadlineMs = None /\ pausedRemainingMs = None
    /\ interventionReturnPhase = "none"
    /\ intervention = NoIntervention
    /\ interventions = <<>>
    /\ lobbyLocked = FALSE
    /\ participants = [p \in Participants |-> NewParticipant]
    /\ answers = {} /\ accepted = {}
    /\ rounds = <<>>
    /\ processedCommands = {}

Next ==
    \/ Start \/ Pause \/ Resume \/ Lock \/ Reveal
    \/ \E type \in InterventionTypes, card \in {NoRound} \cup DOMAIN Quiz :
           InterventionStart(type, card)
    \/ InterventionFinish
    \/ \E target \in RecheckQuestions : OpenLinkedRecheck(target)
    \/ OpenRevote
    \/ ShowLeaderboard \/ NextQuestion \/ NextFinishes \/ End
    \/ \E locked \in BOOLEAN : SetLobbyLock(locked)
    \/ \E p \in Participants : AddParticipant(p) \/ SetParticipantConnection(p) \/ Kick(p)
    \/ \E p \in Participants, key \in Keys, right \in BOOLEAN, receivedAt \in 0..now :
           /\ receivedAt >= current.openedAtMs
           /\ AcceptAnswer(p, key, right, receivedAt)
    \/ Tick

Spec == Init /\ [][Next]_vars

-------------------------------------------------------------------------------
(* Properties *)

InstantOrNone == Nat \cup {None}

AnswerType == [participant : Participants, roundId : Nat \ {0}, key : Keys, right : BOOLEAN,
               score : Nat, acceptedAtMs : Nat]
RoundType == [questionIndex : DOMAIN Quiz, kind : RoundKinds, sourceRoundId : Nat,
              interventionId : Nat, openedAtMs : Nat, deadlineMs : InstantOrNone,
              lockedAtMs : InstantOrNone]
InterventionType == [id : Nat, type : InterventionTypes \cup {"none"}, sourceRoundId : Nat,
                     card : {NoRound} \cup DOMAIN Quiz, finished : BOOLEAN]
ParticipantType == [status : {"absent", "active", "kicked"}, connected : BOOLEAN, score : Nat,
                    correctCount : Nat, acceptedResponseMs : Nat]

\* The type invariant: GameState as its TypeScript interfaces declare it.
TypeOK ==
    /\ now \in Nat /\ openMs \in Nat
    /\ version \in Nat /\ seq \in Nat
    /\ phase \in Phases
    /\ current \in [questionIndex : {NoRound} \cup DOMAIN Quiz, roundId : Nat,
                    roundKind : RoundKinds, sourceRoundId : Nat, openedAtMs : InstantOrNone]
    /\ deadlineMs \in InstantOrNone /\ pausedRemainingMs \in InstantOrNone
    /\ interventionReturnPhase \in {"none", "question_locked", "question_reveal"}
    /\ intervention \in InterventionType
    /\ interventions \in Seq(InterventionType)
    /\ lobbyLocked \in BOOLEAN
    /\ participants \in [Participants -> ParticipantType]
    /\ answers \subseteq AnswerType /\ accepted \subseteq AnswerType
    /\ rounds \in Seq(RoundType)
    /\ processedCommands \subseteq Nat /\ IsFiniteSet(processedCommands)

\* The rounds table and the session's own copy of the current round never drift apart: in
\* particular a resumed round's stored deadline is the one the room is held to.
CurrentRoundMirrored ==
    current.roundId # NoRound =>
        LET round == rounds[current.roundId]
        IN  /\ current.roundId = Len(rounds)
            /\ round.questionIndex = current.questionIndex
            /\ round.kind = current.roundKind
            /\ round.sourceRoundId = current.sourceRoundId
            /\ round.openedAtMs = current.openedAtMs
            /\ phase = "question_open" => round.deadlineMs = deadlineMs

\* Exactly one round may be open: every earlier round was locked before the next opened, and
\* the current one is unlocked only while it collects answers, is paused, or was ended.
OneOpenRound ==
    \A r \in DOMAIN rounds :
        rounds[r].lockedAtMs = None =>
            r = current.roundId /\ phase \in {"question_open", "paused", "finished"}

\* A timed round collects answers only under a deadline, a flex round never has one, and a
\* remaining time survives only while the round is paused or was ended paused.
DeadlineDiscipline ==
    /\ deadlineMs # None <=> ~Flex /\ phase = "question_open"
    /\ pausedRemainingMs # None => ~Flex /\ phase \in {"paused", "finished"}
    /\ phase = "paused" /\ ~Flex => pausedRemainingMs # None

\* Pausing and resuming preserves the time participants have: however often a round was
\* paused, it stays open for the limit of its checkpoint and no longer.
PausePreservesTime ==
    LET limit == Quiz[current.questionIndex].timeLimit
    IN  ~Flex =>
            /\ phase = "question_open" => AtLeastZero(deadlineMs - now) = AtLeastZero(limit - openMs)
            /\ phase = "paused" => pausedRemainingMs = AtLeastZero(limit - openMs)

\* Time is kept: the room is held to a deadline exactly while it collects timed answers, and
\* however often it was paused it stays open for the limit of its checkpoint and no longer.
TimingInv == DeadlineDiscipline /\ PausePreservesTime

\* A recovery branch is one recheck or revote of a main checkpoint: its source is an earlier,
\* locked main round, and no main round has two.
RecoveryBranchOfMain ==
    \A r \in DOMAIN rounds :
        rounds[r].kind # "main" =>
            /\ rounds[r].sourceRoundId = r - 1 /\ r - 1 \in DOMAIN rounds
            /\ rounds[r - 1].kind = "main"
            /\ rounds[r - 1].lockedAtMs # None
            /\ rounds[r].kind = "revote" => rounds[r].questionIndex = rounds[r - 1].questionIndex

\* Main rounds cover the main checkpoints in order, none skipped and none repeated, whatever
\* recheck checkpoints the host opened in between.
MainCheckpointsInOrder ==
    LET opened == {r \in DOMAIN rounds : rounds[r].kind = "main"}
        covered == {rounds[r].questionIndex : r \in opened}
    IN  /\ \A r, s \in opened : r < s => rounds[r].questionIndex < rounds[s].questionIndex
        /\ covered \subseteq MainQuestions
        /\ \A i \in covered, j \in MainQuestions : j < i => j \in covered

\* The current intervention is the one recorded under its identifier, nothing else is left
\* unfinished, and a session with an unfinished one is in it or was ended during it.
InterventionsAgree ==
    /\ intervention # NoIntervention =>
           intervention.id \in DOMAIN interventions /\ interventions[intervention.id] = intervention
    /\ \A i \in DOMAIN interventions :
           ~interventions[i].finished =>
               i = intervention.id /\ phase \in {"intervention", "finished"}
    /\ phase = "intervention" => ActiveIntervention /\ interventionReturnPhase # "none"

\* A Recovery Pack card is only ever shown for the main diagnostic that owns it.
CardsBelongToDiagnostic ==
    \A i \in DOMAIN interventions :
        LET source == rounds[interventions[i].sourceRoundId]
        IN  interventions[i].card # NoRound =>
                source.kind = "main" /\ source.questionIndex = interventions[i].card

\* However rechecks, revotes, interventions and cards follow each other, main checkpoints
\* come in order, the two records of an intervention agree, and cards stay with theirs.
FlowInv == MainCheckpointsInOrder /\ InterventionsAgree /\ CardsBelongToDiagnostic

\* A participant receives at most one accepted answer per round, over the whole session
\* and not only among the answers kept for the current round.
OneAnswerPerRound ==
    \A a, b \in accepted :
        a.participant = b.participant /\ a.roundId = b.roundId => a = b

\* The answers kept in the state are exactly those accepted in the current round.
AnswersOfCurrentRound ==
    answers = IF phase = "finished" THEN {}
              ELSE {a \in accepted : a.roundId = current.roundId}

\* Every accepted answer was received while its round was open: not before it opened, and
\* not after the deadline the round was last given, across pauses and resumes.
AcceptedWhileOpen ==
    \A a \in accepted :
        LET round == rounds[a.roundId]
        IN  /\ round.openedAtMs <= a.acceptedAtMs
            /\ round.deadlineMs # None => a.acceptedAtMs <= round.deadlineMs
            /\ round.kind # "main" => a.score = 0

\* The current round is the latest one, from the first checkpoint on.
CurrentRoundIsLatest ==
    /\ current.roundId = Len(rounds)
    /\ phase = "lobby" => current.roundId = NoRound
    /\ phase \notin {"lobby", "finished"} => current.roundId # NoRound
    /\ current.roundId = NoRound => current.roundKind = "main"
    /\ current.roundId # NoRound => current.questionIndex # NoRound /\ current.openedAtMs # None

RoundsInv ==
    CurrentRoundIsLatest /\ CurrentRoundMirrored /\ OneOpenRound /\ RecoveryBranchOfMain

AnswersInv ==
    /\ \A a \in accepted : a.roundId \in DOMAIN rounds
    /\ AnswersOfCurrentRound
    /\ OneAnswerPerRound

\* The conjunction the proofs carry: the safety invariants of rounds and answers above need
\* each other, and the types, to be preserved.
EngineInv == TypeOK /\ RoundsInv /\ AnswersInv

\* The engine implements the documented lifecycle: its checkpoint is the position of the
\* main checkpoint the current round belongs to.
Lifecycle == INSTANCE RoundLifecycle WITH
    Checkpoints <- MainQuestions,
    stage <- phase,
    checkpoint <- IF current.roundId = NoRound THEN 0 ELSE SourcePosition,
    recovering <- current.roundKind # "main",
    returnTo <- interventionReturnPhase

\* Every behaviour of the engine follows the lifecycle: no command leaves a phase by an edge
\* the lifecycle does not have, skips a main checkpoint, or opens a second recovery branch.
FollowsLifecycle == Lifecycle!LifecycleSpec
===============================================================================
