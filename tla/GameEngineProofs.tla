--------------------------- MODULE GameEngineProofs ---------------------------
(***************************************************************************)
(* What is proved of the live Round engine for every quiz, timing mode,    *)
(* set of participants and bound.                                          *)
(***************************************************************************)
EXTENDS SnapshotProjection, FiniteSetTheorems, NaturalsInduction, SequenceTheorems, TLAPS,
        WellFoundedInduction

-------------------------------------------------------------------------------
(* Helper operators *)

LEMMA AtLeastZeroType ==
    ASSUME NEW n \in Int
    PROVE  AtLeastZero(n) \in Nat
BY DEF AtLeastZero

\* An earned score is a natural number, whatever the time taken.
LEMMA CalculateScoreType ==
    ASSUME NEW right \in BOOLEAN, NEW base \in Nat, NEW elapsed \in Int,
           NEW limit \in Nat \ {0}
    PROVE  CalculateScore(right, base, elapsed, limit) \in Nat
<1> DEFINE left == AtLeastZero(limit - elapsed)
           share == 6 * limit + 4 * left
           dividend == 2 * base * share + 10 * limit
<1>1. left \in Nat
  BY AtLeastZeroType
<1>2. share \in Nat
  BY <1>1
<1>3. 2 * base \in Nat
  OBVIOUS
<1>4. 2 * base * share \in Nat
  <2> HIDE DEF share
  <2> QED BY <1>2, <1>3
<1>5. dividend \in Nat
  <2> HIDE DEF share
  <2> QED BY <1>4
<1>6. 20 * limit \in Nat /\ 20 * limit > 0
  OBVIOUS
<1>7. \A a, b \in Nat : b > 0 => a \div b \in Nat
  OBVIOUS
<1>8. dividend \div (20 * limit) \in Nat
  <2> HIDE DEF dividend
  <2> QED BY <1>5, <1>6, <1>7
<1> QED
  BY <1>8 DEF CalculateScore

LEMMA QuestionType ==
    ASSUME NEW i \in DOMAIN Quiz
    PROVE  /\ Quiz[i] \in [delivery : {"main", "recheck"}, scored : BOOLEAN, basePoints : Nat,
                           timeLimit : Nat \ {0}, hasCard : BOOLEAN]
           /\ i \in Nat \ {0}
<1> DEFINE Question == [delivery : {"main", "recheck"}, scored : BOOLEAN, basePoints : Nat,
                        timeLimit : Nat \ {0}, hasCard : BOOLEAN]
<1>1. Quiz \in Seq(Question)
  BY QuizAssumption
<1> HIDE DEF Question
<1>2. i \in 1..Len(Quiz) /\ Quiz[i] \in Question
  BY <1>1
<1> QED
  BY <1>1, <1>2 DEF Question

LEMMA NextMainQuestionsType ==
    ASSUME NEW after, NEW i \in NextMainQuestions(after)
    PROVE  i \in MainQuestions /\ i \in DOMAIN Quiz
BY DEF NextMainQuestions, LaterMainQuestions, MainQuestions

\* Taking a host command keeps its bookkeeping well typed.
LEMMA HostCommandType ==
    ASSUME TypeOK, NEW events \in Nat, HostCommand(events)
    PROVE  /\ version' \in Nat /\ seq' \in Nat
           /\ processedCommands' \subseteq Nat /\ IsFiniteSet(processedCommands')
<1> DEFINE commandId == Cardinality(processedCommands) + 1
<1>1. commandId \in Nat
  BY FS_CardinalityType DEF TypeOK
<1>2. IsFiniteSet(processedCommands \cup {commandId})
  BY FS_AddElement DEF TypeOK
<1>3. processedCommands' = processedCommands \cup {commandId} /\ NextState(events)
  BY DEF HostCommand
<1> HIDE DEF commandId
<1>4. processedCommands' \subseteq Nat /\ IsFiniteSet(processedCommands')
  BY <1>1, <1>2, <1>3 DEF TypeOK
<1> QED
  BY <1>3, <1>4 DEF NextState, TypeOK

-------------------------------------------------------------------------------
(* Type correctness, one lemma per constructor and one step per action *)

LEMMA OpenQuestionType ==
    ASSUME TypeOK, NEW index \in DOMAIN Quiz, NEW kind \in RoundKinds,
           NEW source \in Nat, NEW interventionId \in Nat,
           OpenQuestion(index, kind, source, interventionId)
    PROVE  TypeOK'
<1> DEFINE round == [questionIndex |-> index, kind |-> kind, sourceRoundId |-> source,
                     interventionId |-> interventionId, openedAtMs |-> now,
                     deadlineMs |-> DeadlineFrom(index), lockedAtMs |-> None]
<1>1. DeadlineFrom(index) \in InstantOrNone
  BY QuestionType DEF DeadlineFrom, InstantOrNone, TypeOK
<1>2. round \in RoundType
  BY <1>1 DEF RoundType, InstantOrNone, TypeOK
<1>3. Append(rounds, round) \in Seq(RoundType) /\ Len(rounds) + 1 \in Nat
  BY <1>2 DEF TypeOK
<1>4. HostCommand(IF kind = "main" THEN 1 ELSE 2)
  BY DEF OpenQuestion
<1>5. /\ version' \in Nat /\ seq' \in Nat
      /\ processedCommands' \subseteq Nat /\ IsFiniteSet(processedCommands')
  BY <1>4, HostCommandType
<1>6. NoIntervention \in InterventionType
  BY DEF NoIntervention, InterventionType, NoRound
<1>7. rounds' \in Seq(RoundType)
  BY <1>3 DEF OpenQuestion
<1>8. current' \in [questionIndex : {NoRound} \cup DOMAIN Quiz, roundId : Nat,
                    roundKind : RoundKinds, sourceRoundId : Nat, openedAtMs : InstantOrNone]
  BY <1>3 DEF OpenQuestion, TypeOK, InstantOrNone
<1> QED
  BY <1>1, <1>5, <1>6, <1>7, <1>8
     DEF OpenQuestion, TypeOK, InstantOrNone, Phases, roomVars, AnswersAtOpen

\* What the type of the current round needs from the other invariants.
LEMMA OpenRoundType ==
    ASSUME EngineInv, phase \notin {"lobby", "finished"}
    PROVE  /\ current.questionIndex \in DOMAIN Quiz
           /\ current.roundId \in DOMAIN rounds /\ current.roundId \in Nat \ {0}
           /\ current.openedAtMs \in Nat
           /\ current.sourceRoundId \in Nat
<1>1. current.roundId # NoRound
  BY DEF EngineInv, RoundsInv, CurrentRoundIsLatest
<1>2. current.questionIndex # NoRound /\ current.openedAtMs # None
  BY <1>1 DEF EngineInv, RoundsInv, CurrentRoundIsLatest
<1>3. current.roundId = Len(rounds) /\ rounds \in Seq(RoundType)
  BY DEF EngineInv, RoundsInv, CurrentRoundIsLatest, TypeOK
<1>4. DOMAIN rounds = 1..Len(rounds)
  BY <1>3
<1> QED
  BY <1>1, <1>2, <1>3, <1>4 DEF EngineInv, TypeOK, NoRound, InstantOrNone

\* Replacing a time of the current round keeps the rounds well typed.
LEMMA RoundExceptType ==
    ASSUME EngineInv, phase \notin {"lobby", "finished"}, NEW t \in InstantOrNone
    PROVE  /\ [rounds EXCEPT ![current.roundId].deadlineMs = t] \in Seq(RoundType)
           /\ [rounds EXCEPT ![current.roundId].lockedAtMs = t] \in Seq(RoundType)
           /\ Len([rounds EXCEPT ![current.roundId].deadlineMs = t]) = Len(rounds)
           /\ Len([rounds EXCEPT ![current.roundId].lockedAtMs = t]) = Len(rounds)
<1> DEFINE c == current.roundId
           d == [rounds[c] EXCEPT !.deadlineMs = t]
           l == [rounds[c] EXCEPT !.lockedAtMs = t]
<1>1. rounds \in Seq(RoundType) /\ c \in 1..Len(rounds)
  <2>1. rounds \in Seq(RoundType)
    BY DEF EngineInv, TypeOK
  <2> QED
    BY <2>1, OpenRoundType
<1>2. rounds[c] \in RoundType
  BY <1>1, ElementOfSeq
<1>3. d \in RoundType /\ l \in RoundType
  BY <1>2 DEF RoundType
<1>4. /\ [rounds EXCEPT ![c] = d] \in Seq(RoundType)
      /\ [rounds EXCEPT ![c] = l] \in Seq(RoundType)
      /\ Len([rounds EXCEPT ![c] = d]) = Len(rounds)
      /\ Len([rounds EXCEPT ![c] = l]) = Len(rounds)
  BY <1>1, <1>3, ExceptSeq
<1> QED
  BY <1>4

LEMMA InitType == Init => TypeOK
<1> SUFFICES ASSUME Init PROVE TypeOK
  OBVIOUS
<1>1. IsFiniteSet(processedCommands)
  BY FS_EmptySet DEF Init
<1>2. NoIntervention \in InterventionType
  BY DEF NoIntervention, InterventionType, NoRound
<1>3. participants \in [Participants -> ParticipantType]
  BY DEF Init, NewParticipant, ParticipantType
<1>4. rounds \in Seq(RoundType) /\ interventions \in Seq(InterventionType)
  BY EmptySeq DEF Init
<1>5. current \in [questionIndex : {NoRound} \cup DOMAIN Quiz, roundId : Nat,
                   roundKind : RoundKinds, sourceRoundId : Nat, openedAtMs : InstantOrNone]
  BY DEF Init, InstantOrNone, RoundKinds, NoRound
<1> QED
  BY <1>1, <1>2, <1>3, <1>4, <1>5 DEF Init, TypeOK, InstantOrNone, Phases

\* Every action preserves the types, given the rest of the invariant.
LEMMA NextType ==
    ASSUME EngineInv, [Next]_vars
    PROVE  TypeOK'
<1> USE DEF EngineInv
<1>0. TypeOK
  OBVIOUS
<1>1. CASE Start
  <2>1. PICK index \in NextMainQuestions(0) : OpenQuestion(index, "main", NoRound, NoRound)
    BY <1>1 DEF Start
  <2> QED
    BY <2>1, <1>0, OpenQuestionType, NextMainQuestionsType DEF NoRound, RoundKinds
<1>2. CASE Pause
  <2>1. RemainingMs \in Nat
    <3>1. deadlineMs - now \in Int
      BY <1>0 DEF TypeOK, InstantOrNone, None
    <3> QED
      BY <3>1, AtLeastZeroType DEF RemainingMs
  <2>2. HostCommand(1)
    BY <1>2 DEF Pause
  <2> QED
    BY <1>0, <1>2, <2>1, <2>2, HostCommandType
       DEF Pause, TypeOK, InstantOrNone, Phases, clockVars, interventionVars, roomVars, answerVars
<1>3. CASE Resume
  <2>1. ResumeDeadline \in InstantOrNone
    BY <1>0, <1>3 DEF Resume, ResumeDeadline, TypeOK, InstantOrNone
  <2>2. RoundsOnResume(ResumeDeadline) \in Seq(RoundType)
    BY <1>3, <2>1, RoundExceptType DEF Resume, RoundsOnResume
  <2>3. HostCommand(1)
    BY <1>3 DEF Resume
  <2> QED
    BY <1>0, <1>3, <2>1, <2>2, <2>3, HostCommandType
       DEF Resume, TypeOK, InstantOrNone, Phases, clockVars, interventionVars, roomVars, answerVars
<1>4. CASE Lock
  <2>1. [rounds EXCEPT ![current.roundId].lockedAtMs = now] \in Seq(RoundType)
    BY <1>0, <1>4, RoundExceptType DEF Lock, TypeOK, InstantOrNone
  <2>2. HostCommand(2)
    BY <1>4 DEF Lock
  <2> QED
    BY <1>0, <1>4, <2>1, <2>2, HostCommandType
       DEF Lock, TypeOK, InstantOrNone, Phases, clockVars, interventionVars, roomVars, answerVars
<1>5. CASE Reveal \/ ShowLeaderboard
  <2>1. HostCommand(1)
    BY <1>5 DEF Reveal, ShowLeaderboard
  <2> QED
    BY <1>0, <1>5, <2>1, HostCommandType
       DEF Reveal, ShowLeaderboard, TypeOK, Phases, clockVars, pauseVars, interventionVars,
           roomVars, answerVars
<1>6. ASSUME NEW type \in InterventionTypes, NEW card \in {NoRound} \cup DOMAIN Quiz,
             InterventionStart(type, card)
      PROVE  TypeOK'
  <2> DEFINE started == [id |-> Len(interventions) + 1, type |-> type,
                         sourceRoundId |-> current.roundId, card |-> card, finished |-> FALSE]
  <2>1. Len(interventions) + 1 \in Nat
    BY <1>0 DEF TypeOK
  <2>2. started \in InterventionType
    BY <1>0, <2>1 DEF InterventionType, TypeOK
  <2>3. intervention' = started /\ interventions' = Append(interventions, started)
    BY <1>6 DEF InterventionStart
  <2> HIDE DEF started
  <2>4. interventions' \in Seq(InterventionType)
    BY <1>0, <2>2, <2>3 DEF TypeOK
  <2>5. phase \in {"question_locked", "question_reveal"}
    BY <1>6 DEF InterventionStart, StartsIn, InterventionTypes
  <2>6. HostCommand(1)
    BY <1>6 DEF InterventionStart
  <2> QED
    BY <1>0, <1>6, <2>2, <2>3, <2>4, <2>5, <2>6, HostCommandType
       DEF InterventionStart, TypeOK, Phases, clockVars, pauseVars, roomVars, answerVars
<1>7. CASE InterventionFinish
  <2> DEFINE done == [intervention EXCEPT !.finished = TRUE]
  <2>1. done \in InterventionType
    BY <1>0 DEF TypeOK, InterventionType
  <2>2. intervention' = done /\ interventions' = [interventions EXCEPT ![done.id] = done]
    BY <1>7 DEF InterventionFinish, InterventionsFinished
  <2> HIDE DEF done
  <2>3. interventions' \in Seq(InterventionType)
    <3>1. interventions \in Seq(InterventionType)
      BY <1>0 DEF TypeOK
    <3>2. CASE done.id \in 1..Len(interventions)
      BY <2>1, <2>2, <3>1, <3>2, ExceptSeq
    <3>3. CASE done.id \notin 1..Len(interventions)
      <4>1. DOMAIN interventions = 1..Len(interventions)
        BY <3>1
      <4>2. interventions \in [1..Len(interventions) -> InterventionType]
        BY <3>1
      <4>3. interventions' = interventions
        BY <2>2, <3>3, <4>1, <4>2
      <4> QED
        BY <3>1, <4>3
    <3> QED
      BY <3>2, <3>3
  <2>4. HostCommand(2)
    BY <1>7 DEF InterventionFinish
  <2> QED
    BY <1>0, <1>7, <2>1, <2>2, <2>3, <2>4, HostCommandType
       DEF InterventionFinish, TypeOK, Phases, clockVars, pauseVars, roomVars, answerVars
<1>8. ASSUME NEW target \in RecheckQuestions, OpenLinkedRecheck(target)
      PROVE  TypeOK'
  <2>1. OpenQuestion(target, "linked_recheck", current.roundId, intervention.id)
    BY <1>8 DEF OpenLinkedRecheck
  <2>2. /\ target \in DOMAIN Quiz /\ current.roundId \in Nat /\ intervention.id \in Nat
        /\ "linked_recheck" \in RoundKinds
    BY <1>0 DEF TypeOK, RecheckQuestions, InterventionType, RoundKinds
  <2> QED
    BY <1>0, <2>1, <2>2, OpenQuestionType
<1>9. CASE OpenRevote
  <2>1. OpenQuestion(current.questionIndex, "revote", current.roundId, intervention.id)
    BY <1>9 DEF OpenRevote
  <2>2. /\ current.questionIndex \in DOMAIN Quiz
        /\ current.roundId \in Nat /\ intervention.id \in Nat /\ "revote" \in RoundKinds
    BY <1>0, <1>9, OpenRoundType
       DEF TypeOK, InterventionType, RoundKinds, OpenRevote, RecheckAllowed
  <2> QED
    BY <1>0, <2>1, <2>2, OpenQuestionType
<1>10. CASE NextQuestion
  <2>1. PICK index \in NextMainQuestions(SourcePosition) :
            OpenQuestion(index, "main", NoRound, NoRound)
    BY <1>10 DEF NextQuestion
  <2> QED
    BY <2>1, <1>0, OpenQuestionType, NextMainQuestionsType DEF NoRound, RoundKinds
<1>11. CASE NextFinishes \/ End
  <2>1. Finish /\ HostCommand(1)
    BY <1>11 DEF NextFinishes, End, Finish
  <2> QED
    BY <1>0, <2>1, HostCommandType
       DEF Finish, TypeOK, InstantOrNone, Phases, clockVars, interventionVars, roomVars
<1>12. ASSUME NEW locked \in BOOLEAN, SetLobbyLock(locked)
       PROVE  TypeOK'
  <2>1. HostCommand(1)
    BY <1>12 DEF SetLobbyLock
  <2> QED
    BY <1>0, <1>12, <2>1, HostCommandType
       DEF SetLobbyLock, TypeOK, clockVars, pauseVars, interventionVars, answerVars
<1>13. ASSUME NEW p \in Participants,
              AddParticipant(p) \/ SetParticipantConnection(p) \/ Kick(p)
       PROVE  TypeOK'
  <2>1. participants' \in [Participants -> ParticipantType]
    <3>1. participants \in [Participants -> ParticipantType]
      BY <1>0 DEF TypeOK
    <3>2. CASE AddParticipant(p)
      <4>1. participants' = [participants EXCEPT ![p].status = "active", ![p].connected = TRUE]
        BY <3>2 DEF AddParticipant
      <4> QED
        BY <3>1, <4>1 DEF ParticipantType
    <3>3. CASE SetParticipantConnection(p)
      <4>1. participants' = [participants EXCEPT ![p].connected = ~@]
        BY <3>3 DEF SetParticipantConnection
      <4> DEFINE toggled == ~participants[p].connected
      <4>2. participants[p].connected \in BOOLEAN
        BY <3>1 DEF ParticipantType
      <4>3. toggled \in BOOLEAN
        BY <4>2
      <4>4. participants' = [participants EXCEPT ![p].connected = toggled]
        BY <4>1
      <4> HIDE DEF toggled
      <4> QED
        BY <3>1, <4>3, <4>4 DEF ParticipantType
    <3>4. CASE Kick(p)
      <4>1. participants' = [participants EXCEPT ![p].status = "kicked", ![p].connected = FALSE]
        BY <3>4 DEF Kick
      <4> QED
        BY <3>1, <4>1 DEF ParticipantType
    <3> QED
      BY <1>13, <3>2, <3>3, <3>4
  <2>2. CASE Kick(p)
    <3>1. HostCommand(1)
      BY <2>2 DEF Kick
    <3> QED
      BY <1>0, <2>1, <2>2, <3>1, HostCommandType
         DEF Kick, TypeOK, clockVars, pauseVars, interventionVars, answerVars
  <2>3. CASE AddParticipant(p) \/ SetParticipantConnection(p)
    BY <1>0, <2>1, <2>3
       DEF AddParticipant, SetParticipantConnection, NextState, TypeOK, clockVars, pauseVars,
           interventionVars, answerVars
  <2> QED
    BY <1>13, <2>2, <2>3
<1>14. ASSUME NEW p \in Participants, NEW key \in Keys, NEW right \in BOOLEAN,
              NEW receivedAt \in 0..now, receivedAt >= current.openedAtMs,
              AcceptAnswer(p, key, right, receivedAt)
       PROVE  TypeOK'
  <2> DEFINE responseMs == receivedAt - current.openedAtMs
             question == Quiz[current.questionIndex]
             score == IF Scored
                      THEN CalculateScore(right, question.basePoints, responseMs,
                                          question.timeLimit)
                      ELSE 0
             answer == [participant |-> p, roundId |-> current.roundId, key |-> key,
                        right |-> right, score |-> score, acceptedAtMs |-> receivedAt]
  <2>1. phase \notin {"lobby", "finished"}
    BY <1>14 DEF AcceptAnswer
  <2>2. receivedAt \in Nat /\ responseMs \in Nat
    BY <1>0, <1>14, <2>1, OpenRoundType DEF TypeOK
  <2>3. question.basePoints \in Nat /\ question.timeLimit \in Nat \ {0}
    BY <2>1, OpenRoundType, QuestionType
  <2>4. score \in Nat
    BY <2>2, <2>3, CalculateScoreType
  <2>5. answer \in AnswerType
    <3> HIDE DEF score
    <3> QED BY <2>1, <2>2, <2>4, OpenRoundType DEF AnswerType
  <2>6. /\ answers' = answers \cup {answer} /\ accepted' = accepted \cup {answer}
        /\ participants' = Credit(p, score, right, responseMs)
    BY <1>14 DEF AcceptAnswer
  <2> HIDE DEF answer, score, responseMs
  <2>7. participants' \in [Participants -> ParticipantType]
    <3> DEFINE right1 == IF Scored /\ right THEN 1 ELSE 0
               ms == IF Scored THEN responseMs ELSE 0
    <3>1. right1 \in Nat /\ ms \in Nat
      BY <2>2
    <3>2. participants[p].score + score \in Nat /\ participants[p].correctCount + right1 \in Nat
          /\ participants[p].acceptedResponseMs + ms \in Nat
      <4> HIDE DEF right1, ms
      <4> QED BY SMTT(30), <1>0, <2>4, <3>1 DEF TypeOK, ParticipantType
    <3>3. participants' = [participants EXCEPT ![p].score = @ + score,
                              ![p].correctCount = @ + right1, ![p].acceptedResponseMs = @ + ms]
      BY <2>6 DEF Credit
    <3> HIDE DEF right1, ms
    <3> DEFINE credited == [participants[p] EXCEPT !.score = @ + score,
                               !.correctCount = @ + right1, !.acceptedResponseMs = @ + ms]
    <3>4. participants \in [Participants -> ParticipantType]
      BY <1>0 DEF TypeOK
    <3>5. credited \in ParticipantType
      BY <3>2, <3>4 DEF ParticipantType
    <3>6. participants' = [participants EXCEPT ![p] = credited]
      BY <3>3, <3>4
    <3> HIDE DEF credited
    <3> QED
      BY <3>4, <3>5, <3>6
  <2> QED
    BY <1>0, <1>14, <2>5, <2>6, <2>7
       DEF AcceptAnswer, NextState, TypeOK, clockVars, pauseVars, interventionVars
<1>15. CASE Tick
  BY <1>0, <1>15 DEF Tick, TypeOK, pauseVars, interventionVars, roomVars, answerVars
<1>16. CASE UNCHANGED vars
  BY <1>0, <1>16 DEF vars, TypeOK
<1> QED
  BY <1>1, <1>2, <1>3, <1>4, <1>5, <1>6, <1>7, <1>8, <1>9, <1>10, <1>11, <1>12, <1>13,
     <1>14, <1>15, <1>16 DEF Next

-------------------------------------------------------------------------------
(* The rounds *)

\* Opening a round: only after every earlier one was locked.
LEMMA OpenQuestionRounds ==
    ASSUME EngineInv, NEW index \in DOMAIN Quiz, NEW kind \in RoundKinds,
           NEW source \in Nat, NEW interventionId \in Nat,
           OpenQuestion(index, kind, source, interventionId),
           phase \in {"lobby", "question_locked", "question_reveal", "leaderboard"},
           kind # "main" => /\ current.roundKind = "main" /\ source = current.roundId
                            /\ phase # "lobby"
                            /\ kind = "revote" => index = current.questionIndex
    PROVE  RoundsInv'
<1> DEFINE n == Len(rounds)
           round == [questionIndex |-> index, kind |-> kind, sourceRoundId |-> source,
                     interventionId |-> interventionId, openedAtMs |-> now,
                     deadlineMs |-> DeadlineFrom(index), lockedAtMs |-> None]
<1>1. TypeOK /\ RoundsInv
  BY DEF EngineInv
<1>2. /\ phase' = "question_open" /\ deadlineMs' = DeadlineFrom(index)
      /\ current' = [questionIndex |-> index, roundId |-> n + 1, roundKind |-> kind,
                     sourceRoundId |-> source, openedAtMs |-> now]
      /\ rounds' = Append(rounds, round)
  BY DEF OpenQuestion
<1>3. n \in Nat /\ DOMAIN rounds = 1..n /\ rounds \in Seq(RoundType)
  BY <1>1 DEF TypeOK
<1>4. round \in RoundType
  <2>1. DeadlineFrom(index) \in InstantOrNone
    BY <1>1, QuestionType DEF DeadlineFrom, InstantOrNone, TypeOK
  <2> QED
    BY <1>1, <2>1 DEF RoundType, InstantOrNone, TypeOK
<1>5. /\ round.questionIndex = index /\ round.kind = kind /\ round.sourceRoundId = source
      /\ round.openedAtMs = now /\ round.deadlineMs = DeadlineFrom(index)
      /\ round.lockedAtMs = None
  OBVIOUS
<1> HIDE DEF round
<1>6. /\ DOMAIN rounds' = 1..(n + 1) /\ Len(rounds') = n + 1 /\ rounds'[n + 1] = round
      /\ \A r \in 1..n : rounds'[r] = rounds[r]
  BY <1>2, <1>3, <1>4, AppendProperties
<1>7. \A r \in 1..n : rounds[r].lockedAtMs # None
  BY <1>1, <1>3 DEF RoundsInv, OneOpenRound
<1>8. CurrentRoundIsLatest'
  BY <1>1, <1>2, <1>3, <1>6, QuestionType DEF CurrentRoundIsLatest, NoRound, None, TypeOK
<1>9. CurrentRoundMirrored'
  BY <1>2, <1>3, <1>5, <1>6 DEF CurrentRoundMirrored, NoRound
<1>10. OneOpenRound'
  BY <1>2, <1>3, <1>6, <1>7 DEF OneOpenRound
<1>11. RecoveryBranchOfMain'
  <2>1. current.roundId = n
    BY <1>1 DEF RoundsInv, CurrentRoundIsLatest
  <2>2. ASSUME kind # "main"
        PROVE  /\ source = n /\ n \in 1..n /\ rounds[n].kind = "main"
               /\ kind = "revote" => index = rounds[n].questionIndex
    BY <1>1, <1>3, <2>1, <2>2
       DEF RoundsInv, CurrentRoundIsLatest, CurrentRoundMirrored, NoRound
  <2>3. ASSUME NEW r \in 1..(n + 1), rounds'[r].kind # "main"
        PROVE  /\ rounds'[r].sourceRoundId = r - 1 /\ r - 1 \in 1..(n + 1)
               /\ rounds'[r - 1].kind = "main"
               /\ rounds'[r - 1].lockedAtMs # None
               /\ rounds'[r].kind = "revote"
                      => rounds'[r].questionIndex = rounds'[r - 1].questionIndex
    <3>1. CASE r = n + 1
      BY <1>3, <1>5, <1>6, <1>7, <2>2, <2>3, <3>1
    <3>2. CASE r \in 1..n
      <4>1. /\ rounds[r].sourceRoundId = r - 1 /\ r - 1 \in 1..n
            /\ rounds[r - 1].kind = "main" /\ rounds[r - 1].lockedAtMs # None
            /\ rounds[r].kind = "revote"
                   => rounds[r].questionIndex = rounds[r - 1].questionIndex
        BY <1>1, <1>3, <1>6, <2>3, <3>2 DEF RoundsInv, RecoveryBranchOfMain
      <4> QED
        BY <1>3, <1>6, <3>2, <4>1
    <3> QED
      BY <1>3, <3>1, <3>2
  <2> QED
    BY <1>6, <2>3 DEF RecoveryBranchOfMain
<1> QED
  BY <1>8, <1>9, <1>10, <1>11 DEF RoundsInv

\* A step that leaves the rounds alone: an open round may be paused or ended, and a locked one
\* never becomes open.
LEMMA RoundsKept ==
    ASSUME EngineInv, UNCHANGED <<rounds, current>>,
           \/ phase' = phase /\ UNCHANGED deadlineMs
           \/ phase = "question_open" /\ phase' = "paused"
           \/ phase # "lobby" /\ phase' \notin {"lobby", "question_open", "paused", "finished"}
                  /\ phase \notin {"question_open", "paused", "finished"}
           \/ phase' = "finished"
    PROVE  RoundsInv'
<1>1. RoundsInv
  BY DEF EngineInv
<1>2. CurrentRoundIsLatest'
  BY <1>1 DEF RoundsInv, CurrentRoundIsLatest
<1>3. CurrentRoundMirrored'
  BY <1>1 DEF RoundsInv, CurrentRoundMirrored
<1>4. OneOpenRound'
  <2>1. current.roundId \in Nat /\ DOMAIN rounds = 1..Len(rounds) /\ current.roundId = Len(rounds)
    BY <1>1 DEF EngineInv, TypeOK, RoundsInv, CurrentRoundIsLatest
  <2> QED
    BY <1>1, <2>1 DEF RoundsInv, OneOpenRound, CurrentRoundIsLatest
<1>5. RecoveryBranchOfMain'
  BY <1>1 DEF RoundsInv, RecoveryBranchOfMain
<1> QED
  BY <1>2, <1>3, <1>4, <1>5 DEF RoundsInv

\* resume and lock write one time of the current round.
LEMMA RoundsTimed ==
    ASSUME EngineInv, Resume \/ Lock
    PROVE  RoundsInv'
<1> DEFINE c == current.roundId
<1>1. TypeOK /\ RoundsInv /\ phase \notin {"lobby", "finished"}
  BY DEF EngineInv, Resume, Lock
<1>2. c \in 1..Len(rounds) /\ c = Len(rounds) /\ DOMAIN rounds = 1..Len(rounds)
  BY <1>1, OpenRoundType DEF RoundsInv, CurrentRoundIsLatest, TypeOK
<1>3. current' = current
  BY DEF Resume, Lock
<1>4. /\ DOMAIN rounds' = DOMAIN rounds /\ Len(rounds') = Len(rounds)
      /\ \A r \in 1..Len(rounds) :
             /\ rounds'[r].questionIndex = rounds[r].questionIndex
             /\ rounds'[r].kind = rounds[r].kind
             /\ rounds'[r].sourceRoundId = rounds[r].sourceRoundId
             /\ rounds'[r].openedAtMs = rounds[r].openedAtMs
             /\ rounds'[r].lockedAtMs # None \/ rounds'[r].lockedAtMs = rounds[r].lockedAtMs
  <2>1. rounds \in Seq(RoundType) /\ now \in Nat
    BY <1>1 DEF TypeOK
  <2>2. \A r \in 1..Len(rounds) : rounds[r] \in RoundType
    BY <2>1
  <2>3. CASE Resume
    <3>1. rounds' = [rounds EXCEPT ![c].deadlineMs = ResumeDeadline]
      BY <2>3 DEF Resume, RoundsOnResume
    <3>2. ResumeDeadline \in InstantOrNone
      BY <1>1, <2>3 DEF Resume, ResumeDeadline, TypeOK, InstantOrNone
    <3>3. Len(rounds') = Len(rounds)
      BY <1>1, <3>1, <3>2, RoundExceptType
    <3> QED
      BY <1>2, <2>2, <3>1, <3>3 DEF RoundType
  <2>4. CASE Lock
    <3>1. rounds' = [rounds EXCEPT ![c].lockedAtMs = now]
      BY <2>4 DEF Lock
    <3>2. Len(rounds') = Len(rounds)
      BY <1>1, <2>1, <3>1, RoundExceptType DEF InstantOrNone
    <3> QED
      BY SMTT(30), <1>2, <2>1, <2>2, <3>1, <3>2 DEF RoundType, None
  <2> QED
    BY <2>3, <2>4
<1>5. \/ /\ Resume /\ phase' = "question_open" /\ deadlineMs' = ResumeDeadline
         /\ rounds'[c].deadlineMs = ResumeDeadline
      \/ Lock /\ phase' = "question_locked" /\ rounds'[c].lockedAtMs # None
  <2>1. rounds[c] \in RoundType /\ now \in Nat
    BY <1>1, <1>2, ElementOfSeq DEF TypeOK
  <2> QED
    BY <1>2, <2>1 DEF Resume, RoundsOnResume, Lock, RoundType, None
<1>6. CurrentRoundIsLatest'
  BY <1>1, <1>2, <1>3, <1>4, <1>5 DEF RoundsInv, CurrentRoundIsLatest
<1>7. CurrentRoundMirrored'
  BY <1>1, <1>2, <1>3, <1>4, <1>5 DEF RoundsInv, CurrentRoundMirrored
<1>8. OneOpenRound'
  BY <1>1, <1>2, <1>3, <1>4, <1>5 DEF RoundsInv, OneOpenRound
<1>9. RecoveryBranchOfMain'
  BY <1>1, <1>2, <1>4 DEF RoundsInv, RecoveryBranchOfMain
<1> QED
  BY <1>6, <1>7, <1>8, <1>9 DEF RoundsInv

\* Every action keeps the rounds in order.
LEMMA NextRounds ==
    ASSUME EngineInv, [Next]_vars
    PROVE  RoundsInv'
<1>0. TypeOK /\ RoundsInv
  BY DEF EngineInv
<1>1. CASE Start
  <2>1. PICK index \in NextMainQuestions(0) : OpenQuestion(index, "main", NoRound, NoRound)
    BY <1>1 DEF Start
  <2> QED
    BY <1>1, <2>1, OpenQuestionRounds, NextMainQuestionsType DEF Start, NoRound, RoundKinds
<1>2. CASE Pause
  BY <1>2, RoundsKept DEF Pause
<1>3. CASE Resume \/ Lock
  BY <1>3, RoundsTimed
<1>4. CASE Reveal \/ ShowLeaderboard
  BY <1>4, RoundsKept DEF Reveal, ShowLeaderboard
<1>5. ASSUME NEW type \in InterventionTypes, NEW card \in {NoRound} \cup DOMAIN Quiz,
             InterventionStart(type, card)
      PROVE  RoundsInv'
  <2>1. phase \in {"question_locked", "question_reveal"}
    BY <1>5 DEF InterventionStart, StartsIn, InterventionTypes
  <2> QED
    BY <1>5, <2>1, RoundsKept DEF InterventionStart
<1>6. CASE InterventionFinish
  <2>1. phase' \in {"question_locked", "question_reveal"} /\ phase = "intervention"
    BY <1>0, <1>6 DEF InterventionFinish, TypeOK
  <2> QED
    BY <1>6, <2>1, RoundsKept DEF InterventionFinish
<1>7. ASSUME RecheckAllowed
      PROVE  /\ current.roundKind = "main" /\ current.roundId \in Nat
             /\ current.questionIndex \in DOMAIN Quiz /\ intervention.id \in Nat
             /\ phase \in {"question_locked", "question_reveal"}
  BY <1>0, <1>7, OpenRoundType DEF RecheckAllowed, TypeOK, InterventionType
<1>8. ASSUME NEW target \in RecheckQuestions, OpenLinkedRecheck(target)
      PROVE  RoundsInv'
  <2>1. OpenQuestion(target, "linked_recheck", current.roundId, intervention.id)
        /\ RecheckAllowed
    BY <1>8 DEF OpenLinkedRecheck
  <2>2. target \in DOMAIN Quiz /\ "linked_recheck" \in RoundKinds
    BY DEF RecheckQuestions, RoundKinds
  <2> QED
    BY <1>7, <2>1, <2>2, OpenQuestionRounds
<1>9. CASE OpenRevote
  <2>1. OpenQuestion(current.questionIndex, "revote", current.roundId, intervention.id)
        /\ RecheckAllowed /\ "revote" \in RoundKinds
    BY <1>9 DEF OpenRevote, RoundKinds
  <2> QED
    BY <1>7, <2>1, OpenQuestionRounds
<1>10. CASE NextQuestion
  <2>1. PICK index \in NextMainQuestions(SourcePosition) :
            OpenQuestion(index, "main", NoRound, NoRound)
    BY <1>10 DEF NextQuestion
  <2> QED
    BY <1>10, <2>1, OpenQuestionRounds, NextMainQuestionsType
       DEF NextQuestion, AdvancesFrom, NoRound, RoundKinds
<1>11. CASE NextFinishes \/ End
  BY <1>11, RoundsKept DEF NextFinishes, End, Finish
<1>12. ASSUME NEW locked \in BOOLEAN, SetLobbyLock(locked)
       PROVE  RoundsInv'
  BY <1>12, RoundsKept DEF SetLobbyLock, pauseVars
<1>13. ASSUME NEW p \in Participants,
              AddParticipant(p) \/ SetParticipantConnection(p) \/ Kick(p)
       PROVE  RoundsInv'
  BY <1>13, RoundsKept DEF AddParticipant, SetParticipantConnection, Kick, pauseVars
<1>14. ASSUME NEW p \in Participants, NEW key \in Keys, NEW right \in BOOLEAN,
              NEW receivedAt \in 0..now, AcceptAnswer(p, key, right, receivedAt)
       PROVE  RoundsInv'
  BY <1>14, RoundsKept DEF AcceptAnswer, pauseVars
<1>15. CASE Tick \/ UNCHANGED vars
  BY <1>15, RoundsKept DEF Tick, vars, pauseVars
<1> QED
  BY <1>1, <1>2, <1>3, <1>4, <1>5, <1>6, <1>8, <1>9, <1>10, <1>11, <1>12, <1>13, <1>14, <1>15
     DEF Next

-------------------------------------------------------------------------------
(* The answers *)

\* Opening a round starts it without answers: no answer was accepted under its identifier.
LEMMA OpenQuestionAnswers ==
    ASSUME EngineInv, NEW index, NEW kind, NEW source, NEW interventionId,
           OpenQuestion(index, kind, source, interventionId)
    PROVE  AnswersInv'
<1>1. TypeOK /\ AnswersInv
  BY DEF EngineInv
<1>2. /\ answers' = {} /\ accepted' = accepted /\ phase' = "question_open"
      /\ current'.roundId = Len(rounds) + 1
  BY DEF OpenQuestion, AnswersAtOpen
<1>3. DOMAIN rounds = 1..Len(rounds) /\ Len(rounds) \in Nat
  BY <1>1 DEF TypeOK
<1>4. \A a \in accepted : a.roundId \in DOMAIN rounds /\ a.roundId # Len(rounds) + 1
  BY <1>1, <1>3 DEF AnswersInv
<1>5. DOMAIN rounds \subseteq DOMAIN rounds'
  <2> DEFINE round == [questionIndex |-> index, kind |-> kind, sourceRoundId |-> source,
                       interventionId |-> interventionId, openedAtMs |-> now,
                       deadlineMs |-> DeadlineFrom(index), lockedAtMs |-> None]
  <2>1. rounds' = Append(rounds, round)
    BY DEF OpenQuestion
  <2> HIDE DEF round
  <2>2. DOMAIN rounds' = 1..(Len(rounds) + 1)
    BY <2>1, <1>1 DEF TypeOK
  <2> QED
    BY <1>3, <2>2
<1>6. AnswersOfCurrentRound'
  BY <1>2, <1>4 DEF AnswersOfCurrentRound
<1> QED
  BY <1>1, <1>2, <1>4, <1>5, <1>6 DEF AnswersInv, OneAnswerPerRound

\* A step that opens no round, ends nothing and accepts nothing.
LEMMA AnswersUntouched ==
    ASSUME EngineInv, UNCHANGED <<answers, accepted>>, UNCHANGED current,
           DOMAIN rounds' = DOMAIN rounds, phase = "finished" <=> phase' = "finished"
    PROVE  AnswersInv'
BY DEF EngineInv, AnswersInv, AnswersOfCurrentRound, OneAnswerPerRound

\* The duplicate checks look at the current round's answers only; they suffice because those
\* are all the answers the round has.
LEMMA AcceptAnswerOnce ==
    ASSUME EngineInv, NEW p \in Participants, NEW key \in Keys, NEW right \in BOOLEAN,
           NEW receivedAt \in 0..now, AcceptAnswer(p, key, right, receivedAt)
    PROVE  AnswersInv'
<1>1. TypeOK /\ AnswersInv
  BY DEF EngineInv
<1>2. phase = "question_open" /\ phase' = phase /\ UNCHANGED <<current, rounds>>
  BY DEF AcceptAnswer
<1>3. PICK answer : /\ answers' = answers \cup {answer} /\ accepted' = accepted \cup {answer}
                    /\ answer.participant = p /\ answer.roundId = current.roundId
  <2> DEFINE responseMs == receivedAt - current.openedAtMs
             question == Quiz[current.questionIndex]
             score == IF Scored
                      THEN CalculateScore(right, question.basePoints, responseMs,
                                          question.timeLimit)
                      ELSE 0
             new == [participant |-> p, roundId |-> current.roundId, key |-> key,
                     right |-> right, score |-> score, acceptedAtMs |-> receivedAt]
  <2>1. answers' = answers \cup {new} /\ accepted' = accepted \cup {new}
    BY DEF AcceptAnswer
  <2>2. new.participant = p /\ new.roundId = current.roundId
    OBVIOUS
  <2> HIDE DEF new
  <2> QED
    BY <2>1, <2>2
<1>4. current.roundId \in DOMAIN rounds
  BY <1>2, OpenRoundType
<1>5. \A a \in accepted : a.participant # p \/ a.roundId # current.roundId
  BY <1>1, <1>2 DEF AcceptAnswer, HasNotAnswered, AnswersInv, AnswersOfCurrentRound
<1>6. AnswersOfCurrentRound'
  BY <1>1, <1>2, <1>3 DEF AnswersInv, AnswersOfCurrentRound
<1>7. OneAnswerPerRound'
  BY <1>1, <1>3, <1>5 DEF AnswersInv, OneAnswerPerRound
<1> QED
  BY <1>1, <1>2, <1>3, <1>4, <1>6, <1>7 DEF AnswersInv

\* Every action keeps one answer per participant and round.
LEMMA NextAnswers ==
    ASSUME EngineInv, [Next]_vars
    PROVE  AnswersInv'
<1>1. ASSUME NEW index, NEW kind, NEW source, NEW id, OpenQuestion(index, kind, source, id)
      PROVE  AnswersInv'
  BY <1>1, OpenQuestionAnswers
<1>2. CASE Start \/ NextQuestion \/ OpenRevote
           \/ \E target \in RecheckQuestions : OpenLinkedRecheck(target)
  BY <1>1, <1>2 DEF Start, NextQuestion, OpenRevote, OpenLinkedRecheck
<1>3. CASE Pause \/ Resume \/ Lock \/ Reveal \/ ShowLeaderboard
  BY <1>3, AnswersUntouched
     DEF Pause, Resume, RoundsOnResume, Lock, Reveal, ShowLeaderboard, answerVars
<1>4. ASSUME NEW type \in InterventionTypes, NEW card \in {NoRound} \cup DOMAIN Quiz,
             InterventionStart(type, card)
      PROVE  AnswersInv'
  <2>1. phase # "finished"
    BY <1>4 DEF InterventionStart, StartsIn, InterventionTypes
  <2> QED
    BY <1>4, <2>1, AnswersUntouched DEF InterventionStart, answerVars
<1>5. CASE InterventionFinish
  <2>1. phase' # "finished"
    BY <1>5 DEF InterventionFinish, EngineInv, TypeOK
  <2> QED
    BY <1>5, <2>1, AnswersUntouched DEF InterventionFinish, answerVars
<1>6. CASE NextFinishes \/ End
  <2>1. Finish
    BY <1>6 DEF NextFinishes, End
  <2> QED
    BY <2>1 DEF Finish, EngineInv, AnswersInv, AnswersOfCurrentRound, OneAnswerPerRound
<1>7. ASSUME NEW locked \in BOOLEAN, SetLobbyLock(locked)
      PROVE  AnswersInv'
  BY <1>7, AnswersUntouched DEF SetLobbyLock, answerVars
<1>8. ASSUME NEW p \in Participants,
             AddParticipant(p) \/ SetParticipantConnection(p) \/ Kick(p)
      PROVE  AnswersInv'
  BY <1>8, AnswersUntouched DEF AddParticipant, SetParticipantConnection, Kick, answerVars
<1>9. ASSUME NEW p \in Participants, NEW key \in Keys, NEW right \in BOOLEAN,
             NEW receivedAt \in 0..now, AcceptAnswer(p, key, right, receivedAt)
      PROVE  AnswersInv'
  BY <1>9, AcceptAnswerOnce
<1>10. CASE Tick \/ UNCHANGED vars
  BY <1>10, AnswersUntouched DEF Tick, vars, answerVars
<1> QED
  BY <1>2, <1>3, <1>4, <1>5, <1>6, <1>7, <1>8, <1>9, <1>10 DEF Next

-------------------------------------------------------------------------------
(* The theorems *)

LEMMA InitInv == Init => EngineInv
<1> SUFFICES ASSUME Init PROVE EngineInv
  OBVIOUS
<1>1. rounds = <<>> /\ DOMAIN rounds = {} /\ Len(rounds) = 0
  BY DEF Init
<1>2. RoundsInv
  BY <1>1 DEF Init, RoundsInv, CurrentRoundIsLatest, CurrentRoundMirrored, OneOpenRound,
              RecoveryBranchOfMain, NoRound
<1>3. AnswersInv
  BY <1>1 DEF Init, AnswersInv, AnswersOfCurrentRound, OneAnswerPerRound
<1> QED
  BY <1>2, <1>3, InitType DEF EngineInv

\* The inductive invariant: types, rounds and answers together, for every quiz, timing mode
\* and set of participants.
THEOREM EngineInvariant == Spec => []EngineInv
<1>1. Init => EngineInv
  BY InitInv
<1>2. EngineInv /\ [Next]_vars => EngineInv'
  <2> SUFFICES ASSUME EngineInv, [Next]_vars PROVE EngineInv'
    OBVIOUS
  <2> QED
    BY NextType, NextRounds, NextAnswers DEF EngineInv
<1> QED
  BY <1>1, <1>2, PTL DEF Spec

\* The engine's state keeps the types its TypeScript interfaces declare.
THEOREM TypeCorrect == Spec => []TypeOK
<1>1. EngineInv => TypeOK
  BY DEF EngineInv
<1> QED
  BY <1>1, EngineInvariant, PTL

\* The rounds table: at most one round is open, and it is the current one; the current
\* round's row mirrors the session's own copy, its deadline included; recoveries branch off
\* the locked main round before them.
THEOREM RoundsTable == Spec => []RoundsInv
<1>1. EngineInv => RoundsInv
  BY DEF EngineInv
<1> QED
  BY <1>1, EngineInvariant, PTL

\* Every recheck and revote branches off the locked main round right before it.
THEOREM RecoveryBranches == Spec => []RecoveryBranchOfMain
<1>1. EngineInv => RecoveryBranchOfMain
  BY DEF EngineInv, RoundsInv
<1> QED
  BY <1>1, EngineInvariant, PTL

\* No participant has two accepted answers in one round, however answers are retried: the
\* duplicate check over the current round's answers is enough.
THEOREM OneAcceptedAnswer == Spec => []OneAnswerPerRound
<1>1. EngineInv => OneAnswerPerRound
  BY DEF EngineInv, AnswersInv
<1> QED
  BY <1>1, EngineInvariant, PTL
-------------------------------------------------------------------------------
(* Time *)

\* The times are numbers, and the limit of the round in progress is one.
LEMMA TimesType ==
    ASSUME EngineInv
    PROVE  /\ now \in Nat /\ openMs \in Nat /\ None = -1
           /\ deadlineMs \in Nat \cup {None} /\ pausedRemainingMs \in Nat \cup {None}
           /\ phase \in {"question_open", "paused"}
                  => Quiz[current.questionIndex].timeLimit \in Nat
<1>1. ASSUME phase \in {"question_open", "paused"}
      PROVE  Quiz[current.questionIndex].timeLimit \in Nat
  <2>1. phase \notin {"lobby", "finished"}
    BY <1>1
  <2> QED
    BY <2>1, OpenRoundType, QuestionType
<1> QED
  BY <1>1 DEF EngineInv, TypeOK, InstantOrNone, None

LEMMA OpenQuestionTiming ==
    ASSUME EngineInv, NEW index \in DOMAIN Quiz, NEW kind, NEW source, NEW interventionId,
           OpenQuestion(index, kind, source, interventionId)
    PROVE  TimingInv'
<1>1. /\ phase' = "question_open" /\ deadlineMs' = DeadlineFrom(index)
      /\ pausedRemainingMs' = None /\ openMs' = 0 /\ now' = now /\ current'.questionIndex = index
  BY DEF OpenQuestion
<1>2. Quiz[index].timeLimit \in Nat /\ now \in Nat
  BY QuestionType, TimesType
<1>3. now + Quiz[index].timeLimit # None
       /\ AtLeastZero(now + Quiz[index].timeLimit - now) = AtLeastZero(Quiz[index].timeLimit - 0)
  BY <1>2 DEF None
<1>4. DeadlineDiscipline'
  BY <1>1, <1>2, <1>3 DEF DeadlineDiscipline, DeadlineFrom, Flex
<1>5. PausePreservesTime'
  BY <1>1, <1>2, <1>3 DEF PausePreservesTime, DeadlineFrom, Flex, AtLeastZero
<1> QED
  BY <1>4, <1>5 DEF TimingInv

\* A step that lets no time pass and leaves the deadline alone.
LEMMA TimingKept ==
    ASSUME TimingInv, UNCHANGED <<now, openMs, current, deadlineMs, pausedRemainingMs>>,
           \/ phase' = phase
           \/ phase \notin {"question_open", "paused", "finished"}
                  /\ phase' \notin {"question_open", "paused"}
    PROVE  TimingInv'
BY DEF TimingInv, DeadlineDiscipline, PausePreservesTime, Flex

LEMMA NextTiming ==
    ASSUME EngineInv, TimingInv, [Next]_vars
    PROVE  TimingInv'
<1> DEFINE limit == Quiz[current.questionIndex].timeLimit
<1>0. DeadlineDiscipline /\ PausePreservesTime
  BY DEF TimingInv
<1>1. ASSUME NEW index \in DOMAIN Quiz, NEW kind, NEW source, NEW id,
             OpenQuestion(index, kind, source, id)
      PROVE  TimingInv'
  BY <1>1, OpenQuestionTiming
<1>2. CASE Start \/ NextQuestion
  BY <1>1, <1>2, NextMainQuestionsType DEF Start, NextQuestion
<1>3. CASE OpenRevote \/ \E target \in RecheckQuestions : OpenLinkedRecheck(target)
  <2>1. CASE OpenRevote
    <3>1. current.questionIndex \in DOMAIN Quiz
      BY <2>1, OpenRoundType DEF OpenRevote, RecheckAllowed
    <3> QED
      BY <1>1, <2>1, <3>1 DEF OpenRevote
  <2>2. CASE \E target \in RecheckQuestions : OpenLinkedRecheck(target)
    BY <1>1, <2>2 DEF OpenLinkedRecheck, RecheckQuestions
  <2> QED
    BY <1>3, <2>1, <2>2
<1>4. CASE Pause
  <2>1. /\ phase = "question_open" /\ phase' = "paused" /\ deadlineMs' = None
        /\ pausedRemainingMs' = IF deadlineMs = None THEN None ELSE AtLeastZero(deadlineMs - now)
        /\ UNCHANGED <<now, openMs, current>>
    BY <1>4 DEF Pause, RemainingMs, clockVars
  <2>2. deadlineMs # None <=> ~Flex
    BY <1>0, <2>1 DEF DeadlineDiscipline
  <2>3. CASE Flex
    BY <2>1, <2>2, <2>3 DEF TimingInv, DeadlineDiscipline, PausePreservesTime, Flex
  <2>4. CASE ~Flex
    <3>1. pausedRemainingMs' = AtLeastZero(limit - openMs)
      BY <1>0, <2>1, <2>2, <2>4 DEF PausePreservesTime
    <3>2. pausedRemainingMs' # None
      BY <2>1, <3>1, TimesType DEF AtLeastZero
    <3> QED
      BY <2>1, <2>4, <3>1, <3>2 DEF TimingInv, DeadlineDiscipline, PausePreservesTime, Flex
  <2> QED
    BY <2>3, <2>4
<1>5. CASE Resume
  <2>1. /\ phase = "paused" /\ phase' = "question_open" /\ pausedRemainingMs' = None
        /\ deadlineMs' = IF Flex THEN None ELSE now + pausedRemainingMs
        /\ UNCHANGED <<now, openMs, current>>
    BY <1>5 DEF Resume, ResumeDeadline, clockVars
  <2>2. CASE Flex
    BY <2>1, <2>2 DEF TimingInv, DeadlineDiscipline, PausePreservesTime, Flex
  <2>3. CASE ~Flex
    <3>1. pausedRemainingMs = AtLeastZero(limit - openMs) /\ pausedRemainingMs \in Nat
      BY <1>0, <2>1, <2>3, TimesType DEF PausePreservesTime, DeadlineDiscipline
    <3>2. deadlineMs' # None /\ AtLeastZero(deadlineMs' - now) = pausedRemainingMs
      BY <2>1, <2>3, <3>1, TimesType DEF AtLeastZero
    <3> QED
      BY <2>1, <2>3, <3>1, <3>2 DEF TimingInv, DeadlineDiscipline, PausePreservesTime, Flex
  <2> QED
    BY <2>2, <2>3
<1>6. CASE Lock
  <2>1. phase' = "question_locked" /\ deadlineMs' = None /\ pausedRemainingMs' = None
    BY <1>6 DEF Lock
  <2> QED
    BY <2>1 DEF TimingInv, DeadlineDiscipline, PausePreservesTime
<1>7. CASE NextFinishes \/ End
  <2>1. /\ phase' = "finished" /\ deadlineMs' = None /\ UNCHANGED pausedRemainingMs
        /\ phase # "finished"
    BY <1>7 DEF NextFinishes, AdvancesFrom, End, Finish
  <2> QED
    BY <1>0, <2>1 DEF TimingInv, DeadlineDiscipline, PausePreservesTime, Flex
<1>8. CASE Reveal \/ ShowLeaderboard
  BY <1>8, TimingKept DEF Reveal, ShowLeaderboard, clockVars, pauseVars
<1>9. ASSUME NEW type \in InterventionTypes, NEW card \in {NoRound} \cup DOMAIN Quiz,
             InterventionStart(type, card)
      PROVE  TimingInv'
  <2>1. phase \in {"question_locked", "question_reveal"} /\ phase' = "intervention"
    BY <1>9 DEF InterventionStart, StartsIn, InterventionTypes
  <2> QED
    BY <1>9, <2>1, TimingKept DEF InterventionStart, clockVars, pauseVars
<1>10. CASE InterventionFinish
  <2>1. phase' \in {"question_locked", "question_reveal"} /\ phase = "intervention"
    BY <1>10 DEF InterventionFinish, EngineInv, TypeOK
  <2> QED
    BY <1>10, <2>1, TimingKept DEF InterventionFinish, clockVars, pauseVars
<1>11. ASSUME NEW locked \in BOOLEAN, SetLobbyLock(locked)
       PROVE  TimingInv'
  BY <1>11, TimingKept DEF SetLobbyLock, clockVars, pauseVars
<1>12. ASSUME NEW p \in Participants,
              AddParticipant(p) \/ SetParticipantConnection(p) \/ Kick(p)
       PROVE  TimingInv'
  BY <1>12, TimingKept
     DEF AddParticipant, SetParticipantConnection, Kick, clockVars, pauseVars
<1>13. ASSUME NEW p \in Participants, NEW key \in Keys, NEW right \in BOOLEAN,
              NEW receivedAt \in 0..now, AcceptAnswer(p, key, right, receivedAt)
       PROVE  TimingInv'
  BY <1>13, TimingKept DEF AcceptAnswer, clockVars, pauseVars
<1>14. CASE UNCHANGED vars
  BY <1>14, TimingKept DEF vars
<1>15. CASE Tick
  <2>1. /\ now' = now + 1 /\ UNCHANGED <<phase, current, deadlineMs, pausedRemainingMs>>
        /\ openMs' = IF phase = "question_open" THEN openMs + 1 ELSE openMs
    BY <1>15 DEF Tick, pauseVars
  <2>2. DeadlineDiscipline'
    BY <1>0, <2>1 DEF DeadlineDiscipline, Flex
  <2>3. PausePreservesTime'
    <3>1. ASSUME ~Flex, phase = "question_open"
          PROVE  AtLeastZero(deadlineMs - (now + 1)) = AtLeastZero(limit - (openMs + 1))
      <4>1. AtLeastZero(deadlineMs - now) = AtLeastZero(limit - openMs) /\ deadlineMs # None
        BY <1>0, <3>1 DEF PausePreservesTime, DeadlineDiscipline
      <4>2. now \in Nat /\ openMs \in Nat /\ limit \in Nat /\ deadlineMs \in Nat
        BY <3>1, <4>1, TimesType
      <4> HIDE DEF limit
      <4> QED
        BY <4>1, <4>2 DEF AtLeastZero
    <3>2. ASSUME ~Flex, phase = "paused"
          PROVE  pausedRemainingMs = AtLeastZero(limit - openMs)
      BY <1>0, <3>2 DEF PausePreservesTime
    <3> QED
      BY <2>1, <3>1, <3>2 DEF PausePreservesTime, Flex
  <2> QED
    BY <2>2, <2>3 DEF TimingInv
<1> QED
  BY <1>2, <1>3, <1>4, <1>5, <1>6, <1>7, <1>8, <1>9, <1>10, <1>11, <1>12, <1>13, <1>14, <1>15
     DEF Next

\* Pausing and resuming preserves the time participants have, and the room is held to a
\* deadline exactly while it collects timed answers, for every quiz and every sequence of
\* pauses (pause and resume of applyHostCommand).
THEOREM TimeIsKept == Spec => []TimingInv
<1>1. Init => TimingInv
  BY DEF Init, TimingInv, DeadlineDiscipline, PausePreservesTime
<1>2. EngineInv /\ TimingInv /\ [Next]_vars => TimingInv'
  BY NextTiming
<1> QED
  BY <1>1, <1>2, EngineInvariant, PTL DEF Spec
-------------------------------------------------------------------------------
(* The answers and the time their round was open *)

\* Moving a deadline on keeps the answers within it because they were all received by now.
ReceivedByNow == \A a \in accepted : a.acceptedAtMs <= now

OpenAnswersInv == AcceptedWhileOpen /\ ReceivedByNow

\* What the rounds keep for good; a deadline may move, but never before now.
LEMMA OpenAnswersKept ==
    ASSUME EngineInv, OpenAnswersInv, accepted' = accepted, now' = now \/ now' = now + 1,
           \A r \in DOMAIN rounds :
               /\ rounds'[r].openedAtMs = rounds[r].openedAtMs /\ rounds'[r].kind = rounds[r].kind
               /\ \/ rounds'[r].deadlineMs = rounds[r].deadlineMs
                  \/ rounds'[r].deadlineMs # None => rounds'[r].deadlineMs >= now
                         /\ rounds'[r].deadlineMs \in Nat
    PROVE  OpenAnswersInv'
<1>1. /\ \A a \in accepted : a.roundId \in DOMAIN rounds /\ a.acceptedAtMs \in Nat
      /\ now \in Nat
  BY DEF EngineInv, AnswersInv, TypeOK, AnswerType
<1>2. ReceivedByNow'
  BY <1>1 DEF OpenAnswersInv, ReceivedByNow
<1>3. AcceptedWhileOpen'
  BY <1>1 DEF OpenAnswersInv, AcceptedWhileOpen, ReceivedByNow
<1> QED
  BY <1>2, <1>3 DEF OpenAnswersInv

LEMMA AppendedRound ==
    ASSUME EngineInv, NEW index, NEW kind, NEW source, NEW interventionId,
           OpenQuestion(index, kind, source, interventionId)
    PROVE  /\ Len(rounds) \in Nat /\ DOMAIN rounds = 1..Len(rounds)
           /\ DOMAIN rounds' = 1..(Len(rounds) + 1) /\ Len(rounds') = Len(rounds) + 1
           /\ \A r \in DOMAIN rounds : rounds'[r] = rounds[r]
           /\ rounds'[Len(rounds) + 1].kind = kind
           /\ rounds'[Len(rounds) + 1].questionIndex = index
           /\ rounds'[Len(rounds) + 1].sourceRoundId = source
<1> DEFINE round == [questionIndex |-> index, kind |-> kind, sourceRoundId |-> source,
                     interventionId |-> interventionId, openedAtMs |-> now,
                     deadlineMs |-> DeadlineFrom(index), lockedAtMs |-> None]
<1>1. rounds' = Append(rounds, round)
  BY DEF OpenQuestion
<1>2. round.kind = kind /\ round.questionIndex = index /\ round.sourceRoundId = source
  OBVIOUS
<1> HIDE DEF round
<1>3. rounds \in Seq(RoundType \cup {round})
  <2>1. rounds \in Seq(RoundType)
    BY DEF EngineInv, TypeOK
  <2>2. Len(rounds) \in Nat /\ rounds \in [1..Len(rounds) -> RoundType \cup {round}]
    BY <2>1
  <2> QED
    BY <2>2, IsASeq
<1> QED
  BY <1>1, <1>2, <1>3, AppendProperties

\* resume and lock change one time of the current round and nothing else of any round.
LEMMA TimedRound ==
    ASSUME EngineInv, Resume \/ Lock
    PROVE  /\ DOMAIN rounds' = DOMAIN rounds /\ Len(rounds') = Len(rounds)
           /\ current.roundId \in DOMAIN rounds
           /\ \A r \in DOMAIN rounds :
                  /\ rounds'[r].questionIndex = rounds[r].questionIndex
                  /\ rounds'[r].kind = rounds[r].kind
                  /\ rounds'[r].sourceRoundId = rounds[r].sourceRoundId
                  /\ rounds'[r].openedAtMs = rounds[r].openedAtMs
                  /\ \/ rounds'[r].deadlineMs = rounds[r].deadlineMs
                     \/ Resume /\ rounds'[r].deadlineMs = ResumeDeadline
<1> DEFINE c == current.roundId
<1>1. /\ rounds \in Seq(RoundType) /\ phase \notin {"lobby", "finished"} /\ now \in Nat
      /\ DOMAIN rounds = 1..Len(rounds)
  BY DEF EngineInv, TypeOK, Resume, Lock
<1>2. c \in 1..Len(rounds) /\ \A r \in 1..Len(rounds) : rounds[r] \in RoundType
  BY <1>1, OpenRoundType
<1>3. CASE Resume
  <2>1. rounds' = [rounds EXCEPT ![c].deadlineMs = ResumeDeadline]
    BY <1>3 DEF Resume, RoundsOnResume
  <2>2. ResumeDeadline \in InstantOrNone
    BY <1>3 DEF EngineInv, Resume, ResumeDeadline, TypeOK, InstantOrNone
  <2>3. Len(rounds') = Len(rounds)
    BY <1>1, <2>1, <2>2, RoundExceptType
  <2> QED
    BY <1>1, <1>2, <1>3, <2>1, <2>3 DEF RoundType
<1>4. CASE Lock
  <2>1. rounds' = [rounds EXCEPT ![c].lockedAtMs = now]
    BY <1>4 DEF Lock
  <2>2. Len(rounds') = Len(rounds)
    BY <1>1, <2>1, RoundExceptType DEF InstantOrNone
  <2> QED
    BY <1>1, <1>2, <2>1, <2>2 DEF RoundType
<1> QED
  BY <1>3, <1>4

LEMMA AcceptAnswerOpen ==
    ASSUME EngineInv, TimingInv, OpenAnswersInv,
           NEW p \in Participants, NEW key \in Keys, NEW right \in BOOLEAN,
           NEW receivedAt \in 0..now, receivedAt >= current.openedAtMs,
           AcceptAnswer(p, key, right, receivedAt)
    PROVE  OpenAnswersInv'
<1> DEFINE responseMs == receivedAt - current.openedAtMs
           question == Quiz[current.questionIndex]
           score == IF Scored
                    THEN CalculateScore(right, question.basePoints, responseMs,
                                        question.timeLimit)
                    ELSE 0
           answer == [participant |-> p, roundId |-> current.roundId, key |-> key,
                      right |-> right, score |-> score, acceptedAtMs |-> receivedAt]
           round == rounds[current.roundId]
<1>1. /\ accepted' = accepted \cup {answer} /\ phase = "question_open" /\ OnTime(receivedAt)
      /\ UNCHANGED <<now, rounds, current>>
  BY DEF AcceptAnswer, clockVars
<1>2. /\ answer.roundId = current.roundId /\ answer.acceptedAtMs = receivedAt
      /\ answer.score = 0 \/ current.roundKind = "main"
  BY DEF Scored
<1>3. /\ round.openedAtMs = current.openedAtMs /\ round.deadlineMs = deadlineMs
      /\ round.kind = current.roundKind
  BY <1>1, OpenRoundType
     DEF EngineInv, RoundsInv, CurrentRoundMirrored, NoRound
<1>4. receivedAt \in Nat /\ receivedAt <= now /\ current.openedAtMs \in Nat
  BY <1>1, OpenRoundType DEF EngineInv, TypeOK
<1> HIDE DEF answer, round
<1>5. /\ round.openedAtMs <= answer.acceptedAtMs
      /\ round.deadlineMs # None => answer.acceptedAtMs <= round.deadlineMs
      /\ round.kind # "main" => answer.score = 0
      /\ answer.acceptedAtMs <= now
  BY <1>1, <1>2, <1>3, <1>4 DEF OnTime
<1>6. rounds[answer.roundId] = round
  BY <1>2 DEF round
<1> QED
  BY <1>1, <1>5, <1>6 DEF OpenAnswersInv, AcceptedWhileOpen, ReceivedByNow

LEMMA NextOpenAnswers ==
    ASSUME EngineInv, TimingInv, OpenAnswersInv, [Next]_vars
    PROVE  OpenAnswersInv'
<1>1. ASSUME NEW index, NEW kind, NEW source, NEW id, OpenQuestion(index, kind, source, id)
      PROVE  OpenAnswersInv'
  BY <1>1, AppendedRound, OpenAnswersKept DEF OpenQuestion
<1>2. CASE Start \/ NextQuestion \/ OpenRevote
           \/ \E target \in RecheckQuestions : OpenLinkedRecheck(target)
  BY <1>1, <1>2 DEF Start, NextQuestion, OpenRevote, OpenLinkedRecheck
<1>3. CASE Resume
  <2>1. ResumeDeadline # None => ResumeDeadline \in Nat /\ ResumeDeadline >= now
    <3>1. ASSUME ~Flex
          PROVE  pausedRemainingMs \in Nat /\ now \in Nat
      BY <1>3, <3>1, TimesType DEF Resume
    <3> QED
      BY <3>1 DEF ResumeDeadline
  <2>2. accepted' = accepted /\ now' = now
    BY <1>3 DEF Resume, answerVars, clockVars
  <2> QED
    BY <1>3, <2>1, <2>2, TimedRound, OpenAnswersKept
<1>4. CASE Lock
  <2>1. ~Resume /\ accepted' = accepted /\ now' = now
    BY <1>4 DEF Lock, Resume, answerVars, clockVars
  <2> QED
    BY <1>4, <2>1, TimedRound, OpenAnswersKept
<1>5. CASE Pause \/ Reveal \/ ShowLeaderboard \/ NextFinishes \/ End \/ InterventionFinish
  BY <1>5, OpenAnswersKept
     DEF Pause, Reveal, ShowLeaderboard, NextFinishes, End, Finish, InterventionFinish,
         answerVars, clockVars
<1>6. ASSUME NEW type, NEW card, InterventionStart(type, card)
      PROVE  OpenAnswersInv'
  BY <1>6, OpenAnswersKept DEF InterventionStart, answerVars, clockVars
<1>7. ASSUME NEW locked, SetLobbyLock(locked)
      PROVE  OpenAnswersInv'
  BY <1>7, OpenAnswersKept DEF SetLobbyLock, answerVars, clockVars
<1>8. ASSUME NEW p, AddParticipant(p) \/ SetParticipantConnection(p) \/ Kick(p)
      PROVE  OpenAnswersInv'
  BY <1>8, OpenAnswersKept
     DEF AddParticipant, SetParticipantConnection, Kick, answerVars, clockVars
<1>9. ASSUME NEW p \in Participants, NEW key \in Keys, NEW right \in BOOLEAN,
             NEW receivedAt \in 0..now, receivedAt >= current.openedAtMs,
             AcceptAnswer(p, key, right, receivedAt)
      PROVE  OpenAnswersInv'
  BY <1>9, AcceptAnswerOpen
<1>10. CASE Tick \/ UNCHANGED vars
  BY <1>10, OpenAnswersKept DEF Tick, vars, answerVars
<1> QED
  BY <1>2, <1>3, <1>4, <1>5, <1>6, <1>7, <1>8, <1>9, <1>10 DEF Next

LEMMA OpenAnswersInvariant == Spec => []OpenAnswersInv
<1>1. Init => OpenAnswersInv
  BY DEF Init, OpenAnswersInv, AcceptedWhileOpen, ReceivedByNow
<1>2. EngineInv /\ TimingInv /\ OpenAnswersInv /\ [Next]_vars => OpenAnswersInv'
  BY NextOpenAnswers
<1> QED
  BY <1>1, <1>2, EngineInvariant, TimeIsKept, PTL DEF Spec

\* No answer counts that was received before its round opened or after the deadline the round
\* was last given, however often it was paused, and no recovery round gives points
\* (acceptAnswer against pause and resume).
THEOREM AnswersCountWhileOpen == Spec => []AcceptedWhileOpen
<1>1. OpenAnswersInv => AcceptedWhileOpen
  BY DEF OpenAnswersInv
<1> QED
  BY <1>1, OpenAnswersInvariant, PTL
-------------------------------------------------------------------------------
(* The flow of checkpoints and interventions *)

IsMain(r) == r \in DOMAIN rounds /\ rounds[r].kind = "main"

\* MainCheckpointsInOrder, round by round.
LEMMA InOrder ==
    /\ MainCheckpointsInOrder <=>
           /\ \A r, s : IsMain(r) /\ IsMain(s) /\ r < s
                  => rounds[r].questionIndex < rounds[s].questionIndex
           /\ \A r : IsMain(r) => rounds[r].questionIndex \in MainQuestions
           /\ \A r : \A j \in MainQuestions : IsMain(r) /\ j < rounds[r].questionIndex
                  => \E s : IsMain(s) /\ rounds[s].questionIndex = j
    /\ MainCheckpointsInOrder' <=>
           /\ \A r, s : IsMain(r)' /\ IsMain(s)' /\ r < s
                  => rounds'[r].questionIndex < rounds'[s].questionIndex
           /\ \A r : IsMain(r)' => rounds'[r].questionIndex \in MainQuestions
           /\ \A r : \A j \in MainQuestions : IsMain(r)' /\ j < rounds'[r].questionIndex
                  => \E s : IsMain(s)' /\ rounds'[s].questionIndex = j
BY DEF MainCheckpointsInOrder, IsMain

\* Where the room stands: its main checkpoint is the last one covered, and every main
\* checkpoint before it is.
LEMMA Standing ==
    ASSUME EngineInv, MainCheckpointsInOrder, current.roundId # NoRound
    PROVE  /\ SourcePosition \in MainQuestions
           /\ \A r : IsMain(r) => rounds[r].questionIndex <= SourcePosition
           /\ \A j \in MainQuestions : j <= SourcePosition
                  => \E s : IsMain(s) /\ rounds[s].questionIndex = j
<1> DEFINE c == current.roundId
           m == IF current.roundKind = "main" THEN c ELSE c - 1
<1>1. /\ rounds \in Seq(RoundType) /\ c = Len(rounds) /\ c # 0 /\ c \in Nat
      /\ DOMAIN rounds = 1..c
  BY DEF EngineInv, RoundsInv, CurrentRoundIsLatest, TypeOK, NoRound
<1>2. c \in DOMAIN rounds
  BY <1>1
<1>3. /\ rounds[c].kind = current.roundKind /\ rounds[c].questionIndex = current.questionIndex
      /\ rounds[c].sourceRoundId = current.sourceRoundId
  BY DEF EngineInv, RoundsInv, CurrentRoundMirrored
<1>4. IsMain(m) /\ SourcePosition = rounds[m].questionIndex
  <2>1. CASE current.roundKind = "main"
    BY <1>2, <1>3, <2>1 DEF IsMain, SourcePosition
  <2>2. CASE current.roundKind # "main"
    BY <1>2, <1>3, <2>2
       DEF IsMain, SourcePosition, EngineInv, RoundsInv, RecoveryBranchOfMain
  <2> QED
    BY <2>1, <2>2
<1>5. \A r : IsMain(r) => r <= m /\ r \in Nat
  BY <1>1, <1>3 DEF IsMain
<1>6. m \in Nat /\ SourcePosition \in MainQuestions
  BY <1>4, <1>5, InOrder
<1>7. \A r : IsMain(r) => rounds[r].questionIndex \in Nat
  BY <1>1, InOrder, QuestionType DEF MainQuestions
<1>8. \A r : IsMain(r) => rounds[r].questionIndex <= SourcePosition
  <2> SUFFICES ASSUME NEW r, IsMain(r) PROVE rounds[r].questionIndex <= rounds[m].questionIndex
    BY <1>4
  <2>1. CASE r = m
    BY <1>4, <1>7, <2>1
  <2>2. CASE r # m
    <3>1. r < m
      BY <1>5, <1>6, <2>2
    <3>2. rounds[r].questionIndex < rounds[m].questionIndex
      BY <1>4, <3>1, InOrder
    <3> QED
      BY <1>4, <1>7, <3>2
  <2> QED
    BY <2>1, <2>2
<1>9. ASSUME NEW j \in MainQuestions, j <= SourcePosition
      PROVE  \E s : IsMain(s) /\ rounds[s].questionIndex = j
  <2>1. CASE j = SourcePosition
    BY <1>4, <2>1
  <2>2. CASE j # SourcePosition
    <3>1. j < SourcePosition
      BY <1>6, <1>9, <2>2, QuestionType DEF MainQuestions
    <3> QED
      BY <1>4, <3>1, InOrder
  <2> QED
    BY <2>1, <2>2
<1> QED
  BY <1>6, <1>8, <1>9

\* The next main checkpoint is opened after all that come before it.
LEMMA MainOpened ==
    ASSUME EngineInv, MainCheckpointsInOrder, NEW pos \in Nat, NEW index \in NextMainQuestions(pos),
           OpenQuestion(index, "main", NoRound, NoRound),
           \A r : IsMain(r) => rounds[r].questionIndex <= pos,
           \A j \in MainQuestions : j <= pos => \E s : IsMain(s) /\ rounds[s].questionIndex = j
    PROVE  MainCheckpointsInOrder'
<1> DEFINE n == Len(rounds) + 1
<1>1. /\ n \in Nat \ {0} /\ DOMAIN rounds = 1..(n - 1) /\ DOMAIN rounds' = 1..n
      /\ \A r \in DOMAIN rounds : rounds'[r] = rounds[r]
      /\ rounds'[n].kind = "main" /\ rounds'[n].questionIndex = index
  BY AppendedRound
<1>2. /\ index \in MainQuestions /\ index > pos /\ index \in Nat
      /\ \A j \in MainQuestions : j > pos => index <= j
      /\ \A j \in MainQuestions : j \in Nat
  BY QuestionType DEF NextMainQuestions, LaterMainQuestions, MainQuestions
<1> HIDE DEF n
<1>a. \A r : r \in 1..n <=> r \in 1..(n - 1) \/ r = n
  BY <1>1
<1>3. \A r : IsMain(r)' <=> IsMain(r) \/ r = n
  BY <1>1, <1>a DEF IsMain
<1>b. \A r : IsMain(r) => rounds[r].questionIndex \in Nat
  BY <1>2, InOrder
<1>c. \A r : IsMain(r) => r \in 1..(n - 1) /\ rounds'[r] = rounds[r]
  BY <1>1 DEF IsMain
<1>4. \A r : IsMain(r) => r \in Nat /\ r < n /\ rounds'[r] = rounds[r]
                          /\ rounds[r].questionIndex \in Nat
  BY <1>1, <1>b, <1>c
<1>5. ASSUME NEW r, NEW s, IsMain(r)', IsMain(s)', r < s
      PROVE  rounds'[r].questionIndex < rounds'[s].questionIndex
  <2>1. r # n
    BY <1>1, <1>3, <1>4, <1>5
  <2>2. CASE s = n
    BY <1>1, <1>2, <1>3, <1>4, <1>5, <2>1, <2>2
  <2>3. CASE s # n
    BY <1>3, <1>4, <1>5, <2>1, <2>3, InOrder
  <2> QED
    BY <2>2, <2>3
<1>6. \A r : IsMain(r)' => rounds'[r].questionIndex \in MainQuestions
  BY <1>1, <1>2, <1>3, <1>4, InOrder
<1>7. ASSUME NEW r, NEW j \in MainQuestions, IsMain(r)', j < rounds'[r].questionIndex
      PROVE  \E s : IsMain(s)' /\ rounds'[s].questionIndex = j
  <2>1. j <= pos
    <3>1. CASE r = n
      <4>1. j < index /\ j \in Nat /\ index \in Nat
        BY <1>1, <1>2, <1>7, <3>1
      <4>2. ~(index <= j)
        BY <4>1
      <4>3. ~(j > pos)
        BY <1>2, <4>2
      <4> QED
        BY <4>1, <4>3
    <3>2. CASE r # n
      <4>1. j < rounds[r].questionIndex /\ rounds[r].questionIndex <= pos
            /\ rounds[r].questionIndex \in Nat /\ j \in Nat
        BY <1>2, <1>3, <1>4, <1>7, <3>2
      <4> QED
        BY <4>1
    <3> QED
      BY <3>1, <3>2
  <2>2. PICK s : IsMain(s) /\ rounds[s].questionIndex = j
    BY <2>1
  <2> QED
    BY <1>3, <1>4, <2>2
<1> QED
  BY <1>5, <1>6, <1>7, InOrder

\* A step that adds no main round and changes no checkpoint of one.
LEMMA OrderKept ==
    ASSUME MainCheckpointsInOrder, \A r : IsMain(r)' <=> IsMain(r),
           \A r : IsMain(r) => rounds'[r].questionIndex = rounds[r].questionIndex
    PROVE  MainCheckpointsInOrder'
BY InOrder

LEMMA NextOrder ==
    ASSUME EngineInv, MainCheckpointsInOrder, [Next]_vars
    PROVE  MainCheckpointsInOrder'
<1>1. CASE Start
  <2>1. PICK index \in NextMainQuestions(0) : OpenQuestion(index, "main", NoRound, NoRound)
    BY <1>1 DEF Start
  <2>2. \A r : ~IsMain(r)
    <3>1. rounds \in Seq(RoundType) /\ Len(rounds) = 0
      BY <1>1 DEF Start, EngineInv, TypeOK, RoundsInv, CurrentRoundIsLatest, NoRound
    <3> QED
      BY <3>1 DEF IsMain
  <2>3. \A j \in MainQuestions : ~(j <= 0)
    BY QuestionType DEF MainQuestions
  <2> QED
    BY <2>1, <2>2, <2>3, MainOpened
<1>2. CASE NextQuestion
  <2>1. PICK index \in NextMainQuestions(SourcePosition) :
            OpenQuestion(index, "main", NoRound, NoRound)
    BY <1>2 DEF NextQuestion
  <2>2. current.roundId # NoRound
    BY <1>2 DEF NextQuestion, AdvancesFrom, EngineInv, RoundsInv, CurrentRoundIsLatest
  <2>3. SourcePosition \in Nat
    BY <2>2, Standing, QuestionType DEF MainQuestions
  <2>4. PICK pos : pos = SourcePosition
    OBVIOUS
  <2> QED
    BY <2>1, <2>2, <2>3, <2>4, Standing, MainOpened
<1>3. CASE OpenRevote \/ \E target \in RecheckQuestions : OpenLinkedRecheck(target)
  <2>1. PICK index, kind, source, id :
            OpenQuestion(index, kind, source, id) /\ kind # "main"
    BY <1>3 DEF OpenRevote, OpenLinkedRecheck
  <2>2. \A r : IsMain(r)' <=> IsMain(r)
    BY <2>1, AppendedRound DEF IsMain
  <2> QED
    BY <2>1, <2>2, AppendedRound, OrderKept DEF IsMain
<1>4. CASE Resume \/ Lock
  BY <1>4, TimedRound, OrderKept DEF IsMain
<1>5. CASE rounds' = rounds
  BY <1>5, OrderKept DEF IsMain
<1>6. ASSUME ~Start, ~NextQuestion, ~OpenRevote,
             ~\E target \in RecheckQuestions : OpenLinkedRecheck(target), ~(Resume \/ Lock)
      PROVE  rounds' = rounds
  BY ZenonT(40), <1>6 DEF Next, Pause, Reveal, InterventionStart, InterventionFinish, ShowLeaderboard,
              NextFinishes, End, Finish, SetLobbyLock, AddParticipant, SetParticipantConnection,
              Kick, AcceptAnswer, Tick, vars
<1> QED
  BY <1>1, <1>2, <1>3, <1>4, <1>5, <1>6
\* An intervention's card was shown for a round there is.
CardsHaveSources ==
    \A i \in DOMAIN interventions :
        interventions[i].card # NoRound => interventions[i].sourceRoundId \in DOMAIN rounds

\* There is a phase to return to only while an intervention runs, or was ended during it.
ReturnsFromIntervention ==
    interventionReturnPhase # "none" => phase \in {"intervention", "finished"}

InterventionsInv ==
    /\ InterventionsAgree /\ CardsBelongToDiagnostic
    /\ CardsHaveSources /\ ReturnsFromIntervention

\* The rounds there are keep what a card is compared with.
RoundsKeepCards ==
    \A r \in DOMAIN rounds :
        /\ r \in DOMAIN rounds' /\ rounds'[r].kind = rounds[r].kind
        /\ rounds'[r].questionIndex = rounds[r].questionIndex

LEMMA CardsKept ==
    ASSUME InterventionsInv, interventions' = interventions, RoundsKeepCards
    PROVE  CardsBelongToDiagnostic' /\ CardsHaveSources'
BY DEF InterventionsInv, CardsBelongToDiagnostic, CardsHaveSources, RoundsKeepCards

\* A step that starts, finishes and forgets no intervention.
LEMMA InterventionsKept ==
    ASSUME InterventionsInv, UNCHANGED interventionVars, RoundsKeepCards,
           \/ phase' = phase \/ phase' = "finished"
           \/ phase \notin {"intervention", "finished"} /\ phase' # "intervention"
    PROVE  InterventionsInv'
<1>1. InterventionsAgree'
  BY DEF interventionVars, InterventionsInv, InterventionsAgree, ActiveIntervention
<1>2. ReturnsFromIntervention'
  BY DEF interventionVars, InterventionsInv, ReturnsFromIntervention
<1> QED
  BY <1>1, <1>2, CardsKept DEF interventionVars, InterventionsInv

\* Opening a round: nothing is left unfinished by then.
LEMMA OpenQuestionInterventions ==
    ASSUME EngineInv, InterventionsInv, NEW index, NEW kind, NEW source, NEW id,
           OpenQuestion(index, kind, source, id), phase \notin {"intervention", "finished"}
    PROVE  InterventionsInv'
<1>1. /\ phase' = "question_open" /\ interventionReturnPhase' = "none"
      /\ intervention' \in {NoIntervention, intervention} /\ interventions' = interventions
  BY DEF OpenQuestion
<1>2. RoundsKeepCards
  BY AppendedRound DEF RoundsKeepCards
<1>3. \A i \in DOMAIN interventions : interventions[i].finished
  BY DEF InterventionsInv, InterventionsAgree
<1>4. InterventionsAgree'
  BY <1>1, <1>3 DEF InterventionsInv, InterventionsAgree
<1>5. ReturnsFromIntervention'
  BY <1>1 DEF ReturnsFromIntervention
<1> QED
  BY <1>1, <1>2, <1>4, <1>5, CardsKept DEF InterventionsInv

LEMMA InterventionStartInv ==
    ASSUME EngineInv, InterventionsInv, NEW type \in InterventionTypes,
           NEW card \in {NoRound} \cup DOMAIN Quiz, InterventionStart(type, card)
    PROVE  InterventionsInv'
<1> DEFINE n == Len(interventions) + 1
           started == [id |-> n, type |-> type, sourceRoundId |-> current.roundId,
                       card |-> card, finished |-> FALSE]
<1>1. /\ phase' = "intervention" /\ interventionReturnPhase' = phase
      /\ phase \in {"question_locked", "question_reveal"}
      /\ intervention' = started /\ interventions' = Append(interventions, started)
      /\ UNCHANGED rounds /\ current.roundId # NoRound
      /\ card # NoRound => card \in FrozenRecoveryPackCards
  BY DEF InterventionStart, StartsIn, InterventionTypes
<1>2. /\ started.id = n /\ started.finished = FALSE /\ started.card = card
      /\ started.sourceRoundId = current.roundId /\ started \in InterventionType
      /\ started # NoIntervention
  <2>1. n \in Nat
    BY DEF EngineInv, TypeOK
  <2> QED
    BY <2>1 DEF InterventionType, EngineInv, TypeOK, NoIntervention
<1>3. interventions \in Seq(InterventionType) /\ n \in Nat
      /\ DOMAIN interventions = 1..(n - 1)
  BY DEF EngineInv, TypeOK
<1> HIDE DEF started
<1>4. /\ DOMAIN interventions' = 1..n /\ interventions'[n] = started
      /\ \A i \in 1..(n - 1) : interventions'[i] = interventions[i]
  BY <1>1, <1>2, <1>3, AppendProperties
<1>5. n \in 1..n /\ \A i \in 1..n : i = n \/ i \in 1..(n - 1)
  BY <1>3, <1>4
<1>6. \A i \in 1..(n - 1) : interventions[i].finished
  BY <1>1, <1>3 DEF InterventionsInv, InterventionsAgree
<1> HIDE DEF n
<1>7. InterventionsAgree'
  BY <1>1, <1>2, <1>4, <1>5, <1>6 DEF InterventionsAgree, ActiveIntervention
<1>8. ASSUME card # NoRound
      PROVE  /\ current.roundId \in DOMAIN rounds /\ rounds[current.roundId].kind = "main"
             /\ rounds[current.roundId].questionIndex = card
  <2>1. current.roundKind = "main" /\ card = current.questionIndex
    BY <1>1, <1>8 DEF FrozenRecoveryPackCards
  <2>2. current.roundId \in DOMAIN rounds
    BY <1>1, OpenRoundType
  <2> QED
    BY <1>1, <2>1, <2>2 DEF EngineInv, RoundsInv, CurrentRoundMirrored
<1>9. CardsBelongToDiagnostic' /\ CardsHaveSources'
  BY <1>1, <1>2, <1>3, <1>4, <1>5, <1>8
     DEF InterventionsInv, CardsBelongToDiagnostic, CardsHaveSources
<1>10. ReturnsFromIntervention'
  BY <1>1 DEF ReturnsFromIntervention
<1> QED
  BY <1>7, <1>9, <1>10 DEF InterventionsInv

LEMMA InterventionFinishInv ==
    ASSUME EngineInv, InterventionsInv, InterventionFinish
    PROVE  InterventionsInv'
<1> DEFINE done == [intervention EXCEPT !.finished = TRUE]
           i == intervention.id
<1>1. /\ phase' = interventionReturnPhase /\ interventionReturnPhase' = "none"
      /\ intervention' = done /\ interventions' = [interventions EXCEPT ![done.id] = done]
      /\ ActiveIntervention /\ phase' \in {"question_locked", "question_reveal"}
      /\ UNCHANGED rounds
  BY DEF InterventionFinish, InterventionsFinished, EngineInv, TypeOK
<1>2. /\ done.id = i /\ done.finished /\ done.card = intervention.card
      /\ done.sourceRoundId = intervention.sourceRoundId
  BY DEF EngineInv, TypeOK, InterventionType
<1> HIDE DEF done
<1>3. i \in DOMAIN interventions /\ interventions[i] = intervention
  BY <1>1 DEF ActiveIntervention, InterventionsInv, InterventionsAgree
<1>4. /\ DOMAIN interventions' = DOMAIN interventions /\ interventions'[i] = done
      /\ \A j \in DOMAIN interventions : j # i => interventions'[j] = interventions[j]
  <2>1. interventions \in Seq(InterventionType)
    BY DEF EngineInv, TypeOK
  <2> QED
    BY <1>1, <1>2, <1>3, <2>1
<1>5. \A j \in DOMAIN interventions : interventions'[j].finished
  BY <1>2, <1>4 DEF InterventionsInv, InterventionsAgree
<1>6. InterventionsAgree'
  BY <1>1, <1>2, <1>3, <1>4, <1>5 DEF InterventionsAgree
<1>7. CardsBelongToDiagnostic' /\ CardsHaveSources'
  BY <1>1, <1>2, <1>3, <1>4 DEF InterventionsInv, CardsBelongToDiagnostic, CardsHaveSources
<1>8. ReturnsFromIntervention'
  BY <1>1 DEF ReturnsFromIntervention
<1> QED
  BY <1>6, <1>7, <1>8 DEF InterventionsInv

LEMMA NextInterventions ==
    ASSUME EngineInv, InterventionsInv, [Next]_vars
    PROVE  InterventionsInv'
<1>1. ASSUME NEW index, NEW kind, NEW source, NEW id, OpenQuestion(index, kind, source, id),
             phase \notin {"intervention", "finished"}
      PROVE  InterventionsInv'
  BY <1>1, OpenQuestionInterventions
<1>2. CASE Start \/ NextQuestion \/ OpenRevote
           \/ \E target \in RecheckQuestions : OpenLinkedRecheck(target)
  BY <1>1, <1>2 DEF Start, NextQuestion, AdvancesFrom, OpenRevote, OpenLinkedRecheck, RecheckAllowed
<1>3. ASSUME NEW type \in InterventionTypes, NEW card \in {NoRound} \cup DOMAIN Quiz,
             InterventionStart(type, card)
      PROVE  InterventionsInv'
  BY <1>3, InterventionStartInv
<1>4. CASE InterventionFinish
  BY <1>4, InterventionFinishInv
<1>5. CASE Resume \/ Lock
  <2>1. RoundsKeepCards
    BY <1>5, TimedRound DEF RoundsKeepCards
  <2> QED
    BY <1>5, <2>1, InterventionsKept DEF Resume, Lock
<1>6. rounds' = rounds => RoundsKeepCards
  BY DEF RoundsKeepCards
<1>7. CASE Pause \/ Reveal \/ ShowLeaderboard \/ NextFinishes \/ End
  BY <1>6, <1>7, InterventionsKept DEF Pause, Reveal, ShowLeaderboard, NextFinishes, End, Finish
<1>8. ASSUME NEW locked \in BOOLEAN, SetLobbyLock(locked)
      PROVE  InterventionsInv'
  BY <1>6, <1>8, InterventionsKept DEF SetLobbyLock
<1>9. ASSUME NEW p \in Participants,
             AddParticipant(p) \/ SetParticipantConnection(p) \/ Kick(p)
      PROVE  InterventionsInv'
  BY <1>6, <1>9, InterventionsKept DEF AddParticipant, SetParticipantConnection, Kick
<1>10. ASSUME NEW p \in Participants, NEW key \in Keys, NEW right \in BOOLEAN,
              NEW receivedAt \in 0..now, AcceptAnswer(p, key, right, receivedAt)
       PROVE  InterventionsInv'
  BY <1>6, <1>10, InterventionsKept DEF AcceptAnswer
<1>11. CASE Tick \/ UNCHANGED vars
  BY <1>6, <1>11, InterventionsKept DEF Tick, vars, interventionVars
<1> QED
  BY <1>2, <1>3, <1>4, <1>5, <1>7, <1>8, <1>9, <1>10, <1>11 DEF Next

LEMMA FlowInvariant == Spec => [](MainCheckpointsInOrder /\ InterventionsInv)
<1>1. Init => MainCheckpointsInOrder /\ InterventionsInv
  <2> SUFFICES ASSUME Init PROVE MainCheckpointsInOrder /\ InterventionsInv
    OBVIOUS
  <2>1. DOMAIN rounds = {} /\ DOMAIN interventions = {}
    BY DEF Init
  <2>2. MainCheckpointsInOrder
    BY <2>1, InOrder DEF IsMain
  <2> QED
    BY <2>1, <2>2
       DEF Init, InterventionsInv, InterventionsAgree, CardsBelongToDiagnostic, CardsHaveSources,
           ReturnsFromIntervention
<1>2. EngineInv /\ MainCheckpointsInOrder /\ InterventionsInv /\ [Next]_vars
          => (MainCheckpointsInOrder /\ InterventionsInv)'
  BY NextOrder, NextInterventions
<1> QED
  BY <1>1, <1>2, EngineInvariant, PTL DEF Spec

\* Main checkpoints come in order, none skipped and none twice, whatever rechecks, revotes and
\* interventions the host puts between them; the session's intervention is the one recorded,
\* and a Recovery Pack card is only shown with its own diagnostic.
THEOREM FlowKept == Spec => []FlowInv
<1>1. MainCheckpointsInOrder /\ InterventionsInv => FlowInv
  BY DEF FlowInv, InterventionsInv
<1> QED
  BY <1>1, FlowInvariant, PTL

-------------------------------------------------------------------------------
(* The refinement of the lifecycle *)

LEMMA InitLifecycle == Init => Lifecycle!LifecycleInit
BY DEF Init, Lifecycle!LifecycleInit

\* A step that keeps the current round's place in the session.
LEMMA CheckpointKept ==
    ASSUME EngineInv, current' = current, RoundsKeepCards
    PROVE  (IF current.roundId = NoRound THEN 0 ELSE SourcePosition)'
               = IF current.roundId = NoRound THEN 0 ELSE SourcePosition
<1>1. CASE current.roundId = NoRound
  BY <1>1
<1>2. CASE current.roundId # NoRound
  <2>1. current.roundKind # "main" => current.sourceRoundId \in DOMAIN rounds
    <3>1. current.roundId = Len(rounds) /\ rounds \in Seq(RoundType) /\ Len(rounds) # 0
      BY <1>2 DEF EngineInv, RoundsInv, CurrentRoundIsLatest, TypeOK, NoRound
    <3>2. current.roundId \in DOMAIN rounds
      BY <3>1
    <3>3. /\ rounds[current.roundId].kind = current.roundKind
          /\ rounds[current.roundId].sourceRoundId = current.sourceRoundId
      BY <1>2 DEF EngineInv, RoundsInv, CurrentRoundMirrored
    <3> QED
      BY <3>2, <3>3 DEF EngineInv, RoundsInv, RecoveryBranchOfMain
  <2>2. SourcePosition' = SourcePosition
    BY <2>1 DEF SourcePosition, RoundsKeepCards
  <2> QED
    BY <1>2, <2>2
<1> QED
  BY <1>1, <1>2

LEMMA OpenMainFollows ==
    ASSUME EngineInv, NEW pos, NEW index \in NextMainQuestions(pos),
           OpenQuestion(index, "main", NoRound, NoRound),
           pos = (IF current.roundId = NoRound THEN 0 ELSE SourcePosition),
           phase \in {"lobby", "question_reveal", "leaderboard"}
    PROVE  Lifecycle!OpenCheckpoint
<1>1. /\ phase' = "question_open" /\ interventionReturnPhase' = "none"
      /\ current'.roundKind = "main" /\ current'.questionIndex = index
      /\ current'.roundId = Len(rounds) + 1
  BY DEF OpenQuestion
<1>2. current'.roundId # NoRound
  BY <1>1 DEF EngineInv, TypeOK, NoRound
<1>3. SourcePosition' = index
  BY <1>1 DEF SourcePosition
<1>4. index \in MainQuestions /\ index > pos /\ \A d \in MainQuestions : d > pos => index <= d
  BY DEF NextMainQuestions, LaterMainQuestions
<1> QED
  BY <1>1, <1>2, <1>3, <1>4 DEF Lifecycle!OpenCheckpoint, Lifecycle!Following

LEMMA OpenRecoveryFollows ==
    ASSUME EngineInv, InterventionsInv, RecheckAllowed, NEW index, NEW id,
           NEW kind \in {"linked_recheck", "revote"},
           OpenQuestion(index, kind, current.roundId, id)
    PROVE  Lifecycle!OpenRecovery
<1>1. /\ phase' = "question_open" /\ interventionReturnPhase' = "none"
      /\ current'.roundKind = kind /\ current'.sourceRoundId = current.roundId
      /\ current'.roundId = Len(rounds) + 1
  BY DEF OpenQuestion
<1>2. current.roundId # NoRound /\ current.roundKind = "main"
      /\ phase \in {"question_locked", "question_reveal"}
  BY DEF RecheckAllowed
<1>3. interventionReturnPhase = "none"
  BY <1>2 DEF InterventionsInv, ReturnsFromIntervention
<1>4. current'.roundId # NoRound
  BY <1>1 DEF EngineInv, TypeOK, NoRound
<1>5. current.roundId \in DOMAIN rounds
  BY <1>2, OpenRoundType
<1>6. rounds'[current.roundId].questionIndex = current.questionIndex
  BY <1>2, <1>5, AppendedRound DEF EngineInv, RoundsInv, CurrentRoundMirrored
<1>7. SourcePosition = current.questionIndex /\ SourcePosition' = current.questionIndex
  BY <1>1, <1>2, <1>6 DEF SourcePosition
<1> QED
  BY <1>1, <1>2, <1>3, <1>4, <1>7 DEF Lifecycle!OpenRecovery

LEMMA StepLifecycle ==
    EngineInv /\ InterventionsInv /\ [Next]_vars
        => [Lifecycle!LifecycleNext]_(Lifecycle!lifecycleVars)
<1> SUFFICES ASSUME EngineInv, InterventionsInv, [Next]_vars
             PROVE  Lifecycle!LifecycleNext \/ UNCHANGED Lifecycle!lifecycleVars
  OBVIOUS
<1>1. CASE Start
  <2>1. phase = "lobby" /\ current.roundId = NoRound
    BY <1>1 DEF Start, EngineInv, RoundsInv, CurrentRoundIsLatest
  <2> QED
    BY <1>1, <2>1, OpenMainFollows DEF Start, Lifecycle!LifecycleNext
<1>2. CASE NextQuestion
  <2>1. phase \in {"question_reveal", "leaderboard"} /\ current.roundId # NoRound
    BY <1>2 DEF NextQuestion, AdvancesFrom, EngineInv, RoundsInv, CurrentRoundIsLatest
  <2>2. PICK pos : pos = SourcePosition
    OBVIOUS
  <2> QED
    BY <1>2, <2>1, <2>2, OpenMainFollows DEF NextQuestion, Lifecycle!LifecycleNext
<1>3. CASE OpenRevote \/ \E target \in RecheckQuestions : OpenLinkedRecheck(target)
  BY <1>3, OpenRecoveryFollows DEF OpenRevote, OpenLinkedRecheck, Lifecycle!LifecycleNext
<1>4. rounds' = rounds => RoundsKeepCards
  BY DEF RoundsKeepCards
<1>5. CASE Pause \/ Resume \/ Lock \/ Reveal \/ ShowLeaderboard
  <2>1. RoundsKeepCards
    <3>1. CASE Resume \/ Lock
      BY <3>1, TimedRound DEF RoundsKeepCards
    <3>2. CASE Pause \/ Reveal \/ ShowLeaderboard
      BY <1>4, <3>2 DEF Pause, Reveal, ShowLeaderboard
    <3> QED
      BY <1>5, <3>1, <3>2
  <2>2. current' = current /\ interventionReturnPhase' = interventionReturnPhase
        /\ <<phase, phase'>> \in Lifecycle!StageEdges
    BY <1>5
       DEF Pause, Resume, Lock, Reveal, ShowLeaderboard, interventionVars, Lifecycle!StageEdges
  <2> QED
    BY <2>1, <2>2, CheckpointKept DEF Lifecycle!LifecycleNext, Lifecycle!MoveStage
<1>6. ASSUME NEW type \in InterventionTypes, NEW card \in {NoRound} \cup DOMAIN Quiz,
             InterventionStart(type, card)
      PROVE  Lifecycle!LifecycleNext
  <2>1. phase \in {"question_locked", "question_reveal"} /\ phase' = "intervention"
        /\ interventionReturnPhase' = phase /\ UNCHANGED <<current, rounds>>
    BY <1>6 DEF InterventionStart, StartsIn, InterventionTypes
  <2> QED
    BY <1>4, <2>1, CheckpointKept DEF Lifecycle!LifecycleNext, Lifecycle!Intervene
<1>7. CASE InterventionFinish
  <2>1. phase = "intervention" /\ phase' = interventionReturnPhase
        /\ interventionReturnPhase' = "none" /\ UNCHANGED <<current, rounds>>
    BY <1>7 DEF InterventionFinish
  <2> QED
    BY <1>4, <2>1, CheckpointKept DEF Lifecycle!LifecycleNext, Lifecycle!EndIntervention
<1>8. CASE NextFinishes \/ End
  <2>1. phase # "finished" /\ phase' = "finished" /\ UNCHANGED <<current, rounds>>
        /\ interventionReturnPhase' = interventionReturnPhase
    BY <1>8 DEF NextFinishes, AdvancesFrom, End, Finish, interventionVars
  <2> QED
    BY <1>4, <2>1, CheckpointKept DEF Lifecycle!LifecycleNext, Lifecycle!Abandon
<1>9. ASSUME UNCHANGED <<phase, current, rounds, interventionReturnPhase>>
      PROVE  UNCHANGED Lifecycle!lifecycleVars
  BY <1>4, <1>9, CheckpointKept DEF Lifecycle!lifecycleVars
<1>10. ASSUME NEW locked \in BOOLEAN, SetLobbyLock(locked)
       PROVE  UNCHANGED Lifecycle!lifecycleVars
  BY <1>9, <1>10 DEF SetLobbyLock, interventionVars
<1>11. ASSUME NEW p \in Participants,
              AddParticipant(p) \/ SetParticipantConnection(p) \/ Kick(p)
       PROVE  UNCHANGED Lifecycle!lifecycleVars
  BY <1>9, <1>11 DEF AddParticipant, SetParticipantConnection, Kick, interventionVars
<1>12. ASSUME NEW p \in Participants, NEW key \in Keys, NEW right \in BOOLEAN,
              NEW receivedAt \in 0..now, AcceptAnswer(p, key, right, receivedAt)
       PROVE  UNCHANGED Lifecycle!lifecycleVars
  BY <1>9, <1>12 DEF AcceptAnswer, interventionVars
<1>13. CASE Tick \/ UNCHANGED vars
  BY <1>9, <1>13 DEF Tick, vars, interventionVars
<1> QED
  BY <1>1, <1>2, <1>3, <1>5, <1>6, <1>7, <1>8, <1>10, <1>11, <1>12, <1>13 DEF Next

\* The engine implements the documented lifecycle for every quiz: no command leaves a phase by
\* another edge, passes over a main checkpoint or opens a second recovery branch.
THEOREM LifecycleFollowed == Spec => FollowsLifecycle
BY FlowInvariant, EngineInvariant, InitLifecycle, StepLifecycle, PTL
   DEF Spec, FollowsLifecycle, Lifecycle!LifecycleSpec

-------------------------------------------------------------------------------
(* What snapshots disclose *)

\* Whatever shows correctness or evidence is a phase in which the current round is locked.
LEMMA ShownWhenLocked ==
    ASSUME EngineInv, phase \notin {"lobby", "question_open", "paused", "finished"}
    PROVE  RoundClosed
<1>1. current.roundId \in DOMAIN rounds /\ current.roundId # NoRound
  BY OpenRoundType DEF NoRound
<1> QED
  BY <1>1 DEF EngineInv, RoundsInv, OneOpenRound, RoundClosed

\* Nothing about correctness, explanations or distributions reaches anyone before the round
\* is locked for good or the session was ended (snapshotForRole in every engine state).
THEOREM NothingIsDisclosedWhileOpen == Spec => []NothingDisclosedWhileOpen
<1>1. EngineInv => NothingDisclosedWhileOpen
  <2> SUFFICES ASSUME EngineInv, phase # "finished", ~RoundClosed
               PROVE  NothingDisclosedWhileOpen
    BY DEF NothingDisclosedWhileOpen
  <2>1. phase \in {"lobby", "question_open", "paused"}
    BY ShownWhenLocked
  <2>2. ~AnswersRevealed /\ \A role : ~EvidenceVisible(role)
    BY <2>1 DEF AnswersRevealed, EvidenceVisible
  <2>3. ASSUME NEW p
        PROVE  /\ ParticipantView(p).myCorrect = {} /\ ~ParticipantView(p).explanation
               /\ ~ParticipantView(p).evidence /\ ParticipantView(p).recoveryPackCard = NoRound
    BY <2>1, <2>2 DEF ParticipantView
  <2>4. ASSUME NEW role
        PROVE  /\ ~StaffView(role).correctResponse /\ ~StaffView(role).explanation
               /\ ~StaffView(role).evidence
    BY <2>2 DEF StaffView
  <2> QED
    BY <2>3, <2>4 DEF NothingDisclosedWhileOpen
<1> QED
  BY <1>1, EngineInvariant, PTL

\* A step that reveals the answers to the current round, when there are any, is the reveal:
\* no intervention, break or recheck leads there, and ending the session drops them.
LEMMA RevealedByReveal ==
    ASSUME EngineInv, EngineInv', [Next]_vars, NEW p,
           AnswersRevealed', CurrentAnswersOf(p)' # {},
           ~AnswersRevealed \/ CurrentAnswersOf(p) = {}
    PROVE  phase = "question_locked" /\ phase' = "question_reveal"
<1>1. phase' \in {"question_reveal", "leaderboard", "intervention"}
  BY DEF EngineInv, AnswersInv, AnswersOfCurrentRound, AnswersRevealed, CurrentAnswersOf
<1>2. UNCHANGED << answers, current >> => ~AnswersRevealed
  BY DEF CurrentAnswersOf
<1>3. interventionReturnPhase # "leaderboard" /\ interventionReturnPhase # "intervention"
  BY DEF EngineInv, TypeOK
<1>4. ASSUME NEW index, NEW kind, NEW source, NEW id, OpenQuestion(index, kind, source, id)
      PROVE  FALSE
  BY <1>1, <1>4 DEF OpenQuestion
<1>5. ~(\/ Start \/ NextQuestion \/ OpenRevote
        \/ \E target \in RecheckQuestions : OpenLinkedRecheck(target))
  BY <1>4 DEF Start, NextQuestion, OpenRevote, OpenLinkedRecheck
<1>6. ~(Pause \/ Resume \/ Lock \/ NextFinishes \/ End)
  BY <1>1 DEF Pause, Resume, Lock, NextFinishes, End, Finish
<1>7. \A type, card : ~InterventionStart(type, card)
  BY <1>2 DEF InterventionStart, answerVars, AnswersRevealed
<1>8. ~InterventionFinish /\ ~ShowLeaderboard
  BY <1>1, <1>2, <1>3 DEF InterventionFinish, ShowLeaderboard, answerVars, AnswersRevealed
<1>9. \A locked : ~SetLobbyLock(locked)
  BY <1>2 DEF SetLobbyLock, answerVars, interventionVars, AnswersRevealed
<1>10. \A q : ~AddParticipant(q) /\ ~SetParticipantConnection(q) /\ ~Kick(q)
  BY <1>2 DEF AddParticipant, SetParticipantConnection, Kick, answerVars, interventionVars,
              AnswersRevealed
<1>11. \A q, key, right, receivedAt : ~AcceptAnswer(q, key, right, receivedAt)
  BY <1>1 DEF AcceptAnswer
<1>12. ~Tick /\ ~UNCHANGED vars
  BY <1>2 DEF Tick, vars, answerVars, interventionVars, AnswersRevealed
<1> QED
  BY <1>5, <1>6, <1>7, <1>8, <1>9, <1>10, <1>11, <1>12 DEF Next, Reveal

\* Until the current round is revealed no view tells a participant whether their answer was
\* right, an intervention before the reveal included (snapshotForRole).
THEOREM CorrectnessIsRevealed == Spec => CorrectnessAfterReveal
<1>1. ASSUME EngineInv, EngineInv', [Next]_vars, NEW p \in Ranked,
             ParticipantView(p).myCorrect = {}, ParticipantView(p)'.myCorrect # {}
      PROVE  phase = "question_locked" /\ phase' = "question_reveal"
  <2>1. ~AnswersRevealed \/ CurrentAnswersOf(p) = {}
    <3>1. ParticipantView(p).myCorrect
              = IF AnswersRevealed THEN {a.right : a \in CurrentAnswersOf(p)} ELSE {}
      BY DEF ParticipantView
    <3> QED
      BY <1>1, <3>1
  <2>2. AnswersRevealed' /\ CurrentAnswersOf(p)' # {}
    <3>1. ParticipantView(p)'.myCorrect
              = IF AnswersRevealed' THEN {a.right : a \in CurrentAnswersOf(p)'} ELSE {}
      BY DEF ParticipantView
    <3> QED
      BY <1>1, <3>1
  <2> QED
    BY <1>1, <2>1, <2>2, RevealedByReveal
<1>2. EngineInv /\ EngineInv' /\ [Next]_vars =>
        [ \A p \in Ranked :
            /\ ParticipantView(p).myCorrect = {}
            /\ ParticipantView(p)'.myCorrect # {}
            => phase = "question_locked" /\ phase' = "question_reveal" ]_vars
  BY <1>1
<1> QED
  BY <1>2, EngineInvariant, PTL DEF Spec, CorrectnessAfterReveal
-------------------------------------------------------------------------------
(* The standings.  A score is a sum over a set, which the fold of the library *)
(* takes in an order of its own; what it adds up to is proved by the least    *)
(* number of answers for which it would not be so.                            *)

\* What a participant's answers add up to.
Total(S) == MapThenSumSet(LAMBDA a : a.score, S)

Picked(s) == CHOOSE x \in s : TRUE

\* One step of the fold, from the totals g of the smaller sets.
Added(g, s) == IF s = {} THEN 0 ELSE Picked(s).score + g[s \ {Picked(s)}]

LEMMA LeastNumber ==
    ASSUME NEW T \in SUBSET Nat, T # {}
    PROVE  \E x \in T : \A y \in T : x <= y
<1>1. PICK x \in T : \A y \in T : ~(<<y, x>> \in OpToRel(<, Nat))
  BY NatLessThanWellFounded, WFMin
<1>2. \A y \in T : ~(y < x)
  BY <1>1 DEF OpToRel
<1> QED
  BY <1>2

\* The fold has a table: the totals of all subsets, each made of a smaller one.
LEMMA TotalTable ==
    ASSUME NEW S, IsFiniteSet(S)
    PROVE  \E it : Total(S) = it[S] /\ \A s \in SUBSET S : it[s] = Added(it, s)
<1> DEFINE Small(k) == {s \in SUBSET S : Cardinality(s) <= k}
           Table(g, k) == g = [s \in Small(k) |-> Added(g, s)]
           it == CHOOSE g : g = [s \in SUBSET S |-> Added(g, s)]
           T == {k \in Nat : ~(\E g : Table(g, k))}
<1>1. Total(S) = it[S]
  BY DEF Total, MapThenSumSet, MapThenFoldSet, Added, Picked
<1>2. \A s \in SUBSET S : IsFiniteSet(s) /\ Cardinality(s) \in Nat
  BY FS_Subset, FS_CardinalityType
<1>3. ASSUME NEW s \in SUBSET S, s # {}
      PROVE  /\ Picked(s) \in s /\ s \ {Picked(s)} \in SUBSET S
             /\ Cardinality(s \ {Picked(s)}) = Cardinality(s) - 1
  <2>1. Picked(s) \in s
    BY <1>3 DEF Picked
  <2> QED
    BY <1>2, <2>1, FS_RemoveElement
<1>4. \E g : Table(g, 0)
  <2> DEFINE g == [s \in Small(0) |-> 0]
  <2>1. \A s \in Small(0) : s = {}
    <3>1. ASSUME NEW s \in Small(0) PROVE s = {}
      <4>1. s \in SUBSET S /\ Cardinality(s) <= 0
        OBVIOUS
      <4>2. IsFiniteSet(s) /\ Cardinality(s) = 0
        BY <1>2, <4>1
      <4> QED
        BY <4>2, FS_EmptySet
    <3> QED
      BY <3>1
  <2>2. \A s \in Small(0) : Added(g, s) = 0
    BY <2>1 DEF Added
  <2> HIDE DEF Small
  <2>3. g = [s \in Small(0) |-> Added(g, s)]
    BY <2>2
  <2> QED
    BY <2>3
<1>5. ASSUME NEW k \in Nat, NEW g, Table(g, k)
      PROVE  \E h : Table(h, k + 1)
  <2> DEFINE h == [s \in Small(k + 1) |-> IF s \in Small(k) THEN g[s] ELSE Added(g, s)]
  <2>1. ASSUME NEW s \in Small(k + 1) PROVE h[s] = Added(h, s)
    <3>1. s \in SUBSET S /\ Cardinality(s) <= k + 1 /\ Cardinality(s) \in Nat
      BY <1>2
    <3>2. h[s] = Added(g, s)
      <4>1. CASE s \in Small(k)
        BY <1>5, <4>1
      <4>2. CASE s \notin Small(k)
        BY <4>2
      <4> QED
        BY <4>1, <4>2
    <3>3. CASE s = {}
      BY <3>2, <3>3 DEF Added
    <3>4. CASE s # {}
      <4> DEFINE less == s \ {Picked(s)}
      <4>1. less \in SUBSET S /\ Cardinality(less) = Cardinality(s) - 1
        BY <1>3, <3>1, <3>4
      <4> HIDE DEF less
      <4>2. Cardinality(less) <= k /\ Cardinality(less) <= k + 1
        BY <3>1, <4>1
      <4>3. less \in Small(k) /\ less \in Small(k + 1)
        BY <4>1, <4>2
      <4>4. h[less] = g[less]
        BY <4>3
      <4> QED
        BY <3>2, <3>4, <4>4 DEF Added, less
    <3> QED
      BY <3>3, <3>4
  <2>2. h = [s \in Small(k + 1) |-> h[s]]
    OBVIOUS
  <2> HIDE DEF Small, h
  <2>3. h = [s \in Small(k + 1) |-> Added(h, s)]
    BY <2>1, <2>2
  <2> QED
    BY <2>3
<1>6. T = {}
  <2> SUFFICES ASSUME T # {} PROVE FALSE
    OBVIOUS
  <2> HIDE DEF Table
  <2>1. PICK k \in T : \A j \in T : k <= j
    BY LeastNumber
  <2>2. k # 0 /\ k - 1 \in Nat /\ k - 1 \notin T
    BY <1>4, <2>1
  <2>3. PICK g : Table(g, k - 1)
    BY <2>2
  <2>4. \E h : Table(h, k - 1 + 1)
    BY <1>5, <2>2, <2>3
  <2> QED
    BY <2>1, <2>4
<1>7. Small(Cardinality(S)) = SUBSET S
  BY FS_Subset
<1>8. it = [s \in SUBSET S |-> Added(it, s)]
  <2>1. Cardinality(S) \in Nat
    BY FS_CardinalityType
  <2>2. \E g : Table(g, Cardinality(S))
    BY <1>6, <2>1
  <2>3. \E g : g = [s \in SUBSET S |-> Added(g, s)]
    BY <1>7, <2>2
  <2> QED
    BY <2>3
<1> HIDE DEF it
<1>9. \A s \in SUBSET S : it[s] = Added(it, s)
  BY <1>8
<1> QED
  BY <1>1, <1>9

\* The totals in the tables of two sets are the same.
LEMMA TotalStep ==
    ASSUME NEW S, IsFiniteSet(S)
    PROVE  /\ Total({}) = 0
           /\ S # {} => /\ Picked(S) \in S
                        /\ Total(S) = Picked(S).score + Total(S \ {Picked(S)})
<1>1. Total({}) = 0
  <2>1. PICK it : Total({}) = it[{}] /\ \A s \in SUBSET {} : it[s] = Added(it, s)
    BY TotalTable, FS_EmptySet
  <2> QED
    BY <2>1 DEF Added
<1>2. ASSUME S # {}
      PROVE  Picked(S) \in S /\ Total(S) = Picked(S).score + Total(S \ {Picked(S)})
  <2> DEFINE less == S \ {Picked(S)}
  <2>1. Picked(S) \in S
    BY <1>2 DEF Picked
  <2>2. PICK it : Total(S) = it[S] /\ \A s \in SUBSET S : it[s] = Added(it, s)
    BY TotalTable
  <2>3. IsFiniteSet(less)
    BY FS_RemoveElement
  <2>4. PICK jt : Total(less) = jt[less] /\ \A s \in SUBSET less : jt[s] = Added(jt, s)
    BY <2>3, TotalTable
  <2> DEFINE T == {n \in Nat : \E s \in SUBSET less : Cardinality(s) = n /\ it[s] # jt[s]}
  <2>5. T = {}
    <3> SUFFICES ASSUME T # {} PROVE FALSE
      OBVIOUS
    <3>1. PICK n \in T : \A m \in T : n <= m
      BY LeastNumber
    <3>2. PICK s \in SUBSET less : Cardinality(s) = n /\ it[s] # jt[s]
      BY <3>1
    <3>3. it[s] = Added(it, s) /\ jt[s] = Added(jt, s)
      BY <2>2, <2>4
    <3>4. s # {}
      BY <3>2, <3>3 DEF Added
    <3> DEFINE r == s \ {Picked(s)}
    <3>5. it[r] # jt[r]
      BY <3>2, <3>3, <3>4 DEF Added
    <3>6. IsFiniteSet(s) /\ Picked(s) \in s
      BY <2>3, <3>4, FS_Subset DEF Picked
    <3>7. Cardinality(r) = n - 1 /\ Cardinality(r) \in Nat
      BY <3>2, <3>6, FS_RemoveElement, FS_CardinalityType
    <3>8. n - 1 \in T
      BY <3>5, <3>7
    <3> QED
      BY <3>1, <3>8
  <2>6. it[less] = jt[less]
    BY <2>3, <2>5, FS_CardinalityType
  <2> QED
    BY <1>2, <2>1, <2>2, <2>4, <2>6 DEF Added
<1> QED
  BY <1>1, <1>2

\* Whatever order the fold takes them in, every answer counts once.
LEMMA TotalTakesEach ==
    ASSUME NEW S, IsFiniteSet(S), \A a \in S : a.score \in Nat
    PROVE  /\ Total(S) \in Nat
           /\ \A a \in S : Total(S) = a.score + Total(S \ {a})
<1> DEFINE T == {n \in Nat : \E s \in SUBSET S : Cardinality(s) = n /\ Total(s) \notin Nat}
           U == {n \in Nat : \E s \in SUBSET S, a \in S :
                    a \in s /\ Cardinality(s) = n /\ Total(s) # a.score + Total(s \ {a})}
<1>1. \A s \in SUBSET S : IsFiniteSet(s) /\ Cardinality(s) \in Nat
  BY FS_Subset, FS_CardinalityType
<1>2. \A s \in SUBSET S, a \in S : a \in s =>
          (/\ s \ {a} \in SUBSET S /\ Cardinality(s \ {a}) = Cardinality(s) - 1)
  BY <1>1, FS_RemoveElement
<1>3. T = {}
  <2> SUFFICES ASSUME T # {} PROVE FALSE
    OBVIOUS
  <2>1. PICK n \in T : \A m \in T : n <= m
    BY LeastNumber
  <2>2. PICK s \in SUBSET S : Cardinality(s) = n /\ Total(s) \notin Nat
    BY <2>1
  <2>3. s # {} /\ Picked(s) \in s /\ Total(s) = Picked(s).score + Total(s \ {Picked(s)})
    BY <1>1, <2>2, TotalStep
  <2> DEFINE r == s \ {Picked(s)}
  <2>4. r \in SUBSET S /\ Cardinality(r) = n - 1 /\ Cardinality(r) \in Nat
    BY <1>1, <1>2, <2>2, <2>3
  <2>5. Total(r) \in Nat
    BY <2>1, <2>4
  <2> QED
    BY <2>2, <2>3, <2>5
<1>4. \A s \in SUBSET S : Total(s) \in Nat
  BY <1>1, <1>3
<1>5. U = {}
  <2> SUFFICES ASSUME U # {} PROVE FALSE
    OBVIOUS
  <2>1. PICK n \in U : \A m \in U : n <= m
    BY LeastNumber
  <2>2. PICK s \in SUBSET S, a \in S :
            a \in s /\ Cardinality(s) = n /\ Total(s) # a.score + Total(s \ {a})
    BY <2>1
  <2> DEFINE c == Picked(s)
  <2>3. c \in s /\ Total(s) = c.score + Total(s \ {c})
    BY <1>1, <2>2, TotalStep
  <2> HIDE DEF c
  <2>4. c # a /\ c \in S
    BY <2>2, <2>3
  <2>5. /\ s \ {c} \in SUBSET S /\ Cardinality(s \ {c}) = n - 1
        /\ s \ {a} \in SUBSET S /\ Cardinality(s \ {a}) = n - 1
        /\ n - 1 \in Nat /\ a \in s \ {c} /\ c \in s \ {a}
    <3>1. s \ {c} \in SUBSET S /\ Cardinality(s \ {c}) = n - 1
      BY <1>2, <2>2, <2>3, <2>4
    <3>2. s \ {a} \in SUBSET S /\ Cardinality(s \ {a}) = n - 1
      BY <1>2, <2>2
    <3>3. n - 1 \in Nat
      BY <1>1, <3>2
    <3>4. a \in s \ {c} /\ c \in s \ {a}
      BY <2>2, <2>3, <2>4
    <3> QED
      BY <3>1, <3>2, <3>3, <3>4
  <2>6. n - 1 \notin U
    BY <2>1, <2>5
  <2>7. Total(s \ {c}) = a.score + Total((s \ {c}) \ {a})
    BY <2>5, <2>6
  <2>8. Total(s \ {a}) = c.score + Total((s \ {a}) \ {c})
    BY <2>4, <2>5, <2>6
  <2>9. (s \ {a}) \ {c} = (s \ {c}) \ {a} /\ (s \ {a}) \ {c} \in SUBSET S
    OBVIOUS
  <2>10. Total((s \ {a}) \ {c}) \in Nat /\ a.score \in Nat /\ c.score \in Nat
    BY <1>4, <2>4, <2>9
  <2>11. Total(s) = a.score + Total(s \ {a})
    <3> DEFINE both == Total((s \ {a}) \ {c})
    <3>1. Total(s \ {a}) = c.score + both /\ Total(s \ {c}) = a.score + both /\ both \in Nat
      BY <2>7, <2>8, <2>9, <2>10
    <3> HIDE DEF both
    <3> QED
      BY <2>3, <2>10, <3>1
  <2> QED
    BY <2>2, <2>11
<1>6. S \in SUBSET S /\ Cardinality(S) \in Nat
  BY <1>1
<1>7. ASSUME NEW a \in S, Total(S) # a.score + Total(S \ {a})
      PROVE  Cardinality(S) \in U
  BY <1>6, <1>7
<1> QED
  BY <1>4, <1>5, <1>6, <1>7

\* One answer more adds its score.
LEMMA TotalAdds ==
    ASSUME NEW S, IsFiniteSet(S), \A a \in S : a.score \in Nat,
           NEW new, new.score \in Nat, new \notin S
    PROVE  Total(S \cup {new}) = Total(S) + new.score /\ Total(S) \in Nat
<1>1. IsFiniteSet(S \cup {new}) /\ (S \cup {new}) \ {new} = S
  BY FS_AddElement
<1>2. \A a \in S \cup {new} : a.score \in Nat
  OBVIOUS
<1>3. \A a \in S \cup {new} : Total(S \cup {new}) = a.score + Total((S \cup {new}) \ {a})
  BY <1>1, <1>2, TotalTakesEach
<1>4. Total(S \cup {new}) = new.score + Total(S)
  BY <1>1, <1>3
<1>5. Total(S) \in Nat
  BY TotalTakesEach
<1> QED
  BY <1>4, <1>5

\* Products of natural numbers grow with their factors, and quotients with the dividend.
LEMMA ProductGrows ==
    ASSUME NEW a \in Nat, NEW b \in Nat, NEW c \in Nat, b <= c
    PROVE  a * b <= a * c
<1>1. PICK d \in Nat : c = b + d
  <2>1. c - b \in Nat /\ c = b + (c - b)
    OBVIOUS
  <2> QED
    BY <2>1
<1>2. a * c = a * b + a * d
  BY <1>1
<1>3. a * d \in Nat /\ a * b \in Nat
  OBVIOUS
<1> QED
  BY <1>2, <1>3

LEMMA QuotientGrows ==
    ASSUME NEW a \in Nat, NEW b \in Nat, NEW d \in Nat \ {0}, a <= b
    PROVE  a \div d <= b \div d
<1> DEFINE q == a \div d
           r == b \div d
<1>1. /\ q \in Int /\ r \in Int
      /\ d * q <= a /\ a < d * q + d
      /\ d * r <= b /\ b < d * r + d
  OBVIOUS
<1> HIDE DEF q, r
<1>2. ASSUME r < q PROVE FALSE
  <2>1. PICK e \in Nat : q = (r + 1) + e
    <3>1. q - (r + 1) \in Nat /\ q = (r + 1) + (q - (r + 1))
      BY <1>1, <1>2
    <3> QED
      BY <3>1
  <2>2. d * q = d * r + d + d * e
    BY <1>1, <2>1
  <2>3. d * e \in Nat /\ d * r \in Int
    BY <1>1, <2>1
  <2> QED
    BY <1>1, <2>2, <2>3
<1>3. q <= r
  BY <1>1, <1>2
<1> QED
  BY <1>3 DEF q, r

\* The sooner an answer, the higher the score.
LEMMA SoonerScoresMore ==
    ASSUME NEW right \in BOOLEAN, NEW base \in Nat, NEW limit \in Nat \ {0},
           NEW sooner \in Int, NEW later \in Int, sooner <= later
    PROVE  CalculateScore(TRUE, base, sooner, limit) >= CalculateScore(right, base, later, limit)
<1> DEFINE Share(t) == 6 * limit + 4 * AtLeastZero(limit - t)
           Dividend(t) == 2 * base * Share(t) + 10 * limit
<1>1. /\ CalculateScore(TRUE, base, sooner, limit) \in Nat
      /\ CalculateScore(right, base, later, limit) \in Nat
  BY CalculateScoreType
<1>2. CASE right = FALSE
  BY <1>1, <1>2 DEF CalculateScore
<1>3. CASE ResolvedScoring = "accuracy"
  BY <1>1, <1>3 DEF CalculateScore
<1>4. CASE right = TRUE /\ ResolvedScoring # "accuracy"
  <2>1. Share(later) \in Nat /\ Share(sooner) \in Nat /\ Share(later) <= Share(sooner)
    <3> DEFINE x == AtLeastZero(limit - sooner)
               y == AtLeastZero(limit - later)
    <3>1. x \in Nat /\ y \in Nat /\ y <= x
      BY DEF AtLeastZero
    <3> HIDE DEF x, y
    <3> QED
      BY <3>1 DEF x, y
  <2> HIDE DEF Share
  <2>2. 2 * base \in Nat /\ 10 * limit \in Nat /\ 20 * limit \in Nat \ {0}
    OBVIOUS
  <2>3. 2 * base * Share(later) <= 2 * base * Share(sooner)
    BY <2>1, <2>2, ProductGrows
  <2>4. 2 * base * Share(later) \in Nat /\ 2 * base * Share(sooner) \in Nat
    BY <2>1, <2>2
  <2>5. Dividend(later) \in Nat /\ Dividend(sooner) \in Nat /\ Dividend(later) <= Dividend(sooner)
    BY <2>2, <2>3, <2>4
  <2> HIDE DEF Dividend
  <2>6. Dividend(later) \div (20 * limit) <= Dividend(sooner) \div (20 * limit)
    BY <2>2, <2>5, QuotientGrows
  <2>7. /\ CalculateScore(TRUE, base, sooner, limit) = Dividend(sooner) \div (20 * limit)
        /\ CalculateScore(right, base, later, limit) = Dividend(later) \div (20 * limit)
    BY <1>4 DEF CalculateScore, Dividend, Share
  <2> QED
    BY <1>1, <2>6, <2>7
<1> QED
  BY <1>2, <1>3, <1>4

AnswersFrom(p) == {a \in accepted : a.participant = p}

\* What an answer is worth by the record of its round, which outlives the current round.
Earned(a) ==
    LET round == rounds[a.roundId]
        question == Quiz[round.questionIndex]
    IN  IF round.kind = "main" /\ question.scored
        THEN CalculateScore(a.right, question.basePoints, a.acceptedAtMs - round.openedAtMs,
                            question.timeLimit)
        ELSE 0

\* The sums stand because each answer is worth what its round says, is new when it is
\* accepted, and is credited once.
SumsStand == \A p \in Participants : participants[p].score = Total(AnswersFrom(p))
ScoresAreEarned == \A a \in accepted : a.score = Earned(a)
KickedStayOut ==
    \A p \in Participants : (participants[p].status = "kicked" => ~participants[p].connected)
StandingsIInv == IsFiniteSet(accepted) /\ SumsStand /\ ScoresAreEarned /\ KickedStayOut

\* What leaves the answers, the scores and what the rounds keep for good.
LEMMA StandingsKept ==
    ASSUME EngineInv, StandingsIInv, accepted' = accepted,
           \A p \in Participants :
               /\ participants'[p].score = participants[p].score
               /\ participants'[p].status = "kicked" => ~participants'[p].connected,
           \A r \in DOMAIN rounds :
               /\ rounds'[r].questionIndex = rounds[r].questionIndex
               /\ rounds'[r].kind = rounds[r].kind
               /\ rounds'[r].openedAtMs = rounds[r].openedAtMs
    PROVE  StandingsIInv'
<1>1. \A a \in accepted : a.roundId \in DOMAIN rounds
  BY DEF EngineInv, AnswersInv
<1>2. \A a \in accepted : Earned(a)' = Earned(a)
  BY <1>1 DEF Earned
<1>3. ScoresAreEarned'
  BY <1>2 DEF StandingsIInv, ScoresAreEarned
<1>4. \A p \in Participants : AnswersFrom(p)' = AnswersFrom(p)
  BY DEF AnswersFrom
<1>5. SumsStand'
  BY <1>4 DEF StandingsIInv, SumsStand
<1>6. KickedStayOut' /\ IsFiniteSet(accepted)'
  BY DEF StandingsIInv, KickedStayOut
<1> QED
  BY <1>3, <1>5, <1>6 DEF StandingsIInv

\* An accepted answer is new, whatever was forgotten since, and adds what it is worth.
LEMMA AcceptAnswerCredits ==
    ASSUME EngineInv, StandingsIInv,
           NEW p \in Participants, NEW key \in Keys, NEW right \in BOOLEAN,
           NEW receivedAt \in 0..now, AcceptAnswer(p, key, right, receivedAt)
    PROVE  StandingsIInv'
<1> DEFINE responseMs == receivedAt - current.openedAtMs
           question == Quiz[current.questionIndex]
           score == IF Scored
                    THEN CalculateScore(right, question.basePoints, responseMs,
                                        question.timeLimit)
                    ELSE 0
           new == [participant |-> p, roundId |-> current.roundId, key |-> key,
                   right |-> right, score |-> score, acceptedAtMs |-> receivedAt]
<1>1. /\ accepted' = accepted \cup {new} /\ phase = "question_open"
      /\ participants' = Credit(p, score, right, responseMs)
      /\ HasNotAnswered(p, key) /\ UNCHANGED <<rounds, current, phase>>
  BY DEF AcceptAnswer
<1>2. /\ new.participant = p /\ new.roundId = current.roundId /\ new.score = score
      /\ new.right = right /\ new.acceptedAtMs = receivedAt
  OBVIOUS
<1>3. /\ current.roundId \in DOMAIN rounds /\ current.roundId # NoRound
      /\ rounds[current.roundId].questionIndex = current.questionIndex
      /\ rounds[current.roundId].kind = current.roundKind
      /\ rounds[current.roundId].openedAtMs = current.openedAtMs
  BY <1>1, OpenRoundType DEF EngineInv, RoundsInv, CurrentRoundMirrored, NoRound
<1>4. score = Earned(new)
  BY <1>2, <1>3 DEF Earned, Scored
<1>5. score \in Nat
  <2>1. /\ current.questionIndex \in DOMAIN Quiz /\ current.openedAtMs \in Nat
        /\ receivedAt \in Int /\ responseMs \in Int
    BY <1>1, OpenRoundType DEF EngineInv, TypeOK
  <2>2. question.basePoints \in Nat /\ question.timeLimit \in Nat \ {0}
    BY <2>1, QuestionType
  <2> HIDE DEF responseMs, question
  <2>3. CalculateScore(right, question.basePoints, responseMs, question.timeLimit) \in Nat
    BY <2>1, <2>2, CalculateScoreType
  <2> QED
    BY <2>3
<1>6. /\ participants'[p].score = participants[p].score + score
      /\ \A x \in Participants \ {p} : participants'[x].score = participants[x].score
      /\ \A x \in Participants : /\ participants'[x].status = participants[x].status
                                 /\ participants'[x].connected = participants[x].connected
  <2>1. participants \in [Participants -> ParticipantType]
    BY DEF EngineInv, TypeOK
  <2> HIDE DEF score, responseMs
  <2> QED
    BY <1>1, <2>1 DEF Credit, ParticipantType
<1> HIDE DEF new, score, responseMs, question
<1>7. \A a \in accepted : a.participant # p \/ a.roundId # current.roundId
  BY <1>1 DEF EngineInv, AnswersInv, AnswersOfCurrentRound, HasNotAnswered
<1>8. new \notin AnswersFrom(p)
  BY <1>2, <1>7 DEF AnswersFrom
<1>9. IsFiniteSet(AnswersFrom(p)) /\ \A a \in AnswersFrom(p) : a.score \in Nat
  BY FS_Subset DEF AnswersFrom, StandingsIInv, EngineInv, TypeOK, AnswerType
<1>10. Total(AnswersFrom(p) \cup {new}) = Total(AnswersFrom(p)) + score
  BY <1>2, <1>5, <1>8, <1>9, TotalAdds
<1>11. /\ AnswersFrom(p)' = AnswersFrom(p) \cup {new}
       /\ \A x \in Participants \ {p} : AnswersFrom(x)' = AnswersFrom(x)
  BY <1>1, <1>2 DEF AnswersFrom
<1>12. SumsStand'
  <2>1. participants'[p].score = Total(AnswersFrom(p)')
    BY <1>6, <1>10, <1>11 DEF StandingsIInv, SumsStand
  <2>2. \A x \in Participants \ {p} : participants'[x].score = Total(AnswersFrom(x)')
    BY <1>6, <1>11 DEF StandingsIInv, SumsStand
  <2> QED
    BY <2>1, <2>2 DEF SumsStand
<1>13. ScoresAreEarned'
  BY <1>1, <1>2, <1>4 DEF StandingsIInv, ScoresAreEarned, Earned
<1>14. KickedStayOut' /\ IsFiniteSet(accepted)'
  BY <1>1, <1>6, FS_AddElement DEF StandingsIInv, KickedStayOut
<1> QED
  BY <1>12, <1>13, <1>14 DEF StandingsIInv

LEMMA NextStandings ==
    ASSUME EngineInv, StandingsIInv, [Next]_vars
    PROVE  StandingsIInv'
<1>0. \A p \in Participants : (participants[p].status = "kicked" => ~participants[p].connected)
  BY DEF StandingsIInv, KickedStayOut
<1>1. ASSUME NEW index, NEW kind, NEW source, NEW id, OpenQuestion(index, kind, source, id)
      PROVE  StandingsIInv'
  <2>1. accepted' = accepted /\ participants' = participants
    BY <1>1 DEF OpenQuestion, roomVars
  <2> QED
    BY <1>0, <1>1, <2>1, AppendedRound, StandingsKept
<1>2. CASE Start \/ NextQuestion \/ OpenRevote
           \/ \E target \in RecheckQuestions : OpenLinkedRecheck(target)
  BY <1>1, <1>2 DEF Start, NextQuestion, OpenRevote, OpenLinkedRecheck
<1>3. CASE Resume \/ Lock
  <2>1. accepted' = accepted /\ participants' = participants
    BY <1>3 DEF Resume, Lock, answerVars, roomVars
  <2> QED
    BY <1>0, <1>3, <2>1, TimedRound, StandingsKept
<1>4. CASE Pause \/ Reveal \/ ShowLeaderboard \/ NextFinishes \/ End \/ InterventionFinish
  <2>1. UNCHANGED <<accepted, participants, rounds>>
    BY <1>4 DEF Pause, Reveal, ShowLeaderboard, NextFinishes, End, Finish, InterventionFinish,
                answerVars, roomVars
  <2> QED
    BY <1>0, <2>1, StandingsKept
<1>5. ASSUME NEW type, NEW card, InterventionStart(type, card)
      PROVE  StandingsIInv'
  <2>1. UNCHANGED <<accepted, participants, rounds>>
    BY <1>5 DEF InterventionStart, answerVars, roomVars
  <2> QED
    BY <1>0, <2>1, StandingsKept
<1>6. ASSUME NEW locked, SetLobbyLock(locked)
      PROVE  StandingsIInv'
  <2>1. UNCHANGED <<accepted, participants, rounds>>
    BY <1>6 DEF SetLobbyLock, answerVars
  <2> QED
    BY <1>0, <2>1, StandingsKept
<1>7. ASSUME NEW p \in Participants,
             AddParticipant(p) \/ SetParticipantConnection(p) \/ Kick(p)
      PROVE  StandingsIInv'
  <2>1. participants \in [Participants -> ParticipantType] /\ UNCHANGED <<accepted, rounds>>
    BY <1>7 DEF AddParticipant, SetParticipantConnection, Kick, answerVars, EngineInv, TypeOK
  <2>2. /\ \A x \in Participants : participants'[x].score = participants[x].score
        /\ \A x \in Participants :
               (participants'[x].status = "kicked" => ~participants'[x].connected)
    <3>1. CASE AddParticipant(p)
      BY <1>0, <2>1, <3>1 DEF AddParticipant, ParticipantType
    <3>2. CASE SetParticipantConnection(p)
      BY <1>0, <2>1, <3>2 DEF SetParticipantConnection, MayChangeConnection, ParticipantType
    <3>3. CASE Kick(p)
      BY <1>0, <2>1, <3>3 DEF Kick, ParticipantType
    <3> QED
      BY <1>7, <3>1, <3>2, <3>3
  <2> QED
    BY <2>1, <2>2, StandingsKept
<1>8. ASSUME NEW p \in Participants, NEW key \in Keys, NEW right \in BOOLEAN,
             NEW receivedAt \in 0..now, AcceptAnswer(p, key, right, receivedAt)
      PROVE  StandingsIInv'
  BY <1>8, AcceptAnswerCredits
<1>9. CASE Tick \/ UNCHANGED vars
  <2>1. UNCHANGED <<accepted, participants, rounds>>
    BY <1>9 DEF Tick, vars, answerVars, roomVars
  <2> QED
    BY <1>0, <2>1, StandingsKept
<1> QED
  BY <1>2, <1>3, <1>4, <1>5, <1>6, <1>7, <1>8, <1>9 DEF Next

\* In a round that gives points the earlier of two right answers is worth no less.
LEMMA EarlierIsWorthMore ==
    ASSUME EngineInv, NEW a \in accepted, NEW b \in accepted,
           a.roundId = b.roundId, a.right, a.acceptedAtMs <= b.acceptedAtMs
    PROVE  Earned(a) >= Earned(b)
<1> DEFINE round == rounds[a.roundId]
           question == Quiz[round.questionIndex]
<1>1. /\ a.roundId \in DOMAIN rounds /\ rounds \in Seq(RoundType)
      /\ a.acceptedAtMs \in Nat /\ b.acceptedAtMs \in Nat
      /\ a.right \in BOOLEAN /\ b.right \in BOOLEAN
  BY DEF EngineInv, AnswersInv, TypeOK, AnswerType
<1>2. round \in RoundType
  <2>1. DOMAIN rounds = 1..Len(rounds)
    BY <1>1
  <2> QED
    BY <1>1, <2>1
<1>3. round.questionIndex \in DOMAIN Quiz /\ round.openedAtMs \in Nat
  BY <1>2 DEF RoundType
<1>4. question.basePoints \in Nat /\ question.timeLimit \in Nat \ {0}
  BY <1>3, QuestionType
<1> DEFINE sooner == a.acceptedAtMs - round.openedAtMs
           later == b.acceptedAtMs - round.openedAtMs
<1>5. sooner \in Int /\ later \in Int /\ sooner <= later /\ a.right = TRUE
  BY <1>1, <1>3
<1> DEFINE more == CalculateScore(TRUE, question.basePoints, sooner, question.timeLimit)
           less == CalculateScore(b.right, question.basePoints, later, question.timeLimit)
           counts == round.kind = "main" /\ question.scored
<1>6. more >= less
  <2> HIDE DEF sooner, later, question
  <2> QED
    BY <1>1, <1>4, <1>5, SoonerScoresMore
<1>7. Earned(a) = IF counts THEN more ELSE 0
  BY <1>5 DEF Earned
<1>8. Earned(b) = IF counts THEN less ELSE 0
  BY DEF Earned
<1> HIDE DEF more, less, counts
<1> QED
  BY <1>6, <1>7, <1>8

\* For every quiz, timing mode and set of participants: a participant's score is the sum of
\* what each of their accepted answers earned, counted once; within a round the earlier of
\* two right answers never scores less, however often the round was paused; and who was
\* kicked stays out (acceptAnswer, calculateScore and setParticipantConnection).
THEOREM StandingsAreTrue == Spec => []StandingsInv
<1>1. Init => StandingsIInv
  <2> SUFFICES ASSUME Init PROVE StandingsIInv
    OBVIOUS
  <2>1. accepted = {} /\ participants = [p \in Participants |-> NewParticipant]
    BY DEF Init
  <2>2. Total({}) = 0 /\ IsFiniteSet({})
    BY TotalStep, FS_EmptySet
  <2>3. \A p \in Participants : AnswersFrom(p) = {}
    BY <2>1 DEF AnswersFrom
  <2> QED
    BY <2>1, <2>2, <2>3
       DEF StandingsIInv, SumsStand, ScoresAreEarned, KickedStayOut, NewParticipant
<1>2. EngineInv /\ StandingsIInv /\ [Next]_vars => StandingsIInv'
  BY NextStandings
<1>3. EngineInv /\ StandingsIInv => StandingsInv
  <2> SUFFICES ASSUME EngineInv, StandingsIInv, NEW p \in Participants
               PROVE  LET given == {a \in accepted : a.participant = p}
                      IN  /\ participants[p].status = "kicked" => ~participants[p].connected
                          /\ participants[p].score = MapThenSumSet(LAMBDA a : a.score, given)
                          /\ \A a \in given, b \in accepted :
                                 a.roundId = b.roundId /\ a.right
                                     /\ a.acceptedAtMs <= b.acceptedAtMs => a.score >= b.score
    BY DEF StandingsInv
  <2>1. participants[p].score = Total(AnswersFrom(p))
    BY DEF StandingsIInv, SumsStand
  <2>2. participants[p].score = MapThenSumSet(LAMBDA a : a.score, {a \in accepted : a.participant = p})
    BY <2>1 DEF Total, AnswersFrom
  <2>3. \A a, b \in accepted :
            (a.roundId = b.roundId /\ a.right /\ a.acceptedAtMs <= b.acceptedAtMs
                 => a.score >= b.score)
    BY EarlierIsWorthMore DEF StandingsIInv, ScoresAreEarned
  <2>4. participants[p].status = "kicked" => ~participants[p].connected
    BY DEF StandingsIInv, KickedStayOut
  <2> QED
    BY <2>2, <2>3, <2>4
<1> QED
  BY <1>1, <1>2, <1>3, EngineInvariant, PTL DEF Spec

===============================================================================
