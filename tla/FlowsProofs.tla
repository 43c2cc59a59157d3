------------------------------ MODULE FlowsProofs ------------------------------
(* What is proved of the host's controls, and of what people outside the room  *)
(* set going: for any quiz and any number of commits, guests, answers,         *)
(* practice tabs and deployments.                                              *)
EXTENDS MCFlows, GameEngineProofs

-------------------------------------------------------------------------------
(* The host's primary control *)

\* What the engine is given for each command.
LEMMA CommandsExecuted ==
    /\ Execute(Command("start")) => Start
    /\ Execute(Command("resume")) => Resume
    /\ Execute(Command("lock")) => Lock
    /\ Execute(Command("reveal")) => Reveal
    /\ Execute(Command("intervention.finish")) => InterventionFinish
    /\ Execute(Command("next")) => NextQuestion \/ NextFinishes
    /\ \A type : Execute(Intervene(type)) => InterventionStart(type, NoRound)
    /\ Execute(Recheck("linked")) => OpenLinkedRecheck(LinkedRecheck[current.questionIndex])
    /\ Execute(Recheck("revote")) => OpenRevote
BY DEF Execute, Command, Intervene, Recheck

\* Stages are numbered within the 20 of a checkpoint.
LEMMA StageType == EngineInv => Stage \in 0..14
BY DEF Stage, EngineInv, TypeOK, Phases

\* The checkpoint a room stands at is one of the quiz's, so its progress can be compared.
LEMMA Placed ==
    ASSUME EngineInv, MainCheckpointsInOrder, phase \notin {"lobby", "finished"}
    PROVE  /\ SourcePosition \in 1..Len(Quiz) /\ Len(Quiz) \in Nat
           /\ Progress = 20 * SourcePosition + Stage
<1>1. current.roundId # NoRound
  BY DEF EngineInv, RoundsInv, CurrentRoundIsLatest
<1>2. DOMAIN Quiz = 1..Len(Quiz) /\ Len(Quiz) \in Nat
  BY QuizAssumption
<1> QED
  BY <1>1, <1>2, Standing DEF MainQuestions, Progress

\* Within a checkpoint a later stage is further along.
LEMMA FurtherAlong ==
    ASSUME EngineInv, EngineInv', MainCheckpointsInOrder, current' = current, RoundsKeepCards,
           phase \notin {"lobby", "finished"}, phase' \notin {"lobby", "finished"},
           Stage' > Stage
    PROVE  Progress' > Progress
<1>1. current.roundId # NoRound
  BY DEF EngineInv, RoundsInv, CurrentRoundIsLatest
<1>2. SourcePosition' = SourcePosition
  BY <1>1, CheckpointKept
<1>3. Progress' = 20 * SourcePosition' + Stage'
  BY DEF Progress
<1>4. Stage \in 0..14 /\ Stage' \in 0..14
  BY StageType DEF Stage, EngineInv, TypeOK, Phases
<1> QED
  BY <1>2, <1>3, <1>4, Placed

\* The six ways on.
LEMMA StartLeadsOn ==
    ASSUME EngineInv, Start
    PROVE  Progress' > Progress
<1>1. PICK index \in NextMainQuestions(0) : OpenQuestion(index, "main", NoRound, NoRound)
  BY DEF Start
<1>2. /\ phase' = "question_open" /\ current'.roundKind = "main"
      /\ current'.questionIndex = index
  BY <1>1 DEF OpenQuestion
<1>3. index \in Nat /\ index > 0
  BY QuizAssumption DEF NextMainQuestions, LaterMainQuestions, MainQuestions
<1>4. SourcePosition' = index /\ Stage' = 2
  BY <1>2 DEF SourcePosition, Stage, OnMain
<1>5. Progress = 0 /\ Progress' = 20 * SourcePosition' + Stage'
  BY <1>2 DEF Progress, Start
<1> QED
  BY <1>3, <1>4, <1>5

LEMMA NextLeadsOn ==
    ASSUME EngineInv, MainCheckpointsInOrder, NextQuestion \/ NextFinishes
    PROVE  Progress' > Progress
<1> DEFINE n == Len(Quiz)
           p == SourcePosition
           s == Stage
<1>1. phase \in {"question_reveal", "leaderboard"}
  BY DEF NextQuestion, NextFinishes, AdvancesFrom
<1>2. p \in 1..n /\ n \in Nat /\ Progress = 20 * p + s /\ s \in 0..14
  BY <1>1, Placed, StageType
<1>3. CASE NextQuestion
  <2>1. PICK index \in NextMainQuestions(p) : OpenQuestion(index, "main", NoRound, NoRound)
    BY <1>3 DEF NextQuestion
  <2>2. /\ phase' = "question_open" /\ current'.roundKind = "main"
        /\ current'.questionIndex = index
    BY <2>1 DEF OpenQuestion
  <2>3. index \in Nat /\ index > p
    BY QuizAssumption DEF NextMainQuestions, LaterMainQuestions, MainQuestions
  <2>4. SourcePosition' = index /\ Stage' = 2
    BY <2>2 DEF SourcePosition, Stage, OnMain
  <2>5. Progress' = 20 * SourcePosition' + Stage'
    BY <2>2 DEF Progress
  <2>6. Progress' = 20 * index + 2
    BY <2>4, <2>5
  <2> HIDE DEF p, s
  <2> QED
    BY <1>2, <2>3, <2>6
<1>4. CASE NextFinishes
  <2>1. Progress' = 20 * (n + 1)
    BY <1>4 DEF NextFinishes, Finish, Progress
  <2> HIDE DEF p, s, n
  <2> QED
    BY <1>2, <2>1
<1> QED
  BY <1>3, <1>4

\* A recheck comes after everything its main checkpoint was before it.
LEMMA RecheckLeadsOn ==
    ASSUME EngineInv, MainCheckpointsInOrder, NEW index, NEW kind \in {"linked_recheck", "revote"},
           RecheckAllowed, OpenQuestion(index, kind, current.roundId, intervention.id)
    PROVE  Progress' > Progress
<1> DEFINE p == SourcePosition
           s == Stage
<1>1. phase \in {"question_locked", "question_reveal"} /\ OnMain
  BY DEF RecheckAllowed, OnMain
<1>2. p \in 1..Len(Quiz) /\ Progress = 20 * p + s
  BY <1>1, Placed
<1>3. s \in 0..9
  BY <1>1 DEF Stage
<1>4. /\ phase' = "question_open" /\ current'.roundKind = kind
      /\ current'.sourceRoundId = current.roundId
  BY DEF OpenQuestion
<1>5. current.roundId \in DOMAIN rounds
  BY <1>1, OpenRoundType
<1>6. rounds'[current.roundId].questionIndex = current.questionIndex
  BY <1>1, <1>5, AppendedRound DEF EngineInv, RoundsInv, CurrentRoundMirrored, RecheckAllowed
<1>7. SourcePosition' = p
  BY <1>1, <1>4, <1>6 DEF SourcePosition, OnMain
<1>8. Stage' = 11 /\ Progress' = 20 * SourcePosition' + Stage'
  BY <1>4 DEF Stage, OnMain, Progress
<1>9. Progress' = 20 * p + 11
  BY <1>7, <1>8
<1> HIDE DEF p, s
<1> QED
  BY <1>2, <1>3, <1>9

LEMMA InterveneLeadsOn ==
    ASSUME EngineInv, EngineInv', MainCheckpointsInOrder, NEW type,
           InterventionStart(type, NoRound),
           \/ phase = "question_locked" /\ type = "peer_discussion" /\ OnMain
                  /\ ~PeerDiscussionFinished
           \/ phase = "question_reveal" /\ OnMain /\ ~InterventionFinished
    PROVE  Progress' > Progress
<1>1. /\ phase' = "intervention" /\ interventionReturnPhase' = phase
      /\ intervention'.type = type /\ current' = current /\ rounds' = rounds
  BY DEF InterventionStart
<1>2. Stage' = IF phase = "question_reveal" THEN 8 ELSE 5
  BY <1>1 DEF Stage
<1>3. Stage = IF phase = "question_reveal" THEN 7 ELSE 4
  BY DEF Stage
<1> QED
  BY <1>1, <1>2, <1>3, FurtherAlong DEF RoundsKeepCards

LEMMA FinishLeadsOn ==
    ASSUME EngineInv, EngineInv', InterventionsInv, MainCheckpointsInOrder, InterventionFinish
    PROVE  Progress' > Progress
<1>1. /\ phase = "intervention" /\ phase' = interventionReturnPhase
      /\ intervention' = [intervention EXCEPT !.finished = TRUE]
      /\ current' = current /\ rounds' = rounds
      /\ interventionReturnPhase \in {"question_locked", "question_reveal"}
  BY DEF InterventionFinish, EngineInv, TypeOK
<1>2. /\ intervention'.type = intervention.type /\ intervention'.finished
      /\ intervention' # NoIntervention
  <2>1. intervention \in InterventionType /\ intervention # NoIntervention
    BY DEF EngineInv, TypeOK, InterventionFinish, ActiveIntervention
  <2>2. intervention.id # NoRound
    <3>1. intervention.id \in DOMAIN interventions /\ interventions \in Seq(InterventionType)
      BY <2>1 DEF InterventionsInv, InterventionsAgree, EngineInv, TypeOK
    <3> QED
      BY <3>1 DEF NoRound
  <2> QED
    BY <1>1, <2>1, <2>2 DEF InterventionType, NoIntervention
<1>3. CASE interventionReturnPhase = "question_reveal"
  <2>1. Stage = 8 /\ Stage' \in {9, 13}
    BY <1>1, <1>2, <1>3 DEF Stage, InterventionFinished
  <2> QED
    BY <1>1, <1>3, <2>1, FurtherAlong DEF RoundsKeepCards
<1>4. CASE interventionReturnPhase = "question_locked"
  <2>1. Stage' > Stage
    <3>1. CASE intervention.type = "peer_discussion"
      BY <1>1, <1>2, <1>4, <3>1 DEF Stage, PeerDiscussionFinished
    <3>2. CASE intervention.type # "peer_discussion"
      BY <1>1, <1>2, <1>4, <3>2 DEF Stage, PeerDiscussionFinished
    <3> QED
      BY <3>1, <3>2
  <2> QED
    BY <1>1, <1>4, <2>1, FurtherAlong DEF RoundsKeepCards
<1> QED
  BY <1>1, <1>3, <1>4

LEMMA ClosingLeadsOn ==
    ASSUME EngineInv, EngineInv', MainCheckpointsInOrder, Lock \/ Resume \/ Reveal
    PROVE  Progress' > Progress
<1>1. /\ current' = current /\ intervention' = intervention
      /\ phase \notin {"lobby", "finished"} /\ phase' \notin {"lobby", "finished"}
  BY DEF Lock, Resume, Reveal, interventionVars
<1>2. RoundsKeepCards
  <2>1. CASE Reveal
    BY <2>1 DEF Reveal, RoundsKeepCards
  <2>2. CASE Lock \/ Resume
    BY <2>2, TimedRound DEF RoundsKeepCards
  <2> QED
    BY <2>1, <2>2
<1>3. OnMain' <=> OnMain
  BY <1>1 DEF OnMain
<1>4. Stage' > Stage
  <2>1. CASE Lock
    BY <1>1, <1>3, <2>1 DEF Lock, Stage
  <2>2. CASE Resume
    BY <1>1, <1>3, <2>2 DEF Resume, Stage
  <2>3. CASE Reveal
    BY <1>1, <1>3, <2>3 DEF Reveal, Stage
  <2> QED
    BY <2>1, <2>2, <2>3
<1> QED
  BY <1>1, <1>2, <1>4, FurtherAlong

\* What the primary control is, phase by phase.
LEMMA Primaries ==
    ASSUME EngineInv, NEW suggestion \in Suggestions
    PROVE  LET primary == HostPhaseView(suggestion).primary
           IN  /\ phase = "lobby" => primary = Command("start")
               /\ phase = "question_open" => primary = Command("lock")
               /\ phase = "paused" => primary = Command("resume")
               /\ phase = "question_locked" =>
                      \/ primary = Command("reveal")
                      \/ /\ primary = Intervene("peer_discussion")
                         /\ OnMain /\ ~PeerDiscussionFinished
               /\ phase = "question_reveal" =>
                      \/ primary = Command("next")
                      \/ primary \in {Recheck("linked"), Recheck("revote")}
                      \/ /\ primary \in {Intervene("explain"), Intervene("example")}
                         /\ OnMain /\ ~InterventionFinished
               /\ phase = "intervention" => primary = Command("intervention.finish")
               /\ phase = "leaderboard" => primary = Command("next")
               /\ phase = "finished" => primary = Command("none")
<1> DEFINE primary == HostPhaseView(suggestion).primary
<1>1. \A x, y : View(x, y).primary = x
  BY DEF View
<1>2. CASE phase = "question_locked"
  <2>1. primary = LockedView(suggestion).primary
    BY <1>2 DEF HostPhaseView
  <2> QED
    BY <1>1, <1>2, <2>1 DEF LockedView
<1>3. CASE phase = "question_reveal"
  <2>1. primary = RevealView(suggestion).primary
    BY <1>3 DEF HostPhaseView
  <2>2. ChooseView(suggestion).primary
            \in {Command("next"), Intervene("explain"), Intervene("example")}
    BY <1>1 DEF ChooseView, Suggestions
  <2> QED
    BY <1>1, <1>3, <2>1, <2>2 DEF RevealView
<1>4. CASE phase \notin {"question_locked", "question_reveal"}
  BY <1>1, <1>4 DEF HostPhaseView
<1> QED
  BY <1>2, <1>3, <1>4

\* A host who keeps pressing the primary button gets to the finish, whatever the insights
\* suggest: what it sends always leads further along, and there is one until the session is
\* finished (getHostPhaseView).
THEOREM PrimaryLeadsTheHostOn == Spec => PrimaryLeadsOn
<1>1. ASSUME EngineInv, EngineInv', InterventionsInv, MainCheckpointsInOrder,
             NEW suggestion \in Suggestions
      PROVE  LET primary == HostPhaseView(suggestion).primary
             IN  /\ primary = Command("none") <=> phase = "finished"
                 /\ primary # Command("none") /\ Execute(primary) => Progress' > Progress
  <2> DEFINE primary == HostPhaseView(suggestion).primary
  <2>1. phase \in Phases
    BY <1>1 DEF EngineInv, TypeOK
  <2>2. primary = Command("none") <=> phase = "finished"
    <3> HIDE DEF primary
    <3>1. /\ \A a \in {"start", "lock", "resume", "reveal", "next", "intervention.finish"} :
                 Command(a) # Command("none")
          /\ \A t : Intervene(t) # Command("none")
          /\ \A t : Recheck(t) # Command("none")
      BY DEF Command, Intervene, Recheck
    <3> QED
      BY <1>1, <2>1, <3>1, Primaries DEF Phases, primary
  <2>3. ASSUME primary # Command("none"), Execute(primary)
        PROVE  Progress' > Progress
    <3>1. CASE phase = "lobby"
      BY <1>1, <2>3, <3>1, Primaries, CommandsExecuted, StartLeadsOn
    <3>2. CASE phase \in {"question_open", "paused"}
      BY <1>1, <2>3, <3>2, Primaries, CommandsExecuted, ClosingLeadsOn
    <3>3. CASE phase = "question_locked"
      BY <1>1, <2>3, <3>3, Primaries, CommandsExecuted, ClosingLeadsOn, InterveneLeadsOn
    <3>4. CASE phase = "question_reveal"
      <4>1. CASE primary = Command("next")
        BY <1>1, <2>3, <4>1, CommandsExecuted, NextLeadsOn
      <4>2. CASE primary \in {Recheck("linked"), Recheck("revote")}
        BY <1>1, <2>3, <4>2, CommandsExecuted, RecheckLeadsOn
           DEF OpenLinkedRecheck, OpenRevote
      <4>3. CASE /\ primary \in {Intervene("explain"), Intervene("example")}
                 /\ OnMain /\ ~InterventionFinished
        BY <1>1, <2>3, <3>4, <4>3, CommandsExecuted, InterveneLeadsOn
      <4> QED
        BY <1>1, <3>4, <4>1, <4>2, <4>3, Primaries
    <3>5. CASE phase = "intervention"
      BY <1>1, <2>3, <3>5, Primaries, CommandsExecuted, FinishLeadsOn
    <3>6. CASE phase = "leaderboard"
      BY <1>1, <2>3, <3>6, Primaries, CommandsExecuted, NextLeadsOn
    <3> QED
      BY <2>1, <2>2, <2>3, <3>1, <3>2, <3>3, <3>4, <3>5, <3>6 DEF Phases
  <2> QED
    BY <2>2, <2>3
<1>2. EngineInv /\ EngineInv' /\ InterventionsInv /\ MainCheckpointsInOrder =>
        [ \A suggestion \in Suggestions :
            LET primary == HostPhaseView(suggestion).primary
            IN  /\ primary = Command("none") <=> phase = "finished"
                /\ primary # Command("none") /\ Execute(primary) => Progress' > Progress ]_vars
  BY <1>1
<1> QED
  BY <1>2, EngineInvariant, FlowInvariant, PTL DEF PrimaryLeadsOn

-------------------------------------------------------------------------------
(* The slots of the answer commits *)

SlotHolders == {c \in Commits : commit[c] \in {"handed", "working"}}

\* A call waits at one place of the line, and who holds a slot can be counted.
SlotsIInv ==
    /\ SlotsInv
    /\ active \in Nat /\ waiters \in Seq(Commits) /\ IsFiniteSet(SlotHolders)
    /\ commit \in [Commits -> {"idle", "waiting", "handed", "working", "over"}]
    /\ \A i, j \in DOMAIN waiters : waiters[i] = waiters[j] => i = j

LEMMA SlotsInitInv == SlotsInit => SlotsIInv
<1> SUFFICES ASSUME SlotsInit PROVE SlotsIInv
  OBVIOUS
<1>1. waiters = << >> /\ waiters \in Seq(Commits) /\ DOMAIN waiters = {}
  BY EmptySeq DEF SlotsInit
<1>2. SlotHolders = {} /\ active = 0
  BY DEF SlotHolders, SlotsInit
<1>3. IsFiniteSet(SlotHolders) /\ active = Cardinality(SlotHolders)
  BY <1>2, FS_EmptySet
<1> QED
  BY <1>1, <1>2, <1>3, SlotsAssumption DEF SlotsIInv, SlotsInv, SlotsInit, SlotHolders

\* A call takes a slot, or the place behind all others of the line.
LEMMA TakeSlotInv ==
  ASSUME SlotsIInv, NEW c \in Commits, TakeSlot(c)
  PROVE  SlotsIInv'
<1> USE DEF SlotsIInv, SlotsInv, TakeSlot, Full
<1>1. c \notin SlotHolders /\ active = Cardinality(SlotHolders) /\ MaxSlots \in Nat
  BY SlotsAssumption DEF SlotHolders
<1>2. CASE Full
  <2>1. /\ waiters' \in Seq(Commits) /\ Len(waiters) \in Nat
        /\ DOMAIN waiters = 1..Len(waiters) /\ DOMAIN waiters' = 1..(Len(waiters) + 1)
        /\ \A i \in 1..Len(waiters) : waiters'[i] = waiters[i]
        /\ waiters'[Len(waiters) + 1] = c
    <3>1. waiters' = Append(waiters, c)
      BY <1>2
    <3>2. waiters' \in Seq(Commits) /\ Len(waiters') = Len(waiters) + 1
      BY <3>1, AppendProperties
    <3>3. Len(waiters) \in Nat /\ DOMAIN waiters = 1..Len(waiters)
      BY LenProperties
    <3>4. DOMAIN waiters' = 1..Len(waiters')
      BY <3>2, LenProperties
    <3>5. \A i \in 1..Len(waiters) : waiters'[i] = waiters[i]
      BY <3>1, AppendProperties
    <3>6. waiters'[Len(waiters) + 1] = c
      BY <3>1, AppendProperties
    <3> QED
      BY <3>2, <3>3, <3>4, <3>5, <3>6
  <2>2. \A i \in DOMAIN waiters : waiters[i] # c
    OBVIOUS
  <2>3. \A i, j \in DOMAIN waiters' : waiters'[i] = waiters'[j] => i = j
    BY <2>1, <2>2
  <2>4. SlotHolders' = SlotHolders
    BY <1>2 DEF SlotHolders
  <2>5. commit' = [commit EXCEPT ![c] = "waiting"] /\ active' = active
    BY <1>2
  <2>6. \A d \in Commits : commit'[d] = "waiting" <=> \E i \in DOMAIN waiters' : waiters'[i] = d
    <3> SUFFICES ASSUME NEW d \in Commits
                 PROVE  commit'[d] = "waiting" <=> \E i \in DOMAIN waiters' : waiters'[i] = d
      OBVIOUS
    <3>1. CASE d = c
      BY <3>1, <2>5, <2>1
    <3>2. CASE d # c
      BY SMTT(30), <3>2, <2>5, <2>1
    <3> QED
      BY <3>1, <3>2
  <2>7. active' = MaxSlots
    BY <1>2, <1>1, <2>5
  <2> QED
    BY ZenonT(40), <1>1, <2>1, <2>3, <2>4, <2>5, <2>6, <2>7 DEF SlotHolders
<1>3. CASE ~Full
  <2>1. SlotHolders' = SlotHolders \cup {c}
    BY <1>3 DEF SlotHolders
  <2>2. IsFiniteSet(SlotHolders') /\ Cardinality(SlotHolders') = active + 1
    BY <1>1, <2>1, FS_AddElement
  <2>3. active' = active + 1 /\ active' <= MaxSlots /\ waiters = << >> /\ waiters' = waiters
    BY <1>1, <1>3
  <2> QED
    BY <1>1, <1>3, <2>2, <2>3 DEF SlotHolders
<1> QED
  BY <1>2, <1>3

\* A commit that ends gives its slot to the first of the line, or back.
LEMMA HandOnInv ==
  ASSUME SlotsIInv, NEW c \in Commits, HandOn(c)
  PROVE  SlotsIInv'
<1> USE DEF SlotsIInv, SlotsInv, HandOn
<1>1. c \in SlotHolders /\ active = Cardinality(SlotHolders) /\ IsFiniteSet(SlotHolders)
  BY DEF SlotHolders
<1>2. IsFiniteSet(SlotHolders \ {c}) /\ Cardinality(SlotHolders \ {c}) = active - 1
  BY <1>1, FS_RemoveElement
<1>3. CASE waiters # << >>
  <2> DEFINE d == Head(waiters)
  <2>1. /\ Len(waiters) \in Nat \ {0} /\ DOMAIN waiters = 1..Len(waiters)
        /\ d \in Commits /\ d = waiters[1]
    BY <1>3, LenProperties, HeadTailProperties, EmptySeq
  <2>2. /\ waiters' \in Seq(Commits) /\ DOMAIN waiters' = 1..(Len(waiters) - 1)
        /\ \A i \in DOMAIN waiters' : i + 1 \in DOMAIN waiters /\ waiters'[i] = waiters[i + 1]
    <3>1. waiters' = Tail(waiters)
      BY <1>3
    <3>2. waiters' \in Seq(Commits) /\ Len(waiters') = Len(waiters) - 1
      BY <3>1, <1>3, HeadTailProperties
    <3>3. DOMAIN waiters' = 1..Len(waiters')
      BY <3>2, LenProperties
    <3>4. \A i \in 1..Len(waiters') : waiters'[i] = waiters[i + 1]
      BY <3>1, <1>3, HeadTailProperties
    <3> QED
      BY <2>1, <3>2, <3>3, <3>4
  <2>3. commit[d] = "waiting" /\ d # c
    BY <2>1
  <2>4. commit' = [commit EXCEPT ![c] = "over", ![d] = "handed"] /\ active' = active
    BY <1>3
  <2> HIDE DEF d
  <2>5. SlotHolders' = (SlotHolders \ {c}) \cup {d} /\ d \notin SlotHolders \ {c}
    BY <2>1, <2>3, <2>4 DEF SlotHolders
  <2>6. IsFiniteSet(SlotHolders') /\ active' = Cardinality(SlotHolders')
    <3>1. IsFiniteSet((SlotHolders \ {c}) \cup {d})
      BY <1>2, FS_AddElement
    <3>2. Cardinality((SlotHolders \ {c}) \cup {d}) = Cardinality(SlotHolders \ {c}) + 1
      BY <1>2, <2>5, FS_AddElement
    <3> QED
      BY <1>2, <2>4, <2>5, <3>1, <3>2
  <2>7. \A i, j \in DOMAIN waiters' : waiters'[i] = waiters'[j] => i = j
    BY <2>1, <2>2
  <2>8. \A e \in Commits : commit'[e] = "waiting" <=> \E i \in DOMAIN waiters' : waiters'[i] = e
    <3> SUFFICES ASSUME NEW e \in Commits
                 PROVE  commit'[e] = "waiting" <=> \E i \in DOMAIN waiters' : waiters'[i] = e
      OBVIOUS
    <3>1. commit'[e] = "waiting" <=> commit[e] = "waiting" /\ e # d
      BY <2>1, <2>3, <2>4
    <3>2. ASSUME commit[e] = "waiting", e # d
          PROVE  \E i \in DOMAIN waiters' : waiters'[i] = e
      <4>1. PICK k \in DOMAIN waiters : waiters[k] = e
        BY <3>2
      <4>2. k # 1
        BY <4>1, <3>2, <2>1
      <4>3. k - 1 \in DOMAIN waiters' /\ (k - 1) + 1 = k
        BY <4>2, <2>1, <2>2
      <4> QED
        BY <4>1, <4>3, <2>2
    <3>3. ASSUME NEW i \in DOMAIN waiters', waiters'[i] = e
          PROVE  commit[e] = "waiting" /\ e # d
      <4>1. i + 1 \in DOMAIN waiters /\ waiters[i + 1] = e /\ i + 1 # 1 /\ 1 \in DOMAIN waiters
        BY <3>3, <2>1, <2>2
      <4> QED
        BY <4>1, <2>1
    <3> QED
      BY <3>1, <3>2, <3>3
  <2>9. active' = MaxSlots
    BY <1>3, <2>4
  <2> QED
    BY <2>2, <2>4, <2>6, <2>7, <2>8, <2>9, SlotsAssumption DEF SlotHolders
<1>4. CASE waiters = << >>
  <2>1. commit' = [commit EXCEPT ![c] = "over"] /\ active' = active - 1 /\ waiters' = waiters
    BY <1>4
  <2>2. SlotHolders' = SlotHolders \ {c}
    BY <2>1 DEF SlotHolders
  <2>3. active' \in Nat /\ active' <= MaxSlots
    BY <1>2, <2>1, FS_CardinalityType, SlotsAssumption
  <2>4. IsFiniteSet(SlotHolders') /\ active' = Cardinality(SlotHolders')
    BY <1>2, <2>1, <2>2
  <2>5. \A d \in Commits : commit'[d] = "waiting" <=> commit[d] = "waiting"
    BY <2>1
  <2> QED
    BY <1>4, <2>1, <2>3, <2>4, <2>5 DEF SlotHolders
<1> QED
  BY <1>3, <1>4

LEMMA SlotsStep == SlotsIInv /\ [SlotsNext]_slotVars => SlotsIInv'
<1> SUFFICES ASSUME SlotsIInv, [SlotsNext]_slotVars PROVE SlotsIInv'
  OBVIOUS
<1>1. ASSUME NEW c \in Commits, TakeSlot(c) PROVE SlotsIInv'
  BY <1>1, TakeSlotInv
<1>2. ASSUME NEW c \in Commits, Continues(c) PROVE SlotsIInv'
  <2>1. SlotHolders' = SlotHolders /\ active' = active /\ waiters' = waiters
    BY <1>2 DEF SlotHolders, Continues, SlotsIInv
  <2>2. /\ commit' \in [Commits -> {"idle", "waiting", "handed", "working", "over"}]
        /\ \A d \in Commits : commit'[d] = "waiting" <=> commit[d] = "waiting"
    BY <1>2 DEF Continues, SlotsIInv
  <2> QED
    BY <2>1, <2>2 DEF SlotsIInv, SlotsInv, SlotHolders
<1>3. ASSUME NEW c \in Commits, HandOn(c) PROVE SlotsIInv'
  BY <1>3, HandOnInv
<1>4. CASE UNCHANGED slotVars
  <2>1. active' = active /\ waiters' = waiters /\ commit' = commit
    BY <1>4 DEF slotVars
  <2>2. SlotHolders' = SlotHolders
    BY <2>1 DEF SlotHolders
  <2>3. SlotsInv'
    BY <2>1, <2>2 DEF SlotsIInv, SlotsInv, SlotHolders
  <2> QED
    BY <2>1, <2>2, <2>3 DEF SlotsIInv
<1> QED
  BY <1>1, <1>2, <1>3, <1>4 DEF SlotsNext

\* The slots in use are those of the commits that work or are about to, never more than there
\* are, and nobody waits while one is free, for any number of commits, failing ones included.
THEOREM SlotsAreShared == SlotsSpec => []SlotsInv
<1>1. SlotsIInv => SlotsInv
  BY DEF SlotsIInv
<1> QED
  BY <1>1, SlotsInitInv, SlotsStep, PTL DEF SlotsSpec
-------------------------------------------------------------------------------
(* The guests' joins *)

JoinReplies == {"none", "asked", "joined", "refused", "error"}

\* No place of the line holds a guest that another place holds.
Apart(line, b) ==
    /\ \A i, j \in DOMAIN b : b[i] = b[j] => i = j
    /\ \A l \in DOMAIN line : \A i \in DOMAIN line[l], j \in DOMAIN b : line[l][i] # b[j]
    /\ \A l, m \in DOMAIN line : \A i \in DOMAIN line[l], j \in DOMAIN line[m] :
          line[l][i] = line[m][j] => l = m /\ i = j

Queued(g, line, b) == g \in Those(b) \/ \E l \in DOMAIN line : g \in Those(line[l])

\* What NoJoinIsForgotten says a guest that has no reply yet does.
Awaits(g, line, b, w) ==
    \/ g \in Those(b)
    \/ w.on /\ g \in Those(w.accepted)
    \/ \E i \in DOMAIN line : (i > 1 \/ ~w.on) /\ g \in Those(line[i])

JoinTypes ==
    /\ room \in [version : Nat, members : SUBSET Guests, kicked : SUBSET Guests, open : BOOLEAN]
    /\ IsFiniteSet(room.members)
    /\ reply \in [Guests -> JoinReplies]
    /\ batch \in Seq(Guests) /\ dispatched \in Seq(Seq(Guests))
    /\ work \in [on : BOOLEAN, version : Nat, accepted : Seq(Guests)]
    /\ ~work.on => work = NoWork

\* The mutation under way is that of the first batch, whose accepted guests come first in it;
\* if it wins the compare-and-swap, the room it found is the room there is.
WorkIsOnFirst ==
    work.on =>
        /\ dispatched # << >>
        /\ \E n \in 1..Len(Head(dispatched)) : work.accepted = SubSeq(Head(dispatched), 1, n)
        /\ work.version <= room.version
        /\ Wins => room.open /\ Cardinality(Present(room)) + Len(work.accepted) <= AudienceLimit

RepliesAgree ==
    /\ \A g \in Guests : Queued(g, dispatched, batch) => reply[g] \in {"asked", "refused"}
    /\ \A g \in room.members : reply[g] \in {"joined", "error"}

JoinsIInv ==
    JoinsInv /\ JoinTypes /\ WorkIsOnFirst /\ Apart(dispatched, batch) /\ RepliesAgree

\* The guests of a sequence: those of a part of it, and how many they are.
LEMMA ThoseOf ==
  ASSUME NEW s \in Seq(Guests)
  PROVE  /\ Those(s) = {s[i] : i \in 1..Len(s)} /\ Those(s) \subseteq Guests
         /\ Len(s) \in Nat /\ DOMAIN s = 1..Len(s)
         /\ IsFiniteSet(Those(s)) /\ Cardinality(Those(s)) <= Len(s)
         /\ Cardinality(Those(s)) \in Nat
<1>1. Len(s) \in Nat /\ DOMAIN s = 1..Len(s) /\ s \in [1..Len(s) -> Guests]
  BY LenProperties
<1>2. Those(s) = {s[i] : i \in 1..Len(s)}
  BY <1>1 DEF Those
<1>3. s \in [1..Len(s) -> Those(s)] /\ \A t \in Those(s) : \E i \in 1..Len(s) : s[i] = t
  BY <1>1, <1>2
<1>4. s \in Surjection(1..Len(s), Those(s))
  BY <1>3 DEF Surjection
<1>5. ExistsSurjection(1..Len(s), Those(s))
  BY <1>4 DEF ExistsSurjection
<1>6. IsFiniteSet(Those(s))
  BY <1>1, <1>5, FS_NatSurjection
<1>7. Cardinality(Those(s)) <= Len(s)
  BY <1>1, <1>5, FS_SurjCardinalityBound
<1>8. Cardinality(Those(s)) \in Nat
  BY <1>6, FS_CardinalityType
<1> QED
  BY <1>1, <1>2, <1>6, <1>7, <1>8

LEMMA ThoseAppended ==
  ASSUME NEW s \in Seq(Guests), NEW g \in Guests
  PROVE  /\ Append(s, g) \in Seq(Guests) /\ Len(Append(s, g)) = Len(s) + 1
         /\ Those(Append(s, g)) = Those(s) \cup {g}
<1>1. Append(s, g) \in Seq(Guests) /\ Len(Append(s, g)) = Len(s) + 1
  BY AppendProperties
<1>2. \A i \in 1..Len(s) : Append(s, g)[i] = s[i]
  BY AppendProperties
<1>3. Append(s, g)[Len(s) + 1] = g
  BY AppendProperties
<1>4. Those(Append(s, g)) = {Append(s, g)[i] : i \in 1..(Len(s) + 1)}
  BY <1>1, ThoseOf
<1>5. Those(s) = {s[i] : i \in 1..Len(s)} /\ Len(s) \in Nat
  BY ThoseOf
<1>6. 1..(Len(s) + 1) = 1..Len(s) \cup {Len(s) + 1}
  BY <1>5
<1> QED
  BY <1>1, <1>2, <1>3, <1>4, <1>5, <1>6

LEMMA ThoseOfParts ==
  ASSUME NEW s \in Seq(Guests), NEW n \in 0..Len(s)
  PROVE  /\ SubSeq(s, 1, n) \in Seq(Guests) /\ Len(SubSeq(s, 1, n)) = n
         /\ Those(SubSeq(s, 1, n)) = {s[i] : i \in 1..n}
         /\ Those(SubSeq(s, n + 1, Len(s))) = {s[i] : i \in (n + 1)..Len(s)}
<1>1. Len(s) \in Nat /\ DOMAIN s = 1..Len(s) /\ \A i \in 1..Len(s) : s[i] \in Guests
  BY LenProperties, ElementOfSeq
<1>2. n \in Int /\ n + 1 \in Int /\ 1 \in Int /\ Len(s) \in Int /\ n <= Len(s) /\ n >= 0
  BY <1>1
<1>3. (\A i \in 1..n : s[i] \in Guests) /\ (\A i \in (n + 1)..Len(s) : s[i] \in Guests)
  BY <1>1, <1>2
<1> DEFINE a == SubSeq(s, 1, n)
           b == SubSeq(s, n + 1, Len(s))
<1>4. a \in Seq(Guests) /\ Len(a) = n /\ \A i \in 1..n : a[i] = s[i]
  <2>1. /\ a \in Seq(Guests) /\ Len(a) = IF 1 <= n THEN n - 1 + 1 ELSE 0
        /\ \A i \in 1..(n - 1 + 1) : a[i] = s[1 + i - 1]
    BY <1>2, <1>3, SubSeqProperties
  <2> HIDE DEF a
  <2>2. n - 1 + 1 = n /\ \A i \in 1..n : 1 + i - 1 = i
    BY <1>2
  <2> QED
    BY <2>1, <2>2, <1>2
<1>5. /\ b \in Seq(Guests) /\ Len(b) = Len(s) - n
      /\ \A i \in 1..(Len(s) - n) : b[i] = s[n + i]
  <2>1. /\ b \in Seq(Guests) /\ Len(b) = IF n + 1 <= Len(s) THEN Len(s) - (n + 1) + 1 ELSE 0
        /\ \A i \in 1..(Len(s) - (n + 1) + 1) : b[i] = s[n + 1 + i - 1]
    BY <1>2, <1>3, SubSeqProperties
  <2> HIDE DEF b
  <2>2. Len(s) - (n + 1) + 1 = Len(s) - n
    BY <1>2
  <2>3. Len(b) = Len(s) - n
    <3>1. CASE n + 1 <= Len(s)
      BY <3>1, <2>1, <2>2
    <3>2. CASE ~(n + 1 <= Len(s))
      <4>1. Len(s) - n = 0
        BY <3>2, <1>2
      <4> QED
        BY <3>2, <4>1, <2>1
    <3> QED
      BY <3>1, <3>2
  <2>4. \A i \in 1..(Len(s) - n) : n + 1 + i - 1 = n + i
    BY <1>2
  <2>5. \A i \in 1..(Len(s) - n) : b[i] = s[n + 1 + i - 1]
    BY <2>1, <2>2
  <2> QED
    BY <2>1, <2>3, <2>4, <2>5
<1> HIDE DEF a, b
<1>6. Those(a) = {s[i] : i \in 1..n}
  BY <1>4, ThoseOf
<1>7. Those(b) = {s[i] : i \in (n + 1)..Len(s)}
  <2>1. Those(b) = {b[i] : i \in 1..(Len(s) - n)}
    BY <1>5, ThoseOf
  <2>2. \A i \in 1..(Len(s) - n) : n + i \in (n + 1)..Len(s)
    BY <1>2
  <2>3. \A i \in (n + 1)..Len(s) : i - n \in 1..(Len(s) - n) /\ n + (i - n) = i
    BY <1>2
  <2>4. Those(b) \subseteq {s[i] : i \in (n + 1)..Len(s)}
    BY <2>1, <2>2, <1>5
  <2>5. \A i \in (n + 1)..Len(s) : s[i] = b[i - n]
    BY <2>3, <1>5
  <2> QED
    BY <2>1, <2>3, <2>4, <2>5
<1> QED
  BY <1>4, <1>6, <1>7 DEF a, b

\* A batch that is dispatched goes behind all others and is the only thing that moves.
LEMMA Dispatched ==
  ASSUME NEW line \in Seq(Seq(Guests)), NEW b \in Seq(Guests), Apart(line, b),
         NEW w, w.on => line # << >>, NEW g
  PROVE  /\ Append(line, b) \in Seq(Seq(Guests)) /\ Append(line, b) # << >>
         /\ line # << >> => Head(Append(line, b)) = Head(line)
         /\ Apart(Append(line, b), << >>)
         /\ Queued(g, Append(line, b), << >>) <=> Queued(g, line, b)
         /\ Awaits(g, Append(line, b), << >>, w) <=> Awaits(g, line, b, w)
<1> DEFINE long == Append(line, b)
           n == Len(line)
<1>1. long \in Seq(Seq(Guests)) /\ long # << >> /\ Len(long) = n + 1
  BY AppendProperties
<1>2. \A l \in 1..n : long[l] = line[l]
  BY AppendProperties
<1>3. long[n + 1] = b
  BY AppendProperties
<1>4. n \in Nat /\ DOMAIN line = 1..n /\ DOMAIN long = 1..(n + 1)
  BY <1>1, LenProperties
<1>5. line # << >> => Head(long) = Head(line)
  BY HeadTailAppend
<1>6. n = 0 => line = << >>
  BY EmptySeq
<1>7. DOMAIN << >> = {} /\ \A h : h \notin Those(<< >>)
  BY EmptySeq DEF Those
<1> HIDE DEF long, n
<1>8. \A l \in DOMAIN long : l = n + 1 \/ l \in DOMAIN line
  BY <1>4
<1>9. n + 1 \notin DOMAIN line /\ n + 1 \in DOMAIN long /\ \A l \in DOMAIN line : l \in DOMAIN long
  BY <1>4
<1>10. Apart(long, << >>)
  <2>1. ASSUME NEW l \in DOMAIN long, NEW m \in DOMAIN long,
               NEW i \in DOMAIN long[l], NEW j \in DOMAIN long[m], long[l][i] = long[m][j]
        PROVE  l = m /\ i = j
    <3>1. CASE l \in DOMAIN line /\ m \in DOMAIN line
      BY <2>1, <3>1, <1>2, <1>4 DEF Apart
    <3>2. CASE l \in DOMAIN line /\ m = n + 1
      BY <2>1, <3>2, <1>2, <1>3, <1>4 DEF Apart
    <3>3. CASE l = n + 1 /\ m \in DOMAIN line
      BY <2>1, <3>3, <1>2, <1>3, <1>4 DEF Apart
    <3>4. CASE l = n + 1 /\ m = n + 1
      BY <2>1, <3>4, <1>3 DEF Apart
    <3> QED
      BY <3>1, <3>2, <3>3, <3>4, <1>8
  <2> QED
    BY <2>1, <1>7 DEF Apart
<1>11. Queued(g, long, << >>) <=> Queued(g, line, b)
  BY <1>2, <1>3, <1>4, <1>7, <1>8, <1>9 DEF Queued
<1>12. Awaits(g, long, << >>, w) <=> Awaits(g, line, b, w)
  <2>1. n + 1 > 1 \/ ~w.on
    BY <1>4, <1>6
  <2>2. ASSUME Awaits(g, long, << >>, w) PROVE Awaits(g, line, b, w)
    BY <2>2, <1>2, <1>3, <1>4, <1>7, <1>8 DEF Awaits
  <2>3. ASSUME Awaits(g, line, b, w) PROVE Awaits(g, long, << >>, w)
    BY <2>3, <2>1, <1>2, <1>3, <1>4, <1>9 DEF Awaits
  <2> QED
    BY <2>2, <2>3
<1> QED
  BY <1>1, <1>5, <1>10, <1>11, <1>12 DEF long

\* A guest that is in no batch is added to the one that gathers.
LEMMA Gathered ==
  ASSUME NEW line \in Seq(Seq(Guests)), NEW b \in Seq(Guests), Apart(line, b),
         NEW h \in Guests, ~Queued(h, line, b), NEW w, NEW g
  PROVE  /\ Apart(line, Append(b, h))
         /\ Queued(g, line, Append(b, h)) <=> g = h \/ Queued(g, line, b)
         /\ Awaits(g, line, Append(b, h), w) <=> g = h \/ Awaits(g, line, b, w)
<1> DEFINE long == Append(b, h)
           n == Len(b)
<1>1. long \in Seq(Guests) /\ Len(long) = n + 1
  BY AppendProperties
<1>2. \A i \in 1..n : long[i] = b[i]
  BY AppendProperties
<1>3. long[n + 1] = h
  BY AppendProperties
<1>4. n \in Nat /\ DOMAIN b = 1..n /\ DOMAIN long = 1..(n + 1)
  BY <1>1, LenProperties
<1>5. Those(long) = Those(b) \cup {h}
  BY ThoseAppended
<1> HIDE DEF long, n
<1>6. \A i \in DOMAIN long : i = n + 1 \/ i \in DOMAIN b
  BY <1>4
<1>7. \A i \in DOMAIN b : b[i] # h
  BY DEF Queued, Those
<1>8. \A l \in DOMAIN line : \A i \in DOMAIN line[l] : line[l][i] # h
  BY DEF Queued, Those
<1>9. \A i, j \in DOMAIN long : long[i] = long[j] => i = j
  BY <1>2, <1>3, <1>4, <1>6, <1>7 DEF Apart
<1>10. \A l \in DOMAIN line : \A i \in DOMAIN line[l], j \in DOMAIN long : line[l][i] # long[j]
  BY <1>2, <1>3, <1>4, <1>6, <1>8 DEF Apart
<1>11. Apart(line, long)
  BY <1>9, <1>10 DEF Apart
<1>12. Queued(g, line, long) <=> g = h \/ Queued(g, line, b)
  BY <1>5 DEF Queued
<1>13. Awaits(g, line, long, w) <=> g = h \/ Awaits(g, line, b, w)
  BY <1>5 DEF Awaits
<1> QED
  BY <1>11, <1>12, <1>13 DEF long

\* The first batch leaves the line, and its guests with it.
LEMMA Left ==
  ASSUME NEW line \in Seq(Seq(Guests)), line # << >>, NEW b \in Seq(Guests), Apart(line, b)
  PROVE  /\ Tail(line) \in Seq(Seq(Guests)) /\ Head(line) \in Seq(Guests)
         /\ 1 \in DOMAIN line /\ line[1] = Head(line)
         /\ Apart(Tail(line), b)
         /\ \A g : Queued(g, Tail(line), b) <=> Queued(g, line, b) /\ g \notin Those(Head(line))
         /\ \A g, w : w.on /\ Those(w.accepted) \subseteq Those(Head(line)) =>
               (Awaits(g, Tail(line), b, NoWork)
                  <=> Awaits(g, line, b, w) /\ g \notin Those(w.accepted))
         /\ \A g : Awaits(g, Tail(line), b, NoWork)
               <=> Awaits(g, line, b, NoWork) /\ g \notin Those(Head(line))
<1> DEFINE rest == Tail(line)
           n == Len(line)
<1>1. rest \in Seq(Seq(Guests)) /\ Len(rest) = n - 1 /\ Head(line) \in Seq(Guests)
  BY HeadTailProperties
<1>2. n \in Nat \ {0} /\ DOMAIN line = 1..n /\ DOMAIN rest = 1..(n - 1)
  BY <1>1, LenProperties, EmptySeq
<1>3. \A i \in 1..(n - 1) : rest[i] = line[i + 1]
  BY <1>1, HeadTailProperties
<1>4. Head(line) = line[1]
  OBVIOUS
<1> HIDE DEF rest, n
<1>5. 1 \in DOMAIN line /\ \A i \in DOMAIN rest : i + 1 \in DOMAIN line /\ i + 1 > 1
  BY <1>2
<1>6. \A l \in DOMAIN line : l > 1 => l - 1 \in DOMAIN rest /\ rest[l - 1] = line[l]
  BY <1>2, <1>3
<1>7. \A l \in DOMAIN line : l = 1 \/ l > 1
  BY <1>2
<1>8. ASSUME NEW g, g \in Those(Head(line))
      PROVE  g \notin Those(b) /\ \A l \in DOMAIN line : l > 1 => g \notin Those(line[l])
  BY <1>8, <1>4, <1>5 DEF Apart, Those
<1>9. \A l, m \in DOMAIN rest : \A i \in DOMAIN rest[l], j \in DOMAIN rest[m] :
         rest[l][i] = rest[m][j] => l = m /\ i = j
  <2> SUFFICES ASSUME NEW l \in DOMAIN rest, NEW m \in DOMAIN rest,
                      NEW i \in DOMAIN rest[l], NEW j \in DOMAIN rest[m], rest[l][i] = rest[m][j]
               PROVE  l = m /\ i = j
    OBVIOUS
  <2>1. rest[l] = line[l + 1] /\ rest[m] = line[m + 1]
    BY <1>2, <1>3
  <2>2. l + 1 = m + 1 /\ i = j
    BY <2>1, <1>5 DEF Apart
  <2> QED
    BY <2>2, <1>2
<1>10. Apart(rest, b)
  BY <1>2, <1>3, <1>5, <1>9 DEF Apart
<1>11. \A g : Queued(g, rest, b) <=> Queued(g, line, b) /\ g \notin Those(Head(line))
  <2>1. ASSUME NEW g, Queued(g, rest, b)
        PROVE  Queued(g, line, b) /\ g \notin Those(Head(line))
    BY <2>1, <1>2, <1>3, <1>5, <1>8 DEF Queued
  <2>2. ASSUME NEW g, Queued(g, line, b), g \notin Those(Head(line)) PROVE Queued(g, rest, b)
    BY <2>2, <1>4, <1>6, <1>7 DEF Queued
  <2> QED
    BY <2>1, <2>2
<1>12. ~NoWork.on /\ \A g : Awaits(g, rest, b, NoWork) <=> Queued(g, rest, b)
  BY DEF NoWork, Awaits, Queued
<1>13. \A g : Awaits(g, line, b, NoWork) <=> Queued(g, line, b)
  BY <1>12 DEF Awaits, Queued
<1>14. ASSUME NEW g, NEW w, w.on, Those(w.accepted) \subseteq Those(Head(line))
       PROVE  Queued(g, rest, b) <=> Awaits(g, line, b, w) /\ g \notin Those(w.accepted)
  <2>1. ASSUME Queued(g, rest, b) PROVE Awaits(g, line, b, w) /\ g \notin Those(w.accepted)
    BY <2>1, <1>14, <1>2, <1>3, <1>5, <1>11 DEF Queued, Awaits
  <2>2. ASSUME Awaits(g, line, b, w), g \notin Those(w.accepted) PROVE Queued(g, rest, b)
    BY <2>2, <1>14, <1>6 DEF Queued, Awaits
  <2> QED
    BY <2>1, <2>2
<1> QED
  BY <1>1, <1>4, <1>5, <1>10, <1>11, <1>12, <1>13, <1>14 DEF rest
\* The first guests of the first batch are accepted, and the rest are no longer awaited.
LEMMA Taken ==
  ASSUME NEW line \in Seq(Seq(Guests)), line # << >>, NEW b \in Seq(Guests), Apart(line, b),
         NEW n \in 0..Len(Head(line)), NEW w, w.on, w.accepted = SubSeq(Head(line), 1, n), NEW g
  PROVE  Awaits(g, line, b, w)
           <=> /\ Awaits(g, line, b, NoWork)
               /\ g \notin Those(SubSeq(Head(line), n + 1, Len(Head(line))))
<1> DEFINE s == Head(line)
           front == Those(SubSeq(s, 1, n))
           back == Those(SubSeq(s, n + 1, Len(s)))
<1>1. s \in Seq(Guests) /\ 1 \in DOMAIN line /\ line[1] = s
  BY Left
<1>2. \A i \in DOMAIN line : i = 1 \/ i > 1
  BY LenProperties
<1>3. Len(s) \in Nat /\ DOMAIN s = 1..Len(s) /\ Those(s) = {s[i] : i \in 1..Len(s)}
  BY <1>1, ThoseOf
<1>4. n \in 0..Len(s)
  OBVIOUS
<1>5. front = {s[i] : i \in 1..n} /\ back = {s[i] : i \in (n + 1)..Len(s)}
  BY <1>1, <1>4, ThoseOfParts
<1> HIDE DEF s, front, back
<1>6. Those(s) = front \cup back /\ \A h \in front : h \notin back
  <2>1. 1..Len(s) = 1..n \cup (n + 1)..Len(s)
    BY <1>3, <1>4
  <2>2. \A i \in 1..n, j \in (n + 1)..Len(s) : i # j /\ i \in DOMAIN s /\ j \in DOMAIN s
    BY <1>3, <1>4
  <2>3. \A i, j \in DOMAIN s : s[i] = s[j] => i = j
    BY <1>1 DEF Apart
  <2>4. Those(s) = front \cup back
    BY <1>3, <1>5, <2>1
  <2>5. \A i \in 1..n, j \in (n + 1)..Len(s) : s[i] # s[j]
    BY <2>2, <2>3
  <2> QED
    BY <1>5, <2>4, <2>5
<1>7. \A h \in Those(s) : h \notin Those(b) /\ \A l \in DOMAIN line : l > 1 => h \notin Those(line[l])
  BY <1>1 DEF Apart, Those
<1>8. Awaits(g, line, b, NoWork) <=> g \in Those(b) \/ \E i \in DOMAIN line : g \in Those(line[i])
  BY DEF Awaits, NoWork
<1>9. Awaits(g, line, b, w)
        <=> g \in Those(b) \/ g \in front \/ \E i \in DOMAIN line : i > 1 /\ g \in Those(line[i])
  BY DEF Awaits, s, front
<1>10. Awaits(g, line, b, w) <=> Awaits(g, line, b, NoWork) /\ g \notin back
  <2>1. ASSUME Awaits(g, line, b, w) PROVE Awaits(g, line, b, NoWork) /\ g \notin back
    BY <2>1, <1>1, <1>6, <1>7, <1>8, <1>9
  <2>2. ASSUME Awaits(g, line, b, NoWork), g \notin back PROVE Awaits(g, line, b, w)
    BY <2>2, <1>1, <1>2, <1>6, <1>8, <1>9
  <2> QED
    BY <2>1, <2>2
<1> QED
  BY <1>10 DEF s, back

\* Guests that are let in raise the number of those that are there by no more than their own.
LEMMA LetIn ==
  ASSUME NEW M, IsFiniteSet(M), NEW K, NEW W, IsFiniteSet(W)
  PROVE  /\ IsFiniteSet(M \cup W) /\ IsFiniteSet((M \cup W) \ K)
         /\ Cardinality((M \cup W) \ K) \in Nat /\ Cardinality(M \ K) \in Nat
         /\ Cardinality((M \cup W) \ K) <= Cardinality(M \ K) + Cardinality(W)
<1>1. IsFiniteSet(M \ K) /\ IsFiniteSet(M \cup W)
  BY FS_Difference, FS_Union
<1>2. IsFiniteSet((M \ K) \cup W)
  BY <1>1, FS_Union
<1>3. Cardinality((M \ K) \cup W)
        = Cardinality(M \ K) + Cardinality(W) - Cardinality((M \ K) \cap W)
  BY <1>1, FS_Union
<1>4. IsFiniteSet((M \ K) \cap W)
  BY <1>1, FS_Intersection
<1>5. /\ Cardinality((M \ K) \cap W) \in Nat /\ Cardinality(M \ K) \in Nat
      /\ Cardinality(W) \in Nat /\ Cardinality((M \ K) \cup W) \in Nat
  BY <1>1, <1>2, <1>4, FS_CardinalityType
<1>6. (M \cup W) \ K \in SUBSET ((M \ K) \cup W)
  OBVIOUS
<1>7. IsFiniteSet((M \cup W) \ K)
  BY <1>2, <1>6, FS_Subset
<1>8. Cardinality((M \cup W) \ K) <= Cardinality((M \ K) \cup W)
  BY <1>2, <1>6, FS_Subset
<1>9. Cardinality((M \cup W) \ K) \in Nat
  BY <1>7, FS_CardinalityType
<1> QED
  BY <1>1, <1>3, <1>5, <1>7, <1>8, <1>9

\* NoJoinIsForgotten is about who awaits an answer.
LEMMA Forgotten ==
  /\ NoJoinIsForgotten
       <=> \A g \in Guests : reply[g] = "asked" <=> Awaits(g, dispatched, batch, work)
  /\ NoJoinIsForgotten'
       <=> \A g \in Guests : reply'[g] = "asked" <=> Awaits(g, dispatched', batch', work')
BY DEF NoJoinIsForgotten, Awaits

\* The mutation of the first batch is over: those it was about are told the same, and if they
\* are members now it won the compare-and-swap.
LEMMA EndedInv ==
  ASSUME JoinsIInv, dispatched # << >>, Ended, UNCHANGED << batch, intruders >>,
         NEW who, who = IF work.on THEN Those(work.accepted) ELSE Those(Head(dispatched)),
         NEW what \in {"joined", "refused", "error"}, reply' = Told(who, what),
         \/ UNCHANGED room /\ what # "joined"
         \/ work.on /\ Wins /\ room' = Joined(who) /\ what # "refused"
  PROVE  JoinsIInv'
<1> USE DEF JoinsIInv, JoinsInv, JoinTypes
<1>1. /\ dispatched' \in Seq(Seq(Guests)) /\ Head(dispatched) \in Seq(Guests)
      /\ 1 \in DOMAIN dispatched /\ dispatched[1] = Head(dispatched)
      /\ Apart(dispatched', batch')
      /\ \A g : Queued(g, dispatched', batch')
            <=> Queued(g, dispatched, batch) /\ g \notin Those(Head(dispatched))
  BY Left DEF Ended
<1>2. who \subseteq Those(Head(dispatched)) /\ Those(Head(dispatched)) \subseteq Guests
  <2>1. Those(Head(dispatched)) = {Head(dispatched)[i] : i \in 1..Len(Head(dispatched))}
    BY <1>1, ThoseOf
  <2>2. CASE work.on
    <3>1. PICK n \in 1..Len(Head(dispatched)) : work.accepted = SubSeq(Head(dispatched), 1, n)
      BY <2>2 DEF WorkIsOnFirst
    <3>2. Len(Head(dispatched)) \in Nat
      BY <1>1, LenProperties
    <3>3. n \in 0..Len(Head(dispatched)) /\ \A i \in 1..n : i \in 1..Len(Head(dispatched))
      BY <3>2
    <3>4. who = {Head(dispatched)[i] : i \in 1..n}
      BY <2>2, <1>1, <3>1, <3>3, ThoseOfParts
    <3> QED
      BY <3>3, <3>4, <2>1, <1>1, ThoseOf
  <2>3. CASE ~work.on
    BY <2>3, <1>1, ThoseOf
  <2> QED
    BY <2>2, <2>3
<1>3. \A g \in Guests :
         Awaits(g, dispatched', batch', work') <=> Awaits(g, dispatched, batch, work) /\ g \notin who
  <2>1. CASE work.on
    BY <2>1, <1>2, Left DEF Ended
  <2>2. CASE ~work.on
    <3>1. work = NoWork /\ who = Those(Head(dispatched))
      BY <2>2
    <3> QED
      BY <3>1, Left DEF Ended
  <2> QED
    BY <2>1, <2>2
<1>4. \A g \in who : Awaits(g, dispatched, batch, work)
  BY <1>1 DEF Awaits
<1>5. \A g \in who : g \in Guests /\ reply[g] = "asked" /\ g \notin room.members
  BY <1>2, <1>4, Forgotten DEF RepliesAgree
<1>6. reply' = [g \in Guests |-> IF g \in who THEN what ELSE reply[g]]
  BY DEF Told
<1>7. reply' \in [Guests -> JoinReplies]
  BY <1>6 DEF JoinReplies
<1>8. NoJoinIsForgotten'
  <2>1. \A g \in Guests : reply'[g] = "asked" <=> reply[g] = "asked" /\ g \notin who
    BY <1>6
  <2> QED
    BY <2>1, <1>3, Forgotten
<1>9. /\ room' \in [version : Nat, members : SUBSET Guests, kicked : SUBSET Guests,
                    open : BOOLEAN]
      /\ IsFiniteSet(room'.members) /\ room'.kicked \subseteq room'.members
      /\ \/ room'.members = room.members
         \/ room'.members = room.members \cup who /\ what \in {"joined", "error"}
      /\ what = "joined" => who \subseteq room'.members
      /\ Cardinality(Present(room')) <= AudienceLimit
  <2>1. CASE UNCHANGED room /\ what # "joined"
    BY <2>1 DEF JoinsTypeOK, LimitIsKept
  <2>2. CASE work.on /\ Wins /\ room' = Joined(who) /\ what # "refused"
    <3>1. work.accepted \in Seq(Guests) /\ who = Those(work.accepted)
      BY <2>2
    <3>2. /\ IsFiniteSet(who) /\ Cardinality(who) <= Len(work.accepted)
          /\ Cardinality(who) \in Nat /\ Len(work.accepted) \in Nat
      BY <3>1, ThoseOf
    <3>3. /\ room'.members = room.members \cup who /\ room'.kicked = room.kicked
          /\ room'.version = room.version + 1 /\ room'.open = room.open
          /\ room' \in [version : Nat, members : SUBSET Guests, kicked : SUBSET Guests,
                        open : BOOLEAN]
      <4>1. room' = [room EXCEPT !.version = room.version + 1,
                                !.members = room.members \cup who]
        BY <2>2 DEF Joined
      <4>2. room.version + 1 \in Nat /\ room.members \cup who \in SUBSET Guests
        BY <1>2
      <4> QED
        BY <4>1, <4>2
    <3>4. Cardinality(Present(room)) + Len(work.accepted) <= AudienceLimit
      BY <2>2 DEF WorkIsOnFirst
    <3>5. /\ IsFiniteSet(room'.members)
          /\ Cardinality(Present(room')) \in Nat /\ Cardinality(Present(room)) \in Nat
          /\ Cardinality(Present(room')) <= Cardinality(Present(room)) + Cardinality(who)
      <4> DEFINE M == room.members
                 K == room.kicked
      <4>1. IsFiniteSet(M) /\ IsFiniteSet(who)
        BY <3>2
      <4> HIDE DEF M, K
      <4>2. /\ IsFiniteSet(M \cup who)
            /\ Cardinality((M \cup who) \ K) \in Nat /\ Cardinality(M \ K) \in Nat
            /\ Cardinality((M \cup who) \ K) <= Cardinality(M \ K) + Cardinality(who)
        BY <4>1, LetIn
      <4>3. Present(room) = M \ K /\ Present(room') = (M \cup who) \ K /\ room'.members = M \cup who
        BY <3>3 DEF Present, M, K
      <4> QED
        BY <4>2, <4>3
    <3>6. Cardinality(Present(room')) <= AudienceLimit
      BY <3>2, <3>4, <3>5, JoinsAssumption
    <3>7. room'.kicked \subseteq room'.members /\ what \in {"joined", "error"}
      BY <3>3, <2>2 DEF JoinsTypeOK
    <3> QED
      BY <3>3, <3>5, <3>6, <3>7
  <2> QED
    BY <2>1, <2>2
<1>10. RepliesAgree'
  <2>1. ASSUME NEW g \in Guests, Queued(g, dispatched', batch')
        PROVE  reply'[g] \in {"asked", "refused"}
    BY <2>1, <1>1, <1>2, <1>6 DEF RepliesAgree
  <2>2. ASSUME NEW g \in room'.members PROVE reply'[g] \in {"joined", "error"}
    <3>1. g \in Guests
      BY <1>9
    <3>2. CASE g \in who
      BY <3>1, <3>2, <1>5, <1>6, <1>9
    <3>3. CASE g \notin who
      BY <3>1, <3>3, <1>6, <1>9 DEF RepliesAgree
    <3> QED
      BY <3>2, <3>3
  <2> QED
    BY <2>1, <2>2 DEF RepliesAgree
<1>11. RepliesAreTrue'
  <2>1. \A g \in Guests : reply'[g] = "joined" => g \in room'.members
    BY <1>6, <1>9 DEF RepliesAreTrue
  <2>2. \A g \in Guests : reply'[g] = "refused" => g \notin room'.members
    BY <1>10 DEF RepliesAgree
  <2> QED
    BY <2>1, <2>2 DEF RepliesAreTrue
<1>12. WorkIsOnFirst' /\ work' = NoWork /\ work' \in [on : BOOLEAN, version : Nat, accepted : Seq(Guests)]
  BY EmptySeq DEF WorkIsOnFirst, Ended, NoWork
<1>13. JoinsTypeOK'
  BY <1>7, <1>9 DEF JoinsTypeOK, JoinReplies
<1>14. LimitIsKept'
  BY <1>9 DEF LimitIsKept
<1>15. JoinTypes'
  BY <1>1, <1>7, <1>9, <1>12
<1> QED
  BY <1>1, <1>8, <1>10, <1>11, <1>12, <1>13, <1>14, <1>15
\* Requests that arrive or move in the line, the first batch staying where it is.
LEMMA MovedInv ==
  ASSUME JoinsIInv, UNCHANGED << room, work, intruders >>,
         NEW who \in SUBSET Guests, \A g \in who : reply[g] = "none", reply' = Told(who, "asked"),
         dispatched' \in Seq(Seq(Guests)), batch' \in Seq(Guests), Len(batch') < MaxJoinBatch,
         dispatched # << >> => dispatched' # << >> /\ Head(dispatched') = Head(dispatched),
         Apart(dispatched', batch'),
         \A g \in Guests :
            /\ Queued(g, dispatched', batch') <=> g \in who \/ Queued(g, dispatched, batch)
            /\ Awaits(g, dispatched', batch', work)
                 <=> g \in who \/ Awaits(g, dispatched, batch, work)
  PROVE  JoinsIInv'
<1> USE DEF JoinsIInv, JoinsInv, JoinTypes
<1>1. reply' = [g \in Guests |-> IF g \in who THEN "asked" ELSE reply[g]]
  BY DEF Told
<1>2. reply' \in [Guests -> JoinReplies]
  BY <1>1 DEF JoinReplies
<1>3. NoJoinIsForgotten'
  <2>1. \A g \in Guests : reply'[g] = "asked" <=> reply[g] = "asked" \/ g \in who
    BY <1>1
  <2> QED
    BY <2>1, Forgotten
<1>4. RepliesAgree'
  <2>1. ASSUME NEW g \in Guests, Queued(g, dispatched', batch')
        PROVE  reply'[g] \in {"asked", "refused"}
    BY <2>1, <1>1 DEF RepliesAgree
  <2>2. ASSUME NEW g \in room.members PROVE reply'[g] \in {"joined", "error"}
    BY <1>1 DEF RepliesAgree, JoinsTypeOK
  <2> QED
    BY <2>1, <2>2 DEF RepliesAgree
<1>5. RepliesAreTrue'
  BY <1>1 DEF RepliesAreTrue
<1>6. Present(room)' = Present(room)
  BY DEF Present
<1>7. WorkIsOnFirst'
  BY <1>6 DEF WorkIsOnFirst, Wins
<1>8. JoinsTypeOK'
  <2>1. Those(batch') \subseteq Guests
    BY ThoseOf
  <2> QED
    BY <2>1, <1>2 DEF JoinsTypeOK, JoinReplies
<1>9. LimitIsKept'
  BY <1>6 DEF LimitIsKept
<1>10. JoinTypes'
  BY <1>2
<1> QED
  BY <1>3, <1>4, <1>5, <1>7, <1>8, <1>9, <1>10

LEMMA QueueJoinInv ==
  ASSUME JoinsIInv, NEW g \in Guests, QueueJoin(g)
  PROVE  JoinsIInv'
<1> DEFINE items == Append(batch, g)
<1>1. /\ batch \in Seq(Guests) /\ dispatched \in Seq(Seq(Guests)) /\ Apart(dispatched, batch)
      /\ reply[g] = "none"
      /\ work.on => dispatched # << >>
  BY DEF JoinsIInv, JoinTypes, WorkIsOnFirst, QueueJoin
<1>2. ~Queued(g, dispatched, batch)
  <2>1. Queued(g, dispatched, batch) => reply[g] \in {"asked", "refused"}
    BY DEF JoinsIInv, RepliesAgree
  <2> QED
    BY <1>1, <2>1
<1>3. items \in Seq(Guests) /\ Len(items) \in Nat
  BY <1>1, AppendProperties, LenProperties
<1>4. /\ Apart(dispatched, items)
      /\ \A h : /\ Queued(h, dispatched, items) <=> h = g \/ Queued(h, dispatched, batch)
                /\ Awaits(h, dispatched, items, work)
                     <=> h = g \/ Awaits(h, dispatched, batch, work)
  BY <1>1, <1>2, Gathered
<1>5. \A h \in {g} : reply[h] = "none"
  BY <1>1
<1>6. reply' = Told({g}, "asked") /\ UNCHANGED << room, work, intruders >> /\ {g} \in SUBSET Guests
  BY DEF QueueJoin
<1> HIDE DEF items
<1>7. CASE Len(items) >= MaxJoinBatch
  <2>1. batch' = << >> /\ dispatched' = Append(dispatched, items)
    BY <1>7 DEF QueueJoin, items
  <2>2. /\ dispatched' \in Seq(Seq(Guests)) /\ dispatched' # << >>
        /\ dispatched # << >> => Head(dispatched') = Head(dispatched)
        /\ Apart(dispatched', batch')
        /\ \A h : /\ Queued(h, dispatched', batch') <=> Queued(h, dispatched, items)
                  /\ Awaits(h, dispatched', batch', work) <=> Awaits(h, dispatched, items, work)
    BY <1>1, <1>3, <1>4, <2>1, Dispatched DEF items
  <2>3. batch' \in Seq(Guests) /\ Len(batch') < MaxJoinBatch
    BY <2>1, EmptySeq, JoinsAssumption
  <2>4. \A h \in Guests :
           /\ Queued(h, dispatched', batch') <=> h \in {g} \/ Queued(h, dispatched, batch)
           /\ Awaits(h, dispatched', batch', work)
                <=> h \in {g} \/ Awaits(h, dispatched, batch, work)
    BY <1>4, <2>2
  <2> QED
    BY <1>5, <1>6, <2>2, <2>3, <2>4, MovedInv
<1>8. CASE ~(Len(items) >= MaxJoinBatch)
  <2>1. batch' = items /\ dispatched' = dispatched
    BY <1>8 DEF QueueJoin, items
  <2>2. batch' \in Seq(Guests) /\ Len(batch') < MaxJoinBatch
    BY <1>3, <1>8, <2>1, JoinsAssumption
  <2>3. \A h \in Guests :
           /\ Queued(h, dispatched', batch') <=> h \in {g} \/ Queued(h, dispatched, batch)
           /\ Awaits(h, dispatched', batch', work)
                <=> h \in {g} \/ Awaits(h, dispatched, batch, work)
    BY <1>4, <2>1
  <2>4. Apart(dispatched', batch') /\ dispatched' \in Seq(Seq(Guests))
    BY <1>1, <1>4, <2>1
  <2> QED
    BY <1>5, <1>6, <2>1, <2>2, <2>3, <2>4, MovedInv
<1> QED
  BY <1>7, <1>8

LEMMA JoinTimerInv ==
  ASSUME JoinsIInv, JoinTimer
  PROVE  JoinsIInv'
<1>1. /\ batch \in Seq(Guests) /\ dispatched \in Seq(Seq(Guests)) /\ Apart(dispatched, batch)
      /\ (work.on => dispatched # << >>)
  BY DEF JoinsIInv, JoinTypes, WorkIsOnFirst
<1>2. batch' = << >> /\ dispatched' = Append(dispatched, batch)
  BY DEF JoinTimer
<1>3. /\ dispatched' \in Seq(Seq(Guests)) /\ dispatched' # << >>
      /\ dispatched # << >> => Head(dispatched') = Head(dispatched)
      /\ Apart(dispatched', batch')
      /\ \A h : /\ Queued(h, dispatched', batch') <=> Queued(h, dispatched, batch)
                /\ Awaits(h, dispatched', batch', work) <=> Awaits(h, dispatched, batch, work)
  BY <1>1, <1>2, Dispatched
<1>4. batch' \in Seq(Guests) /\ Len(batch') < MaxJoinBatch
  BY <1>2, EmptySeq, JoinsAssumption
<1>5. reply' = Told({}, "asked") /\ {} \in SUBSET Guests /\ \A h \in {} : reply[h] = "none"
  BY DEF JoinTimer, Told, JoinsIInv, JoinTypes
<1>6. UNCHANGED << room, work, intruders >>
  BY DEF JoinTimer
<1>7. \A h \in Guests :
         /\ Queued(h, dispatched', batch') <=> h \in {} \/ Queued(h, dispatched, batch)
         /\ Awaits(h, dispatched', batch', work) <=> h \in {} \/ Awaits(h, dispatched, batch, work)
  BY <1>3
<1> QED
  BY <1>3, <1>4, <1>5, <1>6, <1>7, MovedInv

\* The first batch is refused, or the session has room for the first of its guests.
LEMMA LoadForJoinInv ==
  ASSUME JoinsIInv, LoadForJoin
  PROVE  JoinsIInv'
<1> DEFINE items == Head(dispatched)
           n == IF room.open THEN IF RoomLeft < Len(items) THEN RoomLeft ELSE Len(items) ELSE 0
           back == Those(SubSeq(items, n + 1, Len(items)))
<1>1. dispatched # << >> /\ ~work.on /\ work = NoWork
  BY DEF LoadForJoin, JoinsIInv, JoinTypes
<1>2. /\ batch \in Seq(Guests) /\ dispatched \in Seq(Seq(Guests)) /\ Apart(dispatched, batch)
      /\ items \in Seq(Guests) /\ 1 \in DOMAIN dispatched /\ dispatched[1] = items
  BY <1>1, Left DEF JoinsIInv, JoinTypes
<1>3. Len(items) \in Nat /\ Those(items) \subseteq Guests
      /\ Those(items) = {items[i] : i \in 1..Len(items)}
  BY <1>2, ThoseOf
<1>4. /\ Cardinality(Present(room)) \in Nat /\ AudienceLimit \in Nat /\ RoomLeft \in Nat
      /\ RoomLeft > 0 => Cardinality(Present(room)) + RoomLeft = AudienceLimit
  <2>1. IsFiniteSet(room.members) /\ Present(room) \in SUBSET room.members
    BY DEF JoinsIInv, JoinTypes, Present
  <2>2. IsFiniteSet(Present(room))
    BY <2>1, FS_Subset
  <2>3. Cardinality(Present(room)) \in Nat
    BY <2>2, FS_CardinalityType
  <2> QED
    BY <2>3, JoinsAssumption DEF RoomLeft
<1>5. n \in 0..Len(items) /\ n <= RoomLeft /\ (n > 0 => room.open)
  BY <1>3, <1>4
<1>6. /\ reply' = Told(back, "refused") /\ UNCHANGED << room, batch, intruders >>
      /\ n = 0 => dispatched' = Tail(dispatched) /\ work' = work
      /\ n # 0 => /\ work' = [on |-> TRUE, version |-> room.version, accepted |-> SubSeq(items, 1, n)]
                  /\ dispatched' = dispatched
  BY DEF LoadForJoin
<1>7. /\ SubSeq(items, 1, n) \in Seq(Guests) /\ Len(SubSeq(items, 1, n)) = n
      /\ back = {items[i] : i \in (n + 1)..Len(items)}
  BY <1>2, <1>5, ThoseOfParts
<1>8. back \subseteq Those(items)
  <2>1. \A i \in (n + 1)..Len(items) : i \in 1..Len(items)
    BY <1>3, <1>5
  <2> QED
    BY <2>1, <1>3, <1>7
<1>9. CASE n = 0
  <2>1. back = Those(items)
    <3>1. (n + 1)..Len(items) = 1..Len(items)
      BY <1>9
    <3> QED
      BY <3>1, <1>3, <1>7
  <2>2. Ended
    BY <1>1, <1>6, <1>9 DEF Ended
  <2> HIDE DEF n
  <2>3. back = IF work.on THEN Those(work.accepted) ELSE Those(Head(dispatched))
    BY <1>1, <2>1
  <2> HIDE DEF back
  <2> QED
    BY <1>1, <1>6, <2>2, <2>3, EndedInv
<1>10. CASE n # 0
  <2> HIDE DEF n, back
  <2> USE DEF JoinsIInv, JoinsInv, JoinTypes
  <2>1. /\ work'.on /\ work'.version = room.version /\ work'.accepted = SubSeq(items, 1, n)
        /\ work' \in [on : BOOLEAN, version : Nat, accepted : Seq(Guests)]
        /\ dispatched' = dispatched
    <3>1. work' = [on |-> TRUE, version |-> room.version, accepted |-> SubSeq(items, 1, n)]
      BY <1>6, <1>10
    <3>2. room.version \in Nat
      OBVIOUS
    <3> HIDE DEF items
    <3> QED
      BY <3>1, <3>2, <1>6, <1>7, <1>10
  <2>2. \A g \in Guests : Awaits(g, dispatched', batch', work')
                            <=> Awaits(g, dispatched, batch, work) /\ g \notin back
    BY <2>1, <1>1, <1>2, <1>5, <1>6, Taken DEF back
  <2>3. \A g \in back : g \in Guests /\ Queued(g, dispatched, batch)
    BY <1>2, <1>3, <1>8 DEF Queued
  <2>4. reply' = [g \in Guests |-> IF g \in back THEN "refused" ELSE reply[g]]
    BY <1>6 DEF Told
  <2>5. reply' \in [Guests -> JoinReplies]
    BY <2>4 DEF JoinReplies
  <2>6. \A g \in Guests : Queued(g, dispatched', batch') <=> Queued(g, dispatched, batch)
    BY <2>1, <1>6 DEF Queued
  <2>7. NoJoinIsForgotten'
    <3>1. \A g \in Guests : reply'[g] = "asked" <=> reply[g] = "asked" /\ g \notin back
      BY <2>4
    <3> QED
      BY <3>1, <2>2, Forgotten
  <2>8. RepliesAgree'
    <3>1. \A g \in Guests : Queued(g, dispatched', batch') => reply'[g] \in {"asked", "refused"}
      BY <2>4, <2>6 DEF RepliesAgree
    <3>2. \A g \in room'.members : g \notin back /\ g \in Guests
      BY <2>3, <1>6 DEF RepliesAgree, JoinsTypeOK
    <3>3. \A g \in room'.members : reply'[g] \in {"joined", "error"}
      BY <3>2, <2>4, <1>6 DEF RepliesAgree
    <3> QED
      BY <3>1, <3>3 DEF RepliesAgree
  <2>9. RepliesAreTrue'
    BY <2>4, <2>8, <1>6 DEF RepliesAreTrue, RepliesAgree
  <2>10. Present(room') = Present(room)
    BY <1>6
  <2>11. WorkIsOnFirst'
    <3>1. n \in 1..Len(items) /\ n > 0
      BY <1>5, <1>10
    <3>2. work'.accepted = SubSeq(Head(dispatched'), 1, n) /\ n \in 1..Len(Head(dispatched'))
      BY <3>1, <2>1
    <3>3. Cardinality(Present(room)) + Len(work'.accepted) <= AudienceLimit
      BY <3>1, <1>4, <1>5, <1>7, <2>1
    <3>4. work'.version <= room'.version
      BY <2>1, <1>6
    <3> QED
      BY <3>1, <3>2, <3>3, <3>4, <2>1, <2>10, <1>1, <1>5, <1>6 DEF WorkIsOnFirst
  <2>12. JoinsTypeOK'
    BY <2>5, <1>6 DEF JoinsTypeOK, JoinReplies
  <2>13. LimitIsKept'
    BY <2>10, <1>6 DEF LimitIsKept
  <2>14. JoinTypes'
    BY <2>1, <2>5, <1>2, <1>6
  <2>15. Apart(dispatched', batch')
    BY <2>1, <1>2, <1>6
  <2> QED
    BY <2>7, <2>8, <2>9, <2>11, <2>12, <2>13, <2>14, <2>15
<1> QED
  BY <1>9, <1>10
\* Another process commits: the mutation under way has lost, and the limit and the lock are kept.
LEMMA ElsewhereInv ==
  ASSUME JoinsIInv, UNCHANGED << batch, dispatched, work, intruders >>,
         room' \in [version : Nat, members : SUBSET Guests, kicked : SUBSET Guests,
                    open : BOOLEAN],
         room'.version = room.version + 1, IsFiniteSet(room'.members),
         room'.kicked \subseteq room'.members, Cardinality(Present(room')) <= AudienceLimit,
         NEW who \in SUBSET Guests, \A g \in who : reply[g] = "none",
         reply' = Told(who, "joined"), room'.members = room.members \cup who
  PROVE  JoinsIInv'
<1> USE DEF JoinsIInv, JoinsInv, JoinTypes
<1>1. reply' = [g \in Guests |-> IF g \in who THEN "joined" ELSE reply[g]]
  BY DEF Told
<1>2. reply' \in [Guests -> JoinReplies]
  BY <1>1 DEF JoinReplies
<1>3. /\ \A g : Queued(g, dispatched', batch') <=> Queued(g, dispatched, batch)
      /\ \A g : Awaits(g, dispatched', batch', work') <=> Awaits(g, dispatched, batch, work)
  OBVIOUS
<1>4. NoJoinIsForgotten'
  <2>1. \A g \in Guests : reply'[g] = "asked" <=> reply[g] = "asked"
    BY <1>1
  <2> QED
    BY <2>1, <1>3, Forgotten
<1>5. RepliesAgree'
  <2>1. \A g \in Guests : Queued(g, dispatched', batch') => reply'[g] \in {"asked", "refused"}
    <3>1. \A g \in Guests : Queued(g, dispatched, batch) => reply[g] \in {"asked", "refused"}
      BY DEF RepliesAgree
    <3>2. \A g \in Guests : Queued(g, dispatched, batch) => g \notin who
      BY <3>1
    <3> QED
      BY <3>1, <3>2, <1>1, <1>3
  <2>2. \A g \in room'.members : reply'[g] \in {"joined", "error"}
    BY <1>1 DEF RepliesAgree, JoinsTypeOK
  <2> QED
    BY <2>1, <2>2 DEF RepliesAgree
<1>6. RepliesAreTrue'
  <2>1. \A g \in Guests : reply'[g] = "joined" => g \in room'.members
    BY <1>1 DEF RepliesAreTrue
  <2>2. \A g \in Guests : reply'[g] = "refused" => g \notin room'.members
    BY <1>5 DEF RepliesAgree
  <2> QED
    BY <2>1, <2>2 DEF RepliesAreTrue
<1>7. WorkIsOnFirst'
  <2> SUFFICES ASSUME work.on PROVE WorkIsOnFirst'
    BY DEF WorkIsOnFirst
  <2>1. work.version <= room.version /\ work.version \in Nat /\ room.version \in Nat
    BY DEF WorkIsOnFirst
  <2>2. work'.version <= room'.version /\ work'.version # room'.version
    BY <2>1
  <2> QED
    BY <2>2 DEF WorkIsOnFirst, Wins
<1>8. JoinsTypeOK'
  BY <1>2 DEF JoinsTypeOK, JoinReplies
<1>9. LimitIsKept'
  BY DEF LimitIsKept
<1>10. JoinTypes'
  BY <1>2
<1> QED
  BY <1>4, <1>5, <1>6, <1>7, <1>8, <1>9, <1>10

LEMMA CommitElsewhereInv ==
  ASSUME JoinsIInv, CommitElsewhere
  PROVE  JoinsIInv'
<1>1. PICK open \in BOOLEAN, kicked \in SUBSET Present(room) :
         room' = [room EXCEPT !.version = room.version + 1, !.open = open,
                              !.kicked = room.kicked \cup kicked]
  BY DEF CommitElsewhere
<1>2. /\ room \in [version : Nat, members : SUBSET Guests, kicked : SUBSET Guests, open : BOOLEAN]
      /\ room.kicked \subseteq room.members /\ IsFiniteSet(room.members)
      /\ Cardinality(Present(room)) <= AudienceLimit
  BY DEF JoinsIInv, JoinsInv, JoinTypes, JoinsTypeOK, LimitIsKept
<1>3. kicked \subseteq room.members
  BY DEF Present
<1>4. /\ room'.version = room.version + 1 /\ room'.members = room.members
      /\ room'.kicked = room.kicked \cup kicked /\ room'.open = open
  BY <1>1, <1>2
<1>5. room' \in [version : Nat, members : SUBSET Guests, kicked : SUBSET Guests, open : BOOLEAN]
  <2>1. room.kicked \cup kicked \in SUBSET Guests /\ room.version + 1 \in Nat
    BY <1>2, <1>3
  <2> QED
    BY <1>1, <1>2, <2>1
<1>6. Cardinality(Present(room')) <= AudienceLimit
  <2>1. Present(room') \in SUBSET Present(room) /\ Present(room) \in SUBSET room.members
    BY <1>4 DEF Present
  <2>2. IsFiniteSet(Present(room))
    BY <2>1, <1>2, FS_Subset
  <2>3. Cardinality(Present(room')) <= Cardinality(Present(room)) /\ IsFiniteSet(Present(room'))
    BY <2>1, <2>2, FS_Subset
  <2>4. Cardinality(Present(room')) \in Nat /\ Cardinality(Present(room)) \in Nat
    BY <2>2, <2>3, FS_CardinalityType
  <2> QED
    BY <2>3, <2>4, <1>2, JoinsAssumption
<1>7. reply' = Told({}, "joined") /\ {} \in SUBSET Guests /\ \A g \in {} : reply[g] = "none"
  BY DEF CommitElsewhere, Told, JoinsIInv, JoinTypes
<1>8. UNCHANGED << batch, dispatched, work, intruders >>
  BY DEF CommitElsewhere
<1>9. /\ room'.members = room.members \cup {} /\ room'.kicked \subseteq room'.members
      /\ IsFiniteSet(room'.members)
  BY <1>2, <1>3, <1>4
<1> QED
  BY <1>4, <1>5, <1>6, <1>7, <1>8, <1>9, ElsewhereInv

LEMMA JoinElsewhereInv ==
  ASSUME JoinsIInv, NEW g \in Guests, JoinElsewhere(g)
  PROVE  JoinsIInv'
<1>1. room' = [room EXCEPT !.version = room.version + 1, !.members = room.members \cup {g}]
  BY DEF JoinElsewhere, Joined
<1>2. /\ room \in [version : Nat, members : SUBSET Guests, kicked : SUBSET Guests, open : BOOLEAN]
      /\ room.kicked \subseteq room.members /\ IsFiniteSet(room.members)
  BY DEF JoinsIInv, JoinsInv, JoinTypes, JoinsTypeOK
<1>3. /\ room'.version = room.version + 1 /\ room'.members = room.members \cup {g}
      /\ room'.kicked = room.kicked /\ room'.open = room.open
  BY <1>1, <1>2
<1>4. room' \in [version : Nat, members : SUBSET Guests, kicked : SUBSET Guests, open : BOOLEAN]
  <2>1. room.members \cup {g} \in SUBSET Guests /\ room.version + 1 \in Nat
    BY <1>2
  <2> QED
    BY <1>1, <1>2, <2>1
<1>5. IsFiniteSet(room'.members) /\ Cardinality(Present(room')) <= AudienceLimit
  <2> DEFINE M == room.members
             K == room.kicked
  <2>1. IsFiniteSet(M) /\ IsFiniteSet({g}) /\ Cardinality({g}) = 1
    BY <1>2, FS_Singleton
  <2>2. Present(room) = M \ K /\ Present(room') = (M \cup {g}) \ K /\ room'.members = M \cup {g}
    BY <1>3 DEF Present
  <2> HIDE DEF M, K
  <2>3. /\ IsFiniteSet(M \cup {g})
        /\ Cardinality((M \cup {g}) \ K) \in Nat /\ Cardinality(M \ K) \in Nat
        /\ Cardinality((M \cup {g}) \ K) <= Cardinality(M \ K) + 1
    BY <2>1, LetIn
  <2>4. Cardinality(Present(room)) < AudienceLimit
    <3>1. RoomLeft > 0 /\ Cardinality(Present(room)) \in Nat /\ AudienceLimit \in Nat
      BY <2>2, <2>3, JoinsAssumption DEF JoinElsewhere
    <3> QED
      BY <3>1 DEF RoomLeft
  <2> QED
    BY <2>2, <2>3, <2>4, JoinsAssumption
<1>6. /\ {g} \in SUBSET Guests /\ \A h \in {g} : reply[h] = "none"
      /\ reply' = Told({g}, "joined") /\ UNCHANGED << batch, dispatched, work, intruders >>
      /\ room'.kicked \subseteq room'.members
  BY <1>2, <1>3 DEF JoinElsewhere
<1> QED
  BY <1>3, <1>4, <1>5, <1>6, ElsewhereInv

LEMMA JoinsInitInv == JoinsInit => JoinsIInv
<1> SUFFICES ASSUME JoinsInit PROVE JoinsIInv
  OBVIOUS
<1> USE DEF JoinsInit
<1>1. /\ << >> \in Seq(Guests) /\ << >> \in Seq(Seq(Guests)) /\ Len(<< >>) = 0
      /\ DOMAIN << >> = {} /\ Those(<< >>) = {}
  BY EmptySeq DEF Those
<1>2. JoinTypes
  BY <1>1, FS_EmptySet DEF JoinTypes, JoinReplies, NoWork
<1>3. Present(room) = {} /\ Cardinality(Present(room)) = 0
  BY FS_EmptySet DEF Present
<1>4. JoinsTypeOK /\ LimitIsKept /\ RepliesAreTrue
  BY <1>1, <1>3, JoinsAssumption DEF JoinsTypeOK, LimitIsKept, RepliesAreTrue
<1>5. NoJoinIsForgotten /\ WorkIsOnFirst /\ RepliesAgree /\ Apart(dispatched, batch)
  BY <1>1 DEF NoJoinIsForgotten, WorkIsOnFirst, RepliesAgree, Queued, Apart, NoWork
<1> QED
  BY <1>2, <1>4, <1>5 DEF JoinsIInv, JoinsInv

LEMMA JoinsStep == JoinsIInv /\ [JoinsNext]_joinVars => JoinsIInv'
<1> SUFFICES ASSUME JoinsIInv, [JoinsNext]_joinVars PROVE JoinsIInv'
  OBVIOUS
<1>1. ASSUME NEW g \in Guests, QueueJoin(g) PROVE JoinsIInv'
  BY <1>1, QueueJoinInv
<1>2. ASSUME NEW g \in Guests, JoinElsewhere(g) PROVE JoinsIInv'
  BY <1>2, JoinElsewhereInv
<1>3. CASE JoinTimer
  BY <1>3, JoinTimerInv
<1>4. CASE LoadForJoin
  BY <1>4, LoadForJoinInv
<1>5. ASSUME work.on
      PROVE  /\ dispatched # << >> /\ (Wins => room.open) /\ intruders = {}
             /\ Those(work.accepted) = IF work.on THEN Those(work.accepted)
                                                  ELSE Those(Head(dispatched))
  BY <1>5 DEF JoinsIInv, JoinsInv, WorkIsOnFirst, LimitIsKept
<1>6. CASE CommitJoins
  <2>1. intruders' = intruders
    BY <1>5, <1>6 DEF CommitJoins
  <2> QED
    BY <1>5, <1>6, <2>1, EndedInv DEF CommitJoins
<1>7. CASE JoinConflict
  BY <1>5, <1>7, EndedInv DEF JoinConflict
<1>8. CASE CommitJoinsFails
  <2>1. intruders' = intruders
    BY <1>5, <1>8 DEF CommitJoinsFails
  <2>2. \/ UNCHANGED room
        \/ Wins /\ room' = Joined(Those(work.accepted))
    BY <1>8 DEF CommitJoinsFails
  <2> QED
    BY <1>5, <1>8, <2>1, <2>2, EndedInv DEF CommitJoinsFails
<1>9. CASE JoinMutationFails
  <2>1. Ended /\ Those(Head(dispatched)) = IF work.on THEN Those(work.accepted)
                                                      ELSE Those(Head(dispatched))
    BY <1>9 DEF JoinMutationFails, Ended, JoinsIInv, JoinTypes
  <2> QED
    BY <1>9, <2>1, EndedInv DEF JoinMutationFails
<1>10. CASE CommitElsewhere
  BY <1>10, CommitElsewhereInv
<1>11. CASE UNCHANGED joinVars
  <2> USE DEF joinVars
  <2>1. JoinTypes' /\ WorkIsOnFirst'
    BY <1>11 DEF JoinsIInv, JoinTypes, WorkIsOnFirst, Wins, Present
  <2>2. Apart(dispatched', batch') /\ RepliesAgree'
    BY <1>11 DEF JoinsIInv, RepliesAgree, Apart, Queued
  <2>3. JoinsInv'
    BY <1>11 DEF JoinsIInv, JoinsInv, JoinsTypeOK, LimitIsKept, RepliesAreTrue,
       NoJoinIsForgotten, Present
  <2> QED
    BY <2>1, <2>2, <2>3 DEF JoinsIInv
<1> QED
  BY <1>1, <1>2, <1>3, <1>4, <1>6, <1>7, <1>8, <1>9, <1>10, <1>11 DEF JoinsNext

\* For any number of guests, batches, failures and changes elsewhere: the audience limit and the
\* lock are kept, who is told of a join is a member, who is refused is none, and every other
\* request is in exactly one batch that will be answered.
THEOREM JoinsAreTrue == JoinsSpec => []JoinsInv
<1>1. JoinsIInv => JoinsInv
  BY DEF JoinsIInv
<1> QED
  BY <1>1, JoinsInitInv, JoinsStep, PTL DEF JoinsSpec
\* The two ways in at once: a session's guests and all sessions' commits.
THEOREM IntakeIsTrue == JoinsSpec /\ SlotsSpec => []IntakeInv
<1>1. JoinsInv /\ SlotsInv => IntakeInv
  BY DEF IntakeInv
<1> QED
  BY <1>1, JoinsAreTrue, SlotsAreShared, PTL
-------------------------------------------------------------------------------
(* Practice *)

Waiters == Tabs \cup {Unheard}

AttemptPhases == {"none", "question_open", "answer_reveal", "intervention", "completed"}
AttemptRow == [version : Nat, phase : AttemptPhases, index : Nat, card : Nat, due : Nat]
TabCommand == [tab : Waiters, n : Nat, action : {"none", "answer", "advance"}, expected : Nat]
AttemptView == [version : Nat, phase : AttemptPhases, index : Nat, card : Nat, response : SUBSET TabCommand]
TabRequest ==
    [kind : {"none", "start", "resume", "answer", "advance"}, command : TabCommand,
     stage : {"none", "sent", "create", "reveal", "move", "readback", "over"}, at : Nat,
     row : AttemptRow, status : {"none", "ok", "stale", "closed", "unauthorized"}, view : AttemptView]

PracticeTypes ==
    /\ attempt \in AttemptRow /\ moves \in Seq(TabCommand) /\ receipts \subseteq TabCommand
    /\ answered \subseteq [question : Nat, command : TabCommand, at : Nat, due : Nat]
    /\ tab \in [Tabs -> [view : AttemptView, pending : TabCommand, unsure : BOOLEAN, token : BOOLEAN]]
    /\ request \in [Waiters -> TabRequest] /\ issued \in [Tabs -> Nat] /\ refused \in TabCommand
    /\ clock \in Nat /\ shut \in {"no", "revoked", "closed"}

PlaceOf(x) == [phase |-> x.phase, index |-> x.index, card |-> x.card]
LastVersion == 2 * Questions + Cards

\* A view of an attempt that stands at this row after these moves.
TrueView(view, row, done) ==
    view # NoView =>
        /\ row # NoRow /\ view.version <= row.version
        /\ PlaceOf(view) = PlaceAt(view.version)
        /\ view.response = IF view.phase = "answer_reveal"
                           THEN {done[view.version]} \ {NoCommand} ELSE {}

\* A command that a tab has made for a place of the attempt.
TrueCommand(command, row) ==
    command # NoCommand =>
        /\ row # NoRow /\ command.expected <= row.version
        /\ PlaceAt(command.expected).phase # "completed"
        /\ command.action = IF PlaceAt(command.expected).phase = "question_open"
                            THEN "answer" ELSE "advance"

Done(command, done) ==
    command.expected < Len(done) /\ done[command.expected + 1] = command

\* A command that moved the attempt, or the time of whose question ran out.
TrueToItsWord(command, done) ==
    /\ command.expected < Len(done)
    /\ done[command.expected + 1] \in
          IF command.action = "answer" THEN {command, NoCommand} ELSE {command}

\* A request is for what its tab asked, and the row it read is the attempt's while the versions
\* agree.
TrueRequest(r, row, done) ==
    /\ TrueCommand(r.command, row) /\ TrueView(r.view, row, done)
    /\ r.kind \in {"answer", "advance"} => r.command # NoCommand /\ r.command.action = r.kind
    /\ r.kind \notin {"answer", "advance"} => r.command = NoCommand
    /\ r.stage = "sent" => r.kind # "none"
    /\ r.stage = "create" => r.command = NoCommand
    /\ r.stage \in {"reveal", "move"} =>
          /\ row # NoRow /\ r.row.version <= row.version
          /\ r.row.version = row.version => r.row = row
          /\ r.command # NoCommand => r.command.expected = r.row.version
    /\ r.stage = "reveal" => r.row.phase = "question_open"
    /\ r.stage = "move" =>
          \/ /\ r.kind = "answer" /\ r.row.phase = "question_open"
             /\ r.row.due # 0 => r.at <= r.row.due
          \/ r.kind = "advance" /\ r.row.phase \in {"answer_reveal", "intervention"}
    /\ r.stage = "readback" => r.command # NoCommand /\ Done(r.command, done)
    /\ r.stage = "over" /\ r.command # NoCommand =>
          /\ r.status = "ok" => TrueToItsWord(r.command, done)
          /\ r.status = "stale" => r.command.expected < row.version

TrueAttempt ==
    /\ attempt = NoRow => moves = << >> /\ answered = {} /\ receipts = {}
    /\ attempt # NoRow => attempt.version <= LastVersion
    /\ \A c \in receipts : Done(c, moves)
    /\ refused # NoCommand => refused.expected < Len(moves)

TrueTabs ==
    \A t \in Tabs : TrueView(tab[t].view, attempt, moves) /\ TrueCommand(tab[t].pending, attempt)

PracticeIInv ==
    /\ PracticeTypes /\ PracticeInv /\ TrueAttempt /\ TrueTabs
    /\ \A w \in Waiters : TrueRequest(request[w], attempt, moves)

\* The places of a practice in their order.
LEMMA HalvesOf ==
  ASSUME NEW k \in Nat
  PROVE  /\ (2 * k) % 2 = 0 /\ (2 * k) \div 2 = k
         /\ (2 * k + 1) % 2 = 1 /\ (2 * k + 1) \div 2 = k
OBVIOUS

LEMMA HalfOf ==
  ASSUME NEW n \in Nat
  PROVE  n \div 2 \in Nat /\ (n = 2 * (n \div 2) \/ n = 2 * (n \div 2) + 1)
OBVIOUS

\* A version at which a question is open, or its answers are shown, by the question's number.
QuestionVersion(q) == IF q = 1 THEN 0 ELSE Cards + 2 * (q - 1)

LEMMA OpenPlace ==
  ASSUME NEW v \in 0..LastVersion
  PROVE  /\ PlaceAt(v).phase = "question_open"
              <=> \E q \in 1..Questions : v = QuestionVersion(q)
         /\ PlaceAt(v).phase = "answer_reveal"
              <=> \E q \in 1..Questions : v = QuestionVersion(q) + 1
         /\ PlaceAt(v).phase = "intervention" <=> v \in 2..(Cards + 1)
         /\ \A q \in 1..Questions :
               v = QuestionVersion(q) \/ v = QuestionVersion(q) + 1 => 
                  PlaceAt(v).index = q /\ PlaceAt(v).card = 0
<1>1. Questions \in Nat \ {0} /\ Cards \in Nat /\ LastVersion \in Nat /\ v \in Nat
  BY PracticeAssumption DEF LastVersion
<1>2. \A q \in 1..Questions : QuestionVersion(q) \in Nat
  BY <1>1 DEF QuestionVersion
<1>3. CASE v < 2
  <2>1. 1 \in 1..Questions /\ QuestionVersion(1) = 0
    BY <1>1 DEF QuestionVersion
  <2>2. \A q \in 1..Questions : q # 1 => QuestionVersion(q) >= 2
    BY <1>1 DEF QuestionVersion
  <2> QED
    BY <1>1, <1>2, <1>3, <2>1, <2>2 DEF PlaceAt
<1>4. CASE v >= 2 /\ v < Cards + 2
  <2>1. \A q \in 1..Questions : v # QuestionVersion(q) /\ v # QuestionVersion(q) + 1
    BY <1>1, <1>4 DEF QuestionVersion
  <2> QED
    BY <1>1, <1>4, <2>1 DEF PlaceAt
<1>5. CASE v >= Cards + 2 /\ v >= 2
  <2> DEFINE later == v - Cards
             k == later \div 2
  <2>1. later \in Nat /\ later >= 2 /\ later <= 2 * Questions
    BY <1>1, <1>5 DEF LastVersion
  <2>2. k \in Nat /\ (later = 2 * k \/ later = 2 * k + 1)
    BY <2>1, HalfOf
  <2> HIDE DEF k
  <2>3. \A q \in 1..Questions : /\ v = QuestionVersion(q) <=> later = 2 * (q - 1)
                                /\ v = QuestionVersion(q) + 1 <=> later = 2 * (q - 1) + 1
    BY <1>1, <1>5, <2>1 DEF QuestionVersion
  <2>4. CASE later = 2 * Questions
    <3>1. PlaceAt(v) = [phase |-> "completed", index |-> Questions, card |-> 0]
      BY <1>1, <1>5, <2>4 DEF PlaceAt
    <3>2. \A q \in 1..Questions : later # 2 * (q - 1) /\ later # 2 * (q - 1) + 1
      BY <1>1, <2>4
    <3> QED
      BY <3>1, <3>2, <2>3, <1>1, <1>5
  <2>5. CASE later # 2 * Questions /\ later = 2 * k
    <3>1. later % 2 = 0 /\ later \div 2 = k
      BY <2>2, <2>5, HalvesOf
    <3>2. PlaceAt(v) = [phase |-> "question_open", index |-> k + 1, card |-> 0]
      BY <1>1, <1>5, <2>5, <3>1 DEF PlaceAt
    <3>3. k + 1 \in 1..Questions /\ later = 2 * ((k + 1) - 1)
      BY <1>1, <2>1, <2>2, <2>5
    <3>4. \A q \in 1..Questions : /\ later = 2 * (q - 1) => q = k + 1
                                  /\ later # 2 * (q - 1) + 1
      BY <1>1, <2>2, <2>5
    <3> QED
      BY <3>2, <3>3, <3>4, <2>3, <1>1, <1>5
  <2>6. CASE later # 2 * Questions /\ later = 2 * k + 1
    <3>1. later % 2 = 1 /\ later \div 2 = k
      BY <2>2, <2>6, HalvesOf
    <3>2. PlaceAt(v) = [phase |-> "answer_reveal", index |-> k + 1, card |-> 0]
      BY <1>1, <1>5, <2>6, <3>1 DEF PlaceAt
    <3>3. k + 1 \in 1..Questions /\ later = 2 * ((k + 1) - 1) + 1
      BY <1>1, <2>1, <2>2, <2>6
    <3>4. \A q \in 1..Questions : /\ later = 2 * (q - 1) + 1 => q = k + 1
                                  /\ later # 2 * (q - 1)
      BY <1>1, <2>2, <2>6
    <3> QED
      BY <3>2, <3>3, <3>4, <2>3, <1>1, <1>5
  <2> QED
    BY <2>2, <2>4, <2>5, <2>6
<1> QED
  BY <1>1, <1>3, <1>4, <1>5
LEMMA PlaceType ==
  ASSUME NEW v \in 0..LastVersion
  PROVE  PlaceAt(v) \in [phase : AttemptPhases, index : Nat, card : Nat]
<1>1. Questions \in Nat \ {0} /\ Cards \in Nat /\ v \in Nat
  BY PracticeAssumption DEF LastVersion
<1>2. CASE v < Cards + 2 \/ v < 2
  BY <1>1, <1>2 DEF PlaceAt, AttemptPhases
<1>3. CASE v >= Cards + 2 /\ v >= 2
  <2>1. v - Cards \in Nat
    BY <1>1, <1>3
  <2>2. (v - Cards) \div 2 \in Nat
    BY <2>1, HalfOf
  <2> QED
    BY <1>1, <1>3, <2>2 DEF PlaceAt, AttemptPhases
<1> QED
  BY <1>1, <1>2, <1>3

\* After question q and what follows it comes the next question, or the end.
LEMMA PlaceAfter ==
  ASSUME NEW q \in 1..Questions
  PROVE  /\ Cards + 2 * q \in 0..LastVersion
         /\ PlaceAt(Cards + 2 * q)
              = IF q = Questions THEN [phase |-> "completed", index |-> Questions, card |-> 0]
                ELSE [phase |-> "question_open", index |-> q + 1, card |-> 0]
<1>1. Questions \in Nat \ {0} /\ Cards \in Nat /\ q \in Nat /\ q >= 1 /\ q <= Questions
  BY PracticeAssumption
<1> DEFINE v == Cards + 2 * q
<1>2. /\ v \in Nat /\ v >= 2 /\ v >= Cards + 2 /\ v - Cards = 2 * q /\ v <= LastVersion
      /\ LastVersion \in Nat
  BY <1>1 DEF LastVersion
<1>3. (2 * q) % 2 = 0 /\ (2 * q) \div 2 = q
  BY <1>1, HalvesOf
<1>4. 2 * q = 2 * Questions <=> q = Questions
  BY <1>1
<1> HIDE DEF v
<1>5. PlaceAt(v) = IF q = Questions THEN [phase |-> "completed", index |-> Questions, card |-> 0]
                   ELSE [phase |-> "question_open", index |-> q + 1, card |-> 0]
  <2>1. ~(v < 2) /\ ~(v < Cards + 2)
    BY <1>1, <1>2
  <2> QED
    BY <2>1, <1>2, <1>3, <1>4 DEF PlaceAt
<1> QED
  BY <1>2, <1>5 DEF v

\* A question is followed by its answers, and answers are those of the question before them.
LEMMA QuestionPlaces ==
  ASSUME NEW v \in 0..LastVersion
  PROVE  /\ PlaceAt(v).phase = "question_open" =>
               /\ v + 1 \in 0..LastVersion
               /\ PlaceAt(v + 1)
                    = [phase |-> "answer_reveal", index |-> PlaceAt(v).index, card |-> 0]
         /\ PlaceAt(v).phase = "answer_reveal" =>
               /\ v >= 1 /\ PlaceAt(v - 1).phase = "question_open"
               /\ PlaceAt(v - 1).index = PlaceAt(v).index
               /\ \A u \in 0..LastVersion :
                     PlaceAt(u).phase = "question_open" /\ PlaceAt(u).index = PlaceAt(v).index
                     => u = v - 1
<1>1. Questions \in Nat \ {0} /\ Cards \in Nat /\ LastVersion \in Nat /\ v \in Nat
  BY PracticeAssumption DEF LastVersion
<1>2. \A q \in 1..Questions : QuestionVersion(q) \in Nat /\ QuestionVersion(q) + 1 <= LastVersion
  BY <1>1 DEF QuestionVersion, LastVersion
<1>3. ASSUME PlaceAt(v).phase = "question_open"
      PROVE  /\ v + 1 \in 0..LastVersion
             /\ PlaceAt(v + 1) = [phase |-> "answer_reveal", index |-> PlaceAt(v).index, card |-> 0]
  <2>1. PICK q \in 1..Questions : v = QuestionVersion(q)
    BY <1>3, OpenPlace
  <2>2. v + 1 = QuestionVersion(q) + 1 /\ v + 1 \in 0..LastVersion
    BY <2>1, <1>1, <1>2
  <2>3. PlaceAt(v).index = q
    BY <2>1, OpenPlace
  <2>4. PlaceAt(v + 1).phase = "answer_reveal"
    BY <2>2, OpenPlace
  <2>5. PlaceAt(v + 1).index = q /\ PlaceAt(v + 1).card = 0
    BY <2>2, OpenPlace
  <2> QED
    BY <2>2, <2>3, <2>4, <2>5, PlaceType
<1>4. ASSUME PlaceAt(v).phase = "answer_reveal"
      PROVE  /\ v >= 1 /\ PlaceAt(v - 1).phase = "question_open"
             /\ PlaceAt(v - 1).index = PlaceAt(v).index
             /\ \A u \in 0..LastVersion :
                   PlaceAt(u).phase = "question_open" /\ PlaceAt(u).index = PlaceAt(v).index
                   => u = v - 1
  <2>1. PICK q \in 1..Questions : v = QuestionVersion(q) + 1
    BY <1>4, OpenPlace
  <2>2. v >= 1 /\ v - 1 = QuestionVersion(q) /\ v - 1 \in 0..LastVersion
    BY <2>1, <1>1, <1>2
  <2>3. PlaceAt(v).index = q /\ PlaceAt(v - 1).index = q
    BY <2>1, <2>2, OpenPlace
  <2>4. PlaceAt(v - 1).phase = "question_open"
    BY <2>2, OpenPlace
  <2>5. ASSUME NEW u \in 0..LastVersion, PlaceAt(u).phase = "question_open",
               PlaceAt(u).index = PlaceAt(v).index
        PROVE  u = v - 1
    <3>1. PICK p \in 1..Questions : u = QuestionVersion(p)
      BY <2>5, OpenPlace
    <3>2. PlaceAt(u).index = p
      BY <3>1, OpenPlace
    <3> QED
      BY <3>1, <3>2, <2>2, <2>3, <2>5
  <2> QED
    BY <2>2, <2>3, <2>4, <2>5
<1> QED
  BY <1>3, <1>4

\* Advanced takes an attempt to the place of the next version.
LEMMA AdvancedPlace ==
  ASSUME NEW row \in AttemptRow, NEW at, row.version \in 0..LastVersion,
         PlaceOf(row) = PlaceAt(row.version), row.phase \in {"answer_reveal", "intervention"}
  PROVE  /\ row.version + 1 \in 0..LastVersion
         /\ Advanced(row, at).version = row.version + 1
         /\ PlaceOf(Advanced(row, at)) = PlaceAt(row.version + 1)
<1> DEFINE v == row.version
           enters == Cards > 0 /\ row.phase = "answer_reveal" /\ row.index = 1
           card == IF enters THEN 1
                   ELSE IF row.phase = "intervention" /\ row.card < Cards THEN row.card + 1 ELSE 0
           last == card = 0 /\ row.index = Questions
<1>1. Questions \in Nat \ {0} /\ Cards \in Nat /\ LastVersion \in Nat /\ v \in Nat
  BY PracticeAssumption DEF LastVersion
<1>2. /\ Advanced(row, at).version = v + 1
      /\ PlaceOf(Advanced(row, at))
           = [phase |-> IF last THEN "completed"
                        ELSE IF card # 0 THEN "intervention" ELSE "question_open",
              index |-> IF last \/ card # 0 THEN row.index ELSE row.index + 1,
              card |-> card]
  BY DEF Advanced, PlaceOf
<1>3. /\ PlaceAt(v).phase = row.phase /\ PlaceAt(v).index = row.index
      /\ PlaceAt(v).card = row.card
  BY DEF PlaceOf
<1> DEFINE place == [phase |-> IF last THEN "completed"
                               ELSE IF card # 0 THEN "intervention" ELSE "question_open",
                     index |-> IF last \/ card # 0 THEN row.index ELSE row.index + 1,
                     card |-> card]
<1>4. ASSUME NEW q \in 1..Questions, card = 0, row.index = q, v + 1 = Cards + 2 * q
      PROVE  v + 1 \in 0..LastVersion /\ place = PlaceAt(v + 1)
  <2>1. place = IF q = Questions THEN [phase |-> "completed", index |-> Questions, card |-> 0]
                ELSE [phase |-> "question_open", index |-> q + 1, card |-> 0]
    BY <1>4
  <2> HIDE DEF place
  <2> QED
    BY <2>1, <1>4, PlaceAfter
<1>5. ASSUME card # 0, row.index = 1, v + 1 >= 2, v + 1 < Cards + 2, card = v
      PROVE  v + 1 \in 0..LastVersion /\ place = PlaceAt(v + 1)
  <2>1. place = [phase |-> "intervention", index |-> 1, card |-> v]
    BY <1>5
  <2>2. PlaceAt(v + 1) = [phase |-> "intervention", index |-> 1, card |-> v]
    BY <1>1, <1>5 DEF PlaceAt
  <2>3. v + 1 \in 0..LastVersion
    BY <1>1, <1>5 DEF LastVersion
  <2> QED
    BY <2>1, <2>2, <2>3
<1>6. CASE row.phase = "answer_reveal"
  <2>1. PICK q \in 1..Questions : v = QuestionVersion(q) + 1
    BY <1>3, <1>6, OpenPlace
  <2>2. row.index = q
    BY <2>1, <1>3, OpenPlace
  <2>3. CASE q = 1 /\ Cards > 0
    <3>1. v = 1 /\ card = 1
      BY <2>1, <2>2, <2>3, <1>6 DEF QuestionVersion
    <3> QED
      BY <3>1, <2>2, <2>3, <1>1, <1>2, <1>5
  <2>4. CASE ~(q = 1 /\ Cards > 0)
    <3>1. card = 0
      BY <2>2, <2>4, <1>6
    <3>2. v + 1 = Cards + 2 * q
      BY <2>1, <2>4, <1>1 DEF QuestionVersion
    <3> QED
      BY <3>1, <3>2, <2>2, <1>2, <1>4
  <2> QED
    BY <2>3, <2>4
<1>7. CASE row.phase = "intervention"
  <2>1. v \in 2..(Cards + 1)
    BY <1>3, <1>7, OpenPlace
  <2>2. row.index = 1 /\ row.card = v - 1
    BY <1>1, <1>3, <2>1 DEF PlaceAt
  <2>3. CASE v - 1 < Cards
    <3>1. card = v
      BY <2>1, <2>2, <2>3, <1>1, <1>7
    <3> QED
      BY <3>1, <2>1, <2>2, <2>3, <1>1, <1>2, <1>5
  <2>4. CASE ~(v - 1 < Cards)
    <3>1. card = 0 /\ v + 1 = Cards + 2 * 1 /\ 1 \in 1..Questions
      BY <2>1, <2>2, <2>4, <1>1, <1>7
    <3> QED
      BY <3>1, <2>2, <1>2, <1>4
  <2> QED
    BY <2>3, <2>4
<1> QED
  BY <1>6, <1>7
\* What an attempt and its moves may become.
Evolves(row, done, later, longer) ==
    /\ row # NoRow =>
          /\ later # NoRow /\ row.version <= later.version
          /\ later.version = row.version => later = row
    /\ Len(done) <= Len(longer)
    /\ \A i \in 1..Len(done) : longer[i] = done[i]

\* An attempt stands at the place of its version, which is the number of its moves.
StandsAt(row, done) ==
    row # NoRow =>
        /\ row.version \in 0..LastVersion /\ row.version = Len(done)
        /\ PlaceOf(row) = PlaceAt(row.version)

\* A view, a command and a request that were true stay so.
LEMMA StaysTrue ==
  ASSUME NEW row \in AttemptRow, NEW later \in AttemptRow,
         NEW done \in Seq(TabCommand), NEW longer \in Seq(TabCommand),
         Evolves(row, done, later, longer), StandsAt(row, done)
  PROVE  /\ \A view \in AttemptView : TrueView(view, row, done) => TrueView(view, later, longer)
         /\ \A c \in TabCommand : TrueCommand(c, row) => TrueCommand(c, later)
         /\ \A c \in TabCommand : Done(c, done) => Done(c, longer)
         /\ \A r \in TabRequest : TrueRequest(r, row, done) => TrueRequest(r, later, longer)
<1> USE DEF AttemptRow, AttemptView, TabCommand
<1>1. Len(done) \in Nat /\ Len(longer) \in Nat /\ LastVersion \in Nat
  BY LenProperties, PracticeAssumption DEF LastVersion
<1>2. \A view \in AttemptView : TrueView(view, row, done) => TrueView(view, later, longer)
  <2> SUFFICES ASSUME NEW view \in AttemptView, TrueView(view, row, done), view # NoView
               PROVE  TrueView(view, later, longer)
    BY DEF TrueView
  <2>1. row # NoRow /\ later # NoRow /\ view.version <= row.version /\ row.version <= later.version
    BY DEF TrueView, Evolves
  <2>2. view.version \in 0..LastVersion /\ view.version <= Len(done)
    BY <1>1, <2>1 DEF StandsAt
  <2>3. ASSUME view.phase = "answer_reveal" PROVE longer[view.version] = done[view.version]
    <3>1. PlaceAt(view.version).phase = "answer_reveal"
      BY <2>3 DEF TrueView, PlaceOf
    <3>2. view.version >= 1
      BY <2>2, <3>1, QuestionPlaces
    <3>3. view.version \in 1..Len(done)
      BY <3>2, <2>2, <1>1
    <3> QED
      BY <3>3 DEF Evolves
  <2>4. view.version <= later.version
    BY <2>1
  <2> QED
    BY <2>1, <2>3, <2>4 DEF TrueView
<1>3. \A c \in TabCommand : TrueCommand(c, row) => TrueCommand(c, later)
  BY DEF TrueCommand, Evolves
<1>4. ASSUME NEW c \in TabCommand, c.expected < Len(done)
      PROVE  c.expected < Len(longer) /\ longer[c.expected + 1] = done[c.expected + 1]
  <2>1. c.expected \in Nat
    OBVIOUS
  <2> DEFINE n == c.expected
  <2> HIDE DEF n
  <2>2. n \in Nat /\ n < Len(done)
    BY <1>4, <2>1 DEF n
  <2>3. n + 1 \in 1..Len(done)
    BY <1>1, <2>2
  <2>4. n < Len(longer)
    BY <1>1, <2>2 DEF Evolves
  <2>5. longer[n + 1] = done[n + 1]
    BY <2>3 DEF Evolves
  <2> QED
    BY <2>4, <2>5 DEF n
<1>5. \A c \in TabCommand : /\ Done(c, done) => Done(c, longer)
                            /\ TrueToItsWord(c, done) => TrueToItsWord(c, longer)
  BY <1>4 DEF Done, TrueToItsWord
<1>6. \A r \in TabRequest : TrueRequest(r, row, done) => TrueRequest(r, later, longer)
  <2> SUFFICES ASSUME NEW r \in TabRequest, TrueRequest(r, row, done)
               PROVE  TrueRequest(r, later, longer)
    OBVIOUS
  <2>1. /\ r.command \in TabCommand /\ r.view \in AttemptView
        /\ r.row \in AttemptRow /\ r.row.version \in Nat /\ r.command.expected \in Nat
    BY DEF TabRequest
  <2>2. /\ TrueCommand(r.command, later) /\ TrueView(r.view, later, longer)
        /\ Done(r.command, done) => Done(r.command, longer)
        /\ TrueToItsWord(r.command, done) => TrueToItsWord(r.command, longer)
    BY <2>1, <1>2, <1>3, <1>5 DEF TrueRequest
  <2>3. ASSUME r.stage \in {"reveal", "move"}
        PROVE  /\ later # NoRow /\ r.row.version <= later.version
               /\ r.row.version = later.version => r.row = later
    <3>1. /\ row # NoRow /\ r.row.version <= row.version
          /\ r.row.version = row.version => r.row = row
      BY <2>3 DEF TrueRequest
    <3>2. /\ later # NoRow /\ row.version <= later.version
          /\ later.version = row.version => later = row
      BY <3>1 DEF Evolves
    <3>3. row.version \in Nat /\ later.version \in Nat /\ r.row.version \in Nat
      BY <2>1
    <3>4. r.row.version <= later.version
      BY <3>1, <3>2, <3>3
    <3>5. ASSUME r.row.version = later.version PROVE r.row = later
      <4>1. later.version = row.version
        BY <3>1, <3>2, <3>3, <3>5
      <4> QED
        BY <4>1, <3>1, <3>2, <3>5
    <3> QED
      BY <3>2, <3>4, <3>5
  <2>4. ASSUME r.stage = "over", r.command # NoCommand, r.status = "stale"
        PROVE  r.command.expected < later.version
    <3>1. row # NoRow /\ r.command.expected < row.version
      BY <2>4 DEF TrueRequest, TrueCommand
    <3>2. row.version <= later.version /\ row.version \in Nat /\ later.version \in Nat
      BY <3>1 DEF Evolves
    <3> QED
      BY <3>1, <3>2, <2>1
  <2> QED
    BY <2>2, <2>3, <2>4 DEF TrueRequest
<1> QED
  BY <1>2, <1>3, <1>5, <1>6

\* The answers are those of the commands that ended a question, as AnswersCounted says.
Recorded(given, done) ==
    /\ {<< a.question, a.command >> : a \in given}
          = {<< PlaceAt(v - 1).index, done[v] >> :
                v \in {u \in DOMAIN done : done[u].action = "answer"}}
    /\ \A v \in DOMAIN done :
          done[v] # NoCommand =>
              /\ done[v].expected = v - 1
              /\ done[v].action = IF PlaceAt(v - 1).phase = "question_open"
                                  THEN "answer" ELSE "advance"

\* The answers to the question that is revealed: the one of the command that ended it, or none.
LEMMA ShownResponse ==
  ASSUME NEW row \in AttemptRow, row.version \in 0..LastVersion,
         PlaceOf(row) = PlaceAt(row.version), row.phase = "answer_reveal",
         NEW done \in Seq(TabCommand), row.version = Len(done),
         NEW given, Recorded(given, done)
  PROVE  {a.command : a \in {b \in given : b.question = row.index}}
            = {done[row.version]} \ {NoCommand}
<1> DEFINE v == row.version
<1>1. /\ LastVersion \in Nat /\ v \in Nat /\ Len(done) \in Nat /\ DOMAIN done = 1..Len(done)
      /\ v = Len(done)
  BY PracticeAssumption, LenProperties DEF LastVersion, AttemptRow
<1>2. PlaceAt(v).phase = "answer_reveal" /\ PlaceAt(v).index = row.index
  BY DEF PlaceOf
<1>3. /\ v >= 1 /\ PlaceAt(v - 1).phase = "question_open" /\ PlaceAt(v - 1).index = row.index
      /\ \A u \in 0..LastVersion :
            PlaceAt(u).phase = "question_open" /\ PlaceAt(u).index = row.index => u = v - 1
  BY <1>2, QuestionPlaces
<1>4. v \in DOMAIN done /\ NoCommand.action = "none"
  <2>1. NoCommand.action = "none"
    BY DEF NoCommand
  <2>2. v >= 1
    BY <1>3
  <2>3. DOMAIN done = 1..v /\ v \in Nat
    BY <1>1
  <2>4. v \in 1..v
    <3> HIDE DEF v
    <3> QED
      BY <2>2, <2>3
  <2> QED
    BY <2>1, <2>3, <2>4
<1>5. ASSUME NEW a \in given, a.question = row.index
      PROVE  a.command = done[v] /\ a.command # NoCommand
  <2>1. << a.question, a.command >> \in
           {<< PlaceAt(u - 1).index, done[u] >> :
               u \in {x \in DOMAIN done : done[x].action = "answer"}}
    BY DEF Recorded
  <2>2. PICK u \in DOMAIN done : /\ done[u].action = "answer"
                                 /\ a.question = PlaceAt(u - 1).index /\ a.command = done[u]
    BY <2>1
  <2>3. done[u] # NoCommand
    BY <2>2, <1>4
  <2>4. PlaceAt(u - 1).phase = "question_open"
    BY <2>2, <2>3 DEF Recorded
  <2>5. u - 1 \in 0..LastVersion
    BY <1>1
  <2>6. u - 1 = v - 1
    BY <1>3, <1>5, <2>2, <2>4, <2>5
  <2>7. u = v
    BY <2>6, <1>1
  <2> QED
    BY <2>2, <2>3, <2>7
<1>6. ASSUME done[v] # NoCommand
      PROVE  \E a \in given : a.question = row.index /\ a.command = done[v]
  <2>1. done[v].action = "answer"
    BY <1>3, <1>4, <1>6 DEF Recorded
  <2>2. << PlaceAt(v - 1).index, done[v] >> \in {<< a.question, a.command >> : a \in given}
    BY <1>4, <2>1 DEF Recorded
  <2>3. PICK a \in given : << PlaceAt(v - 1).index, done[v] >> = << a.question, a.command >>
    BY <2>2
  <2> QED
    BY <2>3, <1>3
<1> HIDE DEF v
<1>7. {a.command : a \in {b \in given : b.question = row.index}} = {done[v]} \ {NoCommand}
  BY <1>5, <1>6
<1> QED
  BY <1>7 DEF v

LEMMA SnapshotIsTrue ==
  ASSUME NEW row \in AttemptRow, NEW done \in Seq(TabCommand), StandsAt(row, done),
         answered \subseteq [question : Nat, command : TabCommand, at : Nat, due : Nat],
         row.phase = "answer_reveal" => Recorded(answered, done)
  PROVE  Snapshot(row) \in AttemptView /\ TrueView(Snapshot(row), row, done)
<1> DEFINE shown == IF row.phase = "answer_reveal" THEN ResponseTo(row.index) ELSE {}
<1>1. shown \in SUBSET TabCommand
  BY DEF ResponseTo
<1>2. Snapshot(row) = [version |-> row.version, phase |-> row.phase, index |-> row.index,
                       card |-> row.card, response |-> shown]
  BY DEF Snapshot
<1>3. Snapshot(row) \in AttemptView
  <2> HIDE DEF shown
  <2> QED
    BY <1>1, <1>2 DEF AttemptRow, AttemptView
<1>4. CASE row = NoRow
  <2>1. row.phase = "none"
    BY <1>4 DEF NoRow
  <2>2. shown = {}
    BY <2>1
  <2> HIDE DEF shown
  <2>3. Snapshot(row) = NoView
    BY <1>2, <1>4, <2>2 DEF NoRow, NoView
  <2> QED
    BY <1>3, <2>3 DEF TrueView
<1>5. CASE row # NoRow
  <2>1. row.version \in 0..LastVersion /\ row.version = Len(done) /\ PlaceOf(row) = PlaceAt(row.version)
    BY <1>5 DEF StandsAt
  <2>2. shown = IF row.phase = "answer_reveal" THEN {done[row.version]} \ {NoCommand} ELSE {}
    BY <2>1, ShownResponse DEF ResponseTo
  <2> HIDE DEF shown
  <2>3. PlaceOf(Snapshot(row)) = PlaceOf(row) /\ Snapshot(row).version = row.version
    BY <1>2 DEF PlaceOf
  <2>4. row.version <= row.version
    BY DEF AttemptRow
  <2> QED
    BY <1>2, <1>3, <1>5, <2>1, <2>2, <2>3, <2>4 DEF TrueView
<1> QED
  BY <1>4, <1>5
LEMMA PracticeStands ==
  ASSUME PracticeIInv
  PROVE  /\ StandsAt(attempt, moves) /\ Recorded(answered, moves)
         /\ attempt \in AttemptRow /\ moves \in Seq(TabCommand)
         /\ Len(moves) \in Nat /\ DOMAIN moves = 1..Len(moves) /\ LastVersion \in Nat
         /\ NoCommand \in TabCommand /\ NoView \in AttemptView /\ NoRow \in AttemptRow
<1>1. attempt \in AttemptRow /\ moves \in Seq(TabCommand)
  BY DEF PracticeIInv, PracticeTypes
<1>2. Len(moves) \in Nat /\ DOMAIN moves = 1..Len(moves) /\ LastVersion \in Nat
  BY <1>1, LenProperties, PracticeAssumption DEF LastVersion
<1>3. StandsAt(attempt, moves)
  <2> SUFFICES ASSUME attempt # NoRow
               PROVE  /\ attempt.version \in 0..LastVersion /\ attempt.version = Len(moves)
                      /\ PlaceOf(attempt) = PlaceAt(attempt.version)
    BY DEF StandsAt
  <2>1. attempt.version <= LastVersion /\ attempt.version \in Nat
    BY <1>1 DEF PracticeIInv, TrueAttempt, AttemptRow
  <2>2. attempt.version = Len(moves) /\ PlaceOf(attempt) = PlaceAt(attempt.version)
    BY DEF PracticeIInv, PracticeInv, NothingIsSkipped, PlaceOf
  <2> QED
    BY <1>2, <2>1, <2>2
<1>4. Recorded(answered, moves)
  BY DEF PracticeIInv, PracticeInv, AnswersCounted, MovesWereAsked, Recorded
<1>5. NoCommand \in TabCommand /\ NoView \in AttemptView /\ NoRow \in AttemptRow
  BY DEF NoCommand, TabCommand, Waiters, NoView, AttemptView, NoRow, AttemptRow, AttemptPhases
<1> QED
  BY <1>1, <1>2, <1>3, <1>4, <1>5

\* What each step has to show: the rows, and the requests and tabs that it changes.
LEMMA PracticeKept ==
  ASSUME PracticeIInv, PracticeTypes', Evolves(attempt, moves, attempt', moves'),
         NothingIsSkipped', MovesWereAsked', AnswersCounted', TrueAttempt', RefusedIsFinal',
         \A w \in Waiters : \/ request'[w] = request[w]
                            \/ TrueRequest(request'[w], attempt', moves'),
         \A t \in Tabs : \/ tab'[t] = tab[t]
                         \/ /\ TrueView(tab'[t].view, attempt', moves')
                            /\ TrueCommand(tab'[t].pending, attempt')
  PROVE  PracticeIInv'
<1>1. /\ StandsAt(attempt, moves) /\ attempt \in AttemptRow /\ moves \in Seq(TabCommand)
      /\ attempt' \in AttemptRow /\ moves' \in Seq(TabCommand)
  BY PracticeStands DEF PracticeTypes
<1>2. /\ \A view \in AttemptView : TrueView(view, attempt, moves) => TrueView(view, attempt', moves')
      /\ \A c \in TabCommand : TrueCommand(c, attempt) => TrueCommand(c, attempt')
      /\ \A r \in TabRequest : TrueRequest(r, attempt, moves) => TrueRequest(r, attempt', moves')
  BY <1>1, StaysTrue
<1>3. \A w \in Waiters : TrueRequest(request'[w], attempt', moves')
  <2>1. \A w \in Waiters : request[w] \in TabRequest /\ TrueRequest(request[w], attempt, moves)
    BY DEF PracticeIInv, PracticeTypes
  <2> QED
    BY <1>2, <2>1
<1>4. \A t \in Tabs : /\ TrueView(tab'[t].view, attempt', moves')
                      /\ TrueCommand(tab'[t].pending, attempt')
  <2>1. \A t \in Tabs : /\ tab[t].view \in AttemptView /\ tab[t].pending \in TabCommand
                        /\ TrueView(tab[t].view, attempt, moves)
                        /\ TrueCommand(tab[t].pending, attempt)
    BY DEF PracticeIInv, PracticeTypes, TrueTabs
  <2> QED
    BY <1>2, <2>1
<1>5. ShownWasTrue'
  BY <1>4 DEF ShownWasTrue, TrueView, PlaceOf
<1>6. AcknowledgedIsApplied'
  <2>1. Tabs \subseteq Waiters
    BY DEF Waiters
  <2> QED
    BY <1>3, <2>1 DEF AcknowledgedIsApplied, TrueRequest, TrueToItsWord
<1>7. TrueTabs'
  BY <1>4 DEF TrueTabs
<1> QED
  BY <1>3, <1>5, <1>6, <1>7 DEF PracticeIInv, PracticeInv

\* A step of a tab, or of the server, that changes no row.
LEMMA PracticeQuiet ==
  ASSUME PracticeIInv, UNCHANGED rowVars,
         tab' \in [Tabs -> [view : AttemptView, pending : TabCommand, unsure : BOOLEAN,
                            token : BOOLEAN]],
         request' \in [Waiters -> TabRequest], issued' \in [Tabs -> Nat], refused' \in TabCommand,
         clock' \in Nat, shut' \in {"no", "revoked", "closed"},
         refused' = refused \/ (refused'.expected < Len(moves) /\ refused' \notin ToSet(moves)),
         \A w \in Waiters : \/ request'[w] = request[w]
                            \/ TrueRequest(request'[w], attempt, moves),
         \A t \in Tabs : \/ tab'[t] = tab[t]
                         \/ /\ TrueView(tab'[t].view, attempt, moves)
                            /\ TrueCommand(tab'[t].pending, attempt)
  PROVE  PracticeIInv'
<1>1. attempt' = attempt /\ answered' = answered /\ receipts' = receipts /\ moves' = moves
  BY DEF rowVars
<1>2. PracticeTypes'
  BY <1>1 DEF PracticeIInv, PracticeTypes
<1>3. Evolves(attempt, moves, attempt', moves')
  <2>1. attempt.version <= attempt.version /\ Len(moves) <= Len(moves)
    BY PracticeStands DEF AttemptRow
  <2> QED
    BY <1>1, <2>1 DEF Evolves
<1>4. NothingIsSkipped' /\ MovesWereAsked' /\ AnswersCounted'
  BY <1>1 DEF PracticeIInv, PracticeInv, NothingIsSkipped, MovesWereAsked, AnswersCounted
<1>5. TrueAttempt' /\ RefusedIsFinal'
  BY <1>1 DEF PracticeIInv, PracticeInv, TrueAttempt, RefusedIsFinal
<1> QED
  BY <1>1, <1>2, <1>3, <1>4, <1>5, PracticeKept

\* A command, or the end of its time, takes the attempt to its next version.
LEMMA AttemptMoves ==
  ASSUME PracticeIInv, attempt # NoRow, UNCHANGED << tabVars, shut, clock >>,
         request' \in [Waiters -> TabRequest],
         NEW by \in TabCommand, moves' = Append(moves, by), attempt' \in AttemptRow,
         attempt'.version = attempt.version + 1, attempt'.version <= LastVersion,
         PlaceOf(attempt') = PlaceAt(attempt'.version), attempt'.phase # "none",
         by # NoCommand =>
            /\ by.expected = attempt.version
            /\ by.action = IF PlaceAt(attempt.version).phase = "question_open"
                           THEN "answer" ELSE "advance",
         by = NoCommand => PlaceAt(attempt.version).phase = "question_open",
         \/ answered' = answered /\ by.action # "answer"
         \/ /\ by.action = "answer"
            /\ \E at \in Nat, due \in Nat :
                  /\ due # 0 => at <= due
                  /\ answered' = answered \cup {[question |-> PlaceAt(attempt.version).index,
                                                 command |-> by, at |-> at, due |-> due]},
         receipts' = receipts \/ (by # NoCommand /\ receipts' = receipts \cup {by}),
         \A w \in Waiters : \/ request'[w] = request[w]
                            \/ TrueRequest(request'[w], attempt', moves')
  PROVE  PracticeIInv'
<1> DEFINE n == Len(moves)
<1>1. /\ attempt.version = n /\ n \in 0..LastVersion /\ n \in Nat /\ DOMAIN moves = 1..n
      /\ moves \in Seq(TabCommand) /\ attempt \in AttemptRow /\ LastVersion \in Nat
      /\ Recorded(answered, moves)
  BY PracticeStands DEF StandsAt
<1>2. /\ moves' \in Seq(TabCommand) /\ Len(moves') = n + 1 /\ moves'[n + 1] = by
      /\ \A i \in 1..n : moves'[i] = moves[i]
  <2>1. moves' \in Seq(TabCommand) /\ Len(moves') = n + 1
    BY <1>1, AppendProperties
  <2>2. moves'[n + 1] = by
    BY <1>1, AppendProperties
  <2>3. \A i \in 1..n : moves'[i] = moves[i]
    BY <1>1, AppendProperties
  <2> QED
    BY <2>1, <2>2, <2>3
<1>3. DOMAIN moves' = 1..(n + 1)
  BY <1>2, LenProperties
<1> HIDE DEF n
<1>4. /\ \A v \in 1..(n + 1) : v = n + 1 \/ v \in 1..n
      /\ \A v \in 1..n : v \in 1..(n + 1)
      /\ n + 1 \in 1..(n + 1) /\ (n + 1) - 1 = n /\ n < n + 1 /\ n <= n + 1
  BY <1>1
<1>5. attempt' # NoRow /\ attempt'.version = n + 1
  BY <1>1 DEF NoRow
<1>6. PracticeTypes'
  <2>1. answered' \subseteq [question : Nat, command : TabCommand, at : Nat, due : Nat]
    <3>1. answered \subseteq [question : Nat, command : TabCommand, at : Nat, due : Nat]
      BY DEF PracticeIInv, PracticeTypes
    <3>2. PlaceAt(attempt.version).index \in Nat
      BY <1>1, PlaceType
    <3> QED
      BY <3>1, <3>2
  <2>2. receipts' \subseteq TabCommand
    BY DEF PracticeIInv, PracticeTypes
  <2> QED
    BY <1>2, <2>1, <2>2 DEF PracticeIInv, PracticeTypes, tabVars
<1>7. Evolves(attempt, moves, attempt', moves')
  <2>1. Len(moves) = n /\ attempt.version <= attempt'.version /\ attempt'.version # attempt.version
    <3>1. Len(moves) = n
      BY DEF n
    <3> QED
      BY <3>1, <1>1, <1>4, <1>5
  <2> QED
    BY <1>2, <1>4, <1>5, <2>1 DEF Evolves
<1>8. NothingIsSkipped'
  BY <1>2, <1>5 DEF NothingIsSkipped, PlaceOf
<1>9. MovesWereAsked'
  <2>1. ASSUME NEW v \in DOMAIN moves'
        PROVE  /\ moves'[v] # NoCommand =>
                     /\ moves'[v].expected = v - 1
                     /\ moves'[v].action = IF PlaceAt(v - 1).phase = "question_open"
                                           THEN "answer" ELSE "advance"
               /\ moves'[v] = NoCommand => PlaceAt(v - 1).phase = "question_open"
    <3>1. CASE v = n + 1
      BY <3>1, <1>1, <1>2, <1>4
    <3>2. CASE v \in 1..n
      BY <3>2, <1>1, <1>2 DEF PracticeIInv, PracticeInv, MovesWereAsked
    <3> QED
      BY <3>1, <3>2, <1>3, <1>4
  <2> QED
    BY <2>1 DEF MovesWereAsked
<1>10. AnswersCounted'
  <2>1. \A a \in answered' : a.due # 0 => a.at <= a.due
    BY DEF PracticeIInv, PracticeInv, AnswersCounted
  <2> DEFINE Pairs(given) == {<< a.question, a.command >> : a \in given}
             old == {<< PlaceAt(v - 1).index, moves[v] >> :
                        v \in {u \in DOMAIN moves : moves[u].action = "answer"}}
             new == {<< PlaceAt(v - 1).index, moves'[v] >> :
                        v \in {u \in DOMAIN moves' : moves'[u].action = "answer"}}
             more == IF by.action = "answer" THEN {<< PlaceAt(n).index, by >>} ELSE {}
  <2>2. Pairs(answered) = old
    BY <1>1 DEF Recorded
  <2>3. Pairs(answered') = Pairs(answered) \cup more
    <3>1. CASE answered' = answered /\ by.action # "answer"
      BY <3>1
    <3>2. CASE by.action = "answer"
      <4>1. PICK at \in Nat, due \in Nat :
               answered' = answered \cup {[question |-> PlaceAt(attempt.version).index,
                                           command |-> by, at |-> at, due |-> due]}
        BY <3>2
      <4> DEFINE a == [question |-> PlaceAt(n).index, command |-> by, at |-> at, due |-> due]
      <4>2. answered' = answered \cup {a} /\ a.question = PlaceAt(n).index /\ a.command = by
        BY <4>1, <1>1
      <4> HIDE DEF a
      <4>3. more = {<< a.question, a.command >>}
        BY <3>2, <4>2
      <4> HIDE DEF more
      <4> QED
        BY <4>2, <4>3
    <3> QED
      BY <3>1, <3>2
  <2>4. new = old \cup more
    <3>1. ASSUME NEW v \in DOMAIN moves', moves'[v].action = "answer"
          PROVE  << PlaceAt(v - 1).index, moves'[v] >> \in old \cup more
      <4>1. CASE v = n + 1
        BY <3>1, <4>1, <1>2, <1>4
      <4>2. CASE v \in 1..n
        BY <3>1, <4>2, <1>1, <1>2
      <4> QED
        BY <4>1, <4>2, <1>3, <1>4
    <3>2. ASSUME NEW v \in DOMAIN moves, moves[v].action = "answer"
          PROVE  << PlaceAt(v - 1).index, moves[v] >> \in new
      BY <3>2, <1>1, <1>2, <1>3, <1>4
    <3>3. ASSUME by.action = "answer" PROVE << PlaceAt(n).index, by >> \in new
      <4>1. /\ n + 1 \in DOMAIN moves' /\ moves'[n + 1].action = "answer"
            /\ << PlaceAt((n + 1) - 1).index, moves'[n + 1] >> = << PlaceAt(n).index, by >>
        BY <3>3, <1>2, <1>3, <1>4
      <4> QED
        BY <4>1
    <3>4. new \subseteq old \cup more
      <4> HIDE DEF old, more
      <4> QED
        BY <3>1
    <3>5. old \subseteq new
      <4> HIDE DEF new
      <4> QED
        BY <3>2
    <3>6. more \subseteq new
      <4> HIDE DEF new
      <4> QED
        BY <3>3
    <3> HIDE DEF new, old, more
    <3> QED
      BY <3>4, <3>5, <3>6
  <2> QED
    BY <2>1, <2>2, <2>3, <2>4 DEF AnswersCounted
<1>11. TrueAttempt'
  <2>1. \A c \in receipts' : Done(c, moves')
    <3>1. \A c \in receipts : Done(c, moves')
      <4>1. \A c \in receipts : c \in TabCommand /\ Done(c, moves)
        BY DEF PracticeIInv, PracticeTypes, TrueAttempt
      <4> QED
        BY <4>1, <1>1, <1>2, <1>7, StaysTrue, PracticeStands
    <3>2. by # NoCommand => Done(by, moves')
      BY <1>1, <1>2, <1>4 DEF Done
    <3> QED
      BY <3>1, <3>2
  <2>2. refused' # NoCommand => refused'.expected < Len(moves')
    <3>1. refused' = refused /\ refused \in TabCommand
      BY DEF tabVars, PracticeIInv, PracticeTypes
    <3>2. refused.expected \in Nat
      BY <3>1 DEF TabCommand
    <3>3. refused # NoCommand => refused.expected < n
      BY DEF PracticeIInv, TrueAttempt, n
    <3> QED
      BY <3>1, <3>2, <3>3, <1>1, <1>2
  <2> QED
    BY <2>1, <2>2, <1>5 DEF TrueAttempt
<1>12. RefusedIsFinal'
  <2> SUFFICES ASSUME refused' # NoCommand PROVE refused' \notin ToSet(moves')
    BY DEF RefusedIsFinal
  <2>1. /\ refused' = refused /\ refused.expected < n /\ \A v \in 1..n : moves[v] # refused
        /\ refused.expected \in Nat
    BY <1>1 DEF tabVars, PracticeIInv, PracticeInv, PracticeTypes, TrueAttempt, RefusedIsFinal,
       ToSet, n, TabCommand
  <2>2. by # refused
    BY <2>1, <1>1
  <2> QED
    BY <2>1, <2>2, <1>2, <1>3, <1>4 DEF ToSet
<1>13. \A t \in Tabs : tab'[t] = tab[t]
  BY DEF tabVars
<1> QED
  BY <1>6, <1>7, <1>8, <1>9, <1>10, <1>11, <1>12, <1>13, PracticeKept
LEMMA StaysAsItIs ==
  ASSUME PracticeIInv
  PROVE  Evolves(attempt, moves, attempt, moves)
<1>1. attempt.version <= attempt.version /\ Len(moves) <= Len(moves)
  BY PracticeStands DEF AttemptRow
<1> QED
  BY <1>1 DEF Evolves

LEMMA NothingAsked ==
  NoRequest \in TabRequest /\ \A row, done : TrueRequest(NoRequest, row, done)
BY DEF NoRequest, TabRequest, NoCommand, TabCommand, Waiters, NoRow, AttemptRow, AttemptPhases,
   NoView, AttemptView, TrueRequest, TrueCommand, TrueView

\* A reply that is true of the attempt as the step leaves it.
LEMMA RepliesTrue ==
  ASSUME PracticeIInv, NEW w \in Waiters,
         NEW status \in {"none", "ok", "stale", "closed", "unauthorized"},
         NEW view \in AttemptView, Replies(w, status, view),
         NEW row \in AttemptRow, NEW done \in Seq(TabCommand),
         Evolves(attempt, moves, row, done), TrueView(view, row, done),
         request[w].command # NoCommand =>
            /\ status = "ok" => TrueToItsWord(request[w].command, done)
            /\ status = "stale" => request[w].command.expected < row.version
  PROVE  /\ request' \in [Waiters -> TabRequest]
         /\ \A x \in Waiters : request'[x] = request[x] \/ TrueRequest(request'[x], row, done)
<1> DEFINE r == request[w]
<1>1. request \in [Waiters -> TabRequest] /\ r \in TabRequest /\ TrueRequest(r, attempt, moves)
  BY DEF PracticeIInv, PracticeTypes
<1>2. TrueRequest(r, row, done)
  BY <1>1, PracticeStands, StaysTrue
<1>3. CASE w = Unheard
  <2>1. request' = [request EXCEPT ![w] = NoRequest]
    BY <1>3 DEF Replies
  <2> QED
    BY <1>1, <2>1, NothingAsked
<1>4. CASE w # Unheard
  <2> DEFINE s == [r EXCEPT !.stage = "over", !.row = NoRow, !.at = 0, !.status = status,
                            !.view = view]
  <2>1. request' = [request EXCEPT ![w] = s]
    BY <1>4 DEF Replies
  <2> HIDE DEF r
  <2>2. NoRow \in AttemptRow
    BY PracticeStands
  <2>3. s \in TabRequest
    BY <1>1, <2>2 DEF TabRequest
  <2>4. /\ s.kind = r.kind /\ s.command = r.command /\ s.stage = "over"
        /\ s.status = status /\ s.view = view
    BY <1>1 DEF TabRequest
  <2> HIDE DEF s
  <2>5. TrueRequest(s, row, done)
    BY <1>2, <2>4 DEF TrueRequest, r
  <2> QED
    BY <1>1, <2>1, <2>3, <2>5
<1> QED
  BY <1>3, <1>4

\* A request goes on with what it has read.
LEMMA GoesTrue ==
  ASSUME PracticeIInv, NEW w \in Waiters, NEW stage \in {"create", "reveal", "move", "readback"},
         NEW read \in AttemptRow, Goes(w, stage, read),
         NEW row \in AttemptRow, NEW done \in Seq(TabCommand),
         Evolves(attempt, moves, row, done),
         stage = "create" => request[w].command = NoCommand,
         stage \in {"reveal", "move"} =>
            /\ read = row /\ row # NoRow
            /\ request[w].command # NoCommand => request[w].command.expected = row.version,
         stage = "reveal" => row.phase = "question_open",
         stage = "move" =>
            \/ /\ request[w].kind = "answer" /\ row.phase = "question_open"
               /\ row.due # 0 => request[w].at <= row.due
            \/ request[w].kind = "advance" /\ row.phase \in {"answer_reveal", "intervention"},
         stage = "readback" => request[w].command # NoCommand /\ Done(request[w].command, done)
  PROVE  /\ request' \in [Waiters -> TabRequest]
         /\ \A x \in Waiters : request'[x] = request[x] \/ TrueRequest(request'[x], row, done)
<1> DEFINE r == request[w]
           at == IF stage = "readback" THEN 0 ELSE r.at
<1>1. request \in [Waiters -> TabRequest] /\ r \in TabRequest /\ TrueRequest(r, attempt, moves)
  BY DEF PracticeIInv, PracticeTypes
<1>2. TrueRequest(r, row, done)
  BY <1>1, PracticeStands, StaysTrue
<1> DEFINE s == [r EXCEPT !.stage = stage, !.row = read,
                          !.at = at]
<1>3. request' = [request EXCEPT ![w] = s]
  BY DEF Goes
<1> HIDE DEF r
<1>4. at \in Nat
  BY <1>1 DEF TabRequest
<1>5. s \in TabRequest
  BY <1>1, <1>4 DEF TabRequest
<1>6. /\ s.kind = r.kind /\ s.command = r.command /\ s.stage = stage
      /\ s.row = read /\ s.view = r.view /\ s.at = at
  BY <1>1 DEF TabRequest
<1> HIDE DEF s
<1>7. stage \in {"reveal", "move"} => row.version <= row.version
  BY DEF AttemptRow
<1>8. stage = "move" => s.at = request[w].at
  BY <1>6 DEF at, r
<1>9. TrueRequest(s, row, done)
  BY <1>2, <1>6, <1>7, <1>8 DEF TrueRequest, r
<1> QED
  BY <1>1, <1>3, <1>5, <1>9

\* A step of the server that changes no row and leaves the tabs alone.
LEMMA ServedQuietly ==
  ASSUME PracticeIInv, UNCHANGED << rowVars, tabVars, shut, clock >>,
         request' \in [Waiters -> TabRequest],
         \A x \in Waiters : request'[x] = request[x] \/ TrueRequest(request'[x], attempt, moves)
  PROVE  PracticeIInv'
<1>1. tab' = tab /\ issued' = issued /\ refused' = refused /\ UNCHANGED rowVars
  BY DEF tabVars
<1>2. /\ tab' \in [Tabs -> [view : AttemptView, pending : TabCommand, unsure : BOOLEAN,
                            token : BOOLEAN]]
      /\ issued' \in [Tabs -> Nat] /\ refused' \in TabCommand
      /\ clock' \in Nat /\ shut' \in {"no", "revoked", "closed"}
  BY <1>1 DEF PracticeIInv, PracticeTypes
<1> QED
  BY <1>1, <1>2, PracticeQuiet

LEMMA SnapshotNow ==
  ASSUME PracticeIInv
  PROVE  Snapshot(attempt) \in AttemptView /\ TrueView(Snapshot(attempt), attempt, moves)
BY SnapshotIsTrue, PracticeStands DEF PracticeIInv, PracticeTypes

\* A command that was applied or has a receipt is done.
LEMMA AppliedIsDone ==
  ASSUME PracticeIInv, NEW c \in TabCommand, Applied(c) \/ c \in receipts
  PROVE  c # NoCommand => Done(c, moves)
<1>1. CASE c \in receipts
  BY <1>1 DEF PracticeIInv, TrueAttempt
<1>2. CASE Applied(c)
  <2>1. PICK a \in answered : a.command = c
    BY <1>2 DEF Applied
  <2>2. << a.question, a.command >> \in
           {<< PlaceAt(v - 1).index, moves[v] >> :
               v \in {u \in DOMAIN moves : moves[u].action = "answer"}}
    BY PracticeStands DEF Recorded
  <2>3. PICK v \in DOMAIN moves : moves[v] = c
    BY <2>1, <2>2
  <2>4. c # NoCommand => c.expected = v - 1
    BY <2>3, PracticeStands DEF Recorded
  <2>5. v \in 1..Len(moves) /\ Len(moves) \in Nat
    BY PracticeStands
  <2>6. v - 1 < Len(moves) /\ (v - 1) + 1 = v
    BY <2>5
  <2> QED
    BY <2>3, <2>4, <2>6 DEF Done
<1> QED
  BY <1>1, <1>2

LEMMA ReadsInv ==
  ASSUME PracticeIInv, NEW w \in Waiters, Reads(w)
  PROVE  PracticeIInv'
<1> DEFINE r == request[w]
           command == r.command
           mayMove == IF r.kind = "answer" THEN attempt.phase = "question_open"
                      ELSE attempt.phase \in {"answer_reveal", "intervention"}
           fine == /\ request' \in [Waiters -> TabRequest]
                   /\ \A x \in Waiters : \/ request'[x] = request[x]
                                         \/ TrueRequest(request'[x], attempt, moves)
<1>1. /\ r \in TabRequest /\ TrueRequest(r, attempt, moves) /\ command \in TabCommand
      /\ r.stage = "sent" /\ r.kind # "none"
  BY DEF PracticeIInv, PracticeTypes, TabRequest, TrueRequest, Reads
<1>2. /\ attempt \in AttemptRow /\ moves \in Seq(TabCommand) /\ StandsAt(attempt, moves)
      /\ NoView \in AttemptView /\ NoRow \in AttemptRow
      /\ Evolves(attempt, moves, attempt, moves) /\ TrueView(NoView, attempt, moves)
      /\ Snapshot(attempt) \in AttemptView /\ TrueView(Snapshot(attempt), attempt, moves)
  BY PracticeStands, StaysAsItIs, SnapshotNow DEF TrueView
<1>3. /\ r.kind \in {"answer", "advance"} => command # NoCommand /\ command.action = r.kind
      /\ r.kind \in {"start", "resume"} => command = NoCommand
      /\ r.kind \in {"start", "resume", "answer", "advance"}
  BY <1>1 DEF TrueRequest, TabRequest
<1>4. UNCHANGED << rowVars, tabVars, shut, clock >>
  BY DEF Reads
<1>5. CASE shut # "no"
  <2>1. Replies(w, Shutout, NoView) /\ Shutout \in {"unauthorized", "closed"}
    BY <1>5 DEF Reads, Shutout
  <2>2. fine
    BY <1>2, <2>1, RepliesTrue
  <2> QED
    BY <1>4, <2>2, ServedQuietly
<1>6. CASE shut = "no" /\ r.kind = "start"
  <2>1. Goes(w, "create", NoRow)
    BY <1>6 DEF Reads
  <2>2. fine
    BY <1>2, <1>3, <1>6, <2>1, GoesTrue
  <2> QED
    BY <1>4, <2>2, ServedQuietly
<1>7. CASE shut = "no" /\ r.kind = "resume"
  <2>1. CASE TimedOut(attempt, r.at)
    <3>1. Goes(w, "reveal", attempt)
      BY <1>7, <2>1 DEF Reads
    <3>2. attempt.phase = "question_open" /\ attempt # NoRow
      BY <2>1 DEF TimedOut, NoRow
    <3>3. fine
      BY <1>2, <1>3, <1>7, <3>1, <3>2, GoesTrue
    <3> QED
      BY <1>4, <3>3, ServedQuietly
  <2>2. CASE ~TimedOut(attempt, r.at)
    <3>1. Replies(w, "ok", Snapshot(attempt))
      BY <1>7, <2>2 DEF Reads
    <3>2. fine
      BY <1>2, <1>3, <1>7, <3>1, RepliesTrue
    <3> QED
      BY <1>4, <3>2, ServedQuietly
  <2> QED
    BY <2>1, <2>2
<1>8. CASE shut = "no" /\ r.kind \in {"answer", "advance"}
  <2>1. /\ command # NoCommand /\ command.action = r.kind
        /\ attempt # NoRow /\ command.expected <= attempt.version
        /\ PlaceAt(command.expected).phase # "completed"
        /\ command.action = IF PlaceAt(command.expected).phase = "question_open"
                            THEN "answer" ELSE "advance"
    BY <1>1, <1>3, <1>8 DEF TrueRequest, TrueCommand
  <2>2. CASE Applied(command) \/ command \in receipts
    <3>1. Goes(w, "readback", NoRow)
      BY <1>8, <2>2 DEF Reads
    <3>2. Done(command, moves)
      BY <1>1, <2>1, <2>2, AppliedIsDone
    <3>3. fine
      BY <1>2, <2>1, <3>1, <3>2, GoesTrue
    <3> QED
      BY <1>4, <3>3, ServedQuietly
  <2>3. CASE ~(Applied(command) \/ command \in receipts) /\ command.expected # attempt.version
    <3>1. Replies(w, "stale", NoView)
      BY <1>8, <2>3 DEF Reads
    <3>2. command.expected < attempt.version
      BY <1>1, <1>2, <2>1, <2>3 DEF TabCommand, AttemptRow
    <3>3. fine
      BY <1>2, <3>1, <3>2, RepliesTrue
    <3> QED
      BY <1>4, <3>3, ServedQuietly
  <2>4. CASE /\ ~(Applied(command) \/ command \in receipts) /\ command.expected = attempt.version
             /\ TimedOut(attempt, r.at)
    <3>1. Goes(w, "reveal", attempt)
      BY <1>8, <2>4 DEF Reads
    <3>2. attempt.phase = "question_open"
      BY <2>4 DEF TimedOut
    <3>3. fine
      BY <1>2, <2>1, <2>4, <3>1, <3>2, GoesTrue
    <3> QED
      BY <1>4, <3>3, ServedQuietly
  <2>5. CASE /\ ~(Applied(command) \/ command \in receipts) /\ command.expected = attempt.version
             /\ ~TimedOut(attempt, r.at)
    <3>1. attempt.phase = PlaceAt(command.expected).phase /\ attempt.version \in 0..LastVersion
      BY <1>2, <2>1, <2>5 DEF StandsAt, PlaceOf
    <3>2. attempt.phase \in {"question_open", "answer_reveal", "intervention"}
      BY <2>1, <3>1 DEF PlaceAt
    <3>3. mayMove
      BY <2>1, <3>1, <3>2
    <3>4. Goes(w, "move", attempt)
      BY <1>8, <2>5, <3>3 DEF Reads
    <3>5. attempt.phase = "question_open" /\ attempt.due # 0 => r.at <= attempt.due
      <4>1. r.at \in Nat /\ attempt.due \in Nat
        BY <1>1, <1>2 DEF TabRequest, AttemptRow
      <4> QED
        BY <2>5, <4>1 DEF TimedOut
    <3>6. \/ /\ r.kind = "answer" /\ attempt.phase = "question_open"
             /\ attempt.due # 0 => r.at <= attempt.due
          \/ r.kind = "advance" /\ attempt.phase \in {"answer_reveal", "intervention"}
      BY <1>8, <3>3, <3>5
    <3>7. fine
      BY <1>2, <2>1, <2>5, <3>4, <3>6, GoesTrue
    <3> QED
      BY <1>4, <3>7, ServedQuietly
  <2> QED
    BY <2>2, <2>3, <2>4, <2>5
<1> QED
  BY <1>3, <1>5, <1>6, <1>7, <1>8 DEF PracticeIInv, PracticeTypes
\* The request of a step, and the row it has read.
LEMMA AtWork ==
  ASSUME PracticeIInv, NEW w \in Waiters
  PROVE  /\ request[w] \in TabRequest /\ TrueRequest(request[w], attempt, moves)
         /\ request[w].command \in TabCommand /\ request[w].command.expected \in Nat
         /\ request[w].row \in AttemptRow /\ request[w].at \in Nat
         /\ request[w].stage \in {"reveal", "move"} =>
               /\ attempt # NoRow /\ request[w].row.version <= attempt.version
               /\ SameVersion(request[w].row) => request[w].row = attempt
               /\ ~SameVersion(request[w].row) => request[w].row.version < attempt.version
               /\ request[w].command # NoCommand =>
                     request[w].command.expected = request[w].row.version
<1>1. request[w] \in TabRequest /\ TrueRequest(request[w], attempt, moves)
  BY DEF PracticeIInv, PracticeTypes
<1>2. /\ request[w].command \in TabCommand /\ request[w].command.expected \in Nat
      /\ request[w].row \in AttemptRow /\ request[w].at \in Nat
  BY <1>1 DEF TabRequest, TabCommand
<1>3. request[w].row.version \in Nat /\ attempt.version \in Nat
  BY <1>2, PracticeStands DEF AttemptRow
<1>4. ASSUME request[w].stage \in {"reveal", "move"}
      PROVE  /\ attempt # NoRow /\ request[w].row.version <= attempt.version
             /\ request[w].row.version = attempt.version => request[w].row = attempt
             /\ request[w].command # NoCommand =>
                   request[w].command.expected = request[w].row.version
  BY <1>1, <1>4 DEF TrueRequest
<1> QED
  BY <1>1, <1>2, <1>3, <1>4 DEF SameVersion

LEMMA CreatesInv ==
  ASSUME PracticeIInv, NEW w \in Waiters, Creates(w)
  PROVE  PracticeIInv'
<1> DEFINE fresh == [NoRow EXCEPT !.phase = "question_open", !.index = 1,
                                  !.due = Deadline(request[w].at)]
<1>1. /\ attempt' = IF attempt = NoRow THEN fresh ELSE attempt
      /\ Replies(w, "ok", Snapshot(attempt')) /\ request[w].command = NoCommand
      /\ UNCHANGED << answered, receipts, moves, tabVars, shut, clock >>
  BY AtWork DEF Creates, TrueRequest
<1>2. /\ attempt \in AttemptRow /\ moves \in Seq(TabCommand) /\ StandsAt(attempt, moves)
      /\ Recorded(answered, moves) /\ LastVersion \in Nat
      /\ answered \subseteq [question : Nat, command : TabCommand, at : Nat, due : Nat]
  BY PracticeStands DEF PracticeIInv, PracticeTypes
<1>3. CASE attempt # NoRow
  <2>1. attempt' = attempt
    BY <1>1, <1>3
  <2>2. /\ request' \in [Waiters -> TabRequest]
        /\ \A x \in Waiters : request'[x] = request[x] \/ TrueRequest(request'[x], attempt, moves)
    BY <1>1, <1>2, <2>1, SnapshotNow, StaysAsItIs, RepliesTrue
  <2>3. UNCHANGED rowVars
    BY <1>1, <2>1 DEF rowVars
  <2> QED
    BY <1>1, <2>2, <2>3, ServedQuietly
<1>4. CASE attempt = NoRow
  <2>1. moves = << >> /\ answered = {} /\ receipts = {}
    BY <1>4 DEF PracticeIInv, TrueAttempt
  <2>2. Deadline(request[w].at) \in Nat
    BY AtWork, PracticeAssumption DEF Deadline
  <2>3. /\ fresh \in AttemptRow /\ fresh.version = 0 /\ fresh.phase = "question_open"
        /\ fresh.index = 1 /\ fresh.card = 0 /\ fresh # NoRow
    BY <2>2 DEF NoRow, AttemptRow, AttemptPhases
  <2>4. attempt' = fresh
    BY <1>1, <1>4
  <2> HIDE DEF fresh
  <2>5. PlaceOf(fresh) = PlaceAt(0) /\ 0 \in 0..LastVersion
    BY <2>3, <1>2 DEF PlaceOf, PlaceAt
  <2>6. Len(moves) = 0
    BY <2>1, EmptySeq
  <2>7. StandsAt(fresh, moves)
    BY <2>3, <2>5, <2>6 DEF StandsAt
  <2>8. Snapshot(fresh) \in AttemptView /\ TrueView(Snapshot(fresh), fresh, moves)
    BY <1>2, <2>3, <2>7, SnapshotIsTrue
  <2>9. Evolves(attempt, moves, fresh, moves)
    BY <1>4, <2>6 DEF Evolves
  <2>10. /\ request' \in [Waiters -> TabRequest]
         /\ \A x \in Waiters : request'[x] = request[x] \/ TrueRequest(request'[x], fresh, moves)
    BY <1>1, <1>2, <2>3, <2>4, <2>8, <2>9, RepliesTrue
  <2>11. PracticeTypes'
    BY <1>1, <2>3, <2>4, <2>10 DEF PracticeIInv, PracticeTypes, tabVars
  <2>12. NothingIsSkipped'
    BY <1>1, <2>3, <2>4, <2>5, <2>6 DEF NothingIsSkipped, PlaceOf
  <2>13. MovesWereAsked' /\ AnswersCounted' /\ RefusedIsFinal'
    BY <1>1 DEF PracticeIInv, PracticeInv, MovesWereAsked, AnswersCounted, RefusedIsFinal, tabVars
  <2>14. TrueAttempt'
    BY <1>1, <1>2, <2>1, <2>3, <2>4 DEF PracticeIInv, TrueAttempt, tabVars
  <2>15. \A t \in Tabs : tab'[t] = tab[t]
    BY <1>1 DEF tabVars
  <2>16. moves' = moves
    BY <1>1
  <2> QED
    BY <2>4, <2>9, <2>10, <2>11, <2>12, <2>13, <2>14, <2>15, <2>16, PracticeKept
<1> QED
  BY <1>3, <1>4

\* The row of the next version, when the question is over.
LEMMA RevealedRow ==
  ASSUME PracticeIInv, attempt # NoRow, attempt.phase = "question_open"
  PROVE  /\ Revealed(attempt) \in AttemptRow /\ Revealed(attempt).version = attempt.version + 1
         /\ Revealed(attempt).phase = "answer_reveal"
         /\ attempt.version \in 0..LastVersion /\ attempt.version + 1 \in 0..LastVersion
         /\ attempt.version + 1 <= LastVersion
         /\ PlaceAt(attempt.version).phase = "question_open"
         /\ PlaceAt(attempt.version).index = attempt.index
         /\ PlaceOf(Revealed(attempt)) = PlaceAt(attempt.version + 1)
<1>1. /\ attempt \in AttemptRow /\ attempt.version \in 0..LastVersion
      /\ PlaceOf(attempt) = PlaceAt(attempt.version)
  BY PracticeStands DEF StandsAt
<1>2. /\ PlaceAt(attempt.version).phase = "question_open"
      /\ PlaceAt(attempt.version).index = attempt.index
      /\ PlaceAt(attempt.version).card = attempt.card
  BY <1>1 DEF PlaceOf
<1>3. /\ attempt.version + 1 \in 0..LastVersion
      /\ PlaceAt(attempt.version + 1)
           = [phase |-> "answer_reveal", index |-> attempt.index, card |-> 0]
  BY <1>1, <1>2, QuestionPlaces
<1>4. attempt.card = 0
  <2>1. PICK q \in 1..Questions : attempt.version = QuestionVersion(q)
    BY <1>1, <1>2, OpenPlace
  <2> QED
    BY <1>1, <1>2, <2>1, OpenPlace
<1>5. Revealed(attempt) = [attempt EXCEPT !.phase = "answer_reveal",
                                          !.version = attempt.version + 1]
  BY <1>1 DEF Revealed, AttemptRow
<1>6. /\ Revealed(attempt) \in AttemptRow /\ Revealed(attempt).version = attempt.version + 1
      /\ Revealed(attempt).phase = "answer_reveal" /\ Revealed(attempt).index = attempt.index
      /\ Revealed(attempt).card = attempt.card
  <2>1. /\ attempt.version + 1 \in Nat /\ "answer_reveal" \in AttemptPhases
        /\ attempt \in AttemptRow
    BY <1>1 DEF AttemptRow, AttemptPhases
  <2>2. Revealed(attempt) \in AttemptRow
    BY <1>5, <2>1 DEF AttemptRow
  <2>3. /\ Revealed(attempt).version = attempt.version + 1
        /\ Revealed(attempt).phase = "answer_reveal" /\ Revealed(attempt).index = attempt.index
        /\ Revealed(attempt).card = attempt.card
    BY <1>5, <2>1 DEF AttemptRow
  <2> QED
    BY <2>2, <2>3
<1>7. LastVersion \in Nat
  BY PracticeStands
<1> QED
  BY <1>1, <1>2, <1>3, <1>4, <1>6, <1>7 DEF PlaceOf

\* What a move makes of the rest: it evolves the attempt, and its command is done.
LEMMA MoveIsDone ==
  ASSUME PracticeIInv, attempt # NoRow, NEW by \in TabCommand,
         NEW row \in AttemptRow, row.version = attempt.version + 1, row.version <= LastVersion,
         PlaceOf(row) = PlaceAt(row.version), row # NoRow
  PROVE  /\ Append(moves, by) \in Seq(TabCommand)
         /\ Evolves(attempt, moves, row, Append(moves, by))
         /\ StandsAt(row, Append(moves, by))
         /\ by.expected = attempt.version => Done(by, Append(moves, by))
         /\ \A c \in TabCommand :
               c.expected = attempt.version => /\ c.expected < Len(Append(moves, by))
                                               /\ Append(moves, by)[c.expected + 1] = by
<1> DEFINE n == Len(moves)
           longer == Append(moves, by)
<1>1. /\ attempt.version = n /\ n \in Nat /\ moves \in Seq(TabCommand) /\ LastVersion \in Nat
      /\ attempt \in AttemptRow
  BY PracticeStands DEF StandsAt
<1>2. longer \in Seq(TabCommand) /\ Len(longer) = n + 1
  BY <1>1, AppendProperties
<1>3. longer[n + 1] = by
  BY <1>1, AppendProperties
<1>4. \A i \in 1..n : longer[i] = moves[i]
  BY <1>1, AppendProperties
<1> HIDE DEF longer
<1>5. Len(moves) = n
  OBVIOUS
<1> HIDE DEF n
<1>6. row.version = n + 1 /\ n < n + 1 /\ n <= n + 1 /\ n # n + 1 /\ n + 1 \in 0..LastVersion
  BY <1>1
<1>7. Evolves(attempt, moves, row, longer)
  BY <1>1, <1>2, <1>4, <1>5, <1>6 DEF Evolves
<1>8. StandsAt(row, longer)
  BY <1>2, <1>6 DEF StandsAt
<1>9. \A c \in TabCommand :
         c.expected = attempt.version => c.expected < Len(longer) /\ longer[c.expected + 1] = by
  BY <1>1, <1>2, <1>3, <1>6
<1> QED
  BY <1>2, <1>7, <1>8, <1>9 DEF Done, longer

LEMMA RevealsInv ==
  ASSUME PracticeIInv, NEW w \in Waiters, Reveals(w)
  PROVE  PracticeIInv'
<1> DEFINE r == request[w]
<1>1. /\ r.stage = "reveal" /\ UNCHANGED << answered, receipts, shut, tabVars, clock >>
      /\ attempt # NoRow /\ r.row.phase = "question_open" /\ TrueRequest(r, attempt, moves)
      /\ r.command \in TabCommand
  BY AtWork DEF Reveals, TrueRequest
<1>2. /\ NoCommand \in TabCommand /\ NoView \in AttemptView /\ attempt \in AttemptRow
      /\ moves \in Seq(TabCommand)
  BY PracticeStands
<1>3. CASE SameVersion(r.row)
  <2>1. r.row = attempt /\ attempt.phase = "question_open"
    BY <1>1, <1>3, AtWork
  <2>2. /\ attempt' = Revealed(attempt) /\ moves' = Append(moves, NoCommand)
        /\ Replies(w, "ok", Snapshot(attempt'))
    BY <1>3, <2>1 DEF Reveals
  <2>3. /\ attempt' \in AttemptRow /\ attempt'.version = attempt.version + 1
        /\ attempt'.phase = "answer_reveal" /\ attempt'.version <= LastVersion
        /\ PlaceOf(attempt') = PlaceAt(attempt'.version) /\ attempt' # NoRow
        /\ PlaceAt(attempt.version).phase = "question_open"
    BY <1>1, <2>1, <2>2, RevealedRow DEF NoRow
  <2>4. /\ moves' \in Seq(TabCommand) /\ Evolves(attempt, moves, attempt', moves')
        /\ StandsAt(attempt', moves')
        /\ \A c \in TabCommand :
              c.expected = attempt.version => /\ c.expected < Len(moves')
                                              /\ moves'[c.expected + 1] = NoCommand
    BY <1>1, <1>2, <2>2, <2>3, MoveIsDone
  <2>5. Recorded(answered, moves')
    <3>1. NoCommand.action = "none"
      BY DEF NoCommand
    <3>2. Recorded(answered, moves) /\ DOMAIN moves = 1..Len(moves) /\ Len(moves) \in Nat
      BY PracticeStands
    <3>3. Len(moves') = Len(moves) + 1
      BY <1>2, <2>2, AppendProperties
    <3>4. /\ moves'[Len(moves) + 1] = NoCommand
          /\ \A v \in 1..Len(moves) : moves'[v] = moves[v]
      <4>1. moves'[Len(moves) + 1] = NoCommand
        BY <1>2, <2>2, AppendProperties
      <4>2. \A v \in 1..Len(moves) : moves'[v] = moves[v]
        BY <1>2, <2>2, AppendProperties
      <4> QED
        BY <4>1, <4>2
    <3>5. DOMAIN moves' = 1..(Len(moves) + 1)
      BY <2>4, <3>3, LenProperties
    <3>6. {u \in DOMAIN moves' : moves'[u].action = "answer"}
            = {u \in DOMAIN moves : moves[u].action = "answer"}
      BY <3>1, <3>2, <3>4, <3>5
    <3>7. {<< PlaceAt(v - 1).index, moves'[v] >> :
              v \in {u \in DOMAIN moves : moves[u].action = "answer"}}
            = {<< PlaceAt(v - 1).index, moves[v] >> :
                  v \in {u \in DOMAIN moves : moves[u].action = "answer"}}
      BY <3>2, <3>4
    <3>8. \A v \in DOMAIN moves' : v \in DOMAIN moves \/ moves'[v] = NoCommand
      BY <3>2, <3>4, <3>5
    <3> QED
      BY <3>2, <3>4, <3>6, <3>7, <3>8 DEF Recorded
  <2>6. Snapshot(attempt') \in AttemptView /\ TrueView(Snapshot(attempt'), attempt', moves')
    <3>1. answered \subseteq [question : Nat, command : TabCommand, at : Nat, due : Nat]
      BY DEF PracticeIInv, PracticeTypes
    <3> QED
      BY <2>3, <2>4, <2>5, <3>1, SnapshotIsTrue
  <2>7. r.command # NoCommand => TrueToItsWord(r.command, moves')
    <3> SUFFICES ASSUME r.command # NoCommand PROVE TrueToItsWord(r.command, moves')
      OBVIOUS
    <3>1. r.command.expected = attempt.version
      BY <1>1, <2>1, AtWork
    <3>2. r.command.action = "answer"
      BY <1>1, <2>3, <3>1 DEF TrueRequest, TrueCommand
    <3> QED
      BY <1>1, <2>4, <3>1, <3>2 DEF TrueToItsWord
  <2>8. /\ request' \in [Waiters -> TabRequest]
        /\ \A x \in Waiters : request'[x] = request[x] \/ TrueRequest(request'[x], attempt', moves')
    BY <2>2, <2>3, <2>4, <2>6, <2>7, RepliesTrue
  <2>9. NoCommand.action # "answer" /\ answered' = answered /\ receipts' = receipts
    BY <1>1 DEF NoCommand
  <2>10. UNCHANGED << tabVars, shut, clock >>
    BY <1>1
  <2>11. attempt'.phase # "none"
    BY <2>3
  <2> QED
    BY <1>1, <1>2, <2>2, <2>3, <2>8, <2>9, <2>10, <2>11, AttemptMoves
<1>4. CASE ~SameVersion(r.row)
  <2>1. Replies(w, "stale", NoView) /\ UNCHANGED << attempt, moves >>
    BY <1>4 DEF Reveals
  <2>2. r.command # NoCommand => r.command.expected < attempt.version
    BY <1>1, <1>4, AtWork
  <2>3. /\ request' \in [Waiters -> TabRequest]
        /\ \A x \in Waiters : request'[x] = request[x] \/ TrueRequest(request'[x], attempt, moves)
    BY <1>2, <2>1, <2>2, StaysAsItIs, RepliesTrue DEF TrueView
  <2>4. UNCHANGED << rowVars, tabVars, shut, clock >>
    BY <1>1, <2>1 DEF rowVars
  <2> QED
    BY <2>3, <2>4, ServedQuietly
<1> QED
  BY <1>3, <1>4
LEMMA AnswersMoveInv ==
  ASSUME PracticeIInv, NEW w \in Waiters, Answers(w)
  PROVE  PracticeIInv'
<1> DEFINE r == request[w]
           command == r.command
           fine == /\ request' \in [Waiters -> TabRequest]
                   /\ \A x \in Waiters : \/ request'[x] = request[x]
                                         \/ TrueRequest(request'[x], attempt, moves)
<1>1. /\ r.stage = "move" /\ r.kind = "answer" /\ TrueRequest(r, attempt, moves)
      /\ UNCHANGED << receipts, shut, tabVars, clock >>
      /\ command \in TabCommand /\ command # NoCommand /\ command.action = "answer"
      /\ attempt # NoRow /\ command.expected = r.row.version
  BY AtWork DEF Answers, TrueRequest
<1>2. /\ NoView \in AttemptView /\ NoRow \in AttemptRow /\ attempt \in AttemptRow
      /\ moves \in Seq(TabCommand)
  BY PracticeStands
<1>3. Evolves(attempt, moves, attempt, moves) /\ TrueView(NoView, attempt, moves)
  BY StaysAsItIs DEF TrueView
<1>4. CASE /\ Applied(command) /\ Goes(w, "readback", NoRow)
           /\ UNCHANGED << attempt, answered, moves >>
  <2>1. Done(command, moves)
    BY <1>1, <1>4, AppliedIsDone
  <2>2. fine
    BY <1>1, <1>2, <1>3, <1>4, <2>1, GoesTrue
  <2>3. UNCHANGED << rowVars, tabVars, shut, clock >>
    BY <1>1, <1>4 DEF rowVars
  <2> QED
    BY <2>2, <2>3, ServedQuietly
<1>5. CASE /\ ~SameVersion(r.row) /\ Replies(w, "stale", NoView)
           /\ UNCHANGED << attempt, answered, moves >>
  <2>1. command.expected < attempt.version
    BY <1>1, <1>5, AtWork
  <2>2. fine
    BY <1>1, <1>2, <1>3, <1>5, <2>1, RepliesTrue
  <2>3. UNCHANGED << rowVars, tabVars, shut, clock >>
    BY <1>1, <1>5 DEF rowVars
  <2> QED
    BY <2>2, <2>3, ServedQuietly
<1> DEFINE answer == [question |-> r.row.index, command |-> command, at |-> r.at,
                      due |-> attempt.due]
<1>6. CASE /\ SameVersion(r.row) /\ attempt' = Revealed(r.row)
           /\ answered' = answered \cup {answer} /\ moves' = Append(moves, command)
           /\ Goes(w, "readback", NoRow)
  <2>1. r.row = attempt /\ command.expected = attempt.version
    BY <1>1, <1>6, AtWork
  <2>2. attempt.due # 0 => r.at <= attempt.due
    BY <1>1, <2>1 DEF TrueRequest
  <2>3. attempt.phase = "question_open"
    BY <1>1, <2>1 DEF TrueRequest
  <2>4. /\ attempt' \in AttemptRow /\ attempt'.version = attempt.version + 1
        /\ attempt'.phase = "answer_reveal" /\ attempt'.version <= LastVersion
        /\ PlaceOf(attempt') = PlaceAt(attempt'.version) /\ attempt' # NoRow
        /\ PlaceAt(attempt.version).phase = "question_open"
        /\ PlaceAt(attempt.version).index = attempt.index
    BY <1>1, <1>6, <2>1, <2>3, RevealedRow DEF NoRow
  <2>5. /\ moves' \in Seq(TabCommand) /\ Evolves(attempt, moves, attempt', moves')
        /\ Done(command, moves')
    BY <1>1, <1>6, <2>1, <2>4, MoveIsDone
  <2>6. /\ request' \in [Waiters -> TabRequest]
        /\ \A x \in Waiters : request'[x] = request[x] \/ TrueRequest(request'[x], attempt', moves')
    BY <1>1, <1>2, <1>6, <2>4, <2>5, GoesTrue
  <2>7. /\ r.at \in Nat /\ attempt.due \in Nat
        /\ attempt.due # 0 => r.at <= attempt.due
    <3>1. r.at \in Nat
      BY AtWork
    <3>2. attempt.due \in Nat
      BY <1>2 DEF AttemptRow
    <3> QED
      BY <2>2, <2>3, <3>1, <3>2
  <2>8. \E at \in Nat, due \in Nat :
           /\ due # 0 => at <= due
           /\ answered' = answered \cup {[question |-> PlaceAt(attempt.version).index,
                                          command |-> command, at |-> at, due |-> due]}
    <3>1. answer = [question |-> PlaceAt(attempt.version).index, command |-> command,
                    at |-> r.at, due |-> attempt.due]
      BY <2>1, <2>4
    <3> HIDE DEF answer, command, r
    <3> QED
      BY <1>6, <2>7, <3>1
  <2>9. UNCHANGED << tabVars, shut, clock >> /\ receipts' = receipts
    BY <1>1
  <2>10. /\ attempt'.phase # "none" /\ moves' = Append(moves, command)
         /\ command.action = IF PlaceAt(attempt.version).phase = "question_open"
                             THEN "answer" ELSE "advance"
    BY <1>1, <1>6, <2>4
  <2> HIDE DEF command
  <2> QED
    BY <1>1, <2>1, <2>4, <2>6, <2>8, <2>9, <2>10, AttemptMoves
<1> QED
  BY <1>1, <1>4, <1>5, <1>6 DEF Answers

LEMMA AdvancedType ==
  ASSUME NEW row \in AttemptRow, NEW at \in Nat
  PROVE  /\ Advanced(row, at) \in AttemptRow
         /\ Advanced(row, at).phase \in {"completed", "intervention", "question_open"}
<1> DEFINE enters == Cards > 0 /\ row.phase = "answer_reveal" /\ row.index = 1
           card == IF enters THEN 1
                   ELSE IF row.phase = "intervention" /\ row.card < Cards THEN row.card + 1 ELSE 0
           last == card = 0 /\ row.index = Questions
<1>1. row.version + 1 \in Nat /\ row.index \in Nat /\ row.index + 1 \in Nat /\ row.card \in Nat
  BY DEF AttemptRow
<1>2. Deadline(at) \in Nat
  BY PracticeAssumption DEF Deadline
<1>3. card \in Nat
  BY <1>1
<1>4. Advanced(row, at) = [version |-> row.version + 1,
        phase |-> IF last THEN "completed"
                  ELSE IF card # 0 THEN "intervention" ELSE "question_open",
        index |-> IF last \/ card # 0 THEN row.index ELSE row.index + 1,
        card |-> card,
        due |-> IF last \/ card # 0 THEN 0 ELSE Deadline(at)]
  BY DEF Advanced
<1> HIDE DEF last, card
<1> QED
  BY <1>1, <1>2, <1>3, <1>4 DEF AttemptRow, AttemptPhases

LEMMA AdvancesInv ==
  ASSUME PracticeIInv, NEW w \in Waiters, Advances(w)
  PROVE  PracticeIInv'
<1> DEFINE r == request[w]
           command == r.command
           status == IF shut = "revoked" THEN "unauthorized"
                     ELSE IF command \notin receipts THEN "stale"
                     ELSE IF shut = "closed" THEN "closed" ELSE "ok"
<1>1. /\ r.stage = "move" /\ r.kind = "advance" /\ TrueRequest(r, attempt, moves)
      /\ UNCHANGED << answered, shut, tabVars, clock >>
      /\ command \in TabCommand /\ command # NoCommand /\ command.action = "advance"
      /\ attempt # NoRow /\ command.expected = r.row.version /\ r.at \in Nat
      /\ r.row.phase \in {"answer_reveal", "intervention"}
  BY AtWork DEF Advances, TrueRequest
<1>2. /\ NoView \in AttemptView /\ NoRow \in AttemptRow /\ attempt \in AttemptRow
      /\ moves \in Seq(TabCommand) /\ Len(moves) \in Nat
  BY PracticeStands
<1>3. Evolves(attempt, moves, attempt, moves) /\ TrueView(NoView, attempt, moves)
  BY StaysAsItIs DEF TrueView
<1>4. CASE ~(SameVersion(r.row) /\ command \notin receipts)
  <2> DEFINE view == IF status = "ok" THEN Snapshot(attempt) ELSE NoView
  <2>1. Replies(w, status, view) /\ UNCHANGED << attempt, receipts, moves >>
    BY <1>4 DEF Advances
  <2>2. view \in AttemptView /\ TrueView(view, attempt, moves)
    BY <1>2, <1>3, SnapshotNow
  <2>3. status = "ok" => TrueToItsWord(command, moves)
    <3> SUFFICES ASSUME command \in receipts PROVE TrueToItsWord(command, moves)
      OBVIOUS
    <3>1. Done(command, moves)
      BY <1>1, AppliedIsDone
    <3> QED
      BY <3>1 DEF Done, TrueToItsWord
  <2>4. status = "stale" => command.expected < attempt.version
    BY <1>1, <1>4, AtWork
  <2>5. status \in {"none", "ok", "stale", "closed", "unauthorized"}
    OBVIOUS
  <2> HIDE DEF status, view
  <2>6. /\ request' \in [Waiters -> TabRequest]
        /\ \A x \in Waiters : request'[x] = request[x] \/ TrueRequest(request'[x], attempt, moves)
    BY <1>2, <1>3, <2>1, <2>2, <2>3, <2>4, <2>5, RepliesTrue
  <2>7. UNCHANGED << rowVars, tabVars, shut, clock >>
    BY <1>1, <2>1 DEF rowVars
  <2> QED
    BY <2>6, <2>7, ServedQuietly
<1>5. CASE SameVersion(r.row) /\ command \notin receipts
  <2>1. r.row = attempt /\ command.expected = attempt.version
    BY <1>1, <1>5, AtWork
  <2>2. /\ attempt' = Advanced(attempt, r.at) /\ receipts' = receipts \cup {command}
        /\ moves' = Append(moves, command) /\ Goes(w, "readback", NoRow)
    BY <1>5, <2>1 DEF Advances
  <2>3. /\ attempt.version \in 0..LastVersion /\ PlaceOf(attempt) = PlaceAt(attempt.version)
        /\ attempt.phase \in {"answer_reveal", "intervention"}
    BY <1>1, <2>1, PracticeStands DEF StandsAt
  <2>4. /\ attempt' \in AttemptRow /\ attempt'.version = attempt.version + 1
        /\ attempt'.phase # "none" /\ attempt'.version <= LastVersion
        /\ PlaceOf(attempt') = PlaceAt(attempt'.version) /\ attempt' # NoRow
    <3>1. /\ attempt.version + 1 \in 0..LastVersion
          /\ Advanced(attempt, r.at).version = attempt.version + 1
          /\ PlaceOf(Advanced(attempt, r.at)) = PlaceAt(attempt.version + 1)
      BY <1>2, <2>3, AdvancedPlace
    <3>2. /\ Advanced(attempt, r.at) \in AttemptRow
          /\ Advanced(attempt, r.at).phase \in {"completed", "intervention", "question_open"}
      BY <1>1, <1>2, AdvancedType
    <3>3. LastVersion \in Nat /\ attempt.version + 1 <= LastVersion
      BY <3>1, PracticeStands
    <3>4. attempt' # NoRow
      BY <2>2, <3>2 DEF NoRow
    <3> QED
      BY <2>2, <3>1, <3>2, <3>3, <3>4
  <2>5. PlaceAt(attempt.version).phase # "question_open"
    BY <2>3 DEF PlaceOf
  <2>6. /\ moves' \in Seq(TabCommand) /\ Evolves(attempt, moves, attempt', moves')
        /\ Done(command, moves')
    BY <1>1, <2>1, <2>2, <2>4, MoveIsDone
  <2>7. /\ request' \in [Waiters -> TabRequest]
        /\ \A x \in Waiters : request'[x] = request[x] \/ TrueRequest(request'[x], attempt', moves')
    BY <1>1, <1>2, <2>2, <2>4, <2>6, GoesTrue
  <2>8. UNCHANGED << tabVars, shut, clock >> /\ answered' = answered
    BY <1>1
  <2>9. command.action = IF PlaceAt(attempt.version).phase = "question_open"
                         THEN "answer" ELSE "advance"
    BY <1>1, <2>5
  <2> HIDE DEF command
  <2> QED
    BY <1>1, <2>1, <2>2, <2>4, <2>7, <2>8, <2>9, AttemptMoves
<1> QED
  BY <1>4, <1>5

LEMMA ReadsBackInv ==
  ASSUME PracticeIInv, NEW w \in Waiters, ReadsBack(w)
  PROVE  PracticeIInv'
<1> DEFINE r == request[w]
<1>1. /\ r.stage = "readback" /\ TrueRequest(r, attempt, moves)
      /\ UNCHANGED << rowVars, shut, tabVars, clock >>
  BY AtWork DEF ReadsBack
<1>2. /\ NoView \in AttemptView /\ attempt \in AttemptRow /\ moves \in Seq(TabCommand)
  BY PracticeStands
<1>3. Evolves(attempt, moves, attempt, moves) /\ TrueView(NoView, attempt, moves)
  BY StaysAsItIs DEF TrueView
<1>4. TrueToItsWord(r.command, moves)
  BY <1>1 DEF TrueRequest, Done, TrueToItsWord
<1>5. /\ request' \in [Waiters -> TabRequest]
      /\ \A x \in Waiters : request'[x] = request[x] \/ TrueRequest(request'[x], attempt, moves)
  <2>1. CASE shut # "no"
    <3>1. Replies(w, Shutout, NoView) /\ Shutout \in {"closed", "unauthorized"}
      BY <2>1 DEF ReadsBack, Shutout
    <3> HIDE DEF r
    <3> QED
      BY <1>2, <1>3, <3>1, RepliesTrue
  <2>2. CASE shut = "no"
    <3>1. Replies(w, "ok", Snapshot(attempt))
      BY <2>2 DEF ReadsBack
    <3> QED
      BY <1>2, <1>3, <1>4, <3>1, SnapshotNow, RepliesTrue
  <2> QED
    BY <2>1, <2>2
<1> QED
  BY <1>1, <1>5, ServedQuietly
\* The server's steps.
LEMMA ServesInv ==
  ASSUME PracticeIInv, NEW w \in Waiters, Serves(w)
  PROVE  PracticeIInv'
BY ReadsInv, CreatesInv, RevealsInv, AnswersMoveInv, AdvancesInv, ReadsBackInv DEF Serves

LEMMA ShutInv ==
  ASSUME PracticeIInv, NEW how \in {"revoked", "closed"}, Shut(how)
  PROVE  PracticeIInv'
<1>1. /\ UNCHANGED rowVars /\ tab' = tab /\ issued' = issued /\ refused' = refused
      /\ request' = request /\ clock' = clock /\ shut' = how
  BY DEF Shut, tabVars
<1>2. /\ tab \in [Tabs -> [view : AttemptView, pending : TabCommand, unsure : BOOLEAN,
                           token : BOOLEAN]]
      /\ request \in [Waiters -> TabRequest] /\ issued \in [Tabs -> Nat] /\ refused \in TabCommand
      /\ clock \in Nat
  BY DEF PracticeIInv, PracticeTypes
<1> QED
  BY <1>1, <1>2, PracticeQuiet

LEMMA TicksInv ==
  ASSUME PracticeIInv, Ticks
  PROVE  PracticeIInv'
<1>1. /\ UNCHANGED rowVars /\ tab' = tab /\ issued' = issued /\ refused' = refused
      /\ request' = request /\ clock' = clock + 1 /\ shut' = shut
  BY DEF Ticks, tabVars
<1>2. /\ tab \in [Tabs -> [view : AttemptView, pending : TabCommand, unsure : BOOLEAN,
                           token : BOOLEAN]]
      /\ request \in [Waiters -> TabRequest] /\ issued \in [Tabs -> Nat] /\ refused \in TabCommand
      /\ clock + 1 \in Nat /\ shut \in {"no", "revoked", "closed"}
  BY DEF PracticeIInv, PracticeTypes
<1> QED
  BY <1>1, <1>2, PracticeQuiet

\* What a tab asks is of the attempt it has seen.
LEMMA SentIsTrue ==
  ASSUME PracticeIInv, NEW kind \in {"start", "resume", "answer", "advance"},
         NEW command \in TabCommand, TrueCommand(command, attempt),
         kind \in {"answer", "advance"} => command # NoCommand /\ command.action = kind,
         kind \notin {"answer", "advance"} => command = NoCommand
  PROVE  /\ Sent(kind, command) \in TabRequest
         /\ TrueRequest(Sent(kind, command), attempt, moves)
<1> DEFINE s == Sent(kind, command)
<1>1. NoRequest \in TabRequest /\ clock \in Nat
  BY NothingAsked DEF PracticeIInv, PracticeTypes
<1>2. s \in TabRequest
  BY <1>1 DEF Sent, TabRequest
<1>3. /\ s.kind = kind /\ s.command = command /\ s.stage = "sent" /\ s.view = NoView
  BY <1>1 DEF Sent, NoRequest
<1> HIDE DEF s
<1>4. TrueRequest(s, attempt, moves)
  BY <1>3 DEF TrueRequest, TrueView
<1> QED
  BY <1>2, <1>4 DEF s

\* A tab's question, with what its tab keeps of it.
LEMMA AsksInv ==
  ASSUME PracticeIInv, NEW t \in Tabs, NEW kind \in {"start", "resume", "answer", "advance"},
         NEW command \in TabCommand, TrueCommand(command, attempt), Asks(t, kind, command),
         kind \in {"answer", "advance"} => command # NoCommand /\ command.action = kind,
         kind \notin {"answer", "advance"} => command = NoCommand,
         refused' = refused, issued' \in [Tabs -> Nat],
         tab' \in [Tabs -> [view : AttemptView, pending : TabCommand, unsure : BOOLEAN,
                            token : BOOLEAN]],
         \A x \in Tabs : \/ tab'[x] = tab[x]
                         \/ /\ TrueView(tab'[x].view, attempt, moves)
                            /\ TrueCommand(tab'[x].pending, attempt)
  PROVE  PracticeIInv'
<1>1. /\ request' = [request EXCEPT ![t] = Sent(kind, command)]
      /\ UNCHANGED rowVars /\ shut' = shut /\ clock' = clock
  BY DEF Asks
<1>2. /\ Sent(kind, command) \in TabRequest
      /\ TrueRequest(Sent(kind, command), attempt, moves)
  BY SentIsTrue
<1>3. /\ request \in [Waiters -> TabRequest] /\ t \in Waiters /\ refused \in TabCommand
      /\ clock \in Nat /\ shut \in {"no", "revoked", "closed"}
  BY DEF PracticeIInv, PracticeTypes, Waiters
<1>4. /\ request' \in [Waiters -> TabRequest]
      /\ \A w \in Waiters : \/ request'[w] = request[w]
                            \/ TrueRequest(request'[w], attempt, moves)
  BY <1>1, <1>2, <1>3
<1> QED
  BY <1>1, <1>3, <1>4, PracticeQuiet

LEMMA OpensOrResyncsInv ==
  ASSUME PracticeIInv, NEW t \in Tabs, Opens(t) \/ Resyncs(t)
  PROVE  PracticeIInv'
<1>1. PICK kind \in {"start", "resume"} : Asks(t, kind, NoCommand) /\ UNCHANGED tabVars
  BY DEF Opens, Resyncs
<1>2. tab' = tab /\ issued' = issued /\ refused' = refused
  BY <1>1 DEF tabVars
<1>3. /\ issued \in [Tabs -> Nat] /\ NoCommand \in TabCommand /\ TrueCommand(NoCommand, attempt)
      /\ tab \in [Tabs -> [view : AttemptView, pending : TabCommand, unsure : BOOLEAN,
                           token : BOOLEAN]]
  BY PracticeStands DEF PracticeIInv, PracticeTypes, TrueCommand
<1> QED
  BY <1>1, <1>2, <1>3, AsksInv

LEMMA RetriesInv ==
  ASSUME PracticeIInv, NEW t \in Tabs, Retries(t)
  PROVE  PracticeIInv'
<1> DEFINE command == tab[t].pending
<1>1. /\ command # NoCommand /\ Asks(t, command.action, command)
      /\ tab' = tab /\ issued' = issued /\ refused' = refused
  BY DEF Retries, tabVars
<1>2. /\ issued \in [Tabs -> Nat] /\ command \in TabCommand /\ TrueCommand(command, attempt)
      /\ tab \in [Tabs -> [view : AttemptView, pending : TabCommand, unsure : BOOLEAN,
                           token : BOOLEAN]]
  BY DEF PracticeIInv, PracticeTypes, TrueTabs
<1>3. command.action \in {"answer", "advance"}
  BY <1>1, <1>2 DEF TrueCommand
<1> HIDE DEF command
<1> QED
  BY <1>1, <1>2, <1>3, AsksInv

LEMMA CommandsInv ==
  ASSUME PracticeIInv, NEW t \in Tabs, Commands(t)
  PROVE  PracticeIInv'
<1> DEFINE view == tab[t].view
           action == IF view.phase = "question_open" THEN "answer" ELSE "advance"
           command == [tab |-> t, n |-> issued[t] + 1, action |-> action,
                       expected |-> view.version]
           rows == [view : AttemptView, pending : TabCommand, unsure : BOOLEAN, token : BOOLEAN]
<1>1. /\ view.phase \notin {"none", "completed"} /\ Asks(t, action, command)
      /\ tab' = [tab EXCEPT ![t].pending = command]
      /\ issued' = [issued EXCEPT ![t] = @ + 1] /\ refused' = refused
  BY DEF Commands
<1>2. /\ tab \in [Tabs -> rows] /\ issued \in [Tabs -> Nat] /\ view \in AttemptView
      /\ TrueView(view, attempt, moves)
  BY DEF PracticeIInv, PracticeTypes, TrueTabs
<1>3. view # NoView
  BY <1>1 DEF NoView
<1>4. /\ attempt # NoRow /\ view.version <= attempt.version
      /\ PlaceAt(view.version).phase = view.phase
  BY <1>2, <1>3 DEF TrueView, PlaceOf
<1>5. /\ command \in TabCommand /\ command.action = action /\ command.expected = view.version
      /\ action \in {"answer", "advance"} /\ command # NoCommand
  <2>1. view.version \in Nat /\ issued[t] + 1 \in Nat /\ t \in Waiters
    BY <1>2 DEF AttemptView, Waiters
  <2>2. action \in {"answer", "advance"}
    OBVIOUS
  <2> HIDE DEF view, action
  <2> QED
    BY <2>1, <2>2 DEF TabCommand, NoCommand
<1>6. TrueCommand(command, attempt)
  BY <1>1, <1>4, <1>5 DEF TrueCommand
<1> HIDE DEF command, action
<1>7. tab' = [tab EXCEPT ![t] = [tab[t] EXCEPT !.pending = command]]
  BY <1>1, <1>2
<1>8. /\ [tab[t] EXCEPT !.pending = command] \in rows
      /\ [tab[t] EXCEPT !.pending = command].view = view
      /\ [tab[t] EXCEPT !.pending = command].pending = command
  BY <1>2, <1>5
<1>9. tab' \in [Tabs -> rows] /\ issued' \in [Tabs -> Nat]
  BY <1>1, <1>2, <1>7, <1>8
<1>10. \A x \in Tabs : \/ tab'[x] = tab[x]
                       \/ /\ TrueView(tab'[x].view, attempt, moves)
                          /\ TrueCommand(tab'[x].pending, attempt)
  BY <1>2, <1>6, <1>7, <1>8
<1> QED
  BY <1>1, <1>5, <1>6, <1>9, <1>10, AsksInv
\* What a tab takes of a reply is what the reply shows, and was true.
LEMMA AdoptsTrue ==
  ASSUME PracticeIInv, NEW t \in Tabs,
         NEW view \in AttemptView, TrueView(view, attempt, moves)
  PROVE  /\ Adopts(t, view) \in [view : AttemptView, pending : TabCommand, unsure : BOOLEAN,
                                 token : BOOLEAN]
         /\ TrueView(Adopts(t, view).view, attempt, moves)
         /\ Adopts(t, view).pending = tab[t].pending
<1> DEFINE rows == [view : AttemptView, pending : TabCommand, unsure : BOOLEAN, token : BOOLEAN]
<1>1. tab[t] \in rows /\ TrueView(tab[t].view, attempt, moves)
  BY DEF PracticeIInv, PracticeTypes, TrueTabs
<1> DEFINE taken == [tab[t] EXCEPT !.view = view, !.unsure = FALSE, !.token = TRUE]
<1>2. taken \in rows /\ taken.view = view /\ taken.pending = tab[t].pending
  BY <1>1
<1>3. Adopts(t, view) = taken \/ Adopts(t, view) = tab[t]
  BY DEF Adopts
<1> HIDE DEF taken
<1> QED
  BY <1>1, <1>2, <1>3

LEMMA ReceivesInv ==
  ASSUME PracticeIInv, NEW t \in Tabs, Receives(t)
  PROVE  PracticeIInv'
<1> DEFINE r == request[t]
           rows == [view : AttemptView, pending : TabCommand, unsure : BOOLEAN, token : BOOLEAN]
           tabsFine == /\ tab' \in [Tabs -> rows]
                       /\ \A x \in Tabs : \/ tab'[x] = tab[x]
                                          \/ /\ TrueView(tab'[x].view, attempt, moves)
                                             /\ TrueCommand(tab'[x].pending, attempt)
           asksFine == /\ request' \in [Waiters -> TabRequest]
                       /\ \A w \in Waiters : \/ request'[w] = request[w]
                                             \/ TrueRequest(request'[w], attempt, moves)
           refusedFine == /\ refused' \in TabCommand
                          /\ \/ refused' = refused
                             \/ refused'.expected < Len(moves) /\ refused' \notin ToSet(moves)
<1>1. /\ r.stage = "over" /\ UNCHANGED << rowVars, shut, issued, clock >>
  BY DEF Receives
<1>2. /\ tab \in [Tabs -> rows] /\ request \in [Waiters -> TabRequest] /\ t \in Waiters
      /\ issued \in [Tabs -> Nat] /\ refused \in TabCommand /\ clock \in Nat
      /\ shut \in {"no", "revoked", "closed"} /\ r \in TabRequest
      /\ r.command \in TabCommand /\ r.view \in AttemptView
      /\ TrueRequest(r, attempt, moves) /\ TrueView(r.view, attempt, moves)
      /\ TrueView(tab[t].view, attempt, moves) /\ TrueCommand(tab[t].pending, attempt)
  <2>1. /\ tab \in [Tabs -> rows] /\ request \in [Waiters -> TabRequest] /\ t \in Waiters
        /\ issued \in [Tabs -> Nat] /\ refused \in TabCommand /\ clock \in Nat
        /\ shut \in {"no", "revoked", "closed"}
    BY DEF PracticeIInv, PracticeTypes, Waiters
  <2>2. r \in TabRequest /\ TrueRequest(r, attempt, moves)
    BY <2>1 DEF PracticeIInv
  <2>3. r.command \in TabCommand /\ r.view \in AttemptView
    BY <2>2 DEF TabRequest
  <2>4. TrueView(r.view, attempt, moves)
    BY <2>2 DEF TrueRequest
  <2>5. TrueView(tab[t].view, attempt, moves) /\ TrueCommand(tab[t].pending, attempt)
    BY DEF PracticeIInv, TrueTabs
  <2> QED
    BY <2>1, <2>2, <2>3, <2>4, <2>5
<1>3. /\ NoCommand \in TabCommand /\ TrueCommand(NoCommand, attempt)
      /\ attempt \in AttemptRow /\ StandsAt(attempt, moves)
  BY PracticeStands DEF TrueCommand
<1>4. tabsFine /\ asksFine /\ refusedFine
  <2>1. CASE r.status = "ok"
    <3> DEFINE adopted == Adopts(t, r.view)
               settled == [adopted EXCEPT !.pending = NoCommand]
               new == IF r.command # NoCommand THEN settled ELSE adopted
    <3>1. /\ tab' = [tab EXCEPT ![t] = new]
          /\ request' = [request EXCEPT ![t] = NoRequest] /\ refused' = refused
      BY <2>1 DEF Receives
    <3>2. /\ adopted \in rows /\ TrueView(adopted.view, attempt, moves)
          /\ adopted.pending = tab[t].pending
      BY <1>2, AdoptsTrue
    <3> HIDE DEF adopted
    <3>3. settled \in rows /\ settled.view = adopted.view /\ settled.pending = NoCommand
      BY <1>3, <3>2
    <3> HIDE DEF settled
    <3>4. /\ new \in rows /\ TrueView(new.view, attempt, moves)
          /\ TrueCommand(new.pending, attempt)
      BY <1>2, <1>3, <3>2, <3>3
    <3> HIDE DEF new
    <3>5. tabsFine
      BY <1>2, <3>1, <3>4
    <3>6. asksFine
      BY <1>2, <3>1, NothingAsked
    <3> QED
      BY <1>2, <3>1, <3>5, <3>6
  <2>2. CASE r.status # "ok" /\ r.command # NoCommand /\ r.status \in {"stale", "closed"}
    <3> DEFINE new == [tab[t] EXCEPT !.pending = NoCommand, !.unsure = TRUE]
    <3>1. /\ tab' = [tab EXCEPT ![t] = new]
          /\ request' = [request EXCEPT ![t] = Sent("resume", NoCommand)]
          /\ refused' = refused \/ (refused' = r.command /\ r.status = "stale"
                                      /\ r.command \notin ToSet(moves))
      BY <2>2 DEF Receives
    <3>2. new \in rows /\ new.view = tab[t].view /\ new.pending = NoCommand
      BY <1>2, <1>3
    <3> HIDE DEF new
    <3>3. tabsFine
      BY <1>2, <1>3, <3>1, <3>2
    <3>4. /\ Sent("resume", NoCommand) \in TabRequest
          /\ TrueRequest(Sent("resume", NoCommand), attempt, moves)
      BY <1>3, SentIsTrue
    <3>5. asksFine
      BY <1>2, <3>1, <3>4
    <3>6. refusedFine
      <4>1. CASE r.status = "stale"
        <5>1. r.command.expected < attempt.version /\ attempt # NoRow
          BY <1>1, <1>2, <2>2, <4>1 DEF TrueRequest, TrueCommand
        <5>2. r.command.expected < Len(moves)
          BY <1>3, <5>1 DEF StandsAt
        <5> QED
          BY <1>2, <3>1, <5>2
      <4>2. CASE r.status # "stale"
        BY <1>2, <3>1, <4>2
      <4> QED
        BY <4>1, <4>2
    <3> QED
      BY <3>3, <3>5, <3>6
  <2>3. CASE r.status # "ok" /\ ~(r.command # NoCommand /\ r.status \in {"stale", "closed"})
    <3>1. /\ request' = [request EXCEPT ![t] = NoRequest] /\ tab' = tab /\ refused' = refused
      BY <2>3 DEF Receives
    <3>2. asksFine
      BY <1>2, <3>1, NothingAsked
    <3> QED
      BY <1>2, <3>1, <3>2
  <2> QED
    BY <2>1, <2>2, <2>3
<1> QED
  BY <1>1, <1>2, <1>4, PracticeQuiet

\* A request given up goes on for nobody, or is gone.
LEMMA AbandonsTrue ==
  ASSUME PracticeIInv, NEW t \in Tabs, Abandons(t)
  PROVE  /\ request' \in [Waiters -> TabRequest]
         /\ \A w \in Waiters : \/ request'[w] = request[w]
                               \/ TrueRequest(request'[w], attempt, moves)
<1>1. /\ request \in [Waiters -> TabRequest] /\ t \in Waiters /\ Unheard \in Waiters
      /\ TrueRequest(request[t], attempt, moves) /\ request[t] \in TabRequest
  BY DEF PracticeIInv, PracticeTypes, Waiters
<1>2. CASE request' = [request EXCEPT ![t] = NoRequest]
  BY <1>1, <1>2, NothingAsked
<1>3. CASE request' = [request EXCEPT ![t] = NoRequest, ![Unheard] = request[t]]
  BY <1>1, <1>3, NothingAsked
<1> QED
  BY <1>2, <1>3 DEF Abandons

LEMMA FailsInv ==
  ASSUME PracticeIInv, NEW t \in Tabs, Fails(t)
  PROVE  PracticeIInv'
<1>1. /\ Abandons(t) /\ UNCHANGED rowVars /\ tab' = tab /\ issued' = issued
      /\ refused' = refused /\ clock' = clock /\ shut' = shut
  BY DEF Fails, tabVars
<1>2. /\ tab \in [Tabs -> [view : AttemptView, pending : TabCommand, unsure : BOOLEAN,
                           token : BOOLEAN]]
      /\ issued \in [Tabs -> Nat] /\ refused \in TabCommand
      /\ clock \in Nat /\ shut \in {"no", "revoked", "closed"}
  BY DEF PracticeIInv, PracticeTypes
<1> QED
  BY <1>1, <1>2, AbandonsTrue, PracticeQuiet

LEMMA ReloadsInv ==
  ASSUME PracticeIInv, NEW t \in Tabs, Reloads(t)
  PROVE  PracticeIInv'
<1> DEFINE rows == [view : AttemptView, pending : TabCommand, unsure : BOOLEAN, token : BOOLEAN]
           new == [tab[t] EXCEPT !.view = NoView, !.pending = NoCommand, !.unsure = FALSE]
<1>1. /\ Abandons(t) /\ UNCHANGED rowVars /\ issued' = issued
      /\ refused' = refused /\ clock' = clock /\ shut' = shut
      /\ tab' = [tab EXCEPT ![t] = new]
  BY DEF Reloads
<1>2. /\ tab \in [Tabs -> rows] /\ NoView \in AttemptView /\ NoCommand \in TabCommand
      /\ issued \in [Tabs -> Nat] /\ refused \in TabCommand
      /\ clock \in Nat /\ shut \in {"no", "revoked", "closed"}
  BY PracticeStands DEF PracticeIInv, PracticeTypes
<1>3. new \in rows /\ new.view = NoView /\ new.pending = NoCommand
  BY <1>2
<1> HIDE DEF new
<1>4. tab' \in [Tabs -> rows]
  BY <1>1, <1>2, <1>3
<1>5. \A x \in Tabs : \/ tab'[x] = tab[x]
                      \/ /\ TrueView(tab'[x].view, attempt, moves)
                         /\ TrueCommand(tab'[x].pending, attempt)
  BY <1>1, <1>2, <1>3 DEF TrueView, TrueCommand
<1> QED
  BY <1>1, <1>2, <1>4, <1>5, AbandonsTrue, PracticeQuiet

LEMMA PracticeInitInv == PracticeInit => PracticeIInv
<1> SUFFICES ASSUME PracticeInit PROVE PracticeIInv
  OBVIOUS
<1>1. /\ attempt = NoRow /\ answered = {} /\ receipts = {} /\ moves = <<>> /\ shut = "no"
      /\ tab = [t \in Tabs |-> [view |-> NoView, pending |-> NoCommand, unsure |-> FALSE,
                                token |-> FALSE]]
      /\ issued = [t \in Tabs |-> 0] /\ refused = NoCommand
      /\ request = [w \in Waiters |-> NoRequest] /\ clock = 0
  BY DEF PracticeInit, Waiters
<1>2. NoCommand \in TabCommand /\ NoView \in AttemptView /\ NoRow \in AttemptRow
  BY DEF NoCommand, TabCommand, Waiters, NoView, AttemptView, NoRow, AttemptRow, AttemptPhases
<1>3. NoRequest \in TabRequest /\ TrueRequest(NoRequest, attempt, moves)
  BY NothingAsked
<1>4. PracticeTypes
  BY <1>1, <1>2, <1>3 DEF PracticeTypes
<1>5. TrueAttempt
  BY <1>1 DEF TrueAttempt
<1>6. \A t \in Tabs : tab[t].view = NoView /\ tab[t].pending = NoCommand
  BY <1>1
<1>7. TrueTabs
  BY <1>6 DEF TrueTabs, TrueView, TrueCommand
<1>8. NoRequest.stage = "none"
  BY DEF NoRequest
<1>9. \A w \in Waiters : request[w] = NoRequest
  BY <1>1
<1>10. DOMAIN moves = {}
  BY <1>1
<1>11. NothingIsSkipped /\ MovesWereAsked /\ RefusedIsFinal
  BY <1>1, <1>10 DEF NothingIsSkipped, MovesWereAsked, RefusedIsFinal
<1>12. AnswersCounted
  BY <1>1, <1>10 DEF AnswersCounted
<1>13. ShownWasTrue
  BY <1>6 DEF ShownWasTrue
<1>14. AcknowledgedIsApplied
  BY <1>8, <1>9 DEF AcknowledgedIsApplied, Waiters
<1> QED
  BY <1>3, <1>4, <1>5, <1>7, <1>9, <1>11, <1>12, <1>13, <1>14 DEF PracticeIInv, PracticeInv

LEMMA PracticeStep == PracticeIInv /\ [PracticeNext]_practiceVars => PracticeIInv'
<1> SUFFICES ASSUME PracticeIInv, [PracticeNext]_practiceVars PROVE PracticeIInv'
  OBVIOUS
<1>1. CASE \E w \in Tabs \cup {Unheard} : Serves(w)
  BY <1>1, ServesInv DEF Waiters
<1>2. CASE \E how \in {"revoked", "closed"} : Shut(how)
  BY <1>2, ShutInv
<1>3. CASE Ticks
  BY <1>3, TicksInv
<1>4. ASSUME NEW t \in Tabs, Opens(t) \/ Resyncs(t) PROVE PracticeIInv'
  BY <1>4, OpensOrResyncsInv
<1>5. ASSUME NEW t \in Tabs, Commands(t) PROVE PracticeIInv'
  BY <1>5, CommandsInv
<1>6. ASSUME NEW t \in Tabs, Retries(t) PROVE PracticeIInv'
  BY <1>6, RetriesInv
<1>7. ASSUME NEW t \in Tabs, Receives(t) PROVE PracticeIInv'
  BY <1>7, ReceivesInv
<1>8. ASSUME NEW t \in Tabs, Fails(t) PROVE PracticeIInv'
  BY <1>8, FailsInv
<1>9. ASSUME NEW t \in Tabs, Reloads(t) PROVE PracticeIInv'
  BY <1>9, ReloadsInv
<1>10. CASE UNCHANGED practiceVars
  <2>1. /\ UNCHANGED rowVars /\ tab' = tab /\ request' = request /\ issued' = issued
        /\ refused' = refused /\ clock' = clock /\ shut' = shut
    BY <1>10 DEF practiceVars, tabVars
  <2>2. /\ tab \in [Tabs -> [view : AttemptView, pending : TabCommand, unsure : BOOLEAN,
                             token : BOOLEAN]]
        /\ request \in [Waiters -> TabRequest] /\ issued \in [Tabs -> Nat]
        /\ refused \in TabCommand /\ clock \in Nat /\ shut \in {"no", "revoked", "closed"}
    BY DEF PracticeIInv, PracticeTypes
  <2> QED
    BY <2>1, <2>2, PracticeQuiet
<1> QED
  BY <1>1, <1>2, <1>3, <1>4, <1>5, <1>6, <1>7, <1>8, <1>9, <1>10 DEF PracticeNext

\* However the requests of the tabs interleave with each other, with time, with retries, lost
\* replies and reloads, and with a pass or a practice that is shut: an attempt leaves every
\* version once, in the order of its places, by a command made for that version or by time; its
\* answers are those of the commands that ended their question, and in time; what a tab shows was
\* so; a command a tab is told is done moved the attempt; and a refused one never does.
THEOREM PracticeIsTrue == PracticeSpec => []PracticeInv
<1>1. PracticeIInv => PracticeInv
  BY DEF PracticeIInv
<1> QED
  BY <1>1, PracticeInitInv, PracticeStep, PTL DEF PracticeSpec
-----------------------------------------------------------------------------
(* Deployments *)

Pointers == {Nothing} \cup Builds
OpSteps == {"idle", "locked", "uploading", "deploying", "recovering", "receipt", "failed", "dead"}
Installing == {"installed", "activating", "up", "linked", "committed"}
Restoring == {"restored", "swapping", "swapped"}
NotHolding == {"none", "start", "ok", "failed", "dead"}
ScriptSteps == {"locked"} \cup NotHolding \cup Installing \cup Restoring
OpRow == [at : OpSteps, from : Checkouts \cup {Nobody}, target : Pointers, source : Pointers,
          seen : Pointers, recover : BOOLEAN]
ScriptRow == [at : ScriptSteps, kind : {"none", "deploy", "restore", "deactivate"},
              base : Pointers, replaced : BOOLEAN]

VmTypes ==
    /\ link \in Pointers /\ build \in Pointers /\ prev \in Pointers
    /\ releases \subseteq Builds /\ secrets \subseteq Builds /\ clobbered \subseteq Builds
    /\ incoming \subseteq Deployments /\ running \in {Nothing, Unsure} \cup Builds
    /\ vmLock \in {Nobody, "service"} \cup Deployments /\ alarm \in BOOLEAN

DeployTypes ==
    /\ VmTypes /\ op \in [Deployments -> OpRow] /\ script \in [Deployments -> ScriptRow]
    /\ \A c \in Checkouts : fileLock[c] \in {Nobody} \cup Deployments
    /\ mishaps \in 0..MaxMishaps /\ services \in 0..MaxServices

\* An operator's program and its script: what it checked, and which script it runs.
Fits(o, s) ==
    /\ o.at \in {"idle", "locked", "uploading"} => s = NoScript
    /\ o.at # "idle" => o.target \in Builds
    /\ o.at = "uploading" \/ s.at # "none" =>
          /\ o.target \in Builds
          /\ IF o.source # Nothing THEN o.seen = o.source /\ o.seen # o.target
             ELSE o.seen = Nothing \/ o.seen < o.target
    /\ o.at = "deploying" => s.kind = "deploy"
    /\ s.at \in Installing => s.kind = "deploy"
    /\ s.at \in Restoring => s.kind = "restore"
    /\ s.kind = "restore" => o.seen # Nothing

\* Nothing is under way: the two records agree, nothing else is known to run, and no
\* credentials are left.
Settled == link = build /\ running \in {link, Nothing, Unsure} /\ secrets = {}

\* Where a script stands that holds the lock: what it has changed, and what it may return to.
PointersStand(d) ==
    LET s == script[d]
        target == op[d].target
        seen == op[d].seen
    IN /\ s.at = "locked" => s.base = link
       /\ s.at \in Installing => s.base = seen /\ target \in releases
       /\ s.at \in {"installed", "activating", "up"} => link = seen /\ build = seen
       /\ s.at = "linked" => link = target /\ build = seen
       /\ s.at = "committed" => link = target /\ build = target
       /\ s.at \in {"restored", "swapping"} => seen \in releases
       /\ s.at = "swapped" => link = seen

PreviousStands(d) ==
    LET s == script[d]
        target == op[d].target
        seen == op[d].seen
    IN /\ s.at \in Installing /\ seen = Nothing => prev = Nothing
       /\ s.at \in Installing \ {"committed"} /\ ~s.replaced /\ prev = target =>
             prev \in clobbered
       /\ s.at \in {"up", "linked", "committed"} /\ seen # Nothing => prev = seen

NothingElseRuns(d) ==
    LET s == script[d]
        target == op[d].target
    IN /\ s.at \in {"locked", "installed"} => link = build /\ running \in {link, Nothing, Unsure}
       /\ s.at \in {"up", "linked", "committed"} => running = target
       /\ s.at \in Restoring => running = op[d].seen
       /\ s.at \notin {"installed", "activating"} => secrets = {}
       /\ secrets \subseteq {target}

HolderStage(d) ==
    PointersStand(d) /\ (TakenDown \/ PreviousStands(d)) /\ (alarm \/ NothingElseRuns(d))

DeployIInv ==
    /\ DeployTypes /\ OneScriptAtATime
    /\ \A d \in Deployments : /\ Fits(op[d], script[d])
                              /\ script[d].at = "dead" => alarm
    /\ \A d \in Holders : HolderStage(d)
    /\ OnlyRefusalsRemove
    /\ link = Nothing => prev = Nothing \/ TakenDown
    /\ Holders = {} => alarm \/ Settled

LEMMA DeployIInvIsEnough == DeployIInv => DeployInv
<1> SUFFICES ASSUME DeployIInv PROVE DeployInv
  OBVIOUS
<1>1. TypeOK_Deploy
  BY DEF DeployIInv, DeployTypes, VmTypes, TypeOK_Deploy, Pointers
<1>2. OneScriptAtATime /\ OnlyRefusalsRemove
  BY DEF DeployIInv
<1>3. ActivatesOverWhatItSaw
  <2> SUFFICES ASSUME NEW d \in Holders, script[d].at \in {"installed", "activating", "up", "linked"}
               PROVE  /\ build = op[d].seen /\ script[d].base = build
                      /\ IF IsRollback(d) THEN build = op[d].source ELSE build < op[d].target
    BY DEF ActivatesOverWhatItSaw
  <2>1. d \in Deployments /\ Fits(op[d], script[d]) /\ PointersStand(d)
    BY DEF DeployIInv, Holders, HolderStage
  <2>2. build = op[d].seen /\ script[d].base = build
    BY <2>1 DEF PointersStand, Installing
  <2>3. /\ op[d].target \in Builds
        /\ IF op[d].source # Nothing THEN op[d].seen = op[d].source /\ op[d].seen # op[d].target
           ELSE op[d].seen = Nothing \/ op[d].seen < op[d].target
    BY <2>1 DEF Fits
  <2>4. Nothing < op[d].target
    BY <2>3, DeployAssumption DEF Nothing, Builds
  <2> QED
    BY <2>2, <2>3, <2>4 DEF IsRollback
<1>4. PointersAgree /\ SecretsAreRemoved
  <2> SUFFICES ASSUME vmLock = Nobody, ~alarm PROVE Settled
    BY DEF PointersAgree, SecretsAreRemoved, Settled
  <2>1. Nobody \notin Deployments
    BY DeployAssumption DEF Nobody
  <2>2. Holders = {}
    BY <1>2, <2>1 DEF OneScriptAtATime, Holders
  <2> QED
    BY <2>2 DEF DeployIInv
<1> QED
  BY <1>1, <1>2, <1>3, <1>4 DEF DeployInv

\* A first release that was taken down stays so.
LEMMA StaysDown ==
  ASSUME NEW d \in Deployments, NEW s, script \in [Deployments -> ScriptRow],
         script' = [script EXCEPT ![d] = s],
         s = script[d] \/ script[d].at # "ok" \/ script[d].kind # "deactivate"
  PROVE  TakenDown => TakenDown'
BY DEF TakenDown

\* A step of a script that holds the lock of the VM.
LEMMA HolderStep ==
  ASSUME DeployIInv, NEW d \in Holders, NEW s \in ScriptRow, VmTypes',
         script' = [script EXCEPT ![d] = s], UNCHANGED << op, fileLock, services >>,
         mishaps' \in 0..MaxMishaps, Fits(op[d], s), s.at = "dead" => alarm', alarm => alarm',
         OnlyRefusalsRemove', link' = Nothing => prev' = Nothing \/ TakenDown',
         \/ s.at \notin NotHolding /\ vmLock' = vmLock /\ HolderStage(d)'
         \/ s.at \in NotHolding /\ (alarm' \/ Settled')
  PROVE  DeployIInv'
<1>1. /\ d \in Deployments /\ script \in [Deployments -> ScriptRow] /\ Holders = {d}
      /\ vmLock = d /\ script'[d] = s
      /\ \A e \in Deployments \ {d} : script'[e] = script[e] /\ e \notin Holders
  BY DEF DeployIInv, DeployTypes, OneScriptAtATime, Holders
<1>2. DeployTypes'
  BY <1>1 DEF DeployIInv, DeployTypes
<1>3. Holders' = IF s.at \in NotHolding THEN {} ELSE {d}
  <2>1. \A e \in Deployments : e \in Holders' <=> script'[e].at \notin NotHolding
    BY DEF Holders, NotHolding
  <2>2. \A e \in Deployments : e \in Holders <=> script[e].at \notin NotHolding
    BY DEF Holders, NotHolding
  <2>3. Holders' \subseteq Deployments
    BY DEF Holders
  <2> QED
    BY <1>1, <2>1, <2>2, <2>3
<1>4. OneScriptAtATime'
  BY <1>1, <1>3 DEF OneScriptAtATime
<1>5. \A e \in Deployments : /\ Fits(op'[e], script'[e])
                             /\ script'[e].at = "dead" => alarm'
  BY <1>1 DEF DeployIInv
<1>6. \A e \in Holders' : HolderStage(e)'
  BY <1>3
<1>7. Holders' = {} => alarm' \/ Settled'
  BY <1>3
<1> QED
  BY <1>2, <1>4, <1>5, <1>6, <1>7 DEF DeployIInv

\* A step of an operator's program, which may set a new script going.
LEMMA OperatorStep ==
  ASSUME DeployIInv, NEW d \in Deployments, NEW o \in OpRow, NEW s \in ScriptRow,
         UNCHANGED << link, build, prev, releases, secrets, running, vmLock, clobbered, services >>,
         incoming' \subseteq Deployments, mishaps' \in 0..MaxMishaps, alarm' \in BOOLEAN,
         alarm => alarm',
         \A c \in Checkouts : fileLock'[c] \in {Nobody} \cup Deployments,
         op' = [op EXCEPT ![d] = o], script' = [script EXCEPT ![d] = s], Fits(o, s),
         \/ s = script[d] /\ o.target = op[d].target /\ o.seen = op[d].seen
         \/ /\ script[d].at \in NotHolding /\ s.at \in {"none", "start", "failed"}
            /\ script[d].at # "ok" \/ script[d].kind # "deactivate"
  PROVE  DeployIInv'
<1>1. /\ op \in [Deployments -> OpRow] /\ script \in [Deployments -> ScriptRow]
      /\ script'[d] = s /\ op'[d] = o
      /\ \A e \in Deployments \ {d} : script'[e] = script[e] /\ op'[e] = op[e]
  BY DEF DeployIInv, DeployTypes
<1>2. DeployTypes'
  BY <1>1 DEF DeployIInv, DeployTypes, VmTypes
<1>3. Holders' = Holders
  <2>1. \A e \in Deployments : e \in Holders' <=> script'[e].at \notin NotHolding
    BY DEF Holders, NotHolding
  <2>2. \A e \in Deployments : e \in Holders <=> script[e].at \notin NotHolding
    BY DEF Holders, NotHolding
  <2>3. Holders' \subseteq Deployments /\ Holders \subseteq Deployments
    BY DEF Holders
  <2>4. s.at \in {"none", "start", "failed"} => s.at \in NotHolding
    BY DEF NotHolding
  <2>5. ASSUME NEW e \in Deployments
        PROVE  script'[e].at \notin NotHolding <=> script[e].at \notin NotHolding
    <3>1. CASE e = d
      BY <1>1, <2>4, <3>1
    <3>2. CASE e # d
      BY <1>1, <3>2
    <3> QED
      BY <3>1, <3>2
  <2> QED
    BY <2>1, <2>2, <2>3, <2>5
<1>4. OneScriptAtATime'
  BY <1>3 DEF DeployIInv, OneScriptAtATime
<1>5. \A e \in Deployments : /\ Fits(op'[e], script'[e])
                             /\ script'[e].at = "dead" => alarm'
  BY <1>1 DEF DeployIInv
<1>6. TakenDown => TakenDown'
  BY <1>1, StaysDown
<1>7. ASSUME NEW e \in Holders PROVE HolderStage(e)'
  <2>1. /\ e \in Deployments /\ script'[e] = script[e] /\ op'[e].target = op[e].target
        /\ op'[e].seen = op[e].seen /\ HolderStage(e)
    BY <1>1 DEF DeployIInv, Holders, NotHolding
  <2>2. PointersStand(e)'
    BY <2>1 DEF HolderStage, PointersStand
  <2>3. (TakenDown \/ PreviousStands(e))'
    BY <1>6, <2>1 DEF HolderStage, PreviousStands
  <2>4. (alarm \/ NothingElseRuns(e))'
    BY <2>1 DEF HolderStage, NothingElseRuns
  <2> QED
    BY <2>2, <2>3, <2>4 DEF HolderStage
<1>8. OnlyRefusalsRemove' /\ (link = Nothing => prev = Nothing \/ TakenDown)'
  BY <1>6 DEF DeployIInv, OnlyRefusalsRemove
<1>9. Holders' = {} => alarm' \/ Settled'
  BY <1>3 DEF DeployIInv, Settled
<1> QED
  BY <1>2, <1>3, <1>4, <1>5, <1>7, <1>8, <1>9 DEF DeployIInv

\* A script's next step, with the rest of it as it was.
LEMMA NextStepOf ==
  ASSUME DeployIInv, NEW d \in Deployments, NEW step \in ScriptSteps, At(d, step)
  PROVE  \E s \in ScriptRow :
            /\ script' = [script EXCEPT ![d] = s] /\ s.at = step /\ s.kind = script[d].kind
            /\ s.base = script[d].base /\ s.replaced = script[d].replaced
<1> DEFINE s == [script[d] EXCEPT !.at = step]
<1>1. script \in [Deployments -> ScriptRow] /\ script[d] \in ScriptRow
  BY DEF DeployIInv, DeployTypes
<1>2. script' = [script EXCEPT ![d] = s]
  BY <1>1 DEF At
<1>3. s \in ScriptRow
  BY <1>1 DEF ScriptRow
<1>4. /\ s.at = step /\ s.kind = script[d].kind
      /\ s.base = script[d].base /\ s.replaced = script[d].replaced
  BY <1>1 DEF ScriptRow
<1> HIDE DEF s
<1> QED
  BY <1>2, <1>3, <1>4

LEMMA NextStepOfOp ==
  ASSUME DeployIInv, NEW d \in Deployments, NEW step \in OpSteps, OpAt(d, step)
  PROVE  \E o \in OpRow :
            /\ op' = [op EXCEPT ![d] = o] /\ o.at = step /\ o.target = op[d].target
            /\ o.source = op[d].source /\ o.seen = op[d].seen
<1> DEFINE o == [op[d] EXCEPT !.at = step]
<1>1. op \in [Deployments -> OpRow] /\ op[d] \in OpRow
  BY DEF DeployIInv, DeployTypes
<1>2. op' = [op EXCEPT ![d] = o]
  BY <1>1 DEF OpAt
<1>3. o \in OpRow
  BY <1>1 DEF OpRow
<1>4. /\ o.at = step /\ o.target = op[d].target /\ o.source = op[d].source
      /\ o.seen = op[d].seen
  BY <1>1 DEF OpRow
<1> HIDE DEF o
<1> QED
  BY <1>2, <1>3, <1>4

\* What the invariant says of one deployment.
LEMMA DeploymentStands ==
  ASSUME DeployIInv, NEW d \in Deployments
  PROVE  /\ op[d] \in OpRow /\ script[d] \in ScriptRow /\ Fits(op[d], script[d])
         /\ op[d].target \in Pointers /\ op[d].source \in Pointers /\ op[d].seen \in Pointers
         /\ script[d].base \in Pointers /\ NoScript \in ScriptRow
         /\ script = [script EXCEPT ![d] = script[d]] /\ op = [op EXCEPT ![d] = op[d]]
         /\ VmTypes /\ mishaps \in 0..MaxMishaps /\ MaxMishaps \in Nat
         /\ \A c \in Checkouts : fileLock[c] \in {Nobody} \cup Deployments
<1>1. op \in [Deployments -> OpRow] /\ script \in [Deployments -> ScriptRow]
  BY DEF DeployIInv, DeployTypes
<1>2. op[d] \in OpRow /\ script[d] \in ScriptRow /\ Fits(op[d], script[d])
  BY <1>1 DEF DeployIInv
<1>3. /\ op[d].target \in Pointers /\ op[d].source \in Pointers /\ op[d].seen \in Pointers
      /\ script[d].base \in Pointers
  BY <1>2 DEF OpRow, ScriptRow
<1>4. NoScript \in ScriptRow
  BY DEF NoScript, ScriptRow, ScriptSteps, NotHolding, Pointers
<1>5. script = [script EXCEPT ![d] = script[d]] /\ op = [op EXCEPT ![d] = op[d]]
  BY <1>1
<1>6. /\ VmTypes /\ mishaps \in 0..MaxMishaps /\ MaxMishaps \in Nat
      /\ \A c \in Checkouts : fileLock[c] \in {Nobody} \cup Deployments
  BY DeployAssumption DEF DeployIInv, DeployTypes
<1> QED
  BY <1>2, <1>3, <1>4, <1>5, <1>6

LEMMA BeginInv ==
  ASSUME DeployIInv, NEW d \in Deployments, Begin(d)
  PROVE  DeployIInv'
<1>1. PICK c \in Checkouts, t \in Builds, s \in Builds, rollback \in BOOLEAN,
           recover \in BOOLEAN :
         /\ op[d].at = "idle" /\ (rollback => t < s)
         /\ fileLock' = [fileLock EXCEPT ![c] = d]
         /\ op' = [op EXCEPT ![d] = [at |-> "locked", from |-> c, target |-> t,
                                     source |-> IF rollback THEN s ELSE Nothing,
                                     seen |-> Nothing, recover |-> recover]]
         /\ UNCHANGED << vmVars, script, mishaps, services, alarm, clobbered >>
  BY ZenonT(40) DEF Begin
<1> DEFINE o == [at |-> "locked", from |-> c, target |-> t,
                 source |-> IF rollback THEN s ELSE Nothing,
                 seen |-> Nothing, recover |-> recover]
<1>2. script[d] = NoScript
  BY <1>1, DeploymentStands DEF Fits
<1>3. o \in OpRow /\ Fits(o, NoScript)
  BY DEF OpRow, OpSteps, Pointers, Fits, NoScript, Installing, Restoring
<1>4. op' = [op EXCEPT ![d] = o]
  BY <1>1
<1> HIDE DEF o
<1>5. \A e \in Checkouts : fileLock'[e] \in {Nobody} \cup Deployments
  BY <1>1, DeploymentStands
<1>6. /\ script' = [script EXCEPT ![d] = NoScript] /\ NoScript \in ScriptRow
      /\ script[d].at \in NotHolding /\ script[d].kind # "deactivate"
      /\ NoScript.at \in {"none", "start"}
  BY <1>1, <1>2, DeploymentStands DEF NotHolding, NoScript
<1>7. /\ UNCHANGED << link, build, prev, releases, secrets, running, vmLock, clobbered, services >>
      /\ incoming' \subseteq Deployments /\ mishaps' \in 0..MaxMishaps /\ alarm' \in BOOLEAN
      /\ alarm => alarm'
  BY <1>1, DeploymentStands DEF vmVars, VmTypes
<1> QED
  BY <1>3, <1>4, <1>5, <1>6, <1>7, OperatorStep

\* The lock file goes when the operator's program ends.
LEMMA FileLockGoes ==
  ASSUME DeployIInv, NEW d \in Deployments, NEW outcome, Ends(d, outcome)
  PROVE  \A c \in Checkouts : fileLock'[c] \in {Nobody} \cup Deployments
BY DeploymentStands DEF Ends

LEMMA PreflightInv ==
  ASSUME DeployIInv, NEW d \in Deployments, Preflight(d)
  PROVE  DeployIInv'
<1>1. /\ op[d].at = "locked" /\ script[d] = NoScript /\ op[d].target \in Builds
      /\ UNCHANGED << vmVars, script, mishaps, services, alarm, clobbered >>
      /\ build \in Pointers
  BY DeploymentStands DEF Preflight, Fits, VmTypes
<1>2. PICK o \in OpRow : /\ op' = [op EXCEPT ![d] = o] /\ Fits(o, NoScript)
                         /\ \A c \in Checkouts : fileLock'[c] \in {Nobody} \cup Deployments
  <2>1. CASE MayReplace(d, build)
    <3> DEFINE o == [op[d] EXCEPT !.at = "uploading", !.seen = build]
    <3>1. /\ op' = [op EXCEPT ![d].at = "uploading", ![d].seen = build]
          /\ UNCHANGED fileLock
      BY <2>1 DEF Preflight
    <3>2. op \in [Deployments -> OpRow]
      BY DEF DeployIInv, DeployTypes
    <3>3. op' = [op EXCEPT ![d] = o]
      BY <3>1, <3>2
    <3>4. o \in OpRow
      BY <1>1, DeploymentStands DEF OpRow, OpSteps
    <3>5. /\ o.at = "uploading" /\ o.seen = build /\ o.target = op[d].target
          /\ o.source = op[d].source
      BY DeploymentStands DEF OpRow
    <3> HIDE DEF o
    <3>6. Fits(o, NoScript)
      BY <1>1, <2>1, <3>5 DEF Fits, NoScript, Installing, Restoring, MayReplace, IsRollback
    <3> QED
      BY <3>1, <3>3, <3>4, <3>6, DeploymentStands
  <2>2. CASE ~MayReplace(d, build)
    <3>1. Ends(d, "failed")
      BY <2>2 DEF Preflight
    <3>2. PICK o \in OpRow :
             /\ op' = [op EXCEPT ![d] = o] /\ o.at = "failed" /\ o.target = op[d].target
      BY <3>1, NextStepOfOp DEF Ends, OpSteps
    <3>3. Fits(o, NoScript)
      BY <1>1, <3>2 DEF Fits, NoScript, Installing, Restoring
    <3> QED
      BY <3>1, <3>2, <3>3, FileLockGoes
  <2> QED
    BY <2>1, <2>2
<1>3. /\ script' = [script EXCEPT ![d] = NoScript] /\ NoScript \in ScriptRow
      /\ script[d].at \in NotHolding /\ script[d].kind # "deactivate"
      /\ NoScript.at \in {"none", "start"}
  BY <1>1, DeploymentStands DEF NotHolding, NoScript
<1>4. /\ UNCHANGED << link, build, prev, releases, secrets, running, vmLock, clobbered, services >>
      /\ incoming' \subseteq Deployments /\ mishaps' \in 0..MaxMishaps /\ alarm' \in BOOLEAN
      /\ alarm => alarm'
  BY <1>1, DeploymentStands DEF vmVars, VmTypes
<1> QED
  BY <1>2, <1>3, <1>4, OperatorStep

LEMMA UploadInv ==
  ASSUME DeployIInv, NEW d \in Deployments, Upload(d)
  PROVE  DeployIInv'
<1>1. /\ UNCHANGED << link, build, prev, releases, secrets, running, vmLock, clobbered, services >>
      /\ incoming' \subseteq Deployments /\ mishaps' \in 0..MaxMishaps /\ alarm' \in BOOLEAN
      /\ alarm => alarm'
  BY DeploymentStands DEF Upload, VmTypes
<1>2. /\ op' = [op EXCEPT ![d] = op[d]] /\ script' = [script EXCEPT ![d] = script[d]]
      /\ op[d] \in OpRow /\ script[d] \in ScriptRow /\ Fits(op[d], script[d])
      /\ \A c \in Checkouts : fileLock'[c] \in {Nobody} \cup Deployments
  BY DeploymentStands DEF Upload
<1> QED
  BY <1>1, <1>2, OperatorStep

LEMMA RunsInv ==
  ASSUME DeployIInv, NEW d \in Deployments, NEW kind \in {"deploy", "restore", "deactivate"},
         NEW step \in {"deploying", "recovering"}, Runs(d, kind, step),
         UNCHANGED << vmVars, fileLock, mishaps, services, alarm, clobbered >>,
         \/ op[d].at = "uploading" /\ kind = "deploy" /\ step = "deploying"
         \/ /\ op[d].at = "deploying" /\ script[d].at = "ok" /\ step = "recovering"
            /\ kind = "restore" => op[d].seen # Nothing
  PROVE  DeployIInv'
<1> DEFINE s == [NoScript EXCEPT !.at = "start", !.kind = kind]
<1>1. PICK o \in OpRow :
         /\ op' = [op EXCEPT ![d] = o] /\ o.at = step /\ o.target = op[d].target
         /\ o.source = op[d].source /\ o.seen = op[d].seen
  BY NextStepOfOp DEF Runs, OpSteps
<1>2. script' = [script EXCEPT ![d] = s]
  BY DEF Runs
<1>3. s \in ScriptRow /\ s.at = "start" /\ s.kind = kind
  BY DEF NoScript, ScriptRow, ScriptSteps, NotHolding, Pointers
<1> HIDE DEF s
<1>4. /\ script[d].at \in NotHolding /\ script[d].kind # "deactivate"
      /\ \/ op[d].at = "uploading"
         \/ script[d].at # "none"
  BY DeploymentStands DEF Fits, NotHolding, NoScript
<1>5. Fits(o, s)
  BY <1>1, <1>3, <1>4, DeploymentStands DEF Fits, Installing, Restoring
<1>6. /\ UNCHANGED << link, build, prev, releases, secrets, running, vmLock, clobbered, services >>
      /\ incoming' \subseteq Deployments /\ mishaps' \in 0..MaxMishaps /\ alarm' \in BOOLEAN
      /\ (alarm => alarm')
      /\ \A c \in Checkouts : fileLock'[c] \in {Nobody} \cup Deployments
  BY DeploymentStands DEF vmVars, VmTypes
<1> QED
  BY <1>1, <1>2, <1>3, <1>4, <1>5, <1>6, OperatorStep

LEMMA LaunchInv ==
  ASSUME DeployIInv, NEW d \in Deployments, Launch(d) \/ Unverified(d)
  PROVE  DeployIInv'
<1>1. CASE Launch(d)
  <2>1. /\ Runs(d, "deploy", "deploying") /\ op[d].at = "uploading"
        /\ UNCHANGED << vmVars, fileLock, mishaps, services, alarm, clobbered >>
    BY <1>1 DEF Launch
  <2> QED
    BY <2>1, RunsInv
<1>2. CASE Unverified(d)
  <2> DEFINE kind == IF op[d].seen = Nothing THEN "deactivate" ELSE "restore"
  <2>1. /\ Runs(d, kind, "recovering") /\ op[d].at = "deploying" /\ script[d].at = "ok"
        /\ UNCHANGED << vmVars, fileLock, mishaps, services, alarm, clobbered >>
        /\ kind \in {"restore", "deactivate"} /\ (kind = "restore" => op[d].seen # Nothing)
    BY <1>2 DEF Unverified
  <2> HIDE DEF kind
  <2> QED
    BY <2>1, RunsInv
<1> QED
  BY <1>1, <1>2

\* The operator's program ends, or is gone.
LEMMA OperatorEnds ==
  ASSUME DeployIInv, NEW d \in Deployments, NEW outcome \in {"failed", "receipt", "dead"},
         OpAt(d, outcome), op[d].at # "idle", script' = script,
         \A c \in Checkouts : fileLock'[c] \in {Nobody} \cup Deployments,
         UNCHANGED << link, build, prev, releases, secrets, running, vmLock, clobbered, services >>,
         incoming' \subseteq Deployments, mishaps' \in 0..MaxMishaps, alarm' \in BOOLEAN,
         alarm => alarm'
  PROVE  DeployIInv'
<1>1. PICK o \in OpRow :
         /\ op' = [op EXCEPT ![d] = o] /\ o.at = outcome /\ o.target = op[d].target
         /\ o.source = op[d].source /\ o.seen = op[d].seen
  BY NextStepOfOp DEF OpSteps
<1>2. Fits(o, script[d])
  BY <1>1, DeploymentStands DEF Fits
<1>3. script' = [script EXCEPT ![d] = script[d]] /\ script[d] \in ScriptRow
  BY DeploymentStands
<1> QED
  BY <1>1, <1>2, <1>3, OperatorStep

LEMMA OperatorEndsInv ==
  ASSUME DeployIInv, NEW d \in Deployments,
         GivesUp(d) \/ Verified(d) \/ Reports(d) \/ OperatorDies(d)
  PROVE  DeployIInv'
<1>1. /\ incoming \subseteq Deployments /\ mishaps \in 0..MaxMishaps /\ MaxMishaps \in Nat
      /\ alarm \in BOOLEAN
  BY DeploymentStands DEF VmTypes
<1>2. CASE GivesUp(d)
  <2>1. /\ OpAt(d, "failed") /\ Ends(d, "failed") /\ op[d].at # "idle"
    BY <1>2 DEF GivesUp, Ends
  <2>2. mishaps' \in 0..MaxMishaps
    BY <1>1, <1>2 DEF GivesUp
  <2> QED
    BY <1>1, <1>2, <2>1, <2>2, FileLockGoes, OperatorEnds DEF GivesUp
<1>3. CASE Verified(d)
  <2>1. /\ OpAt(d, "receipt") /\ Ends(d, "receipt") /\ op[d].at # "idle"
    BY <1>3 DEF Verified, Ends
  <2> QED
    BY <1>1, <1>3, <2>1, FileLockGoes, OperatorEnds DEF Verified, vmVars
<1>4. CASE Reports(d)
  <2>1. /\ OpAt(d, "failed") /\ Ends(d, "failed") /\ op[d].at # "idle"
    BY <1>4 DEF Reports, Ends
  <2>2. alarm' \in BOOLEAN /\ (alarm => alarm')
    BY <1>1, <1>4 DEF Reports, ScriptFailed
  <2> QED
    BY <1>1, <1>4, <2>1, <2>2, FileLockGoes, OperatorEnds DEF Reports, vmVars
<1>5. CASE OperatorDies(d)
  <2>1. OpAt(d, "dead") /\ op[d].at # "idle"
    BY <1>5 DEF OperatorDies
  <2>2. mishaps' \in 0..MaxMishaps
    BY <1>1, <1>5 DEF OperatorDies
  <2>3. \A c \in Checkouts : fileLock'[c] \in {Nobody} \cup Deployments
    BY <1>5, DeploymentStands DEF OperatorDies
  <2> QED
    BY <1>1, <1>5, <2>1, <2>2, <2>3, OperatorEnds DEF OperatorDies, vmVars
<1> QED
  BY <1>2, <1>3, <1>4, <1>5


\* What is known where a script holds the lock.
LEMMA HolderStands ==
  ASSUME DeployIInv, NEW d \in Deployments, script[d].at \notin NotHolding
  PROVE  /\ d \in Holders /\ op[d].target \in Builds /\ op[d].target # Nothing
         /\ op[d].target \in Pointers /\ op[d].seen \in Pointers /\ op[d].seen # op[d].target
         /\ op[d].seen # Nothing => op[d].seen \in Builds
         /\ PointersStand(d) /\ (TakenDown \/ PreviousStands(d)) /\ (alarm \/ NothingElseRuns(d))
         /\ Fits(op[d], script[d]) /\ VmTypes /\ mishaps \in 0..MaxMishaps
         /\ OnlyRefusalsRemove /\ (link = Nothing => prev = Nothing \/ TakenDown)
<1>1. d \in Holders
  BY DEF Holders, NotHolding
<1>2. HolderStage(d) /\ OnlyRefusalsRemove /\ (link = Nothing => prev = Nothing \/ TakenDown)
  BY <1>1 DEF DeployIInv
<1>3. /\ Fits(op[d], script[d]) /\ op[d].seen \in Pointers /\ VmTypes
      /\ mishaps \in 0..MaxMishaps
  BY DeploymentStands
<1>4. script[d].at # "none"
  BY DEF NotHolding
<1>5. /\ op[d].target \in Builds
      /\ IF op[d].source # Nothing THEN op[d].seen = op[d].source /\ op[d].seen # op[d].target
         ELSE op[d].seen = Nothing \/ op[d].seen < op[d].target
  BY <1>3, <1>4 DEF Fits
<1>6. op[d].target # Nothing /\ op[d].target \in Pointers /\ op[d].seen # op[d].target
  BY <1>3, <1>5, DeployAssumption DEF Nothing, Builds, Pointers
<1>7. op[d].seen # Nothing => op[d].seen \in Builds
  BY <1>3 DEF Pointers
<1> QED
  BY <1>1, <1>2, <1>3, <1>5, <1>6, <1>7 DEF HolderStage

LEMMA HolderStaysDown ==
  ASSUME DeployIInv, NEW d \in Deployments, script[d].at \notin NotHolding,
         NEW s, script' = [script EXCEPT ![d] = s]
  PROVE  TakenDown => TakenDown'
<1>1. script[d].at # "ok" /\ script \in [Deployments -> ScriptRow]
  BY DEF NotHolding, DeployIInv, DeployTypes
<1> QED
  BY <1>1, StaysDown

\* A script goes on under the lock.
LEMMA GoesOn ==
  ASSUME DeployIInv, NEW d \in Deployments, script[d].at \notin NotHolding,
         NEW s \in ScriptRow, script' = [script EXCEPT ![d] = s], s.at \notin NotHolding,
         s.kind = script[d].kind, VmTypes', vmLock' = vmLock,
         s.at \in Installing => s.kind = "deploy", s.at \in Restoring => s.kind = "restore",
         UNCHANGED << op, fileLock, services, mishaps, alarm >>,
         OnlyRefusalsRemove', link' = Nothing => prev' = Nothing \/ TakenDown',
         PointersStand(d)', TakenDown' \/ PreviousStands(d)', alarm' \/ NothingElseRuns(d)'
  PROVE  DeployIInv'
<1>1. /\ d \in Holders /\ Fits(op[d], script[d]) /\ mishaps' \in 0..MaxMishaps
      /\ HolderStage(d)' /\ s.at # "dead" /\ s.at # "none" /\ script[d].at # "none"
  BY HolderStands DEF HolderStage, NotHolding
<1>2. Fits(op[d], s)
  BY <1>1 DEF Fits, NoScript, NotHolding
<1> QED
  BY <1>1, <1>2, HolderStep

\* A script ends and the lock goes.
LEMMA LetsGo ==
  ASSUME DeployIInv, NEW d \in Deployments, script[d].at \notin NotHolding,
         NEW outcome \in {"ok", "failed"}, Exit(d, outcome), VmTypes',
         UNCHANGED << op, fileLock, services, mishaps >>, alarm => alarm',
         OnlyRefusalsRemove', link' = Nothing => prev' = Nothing \/ TakenDown',
         alarm' \/ Settled'
  PROVE  DeployIInv'
<1>1. PICK s \in ScriptRow :
         /\ script' = [script EXCEPT ![d] = s] /\ s.at = outcome /\ s.kind = script[d].kind
  BY NextStepOf DEF Exit, ScriptSteps, NotHolding
<1>2. /\ d \in Holders /\ Fits(op[d], script[d]) /\ mishaps' \in 0..MaxMishaps
      /\ script[d].at # "none"
  BY HolderStands DEF NotHolding
<1>3. Fits(op[d], s)
  BY <1>1, <1>2 DEF Fits, NoScript, Installing, Restoring
<1>4. s.at \in NotHolding /\ s.at # "dead"
  BY <1>1 DEF NotHolding
<1> QED
  BY <1>1, <1>2, <1>3, <1>4, HolderStep

LEMMA ExitStaysDown ==
  ASSUME DeployIInv, NEW d \in Deployments, script[d].at \notin NotHolding,
         NEW step \in ScriptSteps, At(d, step)
  PROVE  TakenDown => TakenDown'
BY NextStepOf, HolderStaysDown

LEMMA ExitTypes ==
  ASSUME DeployIInv, NEW d \in Deployments, NEW outcome, Exit(d, outcome)
  PROVE  vmLock' \in {Nobody, "service"} \cup Deployments /\ At(d, outcome)
BY DEF Exit

LEMMA RefuseInv ==
  ASSUME DeployIInv, NEW d \in Deployments, Refuse(d)
  PROVE  DeployIInv'
<1>1. /\ script[d].at = "locked" /\ script[d].at \notin NotHolding /\ Exit(d, "failed")
      /\ releases' = Withdrawn(d) /\ clobbered' = clobbered \cup (releases \ releases')
      /\ incoming' = incoming \ {d} /\ secrets' = secrets \ {op[d].target}
      /\ UNCHANGED << link, build, prev, running, fileLock, op, mishaps, services, alarm >>
  BY DEF Refuse, NotHolding
<1>2. releases' \subseteq releases
  BY <1>1 DEF Withdrawn
<1>3. VmTypes'
  BY <1>1, <1>2, HolderStands, ExitTypes DEF VmTypes
<1>4. TakenDown => TakenDown'
  BY <1>1, ExitStaysDown, ExitTypes DEF ScriptSteps, NotHolding
<1>5. OnlyRefusalsRemove' /\ (link' = Nothing => prev' = Nothing \/ TakenDown')
  BY <1>1, <1>4, HolderStands DEF OnlyRefusalsRemove
<1>6. alarm' \/ Settled'
  BY <1>1, HolderStands DEF NothingElseRuns, Settled
<1> QED
  BY <1>1, <1>3, <1>5, <1>6, LetsGo

LEMMA InstallInv ==
  ASSUME DeployIInv, NEW d \in Deployments, Install(d)
  PROVE  DeployIInv'
<1> DEFINE target == op[d].target
           s == [script[d] EXCEPT !.at = "installed", !.replaced = target \in releases]
<1>1. /\ script[d].at = "locked" /\ script[d].at \notin NotHolding
      /\ script[d].kind = "deploy" /\ StillExpected(d)
      /\ script' = [script EXCEPT ![d].at = "installed", ![d].replaced = target \in releases]
      /\ releases' = releases \cup {target} /\ incoming' = incoming \ {d}
      /\ secrets' \in {secrets \ {target}, secrets \cup {target}}
      /\ UNCHANGED << link, build, prev, running, vmLock >>
      /\ UNCHANGED << fileLock, op, mishaps, services, alarm, clobbered >>
  BY DEF Install, NotHolding
<1>2. script \in [Deployments -> ScriptRow] /\ script[d] \in ScriptRow
  BY DEF DeployIInv, DeployTypes
<1>3. script' = [script EXCEPT ![d] = s]
  BY <1>1, <1>2
<1>4. s \in ScriptRow
  <2>1. "installed" \in ScriptSteps /\ (target \in releases) \in BOOLEAN
    BY DEF ScriptSteps, Installing
  <2> HIDE DEF target
  <2> QED
    BY <1>2, <2>1 DEF ScriptRow
<1>5. /\ s.at = "installed" /\ s.kind = script[d].kind /\ s.base = script[d].base
      /\ s.replaced = (target \in releases) /\ script'[d] = s
  BY <1>2, <1>3 DEF ScriptRow
<1> HIDE DEF s
<1>6. VmTypes'
  BY <1>1, HolderStands DEF VmTypes
<1>7. TakenDown => TakenDown'
  BY <1>1, <1>3, HolderStaysDown
<1>8. OnlyRefusalsRemove' /\ (link' = Nothing => prev' = Nothing \/ TakenDown')
  BY <1>1, <1>7, HolderStands DEF OnlyRefusalsRemove
<1>9. link = op[d].seen /\ build = op[d].seen /\ s.base = link
  BY <1>1, <1>5, HolderStands DEF StillExpected, PointersStand
<1>10. PointersStand(d)'
  BY <1>1, <1>5, <1>9 DEF PointersStand, Installing, Restoring
<1>11. TakenDown' \/ PreviousStands(d)'
  BY <1>1, <1>5, <1>7, <1>9, HolderStands DEF PreviousStands, OnlyRefusalsRemove, Installing
<1>12. alarm' \/ NothingElseRuns(d)'
  BY <1>1, <1>5, HolderStands DEF NothingElseRuns, Installing, Restoring
<1>13. s.at \notin NotHolding /\ s.at \notin Restoring
  BY <1>5 DEF NotHolding, Restoring
<1> QED
  BY <1>1, <1>3, <1>4, <1>5, <1>6, <1>8, <1>10, <1>11, <1>12, <1>13, GoesOn


LEMMA ActivateInv ==
  ASSUME DeployIInv, NEW d \in Deployments, Activate(d)
  PROVE  DeployIInv'
<1>1. /\ script[d].at = "installed" /\ script[d].at \notin NotHolding /\ At(d, "activating")
      /\ running' = Unsure
      /\ UNCHANGED << link, build, prev, releases, incoming, secrets, vmLock >>
      /\ UNCHANGED << fileLock, op, mishaps, services, alarm, clobbered >>
  BY DEF Activate, NotHolding
<1>2. PICK s \in ScriptRow :
         /\ script' = [script EXCEPT ![d] = s] /\ s.at = "activating" /\ s.kind = script[d].kind
         /\ s.base = script[d].base /\ s.replaced = script[d].replaced
  BY <1>1, NextStepOf DEF ScriptSteps, Installing
<1>3. /\ script'[d] = s /\ s.at \notin NotHolding /\ s.at \notin Restoring
      /\ s.kind = "deploy" /\ s.at \in Installing /\ script[d].at \in Installing
  BY <1>1, <1>2, HolderStands DEF DeployIInv, DeployTypes, NotHolding, Restoring, Installing, Fits
<1>4. VmTypes'
  BY <1>1, HolderStands DEF VmTypes
<1>5. TakenDown => TakenDown'
  BY <1>1, <1>2, HolderStaysDown
<1>6. OnlyRefusalsRemove' /\ (link' = Nothing => prev' = Nothing \/ TakenDown')
  BY <1>1, <1>5, HolderStands DEF OnlyRefusalsRemove
<1>7. PointersStand(d)'
  BY <1>1, <1>2, <1>3, HolderStands DEF PointersStand
<1>8. TakenDown' \/ PreviousStands(d)'
  BY <1>1, <1>2, <1>3, <1>5, HolderStands DEF PreviousStands, Installing
<1>9. alarm' \/ NothingElseRuns(d)'
  BY <1>1, <1>2, <1>3, HolderStands DEF NothingElseRuns
<1> QED
  BY <1>1, <1>2, <1>3, <1>4, <1>6, <1>7, <1>8, <1>9, GoesOn

LEMMA MovePreviousInv ==
  ASSUME DeployIInv, NEW d \in Deployments, MovePrevious(d)
  PROVE  DeployIInv'
<1>1. /\ script[d].at = "activating" /\ script[d].at \notin NotHolding /\ At(d, "up")
      /\ running' = op[d].target /\ secrets' = secrets \ {op[d].target}
      /\ prev' = IF script[d].base # Nothing THEN script[d].base ELSE prev
      /\ UNCHANGED << link, build, releases, incoming, vmLock >>
      /\ UNCHANGED << fileLock, op, mishaps, services, alarm, clobbered >>
  BY DEF MovePrevious, NotHolding
<1>2. PICK s \in ScriptRow :
         /\ script' = [script EXCEPT ![d] = s] /\ s.at = "up" /\ s.kind = script[d].kind
         /\ s.base = script[d].base /\ s.replaced = script[d].replaced
  BY <1>1, NextStepOf DEF ScriptSteps, Installing
<1>3. /\ script'[d] = s /\ s.at \notin NotHolding /\ s.at \notin Restoring
      /\ s.kind = "deploy" /\ s.at \in Installing /\ script[d].at \in Installing
  BY <1>1, <1>2, HolderStands DEF DeployIInv, DeployTypes, NotHolding, Restoring, Installing, Fits
<1>4. /\ s.base = op[d].seen /\ link = op[d].seen /\ build = op[d].seen
      /\ op[d].target \in releases
  BY <1>1, <1>2, <1>3, HolderStands DEF PointersStand
<1>5. VmTypes'
  BY <1>1, <1>2, <1>4, HolderStands DEF VmTypes
<1>6. TakenDown => TakenDown'
  BY <1>1, <1>2, HolderStaysDown
<1>7. OnlyRefusalsRemove' /\ (link' = Nothing => prev' = Nothing \/ TakenDown')
  BY <1>1, <1>2, <1>4, <1>6, HolderStands DEF OnlyRefusalsRemove
<1>8. PointersStand(d)'
  BY <1>1, <1>2, <1>3, <1>4, HolderStands DEF PointersStand
<1>9. TakenDown' \/ PreviousStands(d)'
  BY <1>1, <1>2, <1>3, <1>4, <1>6, HolderStands DEF PreviousStands, Installing
<1>10. alarm' \/ NothingElseRuns(d)'
  BY <1>1, <1>2, <1>3, HolderStands DEF NothingElseRuns
<1> QED
  BY <1>1, <1>2, <1>3, <1>5, <1>7, <1>8, <1>9, <1>10, GoesOn

LEMMA MoveCurrentInv ==
  ASSUME DeployIInv, NEW d \in Deployments, MoveCurrent(d)
  PROVE  DeployIInv'
<1>1. /\ script[d].at = "up" /\ script[d].at \notin NotHolding /\ At(d, "linked")
      /\ link' = op[d].target
      /\ UNCHANGED << build, prev, releases, incoming, secrets, running, vmLock >>
      /\ UNCHANGED << fileLock, op, mishaps, services, alarm, clobbered >>
  BY DEF MoveCurrent, NotHolding
<1>2. PICK s \in ScriptRow :
         /\ script' = [script EXCEPT ![d] = s] /\ s.at = "linked" /\ s.kind = script[d].kind
         /\ s.base = script[d].base /\ s.replaced = script[d].replaced
  BY <1>1, NextStepOf DEF ScriptSteps, Installing
<1>3. /\ script'[d] = s /\ s.at \notin NotHolding /\ s.at \notin Restoring
      /\ s.kind = "deploy" /\ s.at \in Installing /\ script[d].at \in Installing
  BY <1>1, <1>2, HolderStands DEF DeployIInv, DeployTypes, NotHolding, Restoring, Installing, Fits
<1>4. /\ s.base = op[d].seen /\ build = op[d].seen /\ op[d].target \in releases
  BY <1>1, <1>2, <1>3, HolderStands DEF PointersStand
<1>5. VmTypes'
  BY <1>1, HolderStands DEF VmTypes
<1>6. TakenDown => TakenDown'
  BY <1>1, <1>2, HolderStaysDown
<1>7. OnlyRefusalsRemove' /\ (link' = Nothing => prev' = Nothing \/ TakenDown')
  BY <1>1, <1>4, <1>6, HolderStands DEF OnlyRefusalsRemove
<1>8. PointersStand(d)'
  BY <1>1, <1>2, <1>3, <1>4, HolderStands DEF PointersStand
<1>9. TakenDown' \/ PreviousStands(d)'
  BY <1>1, <1>2, <1>3, <1>4, <1>6, HolderStands DEF PreviousStands, Installing
<1>10. alarm' \/ NothingElseRuns(d)'
  BY <1>1, <1>2, <1>3, HolderStands DEF NothingElseRuns
<1> QED
  BY <1>1, <1>2, <1>3, <1>5, <1>7, <1>8, <1>9, <1>10, GoesOn

LEMMA CommitBuildInv ==
  ASSUME DeployIInv, NEW d \in Deployments, CommitBuild(d)
  PROVE  DeployIInv'
<1>1. /\ script[d].at = "linked" /\ script[d].at \notin NotHolding /\ At(d, "committed")
      /\ build' = op[d].target
      /\ UNCHANGED << link, prev, releases, incoming, secrets, running, vmLock >>
      /\ UNCHANGED << fileLock, op, mishaps, services, alarm, clobbered >>
  BY DEF CommitBuild, NotHolding
<1>2. PICK s \in ScriptRow :
         /\ script' = [script EXCEPT ![d] = s] /\ s.at = "committed" /\ s.kind = script[d].kind
         /\ s.base = script[d].base /\ s.replaced = script[d].replaced
  BY <1>1, NextStepOf DEF ScriptSteps, Installing
<1>3. /\ script'[d] = s /\ s.at \notin NotHolding /\ s.at \notin Restoring
      /\ s.kind = "deploy" /\ s.at \in Installing /\ script[d].at \in Installing
  BY <1>1, <1>2, HolderStands DEF DeployIInv, DeployTypes, NotHolding, Restoring, Installing, Fits
<1>4. /\ s.base = op[d].seen /\ link = op[d].target /\ op[d].target \in releases
  BY <1>1, <1>2, <1>3, HolderStands DEF PointersStand
<1>5. VmTypes'
  BY <1>1, HolderStands DEF VmTypes
<1>6. TakenDown => TakenDown'
  BY <1>1, <1>2, HolderStaysDown
<1>7. OnlyRefusalsRemove' /\ (link' = Nothing => prev' = Nothing \/ TakenDown')
  BY <1>1, <1>6, HolderStands DEF OnlyRefusalsRemove
<1>8. PointersStand(d)'
  BY <1>1, <1>2, <1>3, <1>4, HolderStands DEF PointersStand
<1>9. TakenDown' \/ PreviousStands(d)'
  BY <1>1, <1>2, <1>3, <1>6, HolderStands DEF PreviousStands, Installing
<1>10. alarm' \/ NothingElseRuns(d)'
  BY <1>1, <1>2, <1>3, HolderStands DEF NothingElseRuns
<1> QED
  BY <1>1, <1>2, <1>3, <1>5, <1>7, <1>8, <1>9, <1>10, GoesOn

LEMMA PruneInv ==
  ASSUME DeployIInv, NEW d \in Deployments, Prune(d)
  PROVE  DeployIInv'
<1>1. /\ script[d].at = "committed" /\ script[d].at \notin NotHolding
      /\ UNCHANGED << link, build, prev, incoming, secrets, running >>
      /\ UNCHANGED << fileLock, op, mishaps, services, alarm, clobbered >>
  BY DEF Prune, NotHolding
<1>2. PICK more \in SUBSET (releases \ Kept(d)), outcome \in {"ok", "failed"} :
         releases' = (releases \cap Kept(d)) \cup more /\ Exit(d, outcome)
  BY DEF Prune
<1>3. /\ link = op[d].target /\ build = op[d].target /\ op[d].target \in releases
      /\ script[d].base = op[d].seen
  BY <1>1, HolderStands DEF PointersStand, Installing
<1>4. VmTypes'
  BY <1>1, <1>2, HolderStands, ExitTypes DEF VmTypes
<1>5. TakenDown => TakenDown'
  BY <1>1, <1>2, ExitStaysDown, ExitTypes DEF ScriptSteps, NotHolding
<1>6. TakenDown \/ prev = op[d].seen \/ prev = Nothing
  BY <1>1, HolderStands DEF PreviousStands, Installing
<1>7. OnlyRefusalsRemove' /\ (link' = Nothing => prev' = Nothing \/ TakenDown')
  BY <1>1, <1>2, <1>3, <1>5, <1>6, HolderStands DEF OnlyRefusalsRemove, Kept
<1>8. alarm' \/ Settled'
  BY <1>1, <1>3, HolderStands DEF NothingElseRuns, Settled
<1> QED
  BY <1>1, <1>2, <1>4, <1>7, <1>8, LetsGo

LEMMA InstallFailsInv ==
  ASSUME DeployIInv, NEW d \in Deployments, InstallFails(d)
  PROVE  DeployIInv'
<1>1. /\ script[d].at = "installed" /\ script[d].at \notin NotHolding /\ Exit(d, "failed")
      /\ releases' = Withdrawn(d) /\ secrets' = secrets \ {op[d].target}
      /\ UNCHANGED << link, build, prev, incoming, running >>
      /\ UNCHANGED << fileLock, op, mishaps, services, alarm, clobbered >>
  BY DEF InstallFails, NotHolding
<1>2. link = op[d].seen /\ op[d].seen # op[d].target
  BY <1>1, HolderStands DEF PointersStand
<1>3. VmTypes'
  BY <1>1, HolderStands, ExitTypes DEF VmTypes, Withdrawn
<1>4. TakenDown => TakenDown'
  BY <1>1, ExitStaysDown, ExitTypes DEF ScriptSteps, NotHolding
<1>5. TakenDown \/ script[d].replaced \/ prev # op[d].target \/ prev \in clobbered
  BY <1>1, HolderStands DEF PreviousStands, Installing
<1>6. OnlyRefusalsRemove' /\ (link' = Nothing => prev' = Nothing \/ TakenDown')
  BY <1>1, <1>2, <1>4, <1>5, HolderStands DEF OnlyRefusalsRemove, Withdrawn
<1>7. alarm' \/ Settled'
  BY <1>1, HolderStands DEF NothingElseRuns, Settled
<1> QED
  BY <1>1, <1>3, <1>6, <1>7, LetsGo

LEMMA ActivationFailsInv ==
  ASSUME DeployIInv, NEW d \in Deployments, ActivationFails(d)
  PROVE  DeployIInv'
<1>1. /\ script[d].at \in {"activating", "up", "linked"} /\ script[d].at \notin NotHolding
      /\ script[d].at \in Installing \ {"committed"} /\ Exit(d, "failed")
      /\ script[d].base \in releases \cup {Nothing}
      /\ link' = script[d].base /\ build' = script[d].base
      /\ running' \in {script[d].base, Unsure}
      /\ releases' = Withdrawn(d) /\ secrets' = secrets \ {op[d].target}
      /\ UNCHANGED << prev, incoming, fileLock, op, mishaps, services, alarm, clobbered >>
  BY DEF ActivationFails, NotHolding, Installing
<1>2. script[d].base = op[d].seen /\ op[d].seen # op[d].target
  BY <1>1, HolderStands DEF PointersStand
<1>3. VmTypes'
  BY <1>1, <1>2, HolderStands, ExitTypes DEF VmTypes, Withdrawn
<1>4. TakenDown => TakenDown'
  BY <1>1, ExitStaysDown, ExitTypes DEF ScriptSteps, NotHolding
<1>5. \/ TakenDown
      \/ /\ op[d].seen = Nothing => prev = Nothing
         /\ script[d].replaced \/ prev # op[d].target \/ prev \in clobbered
  BY <1>1, HolderStands DEF PreviousStands
<1>6. OnlyRefusalsRemove' /\ (link' = Nothing => prev' = Nothing \/ TakenDown')
  BY <1>1, <1>2, <1>4, <1>5, HolderStands DEF OnlyRefusalsRemove, Withdrawn
<1>7. alarm' \/ Settled'
  BY <1>1, HolderStands DEF NothingElseRuns, Settled
<1> QED
  BY <1>1, <1>3, <1>6, <1>7, LetsGo

LEMMA RestoreIsImpossibleInv ==
  ASSUME DeployIInv, NEW d \in Deployments, RestoreIsImpossible(d)
  PROVE  DeployIInv'
<1>1. /\ script[d].at \notin NotHolding /\ Exit(d, "failed")
      /\ alarm' = TRUE /\ secrets' = secrets \ {op[d].target}
      /\ UNCHANGED << link, build, prev, releases, incoming, running >>
      /\ UNCHANGED << fileLock, op, mishaps, services, clobbered >>
  BY DEF RestoreIsImpossible, NotHolding
<1>2. VmTypes'
  BY <1>1, HolderStands, ExitTypes DEF VmTypes
<1>3. TakenDown => TakenDown'
  BY <1>1, ExitStaysDown, ExitTypes DEF ScriptSteps, NotHolding
<1>4. OnlyRefusalsRemove' /\ (link' = Nothing => prev' = Nothing \/ TakenDown')
  BY <1>1, <1>3, HolderStands DEF OnlyRefusalsRemove
<1> QED
  BY <1>1, <1>2, <1>4, LetsGo


LEMMA RestoreUpInv ==
  ASSUME DeployIInv, NEW d \in Deployments, RestoreUp(d)
  PROVE  DeployIInv'
<1>1. /\ script[d].at = "locked" /\ script[d].at \notin NotHolding /\ script[d].kind = "restore"
      /\ UNCHANGED << link, build, prev, releases, incoming, secrets >>
      /\ UNCHANGED << fileLock, op, mishaps, services, alarm, clobbered >>
  BY DEF RestoreUp, NotHolding
<1>2. CASE prev = op[d].seen /\ prev \in releases
  <2>1. running' = prev /\ At(d, "restored") /\ UNCHANGED vmLock
    BY <1>2 DEF RestoreUp
  <2>2. PICK s \in ScriptRow :
           /\ script' = [script EXCEPT ![d] = s] /\ s.at = "restored" /\ s.kind = script[d].kind
    BY <2>1, NextStepOf DEF ScriptSteps, Restoring
  <2>3. /\ script'[d] = s /\ s.at \notin NotHolding /\ s.at \in Restoring
        /\ s.at \notin Installing
    BY <2>2 DEF DeployIInv, DeployTypes, NotHolding, Restoring, Installing
  <2>4. VmTypes'
    BY <1>1, <2>1, HolderStands DEF VmTypes, Pointers
  <2>5. TakenDown => TakenDown'
    BY <1>1, <2>2, HolderStaysDown
  <2>6. OnlyRefusalsRemove' /\ (link' = Nothing => prev' = Nothing \/ TakenDown')
    BY <1>1, <2>5, HolderStands DEF OnlyRefusalsRemove
  <2>7. PointersStand(d)'
    BY <1>1, <1>2, <2>2, <2>3 DEF PointersStand
  <2>8. TakenDown' \/ PreviousStands(d)'
    BY <2>2, <2>3 DEF PreviousStands, Installing
  <2>9. alarm' \/ NothingElseRuns(d)'
    BY <1>1, <1>2, <2>1, <2>2, <2>3, HolderStands DEF NothingElseRuns
  <2> QED
    BY <1>1, <2>1, <2>2, <2>3, <2>4, <2>6, <2>7, <2>8, <2>9, GoesOn
<1>3. CASE ~(prev = op[d].seen /\ prev \in releases)
  <2>1. Exit(d, "failed") /\ UNCHANGED running
    BY <1>3 DEF RestoreUp
  <2>2. VmTypes'
    BY <1>1, <2>1, HolderStands, ExitTypes DEF VmTypes
  <2>3. TakenDown => TakenDown'
    BY <1>1, <2>1, ExitStaysDown, ExitTypes DEF ScriptSteps, NotHolding
  <2>4. OnlyRefusalsRemove' /\ (link' = Nothing => prev' = Nothing \/ TakenDown')
    BY <1>1, <2>3, HolderStands DEF OnlyRefusalsRemove
  <2>5. alarm' \/ Settled'
    BY <1>1, <2>1, HolderStands DEF NothingElseRuns, Settled
  <2> QED
    BY <1>1, <2>1, <2>2, <2>4, <2>5, LetsGo
<1> QED
  BY <1>2, <1>3

LEMMA RestorePreviousInv ==
  ASSUME DeployIInv, NEW d \in Deployments, RestorePrevious(d)
  PROVE  DeployIInv'
<1>1. /\ script[d].at = "restored" /\ script[d].at \notin NotHolding
      /\ UNCHANGED << link, build, releases, incoming, secrets, running >>
      /\ UNCHANGED << fileLock, op, mishaps, services, clobbered >>
  BY DEF RestorePrevious, NotHolding
<1>2. CASE link = Nothing
  <2>1. Exit(d, "failed") /\ alarm' = TRUE /\ UNCHANGED prev
    BY <1>2 DEF RestorePrevious
  <2>2. VmTypes'
    BY <1>1, <2>1, HolderStands, ExitTypes DEF VmTypes
  <2>3. TakenDown => TakenDown'
    BY <1>1, <2>1, ExitStaysDown, ExitTypes DEF ScriptSteps, NotHolding
  <2>4. OnlyRefusalsRemove' /\ (link' = Nothing => prev' = Nothing \/ TakenDown')
    BY <1>1, <2>1, <2>3, HolderStands DEF OnlyRefusalsRemove
  <2> QED
    BY <1>1, <2>1, <2>2, <2>4, LetsGo
<1>3. CASE link # Nothing
  <2>1. prev' = link /\ At(d, "swapping") /\ UNCHANGED << vmLock, alarm >>
    BY <1>3 DEF RestorePrevious
  <2>2. PICK s \in ScriptRow :
           /\ script' = [script EXCEPT ![d] = s] /\ s.at = "swapping" /\ s.kind = script[d].kind
    BY <2>1, NextStepOf DEF ScriptSteps, Restoring
  <2>3. /\ script'[d] = s /\ s.at \notin NotHolding /\ s.at \in Restoring
        /\ s.at \notin Installing /\ s.kind = "restore" /\ script[d].at \in Restoring
    BY <1>1, <2>2, HolderStands
       DEF DeployIInv, DeployTypes, NotHolding, Restoring, Installing, Fits
  <2>4. VmTypes'
    BY <1>1, <2>1, HolderStands DEF VmTypes
  <2>5. TakenDown => TakenDown'
    BY <1>1, <2>2, HolderStaysDown
  <2>6. OnlyRefusalsRemove' /\ (link' = Nothing => prev' = Nothing \/ TakenDown')
    BY <1>1, <1>3, <2>1, <2>5, HolderStands DEF OnlyRefusalsRemove
  <2>7. PointersStand(d)'
    BY <1>1, <2>2, <2>3, HolderStands DEF PointersStand
  <2>8. TakenDown' \/ PreviousStands(d)'
    BY <2>2, <2>3 DEF PreviousStands, Installing
  <2>9. alarm' \/ NothingElseRuns(d)'
    BY <1>1, <2>1, <2>2, <2>3, HolderStands DEF NothingElseRuns
  <2> QED
    BY <1>1, <2>1, <2>2, <2>3, <2>4, <2>6, <2>7, <2>8, <2>9, GoesOn
<1> QED
  BY <1>2, <1>3

LEMMA RestoreCurrentInv ==
  ASSUME DeployIInv, NEW d \in Deployments, RestoreCurrent(d)
  PROVE  DeployIInv'
<1>1. /\ script[d].at = "swapping" /\ script[d].at \notin NotHolding /\ At(d, "swapped")
      /\ link' = op[d].seen
      /\ UNCHANGED << build, prev, releases, incoming, secrets, running, vmLock >>
      /\ UNCHANGED << fileLock, op, mishaps, services, alarm, clobbered >>
  BY DEF RestoreCurrent, NotHolding
<1>2. PICK s \in ScriptRow :
         /\ script' = [script EXCEPT ![d] = s] /\ s.at = "swapped" /\ s.kind = script[d].kind
  BY <1>1, NextStepOf DEF ScriptSteps, Restoring
<1>3. /\ script'[d] = s /\ s.at \notin NotHolding /\ s.at \in Restoring
      /\ s.at \notin Installing /\ s.kind = "restore" /\ script[d].at \in Restoring
      /\ op[d].seen # Nothing
  BY <1>1, <1>2, HolderStands
     DEF DeployIInv, DeployTypes, NotHolding, Restoring, Installing, Fits
<1>4. op[d].seen \in releases
  BY <1>1, HolderStands DEF PointersStand
<1>5. VmTypes'
  BY <1>1, HolderStands DEF VmTypes
<1>6. TakenDown => TakenDown'
  BY <1>1, <1>2, HolderStaysDown
<1>7. OnlyRefusalsRemove' /\ (link' = Nothing => prev' = Nothing \/ TakenDown')
  BY <1>1, <1>3, <1>4, <1>6, HolderStands DEF OnlyRefusalsRemove
<1>8. PointersStand(d)'
  BY <1>1, <1>2, <1>3 DEF PointersStand
<1>9. TakenDown' \/ PreviousStands(d)'
  BY <1>2, <1>3 DEF PreviousStands, Installing
<1>10. alarm' \/ NothingElseRuns(d)'
  BY <1>1, <1>2, <1>3, HolderStands DEF NothingElseRuns
<1> QED
  BY <1>1, <1>2, <1>3, <1>5, <1>7, <1>8, <1>9, <1>10, GoesOn

LEMMA RestoreBuildInv ==
  ASSUME DeployIInv, NEW d \in Deployments, RestoreBuild(d)
  PROVE  DeployIInv'
<1>1. /\ script[d].at = "swapped" /\ script[d].at \notin NotHolding /\ Exit(d, "ok")
      /\ build' = op[d].seen
      /\ UNCHANGED << link, prev, releases, incoming, secrets, running >>
      /\ UNCHANGED << fileLock, op, mishaps, services, alarm, clobbered >>
  BY DEF RestoreBuild, RestoredBuild, NotHolding
<1>2. VmTypes'
  BY <1>1, HolderStands, ExitTypes DEF VmTypes
<1>3. TakenDown => TakenDown'
  BY <1>1, ExitStaysDown, ExitTypes DEF ScriptSteps, NotHolding
<1>4. OnlyRefusalsRemove' /\ (link' = Nothing => prev' = Nothing \/ TakenDown')
  BY <1>1, <1>3, HolderStands DEF OnlyRefusalsRemove
<1>5. link = op[d].seen
  BY <1>1, HolderStands DEF PointersStand
<1>6. alarm' \/ Settled'
  BY <1>1, <1>5, HolderStands DEF NothingElseRuns, Settled, Restoring
<1> QED
  BY <1>1, <1>2, <1>4, <1>6, LetsGo

LEMMA RestoreFailsInv ==
  ASSUME DeployIInv, NEW d \in Deployments, RestoreFails(d)
  PROVE  DeployIInv'
<1>1. /\ script[d].at \notin NotHolding /\ Exit(d, "failed") /\ alarm' = TRUE
      /\ running' \in {running, Unsure}
      /\ UNCHANGED << link, build, prev, releases, incoming, secrets >>
      /\ UNCHANGED << fileLock, op, mishaps, services, clobbered >>
  BY DEF RestoreFails, NotHolding
<1>2. VmTypes'
  BY <1>1, HolderStands, ExitTypes DEF VmTypes
<1>3. TakenDown => TakenDown'
  BY <1>1, ExitStaysDown, ExitTypes DEF ScriptSteps, NotHolding
<1>4. OnlyRefusalsRemove' /\ (link' = Nothing => prev' = Nothing \/ TakenDown')
  BY <1>1, <1>3, HolderStands DEF OnlyRefusalsRemove
<1> QED
  BY <1>1, <1>2, <1>4, LetsGo

LEMMA DeactivateInv ==
  ASSUME DeployIInv, NEW d \in Deployments, Deactivate(d)
  PROVE  DeployIInv'
<1>1. /\ script[d].at = "locked" /\ script[d].kind = "deactivate"
      /\ script[d].at \notin NotHolding
      /\ UNCHANGED << prev, incoming, secrets, fileLock, op, mishaps, services, clobbered >>
  BY DEF Deactivate, NotHolding
<1>2. CASE /\ running' = Nothing /\ link' = Nothing /\ build' = Nothing
           /\ releases' = releases \ {op[d].target} /\ Exit(d, "ok") /\ UNCHANGED alarm
  <2>1. VmTypes'
    BY <1>1, <1>2, HolderStands, ExitTypes DEF VmTypes, Pointers
  <2>2. PICK s \in ScriptRow :
           /\ script' = [script EXCEPT ![d] = s] /\ s.at = "ok" /\ s.kind = script[d].kind
    BY <1>2, NextStepOf, ExitTypes DEF ScriptSteps, NotHolding
  <2>3. script'[d].kind = "deactivate" /\ script'[d].at = "ok"
    BY <1>1, <2>2 DEF DeployIInv, DeployTypes
  <2>4. TakenDown'
    BY <2>3 DEF TakenDown
  <2>5. OnlyRefusalsRemove' /\ (link' = Nothing => prev' = Nothing \/ TakenDown')
    BY <1>2, <2>4 DEF OnlyRefusalsRemove
  <2>6. alarm' \/ Settled'
    BY <1>1, <1>2, HolderStands DEF NothingElseRuns, Settled
  <2> QED
    BY <1>1, <1>2, <2>1, <2>5, <2>6, LetsGo
<1>3. CASE /\ alarm' = TRUE /\ running' \in {running, Unsure} /\ Exit(d, "failed")
           /\ UNCHANGED << link, build, releases >>
  <2>1. VmTypes'
    BY <1>1, <1>3, HolderStands, ExitTypes DEF VmTypes
  <2>2. TakenDown => TakenDown'
    BY <1>1, <1>3, ExitStaysDown, ExitTypes DEF ScriptSteps, NotHolding
  <2>3. OnlyRefusalsRemove' /\ (link' = Nothing => prev' = Nothing \/ TakenDown')
    BY <1>1, <1>3, <2>2, HolderStands DEF OnlyRefusalsRemove
  <2> QED
    BY <1>1, <1>3, <2>1, <2>3, LetsGo
<1> QED
  BY <1>2, <1>3 DEF Deactivate

LEMMA ScriptDiesInv ==
  ASSUME DeployIInv, NEW d \in Deployments, ScriptDies(d)
  PROVE  DeployIInv'
<1>1. /\ d \in Holders /\ script[d].at \notin NotHolding /\ mishaps < MaxMishaps
      /\ mishaps' = mishaps + 1 /\ alarm' = TRUE /\ At(d, "dead")
      /\ UNCHANGED << vmVars, fileLock, op, services, clobbered >>
  BY DEF ScriptDies, Holders, NotHolding
<1>2. PICK s \in ScriptRow :
         /\ script' = [script EXCEPT ![d] = s] /\ s.at = "dead" /\ s.kind = script[d].kind
  BY <1>1, NextStepOf DEF ScriptSteps, NotHolding
<1>3. VmTypes'
  BY <1>1, HolderStands DEF VmTypes, vmVars
<1>4. TakenDown => TakenDown'
  BY <1>1, <1>2, HolderStaysDown
<1>5. OnlyRefusalsRemove' /\ (link' = Nothing => prev' = Nothing \/ TakenDown')
  BY <1>1, <1>4, HolderStands DEF OnlyRefusalsRemove, vmVars
<1>6. mishaps' \in 0..MaxMishaps
  BY <1>1, HolderStands, DeployAssumption
<1>7. Fits(op[d], s) /\ s.at \in NotHolding
  <2>1. script[d].at # "none" /\ Fits(op[d], script[d])
    BY <1>1, HolderStands DEF NotHolding
  <2> QED
    BY <1>2, <2>1 DEF Fits, NoScript, Installing, Restoring, NotHolding
<1> QED
  BY <1>1, <1>2, <1>3, <1>5, <1>6, <1>7, HolderStep

LEMMA TakeLockInv ==
  ASSUME DeployIInv, NEW d \in Deployments, TakeLock(d)
  PROVE  DeployIInv'
<1>1. /\ script[d].at = "start"
      /\ UNCHANGED << link, build, prev, releases, incoming, secrets, running >>
      /\ UNCHANGED << fileLock, op, mishaps, services, alarm, clobbered >>
      /\ script \in [Deployments -> ScriptRow]
  BY DEF TakeLock, DeployIInv, DeployTypes
<1>2. CASE LockIsFree(d)
  <2> DEFINE s == [script[d] EXCEPT !.at = "locked", !.base = link]
  <2>1. vmLock' = d /\ script' = [script EXCEPT ![d].at = "locked", ![d].base = link]
    BY <1>2 DEF TakeLock
  <2>2. script' = [script EXCEPT ![d] = s]
    BY <1>1, <2>1
  <2>3. s \in ScriptRow
    <3>1. "locked" \in ScriptSteps /\ link \in Pointers
      BY DeploymentStands DEF ScriptSteps, VmTypes
    <3> QED
      BY <1>1, <3>1 DEF ScriptRow
  <2>4. s.at = "locked" /\ s.kind = script[d].kind /\ s.base = link /\ script'[d] = s
    BY <1>1, <2>2 DEF ScriptRow
  <2> HIDE DEF s
  <2>5. Holders = {} /\ (vmLock # Nobody => alarm)
    <3>1. CASE vmLock = Nobody
      BY <3>1, DeployAssumption DEF DeployIInv, OneScriptAtATime, Holders, Nobody
    <3>2. CASE vmLock \in {e \in Deployments : script[e].at = "dead"}
      <4>1. vmLock \notin Holders /\ alarm
        BY <3>2 DEF DeployIInv, Holders
      <4> QED
        BY <4>1 DEF DeployIInv, OneScriptAtATime
    <3> QED
      BY <1>2, <3>1, <3>2 DEF LockIsFree
  <2>6. alarm \/ Settled
    BY <2>5 DEF DeployIInv
  <2>7. \A e \in Deployments \ {d} : script'[e] = script[e]
    BY <1>1, <2>2
  <2>8. Holders' = {d}
    BY <2>4, <2>5, <2>7 DEF Holders
  <2>9. DeployTypes'
    BY <1>1, <2>1, <2>2, <2>3 DEF DeployIInv, DeployTypes, VmTypes
  <2>10. OneScriptAtATime'
    BY <2>1, <2>8 DEF OneScriptAtATime
  <2>11. Fits(op[d], s)
    BY <1>1, <2>4, DeploymentStands DEF Fits, NoScript, Installing, Restoring
  <2>12. \A e \in Deployments : /\ Fits(op'[e], script'[e])
                                /\ script'[e].at = "dead" => alarm'
    BY <1>1, <2>4, <2>7, <2>11 DEF DeployIInv
  <2>13. TakenDown => TakenDown'
    BY <1>1, <2>2, StaysDown
  <2>14. HolderStage(d)'
    <3>1. PointersStand(d)'
      BY <1>1, <2>4 DEF PointersStand, Installing, Restoring
    <3>2. PreviousStands(d)'
      BY <2>4 DEF PreviousStands, Installing
    <3>3. (alarm \/ NothingElseRuns(d))'
      BY <1>1, <2>4, <2>6 DEF NothingElseRuns, Settled, Restoring
    <3> QED
      BY <3>1, <3>2, <3>3 DEF HolderStage
  <2>15. OnlyRefusalsRemove' /\ (link' = Nothing => prev' = Nothing \/ TakenDown')
    BY <1>1, <2>13 DEF DeployIInv, OnlyRefusalsRemove
  <2>16. \A e \in Holders' : HolderStage(e)'
    BY <2>8, <2>14
  <2> QED
    BY <2>8, <2>9, <2>10, <2>12, <2>15, <2>16 DEF DeployIInv
<1>3. CASE ~LockIsFree(d)
  <2>1. At(d, "failed") /\ UNCHANGED vmLock
    BY <1>3 DEF TakeLock
  <2>2. PICK s \in ScriptRow :
           /\ script' = [script EXCEPT ![d] = s] /\ s.at = "failed" /\ s.kind = script[d].kind
    BY <2>1, NextStepOf DEF ScriptSteps, NotHolding
  <2>3. Fits(op[d], s) /\ script[d].at \in NotHolding /\ script[d].at # "ok"
    BY <1>1, <2>2, DeploymentStands DEF Fits, NoScript, Installing, Restoring, NotHolding
  <2>4. /\ UNCHANGED << link, build, prev, releases, secrets, running, vmLock, clobbered,
                        services >>
        /\ incoming' \subseteq Deployments /\ mishaps' \in 0..MaxMishaps /\ alarm' \in BOOLEAN
        /\ (alarm => alarm')
        /\ \A c \in Checkouts : fileLock'[c] \in {Nobody} \cup Deployments
        /\ op' = [op EXCEPT ![d] = op[d]] /\ op[d] \in OpRow
    BY <1>1, <2>1, DeploymentStands DEF VmTypes
  <2> QED
    BY <2>2, <2>3, <2>4, OperatorStep
<1> QED
  BY <1>2, <1>3

\* service.sh, while no deployment holds the lock.
LEMMA ServiceInv ==
  ASSUME DeployIInv, Service \/ ServiceEnds
  PROVE  DeployIInv'
<1>1. /\ UNCHANGED << link, build, prev, releases, incoming, secrets >>
      /\ UNCHANGED << fileLock, op, script, mishaps, alarm, clobbered >>
      /\ vmLock \in {Nobody, "service"} /\ vmLock' \in {Nobody, "service"}
      /\ services' \in 0..MaxServices
      /\ running' = running \/ running' \in {link, Nothing, Unsure}
  BY DeployAssumption DEF Service, ServiceEnds, DeployIInv, DeployTypes
<1>2. Holders = {} /\ Holders' = Holders
  BY <1>1, DeployAssumption DEF DeployIInv, OneScriptAtATime, Holders, Nobody
<1>3. DeployTypes'
  BY <1>1 DEF DeployIInv, DeployTypes, VmTypes, Pointers
<1>4. TakenDown' = TakenDown
  BY <1>1 DEF TakenDown
<1>5. alarm' \/ Settled'
  BY <1>1, <1>2 DEF DeployIInv, Settled
<1>6. OneScriptAtATime' /\ \A d \in Holders' : HolderStage(d)'
  BY <1>2 DEF OneScriptAtATime
<1>7. OnlyRefusalsRemove' /\ (link' = Nothing => prev' = Nothing \/ TakenDown')
  BY <1>1, <1>4 DEF DeployIInv, OnlyRefusalsRemove
<1>8. \A d \in Deployments : Fits(op'[d], script'[d]) /\ (script'[d].at = "dead" => alarm')
  BY <1>1 DEF DeployIInv
<1> QED
  BY <1>3, <1>5, <1>6, <1>7, <1>8 DEF DeployIInv

LEMMA DeployInitInv == DeployInit => DeployIInv
<1> SUFFICES ASSUME DeployInit PROVE DeployIInv
  OBVIOUS
<1> DEFINE o == [at |-> "idle", from |-> Nobody, target |-> Nothing,
                 source |-> Nothing, seen |-> Nothing, recover |-> FALSE]
<1>1. /\ link \in {Nothing} \cup Builds /\ build = link /\ running = link
      /\ prev = Nothing /\ releases \subseteq {link} \ {Nothing}
      /\ clobbered = {link} \ (releases \cup {Nothing})
      /\ incoming = {} /\ secrets = {} /\ vmLock = Nobody
      /\ fileLock = [c \in Checkouts |-> Nobody]
      /\ op = [d \in Deployments |-> o] /\ script = [d \in Deployments |-> NoScript]
      /\ mishaps = 0 /\ services = 0 /\ alarm = FALSE
  BY DEF DeployInit
<1>2. o \in OpRow /\ NoScript \in ScriptRow /\ Fits(o, NoScript)
  BY DEF OpRow, OpSteps, NoScript, ScriptRow, ScriptSteps, NotHolding, Pointers, Fits,
         Installing, Restoring
<1> HIDE DEF o
<1>3. 0 \in 0..MaxMishaps /\ 0 \in 0..MaxServices
  BY DeployAssumption
<1>4. VmTypes
  BY <1>1 DEF VmTypes, Pointers
<1>5. DeployTypes
  BY <1>1, <1>2, <1>3, <1>4 DEF DeployTypes
<1>6. \A d \in Deployments : script[d].at = "none" /\ Fits(op[d], script[d])
  BY <1>1, <1>2 DEF NoScript
<1>7. Holders = {}
  BY <1>6 DEF Holders
<1>8. Settled /\ OnlyRefusalsRemove
  BY <1>1 DEF Settled, OnlyRefusalsRemove
<1>9. OneScriptAtATime /\ \A d \in Holders : HolderStage(d)
  BY <1>7 DEF OneScriptAtATime
<1> QED
  BY <1>1, <1>5, <1>6, <1>8, <1>9 DEF DeployIInv

LEMMA DeployStep == DeployIInv /\ [DeployNext]_deployVars => DeployIInv'
<1> SUFFICES ASSUME DeployIInv, [DeployNext]_deployVars PROVE DeployIInv'
  OBVIOUS
<1>1. ASSUME NEW d \in Deployments,
             \/ Begin(d) \/ Preflight(d) \/ Upload(d) \/ Launch(d) \/ GivesUp(d)
             \/ Verified(d) \/ Unverified(d) \/ Reports(d) \/ OperatorDies(d)
      PROVE  DeployIInv'
  <2>1. CASE Begin(d)
    BY <2>1, BeginInv
  <2>2. CASE Preflight(d)
    BY <2>2, PreflightInv
  <2>3. CASE Upload(d)
    BY <2>3, UploadInv
  <2>4. CASE Launch(d) \/ Unverified(d)
    BY <2>4, LaunchInv
  <2>5. CASE GivesUp(d) \/ Verified(d) \/ Reports(d) \/ OperatorDies(d)
    BY <2>5, OperatorEndsInv
  <2> QED
    BY <1>1, <2>1, <2>2, <2>3, <2>4, <2>5
<1>2. ASSUME NEW d \in Deployments,
             \/ TakeLock(d) \/ Refuse(d) \/ Install(d) \/ Activate(d)
             \/ MovePrevious(d) \/ MoveCurrent(d) \/ CommitBuild(d) \/ Prune(d)
      PROVE  DeployIInv'
  <2>1. CASE TakeLock(d)
    BY <2>1, TakeLockInv
  <2>2. CASE Refuse(d)
    BY <2>2, RefuseInv
  <2>3. CASE Install(d)
    BY <2>3, InstallInv
  <2>4. CASE Activate(d)
    BY <2>4, ActivateInv
  <2>5. CASE MovePrevious(d)
    BY <2>5, MovePreviousInv
  <2>6. CASE MoveCurrent(d)
    BY <2>6, MoveCurrentInv
  <2>7. CASE CommitBuild(d)
    BY <2>7, CommitBuildInv
  <2>8. CASE Prune(d)
    BY <2>8, PruneInv
  <2> QED
    BY <1>2, <2>1, <2>2, <2>3, <2>4, <2>5, <2>6, <2>7, <2>8
<1>3. ASSUME NEW d \in Deployments,
             \/ InstallFails(d) \/ ActivationFails(d) \/ RestoreIsImpossible(d)
             \/ RestoreUp(d) \/ RestorePrevious(d) \/ RestoreCurrent(d)
             \/ RestoreBuild(d) \/ RestoreFails(d) \/ Deactivate(d) \/ ScriptDies(d)
      PROVE  DeployIInv'
  <2>1. CASE InstallFails(d)
    BY <2>1, InstallFailsInv
  <2>2. CASE ActivationFails(d)
    BY <2>2, ActivationFailsInv
  <2>3. CASE RestoreIsImpossible(d)
    BY <2>3, RestoreIsImpossibleInv
  <2>4. CASE RestoreUp(d)
    BY <2>4, RestoreUpInv
  <2>5. CASE RestorePrevious(d)
    BY <2>5, RestorePreviousInv
  <2>6. CASE RestoreCurrent(d)
    BY <2>6, RestoreCurrentInv
  <2>7. CASE RestoreBuild(d)
    BY <2>7, RestoreBuildInv
  <2>8. CASE RestoreFails(d)
    BY <2>8, RestoreFailsInv
  <2>9. CASE Deactivate(d)
    BY <2>9, DeactivateInv
  <2>10. CASE ScriptDies(d)
    BY <2>10, ScriptDiesInv
  <2> QED
    BY <1>3, <2>1, <2>2, <2>3, <2>4, <2>5, <2>6, <2>7, <2>8, <2>9, <2>10
<1>4. CASE Service \/ ServiceEnds
  BY <1>4, ServiceInv
<1>5. CASE UNCHANGED deployVars
  <2>1. /\ UNCHANGED << link, build, prev, releases, incoming, secrets, running, vmLock >>
        /\ UNCHANGED << fileLock, op, script, mishaps, services, alarm, clobbered >>
    BY <1>5 DEF deployVars, vmVars
  <2>2. DeployTypes' /\ OneScriptAtATime' /\ OnlyRefusalsRemove' /\ Holders' = Holders
    BY <2>1 DEF DeployIInv, DeployTypes, VmTypes, OneScriptAtATime, Holders,
                OnlyRefusalsRemove, TakenDown
  <2>3. \A d \in Holders' : HolderStage(d)'
    BY <2>1, <2>2 DEF DeployIInv, HolderStage, PointersStand, PreviousStands, NothingElseRuns,
                      TakenDown
  <2>4. /\ \A d \in Deployments : Fits(op'[d], script'[d]) /\ (script'[d].at = "dead" => alarm')
        /\ link' = Nothing => prev' = Nothing \/ TakenDown'
    BY <2>1 DEF DeployIInv, TakenDown
  <2>5. Holders' = {} => alarm' \/ Settled'
    BY <2>1, <2>2 DEF DeployIInv, Settled
  <2> QED
    BY <2>2, <2>3, <2>4, <2>5 DEF DeployIInv
<1> QED
  BY <1>1, <1>2, <1>3, <1>4, <1>5 DEF DeployNext

\* However many operators deploy, roll back, start and stop the service, lose their connection
\* or die, and wherever scripts fail, are signalled or killed: one script changes the VM at a
\* time; it activates over exactly the build its preflight checked; whenever the lock is free and
\* nothing has told an operator otherwise, the two records of the active build agree, nothing
\* else is known to run, and no migration credentials are left; and only refused deployments
\* take away the active release, or the one before it.
THEOREM DeploymentIsSafe == DeploySpec => []DeployInv
<1> QED
  BY DeployInitInv, DeployStep, DeployIInvIsEnough, PTL DEF DeploySpec

===============================================================================
