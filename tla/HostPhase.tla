------------------------------- MODULE HostPhase -------------------------------
(***************************************************************************)
(* The controls a host is offered, packages/rehearsal/src/host-phase.ts    *)
(* and apps/web/lib/legacy-host-phase.ts: rules over a snapshot, written   *)
(* apart from the guards of the engine they are sent to.  A view is a      *)
(* primary command and secondary ones; labels are left out.                *)
(*                                                                         *)
(* What the insight of a snapshot recommends is any recommendation.        *)
(***************************************************************************)
EXTENDS SnapshotProjection

CONSTANT LinkedRecheck       \* per checkpoint, its linked recheck or NoRound

\* QuizContentSchema: only a main checkpoint has a linked recheck, and it stands later.
ASSUME LinkAssumption ==
    \A i \in DOMAIN Quiz : LinkedRecheck[i] # NoRound =>
        /\ i \in MainQuestions
        /\ LinkedRecheck[i] \in RecheckQuestions /\ LinkedRecheck[i] > i

Command(action) == [action |-> action, type |-> "none", mode |-> "none"]
Intervene(type) == [action |-> "intervention.start", type |-> type, mode |-> "none"]
Recheck(mode) == [action |-> "recheck.open", type |-> "none", mode |-> mode]

\* suggestedIntervention: nothing, or the intervention of a strong recommendation.
Suggestions == {"none", "peer_discussion", "example", "explain"}

\* snapshot.intervention is a discussion that is over.
PeerDiscussionFinished == intervention.type = "peer_discussion" /\ intervention.finished

InterventionFinished == intervention # NoIntervention /\ intervention.finished

LinkedAvailable ==
    current.questionIndex # NoRound /\ LinkedRecheck[current.questionIndex] # NoRound

OnMain == current.roundKind = "main"

View(primary, secondary) == [primary |-> primary, secondary |-> secondary]

\* Mistaken: the discussion is offered whatever went before it.
LockedViewAgain(suggestion) ==
    IF OnMain /\ suggestion = "peer_discussion"
    THEN View(Intervene("peer_discussion"), {Command("reveal")})
    ELSE View(Command("reveal"), IF OnMain THEN {Intervene("peer_discussion")} ELSE {})

\* getHostPhaseView: question_locked
LockedView(suggestion) ==
    LET mayDiscuss == OnMain /\ ~PeerDiscussionFinished
    IN  IF mayDiscuss /\ suggestion = "peer_discussion"
        THEN View(Intervene("peer_discussion"), {Command("reveal")})
        ELSE View(Command("reveal"),
                  IF mayDiscuss THEN {Intervene("peer_discussion")} ELSE {})

\* Mistaken: a suggested discussion is still offered after the reveal.
ChooseViewSuggesting(suggestion) ==
    LET primary == IF suggestion = "none" THEN Command("next") ELSE Intervene(suggestion)
    IN  View(primary, {Intervene("explain"), Intervene("example"), Command("next")} \ {primary})

\* getHostPhaseView: question_reveal of a main round nothing followed yet
ChooseView(suggestion) ==
    LET primary == IF suggestion \in {"none", "peer_discussion"} THEN Command("next")
                   ELSE Intervene(suggestion)
        standings == IF ResultVisibility = "leaderboard" THEN {Command("show_leaderboard")}
                     ELSE {}
    IN  View(primary, ({Intervene("explain"), Intervene("example"), Command("next")}
                           \cup standings) \ {primary})

RevealView(suggestion) ==
    IF ~OnMain THEN View(Command("next"), {})
    ELSE IF InterventionFinished
         THEN View(Recheck(IF LinkedAvailable THEN "linked" ELSE "revote"), {Command("next")})
         ELSE ChooseView(suggestion)

\* getHostPhaseView
HostPhaseView(suggestion) ==
    CASE phase = "lobby" -> View(Command("start"), {})
      [] phase = "question_open" -> View(Command("lock"), {Command("pause")})
      [] phase = "paused" -> View(Command("resume"), {Command("lock")})
      [] phase = "question_locked" -> LockedView(suggestion)
      [] phase = "question_reveal" -> RevealView(suggestion)
      [] phase = "intervention" -> View(Command("intervention.finish"), {})
      [] phase = "leaderboard" -> View(Command("next"), {})
      [] phase = "finished" -> View(Command("none"), {})

RecheckModes == {"revote"} \cup (IF LinkedAvailable THEN {"linked"} ELSE {})

\* getLegacyPhaseActions
LegacyPhaseActions ==
    CASE phase = "lobby" -> {Command("start")}
      [] phase = "question_open" -> {Command("pause"), Command("lock")}
      [] phase = "paused" -> {Command("resume"), Command("lock")}
      [] phase = "question_locked" -> {Command("reveal")}
      [] phase = "question_reveal" -> {Command("show_leaderboard"), Command("next")}
      [] phase = "intervention" -> {Command("intervention.finish")}
      [] phase = "leaderboard" -> {Command("next")}
      [] OTHER -> {}

\* getLegacyRecoveryActions
LegacyRecoveryActions ==
    IF ~OnMain THEN {}
    ELSE CASE phase = "question_locked" ->
                  {Intervene("peer_discussion")} \cup {Recheck(mode) : mode \in RecheckModes}
           [] phase = "question_reveal" ->
                  {Intervene("explain"), Intervene("example")}
                      \cup {Recheck(mode) : mode \in RecheckModes}
           [] OTHER -> {}

\* The commands isLegalHostPhaseCommand lets through, and those of the older controls.
Offered(suggestion) ==
    LET view == HostPhaseView(suggestion)
    IN  (({view.primary} \ {Command("none")}) \cup view.secondary)
            \cup LegacyPhaseActions \cup LegacyRecoveryActions

\* createHostCommandController: execute, the command as the engine is given it; the recheck
\* checkpoint is left to the engine's default, the checkpoint's own link.
Execute(command) ==
    CASE command.action = "start" -> Start
      [] command.action = "pause" -> Pause
      [] command.action = "resume" -> Resume
      [] command.action = "lock" -> Lock
      [] command.action = "reveal" -> Reveal
      [] command.action = "intervention.start" -> InterventionStart(command.type, NoRound)
      [] command.action = "intervention.finish" -> InterventionFinish
      [] command.action = "recheck.open" /\ command.mode = "linked" ->
             OpenLinkedRecheck(LinkedRecheck[current.questionIndex])
      [] command.action = "recheck.open" /\ command.mode = "revote" -> OpenRevote
      [] command.action = "show_leaderboard" -> ShowLeaderboard
      [] command.action = "next" -> NextQuestion \/ NextFinishes

-------------------------------------------------------------------------------
(* Properties *)

\* How far the session is along the path of its current main checkpoint.
Stage ==
    CASE phase = "paused" -> IF OnMain THEN 1 ELSE 10
      [] phase = "question_open" -> IF OnMain THEN 2 ELSE 11
      [] phase = "question_locked" ->
             IF ~OnMain THEN 12 ELSE IF PeerDiscussionFinished THEN 6 ELSE 4
      [] phase = "intervention" ->
             IF interventionReturnPhase = "question_reveal" THEN 8
             ELSE IF intervention.type = "peer_discussion" THEN 5 ELSE 3
      [] phase = "question_reveal" -> IF ~OnMain THEN 13 ELSE IF InterventionFinished THEN 9 ELSE 7
      [] phase = "leaderboard" -> 14
      [] OTHER -> 0

Progress ==
    CASE phase = "lobby" -> 0
      [] phase = "finished" -> 20 * (Len(Quiz) + 1)
      [] OTHER -> 20 * SourcePosition + Stage

\* Every command a host is offered, by either set of controls and whatever the insight
\* suggests, is one the engine accepts in that state: after interventions, rechecks and
\* breaks too, no button ends in a refusal (getHostPhaseView against applyHostCommand).
OfferedCommandsApply ==
    \A suggestion \in Suggestions : \A command \in Offered(suggestion) :
        /\ version < MaxVersion
        /\ command.action = "intervention.start" => Len(interventions) < MaxInterventions
        => ENABLED Execute(command)

\* A host who keeps pressing the primary button gets to the finish: the primary command
\* always leads further along the session, and only a finished session has none, so the
\* suggestions cannot send a room round in circles (getHostPhaseView).
PrimaryLeadsOn ==
    [][ \A suggestion \in Suggestions :
            LET primary == HostPhaseView(suggestion).primary
            IN  /\ primary = Command("none") <=> phase = "finished"
                /\ primary # Command("none") /\ Execute(primary) => Progress' > Progress ]_vars
===============================================================================
