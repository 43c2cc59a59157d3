--------------------------- MODULE PresentationRoom ---------------------------
(* The durable record of a live Presentation in PostgreSQL and the            *)
(* transactions on it (presentation-session-postgres.ts, -rules.ts), with the *)
(* transitions that the service computes for them                             *)
(* (presentation-live-mutation-service.ts). Every transaction locks the       *)
(* session's row, so it is one step.                                          *)
EXTENDS Naturals, Sequences, SequencesExt, FiniteSets

CONSTANTS
    Decks,              \* the blocks of the versions that may be presented
    Insertion,          \* insertion command kind -> the blocks it inserts
    Participants,
    ParticipantLimit,   \* entitlement of the workspace's plan
    TimeLimit,          \* seconds of every question
    LiveExpiresAt,
    MaxTime,            \* bound of the clock
    None

Kinds == {"content", "question"}

\* A block; recheck is the linked recheck of a main question.
Block(id, kind, recheck) == [id |-> id, kind |-> kind, recheck |-> recheck]

Phases == {"lobby", "content", "question_open", "question_reveal", "intervention", "finished"}

ASSUME RoomAssumption ==
    /\ ParticipantLimit \in Nat /\ TimeLimit \in Nat \ {0}
    /\ LiveExpiresAt \in Nat /\ MaxTime \in Nat /\ None \notin Nat

Insertions == {"quick", "pack", "published"}

IdsOf(blocks) == {blocks[i].id : i \in DOMAIN blocks}

\* The blocks of a version, and those of an insertion, have ids of their own; an
\* inserted question has no recheck, or the one that follows it in its Recovery Pack.
ASSUME BlocksAssumption ==
    /\ DOMAIN Insertion = Insertions
    /\ \A blocks \in Decks \cup {Insertion[kind] : kind \in Insertions} :
          /\ blocks \in Seq({blocks[i] : i \in DOMAIN blocks})
          /\ \A i, j \in DOMAIN blocks : blocks[i].id = blocks[j].id => i = j
    /\ \A kind \in Insertions :
          /\ Insertion[kind] # << >>
          /\ \A i \in DOMAIN Insertion[kind] :
                \/ Insertion[kind][i].recheck = None
                \/ i + 1 \in DOMAIN Insertion[kind]
                   /\ Insertion[kind][i].recheck = Insertion[kind][i + 1].id
          /\ \A other \in Insertions \ {kind} :
                IdsOf(Insertion[kind]) \cap IdsOf(Insertion[other]) = {}
          /\ \A deck \in Decks : \A i \in DOMAIN deck :
                {deck[i].id, deck[i].recheck} \cap IdsOf(Insertion[kind]) = {}

VARIABLES
    room,           \* the row of presentation_live_sessions
    timeline,       \* presentation_session_timeline
    receipts,       \* presentation_session_command_receipts
    roster,         \* presentation_live_participants
    responses,      \* presentation_live_responses
    fenced,         \* workspaces.deletion_started_at is set
    clock

roomVars == << room, timeline, receipts, roster, responses, fenced, clock >>

\* A session that these participants have joined.
RoomInit(joined) ==
    /\ room \in [phase : {"lobby"}, index : {0}, status : {"active"}, revision : {0},
                blocks : Decks, card : {None}, opened : {None}, closes : {None},
                flex : BOOLEAN]
    /\ timeline = << >> /\ receipts = {} /\ roster = joined /\ responses = {}
    /\ fenced = FALSE /\ clock = 0

Current(r) == IF r.index = 0 THEN None ELSE r.blocks[r.index]

CurrentId(r) == IF r.index = 0 THEN None ELSE r.blocks[r.index].id

Expired == clock >= LiveExpiresAt

\* The public sequence of the session is derived, so that answers need not
\* update its row: every commit adds one, and a reader sees committed rows only.
EventSeq(r, joined, answers) == r.revision + Cardinality(joined) + Cardinality(answers)

-------------------------------------------------------------------------------
(* The transitions a command asks for, computed from a session read earlier.  *)

To(r, phase, index, blocks) ==
    [phase |-> phase, index |-> index, blocks |-> blocks, card |-> None,
     status |-> IF phase = "finished" THEN "finished" ELSE "active"]

Present(r, index, blocks) ==
    To(r, IF blocks[index].kind = "content" THEN "content" ELSE "question_open", index, blocks)

BranchesToRecheck(r) == r.phase = "question_reveal" /\ Current(r).recheck # None

NextTransition(r) ==
    CASE r.phase = "question_open" -> To(r, "question_reveal", r.index, r.blocks)
      [] BranchesToRecheck(r) -> To(r, "intervention", r.index, r.blocks)
      [] OTHER -> IF r.index < Len(r.blocks) THEN Present(r, r.index + 1, r.blocks)
                  ELSE To(r, "finished", r.index, r.blocks)

\* Linked recovery stays indivisible, also across intervening blocks: nothing is
\* inserted while the recheck of a question already presented is still to come.
ClosedInsertionBoundary(r) ==
    /\ r.status = "active"
    /\ \/ r.phase = "lobby"
       \/ /\ r.phase \in {"content", "question_reveal"}
          /\ \A i \in 1..r.index, j \in (r.index + 1)..Len(r.blocks) :
                r.blocks[i].recheck # r.blocks[j].id

InsertionTransition(r, kind) ==
    LET at == r.index + 1
        before == SubSeq(r.blocks, 1, r.index)
        after == SubSeq(r.blocks, at, Len(r.blocks))
    IN  To(r, "question_open", at, before \o Insertion[kind] \o after)

\* Cards are frozen with the block that a Recovery Pack inserted.
HasCards(r) == \E i \in DOMAIN Insertion["pack"] : CurrentId(r) = Insertion["pack"][i].id
                                                    /\ Current(r).recheck # None

CardTransition(r) == [To(r, "intervention", r.index, r.blocks) EXCEPT !.card = CurrentId(r)]

Inserted(r, kind) ==
    \E i \in DOMAIN r.blocks, j \in DOMAIN Insertion[kind] : r.blocks[i].id = Insertion[kind][j].id

Allowed(r, kind) ==
    CASE kind = "advance" -> r.phase # "finished"
      [] kind = "card" -> r.status = "active" /\ r.phase = "question_reveal" /\ HasCards(r)
      [] kind = "quick" -> ~Inserted(r, "quick") /\ ClosedInsertionBoundary(r)
      [] OTHER -> ClosedInsertionBoundary(r)

Transition(r, kind) ==
    CASE kind = "advance" -> NextTransition(r)
      [] kind = "card" -> CardTransition(r)
      [] OTHER -> InsertionTransition(r, kind)

-------------------------------------------------------------------------------
(* applyTransition, once the row is locked and its revision is the expected.  *)

Window(t) ==
    IF t.phase # "question_open" THEN [opened |-> None, closes |-> None]
    ELSE [opened |-> clock, closes |-> IF room.flex THEN None ELSE clock + TimeLimit]

Moved(t) ==
    [phase |-> t.phase, index |-> t.index, status |-> t.status, blocks |-> t.blocks,
     card |-> t.card, revision |-> room.revision + 1, flex |-> room.flex,
     opened |-> Window(t).opened, closes |-> Window(t).closes]

Entry(t, cmd) ==
    [seq |-> EventSeq(Moved(t), roster, responses), phase |-> t.phase, at |-> clock,
     index |-> t.index, block |-> IF t.index = 0 THEN None ELSE t.blocks[t.index].id,
     cmd |-> cmd]

ApplyTransition(t, cmd) ==
    /\ room' = Moved(t)
    /\ timeline' = Append(timeline, Entry(t, cmd))

\* The compatibility endpoint of a host without a control pass has no receipt:
\* its check of the revision alone makes it safe to repeat.
AdvanceByRest ==
    /\ ~fenced /\ ~Expired /\ room.phase # "finished"
    /\ ApplyTransition(NextTransition(room), None)
    /\ UNCHANGED << receipts, roster, responses, fenced, clock >>

JoinParticipantWithinLimit(p) ==
    /\ ~fenced /\ room.status = "active" /\ ~Expired
    /\ p \notin roster /\ Cardinality(roster) < ParticipantLimit
    /\ roster' = roster \cup {p}
    /\ UNCHANGED << room, timeline, receipts, responses, fenced, clock >>

\* Mistaken: it trusts that a question past its deadline is no longer open.
OpenByPhase(a) ==
    /\ room.status = "active" /\ room.phase = "question_open" /\ room.revision = a.expected
    /\ a.at < LiveExpiresAt /\ room.opened <= a.at /\ CurrentId(room) = a.block

\* The eligible_session of acceptResponse's INSERT.
ResponseWindowOpen(a) ==
    /\ room.status = "active" /\ room.phase = "question_open" /\ room.revision = a.expected
    /\ a.at < LiveExpiresAt /\ room.opened <= a.at
    /\ room.closes # None => a.at <= room.closes
    /\ CurrentId(room) = a.block

\* One answer per participant and block, whatever its key.
Unanswered(a) == \A other \in responses : other.p # a.p \/ other.block # a.block

StartWorkspaceDeletion ==
    /\ ~fenced /\ fenced' = TRUE
    /\ UNCHANGED << room, timeline, receipts, roster, responses, clock >>

Tick ==
    /\ clock < MaxTime /\ clock' = clock + 1
    /\ UNCHANGED << room, timeline, receipts, roster, responses, fenced >>

-------------------------------------------------------------------------------
RoomTypeOK ==
    /\ room.phase \in Phases /\ room.status \in {"active", "finished"}
    /\ room.revision = Len(timeline) /\ room.index \in 0..Len(room.blocks)
    /\ (room.status = "finished") = (room.phase = "finished")
    /\ roster \subseteq Participants /\ clock \in 0..MaxTime /\ fenced \in BOOLEAN

\* The timeline still names the blocks that were presented: insertions never
\* move a block that has already been shown, whatever session they were
\* computed from, and its sequence increases with every transition.
TimelineNamesBlocks ==
    /\ \A k \in DOMAIN timeline :
          timeline[k].index # 0 => room.blocks[timeline[k].index].id = timeline[k].block
    /\ \A j, k \in DOMAIN timeline : j < k => timeline[j].seq < timeline[k].seq

\* Once a question with a linked recheck has been presented, nothing is inserted
\* between the two that was not there already.
RechecksStayLinked ==
    \A i, j \in DOMAIN room.blocks :
        (/\ room.blocks[i].recheck # None /\ room.blocks[i].recheck = room.blocks[j].id
         /\ i < j /\ i <= room.index)
        => \A kind \in DOMAIN Insertion, m \in (i + 1)..(j - 1) :
              room.blocks[m] \notin ToSet(Insertion[kind])

\* Every accepted answer is for a question that was presented, was received in
\* the window that the timeline records, was timed from its opening, and is the
\* only answer of its participant to it.
AnswersAreTimely ==
    \A a \in responses :
        /\ a.expected \in DOMAIN timeline
        /\ LET e == timeline[a.expected]
           IN  /\ e.phase = "question_open" /\ e.block = a.block
               /\ e.at <= a.at /\ (room.flex \/ a.at <= e.at + TimeLimit)
               /\ a.elapsed = a.at - e.at
        /\ \A other \in responses : other.p = a.p /\ other.block = a.block => other = a

\* The room's durable record stays coherent.
RoomInv == RoomTypeOK /\ TimelineNamesBlocks /\ RechecksStayLinked
===============================================================================
