--------------------------- MODULE PracticeAttempts ---------------------------
(***************************************************************************)
(* A self-paced attempt at a practice (apps/server/src/followup-service.ts *)
(* and its rows in packages/db/src/postgres.ts), opened from one personal  *)
(* pass in several tabs (apps/web/app/followup/[id]/page.tsx with          *)
(* apps/web/lib/followup-command-recovery.ts).  A response is named by the *)
(* command that carries it; every command names the version it is for.     *)
(***************************************************************************)
EXTENDS Naturals, Sequences, SequencesExt

CONSTANTS
    Tabs,           \* the tabs of the pass
    Unheard,         \* who waits for a request whose tab gave it up
    Questions,      \* questions of the practice
    Cards,          \* intervention cards after the first (0: not a full sequence)
    Limit,          \* time for a question (0: time-flex)
    MaxTime, MaxCommands,   \* bounds: the clock, commands of a tab,
    MaxTroubles             \* requests given up, reloads and closings, together

ASSUME PracticeAssumption ==
    /\ Unheard \notin Tabs /\ Questions \in Nat \ {0} /\ Cards \in Nat /\ Limit \in Nat
    /\ MaxTime \in Nat /\ MaxCommands \in Nat /\ MaxTroubles \in Nat

VARIABLES
    attempt,    \* followup_attempts: version, phase, index, card and due (0: no deadline)
    answered,   \* followup_answers: question, command, when, and the deadline it had
    receipts,   \* advance_receipts: the commands
    shut,       \* of the pass and the practice: "no", "revoked" or "closed"
    tab,        \* per tab: what it shows, its pending command, snapshotSyncRequired, saved token
    request,    \* per tab, and for the one given up: its request
    clock,
    issued,     \* per tab, commands made so far
    troubles,   \* requests given up, reloads and closings
    moves,      \* history: per version, the command that ended it, or NoCommand for time
    refused     \* history: a command refused while an earlier copy of it was still under way

rowVars == << attempt, answered, receipts, moves >>
tabVars == << tab, issued, refused >>
practiceVars == << rowVars, shut, tabVars, request, clock, troubles >>

NoCommand == [tab |-> Unheard, n |-> 0, action |-> "none", expected |-> 0]
NoView == [version |-> 0, phase |-> "none", index |-> 0, card |-> 0, response |-> {}]
NoRow == [version |-> 0, phase |-> "none", index |-> 0, card |-> 0, due |-> 0]
NoRequest == [kind |-> "none", command |-> NoCommand, stage |-> "none", at |-> 0,
              row |-> NoRow, status |-> "none", view |-> NoView]

Sent(kind, command) ==
    [NoRequest EXCEPT !.kind = kind, !.command = command, !.stage = "sent", !.at = clock]

PracticeInit ==
    /\ attempt = NoRow /\ answered = {} /\ receipts = {} /\ moves = <<>> /\ shut = "no"
    /\ tab = [t \in Tabs |->
                 [view |-> NoView, pending |-> NoCommand, unsure |-> FALSE, token |-> FALSE]]
    /\ issued = [t \in Tabs |-> 0] /\ refused = NoCommand
    /\ request = [w \in Tabs \cup {Unheard} |-> NoRequest] /\ clock = 0 /\ troubles = 0
-----------------------------------------------------------------------------
(* Where an attempt goes                                                   *)

Deadline(at) == IF Limit = 0 THEN 0 ELSE at + Limit
TimedOut(row, at) == row.phase = "question_open" /\ row.due # 0 /\ at > row.due

Revealed(row) == [row EXCEPT !.phase = "answer_reveal", !.version = @ + 1]

Advanced(row, at) ==
    LET enters == Cards > 0 /\ row.phase = "answer_reveal" /\ row.index = 1
        card == IF enters THEN 1
                ELSE IF row.phase = "intervention" /\ row.card < Cards THEN row.card + 1 ELSE 0
        last == card = 0 /\ row.index = Questions
    IN [version |-> row.version + 1,
        phase |-> IF last THEN "completed"
                  ELSE IF card # 0 THEN "intervention" ELSE "question_open",
        index |-> IF last \/ card # 0 THEN row.index ELSE row.index + 1,
        card |-> card,
        due |-> IF last \/ card # 0 THEN 0 ELSE Deadline(at)]

ResponseTo(question) ==
    {a.command : a \in {b \in answered : b.question = question}}

Snapshot(row) ==
    [version |-> row.version, phase |-> row.phase, index |-> row.index, card |-> row.card,
     response |-> IF row.phase = "answer_reveal" THEN ResponseTo(row.index) ELSE {}]
-----------------------------------------------------------------------------
(* The server                                                              *)

Goes(w, stage, row) ==
    request' = [request EXCEPT ![w] =
                   [@ EXCEPT !.stage = stage, !.row = row,
                             !.at = IF stage = "readback" THEN 0 ELSE request[w].at]]

\* A reply nobody waits for is gone.
Replies(w, status, view) ==
    request' = [request EXCEPT ![w] =
                   IF w = Unheard THEN NoRequest
                   ELSE [@ EXCEPT !.stage = "over", !.row = NoRow, !.at = 0,
                                  !.status = status, !.view = view]]

Shutout == IF shut = "revoked" THEN "unauthorized" ELSE "closed"

Applied(command) == \E a \in answered : a.command = command

\* The first reads of a request: the pass, the practice, the attempt, and the receipt of the
\* command.
Reads(w) ==
    LET r == request[w]
        command == r.command
        mayMove == IF r.kind = "answer" THEN attempt.phase = "question_open"
                   ELSE attempt.phase \in {"answer_reveal", "intervention"}
    IN /\ r.stage = "sent"
       /\ IF shut # "no" THEN Replies(w, Shutout, NoView)
          ELSE IF r.kind = "start" THEN Goes(w, "create", NoRow)
          ELSE IF r.kind = "resume"
          THEN IF TimedOut(attempt, r.at) THEN Goes(w, "reveal", attempt)
               ELSE Replies(w, "ok", Snapshot(attempt))
          ELSE IF Applied(command) \/ command \in receipts THEN Goes(w, "readback", NoRow)
          ELSE IF command.expected # attempt.version THEN Replies(w, "stale", NoView)
          ELSE IF TimedOut(attempt, r.at) THEN Goes(w, "reveal", attempt)
          ELSE IF mayMove THEN Goes(w, "move", attempt)
          ELSE Replies(w, "stale", NoView)
       /\ UNCHANGED << rowVars, shut, tabVars, clock, troubles >>

\* createOrGetFollowupAttempt
Creates(w) ==
    LET r == request[w]
        fresh == [NoRow EXCEPT !.phase = "question_open", !.index = 1, !.due = Deadline(r.at)]
    IN /\ r.stage = "create"
       /\ attempt' = IF attempt = NoRow THEN fresh ELSE attempt
       /\ Replies(w, "ok", Snapshot(attempt'))
       /\ UNCHANGED << answered, receipts, moves, shut, tabVars, clock, troubles >>

\* Mistaken: the update does not ask for the version that was read.
AnyVersion(row) == TRUE

SameVersion(row) == attempt.version = row.version

\* revealTimedOutAttempt
Reveals(w) ==
    LET r == request[w]
    IN /\ r.stage = "reveal"
       /\ IF SameVersion(r.row)
          THEN /\ attempt' = Revealed(r.row) /\ moves' = Append(moves, NoCommand)
               /\ Replies(w, "ok", Snapshot(attempt'))
          ELSE Replies(w, "stale", NoView) /\ UNCHANGED << attempt, moves >>
       /\ UNCHANGED << answered, receipts, shut, tabVars, clock, troubles >>

\* commitFollowupAnswer: the receipt, the version and the answer in one transaction.
Answers(w) ==
    LET r == request[w]
        answer == [question |-> r.row.index, command |-> r.command, at |-> r.at,
                   due |-> attempt.due]
    IN /\ r.stage = "move" /\ r.kind = "answer"
       /\ \/ /\ Applied(r.command) /\ Goes(w, "readback", NoRow)
             /\ UNCHANGED << attempt, answered, moves >>
          \/ /\ ~Applied(r.command) /\ SameVersion(r.row)
             /\ attempt' = Revealed(r.row) /\ answered' = answered \cup {answer}
             /\ moves' = Append(moves, r.command) /\ Goes(w, "readback", NoRow)
          \/ /\ ~Applied(r.command) /\ ~SameVersion(r.row) /\ Replies(w, "stale", NoView)
             /\ UNCHANGED << attempt, answered, moves >>
       /\ UNCHANGED << receipts, shut, tabVars, clock, troubles >>

\* advanceFollowupAttempt; a command that comes second is authorized again for its receipt.
Advances(w) ==
    LET r == request[w]
        status == IF shut = "revoked" THEN "unauthorized"
                  ELSE IF r.command \notin receipts THEN "stale"
                  ELSE IF shut = "closed" THEN "closed" ELSE "ok"
    IN /\ r.stage = "move" /\ r.kind = "advance"
       /\ IF SameVersion(r.row) /\ r.command \notin receipts
          THEN /\ attempt' = Advanced(r.row, r.at) /\ receipts' = receipts \cup {r.command}
               /\ moves' = Append(moves, r.command) /\ Goes(w, "readback", NoRow)
          ELSE /\ UNCHANGED << attempt, receipts, moves >>
               /\ Replies(w, status, IF status = "ok" THEN Snapshot(attempt) ELSE NoView)
       /\ UNCHANGED << answered, shut, tabVars, clock, troubles >>

\* currentSnapshot
ReadsBack(w) ==
    /\ request[w].stage = "readback"
    /\ IF shut # "no" THEN Replies(w, Shutout, NoView) ELSE Replies(w, "ok", Snapshot(attempt))
    /\ UNCHANGED << rowVars, shut, tabVars, clock, troubles >>

\* revokeFollowupAccess, and closeFollowup or the closing time.
Shut(how) ==
    /\ shut = "no" /\ shut' = how /\ troubles < MaxTroubles /\ troubles' = troubles + 1
    /\ UNCHANGED << rowVars, tabVars, request, clock >>

Ticks ==
    /\ clock < MaxTime /\ clock' = clock + 1
    /\ UNCHANGED << rowVars, shut, tabVars, request, troubles >>

Serves(w) == Reads(w) \/ Creates(w) \/ Reveals(w) \/ Answers(w) \/ Advances(w) \/ ReadsBack(w)
-----------------------------------------------------------------------------
(* A tab                                                                   *)

Waits(t) == request[t].stage # "none"

Asks(t, kind, command) ==
    /\ ~Waits(t) /\ request' = [request EXCEPT ![t] = Sent(kind, command)]
    /\ UNCHANGED << rowVars, shut, clock, troubles >>

Opens(t) ==
    /\ tab[t].view = NoView
    /\ Asks(t, IF tab[t].token THEN "resume" ELSE "start", NoCommand)
    /\ UNCHANGED tabVars

\* submit and advance
Commands(t) ==
    LET view == tab[t].view
        action == IF view.phase = "question_open" THEN "answer" ELSE "advance"
        command == [tab |-> t, n |-> issued[t] + 1, action |-> action,
                    expected |-> view.version]
    IN /\ view.phase \notin {"none", "completed"} /\ issued[t] < MaxCommands
       /\ tab[t].pending = NoCommand /\ ~tab[t].unsure
       /\ Asks(t, action, command)
       /\ tab' = [tab EXCEPT ![t].pending = command]
       /\ issued' = [issued EXCEPT ![t] = @ + 1] /\ UNCHANGED refused

Retries(t) ==
    /\ tab[t].pending # NoCommand /\ Asks(t, tab[t].pending.action, tab[t].pending)
    /\ UNCHANGED tabVars

Resyncs(t) == tab[t].unsure /\ Asks(t, "resume", NoCommand) /\ UNCHANGED tabVars

Adopts(t, view) ==
    IF view.version >= tab[t].view.version
    THEN [tab[t] EXCEPT !.view = view, !.unsure = FALSE, !.token = TRUE] ELSE tab[t]

\* A reply: a snapshot, a denial that settles the command and asks for the state, or one that
\* leaves it pending.
Receives(t) ==
    LET r == request[t]
        command == r.command # NoCommand
        settled == [Adopts(t, r.view) EXCEPT !.pending = NoCommand]
        denied == r.status \in {"stale", "closed"}
    IN /\ r.stage = "over"
       /\ IF r.status = "ok"
          THEN /\ tab' = [tab EXCEPT ![t] = IF command THEN settled ELSE Adopts(t, r.view)]
               /\ request' = [request EXCEPT ![t] = NoRequest] /\ UNCHANGED refused
          ELSE IF command /\ denied
          THEN /\ tab' = [tab EXCEPT ![t] = [@ EXCEPT !.pending = NoCommand, !.unsure = TRUE]]
               /\ request' = [request EXCEPT ![t] = Sent("resume", NoCommand)]
               /\ refused' = IF r.status = "stale" /\ request[Unheard].command = r.command
                                /\ r.command \notin ToSet(moves)
                             THEN r.command ELSE refused
          ELSE request' = [request EXCEPT ![t] = NoRequest] /\ UNCHANGED << tab, refused >>
       /\ UNCHANGED << rowVars, shut, issued, clock, troubles >>

\* A request fails on its way there or back, or goes on without its tab.
Abandons(t) ==
    /\ Waits(t) /\ troubles < MaxTroubles /\ troubles' = troubles + 1
    /\ \/ /\ request[t].stage \in {"sent", "over"}
          /\ request' = [request EXCEPT ![t] = NoRequest]
       \/ /\ request[Unheard] = NoRequest /\ request[t].stage # "over"
          /\ request' = [request EXCEPT ![t] = NoRequest, ![Unheard] = request[t]]

Fails(t) == Abandons(t) /\ UNCHANGED << rowVars, shut, tabVars, clock >>

\* The page is loaded again; its session storage keeps only the attempt's token.
Reloads(t) ==
    /\ Abandons(t)
    /\ tab' = [tab EXCEPT ![t] = [@ EXCEPT !.view = NoView, !.pending = NoCommand,
                                           !.unsure = FALSE]]
    /\ UNCHANGED << rowVars, shut, issued, refused, clock >>

PracticeNext ==
    \/ \E w \in Tabs \cup {Unheard} : Serves(w)
    \/ \E how \in {"revoked", "closed"} : Shut(how)
    \/ Ticks
    \/ \E t \in Tabs : \/ Opens(t) \/ Commands(t) \/ Retries(t) \/ Resyncs(t) \/ Receives(t)
                       \/ Fails(t) \/ Reloads(t)

PracticeSpec == PracticeInit /\ [][PracticeNext]_practiceVars
-----------------------------------------------------------------------------
\* Where a practice stands at each version of its attempt: questions alternate with their
\* reveals, the cards come once after the first, and the end after the last.
PlaceAt(version) ==
    LET later == version - Cards
    IN IF version < 2
       THEN [phase |-> IF version = 0 THEN "question_open" ELSE "answer_reveal",
             index |-> 1, card |-> 0]
       ELSE IF version < Cards + 2
       THEN [phase |-> "intervention", index |-> 1, card |-> version - 1]
       ELSE IF later = 2 * Questions
       THEN [phase |-> "completed", index |-> Questions, card |-> 0]
       ELSE [phase |-> IF later % 2 = 0 THEN "question_open" ELSE "answer_reveal",
             index |-> later \div 2 + 1, card |-> 0]

\* However the requests of the tabs interleave, an attempt leaves each version once, for the
\* next place of the practice: two tabs that continue do not skip a question.
NothingIsSkipped ==
    attempt # NoRow =>
        /\ attempt.version = Len(moves)
        /\ [phase |-> attempt.phase, index |-> attempt.index, card |-> attempt.card]
              = PlaceAt(attempt.version)

\* A version was left by a command made for it, which did what it said and once however often
\* it was sent, or by time.
MovesWereAsked ==
    \A v \in DOMAIN moves :
        LET by == moves[v]
        IN /\ by # NoCommand => /\ by.expected = v - 1
                                /\ by.action = IF PlaceAt(v - 1).phase = "question_open"
                                               THEN "answer" ELSE "advance"
           /\ by = NoCommand => PlaceAt(v - 1).phase = "question_open"

\* The answers are those of the commands that ended a question, and each was in time.
AnswersCounted ==
    /\ \A a \in answered : a.due # 0 => a.at <= a.due
    /\ {<< a.question, a.command >> : a \in answered}
          = {<< PlaceAt(v - 1).index, moves[v] >> :
                v \in {u \in DOMAIN moves : moves[u].action = "answer"}}

\* What a tab shows is how the attempt stood at that version, with the answer it took.
ShownWasTrue ==
    \A t \in Tabs :
        LET view == tab[t].view
        IN view # NoView =>
              /\ view.version <= attempt.version
              /\ [phase |-> view.phase, index |-> view.index, card |-> view.card]
                    = PlaceAt(view.version)
              /\ view.response = IF view.phase = "answer_reveal"
                                 THEN {moves[view.version]} \ {NoCommand} ELSE {}

\* A command a tab is told is done moved the attempt, unless its question ran out of time.
AcknowledgedIsApplied ==
    \A t \in Tabs :
        LET r == request[t]
        IN (r.stage = "over" /\ r.status = "ok" /\ r.command # NoCommand) =>
              /\ r.command.expected < Len(moves)
              /\ moves[r.command.expected + 1] \in
                    IF r.command.action = "answer" THEN {r.command, NoCommand} ELSE {r.command}

\* A command refused for the state of the attempt is settled: no copy of it on its way can
\* still take effect after the tab has let go of it.
RefusedIsFinal == refused # NoCommand => refused \notin ToSet(moves)

PracticeInv ==
    /\ NothingIsSkipped /\ MovesWereAsked /\ AnswersCounted
    /\ ShownWasTrue /\ AcknowledgedIsApplied /\ RefusedIsFinal
==============================================================================
