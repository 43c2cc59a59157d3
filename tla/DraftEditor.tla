----------------------------- MODULE DraftEditor -----------------------------
(***************************************************************************)
(* The Round editor's page (apps/web/app/quiz/[id]/page.tsx) and the draft *)
(* it saves (packages/db/src/postgres.ts, the revision-fenced Builder      *)
(* save), while other people save the same draft.  A draft is the set of   *)
(* the changes it contains.  The page's references and states have the     *)
(* names of the code, or are explained below.                              *)
(***************************************************************************)
EXTENDS Naturals, Sequences

CONSTANTS
    Parts,      \* what may be changed in a draft
    Attempts,   \* of retryWithBackoff (3 in the code)
    MaxEdits,   \* bounds: keystrokes and undos at the page,
    MaxTurns    \* saves of other people, losses of requests or replies, departures,
                \* publications and applied revisions, together

ASSUME EditorAssumption ==
    Attempts \in Nat \ {0} /\ MaxEdits \in Nat /\ MaxTurns \in Nat

VARIABLES
    history,    \* quiz_draft_history: the drafts by revision, the last is the current one
    receipts,   \* quiz_draft_mutations: the resulting revision by mutation
    published,  \* quiz_versions: revision, content, and the draft that was to be published
    open,       \* the page is there
    page,       \* its state (Opened)
    recovery,   \* the browser's copy of local work, or no draft (FALSE)
    ids,        \* mutation identifiers given out
    edits, losses, turns,
    hasty       \* history: an edit or a reload took the page back to the saved draft under a
                \* save, an offered copy was dismissed after newer edits, a publication was
                \* asked for in a conflict or overtaken by the page's own save, or an update
                \* was retried under a reload or a publication

draftVars == << history, receipts, published >>
countVars == << edits, losses, turns >>
editorVars == << draftVars, open, page, recovery, ids, countVars, hasty >>

Drafts == SUBSET Parts
Current == Len(history)
Happened == turns + losses
NoCopy == [there |-> FALSE, draft |-> {}]
Copy(d) == [there |-> TRUE, draft |-> d]
NoTask == [at |-> "none", id |-> 0, from |-> 0, captured |-> {}, tag |-> 0]

\* The draft shown, lastSavedJson, serverRevision, saveState, saveConflict, the barrier,
\* draftMutationBusy, latestSaveRevision, the revision of the timer that is set (0: none), the
\* save queue with the attempts and expected revision of its head, what the publication and
\* the authoritative mutation are at, whether the server's draft is being reloaded, and the
\* recovery that is offered.
Opened(d, r, offer) ==
    [draft |-> d, saved |-> d, rev |-> r, label |-> "saved", conflict |-> FALSE,
     barrier |-> FALSE, busy |-> FALSE, latest |-> 0, timer |-> 0, queue |-> <<>>,
     tries |-> 0, expected |-> 0, publish |-> NoTask, apply |-> NoTask,
     reloading |-> FALSE, offer |-> offer]

EditorInit ==
    /\ history = << {} >> /\ receipts = << >> /\ published = {}
    /\ open = TRUE /\ page = Opened({}, 1, NoCopy) /\ recovery = NoCopy /\ ids = 0
    /\ edits = 0 /\ losses = 0 /\ turns = 0 /\ hasty = FALSE
-----------------------------------------------------------------------------
(* The server.                                                             *)

\* updateQuizDraft: the receipt of the mutation, a conflict, or a revision, which is the
\* current one when the draft says the same.
Replayed(id) == id \in DOMAIN receipts

Stale(id, expected) == ~Replayed(id) /\ expected # Current

Resulting(id, d) ==
    IF Replayed(id) THEN receipts[id]
    ELSE IF d = history[Current] THEN Current ELSE Current + 1

UpdateQuizDraft(id, expected, d) ==
    IF Stale(id, expected) \/ Replayed(id) THEN UNCHANGED << history, receipts >>
    ELSE /\ receipts' = [i \in DOMAIN receipts \cup {id} |-> Resulting(i, d)]
         /\ history' = IF d = history[Current] THEN history ELSE Append(history, d)

\* Another person's editor saves a change.
OtherSaves ==
    /\ Happened < MaxTurns /\ turns' = turns + 1
    /\ \E d \in Drafts \ {history[Current]} : history' = Append(history, d)
    /\ UNCHANGED << receipts, published, open, page, recovery, ids, edits, losses, hasty >>
-----------------------------------------------------------------------------
(* What React does with the page after the draft, the barrier's owner or   *)
(* the conflict has changed, and what becomes of the browser's copy.       *)

Dirty(p) == p.draft # p.saved

\* The effect's clean-up drops the timer; unless a mutation or a conflict holds saves back, a
\* draft that is not the saved one gets a new one.  A barrier that is left over ends, or
\* becomes a conflict.
Rendered(p) ==
    IF ~Dirty(p)
    THEN [p EXCEPT !.timer = 0, !.barrier = p.barrier /\ (p.busy \/ p.conflict)]
    ELSE IF p.barrier
    THEN IF p.busy \/ p.conflict THEN [p EXCEPT !.timer = 0]
         ELSE [p EXCEPT !.timer = 0, !.conflict = TRUE, !.label = "conflict"]
    ELSE IF p.conflict THEN [p EXCEPT !.timer = 0]
    ELSE [p EXCEPT !.timer = p.latest + 1, !.latest = @ + 1, !.label = "saving"]

\* Mistaken: the copy is kept only when a save may follow.
KeptIfSaving(p) == IF Dirty(p) /\ ~p.barrier /\ ~p.conflict THEN Copy(p.draft) ELSE recovery

Kept(p) == IF Dirty(p) THEN Copy(p.draft) ELSE recovery

Hastily(p) ==
    hasty' = (hasty \/ (~Dirty(p) /\ (page.timer # 0 \/ page.queue # <<>>)))

Displays(p) == page' = Rendered(p) /\ recovery' = Kept(p)

\* saveQueue: the first one that waits is sent with the revision known when its turn comes.
Queued(p, kind) ==
    [p EXCEPT !.queue = Append(@, [id |-> ids + 1, draft |-> p.draft, kind |-> kind,
                                   tag |-> p.latest]),
              !.tries = IF p.queue = <<>> THEN 0 ELSE @,
              !.expected = IF p.queue = <<>> THEN p.rev ELSE @]

NextInTurn(p) == [p EXCEPT !.queue = Tail(@), !.tries = 0, !.expected = p.rev]

\* The page is edited, or an undo takes an edit back; an image's upload may do so while the
\* form is disabled.
Edit ==
    /\ open /\ edits < MaxEdits /\ edits' = edits + 1
    /\ \E c \in Parts :
          LET p == [page EXCEPT !.draft = (@ \ {c}) \cup ({c} \ @)]
          IN  Displays(p) /\ Hastily(p)
    /\ UNCHANGED << draftVars, open, ids, losses, turns >>

AutosaveDue ==
    /\ open /\ page.timer # 0
    /\ page' = [Queued(page, "autosave") EXCEPT !.timer = 0] /\ ids' = ids + 1
    /\ UNCHANGED << draftVars, open, recovery, countVars, hasty >>

\* One publication at a time (a bound).
Publish ==
    /\ open /\ ~page.busy /\ page.label # "saving" /\ Happened < MaxTurns /\ turns' = turns + 1
    /\ page.publish.at = "none"
    /\ page' = [Queued([page EXCEPT !.latest = @ + 1, !.label = "saving"], "publish")
                    EXCEPT !.publish.at = "saving"]
    /\ ids' = ids + 1 /\ hasty' = (hasty \/ page.conflict)
    /\ UNCHANGED << draftVars, open, recovery, edits, losses >>

\* A save that succeeded: what the page knows of the server, and what its caller does next.
Succeeded(p, result) ==
    LET s == Head(p.queue)
        q == NextInTurn([p EXCEPT !.rev = result, !.saved = s.draft])
    IN  IF s.kind = "publish"
        THEN [q EXCEPT !.publish = [at |-> "asking", id |-> 0, from |-> result,
                                    captured |-> s.draft, tag |-> s.tag]]
        ELSE IF s.tag = p.latest THEN [q EXCEPT !.label = "saved"] ELSE q

\* One that found a newer revision, or whose attempts all failed.
Failed(p, stale) ==
    LET s == Head(p.queue)
        q == IF s.kind = "publish" THEN [NextInTurn(p) EXCEPT !.publish = NoTask]
                                   ELSE NextInTurn(p)
    IN  IF stale /\ (s.kind = "publish" \/ s.tag = p.latest)
        THEN Rendered([q EXCEPT !.conflict = TRUE, !.label = "conflict"])
        ELSE IF ~stale /\ s.tag = p.latest THEN [q EXCEPT !.label = "error"] ELSE q

\* The head of the queue is answered.
SaveReturns ==
    /\ open /\ page.queue # <<>>
    /\ LET s == Head(page.queue)
           settled == s.kind = "autosave" /\ s.tag = page.latest
       IN  /\ UpdateQuizDraft(s.id, page.expected, s.draft)
           /\ IF Stale(s.id, page.expected)
              THEN page' = Failed(page, TRUE) /\ UNCHANGED recovery
              ELSE /\ page' = Succeeded(page, Resulting(s.id, s.draft))
                   /\ recovery' = IF settled THEN NoCopy ELSE recovery
    /\ UNCHANGED << published, open, ids, countVars, hasty >>

\* Its request or the reply is lost, and it is tried again.
SaveIsLost ==
    /\ open /\ page.queue # <<>> /\ Happened < MaxTurns /\ losses' = losses + 1
    /\ LET s == Head(page.queue)
       IN  \/ UNCHANGED << history, receipts >>
           \/ UpdateQuizDraft(s.id, page.expected, s.draft)
    /\ page' = IF page.tries + 1 = Attempts THEN Failed(page, FALSE)
                                            ELSE [page EXCEPT !.tries = @ + 1]
    /\ UNCHANGED << published, open, recovery, ids, edits, turns, hasty >>
-----------------------------------------------------------------------------
(* Publication: the route reads the draft, then publishes under the lock   *)
(* of its row.                                                             *)

PublishReads ==
    /\ open /\ page.publish.at = "asking" /\ page.publish.from = Current
    /\ page' = [page EXCEPT !.publish.at = "publishing"]
    /\ UNCHANGED << draftVars, open, recovery, ids, countVars, hasty >>

StillCurrent(r) == r = Current

PublishedNow(p) ==
    [revision |-> Current, content |-> history[page.publish.from], meant |-> p.captured]

\* publishQuiz, and what the page says then.
PublishCommits ==
    /\ open /\ page.publish.at = "publishing" /\ StillCurrent(page.publish.from)
    /\ published' = published \cup {PublishedNow(page.publish)}
    /\ IF page.publish.tag = page.latest
       THEN page' = [page EXCEPT !.publish = NoTask, !.label = "saved"] /\ recovery' = NoCopy
       ELSE page' = [page EXCEPT !.publish = NoTask] /\ UNCHANGED recovery
    /\ UNCHANGED << history, receipts, open, ids, countVars, hasty >>

PublishIsStale ==
    /\ open /\ page.publish.at \in {"asking", "publishing"} /\ ~StillCurrent(page.publish.from)
    /\ page' = Rendered([page EXCEPT !.publish = NoTask, !.conflict = TRUE,
                                     !.label = "conflict"])
    /\ hasty' = (hasty \/ page.rev = Current \/ page.queue # <<>>)
    /\ UNCHANGED << draftVars, open, recovery, ids, countVars >>

PublishIsLost ==
    /\ open /\ page.publish.at \in {"asking", "publishing"}
    /\ Happened < MaxTurns /\ losses' = losses + 1
    /\ published' \in {published} \cup
          {published \cup {PublishedNow(page.publish)} : x \in {1} \cap
              {IF StillCurrent(page.publish.from) THEN 1 ELSE 0}}
    /\ page' = [page EXCEPT !.publish = NoTask,
                    !.label = IF page.publish.tag = page.latest THEN "error" ELSE @]
    /\ UNCHANGED << history, receipts, open, recovery, ids, edits, turns, hasty >>
-----------------------------------------------------------------------------
(* runAuthoritativeDraftMutation: a suggestion or a pack's update is       *)
(* applied by the server, and its draft adopted by the page.               *)

\* matchesSavedHealthDraft.
MatchesSaved(p, captured, expected) == p.rev = expected /\ p.draft = captured

Retrying == page.apply.at = "retryable" /\ page.apply.from = page.rev

\* Nothing can come between the request and an empty queue.
Begun(p) == [p EXCEPT !.barrier = TRUE, !.busy = TRUE, !.label = "saving", !.timer = 0,
                      !.apply.at = IF p.queue = <<>> THEN "sent" ELSE "waiting"]

BeginApply ==
    /\ open /\ ~page.busy
    /\ \/ /\ Happened < MaxTurns /\ turns' = turns + 1 /\ ids' = ids + 1
          /\ ~page.conflict /\ page.label = "saved" /\ ~page.barrier
          /\ MatchesSaved(page, page.saved, page.rev)
          /\ page' = Begun([page EXCEPT !.apply = [at |-> "", id |-> ids + 1, from |-> page.rev,
                                                   captured |-> page.saved, tag |-> 0]])
       \/ /\ Retrying /\ MatchesSaved(page, page.apply.captured, page.apply.from)
          /\ page' = Begun(page) /\ UNCHANGED << turns, ids >>
    /\ hasty' = (hasty \/ page.reloading \/ page.queue # <<>>)
    /\ UNCHANGED << draftVars, open, recovery, edits, losses >>

\* The finally block; a draft that may have been changed on the server is a conflict.
EndApply(p, kept, retryable) ==
    LET q == [p EXCEPT !.busy = FALSE, !.apply = IF retryable THEN [@ EXCEPT !.at = "retryable"]
                                                             ELSE NoTask]
    IN  Displays(IF kept THEN [q EXCEPT !.conflict = TRUE, !.label = "conflict"]
                      ELSE [q EXCEPT !.label = "saved", !.barrier = FALSE])

\* The queue has emptied, and nothing has changed meanwhile.
SendApply ==
    /\ open /\ page.apply.at = "waiting" /\ page.queue = <<>>
    /\ IF page.saved = page.apply.captured
          /\ MatchesSaved(page, page.apply.captured, page.apply.from)
       THEN page' = [page EXCEPT !.apply.at = "sent"] /\ UNCHANGED recovery
       ELSE EndApply(page, FALSE, FALSE)
    /\ UNCHANGED << draftVars, open, ids, countVars, hasty >>

\* The server applies it, or recognises it; the reply may be lost.
Applies ==
    /\ open /\ page.apply.at = "sent"
    /\ LET a == page.apply
       IN  \E d \in Drafts \ {history[Current]} :
              /\ UpdateQuizDraft(a.id, a.from, d)
              /\ \/ /\ ~Stale(a.id, a.from)
                    /\ page' = [page EXCEPT !.apply.at = "applied",
                                            !.apply.tag = Resulting(a.id, d)]
                    /\ UNCHANGED << recovery, losses >>
                 \/ Stale(a.id, a.from) /\ EndApply(page, TRUE, FALSE) /\ UNCHANGED losses
                 \/ /\ Happened < MaxTurns /\ losses' = losses + 1
                    /\ EndApply(page, TRUE, page.draft = a.captured)
    /\ UNCHANGED << published, open, ids, edits, turns, hasty >>

ApplyIsLost ==
    /\ open /\ page.apply.at \in {"sent", "applied"} /\ Happened < MaxTurns
    /\ losses' = losses + 1 /\ EndApply(page, TRUE, page.draft = page.apply.captured)
    /\ UNCHANGED << draftVars, open, ids, edits, turns, hasty >>

\* matchesLatestHealthDraft and mayAdoptHealthDraft, for the draft that is loaded then.
MayAdopt == page.apply.tag = Current /\ page.draft = page.apply.captured

Adopt ==
    /\ open /\ page.apply.at = "applied"
    /\ IF MayAdopt
       THEN LET p == [page EXCEPT !.rev = Current, !.saved = history[Current],
                                  !.draft = history[Current], !.label = "saved",
                                  !.conflict = FALSE, !.busy = FALSE, !.apply = NoTask]
            IN  page' = Rendered(p) /\ recovery' = NoCopy
       ELSE EndApply(page, TRUE, page.draft = page.apply.captured)
    /\ UNCHANGED << draftVars, open, ids, countVars, hasty >>
-----------------------------------------------------------------------------
(* Conflicts, closing and opening the page.                                *)

ReloadLatestDraft ==
    /\ open /\ page.conflict /\ ~page.busy /\ ~page.reloading
    /\ page' = [page EXCEPT !.barrier = TRUE, !.label = "saving", !.reloading = TRUE]
    /\ UNCHANGED << draftVars, open, recovery, ids, countVars, hasty >>

Reloaded ==
    /\ open /\ page.reloading
    /\ LET d == history[Current]
           p == [page EXCEPT !.rev = Current, !.saved = d, !.draft = d, !.conflict = FALSE,
                             !.label = "saved", !.apply = IF page.busy THEN @ ELSE NoTask,
                             !.reloading = FALSE]
       IN  page' = Rendered(p) /\ recovery' = NoCopy /\ Hastily(p)
    /\ UNCHANGED << draftVars, open, ids, countVars >>

ReloadFails ==
    /\ open /\ page.reloading /\ Happened < MaxTurns /\ losses' = losses + 1
    /\ page' = [page EXCEPT !.label = "error", !.barrier = FALSE, !.reloading = FALSE]
    /\ UNCHANGED << draftVars, open, recovery, ids, edits, turns, hasty >>

\* The page goes away; the request it had sent may still be carried out.
Leave ==
    /\ open /\ open' = FALSE /\ Happened < MaxTurns /\ turns' = turns + 1
    /\ \/ UNCHANGED << history, receipts >>
       \/ /\ page.queue # <<>>
          /\ UpdateQuizDraft(Head(page.queue).id, page.expected, Head(page.queue).draft)
    /\ page' = Opened({}, 0, NoCopy)
    /\ UNCHANGED << published, recovery, ids, edits, losses, hasty >>

\* It is opened (again): local work that is not the server's draft is offered.
Enter ==
    /\ ~open /\ open' = TRUE
    /\ LET offered == recovery.there /\ recovery.draft # history[Current]
       IN  /\ recovery' = IF offered THEN recovery ELSE NoCopy
           /\ page' = Opened(history[Current], Current, IF offered THEN recovery ELSE NoCopy)
    /\ hasty' = FALSE
    /\ UNCHANGED << draftVars, ids, countVars >>

RestoreRecoverySnapshot ==
    /\ open /\ page.offer.there
    /\ LET p == [page EXCEPT !.draft = page.offer.draft, !.offer = NoCopy, !.label = "idle"]
       IN  Displays(p) /\ Hastily(p)
    /\ UNCHANGED << draftVars, open, ids, countVars >>

DismissRecoverySnapshot ==
    /\ open /\ page.offer.there /\ recovery' = NoCopy
    /\ page' = [page EXCEPT !.offer = NoCopy]
    /\ hasty' = (hasty \/ Dirty(page))
    /\ UNCHANGED << draftVars, open, ids, countVars >>
-----------------------------------------------------------------------------
EditorNext ==
    \/ OtherSaves \/ Edit \/ AutosaveDue \/ Publish \/ SaveReturns \/ SaveIsLost
    \/ PublishReads \/ PublishCommits \/ PublishIsStale \/ PublishIsLost
    \/ BeginApply \/ SendApply \/ Applies \/ ApplyIsLost \/ Adopt
    \/ ReloadLatestDraft \/ Reloaded \/ ReloadFails \/ Leave \/ Enter
    \/ RestoreRecoverySnapshot \/ DismissRecoverySnapshot

EditorSpec == EditorInit /\ [][EditorNext]_editorVars
-----------------------------------------------------------------------------
EditorTypeOK ==
    /\ \A r \in 1..Current : history[r] \in Drafts
    /\ open \in BOOLEAN /\ hasty \in BOOLEAN
    /\ recovery.draft \in Drafts
    /\ page.draft \in Drafts /\ page.saved \in Drafts /\ page.rev \in 0..Current
    /\ page.label \in {"idle", "saving", "saved", "error", "conflict"}

\* What the page takes for the server's draft at the revision it names in its next save is
\* that draft: so the comparison of revisions refuses whatever would overwrite a change the
\* page has never seen, through retries, replies lost and replayed, and adopted revisions.
BaseIsTrue == open => page.saved = history[page.rev]

\* The draft on the screen is in the history of the server or in the browser's copy, so a page
\* that goes away at any moment loses no work: unless an offered copy was dismissed after an
\* edit had taken its place.
LocalWorkIsKept ==
    open /\ ~hasty =>
        page.draft \in {history[r] : r \in 1..Current} \/ recovery = Copy(page.draft)

\* docs/user-guide.md: who waits for "Saved" may leave the editor.
SavedIsSaved ==
    open /\ page.label = "saved" /\ page.queue = <<>>
        => page.draft = page.saved /\ page.saved = history[page.rev]

\* Unless an edit was undone or the draft reloaded under a save, that is so ...
PatientlySaved == ~hasty => SavedIsSaved

\* ... and a page that says it is saving has something to wait for.
SavingEnds ==
    open /\ ~hasty /\ page.label = "saving"
        => \/ page.timer # 0 \/ page.queue # <<>> \/ page.busy \/ page.reloading
           \/ page.publish.at # "none"

\* A published version holds the draft of the revision it names, and what its author saw.
PublishedAsSeen ==
    \A v \in published : v.content = history[v.revision] /\ v.meant = v.content

\* The page reports a newer edit only when there is one, but for what losses make it fear.
ConflictsAreReal ==
    open /\ page.conflict /\ losses = 0 /\ ~hasty
        => page.rev < Current

\* All of that: the editor loses no work, tells the truth about what is saved, and publishes
\* what its author saw, whoever else saves the draft and whichever request is lost.
EditorInv ==
    /\ EditorTypeOK /\ BaseIsTrue /\ LocalWorkIsKept /\ PatientlySaved /\ SavingEnds
    /\ PublishedAsSeen /\ ConflictsAreReal
==============================================================================
