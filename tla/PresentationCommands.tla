------------------------- MODULE PresentationCommands -------------------------
(* Commands of host and companion windows: the client keeps an unacknowledged *)
(* command and repeats it (presentation-command-recovery.ts,                  *)
(* presentation-realtime.ts of the web application), and every attempt is a   *)
(* request of its own that reads the session, looks for a receipt and commits *)
(* in separate transactions (PresentationLiveMutationService.acceptCommand).  *)
EXTENDS PresentationRoom

CONSTANTS
    Windows,
    Offers,         \* the kinds of command each window has
    MaxTries,       \* bound: attempts of a command
    MaxFaults,      \* bound: failed reads and writes
    MaxPassChanges  \* bound: passes rotated, revoked and replaced

CommandKinds == {"advance", "card"} \cup Insertions
Codes == {"ok", "stale", "closed", "not_found", "unauthorized", "internal"}

\* The code derives the ids of what it inserts from the command's, and here its kind
\* names them: a kind that may be inserted more than once is offered by one window.
ASSUME CommandsAssumption ==
    /\ Offers \in [Windows -> SUBSET CommandKinds]
    /\ \A v, w \in Windows : v # w => Offers[v] \cap Offers[w] \cap {"pack", "published"} = {}
    /\ MaxTries \in Nat \ {0} /\ MaxFaults \in Nat /\ MaxPassChanges \in Nat
    /\ None \notin Windows \cup CommandKinds \cup Codes \cup {"done", "refused"}

VARIABLES
    window,     \* the state of each window's command recovery
    request,    \* the attempts as the server runs them
    pass,       \* whether the window's pass is valid, and changes so far
    source,     \* whether the published question's Round may be used
    faults

commandVars == << window, request, pass, source, faults >>

Attempts == 1..MaxTries

NoRequest == [stage |-> "none", view |-> None, code |-> None]

NewWindow == [state |-> "idle", kind |-> None, expected |-> None, try |-> 0, outcome |-> None]

CommandsInit ==
    /\ window = [w \in Windows |-> NewWindow]
    /\ request = [w \in Windows |-> [n \in Attempts |-> NoRequest]]
    /\ pass = [w \in Windows |-> [valid |-> TRUE, changes |-> 0]]
    /\ source = "published" /\ faults = 0

-------------------------------------------------------------------------------
(* The client. One command per window, so the window identifies it.           *)

Send(w, n, kind, expected) ==
    /\ window' = [window EXCEPT ![w].state = "busy", ![w].kind = kind,
                                ![w].expected = expected, ![w].try = n]
    /\ request' = [request EXCEPT ![w][n].stage = "sent"]
    /\ UNCHANGED << pass, source, faults >> /\ UNCHANGED roomVars

\* The page may show an earlier snapshot than the current.
Run(w, kind) ==
    /\ window[w].state = "idle" /\ window[w].outcome = None
    /\ kind \in Offers[w]
    /\ \E shown \in 0..room.revision : Send(w, 1, kind, shown)

Retry(w) ==
    /\ window[w].state = "pending" /\ window[w].try < MaxTries
    /\ Send(w, window[w].try + 1, window[w].kind, window[w].expected)

AcknowledgementMayBeLost(code) == code = "internal"

RetryTemporarilyDenied(code) == code = "unauthorized"

InsertionRetryPrerequisiteDenied(code, kind) ==
    kind \in Insertions /\ code \in {"not_found", "closed"}

KeepsPending(code, kind, retrying) ==
    \/ AcknowledgementMayBeLost(code)
    \/ retrying /\ \/ RetryTemporarilyDenied(code)
                   \/ InsertionRetryPrerequisiteDenied(code, kind)

Answered(w) == window[w].state = "busy" /\ request[w][window[w].try].stage = "replied"

Settle(w, state, outcome) ==
    /\ window' = [window EXCEPT ![w].state = state, ![w].outcome = outcome]
    /\ UNCHANGED << pass, source, faults >> /\ UNCHANGED roomVars

Acknowledge(w) ==
    /\ Answered(w)
    /\ LET code == request[w][window[w].try].code
           kept == KeepsPending(code, window[w].kind, window[w].try > 1)
       IN  Settle(w, IF kept THEN "pending" ELSE "idle",
                     IF code = "ok" THEN "done" ELSE IF kept THEN None ELSE "refused")
    /\ request' = [request EXCEPT ![w][window[w].try] = [NoRequest EXCEPT !.stage = "over"]]

\* The acknowledgement is late, or the request lost; if not it goes on.
AckTimeout(w) ==
    /\ window[w].state = "busy"
    /\ Settle(w, "pending", None)
    /\ UNCHANGED request

-------------------------------------------------------------------------------
(* The server.                                                                *)

Id(w) == w

Committed(w) == \E r \in receipts : r.cmd = Id(w)

\* A reply that its window no longer waits for is dropped.
Reply(w, n, code) ==
    request' = [request EXCEPT ![w][n] =
        IF window[w].state = "busy" /\ window[w].try = n
        THEN [stage |-> "replied", view |-> None, code |-> code]
        ELSE [NoRequest EXCEPT !.stage = "over"]]

Goes(w, n, stage, view) ==
    request' = [request EXCEPT ![w][n] = [stage |-> stage, view |-> view, code |-> None]]

ServerKeeps == UNCHANGED << window, pass, source >>

\* authorizeHostCredential and authorizeCompanionCredential: they return the
\* session on which the rest of the request is computed.
Authorize(w, n) ==
    /\ request[w][n].stage = "sent"
    /\ IF Expired \/ ~pass[w].valid THEN Reply(w, n, "unauthorized")
       ELSE Goes(w, n, "read", room)
    /\ ServerKeeps /\ UNCHANGED faults /\ UNCHANGED roomVars

\* replayCommand, then the checks and the transition on the session read.
Prepare(w, n) ==
    /\ request[w][n].stage = "read"
    /\ LET view == request[w][n].view
           kind == window[w].kind
       IN  IF Committed(w) THEN Reply(w, n, "ok")
           ELSE IF window[w].expected # view.revision THEN Reply(w, n, "stale")
           ELSE IF kind = "advance" /\ ~Allowed(view, kind) THEN Reply(w, n, "ok")
           ELSE IF ~Allowed(view, kind) THEN Reply(w, n, "closed")
           ELSE IF kind = "published" /\ source # "published" THEN Goes(w, n, "unavailable", None)
           ELSE Goes(w, n, "ready", view)
    /\ ServerKeeps /\ UNCHANGED faults /\ UNCHANGED roomVars

\* transitionSessionCommand.
Commit(w, n) ==
    LET view == request[w][n].view
        kind == window[w].kind
    IN  /\ request[w][n].stage = "ready"
        /\ ~Committed(w) /\ ~fenced /\ room.revision = window[w].expected
        /\ kind = "published" => source = "published"
        /\ ApplyTransition(Transition(view, kind), Id(w))
        /\ receipts' = receipts \cup {[cmd |-> Id(w), expected |-> window[w].expected,
                                       resulting |-> room.revision + 1]}
        /\ \/ Reply(w, n, "ok") /\ UNCHANGED faults
           \* the audit record or the snapshot after the commit fails
           \/ faults < MaxFaults /\ faults' = faults + 1 /\ Reply(w, n, "internal")
        /\ ServerKeeps /\ UNCHANGED << roster, responses, fenced, clock >>

\* The receipt is looked for again under the lock, before the revision.
CommitRefused(w, n) ==
    LET kind == window[w].kind
    IN  /\ request[w][n].stage = "ready"
        /\ \/ Committed(w) /\ Reply(w, n, "ok")
           \/ ~Committed(w) /\ fenced /\ Reply(w, n, "closed")
           \/ /\ ~Committed(w) /\ ~fenced
              /\ room.revision # window[w].expected /\ Reply(w, n, "stale")
           \/ /\ ~Committed(w) /\ ~fenced /\ room.revision = window[w].expected
              /\ kind = "published" /\ source # "published" /\ Goes(w, n, "unavailable", None)
        /\ ServerKeeps /\ UNCHANGED faults /\ UNCHANGED roomVars

\* Another copy of the command may have committed before the source was lost.
RacedReplay(w, n) ==
    /\ request[w][n].stage = "unavailable"
    /\ Reply(w, n, IF Committed(w) THEN "ok" ELSE "not_found")
    /\ ServerKeeps /\ UNCHANGED faults /\ UNCHANGED roomVars

RequestFails(w, n) ==
    /\ request[w][n].stage \in {"sent", "read", "ready"}
    /\ faults < MaxFaults /\ faults' = faults + 1
    /\ Reply(w, n, "internal")
    /\ ServerKeeps /\ UNCHANGED roomVars

-------------------------------------------------------------------------------
\* rotateCredential and revokeCredential by another window of the role, and the
\* new pass that the user obtains (rebindControlToken keeps a pending command).
ChangePass(w) ==
    /\ pass[w].changes < MaxPassChanges /\ (~pass[w].valid => window[w].state # "busy")
    /\ pass' = [pass EXCEPT ![w] = [valid |-> ~pass[w].valid, changes |-> @.changes + 1]]
    /\ UNCHANGED << window, request, source, faults >> /\ UNCHANGED roomVars

ArchiveOrRestoreSource ==
    /\ source' = CASE source = "published" -> "archived" [] source = "archived" -> "published"
    /\ UNCHANGED << window, request, pass, faults >> /\ UNCHANGED roomVars

OthersMoveOn ==
    /\ AdvanceByRest \/ StartWorkspaceDeletion \/ Tick
    /\ UNCHANGED commandVars

CommandsNext ==
    \/ \E w \in Windows :
          \/ \E kind \in CommandKinds : Run(w, kind)
          \/ Retry(w) \/ Acknowledge(w) \/ AckTimeout(w) \/ ChangePass(w)
          \/ \E n \in Attempts :
                \/ Authorize(w, n) \/ Prepare(w, n) \/ Commit(w, n) \/ CommitRefused(w, n)
                \/ RacedReplay(w, n) \/ RequestFails(w, n)
    \/ ArchiveOrRestoreSource \/ OthersMoveOn

-------------------------------------------------------------------------------
CommandsTypeOK ==
    \A w \in Windows :
        /\ window[w].state \in {"idle", "busy", "pending"} /\ window[w].try \in 0..MaxTries
        /\ window[w].outcome \in {None, "done", "refused"}
        /\ \A n \in Attempts : request[w][n].code \in Codes \cup {None}

\* What a window believes about its settled command is final: a refused command
\* is not applied, then or later, by any attempt still under way, and a command
\* reported as done was applied, exactly once and on the state its user saw,
\* unless there was nothing left to advance.
SettledIsFinal ==
    \A w \in Windows :
        LET applied == {k \in DOMAIN timeline : timeline[k].cmd = Id(w)}
        IN  /\ window[w].outcome = "refused" => applied = {}
            /\ window[w].outcome = "done" =>
                  \/ applied = {window[w].expected + 1}
                  \/ window[w].kind = "advance" /\ applied = {} /\ room.phase = "finished"
            /\ Cardinality(applied) <= 1 /\ (applied # {}) = Committed(w)

\* The windows' state is well formed and what they believe is final.
CommandsInv == CommandsTypeOK /\ SettledIsFinal
===============================================================================
