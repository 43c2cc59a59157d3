--------------------------- MODULE AudienceOutbox ---------------------------
(* How the events of a session's audience get from the outbox, where each is *)
(* committed with the change it tells of, to the sockets of the room: the     *)
(* publication by the process that made the change, the relay of every        *)
(* process, and the room's summaries, at most one per interval and process    *)
(* (packages/db/src/postgres.ts, apps/server/src/interaction-service.ts,      *)
(* audience-outbox-worker.ts and realtime.ts).                                *)
EXTENDS Naturals, Sequences, FiniteSets

CONSTANTS
    Processes,
    Serving,            \* bound: the processes that take the room's requests
    MaxEvents,          \* bound on the events of the session
    MaxFaults           \* bound on failed calls, crashes and publications that take too long

ASSUME OutboxAssumption == Serving \subseteq Processes /\ MaxEvents \in Nat /\ MaxFaults \in Nat

VARIABLES
    outbox,     \* audience_outbox in the order of audience_seq
    publishing, \* publications under way: events, process, by whom, and how far
    pending,    \* per process: the events that wait for the pending summary
    recent,     \* processes that sent a summary less than the interval ago
    shown,      \* events that were sent to the room's sockets
    counted,    \* events that a summary sent to the sockets includes
    faults

outboxVars == << outbox, publishing, pending, recent, shown, counted, faults >>

Events == 1..Len(outbox)

OutboxInit ==
    /\ outbox = << >> /\ publishing = {} /\ recent = {}
    /\ pending = [p \in Processes |-> {}]
    /\ shown = {} /\ counted = {} /\ faults = 0

Publication(es, p, by, at) == [events |-> es, process |-> p, by |-> by, at |-> at]

\* appendAudienceEventLocked, in the transaction of the change; then publish.
Record(p, summarized) ==
    /\ p \in Serving /\ Len(outbox) < MaxEvents
    /\ outbox' = Append(outbox, [summarized |-> summarized, claimed |-> FALSE,
                                 delivered |-> FALSE])
    /\ publishing' = publishing \cup {Publication({Len(outbox) + 1}, p, "author", "emit")}
    /\ UNCHANGED << pending, recent, shown, counted, faults >>

Due(e) == ~outbox[e].delivered /\ ~outbox[e].claimed

\* claimAudienceOutbox: the oldest event that is due.  (A bound: one relay at a time per
\* process; the timer of index.ts may start a run while the last one is under way.)
Relay(p) ==
    /\ \A w \in publishing : w.process = p => w.by # "relay"
    /\ \E e \in Events :
          /\ Due(e) /\ \A f \in 1..e - 1 : ~Due(f)
          /\ outbox' = [outbox EXCEPT ![e].claimed = TRUE]
          /\ publishing' = publishing \cup {Publication({e}, p, "relay", "emit")}
    /\ UNCHANGED << pending, recent, shown, counted, faults >>

InHand(e) == (\E w \in publishing : e \in w.events) \/ \E p \in Processes : e \in pending[p]

Fault == faults < MaxFaults /\ faults' = faults + 1

\* The claim is older than leaseMs; it counts as a fault when a publication took as long.
GoesStale(e) ==
    /\ outbox[e].claimed /\ outbox' = [outbox EXCEPT ![e].claimed = FALSE]
    /\ IF InHand(e) THEN Fault ELSE UNCHANGED faults
    /\ UNCHANGED << publishing, pending, recent, shown, counted >>

Moves(w, at) == publishing' = (publishing \ {w}) \cup {[w EXCEPT !.at = at]}

\* scheduleAudienceSummary when a summary is pending or was just sent: not delivered yet.
Merge(w) ==
    LET p == w.process
    IN /\ pending[p] # {} \/ p \in recent
       /\ pending' = [pending EXCEPT ![p] = @ \cup w.events]
       /\ publishing' = publishing \ {w} /\ UNCHANGED recent

\* scheduleAudienceSummary otherwise.
SummarizeNow(w) ==
    LET p == w.process
    IN /\ pending[p] = {} /\ p \notin recent
       /\ recent' = recent \cup {p} /\ Moves(w, "summarize") /\ UNCHANGED pending

\* The listener of subscribeAudience sends the event, then the summary it affects.
EmitEvent(w) ==
    /\ w.at = "emit" /\ shown' = shown \cup w.events
    /\ LET affects == \E e \in w.events : outbox[e].summarized
       IN \/ ~affects /\ Moves(w, "complete") /\ UNCHANGED << pending, recent >>
          \/ affects /\ (Merge(w) \/ SummarizeNow(w))
    /\ UNCHANGED << outbox, counted, faults >>

\* emitAudienceSummary reads the summary and sends it.
EmitSummary(w) ==
    /\ w.at = "summarize" /\ counted' = counted \cup Events
    /\ Moves(w, "complete")
    /\ UNCHANGED << outbox, pending, recent, shown, faults >>

\* The interval is over: the timer's callback starts the summary that was pending.
SummaryTimer(p) ==
    /\ pending[p] # {}
    /\ publishing' = publishing \cup {Publication(pending[p], p, "timer", "summarize")}
    /\ pending' = [pending EXCEPT ![p] = {}] /\ recent' = recent \cup {p}
    /\ UNCHANGED << outbox, shown, counted, faults >>

SummaryInterval(p) ==
    /\ p \in recent /\ pending[p] = {} /\ recent' = recent \ {p}
    /\ UNCHANGED << outbox, publishing, pending, shown, counted, faults >>

Without(w, e) ==
    (publishing \ {w}) \cup
        (IF w.events = {e} THEN {} ELSE {[w EXCEPT !.events = @ \ {e}]})

\* completeAudienceOutbox, once per event.
CompleteEvent(w, e) ==
    /\ w.at = "complete" /\ e \in w.events
    /\ outbox' = IF outbox[e].delivered THEN outbox
                 ELSE [outbox EXCEPT ![e].delivered = TRUE, ![e].claimed = FALSE]
    /\ publishing' = Without(w, e)
    /\ UNCHANGED << pending, recent, shown, counted, faults >>

\* A call fails: publish, runOnce and the timer swallow it.
PublicationFails(w) ==
    /\ w.at # "complete" /\ Fault /\ publishing' = publishing \ {w}
    /\ UNCHANGED << outbox, pending, recent, shown, counted >>

CompletionFails(w, e) ==
    /\ w.at = "complete" /\ e \in w.events /\ Fault /\ publishing' = Without(w, e)
    /\ UNCHANGED << outbox, pending, recent, shown, counted >>

\* The process dies, and another takes its place.
ProcessDies(p) ==
    /\ Fault /\ publishing' = {w \in publishing : w.process # p}
    /\ pending' = [pending EXCEPT ![p] = {}] /\ recent' = recent \ {p}
    /\ UNCHANGED << outbox, shown, counted >>

OutboxNext ==
    \/ \E p \in Processes :
          \/ Relay(p) \/ SummaryTimer(p) \/ SummaryInterval(p) \/ ProcessDies(p)
          \/ \E summarized \in BOOLEAN : Record(p, summarized)
    \/ \E e \in Events : GoesStale(e)
    \/ \E w \in publishing :
          \/ EmitEvent(w) \/ EmitSummary(w) \/ PublicationFails(w)
          \/ \E e \in w.events : CompleteEvent(w, e) \/ CompletionFails(w, e)

\* Timers fire, claims grow old and what is under way ends; nobody has to make a change.
OutboxFairness ==
    /\ WF_outboxVars(\E p \in Processes : Relay(p))
    /\ WF_outboxVars(\E p \in Processes : SummaryTimer(p))
    /\ WF_outboxVars(\E e \in Events : GoesStale(e))
    /\ WF_outboxVars(\E w \in publishing : EmitEvent(w))
    /\ WF_outboxVars(\E w \in publishing : EmitSummary(w))
    /\ WF_outboxVars(\E w \in publishing : \E e \in w.events : CompleteEvent(w, e))

OutboxSpec == OutboxInit /\ [][OutboxNext]_outboxVars /\ OutboxFairness

-------------------------------------------------------------------------------

OutboxTypeOK ==
    /\ outbox \in Seq([summarized : BOOLEAN, claimed : BOOLEAN, delivered : BOOLEAN])
    /\ Len(outbox) <= MaxEvents /\ faults \in 0..MaxFaults
    /\ publishing \subseteq
          [events : SUBSET Events, process : Processes, by : {"author", "relay", "timer"},
           at : {"emit", "summarize", "complete"}]
    /\ pending \in [Processes -> SUBSET Events] /\ recent \subseteq Processes
    /\ shown \subseteq Events /\ counted \subseteq Events

\* An event is only marked delivered after it was sent to the room and, when it bears on
\* the summary, after a summary that includes it was sent: neither merging it with others
\* nor a relay that runs beside its author drops it.
DeliveredWasShown ==
    \A e \in Events : outbox[e].delivered =>
        e \in shown /\ (outbox[e].summarized => e \in counted)

OutboxInv == OutboxTypeOK /\ DeliveredWasShown

\* Every committed event is delivered in the end, whatever failed or crashed on the way.
OutboxDrains ==
    \A e \in 1..MaxEvents : e \in Events ~> e \in Events /\ outbox[e].delivered
===============================================================================
