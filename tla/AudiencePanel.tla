---------------------------- MODULE AudiencePanel ----------------------------
(* How one viewer's panel keeps up with the room's chat, its messages and     *)
(* their reactions: envelopes that may be sent twice, late and out of order,  *)
(* gaps in their sequence, connections that drop, and refreshes that run      *)
(* while envelopes come in                                                    *)
(* (apps/web/components/audience-panel.tsx, lib/realtime.ts and the pages;    *)
(* apps/server/src/interaction-service.ts for what is read when).             *)
EXTENDS Naturals, Sequences, SequencesExt

CONSTANTS
    MaxSeq,             \* bound on the events of the session
    MaxTrouble          \* bound on envelopes sent again, lost connections, failed refreshes

ASSUME PanelAssumption == MaxSeq \in Nat /\ MaxTrouble \in Nat

VARIABLES
    events,     \* by audience_seq: a "message" changed, a "reaction", or neither
    sending,    \* envelopes being prepared: their event, and how much had happened then
    sent,       \* the events that were prepared
    link,       \* the viewer's socket: "down", "up", or "in" the room
    mail,       \* the envelopes on their way through that socket
    receipt,    \* createAudienceRealtimeReceipt: the events seen, the first, the highest
    mounted,    \* the panel is on the page
    fetch,      \* its refresh in flight: whether it still counts, and what to replay on it
    trailing,   \* whether another refresh waits for it
    data,       \* what it shows of each message, and its page's cursor
    error, trouble

room == << events, sending, sent >>
panel == << mounted, fetch, trailing, data, error >>
panelVars == << room, link, mail, receipt, panel, trouble >>

Seqs == 1..Len(events)
Messages == 1..MaxSeq       \* each by the event that posted it
Of(m, kind) == [of |-> m, is |-> kind]
Private == Of(0, "private")

\* A message after n events: the event of its row (0: not posted yet), its last reaction.
LastAt(event, n) == SelectLastInSubSeq(events, 1, n, LAMBDA e : e = event)
RowAt(m, n) == LastAt(Of(m, "message"), n)
ReactionsAt(m, n) == LastAt(Of(m, "reaction"), n)

Trouble == trouble < MaxTrouble /\ trouble' = trouble + 1

Later(a, b) == IF a > b THEN a ELSE b

Unposted == [row |-> 0, reactions |-> 0, stamp |-> 0]
Unread == [read |-> FALSE, sync |-> 0, shown |-> [m \in Messages |-> Unposted]]
NoFetch == [on |-> FALSE, from |-> 0, counts |-> FALSE, replay |-> << >>]
Launch == [on |-> TRUE, from |-> Len(events), counts |-> TRUE, replay |-> << >>]

PanelInit ==
    /\ events = << >> /\ sending = {} /\ sent = {}
    /\ link = "down" /\ mail = << >> /\ receipt = [seen |-> {}, first |-> 0, seq |-> 0]
    /\ mounted = FALSE /\ fetch = NoFetch /\ trailing = FALSE /\ data = Unread
    /\ error = FALSE /\ trouble = 0

\* A change commits with its event: a new message, a change of one, or neither.
Commit(event) ==
    /\ Len(events) < MaxSeq
    /\ events' = Append(events, event)
    /\ UNCHANGED << sending, sent, link, mail, receipt, panel, trouble >>

\* prepareRealtimeChat reads the message, then its reactions, after the event.
Prepare(e) ==
    /\ events[e] # Private /\ sent' = sent \cup {e}
    /\ IF e \in sent THEN Trouble ELSE UNCHANGED trouble
    /\ sending' = sending \cup {[seq |-> e, at |-> Len(events)]}
    /\ UNCHANGED << events, link, mail, receipt, panel >>

\* The envelope is emitted to the sockets in the room.
Send(x) ==
    /\ sending' = sending \ {x}
    /\ \E n \in x.at..Len(events) :
          LET m == events[x.seq].of
          IN mail' = IF link # "in" THEN mail
                     ELSE Append(mail, [seq |-> x.seq, of |-> m, row |-> RowAt(m, x.at),
                                        reactions |-> ReactionsAt(m, n)])
    /\ UNCHANGED << events, sent, link, receipt, panel, trouble >>

Shows(d, env) ==
    [d EXCEPT !.shown[env.of] = [row |-> env.row, reactions |-> env.reactions,
                                 stamp |-> Later(env.row, env.seq)]]

\* Mistaken: an envelope is applied whatever the panel already shows.
AppliedAlways(d, env) == Shows(d, env)

\* applyAudienceRealtimeEvent for a message.
Applied(d, env) ==
    IF env.seq < d.sync \/ env.seq < d.shown[env.of].stamp THEN d ELSE Shows(d, env)

\* refresh(true) once what is in flight no longer counts.
Restart ==
    IF fetch.on THEN fetch' = [fetch EXCEPT !.counts = FALSE] /\ trailing' = TRUE
    ELSE fetch' = Launch /\ UNCHANGED trailing

\* The effect of a batch, for an envelope that leaves no gap.
Apply(env) ==
    /\ fetch' = IF fetch.on THEN [fetch EXCEPT !.replay = Append(@, env)]
                ELSE IF data.read THEN fetch ELSE Launch
    /\ data' = IF data.read THEN Applied(data, env) ELSE data
    /\ UNCHANGED trailing

IsGap(seq) == receipt.seq > 0 /\ (seq > receipt.seq + 1 \/ seq < receipt.seq)

\* The receipt, and the panel's batch effect.
Receive ==
    /\ mail # << >> /\ mail' = Tail(mail)
    /\ LET env == Head(mail)
       IN \/ env.seq \in receipt.seen /\ UNCHANGED << receipt, fetch, trailing, data >>
          \/ /\ env.seq \notin receipt.seen
             /\ receipt' = [seen |-> receipt.seen \cup {env.seq},
                            first |-> IF receipt.seq = 0 THEN env.seq ELSE receipt.first,
                            seq |-> Later(env.seq, receipt.seq)]
             /\ \/ ~mounted /\ UNCHANGED << fetch, trailing, data >>
                \/ mounted /\ IsGap(env.seq) /\ Restart /\ UNCHANGED data
                \/ mounted /\ ~IsGap(env.seq) /\ Apply(env)
    /\ UNCHANGED << room, link, mounted, error, trouble >>

\* The socket connects: the sync revision goes up, and sync.request is on its way.
Connect ==
    /\ link = "down" /\ link' = "up"
    /\ IF mounted THEN Restart ELSE UNCHANGED << fetch, trailing >>
    /\ UNCHANGED << room, mail, receipt, mounted, data, error, trouble >>

\* The server has put the socket into the room.
Join ==
    /\ link = "up" /\ link' = "in" /\ UNCHANGED << room, mail, receipt, panel, trouble >>

\* The page has its first snapshot and shows the panel, which refreshes.
Mount ==
    /\ link = "in" /\ ~mounted /\ mounted' = TRUE /\ fetch' = Launch
    /\ UNCHANGED << room, link, mail, receipt, trailing, data, error, trouble >>

Disconnect ==
    /\ link # "down" /\ link' = "down" /\ mail' = << >>
    /\ Trouble
    /\ UNCHANGED << room, receipt, panel >>

\* The coalescer's finish.
Finish ==
    /\ fetch' = IF trailing THEN Launch ELSE NoFetch
    /\ trailing' = FALSE

\* hydrateChatPage: a page whose cursor was read at c, its rows at r, its reactions at n.
Page(c, r, n) ==
    [read |-> TRUE, sync |-> c,
     shown |-> [m \in Messages |->
                   IF RowAt(m, r) = 0 THEN Unposted
                   ELSE [row |-> RowAt(m, r), reactions |-> ReactionsAt(m, n),
                         stamp |-> Later(RowAt(m, r), c)]]]

\* mergeAudienceSync.
Merged(c, r, n) == FoldLeft(Applied, Page(c, r, n), fetch.replay)

\* The refresh returns; listChat read the cursor, then the messages, then the reactions.
Refreshed ==
    /\ fetch.on /\ Finish
    /\ IF fetch.counts
       THEN /\ \E c \in fetch.from..Len(events) : \E r \in c..Len(events) :
                  \E n \in r..Len(events) : data' = Merged(c, r, n)
            /\ error' = FALSE
       ELSE UNCHANGED << data, error >>
    /\ UNCHANGED << room, link, mail, receipt, mounted, trouble >>

RefreshFails ==
    /\ fetch.on /\ Finish /\ Trouble
    /\ error' = (error \/ fetch.counts)
    /\ UNCHANGED << room, link, mail, receipt, mounted, data >>

PanelNext ==
    \/ Commit(Private)
    \/ Commit(Of(Len(events) + 1, "message"))
    \/ \E m \in Seqs, kind \in {"message", "reaction"} :
          RowAt(m, Len(events)) # 0 /\ Commit(Of(m, kind))
    \/ \E e \in Seqs : Prepare(e)
    \/ \E x \in sending : Send(x)
    \/ Receive \/ Connect \/ Join \/ Mount \/ Disconnect \/ Refreshed \/ RefreshFails

PanelSpec == PanelInit /\ [][PanelNext]_panelVars

-------------------------------------------------------------------------------

Kinds == {Private} \cup {Of(m, kind) : m \in Messages, kind \in {"message", "reaction"}}
Envelopes == [seq : Seqs, of : Seqs, row : 0..Len(events), reactions : 0..Len(events)]

PanelTypeOK ==
    /\ events \in Seq(Kinds) /\ Len(events) <= MaxSeq /\ sent \subseteq Seqs
    /\ sending \subseteq [seq : Seqs, at : Seqs]
    /\ link \in {"down", "up", "in"} /\ mail \in Seq(Envelopes)
    /\ receipt \in [seen : SUBSET Seqs, first : 0..Len(events), seq : 0..Len(events)]
    /\ mounted \in BOOLEAN /\ trailing \in BOOLEAN /\ error \in BOOLEAN
    /\ fetch \in [on : BOOLEAN, from : 0..Len(events), counts : BOOLEAN,
                  replay : Seq(Envelopes)]
    /\ data \in [read : BOOLEAN, sync : 0..Len(events),
                 shown : [Messages -> [row : 0..Len(events), reactions : 0..Len(events),
                                       stamp : 0..Len(events)]]]
    /\ trouble \in 0..MaxTrouble

Public == {e \in Seqs : events[e] # Private}

\* Nothing is on its way to the viewer, who has heard of the newest event.
Settled ==
    /\ link = "in" /\ mounted /\ mail = << >> /\ sending = {} /\ ~fetch.on /\ ~error
    /\ Public \subseteq sent
    /\ \A e \in Public : e <= receipt.seq \/ e <= data.sync

ShowsAll ==
    \A m \in Messages : /\ data.shown[m].row = RowAt(m, Len(events))
                        /\ data.shown[m].reactions = ReactionsAt(m, Len(events))

\* The page was read after whatever preceded the first envelope the viewer received: a gap
\* before that one its receipt does not see (IsGap).
FirstIsLinked == receipt.first = 0 \/ data.sync + 1 >= receipt.first

\* A viewer for whom nothing is on its way shows every message as it is, with its
\* reactions: no duplicate, no late or lost envelope, no dropped connection and no refresh
\* that races them leaves it stale.
PanelIsCurrent == Settled /\ FirstIsLinked => ShowsAll

PanelInv == PanelTypeOK /\ PanelIsCurrent

\* No envelope takes the panel back to an earlier state of a message, though envelopes
\* overtake each other: one that was removed does not come back.
EnvelopesNeverGoBack ==
    [][Receive => \A m \in Messages :
          data'.shown[m].row >= data.shown[m].row]_panelVars
===============================================================================
