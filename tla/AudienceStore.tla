---------------------------- MODULE AudienceStore ----------------------------
(* What an audience may still do, and what its hosts have decided: pulse,     *)
(* chat, reactions, reports, settings and restrictions of one session. Every  *)
(* request reads what it decides on, then locks the session's settings and    *)
(* writes its change with its event; requests overlap and are sent again      *)
(* (apps/server/src/interaction-service.ts, packages/db/src/postgres.ts).     *)
EXTENDS Naturals, Sequences, FiniteSets

CONSTANTS
    MaxRequests,        \* bound on the requests
    Speakers,           \* participants
    Nobody,
    Quota,              \* messages a participant may post (200 in the code)
    MaxRetries          \* bound on requests that arrive twice

ASSUME StoreAssumption ==
    MaxRequests \in Nat /\ Quota \in Nat \ {0} /\ MaxRetries \in Nat /\ Nobody \notin Speakers

VARIABLES
    settings,   \* session_interaction_settings: in place, closed, and what is enabled
    finished,   \* the session is over
    restriction,\* session_audience_restrictions
    qnaBans,    \* qna_bans
    messages,   \* chat_messages
    log,        \* audience_outbox by audience_seq, with what each event decided
    tries,      \* requests under way: key, try, what they ask for and have read
    arrived,    \* how many requests arrived; each one's number is its idempotency key
    resent,     \* how many of them arrived twice
    closedAt    \* how much was logged when the session finished

stored == << settings, restriction, qnaBans, messages, log >>
storeVars == << stored, finished, closedAt, tries, arrived, resent >>

Fresh == [there |-> FALSE, closed |-> FALSE, chat |-> FALSE, signals |-> FALSE]
Defaults == [there |-> TRUE, closed |-> FALSE, chat |-> FALSE, signals |-> TRUE]
Free == [muted |-> FALSE, banned |-> FALSE]
Message(key, n, p) == [id |-> << key, n >>, by |-> p, removed |-> FALSE]

\* A room nobody has looked at, or one that has been talking.
StoreInit ==
    /\ \/ settings = Fresh /\ messages = {}
       \/ /\ settings = [Defaults EXCEPT !.chat = TRUE]
          /\ \E p \in Speakers : messages = {Message(0, 1, p)}
    /\ finished = FALSE /\ closedAt = 0 /\ log = << >> /\ qnaBans = {}
    /\ restriction = [p \in Speakers |-> Free]
    /\ tries = {} /\ arrived = 0 /\ resent = 0

Ask(op, by, on) == [op |-> op, by |-> by, on |-> on]
SettingsOps == {"chat_on", "chat_off", "other_setting"}
RestrictionOps == {"mute", "unmute", "ban", "unban"}
MessageIds == {m.id : m \in messages}

\* Each route's requests: a participant's, then those of the host and the cohosts.
Askable ==
    {Ask(op, p, Nobody) : op \in {"post", "signal"}, p \in Speakers}
        \cup {Ask(op, p, m) : op \in {"post", "react", "report"}, p \in Speakers,
                              m \in MessageIds}
        \cup {Ask(op, Nobody, m) : op \in {"remove", "restore"}, m \in MessageIds}
        \cup {Ask(op, Nobody, Nobody) : op \in SettingsOps}
        \cup {Ask(op, Nobody, p) : op \in RestrictionOps, p \in Speakers}

Logged(key) == \E i \in 1..Len(log) : log[i].key = key
Event(key, ask, decided, chat) ==
    [key |-> key, op |-> ask.op, by |-> ask.by, on |-> ask.on, decided |-> decided,
     chat |-> chat]

\* What a request keeps of what it read.
Try(key, n, ask, at, read) ==
    [key |-> key, n |-> n, ask |-> ask, at |-> at,
     settings |-> IF ask.op \in SettingsOps THEN read ELSE Fresh,
     restriction |-> IF ask.op \in RestrictionOps THEN restriction[ask.on] ELSE Free]

Banned(p) == p \in Speakers /\ restriction[p].banned
NeedsSettings(op) == op \in SettingsOps \cup {"post", "signal", "react"}
Allowed(op, s) ==
    /\ op \in {"post", "react"} => s.chat
    /\ op = "signal" => s.signals

\* ensureOpen, ensureParticipantAllowed, settingsFor and the checks on what they read.
Begins(key, n, ask) ==
    LET refused == \/ finished \/ Banned(ask.by)
                   \/ \E m \in messages : ask.op = "report" /\ m.id = ask.on /\ m.by = ask.by
                   \/ settings.there /\ ~Allowed(ask.op, settings)
        at == IF NeedsSettings(ask.op) /\ ~settings.there THEN "bootstrap" ELSE "write"
    IN tries' = IF refused THEN tries ELSE tries \cup {Try(key, n, ask, at, settings)}

Arrives(ask) ==
    /\ arrived < MaxRequests /\ arrived' = arrived + 1 /\ Begins(arrived + 1, 1, ask)
    /\ UNCHANGED << stored, finished, closedAt, resent >>

\* The same request again, while its first try is under way.
ArrivesAgain(t) ==
    /\ t.n = 1 /\ resent < MaxRetries /\ resent' = resent + 1 /\ Begins(t.key, 2, t.ask)
    /\ UNCHANGED << stored, finished, closedAt, arrived >>

\* settingsFor finds none: saveInteractionSettings with the session's bootstrap key.
Bootstrap(t) ==
    LET goesOn(s) == tries' = (tries \ {t}) \cup {Try(t.key, t.n, t.ask, "write", s)}
    IN /\ t.at = "bootstrap" /\ ~settings.closed
       /\ \/ Logged(0) /\ goesOn(settings) /\ UNCHANGED << settings, log >>
          \/ /\ ~Logged(0) /\ ~finished /\ goesOn(Defaults) /\ settings' = Defaults
             /\ log' = Append(log, Event(0, Ask("settings", Nobody, Nobody), Free, FALSE))
       /\ UNCHANGED << restriction, qnaBans, messages, finished, closedAt, arrived, resent >>

Posted(p) == Cardinality({m \in messages : m.by = p})
Removed(id) == \E m \in messages : m.id = id /\ m.removed

\* Mistaken: createChatMessage trusts what was read before the lock.
PostsAnyway(t, ask) ==
    /\ messages' = messages \cup {Message(t.key, t.n, ask.by)}
    /\ log' = Append(log, Event(t.key, ask, Free, settings.chat))
    /\ UNCHANGED << settings, restriction, qnaBans >>

\* createChatMessage, with the checks it repeats under the lock.
Posts(t, ask) ==
    /\ settings.chat /\ restriction[ask.by] = Free /\ Posted(ask.by) < Quota
    /\ ~Removed(ask.on)
    /\ messages' = messages \cup {Message(t.key, t.n, ask.by)}
    /\ log' = Append(log, Event(t.key, ask, Free, settings.chat))
    /\ UNCHANGED << settings, restriction, qnaBans >>

\* setParticipantSignal, setChatReaction and reportChatMessage.
Reacts(t, ask) ==
    /\ ask.op = "signal" => ~restriction[ask.by].banned
    /\ ask.op = "react" => ~Removed(ask.on)
    /\ log' = Append(log, Event(t.key, ask, Free, settings.chat))
    /\ UNCHANGED << settings, restriction, qnaBans, messages >>

\* updateChatMessage.
Moderates(t, ask) ==
    /\ messages' = {IF m.id = ask.on THEN [m EXCEPT !.removed = (ask.op = "remove")] ELSE m :
                       m \in messages}
    /\ log' = Append(log, Event(t.key, ask, Free, settings.chat))
    /\ UNCHANGED << settings, restriction, qnaBans >>

\* saveInteractionSettings writes back everything updateSettings has read.
SavesSettings(t, ask) ==
    LET chat == CASE ask.op = "chat_on" -> TRUE
                  [] ask.op = "chat_off" -> FALSE
                  [] OTHER -> t.settings.chat
    IN /\ settings' = [settings EXCEPT !.chat = chat, !.signals = t.settings.signals]
       /\ log' = Append(log, Event(t.key, ask, Free, chat))
       /\ UNCHANGED << restriction, qnaBans, messages >>

\* saveAudienceRestriction, on what moderateParticipant has read of it.
SavesRestriction(t, ask) ==
    LET new == CASE ask.op = "mute" -> [t.restriction EXCEPT !.muted = TRUE]
                 [] ask.op = "unmute" -> [t.restriction EXCEPT !.muted = FALSE]
                 [] ask.op = "ban" -> [t.restriction EXCEPT !.banned = TRUE]
                 [] OTHER -> [t.restriction EXCEPT !.banned = FALSE]
    IN /\ restriction' = [restriction EXCEPT ![ask.on] = new]
       /\ qnaBans' = IF new.banned THEN qnaBans \cup {ask.on} ELSE qnaBans \ {ask.on}
       /\ log' = Append(log, Event(t.key, ask, new, settings.chat))
       /\ UNCHANGED << settings, messages >>

Changes(t, ask) ==
    \/ ask.op = "post" /\ Posts(t, ask)
    \/ ask.op \in {"signal", "react", "report"} /\ Reacts(t, ask)
    \/ ask.op \in {"remove", "restore"} /\ Moderates(t, ask)
    \/ ask.op \in SettingsOps /\ SavesSettings(t, ask)
    \/ ask.op \in RestrictionOps /\ SavesRestriction(t, ask)

\* The transaction: lockInteractionSettings, existingAudienceEvent, the change.
Write(t) ==
    /\ t.at = "write" /\ settings.there /\ ~settings.closed /\ ~Logged(t.key)
    /\ Changes(t, t.ask) /\ tries' = tries \ {t}
    /\ UNCHANGED << finished, closedAt, arrived, resent >>

\* Refused under the lock, answered as a duplicate, over a limit, or lost.
Unwritten(t) ==
    /\ tries' = tries \ {t}
    /\ UNCHANGED << stored, finished, closedAt, arrived, resent >>

\* moderateQuestion with banParticipant.
BanFromQna(p) ==
    /\ ~finished /\ p \notin qnaBans /\ qnaBans' = qnaBans \cup {p}
    /\ UNCHANGED << settings, restriction, messages, log, finished, closedAt, tries, arrived,
                    resent >>

\* saveSession with the finished state.
FinishSession ==
    /\ ~finished /\ finished' = TRUE /\ closedAt' = Len(log)
    /\ settings' = IF settings.there
                   THEN [settings EXCEPT !.closed = TRUE, !.chat = FALSE, !.signals = FALSE]
                   ELSE settings
    /\ UNCHANGED << restriction, qnaBans, messages, log, tries, arrived, resent >>

StoreNext ==
    \/ \E ask \in Askable : Arrives(ask)
    \/ \E t \in tries : ArrivesAgain(t) \/ Bootstrap(t) \/ Write(t) \/ Unwritten(t)
    \/ \E p \in Speakers : BanFromQna(p)
    \/ FinishSession

StoreSpec == StoreInit /\ [][StoreNext]_storeVars

-------------------------------------------------------------------------------

StoreTypeOK ==
    /\ settings \in [there : BOOLEAN, closed : BOOLEAN, chat : BOOLEAN, signals : BOOLEAN]
    /\ finished \in BOOLEAN /\ closedAt \in 0..Len(log) /\ qnaBans \subseteq Speakers
    /\ restriction \in [Speakers -> [muted : BOOLEAN, banned : BOOLEAN]]
    /\ \A m \in messages : m.by \in Speakers /\ m.removed \in BOOLEAN
    /\ arrived \in 0..MaxRequests /\ resent \in 0..MaxRetries
    /\ \A t \in tries : t.key \in 1..arrived /\ t.n \in {1, 2} /\ t.at \in {"bootstrap", "write"}

\* Each request, however often it is sent and however its tries overlap, leaves one event
\* and at most one message.
RequestsCountOnce ==
    /\ \A i, j \in 1..Len(log) : log[i].key = log[j].key => i = j
    /\ \A m, n \in messages : m.id[1] = n.id[1] => m = n

\* After an event that silences a participant (a ban or a mute), nothing of theirs is
\* accepted before one that restores them, though it was allowed when it was read.
SilencedIsSilent ==
    \A i, j \in 1..Len(log) :
        /\ i < j /\ log[i].op \in RestrictionOps /\ log[j].by = log[i].on
        /\ \/ log[j].op = "signal" /\ log[i].decided.banned
           \/ log[j].op = "post" /\ log[i].decided # Free
        => \E k \in i + 1..j - 1 : log[k].op \in RestrictionOps /\ log[k].on = log[i].on

\* Nobody replies or reacts to a message between its removal and its return.
RemovedIsLeftAlone ==
    \A i, j \in 1..Len(log) :
        i < j /\ log[i].op = "remove" /\ log[j].op \in {"post", "react"}
              /\ log[j].on = log[i].on
        => \E k \in i + 1..j - 1 : log[k].op = "restore" /\ log[k].on = log[i].on

\* After chat is closed nothing is posted before it is enabled again; after the session
\* nothing happens at all.
ClosedIsClosed ==
    /\ \A j \in 1..Len(log) : log[j].op = "post" => log[j].chat
    /\ finished => Len(log) = closedAt

\* A participant's messages stay within the limit, however many requests run at once.
QuotaHolds == \A p \in Speakers : Posted(p) <= Quota

\* Whoever is banned from the audience is banned from its questions.
BansReachQuestions == \A p \in Speakers : restriction[p].banned => p \in qnaBans

StoreInv ==
    /\ StoreTypeOK /\ RequestsCountOnce /\ SilencedIsSilent /\ RemovedIsLeftAlone
    /\ ClosedIsClosed /\ QuotaHolds /\ BansReachQuestions
===============================================================================
